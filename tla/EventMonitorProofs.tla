------------------------- MODULE EventMonitorProofs -------------------------
(***************************************************************************)
(* Proofs about the event monitor, for all sets of threads, functions and  *)
(* addresses, all programs and all scripts: TypeOK, OwnEventExact,         *)
(* InFuncExact and BoundToArgument, NoAbort for scripts that bind a        *)
(* variable before they test it, and SelectedStays for scripts that read   *)
(* the argument of a thread they have selected at its entry.               *)
(*                                                                         *)
(* TypeInv, EventInv, StackInv and CountInv are preserved together.  A     *)
(* handler writes the auxiliary state one variable at a time, so EventInv  *)
(* and CountInv speak of the entries that are shown and of the ones that   *)
(* are still to be written: recent[t] and the stack are ahead of aux by    *)
(* the writes in todo[t], when the thread enters its event, and behind it  *)
(* when the thread clears its event.  ArgumentInv does the same for Arg0:  *)
(* what it holds is the argument of a frame of the thread or of a call it  *)
(* has reported.  EntryInv and SelectedInv follow an entry from the        *)
(* handler of FuncEnter through the evaluation to the selected thread.     *)
(***************************************************************************)
EXTENDS EventMonitor, FiniteSetTheorems, TLAPS

USE DEF scriptVars, sutVars, vars, At, Idle, Does, Goto

\* What Decide changes: the node is consumed or put back, and the thread leaves it
\* or stays.
Decided(t) ==
  /\ holder' = NULL /\ lit' = [lit EXCEPT ![t] = 1]
  /\ \/ node' = 0 /\ stmt' = stmt + 1 /\ firstHeld' = FALSE
     \/ UNCHANGED <<node, stmt, firstHeld>>
  /\ \/ tvar' = tvar /\ (stmt' # stmt => Script[node].bind = NULL)
     \/ Script[node].bind \in Vars /\ tvar' = [tvar EXCEPT ![Script[node].bind] = t]
  /\ \/ Finish(t)
     \/ pc' = [pc EXCEPT ![t] = "set"] /\ UNCHANGED <<todo, recent>>

\* What a part of an evaluation changes: it goes on to the value, to the next
\* literal, or decides.
Evaluated(t) ==
  /\ aborted = "none" /\ pc[t] \in {"eval", "get"} /\ todo[t] = <<>>
  /\ holder = t /\ node \in DOMAIN Script /\ node = stmt /\ Script[node].kind # "readArg"
  /\ lit[t] \in DOMAIN Script[node].lits
  /\ UNCHANGED <<aux, enabled, event, code, stack>>
  /\ avar' \in [Names -> Nat \cup {NULL}]
  /\ \/ /\ pc' = [pc EXCEPT ![t] = "get"]
        /\ UNCHANGED <<tvar, stmt, node, firstHeld, holder, todo, recent, lit>>
     \/ /\ pc' = [pc EXCEPT ![t] = "eval"]
        /\ lit' = [lit EXCEPT ![t] = lit[t] + 1] /\ lit[t] + 1 <= Len(Script[node].lits)
        /\ UNCHANGED <<tvar, stmt, node, firstHeld, holder, todo, recent>>
     \/ Decided(t)

Evaluates(t) == EvalIsSet(t) \/ EvalGet(t)

\* The statements of a script.
LEMMA Statement ==
  ASSUME NEW i \in DOMAIN Script, Script[i].kind # "readArg"
  PROVE  /\ Script[i].bind \in Vars \cup {NULL}
              /\ Script[i].kind \in {"through", "until", "select"}
         /\ Len(Script[i].lits) \in Nat /\ Len(Script[i].lits) >= 1
         /\ DOMAIN Script[i].lits = 1..Len(Script[i].lits)
         /\ \A j \in DOMAIN Script[i].lits : IsLiteral(Script[i].lits[j])
<1>1. IsStatement(Script[i])
  BY EventMonitorAssumption
<1>2. QED
  BY <1>1 DEF IsStatement

\* What is read of an auxiliary variable is a value or nothing.
LEMMA GetType ==
  ASSUME NEW v, NEW t, NEW k, aux \subseteq AuxVars \X Tids \X Keys \X Nat
  PROVE  Get(v, t, k) \in Nat \cup {NULL} /\ Count(v, t, k) \in Nat
<1>1. CASE IsSet(v, t, k)
  <2>1. \E e \in Entries(v, t) : k = NULL \/ e[3] = k
    BY <1>1 DEF IsSet
  <2>2. PICK e \in Entries(v, t) : e = CHOOSE d \in Entries(v, t) : k = NULL \/ d[3] = k
    BY <2>1
  <2>3. e[4] \in Nat
    BY <2>2 DEF Entries
  <2>4. QED
    BY <1>1, <2>2, <2>3 DEF Get, Count
<1>2. CASE ~IsSet(v, t, k)
  BY <1>2 DEF Get, Count
<1>3. QED
  BY <1>1, <1>2

\* What Decide does is what Decided says.
LEMMA DecideEffect ==
  ASSUME NEW t \in Threads, NEW b \in BOOLEAN, Decide(t, b),
         node \in DOMAIN Script, Script[node].kind # "readArg"
  PROVE  Decided(t)
<1>1. Script[node].bind \in Vars \cup {NULL}
  BY Statement
<1>2. /\ holder' = NULL /\ lit' = [lit EXCEPT ![t] = 1]
  BY DEF Decide
<1>3. IF b THEN node' = 0 /\ stmt' = stmt + 1 /\ firstHeld' = FALSE
      ELSE UNCHANGED <<node, stmt, firstHeld>>
  BY DEF Decide, Consumes
<1>4. \/ tvar' = tvar /\ (b => Script[node].bind = NULL)
      \/ Script[node].bind \in Vars /\ tvar' = [tvar EXCEPT ![Script[node].bind] = t]
  BY <1>1 DEF Decide, Consumes
<1>5. \/ Finish(t)
      \/ pc' = [pc EXCEPT ![t] = "set"] /\ UNCHANGED <<todo, recent>>
  BY DEF Decide
<1>6. QED
  BY <1>2, <1>3, <1>4, <1>5 DEF Decided

\* What Advance does is what Evaluated says.
LEMMA AdvanceEffect ==
  ASSUME NEW t \in Threads, NEW b \in BOOLEAN, ScriptInv, holder = t, Advance(t, b)
  PROVE  \/ /\ pc' = [pc EXCEPT ![t] = "eval"]
            /\ lit' = [lit EXCEPT ![t] = lit[t] + 1] /\ lit[t] + 1 <= Len(Script[node].lits)
            /\ UNCHANGED <<tvar, stmt, node, firstHeld, holder, todo, recent>>
         \/ Decided(t)
<1>1. /\ node \in DOMAIN Script /\ Script[node].kind # "readArg"
      /\ lit[t] \in Nat /\ lit[t] <= Len(Script[node].lits)
           /\ Len(Script[node].lits) \in Nat
  BY EventMonitorAssumption, Statement DEF ScriptInv, End, Tids
<1> DEFINE v == b # Literal(t).neg
           c == v /\ (Script[node].kind = "select" => EvalTerms(t, Script[node].all))
<1>2. CASE v = (Script[node].op = "OR") \/ lit[t] = Len(Script[node].lits)
  <2>1. Decide(t, c) /\ c \in BOOLEAN
    BY <1>2 DEF Advance
  <2> QED
    BY <1>1, <2>1, DecideEffect
<1>3. CASE ~(v = (Script[node].op = "OR") \/ lit[t] = Len(Script[node].lits))
  <2>1. /\ lit' = [lit EXCEPT ![t] = lit[t] + 1] /\ Goto(t, "eval")
        /\ UNCHANGED <<tvar, stmt, node, firstHeld, holder, todo, recent>>
    BY <1>3 DEF Advance
  <2> QED
    BY <1>1, <1>3, <2>1
<1>4. QED
  BY <1>2, <1>3

\* What a part of an evaluation does is what Evaluated says.
LEMMA EvaluateEffect ==
  ASSUME TypeInv, NEW t \in Threads, Evaluates(t)
  PROVE  Evaluated(t)
<1>1. /\ aborted = "none" /\ pc[t] \in {"eval", "get"} /\ todo[t] = <<>> /\ holder = t
  BY DEF Evaluates, EvalIsSet, EvalGet, TypeInv, ScriptInv, AuxInv
<1>2. /\ node \in DOMAIN Script /\ node = stmt /\ Script[node].kind # "readArg"
      /\ lit[t] \in Nat \ {0} /\ lit[t] <= Len(Script[node].lits)
  BY <1>1, EventMonitorAssumption DEF TypeInv, ScriptInv, End, Tids
<1>3. lit[t] \in DOMAIN Script[node].lits
  BY <1>2, Statement
<1>4. UNCHANGED <<aux, enabled, event, code, stack>>
  BY DEF Evaluates, EvalIsSet, EvalGet
<1>5. avar' \in [Names -> Nat \cup {NULL}]
  <2>1. avar \in [Names -> Nat \cup {NULL}]
    BY DEF TypeInv, ScriptInv
  <2>2. CASE EvalIsSet(t)
    BY <2>1, <2>2 DEF EvalIsSet
  <2>3. CASE EvalGet(t)
    <3>1. Get(Literal(t).var, About(t), Literal(t).key) \in Nat \cup {NULL}
      BY GetType DEF TypeInv, AuxInv
    <3>2. \/ avar' = avar
          \/ avar' = [avar EXCEPT ![Literal(t).value] = Get(Literal(t).var, About(t), Literal(t).key)]
      BY <2>3 DEF EvalGet
    <3> QED
      BY <2>1, <3>1, <3>2
  <2>4. QED
    BY <2>2, <2>3 DEF Evaluates
<1>6. \/ /\ pc' = [pc EXCEPT ![t] = "get"]
         /\ UNCHANGED <<tvar, stmt, node, firstHeld, holder, todo, recent, lit>>
      \/ /\ pc' = [pc EXCEPT ![t] = "eval"]
         /\ lit' = [lit EXCEPT ![t] = lit[t] + 1] /\ lit[t] + 1 <= Len(Script[node].lits)
         /\ UNCHANGED <<tvar, stmt, node, firstHeld, holder, todo, recent>>
      \/ Decided(t)
  <2>1. \/ /\ pc' = [pc EXCEPT ![t] = "get"]
           /\ UNCHANGED <<tvar, stmt, node, firstHeld, holder, todo, recent, lit>>
        \/ \E b \in BOOLEAN : Advance(t, b)
    <3>1. CASE EvalIsSet(t)
      <4>1. IsSet(Literal(t).var, About(t), Literal(t).key) \in BOOLEAN
        BY DEF IsSet
      <4>2. \/ Goto(t, "get")
                 /\ UNCHANGED <<tvar, stmt, node, firstHeld, holder, todo, recent, lit>>
            \/ Advance(t, IsSet(Literal(t).var, About(t), Literal(t).key))
        BY <3>1, <4>1 DEF EvalIsSet
      <4> QED
        BY <4>1, <4>2
    <3>2. CASE EvalGet(t)
      <4>1. \E x, y : Advance(t, x = NULL \/ x = y)
        BY <3>2 DEF EvalGet
      <4>2. PICK x, y : Advance(t, x = NULL \/ x = y)
        BY <4>1
      <4>3. (x = NULL \/ x = y) \in BOOLEAN
        OBVIOUS
      <4> QED
        BY <4>2, <4>3
    <3> QED
      BY <3>1, <3>2 DEF Evaluates
  <2>2. QED
    BY <1>1, <2>1, AdvanceEffect DEF TypeInv
<1>7. QED
  BY <1>1, <1>2, <1>3, <1>4, <1>5, <1>6 DEF Evaluated


\* Every step keeps the Boolean variables Boolean.
LEMMA FlagsStep ==
  ASSUME TypeInv, [Next]_vars PROVE enabled' \in BOOLEAN /\ firstHeld' \in BOOLEAN
<1>0. enabled \in BOOLEAN /\ firstHeld \in BOOLEAN
  BY DEF TypeInv, ScriptInv
<1>1. ASSUME NEW t \in Threads, MemRead(t)
     PROVE  enabled' \in BOOLEAN /\ firstHeld' \in BOOLEAN
  BY <1>1, <1>0 DEF MemRead, Handle
<1>2. ASSUME NEW t \in Threads, MemWrite(t)
     PROVE  enabled' \in BOOLEAN /\ firstHeld' \in BOOLEAN
  BY <1>2, <1>0 DEF MemWrite, Handle
<1>3. ASSUME NEW t \in Threads, MemAccessBefore(t)
     PROVE  enabled' \in BOOLEAN /\ firstHeld' \in BOOLEAN
  BY <1>3, <1>0 DEF MemAccessBefore, Handle
<1>4. ASSUME NEW t \in Threads, FuncCall(t)
     PROVE  enabled' \in BOOLEAN /\ firstHeld' \in BOOLEAN
  BY <1>4, <1>0 DEF FuncCall, Handle
<1>5. ASSUME NEW t \in Threads, FuncEnter(t)
     PROVE  enabled' \in BOOLEAN /\ firstHeld' \in BOOLEAN
  BY <1>5, <1>0 DEF FuncEnter, Handle
<1>6. ASSUME NEW t \in Threads, FuncReturn(t)
     PROVE  enabled' \in BOOLEAN /\ firstHeld' \in BOOLEAN
  BY <1>6, <1>0 DEF FuncReturn, Handle
<1>7. ASSUME NEW t \in Threads, AtPc(t)
     PROVE  enabled' \in BOOLEAN /\ firstHeld' \in BOOLEAN
  BY <1>7, <1>0 DEF AtPc, Handle
<1>8. ASSUME NEW t \in Threads, EndInstrument(t)
     PROVE  enabled' \in BOOLEAN /\ firstHeld' \in BOOLEAN
  BY <1>8, <1>0 DEF EndInstrument, Finish
<1>9. ASSUME NEW t \in Threads, ThreadEnd(t)
     PROVE  enabled' \in BOOLEAN /\ firstHeld' \in BOOLEAN
  BY <1>9, <1>0 DEF ThreadEnd
<1>10. ASSUME NEW t \in Threads, StartTest(t)
      PROVE  enabled' \in BOOLEAN /\ firstHeld' \in BOOLEAN
  BY <1>10, <1>0 DEF StartTest
<1>11. ASSUME NEW t \in Threads, EndTest(t)
      PROVE  enabled' \in BOOLEAN /\ firstHeld' \in BOOLEAN
  BY <1>11, <1>0 DEF EndTest
<1>12. ASSUME NEW t \in Threads, InsertEndNode(t)
      PROVE  enabled' \in BOOLEAN /\ firstHeld' \in BOOLEAN
  BY <1>12, <1>0 DEF InsertEndNode
<1>13. ASSUME NEW t \in Threads, WriteAux(t)
      PROVE  enabled' \in BOOLEAN /\ firstHeld' \in BOOLEAN
  BY <1>13, <1>0 DEF WriteAux
<1>14. ASSUME NEW t \in Threads, Return(t)
      PROVE  enabled' \in BOOLEAN /\ firstHeld' \in BOOLEAN
  BY <1>14, <1>0 DEF Return, Resume
<1>15. ASSUME NEW t \in Threads, TakeNode(t)
      PROVE  enabled' \in BOOLEAN /\ firstHeld' \in BOOLEAN
  <2>1. enabled' = enabled /\ firstHeld' = (firstHeld \/ EvalTerms(t, Script[node].first))
    BY <1>15 DEF TakeNode
  <2> QED
    BY <1>0, <2>1
<1>16. ASSUME NEW t \in Threads, SeeEndNode(t)
      PROVE  enabled' \in BOOLEAN /\ firstHeld' \in BOOLEAN
  BY <1>16, <1>0 DEF SeeEndNode, InTransition, Finish
<1>17. ASSUME NEW t \in Threads, Evaluates(t)
      PROVE  enabled' \in BOOLEAN /\ firstHeld' \in BOOLEAN
  <2>1. enabled' = enabled /\ (firstHeld' = firstHeld \/ firstHeld' = FALSE)
    BY <1>17, EvaluateEffect DEF Evaluated, Decided
  <2> QED
    BY <1>0, <2>1
<1>18. ASSUME NEW t \in Threads, AfterTransition(t)
      PROVE  enabled' \in BOOLEAN /\ firstHeld' \in BOOLEAN
  BY <1>18, <1>0 DEF AfterTransition, Resume
<1>19. ASSUME NEW t \in Threads, LeaveFunction(t)
      PROVE  enabled' \in BOOLEAN /\ firstHeld' \in BOOLEAN
  BY <1>19, <1>0 DEF LeaveFunction, Resume
<1>20. ASSUME Submit PROVE enabled' \in BOOLEAN /\ firstHeld' \in BOOLEAN
  BY <1>20, <1>0 DEF Submit
<1>21. ASSUME ReadArg PROVE enabled' \in BOOLEAN /\ firstHeld' \in BOOLEAN
  BY <1>21, <1>0 DEF ReadArg
<1>22. ASSUME EndScript PROVE enabled' \in BOOLEAN /\ firstHeld' \in BOOLEAN
  BY <1>22, <1>0 DEF EndScript
<1>23. ASSUME RunUncontrolled PROVE enabled' \in BOOLEAN /\ firstHeld' \in BOOLEAN
  BY <1>23, <1>0 DEF RunUncontrolled
<1>24. ASSUME Restart PROVE enabled' \in BOOLEAN /\ firstHeld' \in BOOLEAN
  BY <1>24, <1>0 DEF Restart
<1>25. ASSUME Terminated PROVE enabled' \in BOOLEAN /\ firstHeld' \in BOOLEAN
  BY <1>25, <1>0 DEF Terminated
<1>26. CASE UNCHANGED vars
  BY <1>26, <1>0 DEF vars
<1>27. QED
  BY <1>1, <1>2, <1>3, <1>4, <1>5, <1>6, <1>7, <1>8, <1>9, <1>10, <1>11, <1>12, <1>13,
     <1>14, <1>15, <1>16, <1>17, <1>18, <1>19, <1>20, <1>21, <1>22, <1>23, <1>24, <1>25,
     <1>26 DEF Next, SutSteps, HandlerSteps, ScriptSteps, Evaluates

\* Every step keeps ScriptInv.
LEMMA ScriptStep == TypeInv /\ [Next]_vars => ScriptInv'
<1> SUFFICES ASSUME TypeInv, [Next]_vars PROVE ScriptInv'
  OBVIOUS
<1>0. ScriptInv /\ NULL \notin Threads /\ NULL \notin Vars /\ TID \notin Vars
      /\ Len(Script) \in Nat /\ DOMAIN Script = 1..Len(Script)
  BY EventMonitorAssumption DEF TypeInv
<1>a. enabled' \in BOOLEAN /\ firstHeld' \in BOOLEAN
  BY FlagsStep
<1> USE DEF ScriptInv, End, Tids, TVars
<1>1. ASSUME NEW t \in Threads, MemRead(t) PROVE ScriptInv'
  BY <1>1, <1>0, <1>a DEF MemRead, Handle
<1>2. ASSUME NEW t \in Threads, MemWrite(t) PROVE ScriptInv'
  BY <1>2, <1>0, <1>a DEF MemWrite, Handle
<1>3. ASSUME NEW t \in Threads, MemAccessBefore(t) PROVE ScriptInv'
  BY <1>3, <1>0, <1>a DEF MemAccessBefore, Handle
<1>4. ASSUME NEW t \in Threads, FuncCall(t) PROVE ScriptInv'
  BY <1>4, <1>0, <1>a DEF FuncCall, Handle
<1>5. ASSUME NEW t \in Threads, FuncEnter(t) PROVE ScriptInv'
  BY <1>5, <1>0, <1>a DEF FuncEnter, Handle
<1>6. ASSUME NEW t \in Threads, FuncReturn(t) PROVE ScriptInv'
  BY <1>6, <1>0, <1>a DEF FuncReturn, Handle
<1>7. ASSUME NEW t \in Threads, AtPc(t) PROVE ScriptInv'
  BY <1>7, <1>0, <1>a DEF AtPc, Handle
<1>8. ASSUME NEW t \in Threads, EndInstrument(t) PROVE ScriptInv'
  BY <1>8, <1>0, <1>a DEF EndInstrument, Finish
<1>9. ASSUME NEW t \in Threads, ThreadEnd(t) PROVE ScriptInv'
  BY <1>9, <1>0, <1>a DEF ThreadEnd
<1>10. ASSUME NEW t \in Threads, StartTest(t) PROVE ScriptInv'
  BY <1>10, <1>0, <1>a DEF StartTest
<1>11. ASSUME NEW t \in Threads, EndTest(t) PROVE ScriptInv'
  BY <1>11, <1>0, <1>a DEF EndTest
<1>12. ASSUME NEW t \in Threads, InsertEndNode(t) PROVE ScriptInv'
  BY <1>12, <1>0, <1>a DEF InsertEndNode
<1>13. ASSUME NEW t \in Threads, WriteAux(t) PROVE ScriptInv'
  BY <1>13, <1>0, <1>a DEF WriteAux
<1>14. ASSUME NEW t \in Threads, Return(t) PROVE ScriptInv'
  BY <1>14, <1>0, <1>a DEF Return, Resume
<1>15. ASSUME NEW t \in Threads, TakeNode(t) PROVE ScriptInv'
  <2>1. Len(Script[node].lits) \in Nat /\ Len(Script[node].lits) >= 1
    BY <1>15, <1>0, Statement DEF TakeNode
  <2> QED
    BY <1>15, <1>0, <1>a, <2>1 DEF TakeNode, InTransition
<1>16. ASSUME NEW t \in Threads, SeeEndNode(t) PROVE ScriptInv'
  BY <1>16, <1>0, <1>a DEF SeeEndNode, InTransition, Finish
<1>17. ASSUME NEW t \in Threads, Evaluates(t) PROVE ScriptInv'
  <2>1. Evaluated(t)
    BY <1>17, EvaluateEffect
  <2>2. CASE ~Decided(t)
    <3>1. /\ holder = t /\ UNCHANGED <<tvar, stmt, node, holder>>
          /\ \E l \in {"eval", "get"} : pc' = [pc EXCEPT ![t] = l]
          /\ avar' \in [Names -> Nat \cup {NULL}]
      BY <2>1, <2>2 DEF Evaluated
    <3>2. \E n \in Nat \ {0} : lit' = [lit EXCEPT ![t] = n] /\ n <= Len(Script[node].lits)
      <4>1. lit[t] \in Nat \ {0} /\ lit = [lit EXCEPT ![t] = lit[t]]
            /\ lit[t] <= Len(Script[node].lits) /\ lit[t] + 1 \in Nat \ {0}
        BY <1>0, <3>1
      <4> QED
        BY <2>1, <2>2, <4>1 DEF Evaluated
    <3> QED
      BY <1>0, <1>a, <3>1, <3>2
  <2>3. CASE Decided(t)
    <3>1. /\ node \in 1..Len(Script) /\ node = stmt /\ Script[node].kind # "readArg"
          /\ holder = t /\ pc[t] \in {"eval", "get"}
          /\ avar' \in [Names -> Nat \cup {NULL}]
      BY <1>0, <2>1 DEF Evaluated
    <3>2. tvar' \in [TVars -> Tids]
      BY <1>0, <2>3 DEF Decided
    <3>3. /\ holder' = NULL /\ lit' = [lit EXCEPT ![t] = 1]
          /\ (node' = 0 /\ stmt' = stmt + 1) \/ (node' = node /\ stmt' = stmt)
          /\ \E l \in {"set", "finish"} : pc' = [pc EXCEPT ![t] = l]
      BY <2>3 DEF Decided, Finish
    <3> QED
      BY <1>0, <1>a, <3>1, <3>2, <3>3
  <2> QED
    BY <2>2, <2>3
<1>18. ASSUME NEW t \in Threads, AfterTransition(t) PROVE ScriptInv'
  BY <1>18, <1>0, <1>a DEF AfterTransition, Resume
<1>19. ASSUME NEW t \in Threads, LeaveFunction(t) PROVE ScriptInv'
  BY <1>19, <1>0, <1>a DEF LeaveFunction, Resume
<1>20. ASSUME Submit PROVE ScriptInv'
  BY <1>20, <1>0, <1>a DEF Submit
<1>21. ASSUME ReadArg PROVE ScriptInv'
  <2>1. IsStatement(Script[stmt]) /\ stmt \in 1..Len(Script)
    BY <1>21, <1>0, EventMonitorAssumption DEF ReadArg
  <2>2. Get("Arg0", tvar[Script[stmt].var], Script[stmt].func) \in Nat \cup {NULL}
    BY GetType DEF TypeInv, AuxInv
  <2>3. avar' \in [Names -> Nat \cup {NULL}]
    BY <1>21, <1>0, <2>2 DEF ReadArg
  <2>4. /\ tvar' = tvar /\ node' = node /\ holder' = holder /\ pc' = pc /\ lit' = lit
        /\ stmt' = stmt + 1 /\ node \in {0, End}
    BY <1>21 DEF ReadArg
  <2> QED
    BY <1>0, <1>a, <2>1, <2>3, <2>4
<1>22. ASSUME EndScript PROVE ScriptInv'
  BY <1>22, <1>0, <1>a DEF EndScript
<1>23. ASSUME RunUncontrolled PROVE ScriptInv'
  BY <1>23, <1>0, <1>a DEF RunUncontrolled
<1>24. ASSUME Restart PROVE ScriptInv'
  BY <1>24, <1>0, <1>a DEF Restart
<1>25. ASSUME Terminated PROVE ScriptInv'
  BY <1>25, <1>0, <1>a DEF Terminated
<1>26. CASE UNCHANGED vars
  BY <1>26, <1>0, <1>a DEF vars
<1>27. QED
  BY <1>1, <1>2, <1>3, <1>4, <1>5, <1>6, <1>7, <1>8, <1>9, <1>10, <1>11, <1>12, <1>13,
     <1>14, <1>15, <1>16, <1>17, <1>18, <1>19, <1>20, <1>21, <1>22, <1>23, <1>24, <1>25,
     <1>26 DEF Next, SutSteps, HandlerSteps, ScriptSteps, Evaluates

\* The elements of a sequence.
Elems(s) == {s[i] : i \in DOMAIN s}

\* The elements of the rest of a sequence.
LEMMA ElemsTail ==
  ASSUME NEW S, NEW s \in Seq(S), s # <<>>
  PROVE  /\ Head(s) \in S /\ Tail(s) \in Seq(S)
         /\ Elems(s) = {Head(s)} \cup Elems(Tail(s))
<1>1. /\ Len(s) \in Nat \ {0} /\ Len(Tail(s)) = Len(s) - 1
      /\ \A i \in 1..Len(Tail(s)) : Tail(s)[i] = s[i + 1]
      /\ Head(s) = s[1] /\ DOMAIN s = 1..Len(s) /\ DOMAIN Tail(s) = 1..Len(Tail(s))
      /\ Head(s) \in S /\ Tail(s) \in Seq(S)
  OBVIOUS
<1>2. ASSUME NEW x \in Elems(s) PROVE x = Head(s) \/ x \in Elems(Tail(s))
  <2>1. PICK i \in 1..Len(s) : x = s[i]
    BY <1>1, <1>2 DEF Elems
  <2>2. CASE i = 1
    BY <1>1, <2>1, <2>2
  <2>3. CASE i # 1
    <3>1. i - 1 \in DOMAIN Tail(s) /\ Tail(s)[i - 1] = s[i]
      BY <1>1, <2>3
    <3>2. QED
      BY <2>1, <3>1 DEF Elems
  <2>4. QED
    BY <2>2, <2>3
<1>3. ASSUME NEW x \in Elems(Tail(s)) PROVE x \in Elems(s)
  <2>1. PICK i \in 1..Len(Tail(s)) : x = Tail(s)[i]
    BY <1>1, <1>3 DEF Elems
  <2>2. i + 1 \in DOMAIN s /\ x = s[i + 1]
    BY <1>1, <2>1
  <2>3. QED
    BY <2>2 DEF Elems
<1>4. Head(s) \in Elems(s)
  BY <1>1 DEF Elems
<1>5. QED
  BY <1>1, <1>2, <1>3, <1>4

\* The elements of a concatenation.
LEMMA ElemsConcat ==
  ASSUME NEW S, NEW r \in Seq(S), NEW s \in Seq(S)
  PROVE  /\ r \o s \in Seq(S) /\ Elems(r \o s) = Elems(r) \cup Elems(s)
<1>1. /\ r \o s \in Seq(S) /\ Len(r) \in Nat /\ Len(s) \in Nat
      /\ DOMAIN r = 1..Len(r) /\ DOMAIN s = 1..Len(s)
      /\ DOMAIN (r \o s) = 1..(Len(r) + Len(s))
      /\ \A i \in 1..(Len(r) + Len(s)) :
           (r \o s)[i] = IF i <= Len(r) THEN r[i] ELSE s[i - Len(r)]
  OBVIOUS
<1>2. ASSUME NEW x \in Elems(r \o s) PROVE x \in Elems(r) \cup Elems(s)
  <2>1. PICK i \in 1..(Len(r) + Len(s)) : x = (r \o s)[i]
    BY <1>1, <1>2 DEF Elems
  <2>2. CASE i <= Len(r)
    BY <1>1, <2>1, <2>2 DEF Elems
  <2>3. CASE ~(i <= Len(r))
    <3>1. i - Len(r) \in DOMAIN s /\ x = s[i - Len(r)]
      BY <1>1, <2>1, <2>3
    <3>2. QED
      BY <3>1 DEF Elems
  <2>4. QED
    BY <2>2, <2>3
<1>3. ASSUME NEW x \in Elems(r) PROVE x \in Elems(r \o s)
  <2>1. PICK i \in 1..Len(r) : x = r[i]
    BY <1>1, <1>3 DEF Elems
  <2>2. i \in DOMAIN (r \o s) /\ x = (r \o s)[i]
    BY <1>1, <2>1
  <2>3. QED
    BY <2>2 DEF Elems
<1>4. ASSUME NEW x \in Elems(s) PROVE x \in Elems(r \o s)
  <2>1. PICK i \in 1..Len(s) : x = s[i]
    BY <1>1, <1>4 DEF Elems
  <2>2. i + Len(r) \in DOMAIN (r \o s) /\ x = (r \o s)[i + Len(r)]
    BY <1>1, <2>1
  <2>3. QED
    BY <2>2 DEF Elems
<1>5. QED
  BY <1>1, <1>2, <1>3, <1>4

\* The elements of the sequences handlers start with.
LEMMA ElemsTuple ==
  ASSUME NEW a, NEW b
  PROVE  /\ Elems(<<>>) = {} /\ Elems(<<a>>) = {a} /\ Elems(<<a, b>>) = {a, b}
<1>1. DOMAIN <<a>> = {1} /\ DOMAIN <<a, b>> = {1, 2}
  OBVIOUS
<1>2. QED
  BY <1>1 DEF Elems

\* The elements of a sequence of four.
LEMMA ElemsFour ==
  ASSUME NEW a, NEW b, NEW c, NEW d
  PROVE  Elems(<<a, b, c, d>>) = {a, b, c, d}
<1>1. DOMAIN <<a, b, c, d>> = {1, 2, 3, 4}
  OBVIOUS
<1>2. QED
  BY <1>1 DEF Elems

\* The writes that clear one variable of a thread.
LEMMA ClearedWrites ==
  ASSUME NEW v \in EventVars, NEW t \in Threads
  PROVE  /\ Cleared(v, t) \in Seq(Writes)
         /\ Elems(Cleared(v, t)) = IF Entries(v, t) = {} THEN {} ELSE {ResetVar(v, t)}
<1>1. ResetVar(v, t) \in Writes
  BY DEF ResetVar, Write, Writes, EventVars, AuxVars, Tids, Keys
<1>2. <<>> \in Seq(Writes) /\ <<ResetVar(v, t)>> \in Seq(Writes)
  BY <1>1
<1>3. QED
  BY <1>2, ElemsTuple DEF Cleared

\* AuxState::Reset clears, of the event variables of the thread, those that are set.
LEMMA ResetWrites ==
  ASSUME NEW t \in Threads
  PROVE  /\ Reset(t) \in Seq(Writes)
         /\ Elems(Reset(t)) = {ResetVar(v, t) : v \in {u \in EventVars : Entries(u, t) # {}}}
<1> DEFINE C(v) == Elems(Cleared(v, t))
<1>1. \A v \in EventVars : Cleared(v, t) \in Seq(Writes)
  BY ClearedWrites
<1> DEFINE s2 == Cleared("Reads", t) \o Cleared("Writes", t)
           s3 == s2 \o Cleared("CallsTo", t)
           s4 == s3 \o Cleared("Enters", t)
           s5 == s4 \o Cleared("Returns", t)
           s6 == s5 \o Cleared("AtPc", t)
<1> HIDE DEF C
<1>2. s2 \in Seq(Writes) /\ Elems(s2) = C("Reads") \cup C("Writes")
  BY <1>1, ElemsConcat DEF EventVars, C
<1> HIDE DEF s2
<1>3. s3 \in Seq(Writes) /\ Elems(s3) = Elems(s2) \cup C("CallsTo")
  BY <1>1, <1>2, ElemsConcat DEF EventVars, C
<1> HIDE DEF s3
<1>4. s4 \in Seq(Writes) /\ Elems(s4) = Elems(s3) \cup C("Enters")
  BY <1>1, <1>3, ElemsConcat DEF EventVars, C
<1> HIDE DEF s4
<1>5. s5 \in Seq(Writes) /\ Elems(s5) = Elems(s4) \cup C("Returns")
  BY <1>1, <1>4, ElemsConcat DEF EventVars, C
<1> HIDE DEF s5
<1>6. s6 \in Seq(Writes) /\ Elems(s6) = Elems(s5) \cup C("AtPc")
  BY <1>1, <1>5, ElemsConcat DEF EventVars, C
<1> HIDE DEF s6
<1>7. Reset(t) = s6
  BY DEF Reset, s2, s3, s4, s5, s6
<1>8. Elems(s6) = C("Reads") \cup C("Writes") \cup C("CallsTo") \cup C("Enters")
                    \cup C("Returns") \cup C("AtPc")
  BY <1>2, <1>3, <1>4, <1>5, <1>6
<1>9. \A v \in EventVars : C(v) = IF Entries(v, t) = {} THEN {} ELSE {ResetVar(v, t)}
  BY ClearedWrites DEF C
<1>10. ASSUME NEW w PROVE w \in Elems(s6) <=> \E v \in EventVars : w \in C(v)
  BY <1>8 DEF EventVars
<1>11. QED
  BY <1>6, <1>7, <1>9, <1>10

\* The fields of an event.
LEMMA EventFields ==
  ASSUME NEW t \in Threads, SutInv, code[t] # <<>>
  PROVE  LET e == Head(code[t]) IN
         /\ e.type \in {"MemRead", "MemWrite"} => e.addr \in Addrs
         /\ e.type \in {"FuncCall", "FuncEnter"} => e.func \in Funcs /\ e.arg \in Values
         /\ e.type = "AtPc" => e.pc \in Pcs
         /\ Tail(code[t]) \in Seq(Events)
<1>1. Head(code[t]) \in Events /\ Tail(code[t]) \in Seq(Events)
  BY DEF SutInv
<1>2. QED
  BY <1>1 DEF Events

\* The top of a stack, and what is below.
LEMMA StackFields ==
  ASSUME NEW t \in Threads, SutInv, stack[t] # <<>>
  PROVE  /\ Top(t) \in [func : Funcs, arg : Values, seen : BOOLEAN]
         /\ Pop(t) \in Seq([func : Funcs, arg : Values, seen : BOOLEAN])
         /\ Len(stack[t]) \in Nat \ {0} /\ Len(Pop(t)) = Len(stack[t]) - 1
         /\ \A i \in 1..(Len(stack[t]) - 1) : Pop(t)[i] = stack[t][i]
         /\ DOMAIN stack[t] = 1..Len(stack[t]) /\ DOMAIN Pop(t) = 1..(Len(stack[t]) - 1)
<1> DEFINE S == [func : Funcs, arg : Values, seen : BOOLEAN]
<1>1. stack[t] \in Seq(S)
  BY DEF SutInv
<1> HIDE DEF S
<1>2. Len(stack[t]) \in Nat \ {0} /\ Top(t) \in S /\ DOMAIN stack[t] = 1..Len(stack[t])
  BY <1>1 DEF Top
<1>3. /\ Pop(t) \in Seq(S) /\ Len(Pop(t)) = Len(stack[t]) - 1
      /\ \A i \in 1..(Len(stack[t]) - 1) : Pop(t)[i] = stack[t][i]
  BY <1>1, <1>2 DEF Pop
<1>4. DOMAIN Pop(t) = 1..(Len(stack[t]) - 1)
  BY <1>2, <1>3
<1>5. QED
  BY <1>2, <1>3, <1>4 DEF S


\* Every step keeps AuxInv.
LEMMA AuxStep == TypeInv /\ [Next]_vars => AuxInv'
<1> SUFFICES ASSUME TypeInv, [Next]_vars PROVE AuxInv'
  OBVIOUS
<1>0. /\ AuxInv
           /\ pc \in [Threads -> {"run", "set", "eval", "get", "finish", "after", "endTest", "ended"}]
      /\ aux \subseteq AuxVars \X Tids \X Keys \X Nat
      /\ todo \in [Threads -> Seq(Writes)] /\ event \in [Threads -> Handled]
      /\ Values \subseteq Nat \ {0} /\ Pcs \subseteq Nat
  BY EventMonitorAssumption DEF TypeInv, AuxInv, ScriptInv
<1>h. ASSUME NEW t \in Threads, NEW e \in Handled, NEW ws \in Seq(Writes), NEW entries,
             Handle(t, e, ws, entries)
      PROVE  AuxInv'
  BY <1>0, <1>h DEF Handle, AuxInv
<1>p. ASSUME NEW v \in AuxVars, NEW t \in Tids, NEW k \in Keys, NEW x \in Nat \ {0}
      PROVE  Put(v, t, k, x) \in Writes
  BY DEF Put, Write, Writes
<1>f. ASSUME NEW t \in Threads, Finish(t), UNCHANGED aux, event' \in [Threads -> Handled]
      PROVE  AuxInv'
  BY <1>0, <1>f, ResetWrites DEF Finish, AuxInv
<1>1. ASSUME NEW t \in Threads, MemRead(t) PROVE AuxInv'
  <2>1. code[t] # <<>> /\ Head(code[t]).type = "MemRead"
    BY <1>1 DEF MemRead
  <2>2. <<Put("Reads", t, Head(code[t]).addr, 1)>> \in Seq(Writes)
    <3>1. t \in Tids /\ NULL \in Tids /\ Head(code[t]).addr \in Keys
      BY <2>1, <1>0, EventFields DEF TypeInv, AuxVars, EventVars, Tids, Keys
    <3> QED
      BY <1>p, <3>1 DEF AuxVars, EventVars
  <2>3. [type |-> "MemRead"] \in Handled
    BY <2>1, EventFields DEF TypeInv, Handled
  <2> QED
    BY <1>1, <1>h, <2>2, <2>3 DEF MemRead
<1>2. ASSUME NEW t \in Threads, MemWrite(t) PROVE AuxInv'
  <2>1. code[t] # <<>> /\ Head(code[t]).type = "MemWrite"
    BY <1>2 DEF MemWrite
  <2>2. <<Put("Writes", t, Head(code[t]).addr, 1)>> \in Seq(Writes)
    <3>1. t \in Tids /\ NULL \in Tids /\ Head(code[t]).addr \in Keys
      BY <2>1, <1>0, EventFields DEF TypeInv, AuxVars, EventVars, Tids, Keys
    <3> QED
      BY <1>p, <3>1 DEF AuxVars, EventVars
  <2>3. [type |-> "MemWrite"] \in Handled
    BY <2>1, EventFields DEF TypeInv, Handled
  <2> QED
    BY <1>2, <1>h, <2>2, <2>3 DEF MemWrite
<1>3. ASSUME NEW t \in Threads, MemAccessBefore(t) PROVE AuxInv'
  <2>1. <<>> \in Seq(Writes) /\ [type |-> "MemAccessBefore"] \in Handled
    BY DEF Handled
  <2> QED
    BY <1>3, <1>h, <2>1 DEF MemAccessBefore
<1>4. ASSUME NEW t \in Threads, FuncCall(t) PROVE AuxInv'
  <2>1. code[t] # <<>> /\ Head(code[t]).type = "FuncCall"
    BY <1>4 DEF FuncCall
  <2>2. <<Put("CallsTo", NULL, Head(code[t]).func, 1), Put("Arg0", t, Head(code[t]).func, Head(code[t]).arg)>> \in Seq(Writes)
    <3>1. t \in Tids /\ NULL \in Tids /\ Head(code[t]).func \in Keys
            /\ Head(code[t]).arg \in Nat \ {0}
      BY <2>1, <1>0, EventFields DEF TypeInv, AuxVars, EventVars, Tids, Keys
    <3> QED
      BY <1>p, <3>1 DEF AuxVars, EventVars
  <2>3. [type |-> "FuncCall"] \in Handled
    BY <2>1, EventFields DEF TypeInv, Handled
  <2> QED
    BY <1>4, <1>h, <2>2, <2>3 DEF FuncCall
<1>5. ASSUME NEW t \in Threads, FuncEnter(t) PROVE AuxInv'
  <2>1. code[t] # <<>> /\ Head(code[t]).type = "FuncEnter"
    BY <1>5 DEF FuncEnter
  <2>2. <<Put("Enters", t, Head(code[t]).func, 1),
          Put("InFunc", t, Head(code[t]).func, Count("InFunc", t, Head(code[t]).func) + 1),
          Put("NumInFunc", t, Head(code[t]).func, Count("NumInFunc", t, Head(code[t]).func) + 1),
          Put("Arg0", t, Head(code[t]).func, Head(code[t]).arg)>> \in Seq(Writes)
    <3>1. t \in Tids /\ NULL \in Tids /\ Head(code[t]).func \in Keys
            /\ Head(code[t]).arg \in Nat \ {0}
      BY <2>1, <1>0, EventFields DEF TypeInv, AuxVars, EventVars, Tids, Keys
    <3>2. \A v : Count(v, t, Head(code[t]).func) \in Nat
      BY <1>0, GetType
    <3>3. \A v : Count(v, t, Head(code[t]).func) + 1 \in Nat \ {0}
      BY <3>2
    <3>4. /\ Put("Enters", t, Head(code[t]).func, 1) \in Writes
          /\ Put("InFunc", t, Head(code[t]).func, Count("InFunc", t, Head(code[t]).func) + 1)
               \in Writes
          /\ Put("NumInFunc", t, Head(code[t]).func, Count("NumInFunc", t, Head(code[t]).func) + 1)
               \in Writes
          /\ Put("Arg0", t, Head(code[t]).func, Head(code[t]).arg) \in Writes
      BY <1>p, <3>1, <3>3 DEF AuxVars, EventVars
    <3> QED
      BY <3>4
  <2>3. [type |-> "FuncEnter", func |-> Head(code[t]).func] \in Handled
    BY <2>1, EventFields DEF TypeInv, Handled
  <2> QED
    BY <1>5, <1>h, <2>2, <2>3 DEF FuncEnter
<1>6. ASSUME NEW t \in Threads, FuncReturn(t) PROVE AuxInv'
  <2>1. stack[t] # <<>>
    BY <1>6 DEF FuncReturn
  <2>2. Top(t).func \in Funcs
    BY <2>1, StackFields DEF TypeInv
  <2>3. <<Put("Returns", t, Top(t).func, 1), Put("RetVal", t, Top(t).func, 1)>> \in Seq(Writes)
    <3>1. t \in Tids /\ Top(t).func \in Keys
      BY <2>2 DEF Tids, Keys
    <3> QED
      BY <1>p, <3>1 DEF AuxVars, EventVars
  <2>4. [type |-> "FuncReturn", func |-> Top(t).func] \in Handled
    BY <2>2 DEF Handled
  <2> QED
    BY <1>6, <1>h, <2>3, <2>4 DEF FuncReturn
<1>7. ASSUME NEW t \in Threads, AtPc(t) PROVE AuxInv'
  <2>1. code[t] # <<>> /\ Head(code[t]).type = "AtPc"
    BY <1>7 DEF AtPc
  <2>2. Head(code[t]).pc \in Nat /\ t \in Tids /\ NULL \in Keys
    BY <1>0, <2>1, EventFields DEF TypeInv, Tids, Keys
  <2>3. Put("Pc", t, NULL, Head(code[t]).pc) \in Writes
    BY <2>2 DEF Put, Write, Writes
  <2>4. <<Put("Pc", t, NULL, Head(code[t]).pc), Put("AtPc", t, NULL, 1)>> \in Seq(Writes)
    <3>1. Put("AtPc", t, NULL, 1) \in Writes
      BY <1>p, <2>2 DEF AuxVars, EventVars
    <3> QED
      BY <2>3, <3>1
  <2>5. [type |-> "AtPc"] \in Handled
    BY DEF Handled
  <2> QED
    BY <1>7, <1>h, <2>4, <2>5 DEF AtPc
<1>8. ASSUME NEW t \in Threads, EndInstrument(t) PROVE AuxInv'
  <2>1. [type |-> "EndInstrument"] \in Handled
    BY DEF Handled
  <2>2. CASE enabled
    BY <1>8, <1>0, <1>f, <2>1, <2>2 DEF EndInstrument
  <2>3. CASE ~enabled
    BY <1>8, <1>0, <2>3 DEF EndInstrument, AuxInv
  <2> QED
    BY <2>2, <2>3
<1>9. ASSUME NEW t \in Threads, ThreadEnd(t) PROVE AuxInv'
  <2>1. \A ty \in {"ThreadEnd", "LastEnd"} : [type |-> ty] \in Handled
    BY DEF Handled
  <2>2. <<Put("Ends", t, NULL, 1)>> \in Seq(Writes)
    <3>1. t \in Tids /\ NULL \in Keys
      BY DEF Tids, Keys
    <3> QED
      BY <1>p, <3>1 DEF AuxVars, EventVars
  <2> QED
    BY ZenonT(40), <1>9, <1>0, <2>1, <2>2 DEF ThreadEnd, AuxInv
<1>10. ASSUME NEW t \in Threads, StartTest(t) PROVE AuxInv'
  BY <1>10, <1>0 DEF StartTest, AuxInv
<1>11. ASSUME NEW t \in Threads, EndTest(t) PROVE AuxInv'
  BY <1>11, <1>0 DEF EndTest, AuxInv
<1>12. ASSUME NEW t \in Threads, InsertEndNode(t) PROVE AuxInv'
  BY <1>12, <1>0 DEF InsertEndNode, AuxInv
<1>13. ASSUME NEW t \in Threads, WriteAux(t) PROVE AuxInv'
  <2> DEFINE w == Head(todo[t])
  <2>1. w \in Writes /\ Tail(todo[t]) \in Seq(Writes) /\ aux' = Written(w)
    BY <1>13, <1>0 DEF WriteAux
  <2>2. todo' = [todo EXCEPT ![t] = Tail(todo[t])] /\ UNCHANGED <<pc, event>>
          /\ todo[t] # <<>>
    BY <1>13 DEF WriteAux
  <2> HIDE DEF w
  <2>3. Written(w) \subseteq aux \cup (IF w.op = "put" THEN {<<w.var, w.tid, w.key, w.value>>} ELSE {})
    BY DEF Written
  <2>4. w.op = "put" =>
          /\ <<w.var, w.tid, w.key, w.value>> \in AuxVars \X Tids \X Keys \X Nat
          /\ w.value = 0 => w.var = "Pc"
    BY <2>1 DEF Writes, AuxVars
  <2>5. /\ aux' \subseteq AuxVars \X Tids \X Keys \X Nat
        /\ \A e \in aux' : e[4] = 0 => e[1] = "Pc"
    BY <1>0, <2>1, <2>3, <2>4 DEF AuxInv
  <2>6. /\ todo' \in [Threads -> Seq(Writes)] /\ event' \in [Threads -> Handled]
        /\ \A u \in Threads : todo'[u] # <<>> => pc'[u] \in {"set", "finish", "after"}
    BY <1>0, <2>1, <2>2 DEF AuxInv
  <2> QED
    BY <2>5, <2>6 DEF AuxInv
<1>14. ASSUME NEW t \in Threads, Return(t) PROVE AuxInv'
  <2>1. NoEvent \in Handled
    BY DEF NoEvent, Handled
  <2> QED
    BY <1>14, <1>0, <2>1 DEF Return, Resume, AuxInv
<1>15. ASSUME NEW t \in Threads, TakeNode(t) PROVE AuxInv'
  BY <1>15, <1>0 DEF TakeNode, InTransition, AuxInv
<1>16. ASSUME NEW t \in Threads, SeeEndNode(t) PROVE AuxInv'
  BY <1>16, <1>0, <1>f DEF SeeEndNode, AuxInv
<1>17. ASSUME NEW t \in Threads, Evaluates(t) PROVE AuxInv'
  <2>1. Evaluated(t)
    BY <1>17, EvaluateEffect
  <2>2. CASE Finish(t)
    BY <1>0, <1>f, <2>1, <2>2 DEF Evaluated
  <2>3. CASE ~Finish(t)
    <3>1. UNCHANGED <<aux, event, todo>> /\ todo[t] = <<>>
          /\ \A u \in Threads : u # t => pc'[u] = pc[u]
      BY <1>0, <2>1, <2>3 DEF Evaluated, Decided
    <3> QED
      BY <1>0, <3>1 DEF AuxInv
  <2> QED
    BY <2>2, <2>3
<1>18. ASSUME NEW t \in Threads, AfterTransition(t) PROVE AuxInv'
  <2>1. NoEvent \in Handled
    BY DEF NoEvent, Handled
  <2>2. CASE event[t].type = "FuncReturn" /\ WasEntered(t, event[t].func)
    <3> DEFINE f == event[t].func
               c == Count("InFunc", t, f) - 1
               ws == <<IF c = 0 THEN Erase("InFunc", t, f) ELSE Put("InFunc", t, f, c),
                       Erase("Arg0", t, f)>>
    <3>1. f \in Keys /\ t \in Tids
      <4>1. event[t] \in Handled
        BY <1>0
      <4> QED
        BY <2>2, <4>1 DEF Handled, Keys, Tids
    <3>2. c \in Nat
      <4>1. Count("InFunc", t, f) \in Nat
        BY <1>0, GetType
      <4> QED
        BY <2>2, <4>1 DEF WasEntered
    <3>3. Erase("InFunc", t, f) \in Writes /\ Erase("Arg0", t, f) \in Writes
      BY <3>1 DEF Erase, Write, Writes, AuxVars
    <3>4. c # 0 => Put("InFunc", t, f, c) \in Writes
      BY <1>p, <3>1, <3>2 DEF AuxVars
    <3>5. ws \in Seq(Writes)
      <4> HIDE DEF c
      <4> QED
        BY <3>3, <3>4
    <3>6. /\ Goto(t, "after") /\ UNCHANGED <<event, aux>>
          /\ todo' = [todo EXCEPT ![t] = ws]
      BY <1>18, <2>2 DEF AfterTransition
    <3> HIDE DEF ws
    <3> QED
      BY <1>0, <3>5, <3>6 DEF AuxInv
  <2>3. CASE ~(event[t].type = "FuncReturn" /\ WasEntered(t, event[t].func))
    <3>1. /\ Resume(t, IF event[t].type = "LastEnd" THEN "ended" ELSE "run")
          /\ UNCHANGED <<aux, todo>> /\ todo[t] = <<>>
      BY <1>18, <2>3 DEF AfterTransition
    <3> QED
      BY <1>0, <2>1, <3>1 DEF Resume, AuxInv
  <2> QED
    BY <2>2, <2>3
<1>19. ASSUME NEW t \in Threads, LeaveFunction(t) PROVE AuxInv'
  <2>1. NoEvent \in Handled
    BY DEF NoEvent, Handled
  <2> QED
    BY <1>19, <1>0, <2>1 DEF LeaveFunction, Resume, AuxInv
<1>20. ASSUME Submit PROVE AuxInv'
  BY <1>20, <1>0 DEF Submit, AuxInv
<1>21. ASSUME ReadArg PROVE AuxInv'
  BY <1>21, <1>0 DEF ReadArg, AuxInv
<1>22. ASSUME EndScript PROVE AuxInv'
  BY <1>22, <1>0 DEF EndScript, AuxInv
<1>23. ASSUME RunUncontrolled PROVE AuxInv'
  BY <1>23, <1>0 DEF RunUncontrolled, AuxInv
<1>24. ASSUME Restart PROVE AuxInv'
  <2>1. /\ aux' = {} /\ todo' = todo /\ event' = [u \in Threads |-> NoEvent]
        /\ \A u \in Threads : pc[u] = "ended"
    BY <1>24 DEF Restart, Clear
  <2>2. NoEvent \in Handled
    BY DEF NoEvent, Handled
  <2> QED
    BY <1>0, <2>1, <2>2 DEF AuxInv
<1>25. ASSUME Terminated PROVE AuxInv'
  BY <1>25, <1>0 DEF Terminated, AuxInv
<1>26. CASE UNCHANGED vars
  BY <1>26, <1>0 DEF AuxInv, vars
<1>27. QED
  BY <1>1, <1>2, <1>3, <1>4, <1>5, <1>6, <1>7, <1>8, <1>9, <1>10, <1>11, <1>12, <1>13,
     <1>14, <1>15, <1>16, <1>17, <1>18, <1>19, <1>20, <1>21, <1>22, <1>23, <1>24, <1>25,
     <1>26 DEF Next, SutSteps, HandlerSteps, ScriptSteps, Evaluates

\* Every step keeps SutInv.
LEMMA SutStep == TypeInv /\ [Next]_vars => SutInv'
<1> SUFFICES ASSUME TypeInv, [Next]_vars PROVE SutInv'
  OBVIOUS
<1> DEFINE Frame == [func : Funcs, arg : Values, seen : BOOLEAN]
<1>0. /\ SutInv /\ code \in [Threads -> Seq(Events)] /\ stack \in [Threads -> Seq(Frame)]
      /\ recent \in [Threads -> SUBSET (EventVars \X Keys)]
      /\ Programs \subseteq Seq(Events) /\ enabled \in BOOLEAN
  BY EventMonitorAssumption DEF TypeInv, SutInv, ScriptInv
<1>h. ASSUME NEW t \in Threads, NEW e, NEW ws, NEW entries \in SUBSET (EventVars \X Keys),
             NEW ty, Does(t, ty), Handle(t, e, ws, entries)
      PROVE  code' \in [Threads -> Seq(Events)]
               /\ recent' \in [Threads -> SUBSET (EventVars \X Keys)]
  BY <1>0, <1>h, EventFields DEF Handle
<1>p. ASSUME NEW t \in Threads, stack[t] # <<>> PROVE Pop(t) \in Seq(Frame)
  BY <1>p, <1>0, StackFields
<1> HIDE DEF Frame
<1>s. ASSUME code' \in [Threads -> Seq(Events)], stack' \in [Threads -> Seq(Frame)],
             recent' \in [Threads -> SUBSET (EventVars \X Keys)]
      PROVE  SutInv'
  BY <1>s DEF SutInv, Frame
<1>1. ASSUME NEW t \in Threads, MemRead(t) PROVE SutInv'
  <2>1. code[t] # <<>> /\ Head(code[t]).type = "MemRead" /\ UNCHANGED stack
    BY <1>1 DEF MemRead
  <2>2. {<<"Reads", Head(code[t]).addr>>} \in SUBSET (EventVars \X Keys)
    BY <1>0, <2>1, EventFields DEF EventVars, Keys
  <2> QED
    BY <1>1, <1>0, <1>h, <1>s, <2>1, <2>2 DEF MemRead
<1>2. ASSUME NEW t \in Threads, MemWrite(t) PROVE SutInv'
  <2>1. code[t] # <<>> /\ Head(code[t]).type = "MemWrite" /\ UNCHANGED stack
    BY <1>2 DEF MemWrite
  <2>2. {<<"Writes", Head(code[t]).addr>>} \in SUBSET (EventVars \X Keys)
    BY <1>0, <2>1, EventFields DEF EventVars, Keys
  <2> QED
    BY <1>2, <1>0, <1>h, <1>s, <2>1, <2>2 DEF MemWrite
<1>3. ASSUME NEW t \in Threads, MemAccessBefore(t) PROVE SutInv'
  <2>1. code[t] # <<>> /\ Head(code[t]).type = "MemAccessBefore" /\ UNCHANGED stack
    BY <1>3 DEF MemAccessBefore
  <2>2. {} \in SUBSET (EventVars \X Keys)
    BY <1>0, <2>1, EventFields DEF EventVars, Keys
  <2> QED
    BY <1>3, <1>0, <1>h, <1>s, <2>1, <2>2 DEF MemAccessBefore
<1>4. ASSUME NEW t \in Threads, FuncCall(t) PROVE SutInv'
  <2>1. code[t] # <<>> /\ Head(code[t]).type = "FuncCall" /\ UNCHANGED stack
    BY <1>4 DEF FuncCall
  <2>2. {} \in SUBSET (EventVars \X Keys)
    BY <1>0, <2>1, EventFields DEF EventVars, Keys
  <2> QED
    BY <1>4, <1>0, <1>h, <1>s, <2>1, <2>2 DEF FuncCall
<1>5. ASSUME NEW t \in Threads, FuncEnter(t) PROVE SutInv'
  <2> DEFINE fr == [func |-> Head(code[t]).func, arg |-> Head(code[t]).arg, seen |-> enabled]
  <2>1. /\ code[t] # <<>> /\ Head(code[t]).type = "FuncEnter"
        /\ stack' = [stack EXCEPT ![t] = Append(stack[t], fr)]
    BY <1>5 DEF FuncEnter
  <2>2. {<<"Enters", Head(code[t]).func>>} \in SUBSET (EventVars \X Keys)
    BY <1>0, <2>1, EventFields DEF EventVars, Keys
  <2>3. fr \in Frame
    BY <1>0, <2>1, EventFields DEF Frame
  <2> HIDE DEF fr
  <2>4. stack' \in [Threads -> Seq(Frame)]
    BY <1>0, <2>1, <2>3
  <2> QED
    BY <1>5, <1>h, <1>s, <2>2, <2>4 DEF FuncEnter
<1>6. ASSUME NEW t \in Threads, FuncReturn(t) PROVE SutInv'
  <2>1. stack[t] # <<>> /\ Top(t).func \in Funcs
    BY <1>6, <1>0, StackFields DEF FuncReturn
  <2>2. {<<"Returns", Top(t).func>>} \in SUBSET (EventVars \X Keys)
    BY <2>1 DEF EventVars, Keys
  <2>3. stack' \in [Threads -> Seq(Frame)]
    BY <1>6, <1>0, <1>p, <2>1 DEF FuncReturn
  <2> QED
    BY <1>6, <1>h, <1>s, <2>2, <2>3 DEF FuncReturn
<1>7. ASSUME NEW t \in Threads, AtPc(t) PROVE SutInv'
  <2>1. code[t] # <<>> /\ Head(code[t]).type = "AtPc" /\ UNCHANGED stack
    BY <1>7 DEF AtPc
  <2>2. {<<"AtPc", NULL>>} \in SUBSET (EventVars \X Keys)
    BY <1>0, <2>1, EventFields DEF EventVars, Keys
  <2> QED
    BY <1>7, <1>0, <1>h, <1>s, <2>1, <2>2 DEF AtPc
<1>8. ASSUME NEW t \in Threads, EndInstrument(t) PROVE SutInv'
  BY <1>8, <1>0, <1>s, EventFields DEF EndInstrument, Finish
<1>9. ASSUME NEW t \in Threads, ThreadEnd(t) PROVE SutInv'
  BY <1>9, <1>0, <1>s DEF ThreadEnd
<1>10. ASSUME NEW t \in Threads, StartTest(t) PROVE SutInv'
  BY <1>10, <1>0, <1>s DEF StartTest
<1>11. ASSUME NEW t \in Threads, EndTest(t) PROVE SutInv'
  BY <1>11, <1>0, <1>s, EventFields DEF EndTest
<1>12. ASSUME NEW t \in Threads, InsertEndNode(t) PROVE SutInv'
  BY <1>12, <1>0, <1>s DEF InsertEndNode
<1>13. ASSUME NEW t \in Threads, WriteAux(t) PROVE SutInv'
  BY <1>13, <1>0, <1>s DEF WriteAux
<1>14. ASSUME NEW t \in Threads, Return(t) PROVE SutInv'
  BY <1>14, <1>0, <1>s DEF Return, Resume
<1>15. ASSUME NEW t \in Threads, TakeNode(t) PROVE SutInv'
  BY <1>15, <1>0, <1>s DEF TakeNode, InTransition
<1>16. ASSUME NEW t \in Threads, SeeEndNode(t) PROVE SutInv'
  BY <1>16, <1>0, <1>s DEF SeeEndNode, InTransition, Finish
<1>17. ASSUME NEW t \in Threads, Evaluates(t) PROVE SutInv'
  <2>1. Evaluated(t)
    BY <1>17, EvaluateEffect
  <2> QED
    BY <1>0, <1>s, <2>1 DEF Evaluated, Decided, Finish
<1>18. ASSUME NEW t \in Threads, AfterTransition(t) PROVE SutInv'
  <2>1. ASSUME stack[t] = <<>> PROVE Pop(t) \in Seq(Frame)
    <3>1. Pop(t) = <<>>
      BY <2>1 DEF Pop
    <3> QED
      BY <3>1
  <2>2. Pop(t) \in Seq(Frame)
    BY <1>p, <2>1
  <2> QED
    BY <1>18, <1>0, <1>s, <2>2 DEF AfterTransition
<1>19. ASSUME NEW t \in Threads, LeaveFunction(t) PROVE SutInv'
  <2>1. ASSUME stack[t] = <<>> PROVE Pop(t) \in Seq(Frame)
    <3>1. Pop(t) = <<>>
      BY <2>1 DEF Pop
    <3> QED
      BY <3>1
  <2>2. Pop(t) \in Seq(Frame)
    BY <1>p, <2>1
  <2> QED
    BY <1>19, <1>0, <1>s, <2>2 DEF LeaveFunction
<1>20. ASSUME Submit PROVE SutInv'
  BY <1>20, <1>0, <1>s DEF Submit
<1>21. ASSUME ReadArg PROVE SutInv'
  BY <1>21, <1>0, <1>s DEF ReadArg
<1>22. ASSUME EndScript PROVE SutInv'
  BY <1>22, <1>0, <1>s DEF EndScript
<1>23. ASSUME RunUncontrolled PROVE SutInv'
  BY <1>23, <1>0, <1>s DEF RunUncontrolled
<1>24. ASSUME Restart PROVE SutInv'
  BY <1>24, <1>0, <1>s DEF Restart
<1>25. ASSUME Terminated PROVE SutInv'
  BY <1>25, <1>0, <1>s DEF Terminated
<1>26. CASE UNCHANGED vars
  BY <1>26, <1>0, <1>s DEF vars
<1>27. QED
  BY <1>1, <1>2, <1>3, <1>4, <1>5, <1>6, <1>7, <1>8, <1>9, <1>10, <1>11, <1>12, <1>13,
     <1>14, <1>15, <1>16, <1>17, <1>18, <1>19, <1>20, <1>21, <1>22, <1>23, <1>24, <1>25,
     <1>26 DEF Next, SutSteps, HandlerSteps, ScriptSteps, Evaluates

\* Every step keeps the type invariant.
LEMMA TypeStep == TypeInv /\ [Next]_vars => TypeInv'
<1>1. TypeInv /\ [Next]_vars => ScriptInv'
  BY ScriptStep
<1>2. TypeInv /\ [Next]_vars => AuxInv'
  BY AuxStep
<1>3. TypeInv /\ [Next]_vars => SutInv'
  BY SutStep
<1>4. QED
  BY <1>1, <1>2, <1>3 DEF TypeInv

\* Nothing happens in the handlers of threads other than t.
Others(t) ==
  \A u \in Threads \ {t} :
    pc'[u] = pc[u] /\ todo'[u] = todo[u] /\ recent'[u] = recent[u] /\ event'[u] = event[u]

\* The writes a thread has still to make, before and after a step.
LEMMA PendingIs ==
  ASSUME NEW t
  PROVE  /\ Pending(t) = Elems(todo[t]) /\ Pending(t)' = Elems(todo'[t])
         /\ todo[t] = <<>> => Pending(t) = {}
         /\ todo'[t] = <<>> => Pending(t)' = {}
BY ElemsTuple DEF Pending, Elems

\* A write changes only entries of the thread it names.
LEMMA WrittenOthers ==
  ASSUME NEW w, NEW u, w.tid # u, NEW v, NEW k, aux' = Written(w)
  PROVE  Shown(v, u, k)' <=> Shown(v, u, k)
BY DEF Written, Shown

\* Writing keeps what it does not name and shows what it puts.
LEMMA WrittenShown ==
  ASSUME NEW w, NEW v, NEW u, NEW k, aux' = Written(w)
  PROVE  /\ w.op = "put" =>
              (Shown(v, u, k)' <=>
                 Shown(v, u, k) \/ (w.var = v /\ w.tid = u /\ w.key = k))
         /\ w.op = "reset" => (Shown(v, u, k)' <=>
                                 Shown(v, u, k) /\ ~(w.var = v /\ w.tid = u))
         /\ w.var # v => (Shown(v, u, k)' <=> Shown(v, u, k))
<1>1. CASE w.op = "put"
  <2>1. aux' = {e \in aux : e[1] # w.var \/ e[2] # w.tid \/ e[3] # w.key}
                 \cup {<<w.var, w.tid, w.key, w.value>>}
    BY <1>1 DEF Written
  <2>2. ASSUME Shown(v, u, k) PROVE Shown(v, u, k)'
    <3>1. PICK e \in aux : e[1] = v /\ e[2] = u /\ e[3] = k
      BY <2>2 DEF Shown
    <3>2. CASE w.var = v /\ w.tid = u /\ w.key = k
      <4>1. <<w.var, w.tid, w.key, w.value>> \in aux'
        BY <2>1
      <4>2. QED
        BY <3>2, <4>1 DEF Shown
    <3>3. CASE ~(w.var = v /\ w.tid = u /\ w.key = k)
      <4>1. e \in aux'
        BY <2>1, <3>1, <3>3
      <4>2. QED
        BY <3>1, <4>1 DEF Shown
    <3>4. QED
      BY <3>2, <3>3
  <2>3. ASSUME w.var = v, w.tid = u, w.key = k PROVE Shown(v, u, k)'
    <3>1. <<w.var, w.tid, w.key, w.value>> \in aux'
      BY <2>1
    <3>2. QED
      BY <2>3, <3>1 DEF Shown
  <2>4. ASSUME Shown(v, u, k)', ~(w.var = v /\ w.tid = u /\ w.key = k) PROVE Shown(v, u, k)
    <3>1. PICK e \in aux' : e[1] = v /\ e[2] = u /\ e[3] = k
      BY <2>4 DEF Shown
    <3>2. e \in aux
      BY <2>1, <2>4, <3>1
    <3>3. QED
      BY <3>1, <3>2 DEF Shown
  <2>5. QED
    BY <1>1, <2>2, <2>3, <2>4
<1>2. CASE w.op = "reset"
  <2>1. aux' = {e \in aux : e[1] # w.var \/ e[2] # w.tid}
    BY <1>2 DEF Written
  <2>2. QED
    BY <1>2, <2>1 DEF Shown
<1>3. CASE w.op # "put" /\ w.op # "reset"
  BY <1>3 DEF Written, Shown
<1>4. QED
  BY <1>1, <1>2, <1>3

\* EventOf depends on the thread's own entries only.
LEMMA EventOthers ==
  ASSUME TypeInv, EventInv, NEW t \in Threads, Others(t), EventOf(t)',
         aux' = aux \/ (todo[t] # <<>> /\ aux' = Written(Head(todo[t])))
  PROVE  EventInv'
<1> SUFFICES ASSUME NEW u \in Threads, u # t PROVE EventOf(u)'
  BY DEF EventInv
<1>1. EventOf(u) /\ EventOf(t) /\ t # NULL /\ u # NULL
  BY EventMonitorAssumption DEF EventInv
<1>2. ASSUME NEW v \in EventVars, NEW k \in Keys
      PROVE  Shown(v, u, k)' <=> Shown(v, u, k)
  <2>1. CASE aux' = aux
    BY <2>1 DEF Shown
  <2>2. CASE todo[t] # <<>> /\ aux' = Written(Head(todo[t]))
    <3>1. Head(todo[t]) \in Pending(t)
      BY <2>2, PendingIs, ElemsTail DEF TypeInv, AuxInv
    <3>2. Head(todo[t]).tid # u
      BY <1>1, <3>1 DEF EventOf
    <3>3. QED
      BY <2>2, <3>2, WrittenOthers
  <2>3. QED
    BY <2>1, <2>2
<1>3. pc'[u] = pc[u] /\ recent'[u] = recent[u] /\ Pending(u)' = Pending(u)
  BY PendingIs DEF Others
<1>4. QED
  BY <1>1, <1>2, <1>3 DEF EventOf, Coming

\* A handler's first step announces what it will show.
LEMMA HandleEvent ==
  ASSUME TypeInv, EventInv, NEW t \in Threads, pc[t] = "run",
         NEW ws, aux' = aux, pc'[t] = "set", todo'[t] = ws,
         \A w \in Elems(ws) : w.tid \in {t, NULL} /\ w.op = "put",
         \A v \in EventVars, k \in Keys :
           <<v, k>> \in recent'[t] <=>
             <<v, k>> \in recent[t] \/ \E w \in Elems(ws) : w.var = v /\ w.key = k
               /\ w.tid = t
  PROVE  EventOf(t)'
<1>1. Pending(t) = {} /\ Pending(t)' = Elems(ws)
  BY PendingIs DEF TypeInv, AuxInv
<1>2. ASSUME NEW v \in EventVars, NEW k \in Keys
      PROVE  /\ <<v, k>> \in recent[t] <=> Shown(v, t, k)
             /\ Shown(v, t, k)' <=> Shown(v, t, k)
             /\ Coming(v, t, k)' <=> \E w \in Elems(ws) : w.var = v /\ w.key = k
                  /\ w.tid = t
  BY <1>1, <1>2 DEF EventInv, EventOf, Coming, Shown
<1>3. QED
  BY <1>1, <1>2 DEF EventOf

\* A handler of a disabled monitor, and a thread that stays out of the reset.
LEMMA KeepEvent ==
  ASSUME TypeInv, EventInv, NEW t \in Threads, aux' = aux, todo'[t] = todo[t],
         recent'[t] = recent[t], pc'[t] = pc[t] \/ (pc[t] # "finish" /\ pc'[t] # "finish")
  PROVE  EventOf(t)'
<1>1. EventOf(t) /\ Pending(t)' = Pending(t)
  BY PendingIs DEF EventInv
<1>2. ASSUME NEW v \in EventVars, NEW k \in Keys
      PROVE  Shown(v, t, k)' = Shown(v, t, k)
  BY DEF Shown
<1>3. QED
  BY <1>1, <1>2 DEF EventOf, Coming

\* FinishControlledTransition starts to clear all that the thread shows.
LEMMA FinishEvent ==
  ASSUME TypeInv, NEW t \in Threads, aux' = aux, Finish(t)
  PROVE  EventOf(t)'
<1>1. pc'[t] = "finish" /\ recent'[t] = {} /\ todo'[t] = Reset(t)
  BY DEF Finish, TypeInv, ScriptInv, AuxInv, SutInv
<1>2. Pending(t)' = {ResetVar(v, t) : v \in {u \in EventVars : Entries(u, t) # {}}}
  BY <1>1, PendingIs, ResetWrites
<1>3. \A w \in Pending(t)' : w.op = "reset" /\ w.var \in EventVars /\ w.tid = t
  BY <1>2 DEF ResetVar, Write
<1>4. ASSUME NEW v \in EventVars, NEW k \in Keys, Shown(v, t, k)'
      PROVE  \E w \in Pending(t)' : w.var = v /\ w.tid = t
  <2>1. Entries(v, t) # {}
    BY <1>4 DEF Shown, Entries
  <2>2. ResetVar(v, t) \in Pending(t)'
    BY <1>2, <2>1
  <2>3. QED
    BY <2>2 DEF ResetVar, Write
<1>5. QED
  BY <1>1, <1>3, <1>4 DEF EventOf

\* A write shows what was announced, or clears what was to be cleared.
LEMMA WriteEvent ==
  ASSUME TypeInv, EventInv, NEW t \in Threads, WriteAux(t)
  PROVE  EventOf(t)'
<1> DEFINE w == Head(todo[t])
<1>1. /\ todo[t] # <<>> /\ aux' = Written(w) /\ todo'[t] = Tail(todo[t])
      /\ pc'[t] = pc[t] /\ recent'[t] = recent[t]
  BY DEF WriteAux, TypeInv, AuxInv
<1>2. Pending(t) = {w} \cup Pending(t)'
  <2>1. todo[t] \in Seq(Writes)
    BY DEF TypeInv, AuxInv
  <2>2. Elems(todo[t]) = {w} \cup Elems(Tail(todo[t]))
    BY <1>1, <2>1, ElemsTail
  <2>3. QED
    BY <1>1, <2>2, PendingIs
<1> HIDE DEF w
<1>3. EventOf(t)
  BY DEF EventInv
<1>4. CASE pc[t] = "finish"
  <2>1. w.op = "reset"
    BY <1>2, <1>3, <1>4 DEF EventOf
  <2>2. ASSUME NEW v \in EventVars, NEW k \in Keys, Shown(v, t, k)'
        PROVE  \E x \in Pending(t)' : x.var = v /\ x.tid = t
    <3>1. Shown(v, t, k) /\ ~(w.var = v /\ w.tid = t)
      BY <1>1, <2>1, <2>2, WrittenShown
    <3>2. QED
      BY <1>2, <1>3, <1>4, <3>1 DEF EventOf
  <2>3. QED
    BY <1>1, <1>2, <1>3, <1>4, <2>2 DEF EventOf
<1>5. CASE pc[t] # "finish"
  <2>1. w.var \in EventVars => w.op = "put"
    BY <1>2, <1>3, <1>5 DEF EventOf
  <2>2. ASSUME NEW v \in EventVars, NEW k \in Keys
        PROVE  Shown(v, t, k) \/ Coming(v, t, k) <=> Shown(v, t, k)' \/ Coming(v, t, k)'
    <3>1. Coming(v, t, k) <=>
            \/ w.op = "put" /\ w.var = v /\ w.key = k /\ w.tid = t
            \/ Coming(v, t, k)'
      BY <1>2 DEF Coming
    <3>2. CASE w.var = v
      BY <1>1, <2>1, <3>1, <3>2, WrittenShown
    <3>3. CASE w.var # v
      BY <1>1, <3>1, <3>3, WrittenShown
    <3>4. QED
      BY <3>2, <3>3
  <2>3. QED
    BY <1>1, <1>2, <1>3, <1>5, <2>2 DEF EventOf
<1>6. QED
  BY <1>4, <1>5

\* Every step keeps EventInv.
LEMMA EventStep == TypeInv /\ EventInv /\ [Next]_vars => EventInv'
<1> SUFFICES ASSUME TypeInv, EventInv, [Next]_vars PROVE EventInv'
  OBVIOUS
<1>0. /\ pc \in [Threads -> {"run", "set", "eval", "get", "finish", "after", "endTest", "ended"}]
      /\ todo \in [Threads -> Seq(Writes)] /\ event \in [Threads -> Handled]
      /\ recent \in [Threads -> SUBSET (EventVars \X Keys)] /\ enabled \in BOOLEAN
  BY DEF TypeInv, ScriptInv, AuxInv, SutInv
<1>h. ASSUME NEW t \in Threads, pc[t] = "run", NEW e, NEW ws, NEW entries, Handle(t, e, ws, entries),
             \A w \in Elems(ws) : w.tid \in {t, NULL} /\ w.op = "put",
             \A v \in EventVars, k \in Keys :
               <<v, k>> \in entries <=> \E w \in Elems(ws) : w.var = v /\ w.key = k
                 /\ w.tid = t
      PROVE  EventInv'
  <2>1. aux' = aux /\ Others(t)
    BY <1>0, <1>h DEF Handle, Others
  <2>2. CASE enabled
    <3>1. pc'[t] = "set" /\ todo'[t] = ws /\ recent'[t] = recent[t] \cup entries
      BY <1>0, <1>h, <2>2 DEF Handle
    <3>2. EventOf(t)'
      BY <1>h, <2>1, <3>1, HandleEvent
    <3> QED
      BY <2>1, <3>2, EventOthers
  <2>3. CASE ~enabled
    <3>1. EventOf(t)'
      BY <1>h, <2>1, <2>3, KeepEvent DEF Handle
    <3> QED
      BY <2>1, <3>1, EventOthers
  <2> QED
    BY <2>2, <2>3
<1>k. ASSUME NEW t \in Threads, aux' = aux, UNCHANGED <<todo, recent>>, Others(t),
             pc'[t] = pc[t] \/ (pc[t] # "finish" /\ pc'[t] # "finish")
      PROVE  EventInv'
  BY <1>k, KeepEvent, EventOthers
<1>f. ASSUME NEW t \in Threads, aux' = aux, Finish(t), \A u \in Threads \ {t} : event'[u] = event[u]
      PROVE  EventInv'
  <2>1. Others(t)
    BY <1>0, <1>f DEF Finish, Others
  <2> QED
    BY <1>f, <2>1, FinishEvent, EventOthers
<1>1. ASSUME NEW t \in Threads, MemRead(t) PROVE EventInv'
  <2> DEFINE ws == <<Put("Reads", t, Head(code[t]).addr, 1)>>
             entries == {<<"Reads", Head(code[t]).addr>>}
  <2>1. pc[t] = "run" /\ \E e : Handle(t, e, ws, entries)
    BY <1>1 DEF MemRead
  <2>2. Elems(ws) = {Put("Reads", t, Head(code[t]).addr, 1)}
    BY ElemsTuple
  <2>3. /\ \A w \in Elems(ws) : w.tid \in {t, NULL} /\ w.op = "put"
        /\ \A v \in EventVars, k \in Keys :
             <<v, k>> \in entries <=> \E w \in Elems(ws) : w.var = v /\ w.key = k
               /\ w.tid = t
    BY <2>2, EventMonitorAssumption DEF Put, Write, EventVars
  <2> HIDE DEF ws, entries
  <2> QED
    BY <1>h, <2>1, <2>3
<1>2. ASSUME NEW t \in Threads, MemWrite(t) PROVE EventInv'
  <2> DEFINE ws == <<Put("Writes", t, Head(code[t]).addr, 1)>>
             entries == {<<"Writes", Head(code[t]).addr>>}
  <2>1. pc[t] = "run" /\ \E e : Handle(t, e, ws, entries)
    BY <1>2 DEF MemWrite
  <2>2. Elems(ws) = {Put("Writes", t, Head(code[t]).addr, 1)}
    BY ElemsTuple
  <2>3. /\ \A w \in Elems(ws) : w.tid \in {t, NULL} /\ w.op = "put"
        /\ \A v \in EventVars, k \in Keys :
             <<v, k>> \in entries <=> \E w \in Elems(ws) : w.var = v /\ w.key = k
               /\ w.tid = t
    BY <2>2, EventMonitorAssumption DEF Put, Write, EventVars
  <2> HIDE DEF ws, entries
  <2> QED
    BY <1>h, <2>1, <2>3
<1>3. ASSUME NEW t \in Threads, MemAccessBefore(t) PROVE EventInv'
  <2> DEFINE ws == <<>>
             entries == {}
  <2>1. pc[t] = "run" /\ \E e : Handle(t, e, ws, entries)
    BY <1>3 DEF MemAccessBefore
  <2>2. Elems(ws) = {}
    BY ElemsTuple
  <2>3. /\ \A w \in Elems(ws) : w.tid \in {t, NULL} /\ w.op = "put"
        /\ \A v \in EventVars, k \in Keys :
             <<v, k>> \in entries <=> \E w \in Elems(ws) : w.var = v /\ w.key = k
               /\ w.tid = t
    BY <2>2, EventMonitorAssumption DEF Put, Write, EventVars
  <2> HIDE DEF ws, entries
  <2> QED
    BY <1>h, <2>1, <2>3
<1>4. ASSUME NEW t \in Threads, FuncCall(t) PROVE EventInv'
  <2> DEFINE ws == <<Put("CallsTo", NULL, Head(code[t]).func, 1), Put("Arg0", t, Head(code[t]).func, Head(code[t]).arg)>>
             entries == {}
  <2>1. pc[t] = "run" /\ \E e : Handle(t, e, ws, entries)
    BY <1>4 DEF FuncCall
  <2>2. Elems(ws) = {Put("CallsTo", NULL, Head(code[t]).func, 1), Put("Arg0", t, Head(code[t]).func, Head(code[t]).arg)}
    BY ElemsTuple
  <2>3. /\ \A w \in Elems(ws) : w.tid \in {t, NULL} /\ w.op = "put"
        /\ \A v \in EventVars, k \in Keys :
             <<v, k>> \in entries <=> \E w \in Elems(ws) : w.var = v /\ w.key = k
               /\ w.tid = t
    BY <2>2, EventMonitorAssumption DEF Put, Write, EventVars
  <2> HIDE DEF ws, entries
  <2> QED
    BY <1>h, <2>1, <2>3
<1>5. ASSUME NEW t \in Threads, FuncEnter(t) PROVE EventInv'
  <2> DEFINE f == Head(code[t]).func
             a == Put("Enters", t, f, 1)
             b == Put("InFunc", t, f, Count("InFunc", t, f) + 1)
             c == Put("NumInFunc", t, f, Count("NumInFunc", t, f) + 1)
             d == Put("Arg0", t, f, Head(code[t]).arg)
             entries == {<<"Enters", f>>}
  <2>1. pc[t] = "run" /\ \E e : Handle(t, e, <<a, b, c, d>>, entries)
    BY <1>5 DEF FuncEnter
  <2>2. /\ a.tid = t /\ a.op = "put" /\ a.var = "Enters" /\ a.key = f
        /\ b.tid = t /\ b.op = "put" /\ b.var = "InFunc"
        /\ c.tid = t /\ c.op = "put" /\ c.var = "NumInFunc"
        /\ d.tid = t /\ d.op = "put" /\ d.var = "Arg0"
    BY DEF Put, Write
  <2> HIDE DEF a, b, c, d, f
  <2>3. Elems(<<a, b, c, d>>) = {a, b, c, d}
    BY ZenonT(60), ElemsFour
  <2>4. /\ \A w \in Elems(<<a, b, c, d>>) : w.tid \in {t, NULL} /\ w.op = "put"
        /\ \A v \in EventVars, k \in Keys :
             <<v, k>> \in entries
               <=> \E w \in Elems(<<a, b, c, d>>) : w.var = v /\ w.key = k /\ w.tid = t
    BY <2>2, <2>3 DEF EventVars
  <2> HIDE DEF entries
  <2> QED
    BY <1>h, <2>1, <2>4
<1>6. ASSUME NEW t \in Threads, FuncReturn(t) PROVE EventInv'
  <2> DEFINE ws == <<Put("Returns", t, Top(t).func, 1), Put("RetVal", t, Top(t).func, 1)>>
             entries == {<<"Returns", Top(t).func>>}
  <2>1. pc[t] = "run" /\ \E e : Handle(t, e, ws, entries)
    BY <1>6 DEF FuncReturn
  <2>2. Elems(ws) = {Put("Returns", t, Top(t).func, 1), Put("RetVal", t, Top(t).func, 1)}
    BY ElemsTuple
  <2>3. /\ \A w \in Elems(ws) : w.tid \in {t, NULL} /\ w.op = "put"
        /\ \A v \in EventVars, k \in Keys :
             <<v, k>> \in entries <=> \E w \in Elems(ws) : w.var = v /\ w.key = k
               /\ w.tid = t
    BY <2>2, EventMonitorAssumption DEF Put, Write, EventVars
  <2> HIDE DEF ws, entries
  <2> QED
    BY <1>h, <2>1, <2>3
<1>7. ASSUME NEW t \in Threads, AtPc(t) PROVE EventInv'
  <2> DEFINE ws == <<Put("Pc", t, NULL, Head(code[t]).pc), Put("AtPc", t, NULL, 1)>>
             entries == {<<"AtPc", NULL>>}
  <2>1. pc[t] = "run" /\ \E e : Handle(t, e, ws, entries)
    BY <1>7 DEF AtPc
  <2>2. Elems(ws) = {Put("Pc", t, NULL, Head(code[t]).pc), Put("AtPc", t, NULL, 1)}
    BY ElemsTuple
  <2>3. /\ \A w \in Elems(ws) : w.tid \in {t, NULL} /\ w.op = "put"
        /\ \A v \in EventVars, k \in Keys :
             <<v, k>> \in entries <=> \E w \in Elems(ws) : w.var = v /\ w.key = k
               /\ w.tid = t
    BY <2>2, EventMonitorAssumption DEF Put, Write, EventVars
  <2> HIDE DEF ws, entries
  <2> QED
    BY <1>h, <2>1, <2>3
<1>8. ASSUME NEW t \in Threads, EndInstrument(t) PROVE EventInv'
  <2>1. aux' = aux /\ \A u \in Threads \ {t} : event'[u] = event[u]
    BY <1>8, <1>0 DEF EndInstrument
  <2>2. CASE enabled
    BY <1>8, <1>f, <2>1, <2>2 DEF EndInstrument
  <2>3. CASE ~enabled
    BY <1>8, <1>k, <2>1, <2>3 DEF EndInstrument, Others
  <2> QED
    BY <2>2, <2>3
<1>9. ASSUME NEW t \in Threads, ThreadEnd(t) PROVE EventInv'
  <2>1. aux' = aux /\ recent' = recent /\ Others(t) /\ pc[t] = "run"
    BY <1>9, <1>0 DEF ThreadEnd, Others
  <2>2. CASE enabled
    <3>1. pc'[t] = "set" /\ todo'[t] = <<Put("Ends", t, NULL, 1)>>
      BY <1>9, <1>0, <2>2 DEF ThreadEnd
    <3>2. Elems(<<Put("Ends", t, NULL, 1)>>) = {Put("Ends", t, NULL, 1)}
      BY ElemsTuple
    <3>3. /\ Put("Ends", t, NULL, 1).tid = t /\ Put("Ends", t, NULL, 1).op = "put"
          /\ Put("Ends", t, NULL, 1).var \notin EventVars
      BY DEF Put, Write, EventVars
    <3>4. EventOf(t)'
      BY <2>1, <3>1, <3>2, <3>3, HandleEvent
    <3> QED
      BY <2>1, <3>4, EventOthers
  <2>3. CASE ~enabled
    BY <1>9, <1>0, <1>k, <2>1, <2>3 DEF ThreadEnd
  <2> QED
    BY <2>2, <2>3
<1>10. ASSUME NEW t \in Threads, StartTest(t) PROVE EventInv'
  <2>1. aux' = aux /\ UNCHANGED <<todo, recent>> /\ Others(t)
        /\ (pc'[t] = pc[t] \/ (pc[t] # "finish" /\ pc'[t] # "finish"))
    BY <1>10, <1>0 DEF StartTest, Others
  <2> QED
    BY <1>k, <2>1
<1>11. ASSUME NEW t \in Threads, EndTest(t) PROVE EventInv'
  <2>1. aux' = aux /\ UNCHANGED <<todo, recent>> /\ Others(t)
        /\ (pc'[t] = pc[t] \/ (pc[t] # "finish" /\ pc'[t] # "finish"))
    BY <1>11, <1>0 DEF EndTest, Others
  <2> QED
    BY <1>k, <2>1
<1>12. ASSUME NEW t \in Threads, InsertEndNode(t) PROVE EventInv'
  <2>1. aux' = aux /\ UNCHANGED <<todo, recent>> /\ Others(t)
        /\ (pc'[t] = pc[t] \/ (pc[t] # "finish" /\ pc'[t] # "finish"))
    BY <1>12, <1>0 DEF InsertEndNode, Others
  <2> QED
    BY <1>k, <2>1
<1>13. ASSUME NEW t \in Threads, WriteAux(t) PROVE EventInv'
  <2>1. Others(t) /\ todo[t] # <<>> /\ aux' = Written(Head(todo[t]))
    BY <1>13, <1>0 DEF WriteAux, Others
  <2> QED
    BY <1>13, <2>1, WriteEvent, EventOthers
<1>14. ASSUME NEW t \in Threads, Return(t) PROVE EventInv'
  <2>1. aux' = aux /\ UNCHANGED <<todo, recent>> /\ Others(t)
        /\ (pc'[t] = pc[t] \/ (pc[t] # "finish" /\ pc'[t] # "finish"))
    BY <1>14, <1>0 DEF Return, Resume, Others
  <2> QED
    BY <1>k, <2>1
<1>15. ASSUME NEW t \in Threads, TakeNode(t) PROVE EventInv'
  <2>1. aux' = aux /\ UNCHANGED <<todo, recent>> /\ Others(t)
        /\ (pc'[t] = pc[t] \/ (pc[t] # "finish" /\ pc'[t] # "finish"))
    BY <1>15, <1>0 DEF TakeNode, InTransition, Others
  <2> QED
    BY <1>k, <2>1
<1>16. ASSUME NEW t \in Threads, SeeEndNode(t) PROVE EventInv'
  BY <1>16, <1>f DEF SeeEndNode
<1>17. ASSUME NEW t \in Threads, Evaluates(t) PROVE EventInv'
  <2>1. Evaluated(t)
    BY <1>17, EvaluateEffect
  <2>2. CASE Finish(t)
    BY <1>f, <2>1, <2>2 DEF Evaluated
  <2>3. CASE ~Finish(t)
    <3>1. aux' = aux /\ UNCHANGED <<todo, recent>> /\ Others(t)
          /\ pc[t] # "finish" /\ pc'[t] # "finish"
      BY <1>0, <2>1, <2>3 DEF Evaluated, Decided, Others
    <3> QED
      BY <1>k, <3>1
  <2> QED
    BY <2>2, <2>3
<1>18. ASSUME NEW t \in Threads, AfterTransition(t) PROVE EventInv'
  <2>1. aux' = aux /\ recent' = recent /\ Others(t) /\ pc[t] = "finish" /\ todo[t] = <<>>
        /\ pc'[t] # "finish"
    BY <1>18, <1>0 DEF AfterTransition, Resume, Others
  <2>2. recent'[t] = {} /\ \A v \in EventVars, k \in Keys : ~Shown(v, t, k)'
    <3>1. EventOf(t) /\ Pending(t) = {}
      BY <2>1, PendingIs DEF EventInv
    <3>2. recent[t] = {} /\ \A v \in EventVars, k \in Keys : ~Shown(v, t, k)
      BY <2>1, <3>1 DEF EventOf
    <3> QED
      BY <2>1, <3>2 DEF Shown
  <2>3. \A w \in Pending(t)' : w.tid = t /\ w.var \notin EventVars
    <3>1. CASE event[t].type = "FuncReturn" /\ WasEntered(t, event[t].func)
      <4> DEFINE f == event[t].func
                 c == Count("InFunc", t, f) - 1
                 d == IF c = 0 THEN Erase("InFunc", t, f) ELSE Put("InFunc", t, f, c)
      <4>1. todo'[t] = <<d, Erase("Arg0", t, f)>>
        BY <1>18, <1>0, <3>1 DEF AfterTransition
      <4>2. /\ d.tid = t /\ d.var = "InFunc"
            /\ Erase("Arg0", t, f).tid = t /\ Erase("Arg0", t, f).var = "Arg0"
        BY DEF Erase, Put, Write
      <4> HIDE DEF d
      <4>3. Pending(t)' = {d, Erase("Arg0", t, f)}
        BY <4>1, PendingIs, ElemsTuple
      <4> QED
        BY <4>2, <4>3 DEF EventVars
    <3>2. CASE ~(event[t].type = "FuncReturn" /\ WasEntered(t, event[t].func))
      <4>1. Pending(t)' = {}
        BY <1>18, <2>1, <3>2, PendingIs DEF AfterTransition
      <4> QED
        BY <4>1
    <3> QED
      BY <3>1, <3>2
  <2>4. EventOf(t)'
    BY <2>1, <2>2, <2>3 DEF EventOf, Coming
  <2> QED
    BY <2>1, <2>4, EventOthers
<1>19. ASSUME NEW t \in Threads, LeaveFunction(t) PROVE EventInv'
  <2>1. aux' = aux /\ UNCHANGED <<todo, recent>> /\ Others(t)
        /\ (pc'[t] = pc[t] \/ (pc[t] # "finish" /\ pc'[t] # "finish"))
    BY <1>19, <1>0 DEF LeaveFunction, Resume, Others
  <2> QED
    BY <1>k, <2>1
<1>20. ASSUME Submit PROVE EventInv'
  <2>1. UNCHANGED <<aux, pc, todo, recent>>
    BY <1>20 DEF Submit
  <2> QED
    BY <2>1 DEF EventInv, EventOf, Pending, Shown, Coming
<1>21. ASSUME ReadArg PROVE EventInv'
  <2>1. UNCHANGED <<aux, pc, todo, recent>>
    BY <1>21 DEF ReadArg
  <2> QED
    BY <2>1 DEF EventInv, EventOf, Pending, Shown, Coming
<1>22. ASSUME EndScript PROVE EventInv'
  <2>1. UNCHANGED <<aux, pc, todo, recent>>
    BY <1>22 DEF EndScript
  <2> QED
    BY <2>1 DEF EventInv, EventOf, Pending, Shown, Coming
<1>23. ASSUME RunUncontrolled PROVE EventInv'
  <2>1. UNCHANGED <<aux, pc, todo, recent>>
    BY <1>23 DEF RunUncontrolled
  <2> QED
    BY <2>1 DEF EventInv, EventOf, Pending, Shown, Coming
<1>24. ASSUME Restart PROVE EventInv'
  <2>1. aux' = {} /\ todo' = todo /\ recent' = [u \in Threads |-> {}]
        /\ \A u \in Threads : pc[u] = "ended" /\ pc'[u] = "run" /\ todo[u] = <<>>
    BY <1>24, <1>0 DEF Restart, Clear, TypeInv, AuxInv
  <2>2. ASSUME NEW u \in Threads PROVE Pending(u)' = {} /\ pc'[u] = "run" /\ recent'[u] = {}
    BY <2>1, PendingIs
  <2> QED
    BY <2>1, <2>2 DEF EventInv, EventOf, Shown, Coming
<1>25. ASSUME Terminated PROVE EventInv'
  <2>1. UNCHANGED <<aux, pc, todo, recent>>
    BY <1>25 DEF Terminated
  <2> QED
    BY <2>1 DEF EventInv, EventOf, Pending, Shown, Coming
<1>26. CASE UNCHANGED vars
  BY <1>26 DEF EventInv, EventOf, Pending, Shown, Coming
<1>27. QED
  BY <1>1, <1>2, <1>3, <1>4, <1>5, <1>6, <1>7, <1>8, <1>9, <1>10, <1>11, <1>12, <1>13,
     <1>14, <1>15, <1>16, <1>17, <1>18, <1>19, <1>20, <1>21, <1>22, <1>23, <1>24, <1>25,
     <1>26 DEF Next, SutSteps, HandlerSteps, ScriptSteps, Evaluates

\* Every step keeps BoundInv.
LEMMA BoundStep == TypeInv /\ BoundInv /\ [Next]_vars => BoundInv'
<1> SUFFICES ASSUME TypeInv, BoundInv, [Next]_vars PROVE BoundInv'
  OBVIOUS
<1>0. /\ tvar \in [TVars -> Tids] /\ stmt \in 1..(Len(Script) + 1) /\ holder \in Tids
      /\ NULL \notin Threads /\ NULL \notin Vars /\ TID \notin Vars
      /\ Len(Script) \in Nat /\ DOMAIN Script = 1..Len(Script)
  BY EventMonitorAssumption DEF TypeInv, ScriptInv
<1>s. \A i \in DOMAIN Script : Script[i].kind # "readArg"
  => Script[i].bind \in Vars \cup {NULL}
  BY Statement
<1> USE DEF BoundInv, TVars, Tids
<1>1. ASSUME NEW t \in Threads, MemRead(t) PROVE BoundInv'
  BY <1>1, <1>0 DEF MemRead, Handle
<1>2. ASSUME NEW t \in Threads, MemWrite(t) PROVE BoundInv'
  BY <1>2, <1>0 DEF MemWrite, Handle
<1>3. ASSUME NEW t \in Threads, MemAccessBefore(t) PROVE BoundInv'
  BY <1>3, <1>0 DEF MemAccessBefore, Handle
<1>4. ASSUME NEW t \in Threads, FuncCall(t) PROVE BoundInv'
  BY <1>4, <1>0 DEF FuncCall, Handle
<1>5. ASSUME NEW t \in Threads, FuncEnter(t) PROVE BoundInv'
  BY <1>5, <1>0 DEF FuncEnter, Handle
<1>6. ASSUME NEW t \in Threads, FuncReturn(t) PROVE BoundInv'
  BY <1>6, <1>0 DEF FuncReturn, Handle
<1>7. ASSUME NEW t \in Threads, AtPc(t) PROVE BoundInv'
  BY <1>7, <1>0 DEF AtPc, Handle
<1>8. ASSUME NEW t \in Threads, EndInstrument(t) PROVE BoundInv'
  BY <1>8, <1>0 DEF EndInstrument, Finish
<1>9. ASSUME NEW t \in Threads, ThreadEnd(t) PROVE BoundInv'
  BY <1>9, <1>0 DEF ThreadEnd
<1>10. ASSUME NEW t \in Threads, StartTest(t) PROVE BoundInv'
  BY <1>10, <1>0 DEF StartTest
<1>11. ASSUME NEW t \in Threads, EndTest(t) PROVE BoundInv'
  BY <1>11, <1>0 DEF EndTest
<1>12. ASSUME NEW t \in Threads, InsertEndNode(t) PROVE BoundInv'
  BY <1>12, <1>0 DEF InsertEndNode
<1>13. ASSUME NEW t \in Threads, WriteAux(t) PROVE BoundInv'
  BY <1>13, <1>0 DEF WriteAux
<1>14. ASSUME NEW t \in Threads, Return(t) PROVE BoundInv'
  BY <1>14, <1>0 DEF Return, Resume
<1>15. ASSUME NEW t \in Threads, TakeNode(t) PROVE BoundInv'
  <2>1. /\ tvar' = [tvar EXCEPT ![TID] = t] /\ stmt' = stmt /\ holder' \in {t, NULL}
    BY <1>15, <1>0 DEF TakeNode
  <2>2. ASSUME NEW i \in 1..(stmt - 1), Script[i].kind # "readArg", Script[i].bind # NULL
        PROVE  tvar'[Script[i].bind] # NULL
    <3>1. i \in DOMAIN Script /\ Script[i].bind \in Vars
      BY <1>0, <1>s, <2>2
    <3> QED
      BY <1>0, <2>1, <2>2, <3>1
  <2> QED
    BY <1>0, <2>1, <2>2
<1>16. ASSUME NEW t \in Threads, SeeEndNode(t) PROVE BoundInv'
  BY <1>16, <1>0 DEF SeeEndNode, InTransition, Finish
<1>17. ASSUME NEW t \in Threads, Evaluates(t) PROVE BoundInv'
  <2>1. Evaluated(t)
    BY <1>17, EvaluateEffect
  <2>2. CASE ~Decided(t)
    BY <1>0, <2>1, <2>2 DEF Evaluated
  <2>3. CASE Decided(t)
    <3>1. /\ holder = t /\ holder' = NULL /\ node = stmt /\ node \in DOMAIN Script
          /\ Script[node].kind # "readArg" /\ t # NULL
          /\ stmt' \in {stmt, stmt + 1}
          /\ \/ tvar' = tvar /\ (stmt' # stmt => Script[node].bind = NULL)
             \/ Script[node].bind \in Vars /\ tvar' = [tvar EXCEPT ![Script[node].bind] = t]
      BY <1>0, <2>1, <2>3 DEF Evaluated, Decided
    <3>2. ASSUME NEW i \in 1..(stmt' - 1), Script[i].kind # "readArg", Script[i].bind # NULL
          PROVE  tvar'[Script[i].bind] # NULL
      <4>1. i \in DOMAIN Script /\ Script[i].bind \in Vars /\ (i = stmt
              \/ i \in 1..(stmt - 1))
        BY <1>0, <1>s, <3>1, <3>2
      <4>2. CASE i = stmt
        BY <1>0, <3>1, <3>2, <4>1, <4>2
      <4>3. CASE i \in 1..(stmt - 1)
        BY <1>0, <3>1, <3>2, <4>1, <4>3
      <4> QED
        BY <4>1, <4>2, <4>3
    <3> QED
      BY <3>1, <3>2
  <2> QED
    BY <2>2, <2>3
<1>18. ASSUME NEW t \in Threads, AfterTransition(t) PROVE BoundInv'
  BY <1>18, <1>0 DEF AfterTransition, Resume
<1>19. ASSUME NEW t \in Threads, LeaveFunction(t) PROVE BoundInv'
  BY <1>19, <1>0 DEF LeaveFunction, Resume
<1>20. ASSUME Submit PROVE BoundInv'
  BY <1>20, <1>0 DEF Submit
<1>21. ASSUME ReadArg PROVE BoundInv'
  <2>1. stmt' = stmt + 1 /\ Script[stmt].kind = "readArg" /\ UNCHANGED <<tvar, holder>>
    BY <1>21 DEF ReadArg
  <2> QED
    BY <1>0, <2>1
<1>22. ASSUME EndScript PROVE BoundInv'
  BY <1>22, <1>0 DEF EndScript
<1>23. ASSUME RunUncontrolled PROVE BoundInv'
  BY <1>23, <1>0 DEF RunUncontrolled
<1>24. ASSUME Restart PROVE BoundInv'
  BY <1>24, <1>0 DEF Restart
<1>25. ASSUME Terminated PROVE BoundInv'
  BY <1>25, <1>0 DEF Terminated
<1>26. CASE UNCHANGED vars
  BY <1>26, <1>0 DEF vars
<1>27. QED
  BY <1>1, <1>2, <1>3, <1>4, <1>5, <1>6, <1>7, <1>8, <1>9, <1>10, <1>11, <1>12, <1>13,
     <1>14, <1>15, <1>16, <1>17, <1>18, <1>19, <1>20, <1>21, <1>22, <1>23, <1>24, <1>25,
     <1>26 DEF Next, SutSteps, HandlerSteps, ScriptSteps, Evaluates

\* Whether a thread has set Ends.
LEMMA EndsIsSet ==
  ASSUME NEW t PROVE IsSet("Ends", t, NULL) <=> \E e \in aux : e[1] = "Ends" /\ e[2] = t
BY DEF IsSet, Entries

\* EndOf depends on the thread's own entries only.
LEMMA EndOthers ==
  ASSUME TypeInv, EventInv, EndInv, NEW t \in Threads, Others(t), EndOf(t)',
         aux' = aux \/ (todo[t] # <<>> /\ aux' = Written(Head(todo[t])))
  PROVE  EndInv'
<1> SUFFICES ASSUME NEW u \in Threads, u # t PROVE EndOf(u)'
  BY DEF EndInv
<1>1. EndOf(u) /\ EventOf(t) /\ t # NULL /\ u # NULL
  BY EventMonitorAssumption DEF EndInv, EventInv
<1>2. (\E e \in aux' : e[1] = "Ends" /\ e[2] = u) <=> (\E e \in aux : e[1] = "Ends"
        /\ e[2] = u)
  <2>1. CASE aux' = aux
    BY <2>1
  <2>2. CASE todo[t] # <<>> /\ aux' = Written(Head(todo[t]))
    <3>1. Head(todo[t]) \in Pending(t)
      BY <2>2, PendingIs, ElemsTail DEF TypeInv, AuxInv
    <3>2. Head(todo[t]).tid # u
      BY <1>1, <3>1 DEF EventOf
    <3>3. QED
      BY <2>2, <3>2 DEF Written
  <2>3. QED
    BY <2>1, <2>2
<1>3. pc'[u] = pc[u] /\ event'[u] = event[u] /\ Pending(u)' = Pending(u)
  BY PendingIs DEF Others
<1>4. QED
  BY <1>1, <1>2, <1>3 DEF EndOf

\* A handler that does not end the thread.
LEMMA OtherHandler ==
  ASSUME TypeInv, EndInv, NEW t \in Threads, aux' = aux, pc[t] \in {"run", "finish", "after", "set"},
         event[t].type # "LastEnd", event'[t].type \notin {"ThreadEnd", "LastEnd"},
         \A w \in Pending(t)' : w.var # "Ends"
  PROVE  EndOf(t)'
<1>1. EndOf(t)
  BY DEF EndInv
<1>2. QED
  BY <1>1 DEF EndOf

\* A step inside a handler that writes nothing but, maybe, starts the reset.
LEMMA WithinHandler ==
  ASSUME TypeInv, EndInv, NEW t \in Threads, aux' = aux, event'[t] = event[t], todo[t] = <<>>,
         pc[t] \in {"set", "eval", "get"}, pc'[t] \in {"set", "eval", "get", "finish"},
         \A w \in Pending(t)' : w.var # "Ends"
  PROVE  EndOf(t)'
<1>1. EndOf(t) /\ Pending(t) = {}
  BY PendingIs DEF EndInv
<1>2. QED
  BY <1>1 DEF EndOf

\* The reset does not touch Ends.
LEMMA FinishWrites ==
  ASSUME TypeInv, NEW t \in Threads, Finish(t)
  PROVE  \A w \in Pending(t)' : w.var \in EventVars
<1>1. todo'[t] = Reset(t)
  BY DEF Finish, TypeInv, AuxInv
<1>2. Pending(t)' = {ResetVar(v, t) : v \in {u \in EventVars : Entries(u, t) # {}}}
  BY <1>1, PendingIs, ResetWrites
<1>3. QED
  BY <1>2 DEF ResetVar, Write

\* Every step keeps EndInv when a thread reports its end once.
LEMMA EndStep ==
  ASSUME ~EndsTwice, TypeInv, EventInv, EndInv, [Next]_vars PROVE EndInv'
<1>0. /\ pc \in [Threads -> {"run", "set", "eval", "get", "finish", "after", "endTest", "ended"}]
      /\ todo \in [Threads -> Seq(Writes)] /\ event \in [Threads -> Handled]
      /\ recent \in [Threads -> SUBSET (EventVars \X Keys)] /\ enabled \in BOOLEAN
      /\ \A t \in Threads : todo[t] # <<>> => pc[t] \in {"set", "finish", "after"}
      /\ \A t \in Threads : EndOf(t)
  BY DEF TypeInv, ScriptInv, AuxInv, SutInv, EndInv
<1>r. ASSUME NEW t \in Threads, pc[t] \notin {"set", "eval", "get", "finish"}
      PROVE  event[t].type \notin {"ThreadEnd", "LastEnd"}
  BY <1>0, <1>r DEF EndOf
<1>h. ASSUME NEW t \in Threads, pc[t] = "run", NEW e, NEW ws, NEW entries, Handle(t, e, ws, entries),
             e.type \notin {"ThreadEnd", "LastEnd"}, \A w \in Elems(ws) : w.var # "Ends"
      PROVE  EndInv'
  <2>1. aux' = aux /\ Others(t)
    BY <1>0, <1>h DEF Handle, Others
  <2>2. event'[t].type \notin {"ThreadEnd", "LastEnd"}
    BY <1>0, <1>h, <1>r DEF Handle
  <2>3. \A w \in Pending(t)' : w.var # "Ends"
    <3>1. CASE enabled
      BY <1>0, <1>h, <3>1, PendingIs DEF Handle
    <3>2. CASE ~enabled
      <4>1. todo'[t] = <<>>
        BY <1>0, <1>h, <3>2 DEF Handle
      <4> QED
        BY <4>1, PendingIs
    <3> QED
      BY <3>1, <3>2
  <2>4. EndOf(t)'
    BY <1>h, <1>r, <2>1, <2>2, <2>3, OtherHandler
  <2> QED
    BY <2>1, <2>4, EndOthers
<1>w. ASSUME NEW t \in Threads, aux' = aux, UNCHANGED <<todo, event>>, Others(t), todo[t] = <<>>,
             \/ pc[t] \in {"set", "eval", "get"} /\ pc'[t] \in {"set", "eval", "get"}
             \/ pc[t] = "run" /\ pc'[t] \in {"run", "endTest"}
             \/ pc[t] = "endTest" /\ pc'[t] = "run"
      PROVE  EndInv'
  <2>1. EndOf(t)'
    <3>1. EndOf(t) /\ Pending(t) = {} /\ Pending(t)' = {} /\ event'[t] = event[t]
      BY <1>0, <1>w, PendingIs
    <3> QED
      BY <1>w, <3>1 DEF EndOf
  <2> QED
    BY <1>w, <2>1, EndOthers
<1>f. ASSUME NEW t \in Threads, aux' = aux, Finish(t), event' = event, todo[t] = <<>>,
             pc[t] \in {"set", "eval", "get"}
      PROVE  EndInv'
  <2>1. Others(t) /\ pc'[t] = "finish"
    BY <1>0, <1>f DEF Finish, Others
  <2>2. \A w \in Pending(t)' : w.var # "Ends"
    BY <1>f, FinishWrites DEF EventVars
  <2>3. EndOf(t)'
    BY <1>f, <2>1, <2>2, WithinHandler
  <2> QED
    BY <1>f, <2>1, <2>3, EndOthers
<1>1. ASSUME NEW t \in Threads, MemRead(t) PROVE EndInv'
  <2> DEFINE ws == <<Put("Reads", t, Head(code[t]).addr, 1)>>
  <2>1. pc[t] = "run" /\ \E entries : Handle(t, [type |-> "MemRead"], ws, entries)
    BY <1>1 DEF MemRead
  <2>2. \A w \in Elems(ws) : w.var # "Ends"
    <3>1. Elems(ws) = {Put("Reads", t, Head(code[t]).addr, 1)}
      BY ElemsTuple
    <3> QED
      BY <3>1 DEF Put, Write
  <2>3. [type |-> "MemRead"].type \notin {"ThreadEnd", "LastEnd"}
    OBVIOUS
  <2> HIDE DEF ws
  <2> QED
    BY <1>h, <2>1, <2>2, <2>3
<1>2. ASSUME NEW t \in Threads, MemWrite(t) PROVE EndInv'
  <2> DEFINE ws == <<Put("Writes", t, Head(code[t]).addr, 1)>>
  <2>1. pc[t] = "run" /\ \E entries : Handle(t, [type |-> "MemWrite"], ws, entries)
    BY <1>2 DEF MemWrite
  <2>2. \A w \in Elems(ws) : w.var # "Ends"
    <3>1. Elems(ws) = {Put("Writes", t, Head(code[t]).addr, 1)}
      BY ElemsTuple
    <3> QED
      BY <3>1 DEF Put, Write
  <2>3. [type |-> "MemWrite"].type \notin {"ThreadEnd", "LastEnd"}
    OBVIOUS
  <2> HIDE DEF ws
  <2> QED
    BY <1>h, <2>1, <2>2, <2>3
<1>3. ASSUME NEW t \in Threads, MemAccessBefore(t) PROVE EndInv'
  <2> DEFINE ws == <<>>
  <2>1. pc[t] = "run" /\ \E entries : Handle(t, [type |-> "MemAccessBefore"], ws, entries)
    BY <1>3 DEF MemAccessBefore
  <2>2. \A w \in Elems(ws) : w.var # "Ends"
    <3>1. Elems(ws) = {}
      BY ElemsTuple
    <3> QED
      BY <3>1 DEF Put, Write
  <2>3. [type |-> "MemAccessBefore"].type \notin {"ThreadEnd", "LastEnd"}
    OBVIOUS
  <2> HIDE DEF ws
  <2> QED
    BY <1>h, <2>1, <2>2, <2>3
<1>4. ASSUME NEW t \in Threads, FuncCall(t) PROVE EndInv'
  <2> DEFINE ws == <<Put("CallsTo", NULL, Head(code[t]).func, 1), Put("Arg0", t, Head(code[t]).func, Head(code[t]).arg)>>
  <2>1. pc[t] = "run" /\ \E entries : Handle(t, [type |-> "FuncCall"], ws, entries)
    BY <1>4 DEF FuncCall
  <2>2. \A w \in Elems(ws) : w.var # "Ends"
    <3>1. Elems(ws) = {Put("CallsTo", NULL, Head(code[t]).func, 1), Put("Arg0", t, Head(code[t]).func, Head(code[t]).arg)}
      BY ElemsTuple
    <3> QED
      BY <3>1 DEF Put, Write
  <2>3. [type |-> "FuncCall"].type \notin {"ThreadEnd", "LastEnd"}
    OBVIOUS
  <2> HIDE DEF ws
  <2> QED
    BY <1>h, <2>1, <2>2, <2>3
<1>5. ASSUME NEW t \in Threads, FuncEnter(t) PROVE EndInv'
  <2> DEFINE f == Head(code[t]).func
             a == Put("Enters", t, f, 1)
             b == Put("InFunc", t, f, Count("InFunc", t, f) + 1)
             c == Put("NumInFunc", t, f, Count("NumInFunc", t, f) + 1)
             d == Put("Arg0", t, f, Head(code[t]).arg)
  <2>1. pc[t] = "run"
          /\ \E entries : Handle(t, [type |-> "FuncEnter", func |-> f], <<a, b, c, d>>, entries)
    BY <1>5 DEF FuncEnter
  <2>2. a.var = "Enters" /\ b.var = "InFunc" /\ c.var = "NumInFunc" /\ d.var = "Arg0"
    BY DEF Put, Write
  <2> HIDE DEF a, b, c, d, f
  <2>3. \A w \in Elems(<<a, b, c, d>>) : w.var # "Ends"
    BY <2>2, ElemsFour
  <2>4. [type |-> "FuncEnter", func |-> f].type \notin {"ThreadEnd", "LastEnd"}
    OBVIOUS
  <2> QED
    BY <1>h, <2>1, <2>3, <2>4
<1>6. ASSUME NEW t \in Threads, FuncReturn(t) PROVE EndInv'
  <2> DEFINE ws == <<Put("Returns", t, Top(t).func, 1), Put("RetVal", t, Top(t).func, 1)>>
  <2>1. pc[t] = "run"
          /\ \E entries : Handle(t, [type |-> "FuncReturn", func |-> Top(t).func], ws, entries)
    BY <1>6 DEF FuncReturn
  <2>2. \A w \in Elems(ws) : w.var # "Ends"
    <3>1. Elems(ws) = {Put("Returns", t, Top(t).func, 1), Put("RetVal", t, Top(t).func, 1)}
      BY ElemsTuple
    <3> QED
      BY <3>1 DEF Put, Write
  <2>3. [type |-> "FuncReturn", func |-> Top(t).func].type \notin {"ThreadEnd", "LastEnd"}
    OBVIOUS
  <2> HIDE DEF ws
  <2> QED
    BY <1>h, <2>1, <2>2, <2>3
<1>7. ASSUME NEW t \in Threads, AtPc(t) PROVE EndInv'
  <2> DEFINE ws == <<Put("Pc", t, NULL, Head(code[t]).pc), Put("AtPc", t, NULL, 1)>>
  <2>1. pc[t] = "run" /\ \E entries : Handle(t, [type |-> "AtPc"], ws, entries)
    BY <1>7 DEF AtPc
  <2>2. \A w \in Elems(ws) : w.var # "Ends"
    <3>1. Elems(ws) = {Put("Pc", t, NULL, Head(code[t]).pc), Put("AtPc", t, NULL, 1)}
      BY ElemsTuple
    <3> QED
      BY <3>1 DEF Put, Write
  <2>3. [type |-> "AtPc"].type \notin {"ThreadEnd", "LastEnd"}
    OBVIOUS
  <2> HIDE DEF ws
  <2> QED
    BY <1>h, <2>1, <2>2, <2>3
<1>8. ASSUME NEW t \in Threads, EndInstrument(t) PROVE EndInv'
  <2>1. aux' = aux /\ pc[t] = "run"
    BY <1>8 DEF EndInstrument
  <2>2. CASE enabled
    <3>1. Others(t) /\ event'[t].type = "EndInstrument" /\ Finish(t)
      BY <1>8, <1>0, <2>2 DEF EndInstrument, Finish, Others
    <3>2. \A w \in Pending(t)' : w.var # "Ends"
      BY <3>1, FinishWrites DEF EventVars
    <3>3. EndOf(t)'
      BY <1>r, <2>1, <3>1, <3>2, OtherHandler
    <3> QED
      BY <2>1, <3>1, <3>3, EndOthers
  <2>3. CASE ~enabled
    <3>1. UNCHANGED <<pc, event, todo, recent>> /\ todo[t] = <<>>
      BY <1>8, <1>0, <2>1, <2>3 DEF EndInstrument
    <3> QED
      BY <1>w, <2>1, <3>1 DEF Others
  <2> QED
    BY <2>2, <2>3
<1>9. ASSUME NEW t \in Threads, ThreadEnd(t) PROVE EndInv'
  <2>1. aux' = aux /\ Others(t) /\ pc[t] = "run" /\ todo[t] = <<>>
    BY <1>9, <1>0 DEF ThreadEnd, Others
  <2>2. EndOf(t)'
    <3>1. CASE enabled
      <4>1. /\ pc'[t] = "set" /\ todo'[t] = <<Put("Ends", t, NULL, 1)>>
            /\ event'[t].type = "LastEnd"
        BY <1>9, <1>0, <3>1 DEF ThreadEnd
      <4>2. Pending(t)' = {Put("Ends", t, NULL, 1)}
        BY <4>1, ElemsTuple, PendingIs
      <4> QED
        BY <4>1, <4>2 DEF EndOf, Put, Write
    <3>2. CASE ~enabled
      <4>1. pc'[t] = "ended" /\ event'[t] = event[t] /\ todo'[t] = <<>>
        BY <1>9, <1>0, <2>1, <3>2 DEF ThreadEnd
      <4>2. event[t].type \notin {"ThreadEnd", "LastEnd"} /\ Pending(t)' = {}
        BY <1>r, <2>1, <4>1, PendingIs
      <4> QED
        BY <4>1, <4>2 DEF EndOf
    <3> QED
      BY <3>1, <3>2
  <2> QED
    BY <2>1, <2>2, EndOthers
<1>10. ASSUME NEW t \in Threads, StartTest(t) PROVE EndInv'
  <2>1. aux' = aux /\ UNCHANGED <<todo, event>> /\ Others(t) /\ todo[t] = <<>>
        /\ pc[t] = "run" /\ pc'[t] = "run"
    BY <1>10, <1>0 DEF StartTest, Others
  <2> QED
    BY <1>w, <2>1
<1>11. ASSUME NEW t \in Threads, EndTest(t) PROVE EndInv'
  <2>1. aux' = aux /\ UNCHANGED <<todo, event>> /\ Others(t) /\ todo[t] = <<>>
        /\ pc[t] = "run" /\ pc'[t] = "endTest"
    BY <1>11, <1>0 DEF EndTest, Others
  <2> QED
    BY <1>w, <2>1
<1>12. ASSUME NEW t \in Threads, InsertEndNode(t) PROVE EndInv'
  <2>1. aux' = aux /\ UNCHANGED <<todo, event>> /\ Others(t) /\ todo[t] = <<>>
        /\ pc[t] = "endTest" /\ pc'[t] = "run"
    BY <1>12, <1>0 DEF InsertEndNode, Others
  <2> QED
    BY <1>w, <2>1
<1>13. ASSUME NEW t \in Threads, WriteAux(t) PROVE EndInv'
  <2> DEFINE w == Head(todo[t])
  <2>1. /\ Others(t) /\ todo[t] # <<>> /\ aux' = Written(w) /\ todo'[t] = Tail(todo[t])
        /\ pc'[t] = pc[t] /\ event'[t] = event[t]
    BY <1>13, <1>0 DEF WriteAux, Others
  <2>2. Pending(t) = {w} \cup Pending(t)'
    <3>1. Elems(todo[t]) = {w} \cup Elems(Tail(todo[t]))
      BY <1>0, <2>1, ElemsTail
    <3> QED
      BY <2>1, <3>1, PendingIs
  <2> HIDE DEF w
  <2>3. EndOf(t) /\ EventOf(t)
    BY DEF EndInv, EventInv
  <2>4. CASE event[t].type # "LastEnd"
    <3>1. w.var # "Ends"
      BY <2>2, <2>3, <2>4 DEF EndOf
    <3>2. \A e \in aux' : e[1] = "Ends" => e \in aux
      BY <2>1, <3>1 DEF Written
    <3>3. EndOf(t)'
      BY <2>1, <2>2, <2>3, <2>4, <3>2 DEF EndOf
    <3> QED
      BY <2>1, <3>3, EndOthers DEF w
  <2>5. CASE event[t].type = "LastEnd"
    <3>1. CASE w.var = "Ends"
      <4>1. w.op = "put" /\ w.tid = t
        BY <2>2, <2>3, <2>5, <3>1 DEF EndOf
      <4>2. <<w.var, w.tid, w.key, w.value>> \in aux'
        BY <2>1, <4>1 DEF Written
      <4>3. \E e \in aux' : e[1] = "Ends" /\ e[2] = t
        BY <3>1, <4>1, <4>2
      <4>4. EndOf(t)'
        BY <2>1, <2>2, <2>3, <2>5, <4>3 DEF EndOf
      <4> QED
        BY <2>1, <4>4, EndOthers DEF w
    <3>2. CASE w.var # "Ends"
      <4>1. \A e \in aux : e[1] = "Ends" => e \in aux'
        BY <2>1, <3>2 DEF Written
      <4>2. EndOf(t)'
        BY <2>1, <2>2, <2>3, <2>5, <3>2, <4>1 DEF EndOf
      <4> QED
        BY <2>1, <4>2, EndOthers DEF w
    <3> QED
      BY <3>1, <3>2
  <2> QED
    BY <2>4, <2>5
<1>14. ASSUME NEW t \in Threads, Return(t) PROVE EndInv'
  <2>1. aux' = aux /\ UNCHANGED <<todo>> /\ Others(t) /\ todo'[t] = <<>> /\ pc[t] = "set"
        /\ event[t].type # "LastEnd"
    BY <1>14, <1>0, <1>r DEF Return, Resume, Others
  <2>2. event'[t].type \notin {"ThreadEnd", "LastEnd"} /\ Pending(t)' = {}
    BY <1>14, <1>0, <2>1, PendingIs DEF Return, Resume, NoEvent, EndOf
  <2>3. EndOf(t)'
    BY <2>1, <2>2, OtherHandler
  <2> QED
    BY <2>1, <2>3, EndOthers
<1>15. ASSUME NEW t \in Threads, TakeNode(t) PROVE EndInv'
  <2>1. aux' = aux /\ UNCHANGED <<todo, event>> /\ Others(t) /\ todo[t] = <<>>
        /\ pc[t] = "set" /\ pc'[t] \in {"set", "eval"}
    BY <1>15, <1>0 DEF TakeNode, InTransition, Others
  <2> QED
    BY <1>w, <2>1
<1>16. ASSUME NEW t \in Threads, SeeEndNode(t) PROVE EndInv'
  BY <1>16, <1>f DEF SeeEndNode, InTransition
<1>17. ASSUME NEW t \in Threads, Evaluates(t) PROVE EndInv'
  <2>1. Evaluated(t)
    BY <1>17, EvaluateEffect
  <2>2. CASE Finish(t)
    BY <1>f, <2>1, <2>2 DEF Evaluated
  <2>3. CASE ~Finish(t)
    <3>1. aux' = aux /\ UNCHANGED <<todo, event>> /\ Others(t) /\ todo[t] = <<>>
          /\ pc[t] \in {"set", "eval", "get"} /\ pc'[t] \in {"set", "eval", "get"}
      BY <1>0, <2>1, <2>3 DEF Evaluated, Decided, Others
    <3> QED
      BY <1>w, <3>1
  <2> QED
    BY <2>2, <2>3
<1>18. ASSUME NEW t \in Threads, AfterTransition(t) PROVE EndInv'
  <2>1. aux' = aux /\ Others(t) /\ pc[t] = "finish" /\ todo[t] = <<>>
    BY <1>18, <1>0 DEF AfterTransition, Resume, Others
  <2>2. CASE event[t].type = "LastEnd"
    <3>1. todo'[t] = <<>> /\ pc'[t] = "ended" /\ event'[t] = NoEvent
      BY <1>18, <1>0, <2>1, <2>2 DEF AfterTransition, Resume
    <3>2. Pending(t)' = {}
      BY <3>1, PendingIs
    <3>3. EndOf(t)'
      BY <3>1, <3>2 DEF EndOf, NoEvent
    <3> QED
      BY <2>1, <3>3, EndOthers
  <2>3. CASE event[t].type # "LastEnd"
    <3>1. CASE event[t].type = "FuncReturn" /\ WasEntered(t, event[t].func)
      <4> DEFINE f == event[t].func
                 c == Count("InFunc", t, f) - 1
                 d == IF c = 0 THEN Erase("InFunc", t, f) ELSE Put("InFunc", t, f, c)
      <4>1. todo'[t] = <<d, Erase("Arg0", t, f)>> /\ event'[t] = event[t]
        BY <1>18, <1>0, <3>1 DEF AfterTransition
      <4>2. d.var = "InFunc" /\ Erase("Arg0", t, f).var = "Arg0"
        BY DEF Erase, Put, Write
      <4> HIDE DEF d
      <4>3. Pending(t)' = {d, Erase("Arg0", t, f)}
        BY <4>1, PendingIs, ElemsTuple
      <4>4. EndOf(t)'
        BY <2>1, <3>1, <4>1, <4>2, <4>3, OtherHandler
      <4> QED
        BY <2>1, <4>4, EndOthers
    <3>2. CASE ~(event[t].type = "FuncReturn" /\ WasEntered(t, event[t].func))
      <4>1. Pending(t)' = {}
        BY <1>18, <2>1, <3>2, PendingIs DEF AfterTransition
      <4>2. event'[t].type \notin {"ThreadEnd", "LastEnd"}
        BY <1>18, <1>0, <2>3, <3>2 DEF AfterTransition, Resume, NoEvent, EndOf
      <4>3. EndOf(t)'
        BY <2>1, <2>3, <4>1, <4>2, OtherHandler
      <4> QED
        BY <2>1, <4>3, EndOthers
    <3> QED
      BY <3>1, <3>2
  <2> QED
    BY <2>2, <2>3
<1>19. ASSUME NEW t \in Threads, LeaveFunction(t) PROVE EndInv'
  <2>1. aux' = aux /\ UNCHANGED <<todo>> /\ Others(t) /\ todo'[t] = <<>> /\ pc[t] = "after"
        /\ event[t].type # "LastEnd"
    BY <1>19, <1>0, <1>r DEF LeaveFunction, Resume, Others
  <2>2. event'[t].type \notin {"ThreadEnd", "LastEnd"} /\ Pending(t)' = {}
    BY <1>19, <1>0, <2>1, PendingIs DEF LeaveFunction, Resume, NoEvent, EndOf
  <2>3. EndOf(t)'
    BY <2>1, <2>2, OtherHandler
  <2> QED
    BY <2>1, <2>3, EndOthers
<1>20. ASSUME Submit PROVE EndInv'
  <2>1. UNCHANGED <<aux, pc, todo, event>>
    BY <1>20 DEF Submit
  <2> QED
    BY <2>1 DEF EndInv, EndOf, Pending
<1>21. ASSUME ReadArg PROVE EndInv'
  <2>1. UNCHANGED <<aux, pc, todo, event>>
    BY <1>21 DEF ReadArg
  <2> QED
    BY <2>1 DEF EndInv, EndOf, Pending
<1>22. ASSUME EndScript PROVE EndInv'
  <2>1. UNCHANGED <<aux, pc, todo, event>>
    BY <1>22 DEF EndScript
  <2> QED
    BY <2>1 DEF EndInv, EndOf, Pending
<1>23. ASSUME RunUncontrolled PROVE EndInv'
  <2>1. UNCHANGED <<aux, pc, todo, event>>
    BY <1>23 DEF RunUncontrolled
  <2> QED
    BY <2>1 DEF EndInv, EndOf, Pending
<1>24. ASSUME Restart PROVE EndInv'
  <2>1. aux' = {} /\ todo' = todo /\ event' = [u \in Threads |-> NoEvent]
        /\ \A u \in Threads : pc[u] = "ended" /\ todo[u] = <<>>
    BY <1>24, <1>0 DEF Restart, Clear
  <2>2. ASSUME NEW u \in Threads PROVE Pending(u)' = {} /\ event'[u].type = "none"
    BY <2>1, PendingIs DEF NoEvent
  <2> QED
    BY <2>1, <2>2 DEF EndInv, EndOf
<1>25. ASSUME Terminated PROVE EndInv'
  <2>1. UNCHANGED <<aux, pc, todo, event>>
    BY <1>25 DEF Terminated
  <2> QED
    BY <2>1 DEF EndInv, EndOf, Pending
<1>26. CASE UNCHANGED vars
  BY <1>26 DEF EndInv, EndOf, Pending
<1>27. QED
  BY <1>1, <1>2, <1>3, <1>4, <1>5, <1>6, <1>7, <1>8, <1>9, <1>10, <1>11, <1>12, <1>13,
     <1>14, <1>15, <1>16, <1>17, <1>18, <1>19, <1>20, <1>21, <1>22, <1>23, <1>24, <1>25,
     <1>26 DEF Next, SutSteps, HandlerSteps, ScriptSteps, Evaluates

\* No assert fails, in a script that evaluates predicates only about bound variables.
LEMMA AbortStep ==
  ASSUME ~EndsTwice, ~NoTarget, Scoped, TypeInv, BoundInv, EndInv, NoAbort, [Next]_vars
  PROVE  NoAbort'
<1>0. /\ aborted = "none" /\ NULL \notin Threads
      /\ \A t \in Threads : EndOf(t)
  BY EventMonitorAssumption DEF NoAbort, EndInv
<1>1. ASSUME NEW t \in Threads, MemRead(t) PROVE NoAbort'
  BY <1>1, <1>0 DEF MemRead, Handle, NoAbort
<1>2. ASSUME NEW t \in Threads, MemWrite(t) PROVE NoAbort'
  BY <1>2, <1>0 DEF MemWrite, Handle, NoAbort
<1>3. ASSUME NEW t \in Threads, MemAccessBefore(t) PROVE NoAbort'
  BY <1>3, <1>0 DEF MemAccessBefore, Handle, NoAbort
<1>4. ASSUME NEW t \in Threads, FuncCall(t) PROVE NoAbort'
  BY <1>4, <1>0 DEF FuncCall, Handle, NoAbort
<1>5. ASSUME NEW t \in Threads, FuncEnter(t) PROVE NoAbort'
  BY <1>5, <1>0 DEF FuncEnter, Handle, NoAbort
<1>6. ASSUME NEW t \in Threads, FuncReturn(t) PROVE NoAbort'
  BY <1>6, <1>0 DEF FuncReturn, Handle, NoAbort
<1>7. ASSUME NEW t \in Threads, AtPc(t) PROVE NoAbort'
  BY <1>7, <1>0 DEF AtPc, Handle, NoAbort
<1>8. ASSUME NEW t \in Threads, EndInstrument(t) PROVE NoAbort'
  BY <1>8, <1>0 DEF EndInstrument, Finish, NoAbort
<1>9. ASSUME NEW t \in Threads, ThreadEnd(t) PROVE NoAbort'
  <2>1. pc[t] = "run" /\ EndOf(t)
    BY <1>9, <1>0 DEF ThreadEnd
  <2>2. ~IsSet("Ends", t, NULL)
    BY <2>1, EndsIsSet DEF EndOf
  <2> QED
    BY <1>9, <1>0, <2>2 DEF ThreadEnd, NoAbort
<1>10. ASSUME NEW t \in Threads, StartTest(t) PROVE NoAbort'
  BY <1>10, <1>0 DEF StartTest, NoAbort
<1>11. ASSUME NEW t \in Threads, EndTest(t) PROVE NoAbort'
  BY <1>11, <1>0 DEF EndTest, NoAbort
<1>12. ASSUME NEW t \in Threads, InsertEndNode(t) PROVE NoAbort'
  BY <1>12, <1>0 DEF InsertEndNode, NoAbort
<1>13. ASSUME NEW t \in Threads, WriteAux(t) PROVE NoAbort'
  BY <1>13, <1>0 DEF WriteAux, NoAbort
<1>14. ASSUME NEW t \in Threads, Return(t) PROVE NoAbort'
  BY <1>14, <1>0 DEF Return, Resume, NoAbort
<1>15. ASSUME NEW t \in Threads, TakeNode(t) PROVE NoAbort'
  BY <1>15, <1>0 DEF TakeNode, InTransition, NoAbort
<1>16. ASSUME NEW t \in Threads, SeeEndNode(t) PROVE NoAbort'
  BY <1>16, <1>0 DEF SeeEndNode, InTransition, Finish, NoAbort
<1>17. ASSUME NEW t \in Threads, Evaluates(t) PROVE NoAbort'
  <2>1. Evaluated(t)
    BY <1>17, EvaluateEffect
  <2>2. CASE EvalGet(t)
    BY <1>0, <2>2 DEF EvalGet, NoAbort
  <2>3. CASE EvalIsSet(t)
    <3>1. /\ node \in DOMAIN Script /\ node = stmt /\ Script[node].kind # "readArg"
          /\ lit[t] \in DOMAIN Script[node].lits /\ holder = t
      BY <2>1 DEF Evaluated
    <3>2. About(t) # NULL
      <4> DEFINE v == Literal(t).about
      <4>1. v = Script[node].lits[lit[t]].about
        BY DEF Literal
      <4> HIDE DEF v
      <4>2. CASE v = TID
        BY <1>0, <3>1, <4>2 DEF BoundInv, About, v
      <4>3. CASE v # TID
        <5>1. PICK h \in 1..(node - 1) : Script[h].kind # "readArg" /\ Script[h].bind = v
          BY <3>1, <4>1, <4>3 DEF Scoped
        <5>2. v # NULL
          <6>1. IsLiteral(Script[node].lits[lit[t]])
            BY <3>1, Statement
          <6>2. v \in TVars
            BY <4>1, <6>1 DEF IsLiteral
          <6> QED
            BY <4>3, <6>2, EventMonitorAssumption DEF TVars
        <5>3. tvar[v] # NULL
          BY <3>1, <5>1, <5>2 DEF BoundInv
        <5> QED
          BY <5>3 DEF About, v
      <4> QED
        BY <4>2, <4>3
    <3> QED
      BY <1>0, <2>3, <3>2 DEF EvalIsSet, NoAbort
  <2> QED
    BY <1>17, <2>2, <2>3 DEF Evaluates
<1>18. ASSUME NEW t \in Threads, AfterTransition(t) PROVE NoAbort'
  <2>1. pc[t] = "finish" /\ EndOf(t)
    BY <1>18, <1>0 DEF AfterTransition
  <2>2. event[t].type \in {"ThreadEnd", "LastEnd"} => IsSet("Ends", t, NULL)
    BY <2>1, EndsIsSet DEF EndOf
  <2> QED
    BY <1>18, <1>0, <2>2 DEF AfterTransition, NoAbort
<1>19. ASSUME NEW t \in Threads, LeaveFunction(t) PROVE NoAbort'
  BY <1>19, <1>0 DEF LeaveFunction, Resume, NoAbort
<1>20. ASSUME Submit PROVE NoAbort'
  BY <1>20, <1>0 DEF Submit, NoAbort
<1>21. ASSUME ReadArg PROVE NoAbort'
  BY <1>21, <1>0 DEF ReadArg, NoAbort
<1>22. ASSUME EndScript PROVE NoAbort'
  BY <1>22, <1>0 DEF EndScript, NoAbort
<1>23. ASSUME RunUncontrolled PROVE NoAbort'
  BY <1>23, <1>0 DEF RunUncontrolled, NoAbort
<1>24. ASSUME Restart PROVE NoAbort'
  BY <1>24, <1>0 DEF Restart, NoAbort
<1>25. ASSUME Terminated PROVE NoAbort'
  BY <1>25, <1>0 DEF Terminated, NoAbort
<1>26. CASE UNCHANGED vars
  BY <1>26, <1>0 DEF NoAbort, vars
<1>27. QED
  BY <1>1, <1>2, <1>3, <1>4, <1>5, <1>6, <1>7, <1>8, <1>9, <1>10, <1>11, <1>12, <1>13,
     <1>14, <1>15, <1>16, <1>17, <1>18, <1>19, <1>20, <1>21, <1>22, <1>23, <1>24, <1>25,
     <1>26 DEF Next, SutSteps, HandlerSteps, ScriptSteps, Evaluates

\* The frames an event opens and closes.
Opens(ty) == IF ty = "FuncEnter" THEN 1 ELSE 0
Closes(ty) == IF ty = "FuncReturn" THEN 1 ELSE 0

\* They are numbers.
LEMMA OpensNat == \A ty : Opens(ty) \in Int /\ Closes(ty) \in Int
BY DEF Opens, Closes

\* One more event of a program opens a frame, closes one, or does neither.
LEMMA DepthStep ==
  ASSUME NEW p \in Seq(Events), NEW i \in 0..(Len(p) - 1)
  PROVE  /\ Depth(p, i) \in Int
         /\ Depth(p, i + 1) = Depth(p, i) + Opens(p[i + 1].type) - Closes(p[i + 1].type)
<1> DEFINE S(n, ty) == {j \in 1..n : p[j].type = ty}
<1>1. ASSUME NEW ty
      PROVE  /\ Cardinality(S(i, ty)) \in Nat
             /\ Cardinality(S(i + 1, ty)) =
                  Cardinality(S(i, ty)) + (IF p[i + 1].type = ty THEN 1 ELSE 0)
  <2>1. IsFiniteSet(1..i) /\ S(i, ty) \subseteq 1..i /\ i \in Int
    BY FS_Interval
  <2>2. IsFiniteSet(S(i, ty))
    BY <2>1, FS_Subset
  <2>3. Cardinality(S(i, ty)) \in Nat
    BY <2>2, FS_CardinalityType
  <2>4. i + 1 \notin S(i, ty)
    BY <2>1
  <2>5. 1..(i + 1) = 1..i \cup {i + 1}
    BY <2>1
  <2>6. CASE p[i + 1].type = ty
    <3>1. S(i + 1, ty) = S(i, ty) \cup {i + 1}
      BY <2>5, <2>6
    <3> HIDE DEF S
    <3>2. Cardinality(S(i, ty) \cup {i + 1}) = Cardinality(S(i, ty)) + 1
      BY <2>2, <2>4, FS_AddElement
    <3> QED
      BY <2>3, <2>6, <3>1, <3>2
  <2>7. CASE p[i + 1].type # ty
    <3>1. S(i + 1, ty) = S(i, ty)
      BY <2>5, <2>7
    <3> HIDE DEF S
    <3> QED
      BY <2>3, <2>7, <3>1
  <2> QED
    BY <2>6, <2>7
<1>2. /\ Depth(p, i) = Cardinality(S(i, "FuncEnter")) - Cardinality(S(i, "FuncReturn"))
      /\ Depth(p, i + 1) = Cardinality(S(i + 1, "FuncEnter")) - Cardinality(S(i + 1, "FuncReturn"))
  BY DEF Depth
<1> HIDE DEF S
<1>3. QED
  BY <1>1, <1>2 DEF Opens, Closes

\* A sequence is a function of its indices.
LEMMA SeqFunction ==
  ASSUME NEW S, NEW s \in Seq(S), NEW n \in Nat, Len(s) = n
  PROVE  s = [j \in 1..n |-> s[j]]
OBVIOUS

\* The rest of a program, one event later.
LEMMA CodeStep ==
  ASSUME NEW p \in Seq(Events), NEW i \in 0..Len(p), SubSeq(p, i + 1, Len(p)) # <<>>
  PROVE  /\ i \in 0..(Len(p) - 1)
         /\ Head(SubSeq(p, i + 1, Len(p))) = p[i + 1]
         /\ Tail(SubSeq(p, i + 1, Len(p))) = SubSeq(p, i + 2, Len(p))
<1> DEFINE s == SubSeq(p, i + 1, Len(p))
<1>1. Len(p) \in Nat
  OBVIOUS
<1>2. i # Len(p)
  <2>1. ASSUME i = Len(p) PROVE s = <<>>
    BY <1>1, <2>1
  <2>2. QED
    BY <2>1
<1>3. s \in Seq(Events) /\ Len(s) = Len(p) - i /\ \A j \in 1..Len(s) : s[j] = p[i + j]
  BY <1>1, <1>2
<1>4. Head(s) = p[i + 1]
  BY <1>1, <1>2, <1>3
<1>5. Tail(s) = SubSeq(p, i + 2, Len(p))
  <2>1. Tail(s) \in Seq(Events) /\ Len(Tail(s)) = Len(p) - i - 1
        /\ \A j \in 1..Len(Tail(s)) : Tail(s)[j] = s[j + 1]
    BY <1>1, <1>2, <1>3
  <2>2. /\ SubSeq(p, i + 2, Len(p)) \in Seq(Events)
        /\ Len(SubSeq(p, i + 2, Len(p))) = Len(p) - i - 1
        /\ \A j \in 1..(Len(p) - i - 1) : SubSeq(p, i + 2, Len(p))[j] = p[i + 1 + j]
    BY <1>1, <1>2
  <2> HIDE DEF s
  <2>3. \A j \in 1..(Len(p) - i - 1) : Tail(s)[j] = SubSeq(p, i + 2, Len(p))[j]
    BY <1>1, <1>2, <1>3, <2>1, <2>2
  <2>4. Tail(s) = [j \in 1..(Len(p) - i - 1) |-> Tail(s)[j]]
    <3>1. Len(p) - i - 1 \in Nat
      BY <1>1, <1>2
    <3> HIDE DEF s
    <3>2. QED
      BY <2>1, <3>1, SeqFunction
  <2>5. SubSeq(p, i + 2, Len(p)) = [j \in 1..(Len(p) - i - 1) |-> SubSeq(p, i + 2, Len(p))[j]]
    BY SMTT(30), <1>1, <1>2, <2>2, SeqFunction
  <2>6. QED
    BY <2>3, <2>4, <2>5
<1>6. QED
  BY <1>1, <1>2, <1>4, <1>5

\* After one more event of its program.
LEMMA OpenedNext ==
  ASSUME TypeInv, NEW t \in Threads, Opened(t), code[t] # <<>>, code'[t] = Tail(code[t]),
         Len(stack'[t]) = Len(stack[t]) + Opens(Head(code[t]).type) - Closes(Head(code[t]).type)
                            + Closes(event'[t].type) - Closes(event[t].type)
  PROVE  Opened(t)'
<1>1. PICK p \in Programs : \E i \in 0..Len(p) :
        /\ code[t] = SubSeq(p, i + 1, Len(p))
        /\ Len(stack[t]) = Depth(p, i) + Closes(event[t].type)
  BY DEF Opened, Closes
<1>2. PICK i \in 0..Len(p) :
        /\ code[t] = SubSeq(p, i + 1, Len(p))
        /\ Len(stack[t]) = Depth(p, i) + Closes(event[t].type)
  BY <1>1
<1>3. p \in Seq(Events)
  BY EventMonitorAssumption
<1>4. /\ i \in 0..(Len(p) - 1) /\ Head(code[t]) = p[i + 1]
      /\ code'[t] = SubSeq(p, i + 2, Len(p)) /\ Len(p) \in Nat
  <2> DEFINE s == SubSeq(p, i + 1, Len(p))
  <2>1. code[t] = s /\ s # <<>> /\ code'[t] = Tail(s) /\ Len(p) \in Nat
    BY <1>2, <1>3
  <2>2. /\ i \in 0..(Len(p) - 1) /\ Head(s) = p[i + 1]
        /\ Tail(s) = SubSeq(p, i + 2, Len(p))
    BY <1>3, <2>1, CodeStep
  <2> HIDE DEF s
  <2>3. QED
    BY <2>1, <2>2
<1>5. /\ Depth(p, i) \in Int
      /\ Depth(p, i + 1) = Depth(p, i) + Opens(Head(code[t]).type) - Closes(Head(code[t]).type)
  BY <1>3, <1>4, DepthStep
<1>6. Len(stack'[t]) = Depth(p, i + 1) + Closes(event'[t].type)
  <2> DEFINE o == Opens(Head(code[t]).type)
             c == Closes(Head(code[t]).type)
             x == Closes(event[t].type)
             y == Closes(event'[t].type)
             d == Depth(p, i)
             n == Len(stack[t])
  <2>1. /\ o \in Int /\ c \in Int /\ x \in Int /\ y \in Int /\ d \in Int
        /\ n = d + x /\ Len(stack'[t]) = n + o - c + y - x /\ Depth(p, i + 1) = d + o - c
    BY <1>2, <1>5, OpensNat, Zenon
  <2> HIDE DEF o, c, x, d, n
  <2>2. QED
    BY <2>1
<1>7. i + 1 \in 0..Len(p) /\ (i + 1) + 1 = i + 2
  BY <1>4
<1>8. QED
  BY <1>4, <1>6, <1>7 DEF Opened, Closes

\* Without an event, a frame is closed only when its return has been handled.
LEMMA OpenedSame ==
  ASSUME TypeInv, NEW t \in Threads, Opened(t), code'[t] = code[t],
         Len(stack'[t]) = Len(stack[t]) + Closes(event'[t].type) - Closes(event[t].type)
  PROVE  Opened(t)'
<1>1. PICK p \in Programs : \E i \in 0..Len(p) :
        /\ code[t] = SubSeq(p, i + 1, Len(p))
        /\ Len(stack[t]) = Depth(p, i) + Closes(event[t].type)
  BY DEF Opened, Closes
<1>2. PICK i \in 0..Len(p) :
        /\ code[t] = SubSeq(p, i + 1, Len(p))
        /\ Len(stack[t]) = Depth(p, i) + Closes(event[t].type)
  BY <1>1
<1>3. p \in Seq(Events)
  BY EventMonitorAssumption
<1>4. Depth(p, i) \in Int
  <2>1. IsFiniteSet(1..i) /\ i \in Int
    BY FS_Interval
  <2>2. \A ty : IsFiniteSet({j \in 1..i : p[j].type = ty})
    BY <2>1, FS_Subset
  <2>3. \A ty : Cardinality({j \in 1..i : p[j].type = ty}) \in Nat
    BY <2>2, FS_CardinalityType
  <2>4. /\ Cardinality({j \in 1..i : p[j].type = "FuncEnter"}) \in Nat
        /\ Cardinality({j \in 1..i : p[j].type = "FuncReturn"}) \in Nat
    BY <2>3
  <2>5. QED
    BY <2>4 DEF Depth
<1>5. Len(stack'[t]) = Depth(p, i) + Closes(event'[t].type)
  BY <1>2, <1>4, OpensNat
<1>6. QED
  BY <1>2, <1>5 DEF Opened, Closes

\* A thread that has done its program has no frame left.
LEMMA OpenedEnd ==
  ASSUME TypeInv, NEW t \in Threads, Opened(t), code[t] = <<>>, event[t].type # "FuncReturn"
  PROVE  stack[t] = <<>>
<1>1. PICK p \in Programs : \E i \in 0..Len(p) :
        code[t] = SubSeq(p, i + 1, Len(p)) /\ Len(stack[t]) = Depth(p, i) + 0
  BY DEF Opened
<1>2. PICK i \in 0..Len(p) :
        code[t] = SubSeq(p, i + 1, Len(p)) /\ Len(stack[t]) = Depth(p, i) + 0
  BY <1>1
<1>3. p \in Seq(Events) /\ Depth(p, Len(p)) = 0
  BY EventMonitorAssumption DEF Balanced
<1>4. i = Len(p)
  <2>1. i + 1 \in Nat /\ Len(p) \in Nat
    BY <1>3
  <2>2. ASSUME i < Len(p) PROVE FALSE
    <3>1. Len(SubSeq(p, i + 1, Len(p))) = Len(p) - i
      BY <1>3, <2>1, <2>2
    <3>2. Len(SubSeq(p, i + 1, Len(p))) = 0
      BY <1>2
    <3>3. QED
      BY <2>1, <2>2, <3>1, <3>2
  <2>3. QED
    BY <2>1, <2>2
<1>5. Len(stack[t]) = 0
  BY <1>2, <1>3, <1>4
<1>6. stack[t] \in Seq([func : Funcs, arg : Values, seen : BOOLEAN])
  BY DEF TypeInv, SutInv
<1>7. QED
  BY <1>5, <1>6


\* Only Scenario::Start brings back the time before concurritStartTest.
LEMMA NotStartedStep ==
  ASSUME TypeInv, [Next]_vars, NotStarted' PROVE NotStarted \/ Restart
<1>0. /\ ScriptInv /\ Len(Script) \in Nat /\ DOMAIN Script = 1..Len(Script)
      /\ pc \in [Threads -> {"run", "set", "eval", "get", "finish", "after", "endTest", "ended"}]
      /\ stmt \in 1..(Len(Script) + 1) /\ node \in {0, -1} \cup DOMAIN Script
  BY EventMonitorAssumption DEF TypeInv, ScriptInv, End
<1> USE DEF NotStarted
<1>1. ASSUME NEW t \in Threads, MemRead(t) PROVE NotStarted \/ Restart
  BY <1>1, <1>0 DEF MemRead, Handle
<1>2. ASSUME NEW t \in Threads, MemWrite(t) PROVE NotStarted \/ Restart
  BY <1>2, <1>0 DEF MemWrite, Handle
<1>3. ASSUME NEW t \in Threads, MemAccessBefore(t) PROVE NotStarted \/ Restart
  BY <1>3, <1>0 DEF MemAccessBefore, Handle
<1>4. ASSUME NEW t \in Threads, FuncCall(t) PROVE NotStarted \/ Restart
  BY <1>4, <1>0 DEF FuncCall, Handle
<1>5. ASSUME NEW t \in Threads, FuncEnter(t) PROVE NotStarted \/ Restart
  BY <1>5, <1>0 DEF FuncEnter, Handle
<1>6. ASSUME NEW t \in Threads, FuncReturn(t) PROVE NotStarted \/ Restart
  BY <1>6, <1>0 DEF FuncReturn, Handle
<1>7. ASSUME NEW t \in Threads, AtPc(t) PROVE NotStarted \/ Restart
  BY <1>7, <1>0 DEF AtPc, Handle
<1>8. ASSUME NEW t \in Threads, EndInstrument(t) PROVE NotStarted \/ Restart
  BY <1>8, <1>0 DEF EndInstrument, Finish
<1>9. ASSUME NEW t \in Threads, ThreadEnd(t) PROVE NotStarted \/ Restart
  BY <1>9, <1>0 DEF ThreadEnd
<1>10. ASSUME NEW t \in Threads, StartTest(t) PROVE NotStarted \/ Restart
  BY <1>10, <1>0 DEF StartTest
<1>11. ASSUME NEW t \in Threads, EndTest(t) PROVE NotStarted \/ Restart
  BY <1>11, <1>0 DEF EndTest
<1>12. ASSUME NEW t \in Threads, InsertEndNode(t) PROVE NotStarted \/ Restart
  BY <1>12, <1>0 DEF InsertEndNode, End
<1>13. ASSUME NEW t \in Threads, WriteAux(t) PROVE NotStarted \/ Restart
  BY <1>13, <1>0 DEF WriteAux
<1>14. ASSUME NEW t \in Threads, Return(t) PROVE NotStarted \/ Restart
  BY <1>14, <1>0 DEF Return, Resume
<1>15. ASSUME NEW t \in Threads, TakeNode(t) PROVE NotStarted \/ Restart
  BY <1>15, <1>0 DEF TakeNode, InTransition
<1>16. ASSUME NEW t \in Threads, SeeEndNode(t) PROVE NotStarted \/ Restart
  BY <1>16, <1>0 DEF SeeEndNode, InTransition, Finish
<1>17. ASSUME NEW t \in Threads, Evaluates(t) PROVE NotStarted \/ Restart
  <2>1. Evaluated(t)
    BY <1>17, EvaluateEffect
  <2>2. /\ node \in DOMAIN Script /\ node = stmt /\ (node' = node \/ stmt' = stmt + 1)
    BY <2>1 DEF Evaluated, Decided
  <2> QED
    BY <1>0, <2>2
<1>18. ASSUME NEW t \in Threads, AfterTransition(t) PROVE NotStarted \/ Restart
  BY <1>18, <1>0 DEF AfterTransition, Resume
<1>19. ASSUME NEW t \in Threads, LeaveFunction(t) PROVE NotStarted \/ Restart
  BY <1>19, <1>0 DEF LeaveFunction, Resume
<1>20. ASSUME Submit PROVE NotStarted \/ Restart
  BY <1>20, <1>0 DEF Submit
<1>21. ASSUME ReadArg PROVE NotStarted \/ Restart
  BY <1>21, <1>0 DEF ReadArg
<1>22. ASSUME EndScript PROVE NotStarted \/ Restart
  BY <1>22, <1>0 DEF EndScript, End
<1>23. ASSUME RunUncontrolled PROVE NotStarted \/ Restart
  BY <1>23, <1>0 DEF RunUncontrolled, End
<1>24. ASSUME Restart PROVE NotStarted \/ Restart
  BY <1>24, <1>0 DEF Restart
<1>25. ASSUME Terminated PROVE NotStarted \/ Restart
  BY <1>25, <1>0 DEF Terminated
<1>26. CASE UNCHANGED vars
  BY <1>26, <1>0 DEF vars
<1>27. QED
  BY <1>1, <1>2, <1>3, <1>4, <1>5, <1>6, <1>7, <1>8, <1>9, <1>10, <1>11, <1>12, <1>13,
     <1>14, <1>15, <1>16, <1>17, <1>18, <1>19, <1>20, <1>21, <1>22, <1>23, <1>24, <1>25,
     <1>26 DEF Next, SutSteps, HandlerSteps, ScriptSteps, Evaluates

\* Whether the monitor knows about a thread: it is enabled, or inside its handler.
Watched(t) == enabled \/ InHandler(t)

\* StackOf of a thread that does nothing.
LEMMA StackKeep ==
  ASSUME TypeInv, NEW u \in Threads, StackOf(u), NotStarted' => NotStarted,
         code'[u] = code[u], stack'[u] = stack[u], event'[u] = event[u], pc'[u] = pc[u],
         enabled' => enabled
  PROVE  StackOf(u)'
<1>1. Opened(u)'
  BY DEF StackOf, Opened
<1>2. QED
  BY <1>1 DEF StackOf, InHandler, Top

\* StackOf of a thread that reports an event other than a call or a return.
LEMMA StackEvent ==
  ASSUME TypeInv, NEW t \in Threads, StackOf(t), NotStarted' => NotStarted,
         pc[t] = "run", code[t] # <<>>, code'[t] = Tail(code[t]), stack'[t] = stack[t],
         Head(code[t]).type \notin {"FuncEnter", "FuncReturn"},
         event'[t].type \notin {"FuncReturn", "LastEnd"},
         pc'[t] \in {"run", "endTest"} \/ (pc'[t] \in {"set", "finish"} /\ enabled),
         enabled' => enabled
  PROVE  StackOf(t)'
<1>1. event[t].type # "FuncReturn" /\ Opened(t)
  BY DEF StackOf, InHandler
<1>2. Len(stack'[t]) = Len(stack[t]) + Opens(Head(code[t]).type) - Closes(Head(code[t]).type)
                         + Closes(event'[t].type) - Closes(event[t].type)
  <2>1. Len(stack[t]) \in Nat
    BY DEF TypeInv, SutInv
  <2>2. /\ Opens(Head(code[t]).type) = 0 /\ Closes(Head(code[t]).type) = 0
        /\ Closes(event'[t].type) = 0 /\ Closes(event[t].type) = 0
    BY <1>1 DEF Opens, Closes
  <2>3. QED
    BY <2>1, <2>2
<1>3. Opened(t)'
  BY <1>1, <1>2, OpenedNext
<1>4. Watched(t)' => Watched(t)
  BY DEF Watched, InHandler
<1>5. NotStarted' => ~InHandler(t)'
  BY DEF NotStarted, InHandler
<1>6. QED
  BY <1>3, <1>4, <1>5 DEF StackOf, Watched, Top

\* StackOf of a thread that moves within its handler.
LEMMA StackHandler ==
  ASSUME TypeInv, NEW t \in Threads, StackOf(t), NotStarted' => NotStarted,
         pc[t] \in {"set", "eval", "get", "finish"}, pc'[t] \in {"set", "eval", "get", "finish"},
         code'[t] = code[t], stack'[t] = stack[t], event'[t] = event[t], enabled' => enabled
  PROVE  StackOf(t)'
<1>1. Opened(t)'
  BY DEF StackOf, Opened
<1>2. ~NotStarted'
  BY DEF StackOf, InHandler
<1>3. QED
  BY <1>1, <1>2 DEF StackOf, InHandler, Top

\* StackOf of a thread that leaves its handler.
LEMMA StackLeave ==
  ASSUME TypeInv, NEW t \in Threads, StackOf(t), NotStarted' => NotStarted,
         InHandler(t), pc'[t] \in {"run", "ended"}, pc'[t] = "ended"
           => event[t].type = "LastEnd",
         code'[t] = code[t], event'[t].type \notin {"FuncReturn", "LastEnd"},
         enabled' => enabled,
         stack'[t] = IF event[t].type = "FuncReturn" THEN Pop(t) ELSE stack[t]
  PROVE  StackOf(t)'
<1>1. Opened(t) /\ ~NotStarted'
  BY DEF StackOf
<1>2. CASE event[t].type = "FuncReturn"
  <2>1. stack[t] # <<>>
    BY <1>2 DEF StackOf
  <2>2. /\ Len(stack[t]) \in Nat \ {0} /\ stack'[t] = Pop(t)
             /\ Len(Pop(t)) = Len(stack[t]) - 1
        /\ \A i \in 1..(Len(stack[t]) - 1) : Pop(t)[i] = stack[t][i]
        /\ DOMAIN Pop(t) = 1..(Len(stack[t]) - 1) /\ DOMAIN stack[t] = 1..Len(stack[t])
    BY <1>2, <2>1, StackFields DEF TypeInv, SutInv
  <2>3. Len(stack'[t]) = Len(stack[t]) + Closes(event'[t].type) - Closes(event[t].type)
    <3>1. Closes(event'[t].type) = 0 /\ Closes(event[t].type) = 1
      BY <1>2 DEF Closes
    <3>2. QED
      BY <2>2, <3>1
  <2>4. Opened(t)'
    BY <1>1, <2>3, OpenedSame
  <2>5. \A i, j \in DOMAIN stack'[t] : i < j /\ stack'[t][i].seen => stack'[t][j].seen
    BY <2>2 DEF StackOf
  <2>6. QED
    BY <1>1, <1>2, <2>4, <2>5 DEF StackOf, InHandler
<1>3. CASE event[t].type # "FuncReturn"
  <2>1. Len(stack'[t]) = Len(stack[t]) + Closes(event'[t].type) - Closes(event[t].type)
    <3>1. Closes(event'[t].type) = 0 /\ Closes(event[t].type) = 0
      BY <1>3 DEF Closes
    <3>2. stack'[t] = stack[t] /\ Len(stack[t]) \in Nat
      BY <1>3 DEF TypeInv, SutInv
    <3>3. QED
      BY <3>1, <3>2
  <2>2. Opened(t)'
    BY <1>1, <2>1, OpenedSame
  <2>3. QED
    BY <1>1, <1>3, <2>2 DEF StackOf, InHandler
<1>4. QED
  BY <1>2, <1>3

\* A program that has done nothing has opened nothing.
LEMMA OpenedStart ==
  ASSUME NEW t \in Threads, code'[t] \in Programs, Len(stack'[t]) = 0,
         event'[t].type # "FuncReturn"
  PROVE  Opened(t)'
<1> DEFINE p == code'[t]
<1>1. p \in Seq(Events) /\ Len(p) \in Nat
  BY EventMonitorAssumption
<1>2. SubSeq(p, 0 + 1, Len(p)) = p
  <2>1. /\ SubSeq(p, 1, Len(p)) \in Seq(Events) /\ Len(SubSeq(p, 1, Len(p))) = Len(p)
        /\ \A j \in 1..Len(p) : SubSeq(p, 1, Len(p))[j] = p[j]
    BY <1>1
  <2>2. SubSeq(p, 1, Len(p)) = [j \in 1..Len(p) |-> SubSeq(p, 1, Len(p))[j]]
    BY <1>1, <2>1, SeqFunction
  <2>3. p = [j \in 1..Len(p) |-> p[j]]
    BY <1>1, SeqFunction
  <2>4. QED
    BY <2>1, <2>2, <2>3
<1>3. Depth(p, 0) = 0
  <2>1. \A ty : {j \in 1..0 : p[j].type = ty} = {}
    OBVIOUS
  <2>2. QED
    BY <2>1, FS_EmptySet DEF Depth
<1>4. 0 \in 0..Len(p)
  BY <1>1
<1> HIDE DEF p
<1>5. \E i \in 0..Len(p) : p = SubSeq(p, i + 1, Len(p)) /\ Len(stack'[t]) = Depth(p, i) + 0
  BY <1>2, <1>3, <1>4
<1>6. QED
  BY <1>5 DEF Opened, p

\* A program that has done nothing has opened nothing, in the initial state.
LEMMA OpenedFirst ==
  ASSUME NEW t \in Threads, code[t] \in Programs, Len(stack[t]) = 0,
         event[t].type # "FuncReturn"
  PROVE  Opened(t)
<1> DEFINE p == code[t]
<1>1. p \in Seq(Events) /\ Len(p) \in Nat
  BY EventMonitorAssumption
<1>2. SubSeq(p, 0 + 1, Len(p)) = p
  <2>1. /\ SubSeq(p, 1, Len(p)) \in Seq(Events) /\ Len(SubSeq(p, 1, Len(p))) = Len(p)
        /\ \A j \in 1..Len(p) : SubSeq(p, 1, Len(p))[j] = p[j]
    BY <1>1
  <2>2. SubSeq(p, 1, Len(p)) = [j \in 1..Len(p) |-> SubSeq(p, 1, Len(p))[j]]
    BY <1>1, <2>1, SeqFunction
  <2>3. p = [j \in 1..Len(p) |-> p[j]]
    BY <1>1, SeqFunction
  <2>4. QED
    BY <2>1, <2>2, <2>3
<1>3. Depth(p, 0) = 0
  <2>1. \A ty : {j \in 1..0 : p[j].type = ty} = {}
    OBVIOUS
  <2>2. QED
    BY <2>1, FS_EmptySet DEF Depth
<1>4. 0 \in 0..Len(p)
  BY <1>1
<1> HIDE DEF p
<1>5. \E i \in 0..Len(p) : p = SubSeq(p, i + 1, Len(p)) /\ Len(stack[t]) = Depth(p, i) + 0
  BY <1>2, <1>3, <1>4
<1>6. QED
  BY <1>5 DEF Opened, p

\* A frame that FuncReturn leaves was entered under the monitor.
LEMMA ReturnsSeen ==
  ASSUME TypeInv, CountInv, NEW t \in Threads, StackOf(t), pc[t] = "finish", todo[t] = <<>>,
         event[t].type = "FuncReturn", WasEntered(t, event[t].func)
  PROVE  Top(t).seen /\ stack[t] # <<>>
<1> DEFINE f == event[t].func
<1>1. stack[t] # <<>> /\ Top(t).func = f /\ f \in Funcs
  <2>1. stack[t] # <<>> /\ Top(t).func = f
    BY DEF StackOf
  <2>2. QED
    BY <2>1, StackFields DEF TypeInv
<1>2. Cardinality(Frames(t, f)) = Count("InFunc", t, f)
  <2>1. CountOf(t) /\ Pending(t) = {} /\ InHandler(t)
    BY PendingIs DEF CountInv, InHandler
  <2>2. QED
    BY <1>1, <2>1 DEF CountOf
<1>3. Frames(t, f) # {}
  <2>1. Count("InFunc", t, f) > 0
    BY DEF WasEntered
  <2>2. Cardinality({}) = 0
    BY FS_EmptySet
  <2>3. ASSUME Frames(t, f) = {} PROVE Count("InFunc", t, f) = 0
    BY <1>2, <2>2, <2>3, Zenon
  <2>4. QED
    BY <2>1, <2>3
<1>4. PICK i \in 1..Len(stack[t]) : stack[t][i].seen
  BY <1>3 DEF Frames
<1>5. Len(stack[t]) \in Nat \ {0} /\ DOMAIN stack[t] = 1..Len(stack[t])
  BY <1>1, StackFields DEF TypeInv, SutInv
<1>6. \A j \in DOMAIN stack[t] : i < j => stack[t][j].seen
  BY <1>4, <1>5 DEF StackOf, InHandler
<1>7. QED
  BY <1>1, <1>4, <1>5, <1>6 DEF Top

\* Every step keeps StackInv.
LEMMA StackStep ==
  ASSUME TypeInv, CountInv, StackInv, [Next]_vars PROVE StackInv'

<1>0. /\ pc \in [Threads -> {"run", "set", "eval", "get", "finish", "after", "endTest", "ended"}]
      /\ event \in [Threads -> Handled] /\ enabled \in BOOLEAN
      /\ code \in [Threads -> Seq(Events)]
      /\ stack \in [Threads -> Seq([func : Funcs, arg : Values, seen : BOOLEAN])]
      /\ \A t \in Threads : todo[t] # <<>> => pc[t] \in {"set", "finish", "after"}
      /\ \A t \in Threads : StackOf(t)
  BY DEF TypeInv, ScriptInv, AuxInv, SutInv, StackInv
<1>n. ASSUME NEW t \in Threads, pc[t] # "ended" PROVE NotStarted' => NotStarted
  BY <1>n, NotStartedStep DEF Restart
<1>o. ASSUME NEW t \in Threads, pc[t] # "ended", enabled' => enabled, StackOf(t)',
             \A u \in Threads \ {t} : code'[u] = code[u] /\ stack'[u] = stack[u]
                                        /\ event'[u] = event[u] /\ pc'[u] = pc[u]
      PROVE  StackInv'
  <2>1. ASSUME NEW u \in Threads, u # t PROVE StackOf(u)'
    BY <1>0, <1>n, <1>o, <2>1, StackKeep
  <2> QED
    BY <1>o, <2>1 DEF StackInv
<1>a. stmt \in Nat \ {0} /\ (Script[stmt].kind = "readArg" => stmt + 1 # 1)
  BY DEF TypeInv, ScriptInv
<1>1. ASSUME NEW t \in Threads, MemRead(t) PROVE StackInv'
  <2>1. /\ pc[t] = "run" /\ code[t] # <<>> /\ Head(code[t]).type = "MemRead"
             /\ code'[t] = Tail(code[t])
        /\ stack'[t] = stack[t] /\ (enabled' => enabled)
             /\ \A u \in Threads \ {t} : code'[u] = code[u] /\ stack'[u] = stack[u]
                                    /\ event'[u] = event[u] /\ pc'[u] = pc[u]
    BY <1>1, <1>0 DEF MemRead, Handle
  <2>2. event[t].type \notin {"FuncReturn", "LastEnd"}
    BY <1>0, <2>1 DEF StackOf, InHandler
  <2>3. event'[t].type \notin {"FuncReturn", "LastEnd"}
    BY <1>1, <1>0, <2>2 DEF MemRead, Handle
  <2>4. pc'[t] \in {"run", "endTest"} \/ (pc'[t] \in {"set", "finish"} /\ enabled)
    BY <1>1, <1>0 DEF MemRead, Handle
  <2>5. StackOf(t)'
    BY <1>0, <1>n, <2>1, <2>3, <2>4, StackEvent
  <2> QED
    BY <1>o, <2>1, <2>5
<1>2. ASSUME NEW t \in Threads, MemWrite(t) PROVE StackInv'
  <2>1. /\ pc[t] = "run" /\ code[t] # <<>> /\ Head(code[t]).type = "MemWrite"
             /\ code'[t] = Tail(code[t])
        /\ stack'[t] = stack[t] /\ (enabled' => enabled)
             /\ \A u \in Threads \ {t} : code'[u] = code[u] /\ stack'[u] = stack[u]
                                    /\ event'[u] = event[u] /\ pc'[u] = pc[u]
    BY <1>2, <1>0 DEF MemWrite, Handle
  <2>2. event[t].type \notin {"FuncReturn", "LastEnd"}
    BY <1>0, <2>1 DEF StackOf, InHandler
  <2>3. event'[t].type \notin {"FuncReturn", "LastEnd"}
    BY <1>2, <1>0, <2>2 DEF MemWrite, Handle
  <2>4. pc'[t] \in {"run", "endTest"} \/ (pc'[t] \in {"set", "finish"} /\ enabled)
    BY <1>2, <1>0 DEF MemWrite, Handle
  <2>5. StackOf(t)'
    BY <1>0, <1>n, <2>1, <2>3, <2>4, StackEvent
  <2> QED
    BY <1>o, <2>1, <2>5
<1>3. ASSUME NEW t \in Threads, MemAccessBefore(t) PROVE StackInv'
  <2>1. /\ pc[t] = "run" /\ code[t] # <<>> /\ Head(code[t]).type = "MemAccessBefore"
             /\ code'[t] = Tail(code[t])
        /\ stack'[t] = stack[t] /\ (enabled' => enabled)
             /\ \A u \in Threads \ {t} : code'[u] = code[u] /\ stack'[u] = stack[u]
                                    /\ event'[u] = event[u] /\ pc'[u] = pc[u]
    BY <1>3, <1>0 DEF MemAccessBefore, Handle
  <2>2. event[t].type \notin {"FuncReturn", "LastEnd"}
    BY <1>0, <2>1 DEF StackOf, InHandler
  <2>3. event'[t].type \notin {"FuncReturn", "LastEnd"}
    BY <1>3, <1>0, <2>2 DEF MemAccessBefore, Handle
  <2>4. pc'[t] \in {"run", "endTest"} \/ (pc'[t] \in {"set", "finish"} /\ enabled)
    BY <1>3, <1>0 DEF MemAccessBefore, Handle
  <2>5. StackOf(t)'
    BY <1>0, <1>n, <2>1, <2>3, <2>4, StackEvent
  <2> QED
    BY <1>o, <2>1, <2>5
<1>4. ASSUME NEW t \in Threads, FuncCall(t) PROVE StackInv'
  <2>1. /\ pc[t] = "run" /\ code[t] # <<>> /\ Head(code[t]).type = "FuncCall"
             /\ code'[t] = Tail(code[t])
        /\ stack'[t] = stack[t] /\ (enabled' => enabled)
             /\ \A u \in Threads \ {t} : code'[u] = code[u] /\ stack'[u] = stack[u]
                                    /\ event'[u] = event[u] /\ pc'[u] = pc[u]
    BY <1>4, <1>0 DEF FuncCall, Handle
  <2>2. event[t].type \notin {"FuncReturn", "LastEnd"}
    BY <1>0, <2>1 DEF StackOf, InHandler
  <2>3. event'[t].type \notin {"FuncReturn", "LastEnd"}
    BY <1>4, <1>0, <2>2 DEF FuncCall, Handle
  <2>4. pc'[t] \in {"run", "endTest"} \/ (pc'[t] \in {"set", "finish"} /\ enabled)
    BY <1>4, <1>0 DEF FuncCall, Handle
  <2>5. StackOf(t)'
    BY <1>0, <1>n, <2>1, <2>3, <2>4, StackEvent
  <2> QED
    BY <1>o, <2>1, <2>5
<1>5. ASSUME NEW t \in Threads, FuncEnter(t) PROVE StackInv'
  <2> DEFINE fr == [func |-> Head(code[t]).func, arg |-> Head(code[t]).arg, seen |-> enabled]
  <2>1. /\ pc[t] = "run" /\ code[t] # <<>> /\ Head(code[t]).type = "FuncEnter"
        /\ code'[t] = Tail(code[t]) /\ stack'[t] = Append(stack[t], fr)
             /\ enabled' = enabled
        /\ \A u \in Threads \ {t} : code'[u] = code[u] /\ stack'[u] = stack[u]
                                    /\ event'[u] = event[u] /\ pc'[u] = pc[u]
    BY <1>5, <1>0 DEF FuncEnter, Handle
  <2>2. event[t].type \notin {"FuncReturn", "LastEnd"} /\ StackOf(t)
    BY <1>0, <2>1 DEF StackOf, InHandler
  <2>3. event'[t].type \notin {"FuncReturn", "LastEnd"}
    BY <1>5, <1>0, <2>2 DEF FuncEnter, Handle
  <2>4. pc'[t] = "run" \/ (pc'[t] = "set" /\ enabled)
    BY <1>5, <1>0 DEF FuncEnter, Handle
  <2>5. fr.seen = enabled
    OBVIOUS
  <2> HIDE DEF fr
  <2>6. /\ Len(stack[t]) \in Nat /\ Len(stack'[t]) = Len(stack[t]) + 1
        /\ DOMAIN stack'[t] = 1..(Len(stack[t]) + 1) /\ DOMAIN stack[t] = 1..Len(stack[t])
        /\ stack'[t][Len(stack[t]) + 1] = fr
        /\ \A i \in 1..Len(stack[t]) : stack'[t][i] = stack[t][i]
    BY <1>0, <2>1
  <2>7. Opened(t)'
    <3>1. /\ Opens(Head(code[t]).type) = 1 /\ Closes(Head(code[t]).type) = 0
          /\ Closes(event'[t].type) = 0 /\ Closes(event[t].type) = 0
      BY <2>1, <2>2, <2>3 DEF Opens, Closes
    <3>2. Len(stack'[t]) = Len(stack[t]) + Opens(Head(code[t]).type) - Closes(Head(code[t]).type)
                             + Closes(event'[t].type) - Closes(event[t].type)
      BY <2>6, <3>1
    <3> QED
      BY <2>1, <2>2, <3>2, OpenedNext DEF StackOf
  <2>8. Watched(t)' =>
          \A i, j \in DOMAIN stack'[t] : i < j /\ stack'[t][i].seen => stack'[t][j].seen
    <3>1. Watched(t)' => enabled
      BY <2>1, <2>4 DEF Watched, InHandler
    <3>2. ASSUME enabled, NEW i \in DOMAIN stack'[t], NEW j \in DOMAIN stack'[t],
                 i < j, stack'[t][i].seen
          PROVE  stack'[t][j].seen
      <4>1. CASE j = Len(stack[t]) + 1
        BY <2>5, <2>6, <3>2, <4>1
      <4>2. CASE j # Len(stack[t]) + 1
        <5>1. i \in DOMAIN stack[t] /\ j \in DOMAIN stack[t]
          BY <2>6, <3>2, <4>2
        <5> QED
          BY <2>2, <2>6, <3>2, <5>1 DEF StackOf
      <4> QED
        BY <4>1, <4>2
    <3> QED
      BY <3>1, <3>2
  <2>9. NotStarted' => ~InHandler(t)' /\ \A i \in DOMAIN stack'[t] : ~stack'[t][i].seen
    <3>1. NotStarted' => NotStarted /\ ~enabled
      BY <1>n, <2>1 DEF NotStarted
    <3> QED
      BY <2>2, <2>4, <2>5, <2>6, <3>1 DEF StackOf, InHandler
  <2>10. StackOf(t)'
    BY <2>3, <2>4, <2>7, <2>8, <2>9 DEF StackOf, Watched
  <2> QED
    BY <1>o, <2>1, <2>10
<1>6. ASSUME NEW t \in Threads, FuncReturn(t) PROVE StackInv'
  <2>1. /\ pc[t] = "run" /\ code[t] # <<>> /\ Head(code[t]).type = "FuncReturn"
        /\ code'[t] = Tail(code[t]) /\ enabled' = enabled /\ stack[t] # <<>>
        /\ \A u \in Threads \ {t} : code'[u] = code[u] /\ stack'[u] = stack[u]
                                    /\ event'[u] = event[u] /\ pc'[u] = pc[u]
    BY <1>6, <1>0 DEF FuncReturn, Handle
  <2>2. event[t].type \notin {"FuncReturn", "LastEnd"} /\ StackOf(t)
    BY <1>0, <2>1 DEF StackOf, InHandler
  <2>3. /\ Len(stack[t]) \in Nat \ {0} /\ Len(Pop(t)) = Len(stack[t]) - 1
        /\ \A i \in 1..(Len(stack[t]) - 1) : Pop(t)[i] = stack[t][i]
        /\ DOMAIN Pop(t) = 1..(Len(stack[t]) - 1) /\ DOMAIN stack[t] = 1..Len(stack[t])
    BY <2>1, StackFields DEF TypeInv, SutInv
  <2>4. CASE enabled
    <3>1. /\ pc'[t] = "set" /\ event'[t] = [type |-> "FuncReturn", func |-> Top(t).func]
          /\ stack'[t] = stack[t]
      BY <1>6, <1>0, <2>4 DEF FuncReturn, Handle
    <3>2. Opened(t)'
      <4>1. /\ Opens(Head(code[t]).type) = 0 /\ Closes(Head(code[t]).type) = 1
            /\ Closes(event'[t].type) = 1 /\ Closes(event[t].type) = 0
        BY <2>1, <2>2, <3>1 DEF Opens, Closes
      <4>2. Len(stack'[t]) = Len(stack[t]) + Opens(Head(code[t]).type) - Closes(Head(code[t]).type)
                               + Closes(event'[t].type) - Closes(event[t].type)
        BY <2>3, <3>1, <4>1
      <4> QED
        BY <2>1, <2>2, <4>2, OpenedNext DEF StackOf
    <3>3. ~NotStarted'
      BY <2>1, <2>4 DEF NotStarted
    <3>4. StackOf(t)'
      BY <2>1, <2>2, <2>4, <3>1, <3>2, <3>3 DEF StackOf, InHandler, Top
    <3> QED
      BY <1>o, <2>1, <3>4
  <2>5. CASE ~enabled
    <3>1. pc'[t] = "run" /\ event'[t] = event[t] /\ stack'[t] = Pop(t)
      BY <1>6, <1>0, <2>1, <2>5 DEF FuncReturn, Handle
    <3>2. Opened(t)'
      <4>1. /\ Opens(Head(code[t]).type) = 0 /\ Closes(Head(code[t]).type) = 1
            /\ Closes(event'[t].type) = 0 /\ Closes(event[t].type) = 0
        BY <2>1, <2>2, <3>1 DEF Opens, Closes
      <4>2. Len(stack'[t]) = Len(stack[t]) + Opens(Head(code[t]).type) - Closes(Head(code[t]).type)
                               + Closes(event'[t].type) - Closes(event[t].type)
        BY <2>3, <3>1, <4>1
      <4> QED
        BY <2>1, <2>2, <4>2, OpenedNext DEF StackOf
    <3>3. NotStarted' => \A i \in DOMAIN stack'[t] : ~stack'[t][i].seen
      BY <1>n, <2>1, <2>2, <2>3, <3>1 DEF StackOf
    <3>4. StackOf(t)'
      BY <2>1, <2>2, <2>5, <3>1, <3>2, <3>3 DEF StackOf, InHandler
    <3> QED
      BY <1>o, <2>1, <3>4
  <2> QED
    BY <2>4, <2>5
<1>7. ASSUME NEW t \in Threads, AtPc(t) PROVE StackInv'
  <2>1. /\ pc[t] = "run" /\ code[t] # <<>> /\ Head(code[t]).type = "AtPc"
             /\ code'[t] = Tail(code[t])
        /\ stack'[t] = stack[t] /\ (enabled' => enabled)
             /\ \A u \in Threads \ {t} : code'[u] = code[u] /\ stack'[u] = stack[u]
                                    /\ event'[u] = event[u] /\ pc'[u] = pc[u]
    BY <1>7, <1>0 DEF AtPc, Handle
  <2>2. event[t].type \notin {"FuncReturn", "LastEnd"}
    BY <1>0, <2>1 DEF StackOf, InHandler
  <2>3. event'[t].type \notin {"FuncReturn", "LastEnd"}
    BY <1>7, <1>0, <2>2 DEF AtPc, Handle
  <2>4. pc'[t] \in {"run", "endTest"} \/ (pc'[t] \in {"set", "finish"} /\ enabled)
    BY <1>7, <1>0 DEF AtPc, Handle
  <2>5. StackOf(t)'
    BY <1>0, <1>n, <2>1, <2>3, <2>4, StackEvent
  <2> QED
    BY <1>o, <2>1, <2>5
<1>8. ASSUME NEW t \in Threads, EndInstrument(t) PROVE StackInv'
  <2>1. /\ pc[t] = "run" /\ code[t] # <<>> /\ Head(code[t]).type = "EndInstrument"
             /\ code'[t] = Tail(code[t])
        /\ stack'[t] = stack[t] /\ (enabled' => enabled)
             /\ \A u \in Threads \ {t} : code'[u] = code[u] /\ stack'[u] = stack[u]
                                    /\ event'[u] = event[u] /\ pc'[u] = pc[u]
    BY <1>8, <1>0 DEF EndInstrument, Finish
  <2>2. event[t].type \notin {"FuncReturn", "LastEnd"}
    BY <1>0, <2>1 DEF StackOf, InHandler
  <2>3. event'[t].type \notin {"FuncReturn", "LastEnd"}
    BY <1>8, <1>0, <2>2 DEF EndInstrument, Finish
  <2>4. pc'[t] \in {"run", "endTest"} \/ (pc'[t] \in {"set", "finish"} /\ enabled)
    BY <1>8, <1>0 DEF EndInstrument, Finish
  <2>5. StackOf(t)'
    BY <1>0, <1>n, <2>1, <2>3, <2>4, StackEvent
  <2> QED
    BY <1>o, <2>1, <2>5
<1>9. ASSUME NEW t \in Threads, ThreadEnd(t) PROVE StackInv'
  <2>1. /\ pc[t] = "run" /\ code[t] = <<>> /\ code'[t] = code[t] /\ stack'[t] = stack[t]
        /\ enabled' = enabled /\ \A u \in Threads \ {t} : code'[u] = code[u]
             /\ stack'[u] = stack[u]
                                    /\ event'[u] = event[u] /\ pc'[u] = pc[u]
    BY <1>9, <1>0 DEF ThreadEnd
  <2>2. event[t].type # "FuncReturn" /\ StackOf(t) /\ Opened(t)
    BY <1>0, <2>1 DEF StackOf, InHandler
  <2>3. event'[t].type # "FuncReturn" /\ (pc'[t] = "ended" \/ (pc'[t] = "set" /\ enabled))
    BY <1>9, <1>0, <2>2 DEF ThreadEnd
  <2>4. Opened(t)'
    <3>1. Closes(event'[t].type) = 0 /\ Closes(event[t].type) = 0 /\ Len(stack[t]) \in Nat
      BY <1>0, <2>2, <2>3 DEF Closes
    <3>2. Len(stack'[t]) = Len(stack[t]) + Closes(event'[t].type) - Closes(event[t].type)
      BY <2>1, <3>1
    <3> QED
      BY <2>1, <2>2, <3>2, OpenedSame
  <2>5. NotStarted' => NotStarted /\ ~enabled
    BY <1>n, <2>1 DEF NotStarted
  <2>6. StackOf(t)'
    BY <2>1, <2>2, <2>3, <2>4, <2>5 DEF StackOf, InHandler
  <2> QED
    BY <1>o, <2>1, <2>6
<1>10. ASSUME NEW t \in Threads, StartTest(t) PROVE StackInv'
  <2>1. /\ NotStarted /\ enabled' /\ UNCHANGED <<code, stack, event, pc>>
    BY <1>10 DEF StartTest, NotStarted
  <2>2. ASSUME NEW u \in Threads PROVE StackOf(u)'
    <3>1. StackOf(u) /\ Opened(u)'
      BY <1>0, <2>1 DEF StackOf, Opened
    <3>2. ~NotStarted'
      BY <2>1 DEF NotStarted
    <3> QED
      BY <2>1, <3>1, <3>2 DEF StackOf, InHandler, Top
  <2> QED
    BY <2>2 DEF StackInv
<1>11. ASSUME NEW t \in Threads, EndTest(t) PROVE StackInv'
  <2>1. /\ pc[t] = "run" /\ code[t] # <<>> /\ Head(code[t]).type = "EndTest"
             /\ code'[t] = Tail(code[t])
        /\ stack'[t] = stack[t] /\ (enabled' => enabled)
             /\ \A u \in Threads \ {t} : code'[u] = code[u] /\ stack'[u] = stack[u]
                                    /\ event'[u] = event[u] /\ pc'[u] = pc[u]
    BY <1>11, <1>0 DEF EndTest
  <2>2. event[t].type \notin {"FuncReturn", "LastEnd"}
    BY <1>0, <2>1 DEF StackOf, InHandler
  <2>3. event'[t].type \notin {"FuncReturn", "LastEnd"}
    BY <1>11, <1>0, <2>2 DEF EndTest
  <2>4. pc'[t] \in {"run", "endTest"} \/ (pc'[t] \in {"set", "finish"} /\ enabled)
    BY <1>11, <1>0 DEF EndTest
  <2>5. StackOf(t)'
    BY <1>0, <1>n, <2>1, <2>3, <2>4, StackEvent
  <2> QED
    BY <1>o, <2>1, <2>5
<1>12. ASSUME NEW t \in Threads, InsertEndNode(t) PROVE StackInv'
  <2>1. /\ pc[t] = "endTest" /\ pc'[t] = "run" /\ UNCHANGED <<code, stack, event>>
        /\ enabled' = enabled /\ \A u \in Threads \ {t} : code'[u] = code[u]
             /\ stack'[u] = stack[u]
                                    /\ event'[u] = event[u] /\ pc'[u] = pc[u]
    BY <1>12, <1>0 DEF InsertEndNode
  <2>2. StackOf(t)'
    <3>1. StackOf(t) /\ Opened(t)'
      BY <1>0, <2>1 DEF StackOf, Opened
    <3>2. NotStarted' => NotStarted
      BY <1>n, <2>1
    <3> QED
      BY <2>1, <3>1, <3>2 DEF StackOf, InHandler, Top
  <2> QED
    BY <1>o, <2>1, <2>2
<1>13. ASSUME NEW t \in Threads, WriteAux(t) PROVE StackInv'
  <2>1. /\ UNCHANGED <<code, stack, event, pc, enabled>> /\ pc[t] # "ended"
    BY <1>13, <1>0 DEF WriteAux
  <2>2. NotStarted' => NotStarted
    BY <1>n, <2>1
  <2>3. StackOf(t)'
    BY <1>0, <2>1, <2>2, StackKeep
  <2> QED
    BY <1>o, <2>1, <2>3
<1>14. ASSUME NEW t \in Threads, Return(t) PROVE StackInv'
  <2>1. /\ InHandler(t) /\ pc'[t] = "run" /\ UNCHANGED <<code, stack, enabled>>
             /\ \A u \in Threads \ {t} : code'[u] = code[u] /\ stack'[u] = stack[u]
                                    /\ event'[u] = event[u] /\ pc'[u] = pc[u]
        /\ event[t].type \in {"MemRead", "MemWrite"} /\ event'[t].type = "none"
             /\ pc[t] = "set"
    BY <1>14, <1>0 DEF Return, Resume, NoEvent, InHandler
  <2>2. StackOf(t)'
    BY <1>0, <1>n, <2>1, StackLeave
  <2> QED
    BY <1>o, <2>1, <2>2
<1>15. ASSUME NEW t \in Threads, TakeNode(t) PROVE StackInv'
  <2>1. /\ pc[t] \in {"set", "eval", "get", "finish"}
             /\ pc'[t] \in {"set", "eval", "get", "finish"}
        /\ UNCHANGED <<code, stack, event, enabled>>
             /\ \A u \in Threads \ {t} : code'[u] = code[u] /\ stack'[u] = stack[u]
                                    /\ event'[u] = event[u] /\ pc'[u] = pc[u]
    BY <1>15, <1>0 DEF TakeNode, InTransition
  <2>2. StackOf(t)'
    BY <1>0, <1>n, <2>1, StackHandler
  <2> QED
    BY <1>o, <2>1, <2>2
<1>16. ASSUME NEW t \in Threads, SeeEndNode(t) PROVE StackInv'
  <2>1. /\ pc[t] \in {"set", "eval", "get", "finish"}
             /\ pc'[t] \in {"set", "eval", "get", "finish"}
        /\ UNCHANGED <<code, stack, event, enabled>>
             /\ \A u \in Threads \ {t} : code'[u] = code[u] /\ stack'[u] = stack[u]
                                    /\ event'[u] = event[u] /\ pc'[u] = pc[u]
    BY <1>16, <1>0 DEF SeeEndNode, InTransition, Finish
  <2>2. StackOf(t)'
    BY <1>0, <1>n, <2>1, StackHandler
  <2> QED
    BY <1>o, <2>1, <2>2
<1>17. ASSUME NEW t \in Threads, Evaluates(t) PROVE StackInv'
  <2>e. Evaluated(t)
    BY <1>17, EvaluateEffect
  <2>1. /\ pc[t] \in {"set", "eval", "get", "finish"}
             /\ pc'[t] \in {"set", "eval", "get", "finish"}
        /\ UNCHANGED <<code, stack, event, enabled>>
             /\ \A u \in Threads \ {t} : code'[u] = code[u] /\ stack'[u] = stack[u]
                                    /\ event'[u] = event[u] /\ pc'[u] = pc[u]
    BY <1>0, <2>e DEF Evaluated, Decided, Finish
  <2>2. StackOf(t)'
    BY <1>0, <1>n, <2>1, StackHandler
  <2> QED
    BY <1>o, <2>1, <2>2
<1>18. ASSUME NEW t \in Threads, AfterTransition(t) PROVE StackInv'
  <2>1. /\ pc[t] = "finish" /\ todo[t] = <<>> /\ UNCHANGED <<code, enabled>>
             /\ InHandler(t) /\ \A u \in Threads \ {t} : code'[u] = code[u] /\ stack'[u] = stack[u]
                                    /\ event'[u] = event[u] /\ pc'[u] = pc[u]
    BY <1>18, <1>0 DEF AfterTransition, Resume, InHandler
  <2>2. CASE event[t].type = "FuncReturn" /\ WasEntered(t, event[t].func)
    <3>1. pc'[t] = "after" /\ UNCHANGED <<stack, event>>
      BY <1>18, <1>0, <2>2 DEF AfterTransition
    <3>2. StackOf(t) /\ Opened(t)' /\ ~NotStarted'
      BY <1>0, <1>n, <2>1, <3>1 DEF StackOf, Opened
    <3>3. Top(t).seen /\ stack[t] # <<>>
      BY <2>1, <2>2, <3>2, ReturnsSeen
    <3>4. StackOf(t)'
      BY <2>1, <2>2, <3>1, <3>2, <3>3 DEF StackOf, InHandler, Top
    <3> QED
      BY <1>o, <2>1, <3>1, <3>4
  <2>3. CASE ~(event[t].type = "FuncReturn" /\ WasEntered(t, event[t].func))
    <3>1. /\ pc'[t] = (IF event[t].type = "LastEnd" THEN "ended" ELSE "run")
          /\ event'[t] = (IF event[t].type = "ThreadEnd" THEN event[t] ELSE NoEvent)
          /\ stack'[t] = IF event[t].type = "FuncReturn" THEN Pop(t) ELSE stack[t]
      BY <1>18, <1>0, <2>3 DEF AfterTransition, Resume
    <3>2. event'[t].type \notin {"FuncReturn", "LastEnd"}
      BY <3>1 DEF NoEvent
    <3>3. StackOf(t)'
      BY <1>0, <1>n, <2>1, <3>1, <3>2, StackLeave
    <3> QED
      BY <1>o, <2>1, <3>3
  <2> QED
    BY <2>2, <2>3
<1>19. ASSUME NEW t \in Threads, LeaveFunction(t) PROVE StackInv'
  <2>1. /\ InHandler(t) /\ pc'[t] = "run" /\ UNCHANGED <<code, enabled>>
             /\ \A u \in Threads \ {t} : code'[u] = code[u] /\ stack'[u] = stack[u]
                                    /\ event'[u] = event[u] /\ pc'[u] = pc[u]
        /\ stack'[t] = Pop(t) /\ pc[t] = "after"
    BY <1>19, <1>0 DEF LeaveFunction, Resume, InHandler
  <2>2. event[t].type = "FuncReturn"
    BY <1>0, <2>1 DEF StackOf
  <2>3. event'[t].type = "none"
    BY <1>19, <1>0, <2>2 DEF LeaveFunction, Resume, NoEvent
  <2>4. StackOf(t)'
    BY <1>0, <1>n, <2>1, <2>2, <2>3, StackLeave
  <2> QED
    BY <1>o, <2>1, <2>4
<1>20. ASSUME Submit PROVE StackInv'
  <2>1. /\ UNCHANGED <<code, stack, event, pc>> /\ (enabled' => enabled)
        /\ (NotStarted' => NotStarted)
    BY <1>20, <1>a DEF Submit, NotStarted, End
  <2> QED
    BY <1>0, <2>1, StackKeep DEF StackInv
<1>21. ASSUME ReadArg PROVE StackInv'
  <2>1. /\ UNCHANGED <<code, stack, event, pc>> /\ (enabled' => enabled)
        /\ (NotStarted' => NotStarted)
    BY <1>21, <1>a DEF ReadArg, NotStarted, End
  <2> QED
    BY <1>0, <2>1, StackKeep DEF StackInv
<1>22. ASSUME EndScript PROVE StackInv'
  <2>1. /\ UNCHANGED <<code, stack, event, pc>> /\ (enabled' => enabled)
        /\ (NotStarted' => NotStarted)
    BY <1>22, <1>a DEF EndScript, NotStarted, End
  <2> QED
    BY <1>0, <2>1, StackKeep DEF StackInv
<1>23. ASSUME RunUncontrolled PROVE StackInv'
  <2>1. /\ UNCHANGED <<code, stack, event, pc>> /\ (enabled' => enabled)
        /\ (NotStarted' => NotStarted)
    BY <1>23, <1>a DEF RunUncontrolled, NotStarted, End
  <2> QED
    BY <1>0, <2>1, StackKeep DEF StackInv
<1>24. ASSUME Restart PROVE StackInv'
  <2>1. /\ stack' = stack /\ event' = [u \in Threads |-> NoEvent]
             /\ pc' = [u \in Threads |-> "run"]
        /\ code' \in [Threads -> Programs] /\ enabled' = enabled /\ ~enabled
        /\ \A u \in Threads : pc[u] = "ended"
    BY <1>24 DEF Restart
  <2>2. ASSUME NEW u \in Threads PROVE StackOf(u)'
    <3>1. StackOf(u) /\ pc[u] = "ended" /\ pc'[u] = "run" /\ event'[u] = NoEvent
      BY <1>0, <2>1, <2>2
    <3>2. stack[u] = <<>>
      <4>1. code[u] = <<>> /\ event[u].type # "FuncReturn" /\ Opened(u)
        BY <3>1 DEF StackOf, InHandler
      <4> QED
        BY <4>1, OpenedEnd
    <3>3. Opened(u)'
      BY <2>1, <3>1, <3>2, OpenedStart DEF NoEvent
    <3> QED
      BY <2>1, <3>1, <3>2, <3>3 DEF StackOf, InHandler, NoEvent
  <2> QED
    BY <2>2 DEF StackInv
<1>25. ASSUME Terminated PROVE StackInv'
  <2>1. /\ UNCHANGED <<code, stack, event, pc>> /\ (enabled' => enabled)
        /\ (NotStarted' => NotStarted)
    BY <1>25, <1>a DEF Terminated, NotStarted, End
  <2> QED
    BY <1>0, <2>1, StackKeep DEF StackInv
<1>26. CASE UNCHANGED vars
  <2>1. /\ UNCHANGED <<code, stack, event, pc>> /\ (enabled' => enabled)
        /\ (NotStarted' => NotStarted)
    BY <1>26 DEF NotStarted
  <2> QED
    BY <1>0, <2>1, StackKeep DEF StackInv
<1>27. QED
  BY <1>1, <1>2, <1>3, <1>4, <1>5, <1>6, <1>7, <1>8, <1>9, <1>10, <1>11, <1>12, <1>13,
     <1>14, <1>15, <1>16, <1>17, <1>18, <1>19, <1>20, <1>21, <1>22, <1>23, <1>24, <1>25,
     <1>26 DEF Next, SutSteps, HandlerSteps, ScriptSteps, Evaluates

\* A variable has one value for a thread and a key.
Unique(A) == \A e, d \in A : e[1] = d[1] /\ e[2] = d[2] /\ e[3] = d[3] => e = d

\* The entries of an auxiliary state A for v, t and k, and the number they hold.
EntriesAt(A, v, t, k) == {e \in A : e[1] = v /\ e[2] = t /\ e[3] = k}
CountIn(A, v, t, k) ==
  IF \E e \in {e \in A : e[1] = v /\ e[2] = t} : k = NULL \/ e[3] = k
  THEN (CHOOSE e \in {e \in A : e[1] = v /\ e[2] = t} : k = NULL \/ e[3] = k)[4]
  ELSE 0

\* Count reads it off the auxiliary state.
LEMMA CountIsIn ==
  ASSUME NEW v, NEW t, NEW k
  PROVE  /\ Count(v, t, k) = CountIn(aux, v, t, k)
         /\ Count(v, t, k)' = CountIn(aux', v, t, k)
BY DEF Count, CountIn, Get, IsSet, Entries

\* The number an entry holds.
LEMMA CountOne ==
  ASSUME NEW A, Unique(A), NEW v, NEW t, NEW k, k # NULL, NEW e \in EntriesAt(A, v, t, k)
  PROVE  CountIn(A, v, t, k) = e[4]
<1> DEFINE E == {d \in A : d[1] = v /\ d[2] = t}
<1>1. e \in E /\ e[3] = k
  BY DEF EntriesAt
<1>2. PICK d \in E : d = (CHOOSE x \in E : k = NULL \/ x[3] = k) /\ (k = NULL \/ d[3] = k)
  BY <1>1
<1>3. d = e
  BY <1>1, <1>2 DEF Unique
<1>4. QED
  BY <1>1, <1>2, <1>3 DEF CountIn

\* No entry counts as zero.
LEMMA CountNone ==
  ASSUME NEW A, NEW v, NEW t, NEW k, k # NULL, EntriesAt(A, v, t, k) = {}
  PROVE  CountIn(A, v, t, k) = 0
<1>1. ~\E e \in {e \in A : e[1] = v /\ e[2] = t} : k = NULL \/ e[3] = k
  BY DEF EntriesAt
<1>2. QED
  BY <1>1 DEF CountIn

\* The count depends on the entries of its key only.
LEMMA CountSame ==
  ASSUME NEW A, Unique(A), NEW B, Unique(B), NEW v, NEW t, NEW k, k # NULL,
         EntriesAt(A, v, t, k) = EntriesAt(B, v, t, k)
  PROVE  CountIn(A, v, t, k) = CountIn(B, v, t, k)
<1>1. CASE EntriesAt(A, v, t, k) = {}
  BY <1>1, CountNone
<1>2. ASSUME NEW e \in EntriesAt(A, v, t, k) PROVE CountIn(A, v, t, k) = CountIn(B, v, t, k)
  <2>1. CountIn(A, v, t, k) = e[4]
    BY CountOne
  <2>2. e \in EntriesAt(B, v, t, k)
    OBVIOUS
  <2>3. CountIn(B, v, t, k) = e[4]
    BY <2>2, CountOne
  <2>4. QED
    BY <2>1, <2>3
<1>3. QED
  BY <1>1, <1>2

\* Writing keeps the values unique.
LEMMA UniqueWritten ==
  ASSUME NEW w, Unique(aux), aux' = Written(w) PROVE Unique(aux')
<1>1. CASE w.op = "put"
  <2> DEFINE A == {e \in aux : e[1] # w.var \/ e[2] # w.tid \/ e[3] # w.key}
             d == <<w.var, w.tid, w.key, w.value>>
  <2>1. aux' = A \cup {d}
    BY <1>1 DEF Written
  <2>2. Unique(A)
    BY DEF Unique
  <2>3. d[1] = w.var /\ d[2] = w.tid /\ d[3] = w.key
    OBVIOUS
  <2>4. \A e \in A : ~(e[1] = d[1] /\ e[2] = d[2] /\ e[3] = d[3])
    BY <2>3
  <2> HIDE DEF A, d
  <2>5. QED
    BY <2>1, <2>2, <2>4 DEF Unique
<1>2. CASE w.op # "put"
  <2>1. aux' \subseteq aux
    BY <1>2 DEF Written
  <2>2. QED
    BY <2>1 DEF Unique
<1>3. QED
  BY <1>1, <1>2

\* What a write makes of a count.
LEMMA CountWritten ==
  ASSUME Unique(aux), NEW w, aux' = Written(w), NEW v, NEW t, NEW k, k # NULL
  PROVE  /\ w.var # v \/ w.tid # t => Count(v, t, k)' = Count(v, t, k)
         /\ w.op # "reset" /\ w.key # k => Count(v, t, k)' = Count(v, t, k)
         /\ w.var = v /\ w.tid = t /\ w.key = k /\ w.op = "put" => Count(v, t, k)' = w.value
         /\ w.var = v /\ w.tid = t /\ w.key = k /\ w.op = "erase" => Count(v, t, k)' = 0
<1>0. Unique(aux')
  BY UniqueWritten
<1>1. ASSUME w.var # v \/ w.tid # t \/ (w.op # "reset" /\ w.key # k)
      PROVE  Count(v, t, k)' = Count(v, t, k)
  <2>1. EntriesAt(aux', v, t, k) = EntriesAt(aux, v, t, k)
    BY <1>1 DEF Written, EntriesAt
  <2>2. QED
    BY <1>0, <2>1, CountSame, CountIsIn
<1>2. ASSUME w.var = v, w.tid = t, w.key = k, w.op = "put"
      PROVE  Count(v, t, k)' = w.value
  <2> DEFINE d == <<w.var, w.tid, w.key, w.value>>
  <2>1. d \in aux'
    BY <1>2 DEF Written
  <2>2. d[1] = v /\ d[2] = t /\ d[3] = k /\ d[4] = w.value
    BY <1>2
  <2> HIDE DEF d
  <2>3. d \in EntriesAt(aux', v, t, k)
    BY <2>1, <2>2 DEF EntriesAt
  <2>4. CountIn(aux', v, t, k) = d[4]
    BY <1>0, <2>3, CountOne
  <2>5. QED
    BY <2>2, <2>4, CountIsIn
<1>3. ASSUME w.var = v, w.tid = t, w.key = k, w.op = "erase"
      PROVE  Count(v, t, k)' = 0
  <2>1. EntriesAt(aux', v, t, k) = {}
    BY <1>3 DEF Written, EntriesAt
  <2>2. QED
    BY <2>1, CountNone, CountIsIn
<1>4. QED
  BY <1>1, <1>2, <1>3

\* The frames of a thread are finitely many.
LEMMA FramesFinite ==
  ASSUME TypeInv, NEW t \in Threads, NEW f
  PROVE  IsFiniteSet(Frames(t, f)) /\ Cardinality(Frames(t, f)) \in Nat
<1> DEFINE n == IF pc[t] = "after" THEN Len(stack[t]) - 1 ELSE Len(stack[t])
<1>1. n \in Int
  BY DEF TypeInv, SutInv
<1>2. Frames(t, f) \subseteq 1..n
  BY DEF Frames
<1> HIDE DEF n
<1>3. IsFiniteSet(1..n)
  BY <1>1, FS_Interval
<1>4. IsFiniteSet(Frames(t, f))
  BY <1>2, <1>3, FS_Subset
<1>5. QED
  BY <1>4, FS_CardinalityType

\* CountOf of a thread that does nothing.
LEMMA CountKeep ==
  ASSUME TypeInv, NEW u \in Threads, CountOf(u), NotStarted' => NotStarted, enabled'
    => enabled,
         stack'[u] = stack[u], pc'[u] = pc[u], todo'[u] = todo[u],
         \A f \in Funcs : /\ Count("InFunc", u, f)' = Count("InFunc", u, f)
                          /\ Shown("InFunc", u, f)' => Shown("InFunc", u, f)
  PROVE  CountOf(u)'
<1>1. Pending(u)' = Pending(u) /\ (InHandler(u)' <=> InHandler(u))
  BY PendingIs DEF InHandler
<1>2. \A f \in Funcs : Frames(u, f)' = Frames(u, f)
  BY DEF Frames
<1>3. QED
  BY <1>1, <1>2 DEF CountOf

\* CountOf of a thread that neither enters nor leaves a function.
LEMMA CountCalm ==
  ASSUME TypeInv, NEW t \in Threads, CountOf(t), NotStarted' => NotStarted, aux' = aux,
         Watched(t)' => Watched(t), stack'[t] = stack[t], pc[t] # "after", pc'[t] # "after",
         todo[t] = <<>>, \A w \in Pending(t)' : w.var # "InFunc"
  PROVE  CountOf(t)'
<1>1. Pending(t) = {}
  BY PendingIs
<1>2. \A f \in Funcs : Frames(t, f)' = Frames(t, f)
  BY DEF Frames
<1>3. \A f \in Funcs : /\ Count("InFunc", t, f)' = Count("InFunc", t, f)
                       /\ Shown("InFunc", t, f)' = Shown("InFunc", t, f)
  BY CountIsIn DEF Shown
<1>4. QED
  BY <1>1, <1>2, <1>3 DEF CountOf, Watched

\* CountOf of a thread that the monitor does not watch.
LEMMA CountIdle ==
  ASSUME TypeInv, NEW t \in Threads, CountOf(t), NotStarted' => NotStarted, aux' = aux,
         ~Watched(t)', todo'[t] = <<>>
  PROVE  CountOf(t)'
<1>1. Pending(t)' = {}
  BY PendingIs
<1>2. QED
  BY <1>1 DEF CountOf, Watched, Shown


\* CountOf of a thread that makes a write.
LEMMA CountWrite ==
  ASSUME TypeInv, NEW t \in Threads, Unique(aux), CountOf(t), StackOf(t), WriteAux(t),
         NotStarted' => NotStarted
  PROVE  CountOf(t)'
<1> DEFINE w == Head(todo[t])
<1>1. /\ todo[t] # <<>> /\ aux' = Written(w) /\ todo'[t] = Tail(todo[t])
      /\ pc'[t] = pc[t] /\ stack' = stack /\ enabled' = enabled
  BY DEF WriteAux, TypeInv, AuxInv
<1>2. Pending(t) = {w} \cup Pending(t)' /\ w \in Writes
  <2>1. todo[t] \in Seq(Writes)
    BY DEF TypeInv, AuxInv
  <2>2. Elems(todo[t]) = {w} \cup Elems(Tail(todo[t])) /\ w \in Writes
    BY <1>1, <2>1, ElemsTail
  <2>3. QED
    BY <1>1, <2>2, PendingIs
<1> HIDE DEF w
<1>3. InHandler(t) /\ InHandler(t)' /\ ~NotStarted'
  BY <1>1 DEF TypeInv, AuxInv, StackOf, InHandler
<1>4. \A f \in Funcs : Frames(t, f)' = Frames(t, f)
  BY <1>1 DEF Frames
<1>5. w.op \in {"put", "erase", "reset"}
  BY <1>2 DEF Writes
<1>6. \A f \in Funcs : f # NULL
  BY EventMonitorAssumption
<1>7. ASSUME NEW f \in Funcs
      PROVE  /\ \A x \in Pending(t)' : x.var = "InFunc" /\ x.key = f =>
                  Cardinality(Frames(t, f)) = IF x.op = "put" THEN x.value ELSE 0
             /\ (\A x \in Pending(t)' : ~(x.var = "InFunc" /\ x.key = f)) =>
                  Cardinality(Frames(t, f)) = Count("InFunc", t, f)'
  <2>1. \A x \in Pending(t)' : x.var = "InFunc" /\ x.key = f =>
          Cardinality(Frames(t, f)) = IF x.op = "put" THEN x.value ELSE 0
    BY <1>2, <1>3 DEF CountOf
  <2>2. ASSUME \A x \in Pending(t)' : ~(x.var = "InFunc" /\ x.key = f)
        PROVE  Cardinality(Frames(t, f)) = Count("InFunc", t, f)'
    <3>1. CASE w.var = "InFunc" /\ w.key = f
      <4>1. w.op # "reset" /\ w.tid = t
        BY <1>2, <3>1 DEF CountOf
      <4>2. Cardinality(Frames(t, f)) = IF w.op = "put" THEN w.value ELSE 0
        BY <1>2, <1>3, <3>1 DEF CountOf
      <4>3. Count("InFunc", t, f)' = IF w.op = "put" THEN w.value ELSE 0
        BY <1>1, <1>5, <1>6, <3>1, <4>1, CountWritten
      <4>4. QED
        BY <4>2, <4>3
    <3>2. CASE ~(w.var = "InFunc" /\ w.key = f)
      <4>1. Cardinality(Frames(t, f)) = Count("InFunc", t, f)
        BY <1>2, <1>3, <2>2, <3>2 DEF CountOf
      <4>2. w.var = "InFunc" => w.op # "reset"
        BY <1>2 DEF CountOf
      <4>3. Count("InFunc", t, f)' = Count("InFunc", t, f)
        BY <1>1, <1>6, <3>2, <4>2, CountWritten
      <4>4. QED
        BY <4>1, <4>3
    <3>3. QED
      BY <3>1, <3>2
  <2>3. QED
    BY <2>1, <2>2
<1>8. \A x \in Pending(t)' : x.var = "InFunc" => x.op # "reset" /\ x.tid = t
  BY <1>2 DEF CountOf
<1>9. QED
  BY <1>3, <1>4, <1>7, <1>8 DEF CountOf

\* CountOf of a thread that enters a function under the monitor.
LEMMA CountEnter ==
  ASSUME TypeInv, NEW t \in Threads, CountOf(t), FuncEnter(t), enabled
  PROVE  CountOf(t)'
<1> DEFINE g == Head(code[t]).func
           a == Put("Enters", t, g, 1)
           b == Put("InFunc", t, g, Count("InFunc", t, g) + 1)
           c == Put("NumInFunc", t, g, Count("NumInFunc", t, g) + 1)
           d == Put("Arg0", t, g, Head(code[t]).arg)
           fr == [func |-> g, arg |-> Head(code[t]).arg, seen |-> enabled]
<1>1. /\ pc[t] = "run" /\ pc'[t] = "set" /\ todo[t] = <<>> /\ todo'[t] = <<a, b, c, d>>
      /\ stack'[t] = Append(stack[t], fr) /\ aux' = aux /\ enabled' = enabled
  BY DEF FuncEnter, Handle, TypeInv, ScriptInv, AuxInv, SutInv
<1>2. /\ a.var = "Enters" /\ b.var = "InFunc" /\ c.var = "NumInFunc" /\ d.var = "Arg0"
      /\ b.op = "put" /\ b.tid = t /\ b.key = g /\ b.value = Count("InFunc", t, g) + 1
  BY DEF Put, Write
<1>3. fr.func = g /\ fr.seen
  OBVIOUS
<1> HIDE DEF a, b, c, d, fr
<1>4. Pending(t) = {} /\ Pending(t)' = {a, b, c, d}
  <2>1. Elems(<<a, b, c, d>>) = {a, b, c, d}
    BY ZenonT(60), ElemsFour
  <2>2. QED
    BY <1>1, <2>1, PendingIs
<1>5. ~NotStarted' /\ \A f \in Funcs : Count("InFunc", t, f)' = Count("InFunc", t, f)
  BY <1>1, CountIsIn DEF NotStarted
<1>6. \A f \in Funcs : Cardinality(Frames(t, f)) = Count("InFunc", t, f)
  BY <1>4 DEF CountOf
<1> HIDE DEF g
<1>7. ASSUME NEW f \in Funcs
      PROVE  Cardinality(Frames(t, f)') = Cardinality(Frames(t, f)) + (IF f = g THEN 1 ELSE 0)
  <2> DEFINE n == Len(stack[t])
  <2>1. /\ n \in Nat /\ Len(stack'[t]) = n + 1 /\ stack'[t][n + 1] = fr
        /\ \A i \in 1..n : stack'[t][i] = stack[t][i]
    BY <1>1 DEF TypeInv, SutInv
  <2>2. /\ Frames(t, f) = {i \in 1..n : stack[t][i].func = f /\ stack[t][i].seen}
        /\ Frames(t, f)' = {i \in 1..(n + 1) : stack'[t][i].func = f /\ stack'[t][i].seen}
    BY <1>1, <2>1 DEF Frames
  <2> HIDE DEF n
  <2>3. 1..(n + 1) = 1..n \cup {n + 1} /\ n + 1 \notin 1..n
    BY <2>1
  <2>4. /\ IsFiniteSet(Frames(t, f)) /\ Cardinality(Frames(t, f)) \in Nat
    BY FramesFinite
  <2>5. CASE f = g
    <3>1. Frames(t, f)' = Frames(t, f) \cup {n + 1}
      BY <1>3, <2>1, <2>2, <2>3, <2>5
    <3>2. n + 1 \notin Frames(t, f)
      BY <2>2, <2>3
    <3>3. Cardinality(Frames(t, f) \cup {n + 1}) = Cardinality(Frames(t, f)) + 1
      BY <2>4, <3>2, FS_AddElement
    <3>4. QED
      BY <2>5, <3>1, <3>3
  <2>6. CASE f # g
    <3>1. Frames(t, f)' = Frames(t, f)
      BY <1>3, <2>1, <2>2, <2>3, <2>6
    <3>2. QED
      BY <2>4, <2>6, <3>1
  <2>7. QED
    BY <2>5, <2>6
<1>8. ASSUME NEW f \in Funcs
      PROVE  /\ \A x \in Pending(t)' : x.var = "InFunc" /\ x.key = f =>
                  Cardinality(Frames(t, f)') = IF x.op = "put" THEN x.value ELSE 0
             /\ (\A x \in Pending(t)' : ~(x.var = "InFunc" /\ x.key = f)) =>
                  Cardinality(Frames(t, f)') = Count("InFunc", t, f)'
  <2>1. Cardinality(Frames(t, f)) \in Nat
    BY FramesFinite
  <2>2. CASE f = g
    <3>1. Cardinality(Frames(t, f)') = b.value
      BY <1>2, <1>6, <1>7, <2>2
    <3>2. QED
      BY <1>2, <1>4, <2>2, <3>1
  <2>3. CASE f # g
    <3>1. Cardinality(Frames(t, f)') = Count("InFunc", t, f)'
      BY <1>5, <1>6, <1>7, <2>1, <2>3
    <3>2. QED
      BY <1>2, <1>4, <2>3, <3>1
  <2>4. QED
    BY <2>2, <2>3
<1>9. \A x \in Pending(t)' : x.var = "InFunc" => x.op # "reset" /\ x.tid = t
  BY <1>2, <1>4
<1>10. QED
  BY <1>5, <1>8, <1>9 DEF CountOf

\* The frames that FuncReturn leaves behind: its own is not counted any more.
LEMMA FramesAfter ==
  ASSUME TypeInv, NEW t \in Threads, stack[t] # <<>>, pc[t] # "after",
         \/ pc'[t] = "after" /\ stack'[t] = stack[t]
         \/ pc'[t] # "after" /\ stack'[t] = Pop(t),
         NEW f \in Funcs
  PROVE  Cardinality(Frames(t, f)') =
           Cardinality(Frames(t, f)) - (IF Top(t).func = f /\ Top(t).seen THEN 1 ELSE 0)
<1> DEFINE n == Len(stack[t])
<1>1. /\ n \in Nat \ {0} /\ Len(Pop(t)) = n - 1 /\ Top(t) = stack[t][n]
      /\ \A i \in 1..(n - 1) : Pop(t)[i] = stack[t][i]
  BY StackFields DEF TypeInv, Top
<1>2. /\ Frames(t, f) = {i \in 1..n : stack[t][i].func = f /\ stack[t][i].seen}
      /\ Frames(t, f)' = {i \in 1..(n - 1) : stack[t][i].func = f /\ stack[t][i].seen}
  <2>1. Frames(t, f) = {i \in 1..n : stack[t][i].func = f /\ stack[t][i].seen}
    BY DEF Frames
  <2>2. CASE pc'[t] = "after" /\ stack'[t] = stack[t]
    BY <2>1, <2>2 DEF Frames
  <2>3. CASE pc'[t] # "after" /\ stack'[t] = Pop(t)
    <3>1. Frames(t, f)' = {i \in 1..Len(Pop(t)) : Pop(t)[i].func = f /\ Pop(t)[i].seen}
      BY <2>3 DEF Frames
    <3> HIDE DEF n
    <3>2. QED
      BY <1>1, <2>1, <3>1
  <2>4. QED
    BY <2>2, <2>3
<1> HIDE DEF n
<1>3. 1..n = 1..(n - 1) \cup {n} /\ n \notin 1..(n - 1)
  BY <1>1
<1>4. IsFiniteSet(Frames(t, f)) /\ Cardinality(Frames(t, f)) \in Nat
  BY FramesFinite
<1>5. CASE Top(t).func = f /\ Top(t).seen
  <2>1. Frames(t, f)' = Frames(t, f) \ {n} /\ n \in Frames(t, f)
    BY <1>1, <1>2, <1>3, <1>5
  <2>2. Cardinality(Frames(t, f) \ {n}) = Cardinality(Frames(t, f)) - 1
    BY <1>4, <2>1, FS_RemoveElement
  <2>3. QED
    BY <1>5, <2>1, <2>2
<1>6. CASE ~(Top(t).func = f /\ Top(t).seen)
  <2>1. Frames(t, f)' = Frames(t, f)
    BY <1>1, <1>2, <1>3, <1>6
  <2>2. QED
    BY <1>4, <1>6, <2>1
<1>7. QED
  BY <1>5, <1>6

\* CountOf of a thread that returns from a function under the monitor.
LEMMA CountReturn ==
  ASSUME TypeInv, NEW t \in Threads, CountInv, StackOf(t), AfterTransition(t),
         event[t].type = "FuncReturn"
  PROVE  CountOf(t)'
<1> DEFINE f == event[t].func
           m == Count("InFunc", t, f)
<1>1. /\ pc[t] = "finish" /\ todo[t] = <<>> /\ InHandler(t) /\ ~NotStarted
      /\ stack[t] # <<>> /\ Top(t).func = f /\ aux' = aux /\ CountOf(t)
           /\ enabled' = enabled
  BY DEF AfterTransition, StackOf, InHandler, CountInv
<1>2. ~NotStarted' /\ f \in Funcs
  <2>1. ~NotStarted'
    BY <1>1 DEF AfterTransition, Resume, NotStarted, StackOf, TypeInv, ScriptInv
  <2>2. QED
    BY <1>1, <2>1, StackFields DEF TypeInv
<1>3. Pending(t) = {}
  BY <1>1, PendingIs
<1>4. \A h \in Funcs : /\ Cardinality(Frames(t, h)) = Count("InFunc", t, h)
                       /\ Cardinality(Frames(t, h)) \in Nat
                       /\ Count("InFunc", t, h)' = Count("InFunc", t, h)
  <2>1. \A h \in Funcs : Cardinality(Frames(t, h)) = Count("InFunc", t, h)
    BY <1>1, <1>3 DEF CountOf
  <2>2. QED
    BY <1>1, <2>1, FramesFinite, CountIsIn
<1>5. CASE WasEntered(t, f)
  <2> DEFINE d == IF m - 1 = 0 THEN Erase("InFunc", t, f) ELSE Put("InFunc", t, f, m - 1)
             r == Erase("Arg0", t, f)
  <2>1. /\ pc'[t] = "after" /\ stack'[t] = stack[t] /\ todo'[t] = <<d, r>>
    BY <1>1, <1>5 DEF AfterTransition, TypeInv, ScriptInv, AuxInv
  <2>2. /\ d.var = "InFunc" /\ d.key = f /\ d.tid = t /\ d.op \in {"put", "erase"}
        /\ r.var = "Arg0" /\ m - 1 = IF d.op = "put" THEN d.value ELSE 0
    <3>1. CASE m - 1 = 0
      BY <3>1 DEF Erase, Write
    <3>2. CASE m - 1 # 0
      BY <3>2 DEF Put, Erase, Write
    <3>3. QED
      BY <3>1, <3>2
  <2> HIDE DEF d, r
  <2>3. Pending(t)' = {d, r}
    BY ZenonT(40), <2>1, PendingIs, ElemsTuple
  <2>4. Top(t).seen
    BY <1>1, <1>5, ReturnsSeen
  <2> HIDE DEF m, f
  <2>5. ASSUME NEW h \in Funcs
        PROVE  Cardinality(Frames(t, h)') = Cardinality(Frames(t, h)) - (IF h = f THEN 1 ELSE 0)
    BY <1>1, <2>1, <2>4, FramesAfter
  <2>6. ASSUME NEW h \in Funcs
        PROVE  /\ \A x \in Pending(t)' : x.var = "InFunc" /\ x.key = h =>
                    Cardinality(Frames(t, h)') = IF x.op = "put" THEN x.value ELSE 0
               /\ (\A x \in Pending(t)' : ~(x.var = "InFunc" /\ x.key = h)) =>
                    Cardinality(Frames(t, h)') = Count("InFunc", t, h)'
    <3>1. CASE h = f
      <4>1. Cardinality(Frames(t, h)') = m - 1
        BY <1>4, <2>5, <3>1 DEF m
      <4>2. QED
        BY <2>2, <2>3, <3>1, <4>1
    <3>2. CASE h # f
      <4>1. Cardinality(Frames(t, h)') = Count("InFunc", t, h)'
        BY <1>4, <2>5, <3>2
      <4>2. QED
        BY <2>2, <2>3, <3>2, <4>1
    <3>3. QED
      BY <3>1, <3>2
  <2>7. \A x \in Pending(t)' : x.var = "InFunc" => x.op # "reset" /\ x.tid = t
    BY <2>2, <2>3
  <2>8. QED
    BY <1>2, <2>6, <2>7 DEF CountOf
<1>6. CASE ~WasEntered(t, f)
  <2>1. pc'[t] = "run" /\ stack'[t] = Pop(t) /\ todo'[t] = <<>>
    BY <1>1, <1>6 DEF AfterTransition, Resume, TypeInv, ScriptInv, AuxInv, SutInv
  <2>2. Pending(t)' = {}
    BY <2>1, PendingIs
  <2>3. m = 0
    BY <1>2, <1>4, <1>6 DEF WasEntered
  <2>4. ~Top(t).seen
    <3>1. Frames(t, f) = {}
      <4>1. IsFiniteSet(Frames(t, f))
        BY FramesFinite
      <4>2. Cardinality(Frames(t, f)) = 0
        BY <1>2, <1>4, <2>3
      <4>3. QED
        BY <4>1, <4>2, FS_EmptySet
    <3>2. Len(stack[t]) \in Nat \ {0}
      BY <1>1, StackFields DEF TypeInv
    <3>3. QED
      BY <1>1, <3>1, <3>2 DEF Frames, Top
  <2> HIDE DEF f
  <2>5. ASSUME NEW h \in Funcs PROVE Cardinality(Frames(t, h)') = Count("InFunc", t, h)'
    <3>1. Cardinality(Frames(t, h)') = Cardinality(Frames(t, h)) - 0
      BY <1>1, <2>1, <2>4, FramesAfter
    <3>2. QED
      BY <1>4, <3>1
  <2>6. QED
    BY <1>2, <2>2, <2>5 DEF CountOf
<1>7. QED
  BY <1>5, <1>6


\* Every step keeps CountInv.
LEMMA CountStep ==
  ASSUME TypeInv, EventInv, StackInv, CountInv, [Next]_vars PROVE CountInv'
<1>0. /\ pc \in [Threads -> {"run", "set", "eval", "get", "finish", "after", "endTest", "ended"}]
      /\ event \in [Threads -> Handled] /\ enabled \in BOOLEAN
      /\ todo \in [Threads -> Seq(Writes)]
      /\ stack \in [Threads -> Seq([func : Funcs, arg : Values, seen : BOOLEAN])]
      /\ \A t \in Threads : todo[t] # <<>> => pc[t] \in {"set", "finish", "after"}
      /\ \A t \in Threads : StackOf(t) /\ CountOf(t) /\ EventOf(t)
      /\ Unique(aux) /\ NULL \notin Threads /\ \A f \in Funcs : f # NULL
  BY EventMonitorAssumption
     DEF TypeInv, ScriptInv, AuxInv, SutInv, StackInv, CountInv, Unique, EventInv
<1>n. ASSUME NEW t \in Threads, pc[t] # "ended" PROVE NotStarted' => NotStarted
  BY <1>n, NotStartedStep DEF Restart
<1>c. ASSUME aux' = aux, NEW u, NEW f
      PROVE  /\ Count("InFunc", u, f)' = Count("InFunc", u, f)
             /\ Shown("InFunc", u, f)' <=> Shown("InFunc", u, f)
  BY <1>c, CountIsIn DEF Shown
<1>o. ASSUME NEW t \in Threads, pc[t] # "ended", enabled'
  => enabled, CountOf(t)', aux' = aux,
             \A u \in Threads \ {t} : stack'[u] = stack[u] /\ todo'[u] = todo[u]
               /\ pc'[u] = pc[u]
      PROVE  CountInv'
  <2>1. ASSUME NEW u \in Threads, u # t PROVE CountOf(u)'
    BY <1>0, <1>n, <1>o, <1>c, <2>1, CountKeep
  <2>2. Unique(aux')
    BY <1>0, <1>o
  <2> QED
    BY <1>o, <2>1, <2>2 DEF CountInv, Unique
<1>h. ASSUME NEW t \in Threads, pc[t] = "run", NEW e, NEW ws, NEW entries, Handle(t, e, ws, entries),
             stack' = stack, \A w \in Elems(ws) : w.var # "InFunc"
      PROVE  CountInv'
  <2>1. /\ aux' = aux /\ enabled' = enabled /\ todo[t] = <<>>
        /\ \A u \in Threads \ {t} : stack'[u] = stack[u] /\ todo'[u] = todo[u]
             /\ pc'[u] = pc[u]
    BY <1>0, <1>h DEF Handle
  <2>2. CountOf(t)'
    <3>1. CASE enabled
      <4>1. pc'[t] = "set" /\ todo'[t] = ws
        BY <1>0, <1>h, <3>1 DEF Handle
      <4>2. Watched(t) /\ \A w \in Pending(t)' : w.var # "InFunc"
        BY <1>h, <3>1, <4>1, PendingIs DEF Watched
      <4> QED
        BY <1>0, <1>n, <1>h, <2>1, <4>1, <4>2, CountCalm
    <3>2. CASE ~enabled
      <4>1. pc'[t] = "run" /\ todo'[t] = <<>>
        BY <1>h, <2>1, <3>2 DEF Handle
      <4>2. ~Watched(t)'
        BY <2>1, <3>2, <4>1 DEF Watched, InHandler
      <4> QED
        BY <1>0, <1>n, <1>h, <2>1, <4>1, <4>2, CountIdle
    <3> QED
      BY <3>1, <3>2
  <2> QED
    BY <1>o, <1>h, <2>1, <2>2
<1>m. ASSUME NEW t \in Threads, aux' = aux, stack' = stack, enabled'
  => enabled, todo[t] = <<>>,
             pc[t] \notin {"after", "ended"}, pc'[t] # "after", Watched(t)' => Watched(t),
             \A w \in Pending(t)' : w.var # "InFunc",
             \A u \in Threads \ {t} : todo'[u] = todo[u] /\ pc'[u] = pc[u]
      PROVE  CountInv'
  <2>1. CountOf(t)'
    BY <1>0, <1>n, <1>m, CountCalm
  <2> QED
    BY <1>o, <1>m, <2>1
<1>a. stmt \in Nat \ {0} /\ (Script[stmt].kind = "readArg" => stmt + 1 # 1)
  BY DEF TypeInv, ScriptInv
<1>1. ASSUME NEW t \in Threads, MemRead(t) PROVE CountInv'
  <2> DEFINE ws == <<Put("Reads", t, Head(code[t]).addr, 1)>>
  <2>1. pc[t] = "run" /\ stack' = stack /\ \E e, entries : Handle(t, e, ws, entries)
    BY <1>1 DEF MemRead
  <2>2. \A w \in Elems(ws) : w.var # "InFunc"
    <3>1. Elems(ws) = {Put("Reads", t, Head(code[t]).addr, 1)}
      BY ElemsTuple
    <3> QED
      BY <3>1 DEF Put, Write
  <2> HIDE DEF ws
  <2> QED
    BY <1>h, <2>1, <2>2
<1>2. ASSUME NEW t \in Threads, MemWrite(t) PROVE CountInv'
  <2> DEFINE ws == <<Put("Writes", t, Head(code[t]).addr, 1)>>
  <2>1. pc[t] = "run" /\ stack' = stack /\ \E e, entries : Handle(t, e, ws, entries)
    BY <1>2 DEF MemWrite
  <2>2. \A w \in Elems(ws) : w.var # "InFunc"
    <3>1. Elems(ws) = {Put("Writes", t, Head(code[t]).addr, 1)}
      BY ElemsTuple
    <3> QED
      BY <3>1 DEF Put, Write
  <2> HIDE DEF ws
  <2> QED
    BY <1>h, <2>1, <2>2
<1>3. ASSUME NEW t \in Threads, MemAccessBefore(t) PROVE CountInv'
  <2> DEFINE ws == <<>>
  <2>1. pc[t] = "run" /\ stack' = stack /\ \E e, entries : Handle(t, e, ws, entries)
    BY <1>3 DEF MemAccessBefore
  <2>2. \A w \in Elems(ws) : w.var # "InFunc"
    <3>1. Elems(ws) = {}
      BY ElemsTuple
    <3> QED
      BY <3>1 DEF Put, Write
  <2> HIDE DEF ws
  <2> QED
    BY <1>h, <2>1, <2>2
<1>4. ASSUME NEW t \in Threads, FuncCall(t) PROVE CountInv'
  <2> DEFINE ws == <<Put("CallsTo", NULL, Head(code[t]).func, 1), Put("Arg0", t, Head(code[t]).func, Head(code[t]).arg)>>
  <2>1. pc[t] = "run" /\ stack' = stack /\ \E e, entries : Handle(t, e, ws, entries)
    BY <1>4 DEF FuncCall
  <2>2. \A w \in Elems(ws) : w.var # "InFunc"
    <3>1. Elems(ws) = {Put("CallsTo", NULL, Head(code[t]).func, 1), Put("Arg0", t, Head(code[t]).func, Head(code[t]).arg)}
      BY ElemsTuple
    <3> QED
      BY <3>1 DEF Put, Write
  <2> HIDE DEF ws
  <2> QED
    BY <1>h, <2>1, <2>2
<1>5. ASSUME NEW t \in Threads, FuncEnter(t) PROVE CountInv'
  <2>1. /\ pc[t] = "run" /\ aux' = aux /\ enabled' = enabled
        /\ \A u \in Threads \ {t} : stack'[u] = stack[u] /\ todo'[u] = todo[u]
             /\ pc'[u] = pc[u]
    BY <1>5, <1>0 DEF FuncEnter, Handle
  <2>2. CASE enabled
    BY <1>5, <1>0, <1>o, <2>1, <2>2, CountEnter
  <2>3. CASE ~enabled
    <3>1. pc'[t] = "run" /\ todo'[t] = <<>>
      BY <1>5, <1>0, <2>1, <2>3 DEF FuncEnter, Handle
    <3>2. ~Watched(t)'
      BY <2>1, <2>3, <3>1 DEF Watched, InHandler
    <3>3. CountOf(t)'
      BY <1>0, <1>n, <2>1, <3>1, <3>2, CountIdle
    <3> QED
      BY <1>o, <2>1, <3>3
  <2> QED
    BY <2>2, <2>3
<1>6. ASSUME NEW t \in Threads, FuncReturn(t) PROVE CountInv'
  <2> DEFINE ws == <<Put("Returns", t, Top(t).func, 1), Put("RetVal", t, Top(t).func, 1)>>
  <2>1. /\ pc[t] = "run" /\ \E e, entries : Handle(t, e, ws, entries)
        /\ aux' = aux /\ enabled' = enabled
             /\ \A u \in Threads \ {t} : stack'[u] = stack[u] /\ todo'[u] = todo[u] /\ pc'[u] = pc[u]
    BY <1>6, <1>0 DEF FuncReturn, Handle
  <2>2. CASE enabled
    <3>1. \A w \in Elems(ws) : w.var # "InFunc"
      <4>1. Elems(ws) = {Put("Returns", t, Top(t).func, 1), Put("RetVal", t, Top(t).func, 1)}
        BY ElemsTuple
      <4> QED
        BY <4>1 DEF Put, Write
    <3>2. stack' = stack
      BY <1>6, <2>2 DEF FuncReturn
    <3> HIDE DEF ws
    <3> QED
      BY <1>h, <2>1, <3>1, <3>2
  <2>3. CASE ~enabled
    <3>1. pc'[t] = "run" /\ todo'[t] = <<>>
      BY <1>6, <1>0, <2>1, <2>3 DEF FuncReturn, Handle
    <3>2. ~Watched(t)'
      BY <2>1, <2>3, <3>1 DEF Watched, InHandler
    <3>3. CountOf(t)'
      BY <1>0, <1>n, <2>1, <3>1, <3>2, CountIdle
    <3> QED
      BY <1>o, <2>1, <3>3
  <2> QED
    BY <2>2, <2>3
<1>7. ASSUME NEW t \in Threads, AtPc(t) PROVE CountInv'
  <2> DEFINE ws == <<Put("Pc", t, NULL, Head(code[t]).pc), Put("AtPc", t, NULL, 1)>>
  <2>1. pc[t] = "run" /\ stack' = stack /\ \E e, entries : Handle(t, e, ws, entries)
    BY <1>7 DEF AtPc
  <2>2. \A w \in Elems(ws) : w.var # "InFunc"
    <3>1. Elems(ws) = {Put("Pc", t, NULL, Head(code[t]).pc), Put("AtPc", t, NULL, 1)}
      BY ElemsTuple
    <3> QED
      BY <3>1 DEF Put, Write
  <2> HIDE DEF ws
  <2> QED
    BY <1>h, <2>1, <2>2
<1>8. ASSUME NEW t \in Threads, EndInstrument(t) PROVE CountInv'
  <2>1. /\ pc[t] = "run" /\ aux' = aux /\ stack' = stack /\ enabled' = enabled
             /\ todo[t] = <<>>
        /\ pc'[t] # "after" /\ (pc'[t] = "run" \/ enabled)
        /\ \A u \in Threads \ {t} : todo'[u] = todo[u] /\ pc'[u] = pc[u]
    BY <1>8, <1>0 DEF EndInstrument, Finish
  <2>2. \A w \in Pending(t)' : w.var # "InFunc"
    <3>1. CASE enabled
      BY <1>8, <3>1, FinishWrites DEF EndInstrument, EventVars
    <3>2. CASE ~enabled
      BY <1>8, <2>1, <3>2, PendingIs DEF EndInstrument
    <3> QED
      BY <3>1, <3>2
  <2>3. Watched(t)' => Watched(t)
    BY <2>1 DEF Watched, InHandler
  <2> QED
    BY <1>m, <2>1, <2>2, <2>3
<1>9. ASSUME NEW t \in Threads, ThreadEnd(t) PROVE CountInv'
  <2>1. /\ pc[t] = "run" /\ aux' = aux /\ stack' = stack /\ enabled' = enabled
             /\ todo[t] = <<>>
        /\ pc'[t] # "after" /\ (pc'[t] = "ended" \/ enabled)
        /\ \A u \in Threads \ {t} : todo'[u] = todo[u] /\ pc'[u] = pc[u]
    BY <1>9, <1>0 DEF ThreadEnd
  <2>2. \A w \in Pending(t)' : w.var # "InFunc"
    <3>1. CASE enabled
      <4>1. todo'[t] = <<Put("Ends", t, NULL, 1)>>
        BY <1>9, <1>0, <3>1 DEF ThreadEnd
      <4>2. Pending(t)' = {Put("Ends", t, NULL, 1)}
        BY <4>1, PendingIs, ElemsTuple
      <4> QED
        BY <4>2 DEF Put, Write
    <3>2. CASE ~enabled
      BY <1>9, <2>1, <3>2, PendingIs DEF ThreadEnd
    <3> QED
      BY <3>1, <3>2
  <2>3. Watched(t)' => Watched(t)
    BY <2>1 DEF Watched, InHandler
  <2> QED
    BY <1>m, <2>1, <2>2, <2>3
<1>10. ASSUME NEW t \in Threads, StartTest(t) PROVE CountInv'
  <2>1. NotStarted /\ UNCHANGED <<aux, stack, pc, todo>> /\ enabled'
    BY <1>10 DEF StartTest, NotStarted
  <2>2. ASSUME NEW u \in Threads PROVE CountOf(u)'
    <3>1. Pending(u) = {} /\ Pending(u)' = {}
      <4>1. todo[u] = <<>> /\ todo'[u] = <<>>
        BY <1>0, <2>1 DEF StackOf, InHandler
      <4> QED
        BY <4>1, PendingIs
    <3>2. \A f \in Funcs : Frames(u, f)' = {}
      <4>1. \A i \in DOMAIN stack[u] : ~stack[u][i].seen
        BY <1>0, <2>1 DEF StackOf
      <4>2. DOMAIN stack[u] = 1..Len(stack[u]) /\ Len(stack[u]) \in Nat
        BY <1>0
      <4> QED
        BY <2>1, <4>1, <4>2 DEF Frames
    <3>3. \A f \in Funcs : Count("InFunc", u, f)' = 0
      <4>1. \A f \in Funcs : ~Shown("InFunc", u, f)
        BY <1>0, <2>1 DEF CountOf
      <4>2. \A f \in Funcs : EntriesAt(aux, "InFunc", u, f) = {}
        BY <4>1 DEF Shown, EntriesAt
      <4>3. ASSUME NEW f \in Funcs PROVE Count("InFunc", u, f)' = 0
        <5>1. f # NULL
          BY EventMonitorAssumption
        <5>2. CountIn(aux, "InFunc", u, f) = 0
          BY <4>2, <5>1, CountNone
        <5>3. aux' = aux
          BY <2>1
        <5> QED
          BY <5>2, <5>3, CountIsIn
      <4> QED
        BY <4>3
    <3>4. ~NotStarted'
      BY <2>1 DEF NotStarted
    <3>5. \A f \in Funcs : Cardinality(Frames(u, f)') = Count("InFunc", u, f)'
      BY <3>2, <3>3, FS_EmptySet
    <3> QED
      BY <3>1, <3>4, <3>5 DEF CountOf
  <2>3. Unique(aux')
    BY <1>0, <2>1
  <2> QED
    BY <2>2, <2>3 DEF CountInv, Unique
<1>11. ASSUME NEW t \in Threads, EndTest(t) PROVE CountInv'
  <2>1. /\ aux' = aux /\ stack' = stack /\ (enabled' => enabled) /\ todo' = todo
             /\ todo[t] = <<>>
        /\ pc[t] = "run" /\ pc'[t] = "endTest"
        /\ \A u \in Threads \ {t} : todo'[u] = todo[u] /\ pc'[u] = pc[u]
    BY <1>11, <1>0 DEF EndTest
  <2>2. Pending(t)' = {} /\ (Watched(t)' => Watched(t))
    BY <2>1, PendingIs DEF Watched, InHandler
  <2> QED
    BY <1>m, <2>1, <2>2
<1>12. ASSUME NEW t \in Threads, InsertEndNode(t) PROVE CountInv'
  <2>1. /\ aux' = aux /\ stack' = stack /\ (enabled' => enabled) /\ todo' = todo
             /\ todo[t] = <<>>
        /\ pc[t] = "endTest" /\ pc'[t] = "run"
        /\ \A u \in Threads \ {t} : todo'[u] = todo[u] /\ pc'[u] = pc[u]
    BY <1>12, <1>0 DEF InsertEndNode
  <2>2. Pending(t)' = {} /\ (Watched(t)' => Watched(t))
    BY <2>1, PendingIs DEF Watched, InHandler
  <2> QED
    BY <1>m, <2>1, <2>2
<1>13. ASSUME NEW t \in Threads, WriteAux(t) PROVE CountInv'
  <2>1. /\ todo[t] # <<>> /\ aux' = Written(Head(todo[t])) /\ pc[t] # "ended"
        /\ UNCHANGED <<stack, pc, enabled>> /\ \A u \in Threads \ {t} : todo'[u] = todo[u]
    BY <1>13, <1>0 DEF WriteAux
  <2>2. NotStarted' => NotStarted
    BY <1>n, <2>1
  <2>3. CountOf(t)'
    BY <1>13, <1>0, <2>2, CountWrite
  <2>4. Head(todo[t]).tid \in {t, NULL}
    <3>1. Head(todo[t]) \in Pending(t)
      BY <1>0, <2>1, PendingIs, ElemsTail
    <3> QED
      BY <1>0, <3>1 DEF EventOf
  <2>5. ASSUME NEW u \in Threads, u # t PROVE CountOf(u)'
    <3>1. Head(todo[t]).tid # u
      BY <1>0, <2>4, <2>5
    <3>2. \A f \in Funcs : /\ Count("InFunc", u, f)' = Count("InFunc", u, f)
                           /\ Shown("InFunc", u, f)' <=> Shown("InFunc", u, f)
      BY <1>0, <2>1, <3>1, CountWritten, WrittenOthers
    <3> QED
      BY <1>0, <2>1, <2>2, <2>5, <3>2, CountKeep
  <2>6. Unique(aux')
    BY <1>0, <2>1, UniqueWritten
  <2> QED
    BY <2>3, <2>5, <2>6 DEF CountInv, Unique
<1>14. ASSUME NEW t \in Threads, Return(t) PROVE CountInv'
  <2>1. /\ aux' = aux /\ stack' = stack /\ (enabled' => enabled) /\ todo' = todo
             /\ todo[t] = <<>>
        /\ pc[t] = "set" /\ pc'[t] = "run"
        /\ \A u \in Threads \ {t} : todo'[u] = todo[u] /\ pc'[u] = pc[u]
    BY <1>14, <1>0 DEF Return, Resume
  <2>2. Pending(t)' = {} /\ (Watched(t)' => Watched(t))
    BY <2>1, PendingIs DEF Watched, InHandler
  <2> QED
    BY <1>m, <2>1, <2>2
<1>15. ASSUME NEW t \in Threads, TakeNode(t) PROVE CountInv'
  <2>1. /\ aux' = aux /\ stack' = stack /\ (enabled' => enabled) /\ todo' = todo
             /\ todo[t] = <<>>
        /\ pc[t] = "set" /\ pc'[t] \in {"set", "eval"}
        /\ \A u \in Threads \ {t} : todo'[u] = todo[u] /\ pc'[u] = pc[u]
    BY <1>15, <1>0 DEF TakeNode, InTransition
  <2>2. Pending(t)' = {} /\ (Watched(t)' => Watched(t))
    BY <2>1, PendingIs DEF Watched, InHandler
  <2> QED
    BY <1>m, <2>1, <2>2
<1>16. ASSUME NEW t \in Threads, SeeEndNode(t) PROVE CountInv'
  <2>1. /\ pc[t] = "set" /\ pc'[t] = "finish" /\ aux' = aux /\ stack' = stack
        /\ enabled' = enabled /\ todo[t] = <<>>
        /\ \A u \in Threads \ {t} : todo'[u] = todo[u] /\ pc'[u] = pc[u]
    BY <1>16, <1>0 DEF SeeEndNode, InTransition, Finish
  <2>2. \A w \in Pending(t)' : w.var # "InFunc"
    BY <1>16, FinishWrites DEF SeeEndNode, EventVars
  <2>3. Watched(t)
    BY <2>1 DEF Watched, InHandler
  <2> QED
    BY <1>m, <2>1, <2>2, <2>3
<1>17. ASSUME NEW t \in Threads, Evaluates(t) PROVE CountInv'
  <2>1. Evaluated(t)
    BY <1>17, EvaluateEffect
  <2>2. /\ pc[t] \in {"eval", "get"} /\ pc'[t] \in {"set", "eval", "get", "finish"}
        /\ aux' = aux /\ stack' = stack /\ enabled' = enabled /\ todo[t] = <<>>
        /\ \A u \in Threads \ {t} : todo'[u] = todo[u] /\ pc'[u] = pc[u]
    BY <1>0, <2>1 DEF Evaluated, Decided, Finish
  <2>3. \A w \in Pending(t)' : w.var # "InFunc"
    <3>1. CASE Finish(t)
      BY <3>1, FinishWrites DEF EventVars
    <3>2. CASE ~Finish(t)
      <4>1. todo'[t] = <<>>
        BY <2>1, <3>2 DEF Evaluated, Decided
      <4> QED
        BY <4>1, PendingIs
    <3> QED
      BY <3>1, <3>2
  <2>4. Watched(t)
    BY <2>2 DEF Watched, InHandler
  <2> QED
    BY <1>m, <2>2, <2>3, <2>4
<1>18. ASSUME NEW t \in Threads, AfterTransition(t) PROVE CountInv'
  <2>1. /\ pc[t] = "finish" /\ todo[t] = <<>> /\ aux' = aux /\ enabled' = enabled
        /\ \A u \in Threads \ {t} : stack'[u] = stack[u] /\ todo'[u] = todo[u]
             /\ pc'[u] = pc[u]
    BY <1>18, <1>0 DEF AfterTransition, Resume
  <2>2. CASE event[t].type = "FuncReturn"
    <3>1. CountOf(t)'
      BY <1>18, <1>0, <2>2, CountReturn
    <3> QED
      BY <1>o, <2>1, <3>1
  <2>3. CASE event[t].type # "FuncReturn"
    <3>1. stack' = stack /\ todo' = todo /\ pc'[t] \in {"run", "ended"}
      BY <1>18, <1>0, <2>3 DEF AfterTransition, Resume
    <3>2. Pending(t)' = {} /\ Watched(t)
      BY <2>1, <3>1, PendingIs DEF Watched, InHandler
    <3> QED
      BY <1>m, <2>1, <3>1, <3>2
  <2> QED
    BY <2>2, <2>3
<1>19. ASSUME NEW t \in Threads, LeaveFunction(t) PROVE CountInv'
  <2>1. /\ pc[t] = "after" /\ pc'[t] = "run" /\ todo' = todo /\ todo[t] = <<>> /\ aux' = aux
        /\ enabled' = enabled /\ stack'[t] = Pop(t)
        /\ \A u \in Threads \ {t} : stack'[u] = stack[u] /\ todo'[u] = todo[u]
             /\ pc'[u] = pc[u]
    BY <1>19, <1>0 DEF LeaveFunction, Resume
  <2>2. StackOf(t) /\ CountOf(t) /\ stack[t] # <<>> /\ ~NotStarted
    BY <1>0, <2>1 DEF StackOf, InHandler
  <2>3. \A f \in Funcs : Frames(t, f)' = Frames(t, f)
    <3>1. /\ Len(stack[t]) \in Nat \ {0} /\ Len(Pop(t)) = Len(stack[t]) - 1
          /\ \A i \in 1..(Len(stack[t]) - 1) : Pop(t)[i] = stack[t][i]
      BY <2>2, StackFields DEF TypeInv
    <3> QED
      BY <2>1, <3>1 DEF Frames
  <2>4. Pending(t) = {} /\ Pending(t)' = {} /\ ~NotStarted' /\ InHandler(t)
    BY <1>n, <2>1, <2>2, PendingIs DEF InHandler
  <2>5. CountOf(t)'
    BY <1>c, <2>1, <2>2, <2>3, <2>4 DEF CountOf
  <2> QED
    BY <1>o, <2>1, <2>5
<1>20. ASSUME Submit PROVE CountInv'
  <2>1. /\ UNCHANGED <<aux, stack, todo, pc>> /\ (enabled' => enabled)
        /\ (NotStarted' => NotStarted)
    BY <1>20, <1>a DEF Submit, NotStarted, End
  <2> QED
    BY <1>0, <1>c, <2>1, CountKeep DEF CountInv
<1>21. ASSUME ReadArg PROVE CountInv'
  <2>1. /\ UNCHANGED <<aux, stack, todo, pc>> /\ (enabled' => enabled)
        /\ (NotStarted' => NotStarted)
    BY <1>21, <1>a DEF ReadArg, NotStarted, End
  <2> QED
    BY <1>0, <1>c, <2>1, CountKeep DEF CountInv
<1>22. ASSUME EndScript PROVE CountInv'
  <2>1. /\ UNCHANGED <<aux, stack, todo, pc>> /\ (enabled' => enabled)
        /\ (NotStarted' => NotStarted)
    BY <1>22, <1>a DEF EndScript, NotStarted, End
  <2> QED
    BY <1>0, <1>c, <2>1, CountKeep DEF CountInv
<1>23. ASSUME RunUncontrolled PROVE CountInv'
  <2>1. /\ UNCHANGED <<aux, stack, todo, pc>> /\ (enabled' => enabled)
        /\ (NotStarted' => NotStarted)
    BY <1>23, <1>a DEF RunUncontrolled, NotStarted, End
  <2> QED
    BY <1>0, <1>c, <2>1, CountKeep DEF CountInv
<1>24. ASSUME Restart PROVE CountInv'
  <2>1. /\ aux' = {} /\ pc' = [u \in Threads |-> "run"] /\ todo' = todo
             /\ enabled' = enabled
        /\ ~enabled /\ \A u \in Threads : pc[u] = "ended"
    BY <1>24 DEF Restart, Clear
  <2>2. ASSUME NEW u \in Threads PROVE CountOf(u)'
    <3>1. Pending(u)' = {}
      BY <1>0, <2>1, PendingIs
    <3>2. ~InHandler(u)' /\ ~enabled'
      BY <2>1 DEF InHandler
    <3> QED
      BY <2>1, <3>1, <3>2 DEF CountOf, Shown
  <2> QED
    BY <2>1, <2>2 DEF CountInv
<1>25. ASSUME Terminated PROVE CountInv'
  <2>1. /\ UNCHANGED <<aux, stack, todo, pc>> /\ (enabled' => enabled)
        /\ (NotStarted' => NotStarted)
    BY <1>25, <1>a DEF Terminated, NotStarted, End
  <2> QED
    BY <1>0, <1>c, <2>1, CountKeep DEF CountInv
<1>26. CASE UNCHANGED vars
  <2>1. /\ UNCHANGED <<aux, stack, todo, pc>> /\ (enabled' => enabled)
        /\ (NotStarted' => NotStarted)
    BY <1>26 DEF NotStarted
  <2> QED
    BY <1>0, <1>c, <2>1, CountKeep DEF CountInv
<1>27. QED
  BY <1>1, <1>2, <1>3, <1>4, <1>5, <1>6, <1>7, <1>8, <1>9, <1>10, <1>11, <1>12, <1>13,
     <1>14, <1>15, <1>16, <1>17, <1>18, <1>19, <1>20, <1>21, <1>22, <1>23, <1>24, <1>25,
     <1>26 DEF Next, SutSteps, HandlerSteps, ScriptSteps, Evaluates

-----------------------------------------------------------------------------
\* The arguments of calls (BoundToArgument, SelectedStays).

-----------------------------------------------------------------------------
\* BoundToArgument and SelectedStays.

\* The auxiliary state changes by a write, or when an execution starts.
LEMMA AuxMoves ==
  ASSUME TypeInv, [Next]_vars, ~Restart, \A t \in Threads : ~WriteAux(t)
  PROVE  aux' = aux
<1>0. ~Restart /\ \A t \in Threads : ~WriteAux(t)
  OBVIOUS
<1>1. ASSUME NEW t \in Threads, MemRead(t) PROVE aux' = aux
  BY <1>1, <1>0 DEF MemRead, Handle
<1>2. ASSUME NEW t \in Threads, MemWrite(t) PROVE aux' = aux
  BY <1>2, <1>0 DEF MemWrite, Handle
<1>3. ASSUME NEW t \in Threads, MemAccessBefore(t) PROVE aux' = aux
  BY <1>3, <1>0 DEF MemAccessBefore, Handle
<1>4. ASSUME NEW t \in Threads, FuncCall(t) PROVE aux' = aux
  BY <1>4, <1>0 DEF FuncCall, Handle
<1>5. ASSUME NEW t \in Threads, FuncEnter(t) PROVE aux' = aux
  BY <1>5, <1>0 DEF FuncEnter, Handle
<1>6. ASSUME NEW t \in Threads, FuncReturn(t) PROVE aux' = aux
  BY <1>6, <1>0 DEF FuncReturn, Handle
<1>7. ASSUME NEW t \in Threads, AtPc(t) PROVE aux' = aux
  BY <1>7, <1>0 DEF AtPc, Handle
<1>8. ASSUME NEW t \in Threads, EndInstrument(t) PROVE aux' = aux
  BY <1>8, <1>0 DEF EndInstrument, Finish
<1>9. ASSUME NEW t \in Threads, ThreadEnd(t) PROVE aux' = aux
  BY <1>9, <1>0 DEF ThreadEnd
<1>10. ASSUME NEW t \in Threads, StartTest(t) PROVE aux' = aux
  BY <1>10, <1>0 DEF StartTest
<1>11. ASSUME NEW t \in Threads, EndTest(t) PROVE aux' = aux
  BY <1>11, <1>0 DEF EndTest
<1>12. ASSUME NEW t \in Threads, InsertEndNode(t) PROVE aux' = aux
  BY <1>12, <1>0 DEF InsertEndNode, End
<1>13. ASSUME NEW t \in Threads, WriteAux(t) PROVE aux' = aux
  BY <1>13, <1>0 DEF WriteAux
<1>14. ASSUME NEW t \in Threads, Return(t) PROVE aux' = aux
  BY <1>14, <1>0 DEF Return, Resume
<1>15. ASSUME NEW t \in Threads, TakeNode(t) PROVE aux' = aux
  BY <1>15, <1>0 DEF TakeNode, InTransition
<1>16. ASSUME NEW t \in Threads, SeeEndNode(t) PROVE aux' = aux
  BY <1>16, <1>0 DEF SeeEndNode, InTransition, Finish
<1>17. ASSUME NEW t \in Threads, Evaluates(t) PROVE aux' = aux
  <2>1. Evaluated(t)
    BY <1>17, EvaluateEffect
  <2> QED
    BY <1>17, <1>0, <2>1 DEF Evaluated, Decided, Finish
<1>18. ASSUME NEW t \in Threads, AfterTransition(t) PROVE aux' = aux
  BY <1>18, <1>0 DEF AfterTransition, Resume
<1>19. ASSUME NEW t \in Threads, LeaveFunction(t) PROVE aux' = aux
  BY <1>19, <1>0 DEF LeaveFunction, Resume
<1>20. ASSUME Submit PROVE aux' = aux
  BY <1>20, <1>0 DEF Submit
<1>21. ASSUME ReadArg PROVE aux' = aux
  BY <1>21, <1>0 DEF ReadArg
<1>22. ASSUME EndScript PROVE aux' = aux
  BY <1>22, <1>0 DEF EndScript, End
<1>23. ASSUME RunUncontrolled PROVE aux' = aux
  BY <1>23, <1>0 DEF RunUncontrolled, End
<1>24. ASSUME Restart PROVE aux' = aux
  BY <1>24, <1>0 DEF Restart
<1>25. ASSUME Terminated PROVE aux' = aux
  BY <1>25, <1>0 DEF Terminated
<1>26. CASE UNCHANGED vars
  BY <1>26, <1>0
<1>27. QED
  BY <1>1, <1>2, <1>3, <1>4, <1>5, <1>6, <1>7, <1>8, <1>9, <1>10, <1>11, <1>12, <1>13,
     <1>14, <1>15, <1>16, <1>17, <1>18, <1>19, <1>20, <1>21, <1>22, <1>23, <1>24, <1>25,
     <1>26 DEF Next, SutSteps, HandlerSteps, ScriptSteps, Evaluates

\* A write of another thread leaves a thread's entries alone.
LEMMA AuxOthers ==
  ASSUME TypeInv, EventInv, NEW t \in Threads, WriteAux(t), NEW u \in Threads, u # t,
         NEW e, e[2] = u
  PROVE  e \in aux' <=> e \in aux
<1>1. todo[t] # <<>> /\ aux' = Written(Head(todo[t]))
  BY DEF WriteAux
<1>2. Head(todo[t]) \in Pending(t)
  BY <1>1, PendingIs, ElemsTail DEF TypeInv, AuxInv
<1>3. Head(todo[t]).tid # u
  <2>1. Head(todo[t]).tid \in {t, NULL} /\ NULL \notin Threads
    BY <1>2, EventMonitorAssumption DEF EventInv, EventOf
  <2> QED
    BY <2>1
<1>4. Written(Head(todo[t])) \subseteq aux
        \cup {<<Head(todo[t]).var, Head(todo[t]).tid, Head(todo[t]).key, Head(todo[t]).value>>}
  BY DEF Written
<1>5. e \in aux' => e \in aux
  BY <1>1, <1>3, <1>4
<1>6. e \in aux => e \in aux'
  BY <1>1, <1>3 DEF Written
<1>7. QED
  BY <1>5, <1>6

\* The thread that evaluates the node stays at its literal until it has evaluated it,
\* and nobody else changes the node or the thread variables.
LEMMA EvaluatingKeep ==
  ASSUME TypeInv, [Next]_vars, NEW u \in Threads, ~Evaluates(u)
  PROVE  /\ pc'[u] = "get" => pc[u] = "get"
         /\ holder' = u => holder = u \/ TakeNode(u)
         /\ holder = u =>
              /\ UNCHANGED <<tvar, node, holder>> /\ lit'[u] = lit[u] /\ pc'[u] = pc[u]
              /\ event'[u] = event[u] /\ ~Restart /\ (aborted' = "none" => aborted = "none")
<1> DEFINE Q == /\ pc'[u] = "get" => pc[u] = "get"
                /\ holder' = u => holder = u \/ TakeNode(u)
                /\ holder = u =>
                     /\ UNCHANGED <<tvar, node, holder>> /\ lit'[u] = lit[u] /\ pc'[u] = pc[u]
                     /\ event'[u] = event[u] /\ ~Restart
                     /\ (aborted' = "none" => aborted = "none")
<1>0. /\ pc \in [Threads -> {"run", "set", "eval", "get", "finish", "after", "endTest", "ended"}]
      /\ event \in [Threads -> Handled] /\ lit \in [Threads -> Nat \ {0}]
      /\ holder = u =>
           /\ pc[u] \in {"eval", "get"} /\ holder # NULL /\ node > 0 /\ node # -1 /\ ~Restart
           /\ \A t \in Threads \ {u} : pc[t] \notin {"eval", "get"} /\ holder # t
           /\ todo[u] = <<>>
      /\ ~Evaluates(u) /\ u # NULL
  <2>1. /\ pc \in [Threads -> {"run", "set", "eval", "get", "finish", "after", "endTest", "ended"}]
        /\ event \in [Threads -> Handled] /\ lit \in [Threads -> Nat \ {0}]
        /\ \A t \in Threads : pc[t] \in {"eval", "get"} <=> holder = t
        /\ \A t \in Threads : todo[t] # <<>> => pc[t] \in {"set", "finish", "after"}
        /\ NULL \notin Threads /\ (holder # NULL => node > 0)
    BY EventMonitorAssumption DEF TypeInv, ScriptInv, AuxInv
  <2>2. ASSUME holder = u
        PROVE  /\ pc[u] \in {"eval", "get"} /\ holder # NULL /\ node > 0 /\ node # -1 /\ ~Restart
               /\ \A t \in Threads \ {u} : pc[t] \notin {"eval", "get"} /\ holder # t
               /\ todo[u] = <<>>
    <3>1. pc[u] \in {"eval", "get"} /\ holder # NULL /\ node > 0
      BY <2>1, <2>2
    <3>2. \A t \in Threads \ {u} : pc[t] \notin {"eval", "get"} /\ holder # t
      BY <2>1, <2>2
    <3>3. ~Restart
      BY <3>1 DEF Restart
    <3> QED
      BY <2>1, <3>1, <3>2, <3>3
  <2> QED
    BY <2>1, <2>2
<1> SUFFICES Q
  OBVIOUS
<1>1. ASSUME NEW t \in Threads, MemRead(t) PROVE Q
  BY <1>1, <1>0 DEF MemRead, Handle
<1>2. ASSUME NEW t \in Threads, MemWrite(t) PROVE Q
  BY <1>2, <1>0 DEF MemWrite, Handle
<1>3. ASSUME NEW t \in Threads, MemAccessBefore(t) PROVE Q
  BY <1>3, <1>0 DEF MemAccessBefore, Handle
<1>4. ASSUME NEW t \in Threads, FuncCall(t) PROVE Q
  BY <1>4, <1>0 DEF FuncCall, Handle
<1>5. ASSUME NEW t \in Threads, FuncEnter(t) PROVE Q
  BY <1>5, <1>0 DEF FuncEnter, Handle
<1>6. ASSUME NEW t \in Threads, FuncReturn(t) PROVE Q
  BY <1>6, <1>0 DEF FuncReturn, Handle
<1>7. ASSUME NEW t \in Threads, AtPc(t) PROVE Q
  BY <1>7, <1>0 DEF AtPc, Handle
<1>8. ASSUME NEW t \in Threads, EndInstrument(t) PROVE Q
  BY <1>8, <1>0 DEF EndInstrument, Finish
<1>9. ASSUME NEW t \in Threads, ThreadEnd(t) PROVE Q
  BY <1>9, <1>0 DEF ThreadEnd
<1>10. ASSUME NEW t \in Threads, StartTest(t) PROVE Q
  BY <1>10, <1>0 DEF StartTest
<1>11. ASSUME NEW t \in Threads, EndTest(t) PROVE Q
  BY <1>11, <1>0 DEF EndTest
<1>12. ASSUME NEW t \in Threads, InsertEndNode(t) PROVE Q
  BY <1>12, <1>0 DEF InsertEndNode, End
<1>13. ASSUME NEW t \in Threads, WriteAux(t) PROVE Q
  BY <1>13, <1>0 DEF WriteAux
<1>14. ASSUME NEW t \in Threads, Return(t) PROVE Q
  BY <1>14, <1>0 DEF Return, Resume
<1>15. ASSUME NEW t \in Threads, TakeNode(t) PROVE Q
  BY <1>15, <1>0 DEF TakeNode, InTransition
<1>16. ASSUME NEW t \in Threads, SeeEndNode(t) PROVE Q
  BY <1>16, <1>0 DEF SeeEndNode, InTransition, Finish
<1>17. ASSUME NEW t \in Threads, Evaluates(t) PROVE Q
  <2>1. Evaluated(t)
    BY <1>17, EvaluateEffect
  <2> QED
    BY <1>17, <1>0, <2>1 DEF Evaluated, Decided, Finish
<1>18. ASSUME NEW t \in Threads, AfterTransition(t) PROVE Q
  BY <1>18, <1>0 DEF AfterTransition, Resume
<1>19. ASSUME NEW t \in Threads, LeaveFunction(t) PROVE Q
  BY <1>19, <1>0 DEF LeaveFunction, Resume
<1>20. ASSUME Submit PROVE Q
  BY <1>20, <1>0 DEF Submit
<1>21. ASSUME ReadArg PROVE Q
  BY <1>21, <1>0 DEF ReadArg
<1>22. ASSUME EndScript PROVE Q
  BY <1>22, <1>0 DEF EndScript, End
<1>23. ASSUME RunUncontrolled PROVE Q
  BY <1>23, <1>0 DEF RunUncontrolled, End
<1>24. ASSUME Restart PROVE Q
  BY <1>24, <1>0 DEF Restart
<1>25. ASSUME Terminated PROVE Q
  BY <1>25, <1>0 DEF Terminated
<1>26. CASE UNCHANGED vars
  BY <1>26, <1>0
<1>27. QED
  BY <1>1, <1>2, <1>3, <1>4, <1>5, <1>6, <1>7, <1>8, <1>9, <1>10, <1>11, <1>12, <1>13,
     <1>14, <1>15, <1>16, <1>17, <1>18, <1>19, <1>20, <1>21, <1>22, <1>23, <1>24, <1>25,
     <1>26 DEF Next, SutSteps, HandlerSteps, ScriptSteps, Evaluates

\* The next literal, or the end of the evaluation, is not a get.
LEMMA AdvanceMoves ==
  ASSUME TypeInv, NEW t \in Threads, NEW b, Advance(t, b) PROVE pc'[t] # "get"
BY DEF Advance, Decide, Finish, TypeInv, ScriptInv

\* From isset to get, the literal's variable stays set.
LEMMA LockedStep ==
  ASSUME TypeInv, \A t \in Threads : LockedOf(t), [Next]_vars
  PROVE  \A t \in Threads : LockedOf(t)'
<1> SUFFICES ASSUME NEW u \in Threads, pc'[u] = "get"
             PROVE  /\ Literal(u)'.value # NULL
                    /\ aborted' = "none" =>
                         About(u)' # NULL /\ IsSet(Literal(u).var, About(u), Literal(u).key)'
  BY DEF LockedOf
<1>1. CASE Evaluates(u)
  <2>1. EvalIsSet(u)
    BY <1>1, AdvanceMoves DEF EvalGet, Evaluates
  <2>2. /\ UNCHANGED <<tvar, node, lit, aux>> /\ (aborted' = "none" => About(u) # NULL)
        /\ IsSet(Literal(u).var, About(u), Literal(u).key) /\ Literal(u).value # NULL
    BY <2>1, AdvanceMoves DEF EvalIsSet
  <2> QED
    BY <2>2 DEF About, Literal, IsSet, Entries
<1>2. CASE ~Evaluates(u)
  <2>1. holder = u /\ pc[u] = "get"
    BY <1>2, EvaluatingKeep DEF TypeInv, ScriptInv
  <2>2. /\ UNCHANGED <<tvar, node>> /\ lit'[u] = lit[u] /\ ~Restart
        /\ (aborted' = "none" => aborted = "none")
    BY <1>2, <2>1, EvaluatingKeep
  <2>3. Literal(u)' = Literal(u) /\ About(u)' = About(u)
    BY <2>2 DEF Literal, About
  <2>4. /\ Literal(u).value # NULL
        /\ aborted' = "none" =>
             About(u) # NULL /\ IsSet(Literal(u).var, About(u), Literal(u).key)
    BY <2>1, <2>2 DEF LockedOf
  <2>5. ASSUME NEW v, v = Literal(u).var, NEW a, NEW k, IsSet(v, a, k)
        PROVE  IsSet(v, a, k)'
    <3>1. Entries(v, a)' = Entries(v, a)
      <4>1. CASE \A t \in Threads : ~WriteAux(t)
        BY <2>2, <4>1, AuxMoves DEF Entries
      <4>2. ASSUME NEW t \in Threads, WriteAux(t) PROVE Entries(v, a)' = Entries(v, a)
        <5>1. aux' = Written(Head(todo[t])) /\ Head(todo[t]).var # v
          BY <2>1, <2>5, <4>2 DEF WriteAux, ReadLocked
        <5> QED
          BY <5>1 DEF Written, Entries
      <4> QED
        BY <4>1, <4>2
    <3> QED
      BY <2>5, <3>1 DEF IsSet
  <2>6. PICK v, a, k : v = Literal(u).var /\ a = About(u) /\ k = Literal(u).key
    OBVIOUS
  <2>7. aborted' = "none" => IsSet(v, a, k)'
    BY <2>4, <2>5, <2>6
  <2> QED
    BY <2>3, <2>4, <2>6, <2>7 DEF IsSet, Entries
<1> QED
  BY <1>1, <1>2

\* A call that has been reported is the next event.
LEMMA CallEnters ==
  ASSUME TypeInv, NEW t \in Threads, Opened(t), code[t] # <<>>,
         Head(code[t]).type = "FuncCall", code'[t] = Tail(code[t])
  PROVE  /\ code'[t] # <<>>
         /\ Head(code'[t]) = [type |-> "FuncEnter", func |-> Head(code[t]).func,
                              arg |-> Head(code[t]).arg]
<1>1. PICK p \in Programs : \E i \in 0..Len(p) : code[t] = SubSeq(p, i + 1, Len(p))
  BY DEF Opened
<1>2. PICK i \in 0..Len(p) : code[t] = SubSeq(p, i + 1, Len(p))
  BY <1>1
<1>3. p \in Seq(Events) /\ Balanced(p)
  BY EventMonitorAssumption
<1> DEFINE s == SubSeq(p, i + 1, Len(p))
<1>4. code[t] = s /\ s # <<>> /\ code'[t] = Tail(s) /\ Head(s).type = "FuncCall"
  BY <1>2
<1>5. /\ i \in 0..(Len(p) - 1) /\ Head(s) = p[i + 1]
      /\ Tail(s) = SubSeq(p, i + 2, Len(p))
  BY <1>3, <1>4, CodeStep
<1> HIDE DEF s
<1>6. /\ i + 1 \in DOMAIN p /\ Len(p) \in Nat /\ i + 1 + 1 = i + 2 /\ i + 1 \in Nat
      /\ p[i + 1] \in Events
  BY <1>3, <1>5
<1>7. i + 1 < Len(p) /\ p[i + 2] = [p[i + 1] EXCEPT !.type = "FuncEnter"]
  BY <1>3, <1>4, <1>5, <1>6 DEF Balanced
<1>8. p[i + 1] \in [type : {"FuncCall", "FuncEnter"}, func : Funcs, arg : Values]
  BY <1>4, <1>5, <1>6 DEF Events
<1>9. p[i + 2] = [type |-> "FuncEnter", func |-> p[i + 1].func, arg |-> p[i + 1].arg]
  BY <1>7, <1>8
<1>10. SubSeq(p, i + 2, Len(p)) # <<>> /\ Head(SubSeq(p, i + 2, Len(p))) = p[i + 2]
  <2>1. /\ SubSeq(p, i + 2, Len(p)) \in Seq(Events)
        /\ Len(SubSeq(p, i + 2, Len(p))) = Len(p) - i - 1
        /\ \A j \in 1..(Len(p) - i - 1) : SubSeq(p, i + 2, Len(p))[j] = p[i + 1 + j]
    BY <1>3, <1>6, <1>7
  <2>2. 1 \in 1..(Len(p) - i - 1)
    BY <1>6, <1>7
  <2>3. SubSeq(p, i + 2, Len(p))[1] = p[i + 2] /\ SubSeq(p, i + 2, Len(p)) # <<>>
    BY <1>6, <1>7, <2>1, <2>2
  <2> QED
    BY <2>1, <2>3
<1> QED
  BY <1>4, <1>5, <1>9, <1>10

\* The argument of every thread's calls.
ArgumentAll == \A t \in Threads : ArgumentOf(t)

\* The calls a thread is in, and makes next, stay while it does other things.
LEMMA ArgumentsStay ==
  ASSUME NEW t \in Threads, stack'[t] = stack[t],
         code'[t] = code[t] \/ (code[t] # <<>> => Head(code[t]).type # "FuncEnter"), NEW f
  PROVE  Arguments(t, f) \subseteq Arguments(t, f)'
<1>1. ASSUME NEW x, code[t] # <<>>, Head(code[t]) = [type |-> "FuncEnter", func |-> f, arg |-> x]
      PROVE  code'[t] = code[t]
  <2>1. Head(code[t]).type = "FuncEnter"
    BY <1>1
  <2> QED
    BY <1>1, <2>1
<1>2. QED
  BY <1>1 DEF Arguments

\* ArgumentOf of a thread that does nothing.
LEMMA ArgumentKeep ==
  ASSUME TypeInv, NEW u \in Threads, ArgumentOf(u), NotStarted' => NotStarted,
         enabled' => enabled, code'[u] = code[u], stack'[u] = stack[u], todo'[u] = todo[u],
         pc'[u] = pc[u], \A e : e[2] = u => (e \in aux' <=> e \in aux)
  PROVE  ArgumentOf(u)'
<1>1. Pending(u)' = Pending(u) /\ Top(u)' = Top(u) /\ (Watched(u)' => Watched(u))
  BY PendingIs DEF Top, Watched, InHandler
<1>2. \A f : Arguments(u, f)' = Arguments(u, f)
  BY DEF Arguments
<1>3. QED
  BY <1>1, <1>2 DEF ArgumentOf, Watched

\* ArgumentOf of a thread that starts, continues or leaves a handler, and stays in the
\* calls the auxiliary state knows.
LEMMA ArgumentCalm ==
  ASSUME TypeInv, NEW t \in Threads, ArgumentOf(t), NotStarted' => NotStarted, aux' = aux,
         Watched(t)' => Watched(t), pc'[t] # "after",
         \A w \in Pending(t)' : w.var = "Arg0" =>
           /\ w.op = "put" /\ w.tid = t /\ w.key \in Funcs
           /\ w.value \in Arguments(t, w.key)',
         Watched(t)' => \A e \in aux : e[1] = "Arg0" /\ e[2] = t /\ e[4] \in Arguments(t, e[3])
                          => e[4] \in Arguments(t, e[3])'
  PROVE  ArgumentOf(t)'
<1>1. NotStarted' => \A e \in aux' : ~(e[1] = "Arg0" /\ e[2] = t)
  BY DEF ArgumentOf
<1>2. ASSUME Watched(t)', NEW e \in aux', e[1] = "Arg0", e[2] = t
      PROVE  e[3] \in Funcs /\ e[4] \in Arguments(t, e[3])'
  <2>1. e[3] \in Funcs /\ e[4] \in Arguments(t, e[3])
    BY <1>2 DEF ArgumentOf, Watched
  <2> QED
    BY <1>2, <2>1
<1>3. QED
  BY <1>1, <1>2 DEF ArgumentOf, Watched

\* ArgumentOf of a thread that writes what it has announced.
LEMMA ArgumentWrite ==
  ASSUME TypeInv, NEW t \in Threads, ArgumentOf(t), StackOf(t), NotStarted' => NotStarted, WriteAux(t)
  PROVE  ArgumentOf(t)'
<1>1. /\ todo[t] # <<>> /\ aux' = Written(Head(todo[t])) /\ todo'[t] = Tail(todo[t])
      /\ UNCHANGED <<pc, enabled, code, stack>> /\ InHandler(t)
  BY DEF WriteAux, TypeInv, AuxInv, InHandler
<1>2. Pending(t) = {Head(todo[t])} \cup Pending(t)'
  <2>1. todo[t] \in Seq(Writes)
    BY DEF TypeInv, AuxInv
  <2>2. Elems(todo[t]) = {Head(todo[t])} \cup Elems(Tail(todo[t]))
    BY <1>1, <2>1, ElemsTail
  <2>3. QED
    BY <1>1, <2>2, PendingIs
<1>3. PICK w : w = Head(todo[t])
  OBVIOUS
<1>4. aux' = Written(w) /\ Pending(t) = {w} \cup Pending(t)' /\ w \in Pending(t)
  BY <1>1, <1>2, <1>3
<1>5. \A f : Arguments(t, f)' = Arguments(t, f) /\ Top(t)' = Top(t)
  BY <1>1 DEF Arguments, Top
<1>6. ASSUME NEW e \in aux', e[1] = "Arg0", e[2] = t
      PROVE  \/ e \in aux /\ (w.var = "Arg0" => w.op # "reset" /\ w.tid = t /\ e[3] # w.key)
             \/ /\ w.var = "Arg0" /\ w.op = "put" /\ e[3] = w.key /\ e[4] = w.value
  <2>1. w.var = "Arg0" => w.op # "reset" /\ w.tid = t
    BY <1>4 DEF ArgumentOf
  <2>2. CASE w.op = "put" /\ e = <<w.var, w.tid, w.key, w.value>>
    BY <1>6, <2>1, <2>2
  <2>3. CASE ~(w.op = "put" /\ e = <<w.var, w.tid, w.key, w.value>>)
    <3>1. e \in aux /\ (e[1] # w.var \/ e[2] # w.tid \/ (w.op # "reset" /\ e[3] # w.key))
      BY <1>4, <2>3 DEF Written
    <3> QED
      BY <1>6, <2>1, <3>1
  <2> QED
    BY <2>2, <2>3
<1>7. ~NotStarted'
  BY <1>1 DEF StackOf
<1> QED
  BY <1>1, <1>4, <1>5, <1>6, <1>7 DEF ArgumentOf

\* A thread that leaves a function stays in the calls of the others, and of that one when
\* it had not entered it under the monitor.
LEMMA ArgumentsPop ==
  ASSUME TypeInv, NEW t \in Threads, stack[t] # <<>>, stack'[t] = Pop(t), code'[t] = code[t],
         NEW f, f # Top(t).func \/ \A i \in DOMAIN stack[t] : stack[t][i].func = f
                                     => ~stack[t][i].seen
  PROVE  Arguments(t, f) \subseteq Arguments(t, f)'
<1>1. /\ Len(stack[t]) \in Nat \ {0}
      /\ \A i \in 1..(Len(stack[t]) - 1) : Pop(t)[i] = stack[t][i]
      /\ DOMAIN stack[t] = 1..Len(stack[t]) /\ DOMAIN Pop(t) = 1..(Len(stack[t]) - 1)
  BY StackFields DEF TypeInv
<1>2. ASSUME NEW x, NEW i \in DOMAIN stack[t], stack[t][i] = [func |-> f, arg |-> x, seen |-> TRUE]
      PROVE  i \in DOMAIN stack'[t] /\ stack'[t][i] = [func |-> f, arg |-> x, seen |-> TRUE]
  <2>1. stack[t][i].func = f /\ stack[t][i].seen
    BY <1>2
  <2>2. i # Len(stack[t])
    BY <2>1 DEF Top
  <2> QED
    BY <1>1, <1>2, <2>2
<1>3. QED
  BY <1>2 DEF Arguments

\* ArgumentOf of a thread that is about to leave a function it has entered.
LEMMA ArgumentReturn ==
  ASSUME TypeInv, NEW t \in Threads, ArgumentOf(t), StackOf(t), NotStarted' => NotStarted,
         AfterTransition(t), event[t].type = "FuncReturn", WasEntered(t, event[t].func)
  PROVE  ArgumentOf(t)'
<1>1. /\ pc[t] = "finish" /\ pc'[t] = "after" /\ UNCHANGED <<stack, code, aux, enabled>>
      /\ InHandler(t)
  BY DEF AfterTransition, TypeInv, ScriptInv, InHandler
<1> DEFINE c == Count("InFunc", t, event[t].func) - 1
           d == IF c = 0 THEN Erase("InFunc", t, event[t].func)
                ELSE Put("InFunc", t, event[t].func, c)
<1>2. PICK w : todo'[t] = <<w, Erase("Arg0", t, event[t].func)>> /\ w.var = "InFunc"
  <2>1. todo'[t] = <<d, Erase("Arg0", t, event[t].func)>>
    BY DEF AfterTransition, TypeInv, AuxInv
  <2>2. d.var = "InFunc"
    BY DEF Put, Erase, Write
  <2> QED
    BY <2>1, <2>2
<1> HIDE DEF c, d
<1>3. Pending(t)' = {w, Erase("Arg0", t, event[t].func)}
  <2>1. Pending(t)' = Elems(<<w, Erase("Arg0", t, event[t].func)>>)
    BY <1>2, PendingIs
  <2> QED
    BY <2>1, ElemsTuple
<1>4. /\ ~NotStarted' /\ Top(t)' = Top(t) /\ Top(t).func = event[t].func
      /\ \A f : Arguments(t, f)' = Arguments(t, f)
  <2>1. ~NotStarted' /\ Top(t).func = event[t].func
    BY <1>1 DEF StackOf
  <2>2. Top(t)' = Top(t) /\ \A f : Arguments(t, f)' = Arguments(t, f)
    BY <1>1 DEF Top, Arguments
  <2> QED
    BY <2>1, <2>2
<1>5. \A x \in Pending(t)' : x.var = "Arg0" => x.op = "erase" /\ x.key = Top(t).func /\ x.tid = t
  BY <1>2, <1>3, <1>4 DEF Erase, Write
<1>6. \E x \in Pending(t)' : x.var = "Arg0"
  BY <1>3 DEF Erase, Write
<1>7. QED
  BY <1>1, <1>4, <1>5, <1>6 DEF ArgumentOf

\* Every step keeps ArgumentAll.
LEMMA ArgumentStep ==
  ASSUME TypeInv, EventInv, StackInv, CountInv, ArgumentAll, [Next]_vars PROVE ArgumentAll'
<1>0. /\ pc \in [Threads -> {"run", "set", "eval", "get", "finish", "after", "endTest", "ended"}]
      /\ event \in [Threads -> Handled] /\ enabled \in BOOLEAN
      /\ todo \in [Threads -> Seq(Writes)] /\ code \in [Threads -> Seq(Events)]
      /\ stack \in [Threads -> Seq([func : Funcs, arg : Values, seen : BOOLEAN])]
      /\ \A t \in Threads : todo[t] # <<>> => pc[t] \in {"set", "finish", "after"}
      /\ \A t \in Threads : StackOf(t) /\ ArgumentOf(t)
      /\ NULL \notin Threads
  BY EventMonitorAssumption
     DEF TypeInv, ScriptInv, AuxInv, SutInv, StackInv, ArgumentAll
<1>n. ASSUME NEW t \in Threads, pc[t] # "ended" PROVE NotStarted' => NotStarted
  BY <1>n, NotStartedStep DEF Restart
<1>o. ASSUME NEW t \in Threads, pc[t] # "ended", enabled' => enabled, ArgumentOf(t)',
             aux' = aux \/ WriteAux(t),
             \A u \in Threads \ {t} : stack'[u] = stack[u] /\ code'[u] = code[u]
               /\ todo'[u] = todo[u] /\ pc'[u] = pc[u]
      PROVE  ArgumentAll'
  <2>1. ASSUME NEW u \in Threads, u # t PROVE ArgumentOf(u)'
    <3>1. \A e : e[2] = u => (e \in aux' <=> e \in aux)
      BY <1>o, <2>1, AuxOthers
    <3> QED
      BY <1>0, <1>n, <1>o, <2>1, <3>1, ArgumentKeep
  <2> QED
    BY <1>o, <2>1 DEF ArgumentAll
<1>h. ASSUME NEW t \in Threads, pc[t] = "run", NEW e, NEW ws, NEW entries, Handle(t, e, ws, entries),
             enabled => \A w \in Elems(ws) : w.var = "Arg0" =>
               /\ w.op = "put" /\ w.tid = t /\ w.key \in Funcs
               /\ w.value \in Arguments(t, w.key)',
             enabled => \A f : Arguments(t, f) \subseteq Arguments(t, f)',
             \A u \in Threads \ {t} : stack'[u] = stack[u] /\ code'[u] = code[u]
      PROVE  ArgumentAll'
  <2>1. /\ aux' = aux /\ enabled' = enabled /\ todo[t] = <<>>
        /\ \A u \in Threads \ {t} : todo'[u] = todo[u] /\ pc'[u] = pc[u]
    BY <1>0, <1>h DEF Handle
  <2>2. ArgumentOf(t)'
    <3>1. CASE enabled
      <4>1. pc'[t] = "set" /\ todo'[t] = ws
        BY <1>0, <1>h, <3>1 DEF Handle
      <4>2. Watched(t) /\ Pending(t)' = Elems(ws)
        BY <3>1, <4>1, PendingIs DEF Watched
      <4> QED
        BY <1>0, <1>n, <1>h, <2>1, <3>1, <4>1, <4>2, ArgumentCalm
    <3>2. CASE ~enabled
      <4>1. pc'[t] = "run" /\ todo'[t] = <<>>
        BY <1>h, <2>1, <3>2 DEF Handle
      <4>2. ~Watched(t)' /\ Pending(t)' = {}
        BY <2>1, <3>2, <4>1, PendingIs DEF Watched, InHandler
      <4> QED
        BY <1>0, <1>n, <1>h, <2>1, <4>1, <4>2, ArgumentCalm
    <3> QED
      BY <3>1, <3>2
  <2> QED
    BY <1>o, <1>h, <2>1, <2>2
<1>m. ASSUME NEW t \in Threads, aux' = aux, UNCHANGED <<stack, code>>, enabled' => enabled,
             pc[t] \notin {"after", "ended"}, pc'[t] # "after", Watched(t)' => Watched(t),
             \A w \in Pending(t)' : w.var # "Arg0",
             \A u \in Threads \ {t} : todo'[u] = todo[u] /\ pc'[u] = pc[u]
      PROVE  ArgumentAll'
  <2>1. \A f : Arguments(t, f) \subseteq Arguments(t, f)'
    BY <1>m, ArgumentsStay
  <2>2. ArgumentOf(t)'
    BY <1>0, <1>n, <1>m, <2>1, ArgumentCalm
  <2> QED
    BY <1>o, <1>m, <2>2
<1>r. ASSUME NEW t \in Threads, Finish(t) PROVE \A w \in Pending(t)' : w.var # "Arg0"
  <2>1. todo'[t] = Reset(t)
    BY <1>0, <1>r DEF Finish
  <2>2. Pending(t)' = {ResetVar(v, t) : v \in {u \in EventVars : Entries(u, t) # {}}}
    BY <2>1, PendingIs, ResetWrites
  <2> QED
    BY <2>2 DEF ResetVar, Write, EventVars
<1>p. ASSUME NEW t \in Threads, todo[t] = <<>>, todo'[t] = todo[t] PROVE Pending(t)' = {}
  BY <1>p, PendingIs
<1>a. stmt \in Nat \ {0} /\ (Script[stmt].kind = "readArg" => stmt + 1 # 1)
  BY DEF TypeInv, ScriptInv
<1>1. ASSUME NEW t \in Threads, MemRead(t) PROVE ArgumentAll'
  <2> DEFINE ws == <<Put("Reads", t, Head(code[t]).addr, 1)>>
  <2>1. /\ pc[t] = "run" /\ code[t] # <<>> /\ Head(code[t]).type = "MemRead"
        /\ \A u \in Threads \ {t} : stack'[u] = stack[u] /\ code'[u] = code[u]
        /\ \E e, entries : Handle(t, e, ws, entries)
        /\ enabled => stack'[t] = stack[t]
    BY <1>1, <1>0 DEF MemRead
  <2>2. \A w \in Elems(ws) : w.var # "Arg0"
    <3>1. Elems(ws) = {Put("Reads", t, Head(code[t]).addr, 1)}
      BY ElemsTuple
    <3> QED
      BY <3>1 DEF Put, Write
  <2>3. enabled => \A f : Arguments(t, f) \subseteq Arguments(t, f)'
    BY <2>1, ArgumentsStay
  <2> HIDE DEF ws
  <2> QED
    BY <1>h, <2>1, <2>2, <2>3
<1>2. ASSUME NEW t \in Threads, MemWrite(t) PROVE ArgumentAll'
  <2> DEFINE ws == <<Put("Writes", t, Head(code[t]).addr, 1)>>
  <2>1. /\ pc[t] = "run" /\ code[t] # <<>> /\ Head(code[t]).type = "MemWrite"
        /\ \A u \in Threads \ {t} : stack'[u] = stack[u] /\ code'[u] = code[u]
        /\ \E e, entries : Handle(t, e, ws, entries)
        /\ enabled => stack'[t] = stack[t]
    BY <1>2, <1>0 DEF MemWrite
  <2>2. \A w \in Elems(ws) : w.var # "Arg0"
    <3>1. Elems(ws) = {Put("Writes", t, Head(code[t]).addr, 1)}
      BY ElemsTuple
    <3> QED
      BY <3>1 DEF Put, Write
  <2>3. enabled => \A f : Arguments(t, f) \subseteq Arguments(t, f)'
    BY <2>1, ArgumentsStay
  <2> HIDE DEF ws
  <2> QED
    BY <1>h, <2>1, <2>2, <2>3
<1>3. ASSUME NEW t \in Threads, MemAccessBefore(t) PROVE ArgumentAll'
  <2> DEFINE ws == <<>>
  <2>1. /\ pc[t] = "run" /\ code[t] # <<>> /\ Head(code[t]).type = "MemAccessBefore"
        /\ \A u \in Threads \ {t} : stack'[u] = stack[u] /\ code'[u] = code[u]
        /\ \E e, entries : Handle(t, e, ws, entries)
        /\ enabled => stack'[t] = stack[t]
    BY <1>3, <1>0 DEF MemAccessBefore
  <2>2. \A w \in Elems(ws) : w.var # "Arg0"
    <3>1. Elems(ws) = {}
      BY ElemsTuple
    <3> QED
      BY <3>1 DEF Put, Write
  <2>3. enabled => \A f : Arguments(t, f) \subseteq Arguments(t, f)'
    BY <2>1, ArgumentsStay
  <2> HIDE DEF ws
  <2> QED
    BY <1>h, <2>1, <2>2, <2>3
<1>4. ASSUME NEW t \in Threads, FuncCall(t) PROVE ArgumentAll'
  <2>0. PICK g, x : g = Head(code[t]).func /\ x = Head(code[t]).arg
    OBVIOUS
  <2> DEFINE ws == <<Put("CallsTo", NULL, g, 1), Put("Arg0", t, g, x)>>
  <2>1. /\ pc[t] = "run" /\ code[t] # <<>> /\ Head(code[t]).type = "FuncCall"
        /\ \A u \in Threads \ {t} : stack'[u] = stack[u] /\ code'[u] = code[u]
        /\ \E e, entries : Handle(t, e, ws, entries)
        /\ stack'[t] = stack[t] /\ code'[t] = Tail(code[t])
    BY <1>4, <1>0, <2>0 DEF FuncCall
  <2>2. g \in Funcs /\ x \in Values
    BY <2>0, <2>1, EventFields DEF TypeInv
  <2>3. x \in Arguments(t, g)'
    <3>1. code'[t] # <<>> /\ Head(code'[t]) = [type |-> "FuncEnter", func |-> g, arg |-> x]
      BY <1>0, <2>0, <2>1, CallEnters DEF StackOf
    <3> QED
      BY <2>2, <3>1 DEF Arguments
  <2>4. \A w \in Elems(ws) : w.var = "Arg0" =>
               /\ w.op = "put" /\ w.tid = t /\ w.key \in Funcs
               /\ w.value \in Arguments(t, w.key)'
    <3>1. Elems(ws) = {Put("CallsTo", NULL, g, 1), Put("Arg0", t, g, x)}
      BY ElemsTuple
    <3> HIDE DEF ws
    <3> QED
      BY <2>2, <2>3, <3>1 DEF Put, Write
  <2>5. \A f : Arguments(t, f) \subseteq Arguments(t, f)'
    BY <2>1, ArgumentsStay
  <2> HIDE DEF ws
  <2> QED
    BY <1>h, <2>1, <2>4, <2>5
<1>5. ASSUME NEW t \in Threads, FuncEnter(t) PROVE ArgumentAll'
  <2>0. PICK g, x : g = Head(code[t]).func /\ x = Head(code[t]).arg
    OBVIOUS
  <2> DEFINE ws == <<Put("Enters", t, g, 1),
                     Put("InFunc", t, g, Count("InFunc", t, g) + 1),
                     Put("NumInFunc", t, g, Count("NumInFunc", t, g) + 1),
                     Put("Arg0", t, g, x)>>
  <2>1. /\ pc[t] = "run" /\ code[t] # <<>> /\ Head(code[t]).type = "FuncEnter"
        /\ \A u \in Threads \ {t} : stack'[u] = stack[u] /\ code'[u] = code[u]
        /\ \E e, entries : Handle(t, e, ws, entries)
        /\ stack'[t] = Append(stack[t], [func |-> g, arg |-> x, seen |-> enabled])
    BY <1>5, <1>0, <2>0 DEF FuncEnter
  <2>2. g \in Funcs /\ x \in Values
    BY <2>0, <2>1, EventFields DEF TypeInv
  <2>3. /\ \A i \in DOMAIN stack[t] : i \in DOMAIN stack'[t] /\ stack'[t][i] = stack[t][i]
        /\ \E i \in DOMAIN stack'[t] : stack'[t][i] = [func |-> g, arg |-> x, seen |-> enabled]
    <3> DEFINE S == [func : Funcs, arg : Values, seen : BOOLEAN]
               r == [func |-> g, arg |-> x, seen |-> enabled]
    <3>1. stack[t] \in Seq(S) /\ r \in S /\ stack'[t] = Append(stack[t], r)
      BY <1>0, <2>1, <2>2
    <3> HIDE DEF S, r
    <3>2. /\ Len(stack[t]) \in Nat /\ DOMAIN stack[t] = 1..Len(stack[t])
          /\ DOMAIN stack'[t] = 1..(Len(stack[t]) + 1) /\ stack'[t][Len(stack[t]) + 1] = r
          /\ \A i \in 1..Len(stack[t]) : stack'[t][i] = stack[t][i]
      BY <3>1
    <3> QED
      BY <3>2 DEF r
  <2>4. ASSUME enabled PROVE x \in Arguments(t, g)'
    <3>1. enabled = TRUE
      BY <1>0, <2>4
    <3> QED
      BY <2>2, <2>3, <3>1 DEF Arguments
  <2>5. ASSUME enabled, NEW f, NEW y \in Arguments(t, f) PROVE y \in Arguments(t, f)'
    <3>1. CASE \E i \in DOMAIN stack[t] : stack[t][i] = [func |-> f, arg |-> y, seen |-> TRUE]
      BY <2>3, <2>5, <3>1 DEF Arguments
    <3>2. CASE Head(code[t]) = [type |-> "FuncEnter", func |-> f, arg |-> y]
      <4>1. f = g /\ y = x
        BY <2>0, <3>2
      <4> QED
        BY <2>4, <2>5, <4>1
    <3> QED
      BY <2>5, <3>1, <3>2 DEF Arguments
  <2>6. enabled => \A w \in Elems(ws) : w.var = "Arg0" =>
               /\ w.op = "put" /\ w.tid = t /\ w.key \in Funcs
               /\ w.value \in Arguments(t, w.key)'
    <3>1. Elems(ws) = {Put("Enters", t, g, 1),
                     Put("InFunc", t, g, Count("InFunc", t, g) + 1),
                     Put("NumInFunc", t, g, Count("NumInFunc", t, g) + 1),
                     Put("Arg0", t, g, x)}
      BY ElemsFour
    <3> HIDE DEF ws
    <3> QED
      BY <2>2, <2>4, <3>1 DEF Put, Write
  <2> HIDE DEF ws
  <2> QED
    BY <1>h, <2>1, <2>5, <2>6
<1>6. ASSUME NEW t \in Threads, FuncReturn(t) PROVE ArgumentAll'
  <2> DEFINE ws == <<Put("Returns", t, Top(t).func, 1), Put("RetVal", t, Top(t).func, 1)>>
  <2>1. /\ pc[t] = "run" /\ code[t] # <<>> /\ Head(code[t]).type = "FuncReturn"
        /\ \A u \in Threads \ {t} : stack'[u] = stack[u] /\ code'[u] = code[u]
        /\ \E e, entries : Handle(t, e, ws, entries)
        /\ enabled => stack'[t] = stack[t]
    BY <1>6, <1>0 DEF FuncReturn
  <2>2. \A w \in Elems(ws) : w.var # "Arg0"
    <3>1. Elems(ws) = {Put("Returns", t, Top(t).func, 1), Put("RetVal", t, Top(t).func, 1)}
      BY ElemsTuple
    <3> QED
      BY <3>1 DEF Put, Write
  <2>3. enabled => \A f : Arguments(t, f) \subseteq Arguments(t, f)'
    BY <2>1, ArgumentsStay
  <2> HIDE DEF ws
  <2> QED
    BY <1>h, <2>1, <2>2, <2>3
<1>7. ASSUME NEW t \in Threads, AtPc(t) PROVE ArgumentAll'
  <2> DEFINE ws == <<Put("Pc", t, NULL, Head(code[t]).pc), Put("AtPc", t, NULL, 1)>>
  <2>1. /\ pc[t] = "run" /\ code[t] # <<>> /\ Head(code[t]).type = "AtPc"
        /\ \A u \in Threads \ {t} : stack'[u] = stack[u] /\ code'[u] = code[u]
        /\ \E e, entries : Handle(t, e, ws, entries)
        /\ enabled => stack'[t] = stack[t]
    BY <1>7, <1>0 DEF AtPc
  <2>2. \A w \in Elems(ws) : w.var # "Arg0"
    <3>1. Elems(ws) = {Put("Pc", t, NULL, Head(code[t]).pc), Put("AtPc", t, NULL, 1)}
      BY ElemsTuple
    <3> QED
      BY <3>1 DEF Put, Write
  <2>3. enabled => \A f : Arguments(t, f) \subseteq Arguments(t, f)'
    BY <2>1, ArgumentsStay
  <2> HIDE DEF ws
  <2> QED
    BY <1>h, <2>1, <2>2, <2>3
<1>8. ASSUME NEW t \in Threads, EndInstrument(t) PROVE ArgumentAll'
  <2>1. /\ pc[t] = "run" /\ code[t] # <<>> /\ Head(code[t]).type = "EndInstrument"
        /\ todo[t] = <<>> /\ aux' = aux /\ stack' = stack /\ enabled' = enabled
        /\ \A u \in Threads \ {t} : code'[u] = code[u] /\ todo'[u] = todo[u] /\ pc'[u] = pc[u]
        /\ pc'[t] # "after" /\ (Finish(t) \/ todo'[t] = <<>>)
        /\ ~enabled => pc'[t] = "run"
    BY <1>8, <1>0 DEF EndInstrument, Finish
  <2>2. Watched(t)' => Watched(t)
    BY <2>1 DEF Watched, InHandler
  <2>3. \A f : Arguments(t, f) \subseteq Arguments(t, f)'
    BY <2>1, ArgumentsStay
  <2>4. \A w \in Pending(t)' : w.var # "Arg0"
    BY <1>r, <2>1, PendingIs
  <2>5. ArgumentOf(t)'
    BY <1>0, <1>n, <2>1, <2>2, <2>3, <2>4, ArgumentCalm
  <2> QED
    BY <1>o, <2>1, <2>5
<1>9. ASSUME NEW t \in Threads, ThreadEnd(t) PROVE ArgumentAll'
  <2>1. /\ pc[t] = "run" /\ todo[t] = <<>> /\ aux' = aux /\ UNCHANGED <<stack, code, enabled>>
        /\ \A u \in Threads \ {t} : todo'[u] = todo[u] /\ pc'[u] = pc[u]
        /\ pc'[t] # "after" /\ (todo'[t] = <<>> \/ todo'[t] = <<Put("Ends", t, NULL, 1)>>)
        /\ ~enabled => pc'[t] = "ended"
    BY <1>9, <1>0 DEF ThreadEnd
  <2>2. Watched(t)' => Watched(t)
    BY <2>1 DEF Watched, InHandler
  <2>3. \A w \in Pending(t)' : w.var # "Arg0"
    <3>1. Pending(t)' = {} \/ Pending(t)' = {Put("Ends", t, NULL, 1)}
      BY <2>1, PendingIs, ElemsTuple
    <3> QED
      BY <3>1 DEF Put, Write
  <2> QED
    BY <1>m, <2>1, <2>2, <2>3
<1>10. ASSUME NEW t \in Threads, StartTest(t) PROVE ArgumentAll'
  <2>1. NotStarted /\ enabled' /\ UNCHANGED <<aux, code, stack, todo, pc>>
    BY <1>10 DEF StartTest, NotStarted
  <2>2. ASSUME NEW u \in Threads PROVE ArgumentOf(u)'
    <3>1. /\ ~NotStarted' /\ ~InHandler(u) /\ ArgumentOf(u)
      BY <1>0, <2>1 DEF NotStarted, StackOf
    <3>2. pc'[u] # "after" /\ Pending(u)' = {} /\ \A e \in aux' : ~(e[1] = "Arg0" /\ e[2] = u)
      BY <1>0, <2>1, <3>1, PendingIs DEF ArgumentOf, InHandler
    <3> QED
      BY <3>1, <3>2 DEF ArgumentOf
  <2> QED
    BY <2>2 DEF ArgumentAll
<1>11. ASSUME NEW t \in Threads, EndTest(t) PROVE ArgumentAll'
  <2>1. /\ pc[t] = "run" /\ code[t] # <<>> /\ Head(code[t]).type = "EndTest"
        /\ todo[t] = <<>> /\ todo' = todo /\ aux' = aux /\ stack' = stack /\ enabled' = FALSE
        /\ \A u \in Threads \ {t} : code'[u] = code[u] /\ pc'[u] = pc[u]
        /\ pc'[t] = "endTest"
    BY <1>11, <1>0 DEF EndTest
  <2>2. ~Watched(t)' /\ Pending(t)' = {}
    BY <2>1, PendingIs DEF Watched, InHandler
  <2>5. ArgumentOf(t)'
    BY <1>0, <1>n, <2>1, <2>2, ArgumentCalm
  <2> QED
    BY <1>o, <2>1, <2>5
<1>12. ASSUME NEW t \in Threads, InsertEndNode(t) PROVE ArgumentAll'
  <2>1. /\ pc[t] = "endTest" /\ todo[t] = <<>> /\ aux' = aux /\ UNCHANGED <<stack, code, enabled>>
        /\ \A u \in Threads \ {t} : todo'[u] = todo[u] /\ pc'[u] = pc[u]
        /\ pc'[t] # "after" /\ (Finish(t) \/ todo'[t] = <<>>)
    BY <1>12, <1>0 DEF InsertEndNode
  <2>2. Watched(t)' => Watched(t)
    BY <1>12, <1>0, <2>1 DEF Watched, InHandler, InsertEndNode
  <2>3. \A w \in Pending(t)' : w.var # "Arg0"
    BY <1>r, <2>1, PendingIs
  <2> QED
    BY <1>m, <2>1, <2>2, <2>3
<1>13. ASSUME NEW t \in Threads, WriteAux(t) PROVE ArgumentAll'
  <2>1. /\ UNCHANGED <<code, stack, pc, enabled>> /\ pc[t] # "ended"
        /\ \A u \in Threads \ {t} : todo'[u] = todo[u]
    BY <1>13, <1>0 DEF WriteAux
  <2>2. ArgumentOf(t)'
    BY <1>13, <1>0, <1>n, <2>1, ArgumentWrite
  <2> QED
    BY <1>13, <1>o, <2>1, <2>2
<1>14. ASSUME NEW t \in Threads, Return(t) PROVE ArgumentAll'
  <2>1. /\ pc[t] = "set" /\ todo[t] = <<>> /\ aux' = aux /\ UNCHANGED <<stack, code, enabled>>
        /\ \A u \in Threads \ {t} : todo'[u] = todo[u] /\ pc'[u] = pc[u]
        /\ pc'[t] # "after" /\ (Finish(t) \/ todo'[t] = <<>>)
    BY <1>14, <1>0 DEF Return, Resume
  <2>2. Watched(t)' => Watched(t)
    BY <1>14, <1>0, <2>1 DEF Watched, InHandler, Return, Resume
  <2>3. \A w \in Pending(t)' : w.var # "Arg0"
    BY <1>r, <2>1, PendingIs
  <2> QED
    BY <1>m, <2>1, <2>2, <2>3
<1>15. ASSUME NEW t \in Threads, TakeNode(t) PROVE ArgumentAll'
  <2>1. /\ pc[t] = "set" /\ todo[t] = <<>> /\ aux' = aux /\ UNCHANGED <<stack, code, enabled>>
        /\ \A u \in Threads \ {t} : todo'[u] = todo[u] /\ pc'[u] = pc[u]
        /\ pc'[t] # "after" /\ (Finish(t) \/ todo'[t] = <<>>)
    BY <1>15, <1>0 DEF TakeNode, InTransition
  <2>2. Watched(t)' => Watched(t)
    BY <1>15, <1>0, <2>1 DEF Watched, InHandler, TakeNode, InTransition
  <2>3. \A w \in Pending(t)' : w.var # "Arg0"
    BY <1>r, <2>1, PendingIs
  <2> QED
    BY <1>m, <2>1, <2>2, <2>3
<1>16. ASSUME NEW t \in Threads, SeeEndNode(t) PROVE ArgumentAll'
  <2>1. /\ pc[t] = "set" /\ todo[t] = <<>> /\ aux' = aux /\ UNCHANGED <<stack, code, enabled>>
        /\ \A u \in Threads \ {t} : todo'[u] = todo[u] /\ pc'[u] = pc[u]
        /\ pc'[t] # "after" /\ (Finish(t) \/ todo'[t] = <<>>)
    BY <1>16, <1>0 DEF SeeEndNode, InTransition, Finish
  <2>2. Watched(t)' => Watched(t)
    BY <1>16, <1>0, <2>1 DEF Watched, InHandler, SeeEndNode, InTransition, Finish
  <2>3. \A w \in Pending(t)' : w.var # "Arg0"
    BY <1>r, <2>1, PendingIs
  <2> QED
    BY <1>m, <2>1, <2>2, <2>3
<1>17. ASSUME NEW t \in Threads, Evaluates(t) PROVE ArgumentAll'
  <2>e. Evaluated(t)
    BY <1>17, EvaluateEffect
  <2>1. /\ pc[t] \in {"eval", "get"} /\ todo[t] = <<>> /\ aux' = aux /\ UNCHANGED <<stack, code, enabled>>
        /\ \A u \in Threads \ {t} : todo'[u] = todo[u] /\ pc'[u] = pc[u]
        /\ pc'[t] # "after" /\ (Finish(t) \/ todo'[t] = <<>>)
    BY <1>17, <1>0, <2>e DEF Evaluated, Decided, Finish
  <2>2. Watched(t)' => Watched(t)
    BY <2>e, <2>1 DEF Watched, InHandler, Evaluated, Decided, Finish
  <2>3. \A w \in Pending(t)' : w.var # "Arg0"
    BY <1>r, <2>1, PendingIs
  <2> QED
    BY <1>m, <2>1, <2>2, <2>3
<1>18. ASSUME NEW t \in Threads, AfterTransition(t) PROVE ArgumentAll'
  <2>1. /\ pc[t] = "finish" /\ todo[t] = <<>> /\ UNCHANGED <<code, enabled, aux>> /\ InHandler(t)
        /\ \A u \in Threads \ {t} : stack'[u] = stack[u] /\ todo'[u] = todo[u] /\ pc'[u] = pc[u]
    BY <1>18, <1>0 DEF AfterTransition, Resume, InHandler
  <2>2. CASE event[t].type = "FuncReturn" /\ WasEntered(t, event[t].func)
    <3>1. ArgumentOf(t)'
      BY <1>18, <1>0, <1>n, <2>1, <2>2, ArgumentReturn
    <3> QED
      BY <1>o, <2>1, <3>1
  <2>3. CASE ~(event[t].type = "FuncReturn" /\ WasEntered(t, event[t].func))
    <3>1. /\ pc'[t] # "after" /\ todo'[t] = <<>>
          /\ stack'[t] = IF event[t].type = "FuncReturn" THEN Pop(t) ELSE stack[t]
      BY <1>18, <1>0, <2>1, <2>3 DEF AfterTransition, Resume
    <3>2. \A f \in Funcs : Arguments(t, f) \subseteq Arguments(t, f)'
      <4>1. CASE event[t].type # "FuncReturn"
        BY <2>1, <3>1, <4>1, ArgumentsStay
      <4>2. CASE event[t].type = "FuncReturn"
        <5>1. /\ stack[t] # <<>> /\ Top(t).func = event[t].func /\ stack'[t] = Pop(t)
              /\ Top(t).func \in Funcs
          BY <1>0, <3>1, <4>2, StackFields DEF StackOf, TypeInv
        <5>2. ASSUME NEW i \in DOMAIN stack[t], stack[t][i].func = Top(t).func, stack[t][i].seen
              PROVE  FALSE
          <6>1. Cardinality(Frames(t, Top(t).func)) = Count("InFunc", t, Top(t).func)
            <7>1. CountOf(t) /\ Pending(t) = {}
              BY <2>1, PendingIs DEF CountInv
            <7> QED
              BY <2>1, <5>1, <7>1 DEF CountOf
          <6>2. Count("InFunc", t, Top(t).func) = 0
            BY <2>3, <4>2, <5>1, GetType DEF WasEntered, TypeInv, AuxInv
          <6>3. i \in Frames(t, Top(t).func)
            BY <1>0, <2>1, <5>2 DEF Frames
          <6>4. IsFiniteSet(Frames(t, Top(t).func))
            BY FramesFinite
          <6> QED
            BY <6>1, <6>2, <6>3, <6>4, FS_EmptySet
        <5> QED
          BY <2>1, <5>1, <5>2, ArgumentsPop
      <4> QED
        BY <4>1, <4>2
    <3>3. Pending(t)' = {} /\ Watched(t)
      BY <2>1, <3>1, PendingIs DEF Watched
    <3>4. ArgumentOf(t)'
      <4>1. ASSUME NEW e \in aux, e[1] = "Arg0", e[2] = t PROVE e[3] \in Funcs
        BY <1>0, <2>1, <4>1 DEF ArgumentOf
      <4> QED
        BY <1>0, <1>n, <2>1, <3>1, <3>2, <3>3, <4>1, ArgumentCalm
    <3> QED
      BY <1>o, <2>1, <3>4
  <2> QED
    BY <2>2, <2>3
<1>19. ASSUME NEW t \in Threads, LeaveFunction(t) PROVE ArgumentAll'
  <2>1. /\ pc[t] = "after" /\ todo[t] = <<>> /\ UNCHANGED <<code, enabled, aux, todo>> /\ Watched(t)
        /\ \A u \in Threads \ {t} : stack'[u] = stack[u] /\ pc'[u] = pc[u]
        /\ stack'[t] = Pop(t) /\ pc'[t] = "run"
    BY <1>19, <1>0 DEF LeaveFunction, Resume, InHandler, Watched
  <2>2. Pending(t) = {} /\ Pending(t)' = {} /\ stack[t] # <<>>
    BY <1>0, <2>1, PendingIs DEF StackOf
  <2>3. ASSUME NEW e \in aux, e[1] = "Arg0", e[2] = t, e[4] \in Arguments(t, e[3])
        PROVE  e[4] \in Arguments(t, e[3])'
    <3>0. \A d \in aux : ~(d[1] = "Arg0" /\ d[2] = t /\ d[3] = Top(t).func)
      <4>1. ArgumentOf(t)
        BY <1>0
      <4> QED
        BY <2>1, <2>2, <4>1 DEF ArgumentOf
    <3>1. e[3] # Top(t).func
      BY <2>3, <3>0
    <3>2. Arguments(t, e[3]) \subseteq Arguments(t, e[3])'
      BY <2>1, <2>2, <3>1, ArgumentsPop
    <3> QED
      BY <2>3, <3>2
  <2>4. ArgumentOf(t)'
    BY <1>0, <1>n, <2>1, <2>2, <2>3, ArgumentCalm
  <2> QED
    BY <1>o, <2>1, <2>4
<1>20. ASSUME Submit PROVE ArgumentAll'
  <2>1. /\ UNCHANGED <<aux, code, stack, todo, pc>> /\ (enabled' => enabled)
        /\ (NotStarted' => NotStarted)
    BY <1>20, <1>a DEF Submit, NotStarted, End
  <2> QED
    BY <1>0, <2>1, ArgumentKeep DEF ArgumentAll
<1>21. ASSUME ReadArg PROVE ArgumentAll'
  <2>1. /\ UNCHANGED <<aux, code, stack, todo, pc>> /\ (enabled' => enabled)
        /\ (NotStarted' => NotStarted)
    BY <1>21, <1>a DEF ReadArg, NotStarted, End
  <2> QED
    BY <1>0, <2>1, ArgumentKeep DEF ArgumentAll
<1>22. ASSUME EndScript PROVE ArgumentAll'
  <2>1. /\ UNCHANGED <<aux, code, stack, todo, pc>> /\ (enabled' => enabled)
        /\ (NotStarted' => NotStarted)
    BY <1>22, <1>a DEF EndScript, NotStarted, End
  <2> QED
    BY <1>0, <2>1, ArgumentKeep DEF ArgumentAll
<1>23. ASSUME RunUncontrolled PROVE ArgumentAll'
  <2>1. /\ UNCHANGED <<aux, code, stack, todo, pc>> /\ (enabled' => enabled)
        /\ (NotStarted' => NotStarted)
    BY <1>23, <1>a DEF RunUncontrolled, NotStarted, End
  <2> QED
    BY <1>0, <2>1, ArgumentKeep DEF ArgumentAll
<1>24. ASSUME Restart PROVE ArgumentAll'
  <2>1. /\ aux' = {} /\ todo' = todo /\ ~enabled' /\ \A u \in Threads : pc[u] = "ended" /\ pc'[u] = "run"
    BY <1>24 DEF Restart, Clear
  <2>2. ASSUME NEW u \in Threads PROVE ArgumentOf(u)'
    <3>1. Pending(u)' = {} /\ ~InHandler(u)'
      BY <1>0, <2>1, PendingIs DEF InHandler
    <3> QED
      BY <2>1, <3>1 DEF ArgumentOf
  <2> QED
    BY <2>2 DEF ArgumentAll
<1>25. ASSUME Terminated PROVE ArgumentAll'
  <2>1. /\ UNCHANGED <<aux, code, stack, todo, pc>> /\ (enabled' => enabled)
        /\ (NotStarted' => NotStarted)
    BY <1>25, <1>a DEF Terminated, NotStarted, End
  <2> QED
    BY <1>0, <2>1, ArgumentKeep DEF ArgumentAll
<1>26. CASE UNCHANGED vars
  <2>1. /\ UNCHANGED <<aux, code, stack, todo, pc>> /\ (enabled' => enabled)
        /\ (NotStarted' => NotStarted)
    BY <1>26, <1>a DEF NotStarted, End
  <2> QED
    BY <1>0, <2>1, ArgumentKeep DEF ArgumentAll
<1>27. QED
  BY <1>1, <1>2, <1>3, <1>4, <1>5, <1>6, <1>7, <1>8, <1>9, <1>10, <1>11, <1>12, <1>13,
     <1>14, <1>15, <1>16, <1>17, <1>18, <1>19, <1>20, <1>21, <1>22, <1>23, <1>24, <1>25,
     <1>26 DEF Next, SutSteps, HandlerSteps, ScriptSteps, Evaluates

\* EntryOf of a thread that neither handles an entry nor has reported one.
LEMMA EntryNone ==
  ASSUME NEW t \in Threads, event'[t].type # "FuncEnter",
         \A f \in Keys : <<"Enters", f>> \notin recent'[t]
  PROVE  EntryOf(t)'
BY DEF EntryOf

\* A thread outside the transition of an entry has not reported one.
LEMMA EntryOutside ==
  ASSUME NEW t \in Threads, EntryOf(t),
         pc[t] \notin {"set", "eval", "get"} \/ event[t].type # "FuncEnter"
  PROVE  \A f \in Keys : <<"Enters", f>> \notin recent[t]
<1>1. \A f : event[t] = [type |-> "FuncEnter", func |-> f] => event[t].type = "FuncEnter"
  OBVIOUS
<1>2. QED
  BY <1>1 DEF EntryOf

\* EntryOf of a thread that does nothing, or goes on with its transition.
LEMMA EntryKeep ==
  ASSUME TypeInv, NEW u \in Threads, EntryOf(u), event'[u] = event[u], recent'[u] = recent[u],
         stack'[u] = stack[u], todo'[u] = todo[u],
         pc'[u] = pc[u] \/ (pc[u] # "finish" /\ pc'[u] \in {"set", "eval", "get"}),
         \A e : e[2] = u => (e \in aux' <=> e \in aux)
  PROVE  EntryOf(u)'
<1>1. Pending(u)' = Pending(u) /\ Top(u)' = Top(u)
  BY PendingIs DEF Top
<1>2. <<"Arg0", u, Top(u).func, Top(u).arg>>[2] = u
  OBVIOUS
<1>3. event[u].type = "FuncEnter" /\ pc'[u] # "finish" => pc[u] # "finish"
  OBVIOUS
<1>4. /\ event'[u].type = "FuncEnter" => pc'[u] \in {"set", "eval", "get", "finish"}
      /\ \A f \in Keys : <<"Enters", f>> \in recent'[u] =>
           event'[u] = [type |-> "FuncEnter", func |-> f] /\ pc'[u] \in {"set", "eval", "get"}
  BY DEF EntryOf
<1>5. event'[u].type = "FuncEnter" /\ pc'[u] # "finish" =>
       /\ stack'[u] # <<>> /\ Top(u)'.func = event'[u].func
       /\ \A w \in Pending(u)' : w.var = "Arg0" => w = Put("Arg0", u, Top(u)'.func, Top(u)'.arg)
       /\ \/ Put("Arg0", u, Top(u)'.func, Top(u)'.arg) \in Pending(u)'
          \/ <<"Arg0", u, Top(u)'.func, Top(u)'.arg>> \in aux'
  BY <1>1, <1>2, <1>3 DEF EntryOf
<1>6. QED
  BY <1>4, <1>5 DEF EntryOf, Put, Write

\* EntryOf of a thread that writes what it has announced.
LEMMA EntryWrite ==
  ASSUME TypeInv, NEW t \in Threads, EntryOf(t), WriteAux(t)
  PROVE  EntryOf(t)'
<1>1. /\ todo[t] # <<>> /\ aux' = Written(Head(todo[t])) /\ todo'[t] = Tail(todo[t])
      /\ UNCHANGED <<pc, event, stack, recent>>
  BY DEF WriteAux, TypeInv, AuxInv
<1>2. Pending(t) = {Head(todo[t])} \cup Pending(t)'
  <2>1. todo[t] \in Seq(Writes)
    BY DEF TypeInv, AuxInv
  <2>2. Elems(todo[t]) = {Head(todo[t])} \cup Elems(Tail(todo[t]))
    BY <1>1, <2>1, ElemsTail
  <2>3. QED
    BY <1>1, <2>2, PendingIs
<1>3. PICK w, r : w = Head(todo[t]) /\ r = Top(t)
  OBVIOUS
<1>4. /\ aux' = Written(w) /\ Pending(t) = {w} \cup Pending(t)' /\ w \in Pending(t)
      /\ Top(t)' = r
  BY <1>1, <1>2, <1>3 DEF Top
<1> DEFINE p == Put("Arg0", t, r.func, r.arg)
           d == <<"Arg0", t, r.func, r.arg>>
<1>5. ASSUME event[t].type = "FuncEnter", pc[t] # "finish"
      PROVE  /\ \A x \in Pending(t)' : x.var = "Arg0" => x = p
             /\ p \in Pending(t)' \/ d \in aux'
  <2>1. /\ \A x \in Pending(t) : x.var = "Arg0" => x = p
        /\ p \in Pending(t) \/ d \in aux
    BY <1>3, <1>5 DEF EntryOf
  <2>2. CASE w.var = "Arg0"
    <3>1. w = p
      BY <1>4, <2>1, <2>2
    <3>2. w.op = "put" /\ <<w.var, w.tid, w.key, w.value>> = d
      BY <3>1 DEF Put, Write
    <3> QED
      BY <1>4, <2>1, <3>2 DEF Written
  <2>3. CASE w.var # "Arg0"
    <3>1. d \in aux => d \in aux'
      BY <1>4, <2>3 DEF Written
    <3>2. p # w
      BY <2>3 DEF Put, Write
    <3> QED
      BY <1>4, <2>1, <3>1, <3>2
  <2> QED
    BY <2>2, <2>3
<1>6. QED
  BY <1>1, <1>3, <1>4, <1>5 DEF EntryOf, Put, Write

\* Every step keeps EntryInv.
LEMMA EntryStep ==
  ASSUME TypeInv, EventInv, EntryInv, [Next]_vars PROVE EntryInv'
<1>0. /\ pc \in [Threads -> {"run", "set", "eval", "get", "finish", "after", "endTest", "ended"}]
      /\ event \in [Threads -> Handled] /\ enabled \in BOOLEAN
      /\ todo \in [Threads -> Seq(Writes)] /\ code \in [Threads -> Seq(Events)]
      /\ stack \in [Threads -> Seq([func : Funcs, arg : Values, seen : BOOLEAN])]
      /\ recent \in [Threads -> SUBSET (EventVars \X Keys)]
      /\ \A t \in Threads : todo[t] # <<>> => pc[t] \in {"set", "finish", "after"}
      /\ \A t \in Threads : EntryOf(t)
  BY DEF TypeInv, ScriptInv, AuxInv, SutInv, EntryInv
<1>o. ASSUME NEW t \in Threads, EntryOf(t)', aux' = aux \/ WriteAux(t),
             \A u \in Threads \ {t} : stack'[u] = stack[u] /\ event'[u] = event[u]
               /\ recent'[u] = recent[u] /\ todo'[u] = todo[u] /\ pc'[u] = pc[u]
      PROVE  EntryInv'
  <2>1. ASSUME NEW u \in Threads, u # t PROVE EntryOf(u)'
    <3>1. \A e : e[2] = u => (e \in aux' <=> e \in aux)
      BY <1>o, <2>1, AuxOthers
    <3> QED
      BY <1>0, <1>o, <2>1, <3>1, EntryKeep
  <2> QED
    BY <1>o, <2>1 DEF EntryInv
<1>r. ASSUME NEW t \in Threads, pc[t] = "run"
      PROVE  event[t].type # "FuncEnter" /\ \A f \in Keys : <<"Enters", f>> \notin recent[t]
  <2>1. event[t].type # "FuncEnter"
    BY <1>0, <1>r DEF EntryOf
  <2> QED
    BY <1>0, <2>1, EntryOutside
<1>h. ASSUME NEW t \in Threads, pc[t] = "run", NEW e, NEW ws, NEW entries, Handle(t, e, ws, entries),
             e.type # "FuncEnter", \A f \in Keys : <<"Enters", f>> \notin entries,
             \A u \in Threads \ {t} : stack'[u] = stack[u]
      PROVE  EntryInv'
  <2>1. /\ aux' = aux
        /\ \A u \in Threads \ {t} : todo'[u] = todo[u] /\ pc'[u] = pc[u] /\ event'[u] = event[u]
                                    /\ recent'[u] = recent[u]
    BY <1>0, <1>h DEF Handle
  <2>2. event'[t] \in {e, event[t]} /\ recent'[t] \subseteq recent[t] \cup entries
    BY <1>0, <1>h DEF Handle
  <2>3. EntryOf(t)'
    BY <1>h, <1>r, <2>2, EntryNone
  <2> QED
    BY <1>o, <1>h, <2>1, <2>3
<1>1. ASSUME NEW t \in Threads, MemRead(t) PROVE EntryInv'
  <2> DEFINE e == [type |-> "MemRead"]
             entries == {<<"Reads", Head(code[t]).addr>>}
  <2>1. /\ pc[t] = "run" /\ \E ws : Handle(t, e, ws, entries)
        /\ \A u \in Threads \ {t} : stack'[u] = stack[u]
    BY <1>1, <1>0 DEF MemRead
  <2>2. e.type # "FuncEnter" /\ \A f \in Keys : <<"Enters", f>> \notin entries
    OBVIOUS
  <2> HIDE DEF e, entries
  <2> QED
    BY <1>h, <2>1, <2>2
<1>2. ASSUME NEW t \in Threads, MemWrite(t) PROVE EntryInv'
  <2> DEFINE e == [type |-> "MemWrite"]
             entries == {<<"Writes", Head(code[t]).addr>>}
  <2>1. /\ pc[t] = "run" /\ \E ws : Handle(t, e, ws, entries)
        /\ \A u \in Threads \ {t} : stack'[u] = stack[u]
    BY <1>2, <1>0 DEF MemWrite
  <2>2. e.type # "FuncEnter" /\ \A f \in Keys : <<"Enters", f>> \notin entries
    OBVIOUS
  <2> HIDE DEF e, entries
  <2> QED
    BY <1>h, <2>1, <2>2
<1>3. ASSUME NEW t \in Threads, MemAccessBefore(t) PROVE EntryInv'
  <2> DEFINE e == [type |-> "MemAccessBefore"]
             entries == {}
  <2>1. /\ pc[t] = "run" /\ \E ws : Handle(t, e, ws, entries)
        /\ \A u \in Threads \ {t} : stack'[u] = stack[u]
    BY <1>3, <1>0 DEF MemAccessBefore
  <2>2. e.type # "FuncEnter" /\ \A f \in Keys : <<"Enters", f>> \notin entries
    OBVIOUS
  <2> HIDE DEF e, entries
  <2> QED
    BY <1>h, <2>1, <2>2
<1>4. ASSUME NEW t \in Threads, FuncCall(t) PROVE EntryInv'
  <2> DEFINE e == [type |-> "FuncCall"]
             entries == {}
  <2>1. /\ pc[t] = "run" /\ \E ws : Handle(t, e, ws, entries)
        /\ \A u \in Threads \ {t} : stack'[u] = stack[u]
    BY <1>4, <1>0 DEF FuncCall
  <2>2. e.type # "FuncEnter" /\ \A f \in Keys : <<"Enters", f>> \notin entries
    OBVIOUS
  <2> HIDE DEF e, entries
  <2> QED
    BY <1>h, <2>1, <2>2
<1>5. ASSUME NEW t \in Threads, FuncEnter(t) PROVE EntryInv'
  <2>0. PICK g, x : g = Head(code[t]).func /\ x = Head(code[t]).arg
    OBVIOUS
  <2>1. /\ pc[t] = "run" /\ code[t] # <<>> /\ Head(code[t]).type = "FuncEnter" /\ aux' = aux
        /\ \A u \in Threads \ {t} : todo'[u] = todo[u] /\ pc'[u] = pc[u] /\ event'[u] = event[u]
                                    /\ recent'[u] = recent[u] /\ stack'[u] = stack[u]
        /\ stack'[t] = Append(stack[t], [func |-> g, arg |-> x, seen |-> enabled])
    BY <1>5, <1>0, <2>0 DEF FuncEnter, Handle
  <2>2. CASE enabled
    <3> DEFINE a == Put("Enters", t, g, 1)
               b == Put("InFunc", t, g, Count("InFunc", t, g) + 1)
               c == Put("NumInFunc", t, g, Count("NumInFunc", t, g) + 1)
               p == Put("Arg0", t, g, x)
    <3>1. /\ pc'[t] = "set" /\ event'[t] = [type |-> "FuncEnter", func |-> g]
          /\ todo'[t] = <<a, b, c, p>>
          /\ recent'[t] = recent[t] \cup {<<"Enters", g>>}
      BY <1>5, <1>0, <2>0, <2>2 DEF FuncEnter, Handle
    <3>2. Pending(t)' = {a, b, c, p} /\ \A w \in {a, b, c, p} : w.var = "Arg0" => w = p
      <4>1. Pending(t)' = Elems(<<a, b, c, p>>)
        BY <3>1, PendingIs
      <4>2. a.var # "Arg0" /\ b.var # "Arg0" /\ c.var # "Arg0"
        BY DEF Put, Write
      <4> HIDE DEF a, b, c, p
      <4> QED
        BY <4>1, <4>2, ElemsFour
    <3>3. stack'[t] # <<>> /\ Top(t)' = [func |-> g, arg |-> x, seen |-> enabled]
      <4> DEFINE r == [func |-> g, arg |-> x, seen |-> enabled]
                 S == [func : Funcs, arg : Values, seen : BOOLEAN]
      <4>1. stack[t] \in Seq(S) /\ r \in S /\ stack'[t] = Append(stack[t], r)
        BY <1>0, <2>0, <2>1, EventFields DEF TypeInv
      <4> HIDE DEF r, S
      <4> SUFFICES stack'[t] # <<>> /\ stack'[t][Len(stack'[t])] = r
        BY DEF Top, r
      <4> QED
        BY <4>1
    <3>4. \A f \in Keys : <<"Enters", f>> \in recent'[t] => f = g
      BY <1>r, <2>1, <3>1
    <3>5. Top(t)'.func = g /\ Top(t)'.arg = x
      BY <3>3
    <3>6. p \in Pending(t)' /\ \A w \in Pending(t)' : w.var = "Arg0" => w = p
      BY <3>2
    <3> HIDE DEF a, b, c
    <3>7. EntryOf(t)'
      BY <3>1, <3>3, <3>4, <3>5, <3>6 DEF EntryOf, Put, Write
    <3> QED
      BY <1>o, <2>1, <3>7
  <2>3. CASE ~enabled
    <3>1. event'[t] = event[t] /\ recent'[t] = recent[t]
      BY <1>5, <1>0, <2>3 DEF FuncEnter, Handle
    <3>2. EntryOf(t)'
      BY <1>r, <2>1, <3>1, EntryNone
    <3> QED
      BY <1>o, <2>1, <3>2
  <2> QED
    BY <2>2, <2>3
<1>6. ASSUME NEW t \in Threads, FuncReturn(t) PROVE EntryInv'
  <2> DEFINE e == [type |-> "FuncReturn", func |-> Top(t).func]
             entries == {<<"Returns", Top(t).func>>}
  <2>1. /\ pc[t] = "run" /\ \E ws : Handle(t, e, ws, entries)
        /\ \A u \in Threads \ {t} : stack'[u] = stack[u]
    BY <1>6, <1>0 DEF FuncReturn
  <2>2. e.type # "FuncEnter" /\ \A f \in Keys : <<"Enters", f>> \notin entries
    OBVIOUS
  <2> HIDE DEF e, entries
  <2> QED
    BY <1>h, <2>1, <2>2
<1>7. ASSUME NEW t \in Threads, AtPc(t) PROVE EntryInv'
  <2> DEFINE e == [type |-> "AtPc"]
             entries == {<<"AtPc", NULL>>}
  <2>1. /\ pc[t] = "run" /\ \E ws : Handle(t, e, ws, entries)
        /\ \A u \in Threads \ {t} : stack'[u] = stack[u]
    BY <1>7, <1>0 DEF AtPc
  <2>2. e.type # "FuncEnter" /\ \A f \in Keys : <<"Enters", f>> \notin entries
    OBVIOUS
  <2> HIDE DEF e, entries
  <2> QED
    BY <1>h, <2>1, <2>2
<1>8. ASSUME NEW t \in Threads, EndInstrument(t) PROVE EntryInv'
  <2>1. /\ aux' = aux /\ \A u \in Threads \ {t} : todo'[u] = todo[u] /\ pc'[u] = pc[u] /\ event'[u] = event[u]
                                    /\ recent'[u] = recent[u] /\ stack'[u] = stack[u]
    BY <1>8, <1>0 DEF EndInstrument, Finish
  <2>2. event'[t].type # "FuncEnter" /\ recent'[t] \subseteq recent[t] /\ pc[t] = "run"
    BY <1>8, <1>0, <1>r DEF EndInstrument, Finish
  <2>3. EntryOf(t)'
    BY <1>r, <2>2, EntryNone
  <2> QED
    BY <1>o, <2>1, <2>3
<1>9. ASSUME NEW t \in Threads, ThreadEnd(t) PROVE EntryInv'
  <2>1. /\ aux' = aux /\ \A u \in Threads \ {t} : todo'[u] = todo[u] /\ pc'[u] = pc[u] /\ event'[u] = event[u]
                                    /\ recent'[u] = recent[u] /\ stack'[u] = stack[u]
    BY <1>9, <1>0 DEF ThreadEnd
  <2>2. event'[t].type # "FuncEnter" /\ recent'[t] \subseteq recent[t] /\ pc[t] = "run"
    BY <1>9, <1>0, <1>r DEF ThreadEnd
  <2>3. EntryOf(t)'
    BY <1>r, <2>2, EntryNone
  <2> QED
    BY <1>o, <2>1, <2>3
<1>10. ASSUME NEW t \in Threads, StartTest(t) PROVE EntryInv'
  <2>1. /\ UNCHANGED <<aux, event, recent, stack, todo>>
        /\ pc'[t] = pc[t] \/ (pc[t] # "finish" /\ pc'[t] \in {"set", "eval", "get"})
        /\ \A u \in Threads \ {t} : pc'[u] = pc[u]
    BY <1>10, <1>0 DEF StartTest
  <2>2. EntryOf(t)'
    BY <1>0, <2>1, EntryKeep
  <2> QED
    BY <1>o, <2>1, <2>2
<1>11. ASSUME NEW t \in Threads, EndTest(t) PROVE EntryInv'
  <2>1. /\ aux' = aux /\ \A u \in Threads \ {t} : todo'[u] = todo[u] /\ pc'[u] = pc[u] /\ event'[u] = event[u]
                                    /\ recent'[u] = recent[u] /\ stack'[u] = stack[u]
    BY <1>11, <1>0 DEF EndTest
  <2>2. event'[t].type # "FuncEnter" /\ recent'[t] \subseteq recent[t] /\ pc[t] = "run"
    BY <1>11, <1>0, <1>r DEF EndTest
  <2>3. EntryOf(t)'
    BY <1>r, <2>2, EntryNone
  <2> QED
    BY <1>o, <2>1, <2>3
<1>12. ASSUME NEW t \in Threads, InsertEndNode(t) PROVE EntryInv'
  <2>1. /\ aux' = aux /\ \A u \in Threads \ {t} : todo'[u] = todo[u] /\ pc'[u] = pc[u] /\ event'[u] = event[u]
                                    /\ recent'[u] = recent[u] /\ stack'[u] = stack[u]
    BY <1>12, <1>0 DEF InsertEndNode
  <2>2. pc[t] = "endTest" /\ event[t].type # "FuncEnter"
    BY <1>12, <1>0 DEF EntryOf, InsertEndNode
  <2>3. event'[t].type # "FuncEnter" /\ recent'[t] = recent[t]
    BY <1>12, <1>0, <2>2 DEF InsertEndNode
  <2>4. \A f \in Keys : <<"Enters", f>> \notin recent[t]
    BY <1>0, <2>2, EntryOutside
  <2>5. EntryOf(t)'
    BY <2>3, <2>4, EntryNone
  <2> QED
    BY <1>o, <2>1, <2>5
<1>13. ASSUME NEW t \in Threads, WriteAux(t) PROVE EntryInv'
  <2>1. \A u \in Threads \ {t} : todo'[u] = todo[u] /\ pc'[u] = pc[u] /\ event'[u] = event[u]
                                    /\ recent'[u] = recent[u] /\ stack'[u] = stack[u]
    BY <1>13, <1>0 DEF WriteAux
  <2>2. EntryOf(t)'
    BY <1>13, <1>0, EntryWrite
  <2> QED
    BY <1>13, <1>o, <2>1, <2>2
<1>14. ASSUME NEW t \in Threads, Return(t) PROVE EntryInv'
  <2>1. /\ aux' = aux /\ \A u \in Threads \ {t} : todo'[u] = todo[u] /\ pc'[u] = pc[u] /\ event'[u] = event[u]
                                    /\ recent'[u] = recent[u] /\ stack'[u] = stack[u]
    BY <1>14, <1>0 DEF Return, Resume, NoEvent
  <2>2. event[t].type # "FuncEnter"
    BY <1>14, <1>0 DEF EntryOf, Return, Resume, NoEvent
  <2>3. event'[t].type # "FuncEnter" /\ recent'[t] = recent[t]
    BY <1>14, <1>0, <2>2 DEF Return, Resume, NoEvent
  <2>4. \A f \in Keys : <<"Enters", f>> \notin recent[t]
    BY <1>0, <2>2, EntryOutside
  <2>5. EntryOf(t)'
    BY <2>3, <2>4, EntryNone
  <2> QED
    BY <1>o, <2>1, <2>5
<1>15. ASSUME NEW t \in Threads, TakeNode(t) PROVE EntryInv'
  <2>1. /\ UNCHANGED <<aux, event, recent, stack, todo>>
        /\ pc'[t] = pc[t] \/ (pc[t] # "finish" /\ pc'[t] \in {"set", "eval", "get"})
        /\ \A u \in Threads \ {t} : pc'[u] = pc[u]
    BY <1>15, <1>0 DEF TakeNode, InTransition
  <2>2. EntryOf(t)'
    BY <1>0, <2>1, EntryKeep
  <2> QED
    BY <1>o, <2>1, <2>2
<1>16. ASSUME NEW t \in Threads, SeeEndNode(t) PROVE EntryInv'
  <2>1. /\ aux' = aux /\ \A u \in Threads \ {t} : todo'[u] = todo[u] /\ pc'[u] = pc[u] /\ event'[u] = event[u]
                                  /\ recent'[u] = recent[u] /\ stack'[u] = stack[u]
        /\ event'[t] = event[t] /\ recent'[t] = {} /\ pc'[t] = "finish"
    BY <1>16, <1>0 DEF SeeEndNode, InTransition, Finish
  <2>2. EntryOf(t)'
    BY <2>1 DEF EntryOf
  <2> QED
    BY <1>o, <2>1, <2>2
<1>17. ASSUME NEW t \in Threads, Evaluates(t) PROVE EntryInv'
  <2>e. Evaluated(t)
    BY <1>17, EvaluateEffect
  <2>f. CASE Finish(t)
    <3>1. /\ aux' = aux /\ \A u \in Threads \ {t} : todo'[u] = todo[u] /\ pc'[u] = pc[u] /\ event'[u] = event[u]
                                    /\ recent'[u] = recent[u] /\ stack'[u] = stack[u]
          /\ event'[t] = event[t] /\ recent'[t] = {} /\ pc'[t] = "finish"
      BY <1>17, <1>0, <2>e, <2>f DEF Evaluated, Decided, Finish
    <3>2. EntryOf(t)'
      BY <3>1 DEF EntryOf
    <3> QED
      BY <1>o, <3>1, <3>2
  <2>g. CASE ~Finish(t)
    <3>1. /\ UNCHANGED <<aux, event, recent, stack, todo>>
          /\ pc'[t] = pc[t] \/ (pc[t] # "finish" /\ pc'[t] \in {"set", "eval", "get"})
          /\ \A u \in Threads \ {t} : pc'[u] = pc[u]
      BY <1>17, <1>0, <2>e, <2>g DEF Evaluated, Decided
    <3>2. EntryOf(t)'
      BY <1>0, <3>1, EntryKeep
    <3> QED
      BY <1>o, <3>1, <3>2
  <2> QED
    BY <2>f, <2>g
<1>18. ASSUME NEW t \in Threads, AfterTransition(t) PROVE EntryInv'
  <2>1. /\ aux' = aux /\ \A u \in Threads \ {t} : todo'[u] = todo[u] /\ pc'[u] = pc[u] /\ event'[u] = event[u]
                                    /\ recent'[u] = recent[u] /\ stack'[u] = stack[u]
    BY <1>18, <1>0 DEF AfterTransition, Resume, NoEvent
  <2>2. pc[t] = "finish"
    BY <1>18, <1>0 DEF EntryOf, AfterTransition, Resume, NoEvent
  <2>3. event'[t].type # "FuncEnter" /\ recent'[t] = recent[t]
    BY <1>18, <1>0, <2>2 DEF AfterTransition, Resume, NoEvent
  <2>4. \A f \in Keys : <<"Enters", f>> \notin recent[t]
    BY <1>0, <2>2, EntryOutside
  <2>5. EntryOf(t)'
    BY <2>3, <2>4, EntryNone
  <2> QED
    BY <1>o, <2>1, <2>5
<1>19. ASSUME NEW t \in Threads, LeaveFunction(t) PROVE EntryInv'
  <2>1. /\ aux' = aux /\ \A u \in Threads \ {t} : todo'[u] = todo[u] /\ pc'[u] = pc[u] /\ event'[u] = event[u]
                                    /\ recent'[u] = recent[u] /\ stack'[u] = stack[u]
    BY <1>19, <1>0 DEF LeaveFunction, Resume, NoEvent
  <2>2. pc[t] = "after" /\ event[t].type # "FuncEnter"
    BY <1>19, <1>0 DEF EntryOf, LeaveFunction, Resume, NoEvent
  <2>3. event'[t].type # "FuncEnter" /\ recent'[t] = recent[t]
    BY <1>19, <1>0, <2>2 DEF LeaveFunction, Resume, NoEvent
  <2>4. \A f \in Keys : <<"Enters", f>> \notin recent[t]
    BY <1>0, <2>2, EntryOutside
  <2>5. EntryOf(t)'
    BY <2>3, <2>4, EntryNone
  <2> QED
    BY <1>o, <2>1, <2>5
<1>20. ASSUME Submit PROVE EntryInv'
  <2>1. UNCHANGED <<aux, event, recent, stack, todo, pc>>
    BY <1>20 DEF Submit
  <2> QED
    BY <1>0, <2>1, EntryKeep DEF EntryInv
<1>21. ASSUME ReadArg PROVE EntryInv'
  <2>1. UNCHANGED <<aux, event, recent, stack, todo, pc>>
    BY <1>21 DEF ReadArg
  <2> QED
    BY <1>0, <2>1, EntryKeep DEF EntryInv
<1>22. ASSUME EndScript PROVE EntryInv'
  <2>1. UNCHANGED <<aux, event, recent, stack, todo, pc>>
    BY <1>22 DEF EndScript
  <2> QED
    BY <1>0, <2>1, EntryKeep DEF EntryInv
<1>23. ASSUME RunUncontrolled PROVE EntryInv'
  <2>1. UNCHANGED <<aux, event, recent, stack, todo, pc>>
    BY <1>23 DEF RunUncontrolled
  <2> QED
    BY <1>0, <2>1, EntryKeep DEF EntryInv
<1>24. ASSUME Restart PROVE EntryInv'
  <2>1. ASSUME NEW u \in Threads PROVE event'[u].type # "FuncEnter" /\ recent'[u] = {}
    BY <1>24 DEF Restart, NoEvent
  <2> QED
    BY <2>1, EntryNone DEF EntryInv
<1>25. ASSUME Terminated PROVE EntryInv'
  <2>1. UNCHANGED <<aux, event, recent, stack, todo, pc>>
    BY <1>25 DEF Terminated
  <2> QED
    BY <1>0, <2>1, EntryKeep DEF EntryInv
<1>26. CASE UNCHANGED vars
  <2>1. UNCHANGED <<aux, event, recent, stack, todo, pc>>
    BY <1>26 DEF vars
  <2> QED
    BY <1>0, <2>1, EntryKeep DEF EntryInv
<1>27. QED
  BY <1>1, <1>2, <1>3, <1>4, <1>5, <1>6, <1>7, <1>8, <1>9, <1>10, <1>11, <1>12, <1>13,
     <1>14, <1>15, <1>16, <1>17, <1>18, <1>19, <1>20, <1>21, <1>22, <1>23, <1>24, <1>25,
     <1>26 DEF Next, SutSteps, HandlerSteps, ScriptSteps, Evaluates

\* The script goes on when it reads an argument, when its node is consumed and when an
\* execution starts; until then a thread that was left in its transition stays there.
LEMMA NodeStep ==
  ASSUME TypeInv, [Next]_vars, node' = 0
  PROVE  \/ /\ node = 0 /\ tvar' = tvar
            /\ stmt' = stmt \/ (stmt' = stmt + 1 /\ Script[stmt].kind = "readArg")
            /\ \A u \in Threads :
                 pc[u] = "set" /\ todo[u] = <<>> /\ event[u].type = "FuncEnter" =>
                   pc'[u] = pc[u] /\ todo'[u] = todo[u] /\ event'[u] = event[u]
         \/ stmt' = 1
         \/ \E t \in Threads : Evaluates(t)
<1> DEFINE Q == \/ /\ node = 0 /\ tvar' = tvar
                   /\ stmt' = stmt \/ (stmt' = stmt + 1 /\ Script[stmt].kind = "readArg")
                   /\ \A u \in Threads :
                        pc[u] = "set" /\ todo[u] = <<>> /\ event[u].type = "FuncEnter" =>
                          pc'[u] = pc[u] /\ todo'[u] = todo[u] /\ event'[u] = event[u]
                \/ stmt' = 1
                \/ \E t \in Threads : Evaluates(t)
<1>0. /\ pc \in [Threads -> {"run", "set", "eval", "get", "finish", "after", "endTest", "ended"}]
      /\ event \in [Threads -> Handled] /\ todo \in [Threads -> Seq(Writes)]
      /\ node' = 0 /\ (holder # NULL => node > 0) /\ node \in {0, -1} \cup DOMAIN Script
      /\ DOMAIN Script \subseteq Nat \ {0} /\ stmt \in DOMAIN Script \cup {Len(Script) + 1}
  BY EventMonitorAssumption DEF TypeInv, ScriptInv, AuxInv, End
<1> SUFFICES Q
  OBVIOUS
<1>1. ASSUME NEW t \in Threads, MemRead(t) PROVE Q
  BY <1>1, <1>0 DEF MemRead, Handle
<1>2. ASSUME NEW t \in Threads, MemWrite(t) PROVE Q
  BY <1>2, <1>0 DEF MemWrite, Handle
<1>3. ASSUME NEW t \in Threads, MemAccessBefore(t) PROVE Q
  BY <1>3, <1>0 DEF MemAccessBefore, Handle
<1>4. ASSUME NEW t \in Threads, FuncCall(t) PROVE Q
  BY <1>4, <1>0 DEF FuncCall, Handle
<1>5. ASSUME NEW t \in Threads, FuncEnter(t) PROVE Q
  BY <1>5, <1>0 DEF FuncEnter, Handle
<1>6. ASSUME NEW t \in Threads, FuncReturn(t) PROVE Q
  BY <1>6, <1>0 DEF FuncReturn, Handle
<1>7. ASSUME NEW t \in Threads, AtPc(t) PROVE Q
  BY <1>7, <1>0 DEF AtPc, Handle
<1>8. ASSUME NEW t \in Threads, EndInstrument(t) PROVE Q
  BY <1>8, <1>0 DEF EndInstrument, Finish
<1>9. ASSUME NEW t \in Threads, ThreadEnd(t) PROVE Q
  BY <1>9, <1>0 DEF ThreadEnd
<1>10. ASSUME NEW t \in Threads, StartTest(t) PROVE Q
  BY <1>10, <1>0 DEF StartTest
<1>11. ASSUME NEW t \in Threads, EndTest(t) PROVE Q
  BY <1>11, <1>0 DEF EndTest
<1>12. ASSUME NEW t \in Threads, InsertEndNode(t) PROVE Q
  BY <1>12, <1>0 DEF InsertEndNode, End
<1>13. ASSUME NEW t \in Threads, WriteAux(t) PROVE Q
  BY <1>13, <1>0 DEF WriteAux
<1>14. ASSUME NEW t \in Threads, Return(t) PROVE Q
  BY <1>14, <1>0 DEF Return, Resume
<1>15. ASSUME NEW t \in Threads, TakeNode(t) PROVE Q
  <2>1. node > 0 /\ node' = node
    BY <1>15 DEF TakeNode
  <2>2. node = 0
    BY <1>0, <2>1
  <2> QED
    BY <2>1, <2>2
<1>16. ASSUME NEW t \in Threads, SeeEndNode(t) PROVE Q
  BY <1>16, <1>0 DEF SeeEndNode, End
<1>17. ASSUME NEW t \in Threads, Evaluates(t) PROVE Q
  <2>1. Evaluated(t)
    BY <1>17, EvaluateEffect
  <2> QED
    BY <1>17, <1>0, <2>1 DEF Evaluated, Decided, Finish
<1>18. ASSUME NEW t \in Threads, AfterTransition(t) PROVE Q
  BY <1>18, <1>0 DEF AfterTransition, Resume
<1>19. ASSUME NEW t \in Threads, LeaveFunction(t) PROVE Q
  BY <1>19, <1>0 DEF LeaveFunction, Resume
<1>20. ASSUME Submit PROVE Q
  BY <1>20, <1>0 DEF Submit
<1>21. ASSUME ReadArg PROVE Q
  BY <1>21, <1>0 DEF ReadArg
<1>22. ASSUME EndScript PROVE Q
  BY <1>22, <1>0 DEF EndScript, End
<1>23. ASSUME RunUncontrolled PROVE Q
  BY <1>23, <1>0 DEF RunUncontrolled, End
<1>24. ASSUME Restart PROVE Q
  BY <1>24, <1>0 DEF Restart
<1>25. ASSUME Terminated PROVE Q
  BY <1>25, <1>0 DEF Terminated
<1>26. CASE UNCHANGED vars
  BY <1>26, <1>0
<1>27. QED
  BY <1>1, <1>2, <1>3, <1>4, <1>5, <1>6, <1>7, <1>8, <1>9, <1>10, <1>11, <1>12, <1>13,
     <1>14, <1>15, <1>16, <1>17, <1>18, <1>19, <1>20, <1>21, <1>22, <1>23, <1>24, <1>25,
     <1>26 DEF Next, SutSteps, HandlerSteps, ScriptSteps, Evaluates

\* A literal ENTERS(f) that has the value True is evaluated by a thread entering f.
LEMMA PassEffect ==
  ASSUME TypeInv, EventInv, BoundInv, EntryInv, \A u \in Threads : LockedOf(u),
         NEW t \in Threads, Evaluates(t), Script[node].op = "AND",
         NEW f \in Funcs, EntersLiteral(Literal(t), f),
         lit'[t] = lit[t] + 1 \/ node' # node
  PROVE  Entering(t, f)
<1>1. holder = t /\ lit[t] \in Nat \ {0} /\ lit \in [Threads -> Nat \ {0}] /\ About(t) = t
      /\ pc[t] \in {"eval", "get"}
  <2>1. holder = t /\ pc[t] \in {"eval", "get"}
    BY DEF Evaluates, EvalIsSet, EvalGet, TypeInv, ScriptInv
  <2>2. holder # NULL
    BY <2>1, EventMonitorAssumption
  <2> QED
    BY <2>1, <2>2 DEF TypeInv, ScriptInv, BoundInv, About, EntersLiteral
<1>2. EvalIsSet(t)
  <2>1. pc[t] # "get"
    BY DEF LockedOf, EntersLiteral
  <2> QED
    BY <2>1 DEF Evaluates, EvalGet
<1>3. Advance(t, IsSet("Enters", t, f))
  BY <1>1, <1>2 DEF EvalIsSet, EntersLiteral
<1>4. CASE IsSet("Enters", t, f)
  <2>1. Shown("Enters", t, f) /\ f \in Keys
    BY <1>4, EventMonitorAssumption DEF IsSet, Entries, Shown, Keys
  <2>2. <<"Enters", f>> \in recent[t]
    BY <1>1, <2>1 DEF EventInv, EventOf, EventVars
  <2> QED
    BY <2>1, <2>2 DEF EntryInv, EntryOf, Entering
<1>5. CASE ~IsSet("Enters", t, f)
  <2> DEFINE v == IsSet("Enters", t, f) # Literal(t).neg
  <2>1. v = FALSE
    <3>1. Evaluated(t)
      BY EvaluateEffect
    <3>2. IsLiteral(Literal(t))
      BY <3>1, Statement DEF Evaluated, Literal
    <3>3. Literal(t).neg = FALSE
      BY <3>2 DEF EntersLiteral, IsLiteral
    <3>4. IsSet("Enters", t, f) = FALSE
      BY <1>5 DEF IsSet
    <3> QED
      BY <3>3, <3>4
  <2>2. Decide(t, FALSE)
    BY <1>3, <2>1 DEF Advance
  <2>3. node' = node /\ lit'[t] = 1
    BY <1>1, <2>2 DEF Decide, Consumes
  <2> QED
    BY <1>1, <2>3
<1> QED
  BY <1>4, <1>5

\* A selection that consumes its node has passed all its literals.
LEMMA SelectEffect ==
  ASSUME TypeInv, NEW t \in Threads, Evaluates(t), node' # node,
         Script[node].kind = "select", Script[node].op = "AND"
  PROVE  /\ lit[t] = Len(Script[node].lits) /\ stmt' = stmt + 1
         /\ tvar'[Script[node].bind] = t /\ pc'[t] = "set" /\ todo' = todo /\ event' = event
<1>1. PICK b : Advance(t, b)
  BY DEF Evaluates, EvalIsSet, EvalGet
<1>2. holder = t /\ node \in DOMAIN Script /\ Script[node].kind # "readArg" /\ event' = event
  BY EvaluateEffect DEF Evaluated
<1> DEFINE v == b # Literal(t).neg
           c == v /\ (Script[node].kind = "select" => EvalTerms(t, Script[node].all))
<1>3. v = (Script[node].op = "OR") \/ lit[t] = Len(Script[node].lits)
  BY <1>1 DEF Advance
<1>4. Decide(t, c)
  BY <1>1, <1>3 DEF Advance
<1>5. c
  BY <1>4 DEF Decide, Consumes
<1>6. v = TRUE
  BY <1>5
<1>7. lit[t] = Len(Script[node].lits)
  BY <1>3, <1>6
<1>8. Decide(t, TRUE)
  <2>1. c = TRUE
    BY <1>5, <1>6
  <2> HIDE DEF c
  <2> QED
    BY <1>4, <2>1
<1>9. Script[node].bind \in Vars /\ Script[node].bind # NULL
  <2>1. IsStatement(Script[node])
    BY <1>2, EventMonitorAssumption
  <2> QED
    BY <2>1, EventMonitorAssumption DEF IsStatement
<1> HIDE DEF v, c
<1>10. tvar'[Script[node].bind] = t
  BY <1>8, <1>9 DEF Decide, Consumes, TypeInv, ScriptInv, TVars
<1>11. pc'[t] = "set" /\ todo' = todo /\ stmt' = stmt + 1
  BY <1>8 DEF Decide, Consumes, Takes, TypeInv, ScriptInv
<1> QED
  BY <1>2, <1>7, <1>10, <1>11

\* Every step keeps SelectedInv.
LEMMA SelectedStep ==
  ASSUME TypeInv, EventInv, BoundInv, EntryInv, \A u \in Threads : LockedOf(u), SelectedInv,
         [Next]_vars
  PROVE  SelectedInv'
<1>0. /\ lit \in [Threads -> Nat \ {0}] /\ (\A t \in Threads : holder # t => lit[t] = 1)
      /\ stmt \in 1..(Len(Script) + 1) /\ Len(Script) \in Nat /\ DOMAIN Script = 1..Len(Script)
      /\ node \in {0, -1} \cup DOMAIN Script /\ tvar \in [TVars -> Tids] /\ NULL \notin Threads
      /\ node > 0 => node = stmt /\ Script[node].kind # "readArg"
  BY EventMonitorAssumption DEF TypeInv, ScriptInv, End
<1>1. ASSUME NEW t \in Threads, NEW f \in Funcs, holder' = t, Script[node'].op = "AND",
             NEW j \in 1..(lit'[t] - 1), EntersLiteral(Script[node'].lits[j], f)
      PROVE  Entering(t, f)'
  <2>1. CASE ~Evaluates(t) /\ holder = t
    <3>1. node' = node /\ lit'[t] = lit[t] /\ event'[t] = event[t]
      BY <2>1, EvaluatingKeep
    <3> QED
      BY <1>1, <2>1, <3>1 DEF SelectedInv, Entering
  <2>2. CASE ~Evaluates(t) /\ holder # t
    <3>1. TakeNode(t)
      BY <1>1, <2>2, EvaluatingKeep
    <3>2. lit'[t] = 1
      BY <1>0, <2>2, <3>1 DEF TakeNode
    <3> QED
      BY <1>1, <3>2
  <2>3. CASE Evaluates(t)
    <3>1. Evaluated(t) /\ ~Decided(t)
      BY <1>0, <1>1, <2>3, EvaluateEffect DEF Decided
    <3>2. node' = node /\ event' = event /\ lit'[t] \in {lit[t], lit[t] + 1} /\ holder = t
      BY <1>0, <3>1 DEF Evaluated
    <3>3. CASE j <= lit[t] - 1
      <4>1. j \in 1..(lit[t] - 1)
        BY <1>0, <1>1, <3>3
      <4> QED
        BY <1>1, <3>2, <4>1 DEF SelectedInv, Entering
    <3>4. CASE ~(j <= lit[t] - 1)
      <4>1. j = lit[t] /\ lit'[t] = lit[t] + 1
        BY <1>0, <1>1, <3>2, <3>4
      <4>2. EntersLiteral(Literal(t), f)
        BY <1>1, <3>2, <4>1 DEF Literal
      <4>3. Entering(t, f)
        BY <1>1, <2>3, <3>2, <4>1, <4>2, PassEffect
      <4> QED
        BY <3>2, <4>3 DEF Entering
    <3> QED
      BY <3>3, <3>4
  <2> QED
    BY <2>1, <2>2, <2>3
<1>2. ASSUME node' = 0, NEW h \in 1..(stmt' - 1), NEW f \in Funcs, SelectsEntry(h, f),
             \A k \in (h + 1)..(stmt' - 1) : Script[k].kind = "readArg"
      PROVE  /\ tvar'[Script[h].bind] \in Threads /\ pc'[tvar'[Script[h].bind]] = "set"
             /\ todo'[tvar'[Script[h].bind]] = <<>>
             /\ event'[tvar'[Script[h].bind]] = [type |-> "FuncEnter", func |-> f]
  <2>1. CASE stmt' = 1
    BY <1>2, <2>1
  <2>2. ASSUME NEW t \in Threads, Evaluates(t)
        PROVE  /\ tvar'[Script[h].bind] \in Threads /\ pc'[tvar'[Script[h].bind]] = "set"
               /\ todo'[tvar'[Script[h].bind]] = <<>>
               /\ event'[tvar'[Script[h].bind]] = [type |-> "FuncEnter", func |-> f]
    <3>1. Evaluated(t)
      BY <2>2, EvaluateEffect
    <3>2. /\ node \in DOMAIN Script /\ node = stmt /\ Script[node].kind # "readArg" /\ node' # node
          /\ holder = t /\ todo[t] = <<>> /\ lit[t] \in DOMAIN Script[node].lits
      BY <1>0, <1>2, <3>1 DEF Evaluated
    <3>3. stmt' = stmt + 1
      BY <1>0, <1>2, <3>1, <3>2 DEF Evaluated, Decided
    <3>4. h = node
      <4>1. CASE h < stmt
        <5>1. stmt \in (h + 1)..(stmt' - 1)
          BY <1>0, <1>2, <3>3, <4>1
        <5> QED
          BY <1>2, <3>2, <5>1
      <4> QED
        BY <1>0, <1>2, <3>2, <3>3, <4>1
    <3>5. /\ lit[t] = Len(Script[node].lits)
          /\ tvar'[Script[node].bind] = t /\ pc'[t] = "set" /\ todo' = todo /\ event' = event
      BY <1>2, <2>2, <3>2, <3>4, SelectEffect DEF SelectsEntry
    <3>6. PICK j \in DOMAIN Script[node].lits : EntersLiteral(Script[node].lits[j], f)
      BY <1>2, <3>4 DEF SelectsEntry
    <3>7. j \in 1..lit[t] /\ Script[node].op = "AND"
      BY <1>2, <3>2, <3>4, <3>5, <3>6, Statement DEF SelectsEntry
    <3>8. Entering(t, f)
      <4>1. CASE j = lit[t]
        <5>1. EntersLiteral(Literal(t), f)
          BY <3>6, <4>1 DEF Literal
        <5> QED
          BY <2>2, <3>2, <3>7, <5>1, PassEffect
      <4>2. CASE j # lit[t]
        <5>1. j \in 1..(lit[t] - 1)
          BY <1>0, <3>7, <4>2
        <5> QED
          BY <3>2, <3>6, <3>7, <5>1 DEF SelectedInv
      <4> QED
        BY <4>1, <4>2
    <3> QED
      BY <3>2, <3>4, <3>5, <3>8 DEF Entering
  <2>3. CASE /\ node = 0 /\ tvar' = tvar
             /\ stmt' = stmt \/ (stmt' = stmt + 1 /\ Script[stmt].kind = "readArg")
             /\ \A u \in Threads :
                  pc[u] = "set" /\ todo[u] = <<>> /\ event[u].type = "FuncEnter" =>
                    pc'[u] = pc[u] /\ todo'[u] = todo[u] /\ event'[u] = event[u]
    <3>1. h \in 1..(stmt - 1)
      <4>1. h # stmt
        <5>1. Script[h].kind # "readArg" \/ stmt' = stmt
          BY <1>2 DEF SelectsEntry
        <5> QED
          BY <1>0, <1>2, <2>3, <5>1
      <4> QED
        BY <1>0, <1>2, <2>3, <4>1
    <3>2. \A k \in (h + 1)..(stmt - 1) : Script[k].kind = "readArg"
      BY <1>0, <1>2, <2>3
    <3>3. PICK t : t = tvar[Script[h].bind]
      OBVIOUS
    <3>4. t \in Threads /\ pc[t] = "set" /\ todo[t] = <<>> /\ Entering(t, f)
      BY <1>2, <2>3, <3>1, <3>2, <3>3 DEF SelectedInv
    <3>5. event[t].type = "FuncEnter"
      BY <3>4 DEF Entering
    <3>6. pc'[t] = pc[t] /\ todo'[t] = todo[t] /\ event'[t] = event[t]
      BY <2>3, <3>4, <3>5
    <3> QED
      BY <2>3, <3>3, <3>4, <3>6 DEF Entering
  <2> QED
    BY <1>2, <2>1, <2>2, <2>3, NodeStep
<1>3. QED
  BY <1>1, <1>2 DEF SelectedInv, Entering, SelectsEntry, EntersLiteral

-----------------------------------------------------------------------------
\* The theorems.

\* The invariants that hold for all programs and scripts.
MonitorInv == TypeInv /\ EventInv /\ StackInv /\ CountInv

\* They hold in every reachable state.
LEMMA MonitorInvariant == Spec => []MonitorInv
<1>1. Init => MonitorInv
  <2> SUFFICES ASSUME Init PROVE MonitorInv
    OBVIOUS
  <2>0. \A t \in Threads : pc[t] = "run" /\ todo[t] = <<>> /\ event[t] = NoEvent
          /\ Pending(t) = {}
    BY PendingIs DEF Init
  <2>1. ScriptInv
    <3>1. enabled \in BOOLEAN /\ firstHeld \in BOOLEAN
      BY Zenon DEF Init
    <3>2. tvar \in [TVars -> Tids] /\ avar \in [Names -> Nat \cup {NULL}] /\ holder \in Tids
      BY DEF Init, Tids
    <3>3. stmt \in 1..(Len(Script) + 1) /\ node = 0 /\ node \in {0, End} \cup DOMAIN Script
      BY EventMonitorAssumption DEF Init
    <3>4. /\ pc \in [Threads -> {"run", "set", "eval", "get", "finish", "after", "endTest", "ended"}]
          /\ lit \in [Threads -> Nat \ {0}] /\ \A t \in Threads : lit[t] = 1
      BY DEF Init
    <3>5. holder = NULL /\ \A t \in Threads : holder # t
      BY EventMonitorAssumption DEF Init
    <3>6. \A t \in Threads : (pc[t] \in {"eval", "get"} <=> holder = t)
      BY <2>0, <3>5
    <3> QED
      BY <3>1, <3>2, <3>3, <3>4, <3>5, <3>6 DEF ScriptInv
  <2>2. AuxInv
    <3>1. NoEvent \in Handled
      BY DEF NoEvent, Handled
    <3> QED
      BY <3>1 DEF Init, AuxInv
  <2>3. SutInv
    BY EventMonitorAssumption DEF Init, SutInv
  <2>4. EventInv
    BY <2>0 DEF Init, EventInv, EventOf, Shown, Coming
  <2>5. StackInv
    <3> SUFFICES ASSUME NEW t \in Threads PROVE StackOf(t)
      BY DEF StackInv
    <3>1. Opened(t)
      BY <2>0, OpenedFirst DEF Init, NoEvent
    <3> QED
      BY <2>0, <3>1 DEF Init, StackOf, InHandler, NoEvent
  <2>6. CountInv
    BY <2>0 DEF Init, CountInv, CountOf, Shown, InHandler
  <2> QED
    BY <2>1, <2>2, <2>3, <2>4, <2>5, <2>6 DEF MonitorInv, TypeInv
<1>2. MonitorInv /\ [Next]_vars => MonitorInv'
  <2> SUFFICES ASSUME MonitorInv, [Next]_vars PROVE MonitorInv'
    OBVIOUS
  <2>1. TypeInv'
    BY TypeStep DEF MonitorInv
  <2>2. EventInv'
    BY EventStep DEF MonitorInv
  <2>3. StackInv'
    BY StackStep DEF MonitorInv
  <2>4. CountInv'
    BY CountStep DEF MonitorInv
  <2> QED
    BY <2>1, <2>2, <2>3, <2>4 DEF MonitorInv
<1>3. QED
  BY <1>1, <1>2, PTL DEF Spec

\* Every variable keeps its type, for all programs, scripts and threads; the count of
\* AuxState::InFunc never reaches zero or less while it is set.
THEOREM TypeCorrect == Spec => []TypeOK
<1>1. MonitorInv => TypeOK
  <2> SUFFICES ASSUME MonitorInv PROVE TypeOK
    OBVIOUS
  <2>1. \A e \in aux : /\ e[1] \in AuxVars /\ e[2] \in Tids /\ e[3] \in Keys
                      /\ e[4] \in Nat \ (IF e[1] = "Pc" THEN {} ELSE {0})
    BY DEF MonitorInv, TypeInv, AuxInv
  <2>2. QED
    BY <2>1 DEF MonitorInv, TypeInv, ScriptInv, TypeOK
<1>2. QED
  BY <1>1, MonitorInvariant, PTL

\* A predicate that is evaluated about the evaluating thread's own event sees exactly
\* what the thread has reported since its last transition, whatever other threads
\* write meanwhile, whenever the monitor is disabled, and in every execution.
THEOREM OwnEventCorrect == Spec => []OwnEventExact
<1>1. MonitorInv => OwnEventExact
  <2> SUFFICES ASSUME MonitorInv, NEW t \in Threads, pc[t] \in {"eval", "get"}
               PROVE  {<<e[1], e[3]>> : e \in {e \in aux : e[2] = t
                        /\ e[1] \in EventVars}} = recent[t]
    BY DEF OwnEventExact
  <2>1. Pending(t) = {} /\ EventOf(t)
    BY PendingIs DEF MonitorInv, TypeInv, AuxInv, EventInv
  <2>2. \A v \in EventVars, k \in Keys : <<v, k>> \in recent[t] <=> Shown(v, t, k)
    BY <2>1 DEF EventOf, Coming
  <2>3. recent[t] \subseteq EventVars \X Keys
          /\ aux \subseteq AuxVars \X Tids \X Keys \X Nat
    BY DEF MonitorInv, TypeInv, AuxInv, SutInv
  <2>4. ASSUME NEW e \in aux, e[2] = t, e[1] \in EventVars
        PROVE  <<e[1], e[3]>> \in recent[t]
    <3>1. e[3] \in Keys /\ Shown(e[1], t, e[3])
      BY <2>3, <2>4 DEF Shown
    <3>2. QED
      BY <2>2, <2>4, <3>1
  <2>5. ASSUME NEW x \in recent[t]
        PROVE  \E e \in aux : e[2] = t /\ e[1] \in EventVars /\ x = <<e[1], e[3]>>
    <3>1. PICK v \in EventVars, k \in Keys : x = <<v, k>>
      BY <2>3
    <3>2. Shown(v, t, k)
      BY <2>2, <2>5, <3>1
    <3>3. QED
      BY <3>1, <3>2 DEF Shown
  <2>6. QED
    BY <2>4, <2>5
<1>2. QED
  BY <1>1, MonitorInvariant, PTL

\* IN_FUNC counts exactly the frames a thread has entered under the monitor, for all
\* programs: nested and recursive calls, frames from before concurritStartTest, and
\* tests that end with threads inside functions.
THEOREM InFuncCorrect == Spec => []InFuncExact
<1>1. MonitorInv => InFuncExact
  <2> SUFFICES ASSUME MonitorInv, NEW t \in Threads, NEW f \in Funcs,
                      enabled \/ pc[t] \in {"eval", "get"},
                      ~(pc[t] = "set" /\ todo[t] # <<>>), pc[t] # "after"
               PROVE  Count("InFunc", t, f) =
                        Cardinality({i \in DOMAIN stack[t] : stack[t][i].func = f
                          /\ stack[t][i].seen})
    BY DEF InFuncExact
  <2>1. \A w \in Pending(t) : w.var # "InFunc"
    <3>1. CASE todo[t] = <<>>
      BY <3>1, PendingIs
    <3>2. CASE todo[t] # <<>>
      <4>1. pc[t] = "finish" /\ EventOf(t)
        BY <3>2 DEF MonitorInv, TypeInv, AuxInv, EventInv
      <4>2. \A w \in Pending(t) : w.var \in EventVars
        BY <4>1 DEF EventOf
      <4>3. QED
        BY <4>2 DEF EventVars
    <3>3. QED
      BY <3>1, <3>2
  <2>2. Cardinality(Frames(t, f)) = Count("InFunc", t, f)
    BY <2>1 DEF MonitorInv, CountInv, CountOf, InHandler
  <2>3. Frames(t, f) = {i \in DOMAIN stack[t] : stack[t][i].func = f /\ stack[t][i].seen}
    <3>1. DOMAIN stack[t] = 1..Len(stack[t])
      BY DEF MonitorInv, TypeInv, SutInv
    <3>2. QED
      BY <3>1 DEF Frames
  <2>4. QED
    BY <2>2, <2>3
<1>2. QED
  BY <1>1, MonitorInvariant, PTL

\* The asserts of the handlers and of the predicates hold for every script that
\* evaluates predicates only about Tid and variables it has bound before, when threads
\* report their end once and calls have a target.
THEOREM NoAbortCorrect ==
  ASSUME Scoped, ~EndsTwice, ~NoTarget
  PROVE  Spec => []NoAbort
<1>1. Init => BoundInv /\ EndInv /\ NoAbort
  <2> SUFFICES ASSUME Init PROVE BoundInv /\ EndInv /\ NoAbort
    OBVIOUS
  <2>1. \A t \in Threads : pc[t] = "run" /\ event[t] = NoEvent /\ Pending(t) = {}
    BY PendingIs DEF Init
  <2>2. QED
    BY <2>1 DEF Init, BoundInv, EndInv, EndOf, NoAbort, NoEvent
<1>2. MonitorInv /\ BoundInv /\ EndInv /\ NoAbort /\ [Next]_vars => (BoundInv
        /\ EndInv /\ NoAbort)'
  BY BoundStep, EndStep, AbortStep DEF MonitorInv
<1>3. QED
  BY <1>1, <1>2, MonitorInvariant, PTL DEF Spec

\* The invariants of the arguments hold with the others.
CallInv == MonitorInv /\ BoundInv /\ ArgumentInv /\ EntryInv

LEMMA CallInvariant == Spec => []CallInv
<1>1. Init => BoundInv /\ ArgumentInv /\ EntryInv
  <2> SUFFICES ASSUME Init PROVE BoundInv /\ ArgumentInv /\ EntryInv
    OBVIOUS
  <2>1. \A t \in Threads : pc[t] = "run" /\ event[t] = NoEvent /\ Pending(t) = {}
          /\ recent[t] = {} /\ ~enabled /\ aux = {}
    BY PendingIs DEF Init
  <2>2. BoundInv
    BY DEF Init, BoundInv
  <2>3. ArgumentInv
    BY <2>1 DEF ArgumentInv, ArgumentOf, LockedOf, InHandler
  <2>4. EntryInv
    BY <2>1 DEF EntryInv, EntryOf, NoEvent
  <2> QED
    BY <2>2, <2>3, <2>4
<1>2. MonitorInv /\ BoundInv /\ ArgumentInv /\ EntryInv /\ [Next]_vars
        => (BoundInv /\ ArgumentInv /\ EntryInv)'
  <2> SUFFICES ASSUME MonitorInv, BoundInv, ArgumentInv, EntryInv, [Next]_vars
               PROVE  (BoundInv /\ ArgumentInv /\ EntryInv)'
    OBVIOUS
  <2>1. BoundInv'
    BY BoundStep DEF MonitorInv
  <2>2. ArgumentAll'
    BY ArgumentStep DEF MonitorInv, ArgumentInv, ArgumentAll
  <2>3. \A t \in Threads : LockedOf(t)'
    BY LockedStep DEF MonitorInv, ArgumentInv
  <2>4. EntryInv'
    BY EntryStep DEF MonitorInv
  <2> QED
    BY <2>1, <2>2, <2>3, <2>4 DEF ArgumentInv, ArgumentAll
<1>3. QED
  BY <1>1, <1>2, MonitorInvariant, PTL DEF Spec, CallInv

\* A WITH_ARG0 binds its variable to the argument of a call that the thread of the
\* predicate is in or makes next, for all scripts and programs: whatever the other threads
\* enter, leave and write between isset and get.
THEOREM BoundCorrect == Spec => BoundToArgument
<1>1. CallInv /\ [Next]_vars =>
        [\A t \in Threads :
           /\ enabled /\ EvalGet(t) /\ Literal(t).var = "Arg0"
           /\ Literal(t).value \in Names /\ avar[Literal(t).value] = NULL
           => \E f \in Funcs : /\ Literal(t).key \in {f, NULL}
                               /\ avar'[Literal(t).value] \in Arguments(About(t), f)]_vars
  <2> SUFFICES ASSUME CallInv, NEW t \in Threads, enabled, EvalGet(t), Literal(t).var = "Arg0",
                      Literal(t).value \in Names, avar[Literal(t).value] = NULL
               PROVE  \E f \in Funcs : /\ Literal(t).key \in {f, NULL}
                                       /\ avar'[Literal(t).value] \in Arguments(About(t), f)
    OBVIOUS
  <2> DEFINE k == Literal(t).key
             u == About(t)
  <2>1. /\ LockedOf(t) /\ pc[t] = "get" /\ aborted = "none"
        /\ avar \in [Names -> Nat \cup {NULL}] /\ \A w \in Threads : ArgumentOf(w)
        /\ tvar \in [TVars -> Tids] /\ holder = t /\ holder # NULL
    BY EventMonitorAssumption
       DEF CallInv, MonitorInv, ArgumentInv, TypeInv, ScriptInv, EvalGet
  <2>2. u # NULL /\ IsSet("Arg0", u, k)
    BY <2>1 DEF LockedOf
  <2>3. u \in Threads
    <3>1. node \in DOMAIN Script /\ Script[node].kind # "readArg"
            /\ lit[t] \in DOMAIN Script[node].lits
      <4>1. /\ node \in {0, End} \cup DOMAIN Script /\ node > 0 /\ Script[node].kind # "readArg"
            /\ lit[t] \in Nat \ {0} /\ lit[t] <= Len(Script[node].lits)
        BY <2>1 DEF CallInv, MonitorInv, TypeInv, ScriptInv
      <4>2. node \in DOMAIN Script
        BY <4>1 DEF End
      <4> QED
        BY <4>1, <4>2, Statement
    <3>2. Literal(t).about \in TVars
      BY <3>1, Statement DEF Literal, IsLiteral
    <3> QED
      BY <2>1, <2>2, <3>2 DEF About, Tids
  <2>4. avar'[Literal(t).value] = Get("Arg0", u, k)
    BY <2>1 DEF EvalGet
  <2>5. PICK e \in Entries("Arg0", u) : (k = NULL \/ e[3] = k) /\ Get("Arg0", u, k) = e[4]
    BY <2>2 DEF Get, IsSet
  <2>6. e[3] \in Funcs /\ e[4] \in Arguments(u, e[3])
    BY <2>1, <2>3, <2>5 DEF ArgumentOf, Entries
  <2> QED
    BY <2>4, <2>5, <2>6
<1>2. QED
  BY <1>1, CallInvariant, PTL DEF Spec, BoundToArgument

\* A script that selects a thread entering f and then reads the thread's argument of f
\* gets the argument of the call it is about to make, in every execution: the selected
\* thread stays where it is until the next node, and its entry in Arg0 with it.
THEOREM SelectedCorrect ==
  ASSUME ReadsSelected
  PROVE  Spec => SelectedStays
<1>1. Init => SelectedInv
  <2> SUFFICES ASSUME Init PROVE SelectedInv
    OBVIOUS
  <2>1. holder = NULL /\ stmt = 1 /\ NULL \notin Threads
    BY EventMonitorAssumption DEF Init
  <2> QED
    BY <2>1 DEF SelectedInv
<1>2. CallInv /\ SelectedInv /\ [Next]_vars => SelectedInv'
  BY SelectedStep DEF CallInv, MonitorInv, ArgumentInv
<1>3. CallInv /\ SelectedInv /\ [Next]_vars =>
        [ReadArg /\ node = 0 =>
           LET t == tvar[Script[stmt].var] IN avar'[Script[stmt].bind] = Top(t).arg]_vars
  <2> SUFFICES ASSUME CallInv, SelectedInv, ReadArg, node = 0
               PROVE  avar'[Script[stmt].bind] = Top(tvar[Script[stmt].var]).arg
    OBVIOUS
  <2> DEFINE s == Script[stmt]
             t == tvar[s.var]
  <2>1. /\ stmt \in DOMAIN Script /\ s.kind = "readArg" /\ avar \in [Names -> Nat \cup {NULL}]
        /\ avar' = [avar EXCEPT ![s.bind] = Get("Arg0", t, s.func)]
        /\ stmt \in 1..(Len(Script) + 1) /\ Len(Script) \in Nat
    BY EventMonitorAssumption DEF CallInv, MonitorInv, TypeInv, ScriptInv, ReadArg
  <2>2. s.func \in Funcs /\ s.bind \in Names
    BY <2>1, EventMonitorAssumption DEF IsStatement
  <2>3. PICK h \in 1..(stmt - 1) :
          /\ SelectsEntry(h, s.func) /\ Script[h].bind = s.var
          /\ \A k \in (h + 1)..(stmt - 1) : Script[k].kind = "readArg"
    BY <2>1 DEF ReadsSelected
  <2>4. t \in Threads /\ pc[t] = "set" /\ todo[t] = <<>> /\ Entering(t, s.func)
    BY <2>2, <2>3 DEF SelectedInv
  <2>5. Top(t).func = s.func /\ <<"Arg0", t, s.func, Top(t).arg>> \in aux
    <3>1. EntryOf(t) /\ Pending(t) = {}
      BY <2>4, PendingIs DEF CallInv, EntryInv
    <3>2. event[t].type = "FuncEnter" /\ event[t].func = s.func
      BY <2>4 DEF Entering
    <3> QED
      BY <2>4, <3>1, <3>2 DEF EntryOf
  <2> DEFINE d == <<"Arg0", t, s.func, Top(t).arg>>
  <2>6. \A e \in aux : e[1] = "Arg0" /\ e[2] = t /\ e[3] = s.func => e = d
    BY <2>5 DEF CallInv, MonitorInv, CountInv
  <2>7. s.func # NULL
    BY <2>2, EventMonitorAssumption
  <2>8. d \in Entries("Arg0", t) /\ IsSet("Arg0", t, s.func)
    BY <2>5 DEF Entries, IsSet
  <2>9. Get("Arg0", t, s.func) = Top(t).arg
    <3>1. PICK e \in Entries("Arg0", t) : e[3] = s.func /\ Get("Arg0", t, s.func) = e[4]
      BY <2>7, <2>8 DEF Get, IsSet
    <3>2. e = d
      BY <2>6, <3>1 DEF Entries
    <3> QED
      BY <3>1, <3>2
  <2> QED
    BY <2>1, <2>2, <2>9
<1>4. QED
  BY <1>1, <1>2, <1>3, CallInvariant, PTL DEF Spec, SelectedStays
=============================================================================
