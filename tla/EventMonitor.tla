---------------------------- MODULE EventMonitor ----------------------------
(***************************************************************************)
(* The event monitor (pinmonitor.cpp, manual.cpp), the auxiliary state it  *)
(* keeps about every thread (AuxState) and the transition predicates the   *)
(* script states over that state (transpred.h, api.h).                     *)
(*                                                                         *)
(* A thread of the program under test reports an event, its handler writes *)
(* the auxiliary variables one after the other, and OnControlledTransition *)
(* evaluates the predicate of the published node over them.  Each write,   *)
(* each reset and each part of an evaluation is a step: the variables have *)
(* one lock each, the handlers none.  Rendezvous models how a thread gets  *)
(* hold of the node; here holder stands for that.                          *)
(*                                                                         *)
(* Arg1 is treated as Arg0 everywhere and CallsFrom as CallsTo: one        *)
(* variable stands for both.  The size of an access is not kept.           *)
(***************************************************************************)
EXTENDS Integers, Sequences, FiniteSets

CONSTANTS
  Threads,        \* coroutines of the program under test (tid() of each)
  Funcs, Addrs,   \* instrumented functions and memory addresses
  Values,         \* non-zero values of arguments
  Pcs,            \* values of concurritAtPc
  Vars,           \* the script's thread variables (TVAR)
  Names,          \* the script's value variables (AVAR)
  Script,         \* the script's statements
  Programs,       \* what the threads may do: sequences of events
  EndsTwice,      \* whether threads report their end themselves (remote/server.cpp)
  NoTarget,       \* whether a reported call has no target location (manual.cpp)
  NULL            \* the null pointer, no value, no key, and the default tid -1

EventVars == {"Reads", "Writes", "CallsTo", "Enters", "Returns", "AtPc"}
AuxVars == EventVars \cup {"Ends", "InFunc", "NumInFunc", "Arg0", "RetVal", "Pc"}
Keys == Funcs \cup Addrs \cup {NULL}
Tids == Threads \cup {NULL}

TID == "TID"    \* AuxState::Tid
TVars == Vars \cup {TID}

\* A thread expression: ANY_THREAD, BY(v) or NOT_BY(v), then "+ v" and "- v".
Terms == {"any", "by", "notBy", "plus", "minus"} \X (Vars \cup {NULL})

\* TP0..TP5 and TPInFunc: var at key of thread about, compared with value when
\* that is a value, matched with the variable value when that is a name.  A value 0
\* would be the undefined one, which is no value to compare with but one to be bound;
\* only pcs have another undefined value, -1.
IsLiteral(l) ==
  /\ l.var \in AuxVars /\ l.key \in Keys /\ l.about \in TVars /\ l.neg \in BOOLEAN
  /\ l.value \in Names \cup Values \cup Pcs \cup Nat \cup {NULL}
  /\ l.value = 0 => l.var = "Pc"

IsStatement(s) ==
  \/ /\ s.kind \in {"through", "until", "select"}
     /\ s.first \in Seq(Terms) /\ s.all \in Seq(Terms) \ {<<>>}
     /\ s.op \in {"AND", "OR"}
     /\ Len(s.lits) \in Nat \ {0} /\ DOMAIN s.lits = 1..Len(s.lits)
     /\ \A i \in DOMAIN s.lits : IsLiteral(s.lits[i])
     /\ s.bind \in Vars \cup (IF s.kind = "select" THEN {} ELSE {NULL})
  \/ s.kind = "readArg" /\ s.var \in Vars /\ s.func \in Funcs /\ s.bind \in Names

\* The events of the program under test.
Events ==
  [type : {"MemAccessBefore", "FuncReturn", "EndInstrument", "EndTest"}]
    \cup [type : {"MemRead", "MemWrite"}, addr : Addrs]
    \cup [type : {"FuncCall", "FuncEnter"}, func : Funcs, arg : Values]
    \cup [type : {"AtPc"}, pc : Pcs]

\* The frames that the first i events of p leave open.
Depth(p, i) ==
  Cardinality({j \in 1..i : p[j].type = "FuncEnter"})
    - Cardinality({j \in 1..i : p[j].type = "FuncReturn"})

\* Functions return in reverse order, all of them, and a called one is entered next.
Balanced(p) ==
  /\ Depth(p, Len(p)) = 0 /\ \A i \in DOMAIN p : Depth(p, i) >= 0
  /\ \A i \in DOMAIN p : p[i].type = "FuncCall" =>
       i < Len(p) /\ p[i + 1] = [p[i] EXCEPT !.type = "FuncEnter"]

ASSUME EventMonitorAssumption ==
  /\ Len(Script) \in Nat /\ DOMAIN Script = 1..Len(Script)
  /\ \A i \in DOMAIN Script : IsStatement(Script[i])
  /\ Values \subseteq Nat \ {0} /\ Pcs \subseteq Nat /\ TID \notin Vars
  /\ NULL \notin Threads \cup Funcs \cup Addrs \cup Vars \cup Names \cup Nat
  /\ EndsTwice \in BOOLEAN /\ NoTarget \in BOOLEAN
  /\ Programs \subseteq Seq(Events) /\ \A p \in Programs : Balanced(p)

VARIABLES
  aux,        \* AuxState: the set of <<variable, tid, key, value>> that are set
  tvar,       \* the thread of each thread variable, or NULL
  avar,       \* the value of each value variable, or NULL
  enabled,    \* PinMonitor::enabled_
  stmt,       \* the script's statement
  node,       \* published statement, 0 for none, -1 for the end node
  firstHeld,  \* TransitionConstraintFirst of the node has become True
  holder,     \* the thread that evaluates the node, or NULL
  pc,         \* control point of each thread
  event,      \* the event a thread is handling
  todo,       \* the writes to aux it has still to make there
  lit,        \* the literal it evaluates
  aborted,    \* "none", or the safe_assert that ended the process
  code,       \* what a thread has still to do
  stack,      \* its real call stack: records [func, arg, seen]
  recent      \* entries a thread has reported since its last transition

scriptVars == <<tvar, avar, stmt, node, firstHeld, holder>>
sutVars == <<code, stack, recent>>
vars == <<aux, tvar, avar, enabled, stmt, node, firstHeld, holder, pc, event, todo,
          lit, aborted, code, stack, recent>>

End == -1
NoEvent == [type |-> "none"]

Init ==
  /\ aux = {}
  /\ tvar = [v \in TVars |-> NULL]
  /\ avar = [x \in Names |-> NULL]
  /\ enabled = FALSE
  /\ stmt = 1 /\ node = 0 /\ firstHeld = FALSE /\ holder = NULL
  /\ pc = [t \in Threads |-> "run"]
  /\ event = [t \in Threads |-> NoEvent]
  /\ todo = [t \in Threads |-> <<>>]
  /\ lit = [t \in Threads |-> 1]
  /\ aborted = "none"
  /\ stack = [t \in Threads |-> <<>>]
  /\ recent = [t \in Threads |-> {}]
  /\ code \in [Threads -> Programs]

-----------------------------------------------------------------------------
\* Auxiliary variables (AuxVar0, AuxVar1).

Entries(v, t) == {e \in aux : e[1] = v /\ e[2] = t}
IsSet(v, t, k) == \E e \in Entries(v, t) : k = NULL \/ e[3] = k

\* NULL where the code has undef_value_.
Get(v, t, k) ==
  IF IsSet(v, t, k) THEN (CHOOSE e \in Entries(v, t) : k = NULL \/ e[3] = k)[4] ELSE NULL

Count(v, t, k) == IF IsSet(v, t, k) THEN Get(v, t, k) ELSE 0

\* The writes a handler makes, in order.  Setting the undefined value erases.
Write(op, v, t, k, x) == [op |-> op, var |-> v, tid |-> t, key |-> k, value |-> x]
Put(v, t, k, x) == Write("put", v, t, k, x)
Erase(v, t, k) == Write("erase", v, t, k, NULL)
ResetVar(v, t) == Write("reset", v, t, NULL, NULL)

Written(w) ==
  {e \in aux : e[1] # w.var \/ e[2] # w.tid \/ (w.op # "reset" /\ e[3] # w.key)}
    \cup (IF w.op = "put" THEN {<<w.var, w.tid, w.key, w.value>>} ELSE {})

\* Resetting a variable that has no entry is not a step.
Cleared(v, t) == IF Entries(v, t) = {} THEN <<>> ELSE <<ResetVar(v, t)>>

\* Mutant of Reset: it forgets Writes.
ResetButWrites(t) ==
  Cleared("Reads", t) \o Cleared("CallsTo", t) \o Cleared("Enters", t)
    \o Cleared("Returns", t) \o Cleared("AtPc", t)

\* Mutant of Reset: it resets Ends too.
ResetWithEnds(t) ==
  Cleared("Reads", t) \o Cleared("Writes", t) \o Cleared("CallsTo", t) \o Cleared("Enters", t)
    \o Cleared("Returns", t) \o Cleared("AtPc", t) \o Cleared("Ends", t)

\* AuxState::Reset.
Reset(t) ==
  Cleared("Reads", t) \o Cleared("Writes", t) \o Cleared("CallsTo", t) \o Cleared("Enters", t)
    \o Cleared("Returns", t) \o Cleared("AtPc", t)

\* Mutant of Clear: it forgets InFunc.
ClearButInFunc == aux' = {e \in aux : e[1] = "InFunc"}

\* AuxState::Clear.
Clear == aux' = {}

-----------------------------------------------------------------------------
\* The events of a thread.

At(t, l) == aborted = "none" /\ pc[t] = l
Idle(t, l) == At(t, l) /\ todo[t] = <<>>
Goto(t, l) == pc' = [pc EXCEPT ![t] = l]

Top(t) == stack[t][Len(stack[t])]
Pop(t) == SubSeq(stack[t], 1, Len(stack[t]) - 1)

Does(t, type) ==
  /\ At(t, "run") /\ code[t] # <<>> /\ Head(code[t]).type = type
  /\ code' = [code EXCEPT ![t] = Tail(@)]

\* A handler that finds the monitor disabled returns.  Otherwise it makes the
\* writes ws, then (for all but MemRead, MemWrite) OnControlledTransition.
Handle(t, e, ws, entries) ==
  /\ IF enabled
     THEN /\ Goto(t, "set")
          /\ event' = [event EXCEPT ![t] = e]
          /\ todo' = [todo EXCEPT ![t] = ws]
          /\ recent' = [recent EXCEPT ![t] = @ \cup entries]
     ELSE UNCHANGED <<pc, event, todo, recent>>
  /\ UNCHANGED <<aux, scriptVars, enabled, lit>>

\* FinishControlledTransition: AuxState::Reset(tid_).
Finish(t) ==
  /\ Goto(t, "finish")
  /\ todo' = [todo EXCEPT ![t] = Reset(t)]
  /\ recent' = [recent EXCEPT ![t] = {}]

MemRead(t) ==
  /\ Does(t, "MemRead")
  /\ LET a == Head(code[t]).addr IN
       Handle(t, [type |-> "MemRead"], <<Put("Reads", t, a, 1)>>, {<<"Reads", a>>})
  /\ UNCHANGED <<aborted, stack>>

MemWrite(t) ==
  /\ Does(t, "MemWrite")
  /\ LET a == Head(code[t]).addr IN
       Handle(t, [type |-> "MemWrite"], <<Put("Writes", t, a, 1)>>, {<<"Writes", a>>})
  /\ UNCHANGED <<aborted, stack>>

\* Reported after the reads and writes of the instruction.
MemAccessBefore(t) ==
  /\ Does(t, "MemAccessBefore")
  /\ Handle(t, [type |-> "MemAccessBefore"], <<>>, {})
  /\ UNCHANGED <<aborted, stack>>

\* CallsTo->set(addr, tid) passes the tid where the value belongs, and the
\* entry is made for the default thread -1.
FuncCall(t) ==
  /\ Does(t, "FuncCall")
  /\ LET e == Head(code[t]) IN
       Handle(t, [type |-> "FuncCall"],
              <<Put("CallsTo", NULL, e.func, 1), Put("Arg0", t, e.func, e.arg)>>, {})
  /\ aborted' = IF enabled /\ NoTarget THEN "pinmonitor.cpp:205" ELSE aborted
  /\ UNCHANGED stack

FuncEnter(t) ==
  /\ Does(t, "FuncEnter")
  /\ LET f == Head(code[t]).func
         x == Head(code[t]).arg
     IN /\ stack' = [stack EXCEPT ![t] = Append(@, [func |-> f, arg |-> x, seen |-> enabled])]
        /\ Handle(t, [type |-> "FuncEnter", func |-> f],
                  <<Put("Enters", t, f, 1),
                    Put("InFunc", t, f, Count("InFunc", t, f) + 1),
                    Put("NumInFunc", t, f, Count("NumInFunc", t, f) + 1),
                    Put("Arg0", t, f, x)>>, {<<"Enters", f>>})
  /\ UNCHANGED aborted

\* The thread returns from the function it is in.
FuncReturn(t) ==
  /\ Does(t, "FuncReturn")
  /\ stack[t] # <<>>
  /\ LET f == Top(t).func IN
       Handle(t, [type |-> "FuncReturn", func |-> f],
              <<Put("Returns", t, f, 1), Put("RetVal", t, f, 1)>>, {<<"Returns", f>>})
  /\ stack' = IF enabled THEN stack ELSE [stack EXCEPT ![t] = Pop(t)]
  /\ UNCHANGED aborted

AtPc(t) ==
  /\ Does(t, "AtPc")
  /\ Handle(t, [type |-> "AtPc"],
            <<Put("Pc", t, NULL, Head(code[t]).pc), Put("AtPc", t, NULL, 1)>>,
            {<<"AtPc", NULL>>})
  /\ UNCHANGED <<aborted, stack>>

\* concurritEndInstrument calls FinishControlledTransition outside a transition.
EndInstrument(t) ==
  /\ Does(t, "EndInstrument")
  /\ IF enabled
     THEN Finish(t) /\ event' = [event EXCEPT ![t] = [type |-> "EndInstrument"]]
     ELSE UNCHANGED <<pc, event, todo, recent>>
  /\ UNCHANGED <<aux, scriptVars, enabled, lit, aborted, stack>>

\* PinMonitor::ThreadEnd, called by Coroutine::Run when the thread's function
\* has returned; the function of a shadow thread has called it before.
ThreadEnd(t) ==
  /\ At(t, "run") /\ code[t] = <<>>
  /\ IF enabled
     THEN /\ Goto(t, "set")
          /\ event' = [event EXCEPT ![t] =
                 [type |-> IF EndsTwice /\ event[t].type # "ThreadEnd"
                           THEN "ThreadEnd" ELSE "LastEnd"]]
          /\ todo' = [todo EXCEPT ![t] = <<Put("Ends", t, NULL, 1)>>]
          /\ aborted' = IF IsSet("Ends", t, NULL) THEN "pinmonitor.cpp:305" ELSE aborted
     ELSE Goto(t, "ended") /\ UNCHANGED <<event, todo, aborted>>
  /\ UNCHANGED <<aux, scriptVars, enabled, lit, sutVars>>

-----------------------------------------------------------------------------
\* Writing: every set and reset holds the variable's write lock.

\* The literal a thread evaluates, and the thread it is about.
Literal(t) == Script[node].lits[lit[t]]
About(t) == tvar[Literal(t).about]

\* Mutant of ReadLocked: each of isset and get locks for itself.
NeverReadLocked(v) == FALSE

\* AuxVar0Pre and AuxVar1Pre hold the read lock over the whole evaluation.
ReadLocked(v) == \E t \in Threads : pc[t] = "get" /\ Literal(t).var = v

WriteAux(t) ==
  /\ aborted = "none" /\ todo[t] # <<>>
  /\ ~ReadLocked(Head(todo[t]).var)
  /\ aux' = Written(Head(todo[t]))
  /\ todo' = [todo EXCEPT ![t] = Tail(@)]
  /\ UNCHANGED <<scriptVars, enabled, pc, event, lit, aborted, sutVars>>

\* The handler is over.
Resume(t, l) ==
  /\ Goto(t, l)
  /\ event' = [event EXCEPT ![t] = IF @.type = "ThreadEnd" THEN @ ELSE NoEvent]

\* MemRead and MemWrite return: the transition is that of MemAccessBefore.
Return(t) ==
  /\ Idle(t, "set") /\ event[t].type \in {"MemRead", "MemWrite"}
  /\ Resume(t, "run")
  /\ UNCHANGED <<aux, scriptVars, enabled, todo, lit, aborted, sutVars>>

-----------------------------------------------------------------------------
\* OnControlledTransition.

\* ThreadVarExpr and NegThreadVarExpr hold of a variable that has no thread.
By(t, v) == tvar[v] = NULL \/ t = tvar[v]
NotBy(t, v) == tvar[v] = NULL \/ t # tvar[v]

EvalTerms(t, terms) ==
  LET eval[i \in 0..Len(terms)] ==
        IF i = 0 THEN TRUE
        ELSE LET v == terms[i][2] IN
             CASE terms[i][1] = "any"   -> TRUE
               [] terms[i][1] = "by"    -> By(t, v)
               [] terms[i][1] = "notBy" -> NotBy(t, v)
               [] terms[i][1] = "plus"  -> eval[i - 1] \/ By(t, v)
               [] terms[i][1] = "minus" -> eval[i - 1] /\ NotBy(t, v)
  IN eval[Len(terms)]

InTransition(t) == Idle(t, "set") /\ event[t].type \notin {"MemRead", "MemWrite"}

\* Takes the node and sets Tid.  Constraints come before the predicate of a
\* transition, and the first of them counts as true once it has held.  A thread
\* they keep out waits for another node.  The assertions evaluated before
\* them (ASSERT_ALL) end the execution and are in Rendezvous.
TakeNode(t) ==
  /\ InTransition(t) /\ node > 0 /\ holder = NULL
  /\ tvar' = [tvar EXCEPT ![TID] = t]
  /\ LET s == Script[node]
         first == firstHeld \/ EvalTerms(t, s.first)
     IN /\ firstHeld' = first
        /\ IF s.kind = "select" \/ (first /\ EvalTerms(t, s.all))
           THEN /\ holder' = t
                /\ Goto(t, "eval")
           ELSE UNCHANGED <<holder, pc>>
  /\ UNCHANGED <<aux, avar, stmt, node, enabled, event, todo, lit, aborted, sutVars>>

SeeEndNode(t) ==
  /\ InTransition(t) /\ node = End
  /\ Finish(t)
  /\ UNCHANGED <<aux, scriptVars, enabled, event, lit, aborted, code, stack>>

\* Mutant of Takes: a selected thread runs on.
TakesSelected(kind, b) == CASE kind = "through" -> TRUE [] kind = "until" -> ~b [] kind = "select" -> b

\* Whether the node is consumed and whether the thread leaves, when its
\* predicate has the value b.  OnTaken and OnConsumed set the statement's
\* thread variable, if it has one.
Consumes(b) == b
Takes(kind, b) == CASE kind = "through" -> TRUE [] kind = "until" -> ~b [] kind = "select" -> FALSE

Decide(t, b) ==
  LET s == Script[node] IN
  /\ holder' = NULL
  /\ IF Consumes(b)
     THEN node' = 0 /\ stmt' = stmt + 1 /\ firstHeld' = FALSE
     ELSE UNCHANGED <<node, stmt, firstHeld>>
  /\ tvar' = IF s.bind # NULL /\ (Consumes(b) \/ Takes(s.kind, b))
             THEN [tvar EXCEPT ![s.bind] = t] ELSE tvar
  /\ IF Takes(s.kind, b)
     THEN Finish(t)
     ELSE Goto(t, "set") /\ UNCHANGED <<todo, recent>>
  /\ lit' = [lit EXCEPT ![t] = 1]

\* NAryTransitionPredicate: b is the value of the literal.  The predicate of a
\* selection is the conjunction of the script's and its thread expression.
Advance(t, b) ==
  LET s == Script[node]
      v == b # Literal(t).neg
  IN IF v = (s.op = "OR") \/ lit[t] = Len(s.lits)
     THEN Decide(t, v /\ (s.kind = "select" => EvalTerms(t, s.all)))
     ELSE /\ lit' = [lit EXCEPT ![t] = @ + 1]
          /\ Goto(t, "eval")
          /\ UNCHANGED <<tvar, stmt, node, firstHeld, holder, todo, recent>>

\* isset of AuxVar0Pre and AuxVar1Pre; the whole of TPInFunc.  A thread variable
\* without a thread fails safe_notnull(tvar_->thread()).
EvalIsSet(t) ==
  /\ At(t, "eval")
  /\ aborted' = IF About(t) = NULL THEN "transpred.h:391" ELSE aborted
  /\ LET l == Literal(t)
         isset == IsSet(l.var, About(t), l.key)
     IN IF isset /\ l.value # NULL
        THEN /\ Goto(t, "get")
             /\ UNCHANGED <<tvar, stmt, node, firstHeld, holder, todo, recent, lit>>
        ELSE Advance(t, isset)
  /\ UNCHANGED <<aux, avar, enabled, event, code, stack>>

\* get: a name without a value takes it.
EvalGet(t) ==
  /\ At(t, "get")
  /\ LET l == Literal(t)
         got == Get(l.var, About(t), l.key)
         bound == IF l.value \in Names THEN avar[l.value] ELSE l.value
     IN /\ avar' = IF bound = NULL THEN [avar EXCEPT ![l.value] = got] ELSE avar
        /\ Advance(t, bound = NULL \/ bound = got)
  /\ UNCHANGED <<aux, enabled, event, aborted, code, stack>>

-----------------------------------------------------------------------------
\* After the transition.

\* Mutant of WasEntered: the count is decremented whatever it is.
AlwaysEntered(t, f) == TRUE

\* The early return of FuncReturn.
WasEntered(t, f) == Count("InFunc", t, f) > 0

\* FuncReturn leaves the function only now; it finds a zero count when the
\* thread entered before the monitor was enabled.
AfterTransition(t) ==
  /\ Idle(t, "finish")
  /\ LET e == event[t] IN
       IF e.type = "FuncReturn" /\ WasEntered(t, e.func)
       THEN /\ Goto(t, "after")
            /\ todo' = [todo EXCEPT ![t] =
                 <<LET c == Count("InFunc", t, e.func) - 1 IN
                     IF c = 0 THEN Erase("InFunc", t, e.func) ELSE Put("InFunc", t, e.func, c),
                   Erase("Arg0", t, e.func)>>]
            /\ UNCHANGED <<stack, event>>
       ELSE /\ Resume(t, IF e.type = "LastEnd" THEN "ended" ELSE "run")
            /\ stack' = IF e.type = "FuncReturn" THEN [stack EXCEPT ![t] = Pop(t)] ELSE stack
            /\ UNCHANGED todo
  /\ aborted' = IF event[t].type \in {"ThreadEnd", "LastEnd"} /\ ~IsSet("Ends", t, NULL)
                THEN "pinmonitor.cpp:311" ELSE aborted
  /\ UNCHANGED <<aux, scriptVars, enabled, lit, code, recent>>

LeaveFunction(t) ==
  /\ Idle(t, "after")
  /\ Resume(t, "run")
  /\ stack' = [stack EXCEPT ![t] = Pop(t)]
  /\ UNCHANGED <<aux, scriptVars, enabled, todo, lit, aborted, code, recent>>

-----------------------------------------------------------------------------
\* The script and the ends of a test.

\* concurritStartTest, once in an execution; the script waits for it.
StartTest(t) ==
  /\ At(t, "run") /\ ~enabled /\ node = 0 /\ stmt = 1
  /\ \A u \in Threads : pc[u] # "endTest"
  /\ enabled' = TRUE
  /\ UNCHANGED <<aux, scriptVars, pc, event, todo, lit, aborted, sutVars>>

\* concurritEndTest disables the monitor, then inserts the end node.
EndTest(t) ==
  /\ Does(t, "EndTest")
  /\ enabled' = FALSE
  /\ Goto(t, "endTest")
  /\ UNCHANGED <<aux, scriptVars, event, todo, lit, aborted, stack, recent>>

\* The end node comes when nobody evaluates; what happens when the code forces
\* it into the ref of a thread that does is a matter of Rendezvous.
InsertEndNode(t) ==
  /\ At(t, "endTest") /\ holder = NULL
  /\ node' = End
  /\ Goto(t, "run")
  /\ UNCHANGED <<aux, tvar, avar, stmt, firstHeld, holder, enabled, event, todo, lit, aborted, sutVars>>

Submit ==
  /\ aborted = "none" /\ enabled /\ node = 0 /\ stmt <= Len(Script)
  /\ Script[stmt].kind # "readArg"
  /\ node' = stmt
  /\ firstHeld' = (Script[stmt].first = <<>>)
  /\ UNCHANGED <<aux, tvar, avar, stmt, holder, enabled, pc, event, todo, lit,
                 aborted, sutVars>>

\* x = ARG0(v, f) of the script, between two nodes.
ReadArg ==
  /\ aborted = "none" /\ node \in {0, End} /\ stmt <= Len(Script)
  /\ Script[stmt].kind = "readArg"
  /\ LET s == Script[stmt] IN
       avar' = [avar EXCEPT ![s.bind] = Get("Arg0", tvar[s.var], s.func)]
  /\ stmt' = stmt + 1
  /\ UNCHANGED <<aux, tvar, node, firstHeld, holder, enabled, pc, event, todo, lit, aborted, sutVars>>

\* The script is over, or gives up waiting: EndWithSuccess or EndWithException
\* with the end node, then RunUncontrolled disables the monitor.
EndScript ==
  /\ aborted = "none" /\ (enabled \/ stmt > 1) /\ node # End /\ holder = NULL
  /\ node' = End
  /\ UNCHANGED <<aux, tvar, avar, stmt, firstHeld, holder, enabled, pc, event, todo, lit, aborted, sutVars>>

RunUncontrolled ==
  /\ aborted = "none" /\ node = End /\ enabled
  /\ enabled' = FALSE
  /\ UNCHANGED <<aux, scriptVars, pc, event, todo, lit, aborted, sutVars>>

\* Scenario::Start of the next execution, once JoinAllThreads has returned.
Restart ==
  /\ aborted = "none" /\ node = End /\ ~enabled
  /\ \A t \in Threads : pc[t] = "ended"
  /\ Clear
  /\ tvar' = [v \in TVars |-> NULL]
  /\ avar' = [x \in Names |-> NULL]
  /\ stmt' = 1 /\ node' = 0 /\ firstHeld' = FALSE /\ holder' = NULL
  /\ pc' = [t \in Threads |-> "run"]
  /\ event' = [t \in Threads |-> NoEvent]
  /\ recent' = [t \in Threads |-> {}]
  /\ code' \in [Threads -> Programs]
  /\ UNCHANGED <<enabled, todo, lit, aborted, stack>>

\* The process ends, an assertion failed, or nobody started the test.
Terminated ==
  /\ aborted # "none" \/ (~enabled /\ \A t \in Threads : pc[t] = "ended")
  /\ UNCHANGED vars

SutSteps(t) ==
  \/ MemRead(t) \/ MemWrite(t) \/ MemAccessBefore(t)
  \/ FuncCall(t) \/ FuncEnter(t) \/ FuncReturn(t)
  \/ AtPc(t) \/ EndInstrument(t) \/ ThreadEnd(t)
  \/ StartTest(t) \/ EndTest(t) \/ InsertEndNode(t)

HandlerSteps(t) ==
  \/ WriteAux(t) \/ Return(t)
  \/ TakeNode(t) \/ SeeEndNode(t)
  \/ EvalIsSet(t) \/ EvalGet(t)
  \/ AfterTransition(t) \/ LeaveFunction(t)

ScriptSteps == Submit \/ ReadArg \/ EndScript \/ RunUncontrolled \/ Restart

Next == (\E t \in Threads : SutSteps(t) \/ HandlerSteps(t)) \/ ScriptSteps \/ Terminated

Spec == Init /\ [][Next]_vars

-----------------------------------------------------------------------------
\* Properties.

\* Type correctness of every variable; counts of AuxState::InFunc are positive
\* (FuncReturn's safe_assert(c >= 0)).
TypeOK ==
  /\ \A e \in aux : /\ e[1] \in AuxVars /\ e[2] \in Tids /\ e[3] \in Keys
                   /\ e[4] \in Nat \ (IF e[1] = "Pc" THEN {} ELSE {0})
  /\ tvar \in [TVars -> Tids] /\ avar \in [Names -> Nat \cup {NULL}]
  /\ enabled \in BOOLEAN /\ firstHeld \in BOOLEAN /\ holder \in Tids
  /\ stmt \in 1..(Len(Script) + 1) /\ node \in {0, End} \cup DOMAIN Script
  /\ pc \in [Threads -> {"run", "set", "eval", "get", "finish", "after", "endTest", "ended"}]
  /\ \A t \in Threads : lit[t] \in Nat \ {0} /\ (pc[t] \in {"eval", "get"} <=> holder = t)

\* No safe_assert of the handlers or of the predicates fails: a predicate is
\* only evaluated about thread variables that have a thread, and Ends is not set
\* before a thread's end and still set after its last transition.
NoAbort == aborted = "none"

\* What an evaluation sees of the evaluating thread's own event is what that
\* thread reported since its last transition, and nothing older: neither an
\* earlier event nor one of an earlier execution.  CallsTo is left out: FuncCall
\* writes it for thread -1.
OwnEventExact ==
  \A t \in Threads : pc[t] \in {"eval", "get"} =>
    {<<e[1], e[3]>> : e \in {e \in aux : e[2] = t /\ e[1] \in EventVars}} = recent[t]

\* IN_FUNC tells the frames of a function a thread has entered while monitored,
\* through nested calls, entries made before concurritStartTest and earlier
\* executions, whenever the thread is not inside FuncEnter's or FuncReturn's own
\* writes and the monitor has not been disabled.
InFuncExact ==
  \A t \in Threads, f \in Funcs :
    /\ enabled \/ pc[t] \in {"eval", "get"}
    /\ ~(pc[t] = "set" /\ todo[t] # <<>>) /\ pc[t] # "after"
    => Count("InFunc", t, f) =
         Cardinality({i \in DOMAIN stack[t] : stack[t][i].func = f /\ stack[t][i].seen})

\* A script that has selected a thread at ENTERS(f) and then reads ARG0 gets the
\* argument of the call the thread is about to make: the selected thread stays
\* where it is until the script publishes another node.
SelectedStays ==
  [][ReadArg /\ node = 0 =>
       LET t == tvar[Script[stmt].var] IN avar'[Script[stmt].bind] = Top(t).arg]_vars

\* What AuxState::Arg0 may hold for f: the arguments of the frames of f that t has
\* entered while monitored, and that of a call it has reported and enters next.
Arguments(t, f) ==
  {x \in Values :
     \/ \E i \in DOMAIN stack[t] : stack[t][i] = [func |-> f, arg |-> x, seen |-> TRUE]
     \/ code[t] # <<>> /\ Head(code[t]) = [type |-> "FuncEnter", func |-> f, arg |-> x]}

\* A WITH_ARG0 over a variable without a value binds it to the argument of a call
\* of the thread the predicate is about, also when that is another, running thread
\* that is leaving the function: the read lock is held from isset to get.
BoundToArgument ==
  [][\A t \in Threads :
       /\ enabled /\ EvalGet(t) /\ Literal(t).var = "Arg0"
       /\ Literal(t).value \in Names /\ avar[Literal(t).value] = NULL
       => \E f \in Funcs : /\ Literal(t).key \in {f, NULL}
                           /\ avar'[Literal(t).value] \in Arguments(About(t), f)]_vars

-----------------------------------------------------------------------------
\* The inductive invariants behind these properties.

\* What a handler may write, and what it may be handling.
Writes ==
  [op : {"put"}, var : AuxVars, tid : Tids, key : Keys, value : Nat \ {0}]
    \cup [op : {"put"}, var : {"Pc"}, tid : Tids, key : Keys, value : Nat]
    \cup [op : {"erase", "reset"}, var : AuxVars, tid : Tids, key : Keys, value : {NULL}]

Handled ==
  [type : {"none", "MemRead", "MemWrite", "MemAccessBefore", "FuncCall", "AtPc",
           "EndInstrument", "ThreadEnd", "LastEnd"}]
    \cup [type : {"FuncEnter", "FuncReturn"}, func : Funcs]

\* A node is the script's statement, is held by the one thread that evaluates it,
\* and that thread is at one of its literals.
ScriptInv ==
  /\ tvar \in [TVars -> Tids] /\ avar \in [Names -> Nat \cup {NULL}]
  /\ enabled \in BOOLEAN /\ firstHeld \in BOOLEAN /\ holder \in Tids
  /\ stmt \in 1..(Len(Script) + 1) /\ node \in {0, End} \cup DOMAIN Script
  /\ pc \in [Threads -> {"run", "set", "eval", "get", "finish", "after", "endTest", "ended"}]
  /\ lit \in [Threads -> Nat \ {0}]
  /\ \A t \in Threads : (pc[t] \in {"eval", "get"} <=> holder = t)
  /\ \A t \in Threads : holder # t => lit[t] = 1
  /\ node > 0 => node = stmt /\ Script[node].kind # "readArg"
  /\ holder # NULL => node > 0 /\ lit[holder] <= Len(Script[node].lits)

\* The auxiliary state and the writes to it.  A thread writes only in a handler,
\* outside the evaluation of the node.
AuxInv ==
  /\ aux \subseteq AuxVars \X Tids \X Keys \X Nat
  /\ \A e \in aux : e[4] = 0 => e[1] = "Pc"
  /\ event \in [Threads -> Handled] /\ todo \in [Threads -> Seq(Writes)]
  /\ \A t \in Threads : todo[t] # <<>> => pc[t] \in {"set", "finish", "after"}

\* The program under test.
SutInv ==
  /\ code \in [Threads -> Seq(Events)]
  /\ stack \in [Threads -> Seq([func : Funcs, arg : Values, seen : BOOLEAN])]
  /\ recent \in [Threads -> SUBSET (EventVars \X Keys)]

TypeInv == ScriptInv /\ AuxInv /\ SutInv

\* The writes t has still to make.
Pending(t) == {todo[t][i] : i \in DOMAIN todo[t]}

\* Whether an event of t at k is in the auxiliary state, or about to be.
Shown(v, t, k) == \E e \in aux : e[1] = v /\ e[2] = t /\ e[3] = k
Coming(v, t, k) == \E w \in Pending(t) : w.op = "put" /\ w.var = v /\ w.key = k /\ w.tid = t

\* A thread writes its own entries or those of thread -1.  What is shown or about to
\* be is what it has reported; in the reset, all that is shown is still to be cleared.
EventOf(t) ==
  /\ \A w \in Pending(t) : w.tid \in {t, NULL}
  /\ pc[t] # "finish" =>
       /\ \A w \in Pending(t) : w.var \in EventVars => w.op = "put"
       /\ \A v \in EventVars, k \in Keys :
            <<v, k>> \in recent[t] <=> Shown(v, t, k) \/ Coming(v, t, k)
  /\ pc[t] = "finish" =>
       /\ recent[t] = {}
       /\ \A w \in Pending(t) : w.op = "reset" /\ w.var \in EventVars
       /\ \A v \in EventVars, k \in Keys : Shown(v, t, k) =>
            \E w \in Pending(t) : w.var = v /\ w.tid = t

EventInv == \A t \in Threads : EventOf(t)

\* A script that evaluates predicates only about Tid and about thread variables
\* that an earlier statement of it has bound.
Scoped ==
  \A i \in DOMAIN Script : Script[i].kind # "readArg" =>
    \A j \in DOMAIN Script[i].lits :
      LET v == Script[i].lits[j].about IN
      v = TID \/ \E h \in 1..(i - 1) : Script[h].kind # "readArg" /\ Script[h].bind = v

\* The statements done have bound their variables, and Tid is the evaluating thread.
BoundInv ==
  /\ \A i \in 1..(stmt - 1) :
       Script[i].kind # "readArg" /\ Script[i].bind # NULL => tvar[Script[i].bind] # NULL
  /\ holder # NULL => tvar[TID] = holder

\* Ends is set by a thread's last handler, and by nothing before it.
EndOf(t) ==
  /\ event[t].type # "ThreadEnd"
  /\ event[t].type # "LastEnd" => \A w \in Pending(t) : w.var # "Ends"
  /\ event[t].type # "LastEnd" /\ pc[t] # "ended" =>
       \A e \in aux : ~(e[1] = "Ends" /\ e[2] = t)
  /\ event[t].type = "LastEnd" =>
       /\ pc[t] \in {"set", "eval", "get", "finish"}
       /\ \A w \in Pending(t) : w.var = "Ends" => w.op = "put" /\ w.tid = t
       /\ (\E e \in aux : e[1] = "Ends" /\ e[2] = t)
            \/ (pc[t] = "set" /\ \E w \in Pending(t) : w.var = "Ends")

EndInv == \A t \in Threads : EndOf(t)

InHandler(t) == pc[t] \in {"set", "eval", "get", "finish", "after"}

\* concurritStartTest has not been called in this execution.
NotStarted ==
  ~enabled /\ node = 0 /\ stmt = 1 /\ \A t \in Threads : pc[t] # "endTest"

\* What a thread has left to do is the rest of a program that has opened the frames
\* of its stack; a return that is being handled still has its frame.
Opened(t) ==
  \E p \in Programs : \E i \in 0..Len(p) :
    /\ code[t] = SubSeq(p, i + 1, Len(p))
    /\ Len(stack[t]) = Depth(p, i) + IF event[t].type = "FuncReturn" THEN 1 ELSE 0

\* The frames entered before concurritStartTest are at the bottom of the stack.
StackOf(t) ==
  /\ Opened(t)
  /\ event[t].type = "LastEnd" \/ pc[t] = "ended" => code[t] = <<>>
  /\ event[t].type = "FuncReturn" =>
       InHandler(t) /\ stack[t] # <<>> /\ Top(t).func = event[t].func
  /\ pc[t] = "after" => event[t].type = "FuncReturn" /\ Top(t).seen
  /\ enabled \/ InHandler(t) =>
       \A i, j \in DOMAIN stack[t] : i < j /\ stack[t][i].seen => stack[t][j].seen
  /\ NotStarted => ~InHandler(t) /\ \A i \in DOMAIN stack[t] : ~stack[t][i].seen

StackInv == \A t \in Threads : StackOf(t)

\* The monitored frames of f that the monitor still counts.
Frames(t, f) ==
  {i \in 1..(IF pc[t] = "after" THEN Len(stack[t]) - 1 ELSE Len(stack[t])) :
     stack[t][i].func = f /\ stack[t][i].seen}

\* AuxState::InFunc is the number of frames, or is about to become it.
CountOf(t) ==
  /\ NotStarted => \A f \in Funcs : ~Shown("InFunc", t, f)
  /\ \A w \in Pending(t) : w.var = "InFunc" => w.op # "reset" /\ w.tid = t
  /\ enabled \/ InHandler(t) => \A f \in Funcs :
       /\ \A w \in Pending(t) : w.var = "InFunc" /\ w.key = f =>
            Cardinality(Frames(t, f)) = IF w.op = "put" THEN w.value ELSE 0
       /\ (\A w \in Pending(t) : ~(w.var = "InFunc" /\ w.key = f)) =>
            Cardinality(Frames(t, f)) = Count("InFunc", t, f)

CountInv ==
  /\ \A e, d \in aux : e[1] = d[1] /\ e[2] = d[2] /\ e[3] = d[3] => e = d
  /\ \A t \in Threads : CountOf(t)

\* What Arg0 holds and is about to hold is the argument of a call the thread is in, or
\* makes next; FuncReturn erases it before it leaves the function.
ArgumentOf(t) ==
  /\ NotStarted => \A e \in aux : ~(e[1] = "Arg0" /\ e[2] = t)
  /\ \A w \in Pending(t) : w.var = "Arg0" => w.tid = t /\ w.op # "reset"
  /\ enabled \/ InHandler(t) =>
       /\ \A e \in aux : e[1] = "Arg0" /\ e[2] = t => e[3] \in Funcs /\ e[4] \in Arguments(t, e[3])
       /\ \A w \in Pending(t) : w.var = "Arg0" /\ w.op = "put" =>
            w.key \in Funcs /\ w.value \in Arguments(t, w.key)
  /\ pc[t] = "after" =>
       /\ \A w \in Pending(t) : w.var = "Arg0" => w.op = "erase" /\ w.key = Top(t).func
       /\ (\E w \in Pending(t) : w.var = "Arg0")
            \/ \A e \in aux : ~(e[1] = "Arg0" /\ e[2] = t /\ e[3] = Top(t).func)

\* Between isset and get nobody writes the variable.
LockedOf(t) ==
  pc[t] = "get" =>
    /\ Literal(t).value # NULL
    /\ aborted = "none" =>
         About(t) # NULL /\ IsSet(Literal(t).var, About(t), Literal(t).key)

ArgumentInv == \A t \in Threads : ArgumentOf(t) /\ LockedOf(t)

\* ENTERS is reported in FuncEnter's own handler and no other; there the top frame
\* is the one that was entered, and Arg0 has or gets its argument.
EntryOf(t) ==
  /\ event[t].type = "FuncEnter" => pc[t] \in {"set", "eval", "get", "finish"}
  /\ \A f \in Keys : <<"Enters", f>> \in recent[t] =>
       event[t] = [type |-> "FuncEnter", func |-> f] /\ pc[t] \in {"set", "eval", "get"}
  /\ event[t].type = "FuncEnter" /\ pc[t] # "finish" =>
       /\ stack[t] # <<>> /\ Top(t).func = event[t].func
       /\ \A w \in Pending(t) : w.var = "Arg0" => w = Put("Arg0", t, Top(t).func, Top(t).arg)
       /\ \/ Put("Arg0", t, Top(t).func, Top(t).arg) \in Pending(t)
          \/ <<"Arg0", t, Top(t).func, Top(t).arg>> \in aux

EntryInv == \A t \in Threads : EntryOf(t)

\* The literal ENTERS(f) about the evaluating thread, and the statements that wait for
\* a thread to enter f.
EntersLiteral(l, f) ==
  l.var = "Enters" /\ l.key = f /\ l.about = TID /\ l.value = NULL /\ ~l.neg

SelectsEntry(i, f) ==
  /\ Script[i].kind = "select" /\ Script[i].op = "AND"
  /\ \E j \in DOMAIN Script[i].lits : EntersLiteral(Script[i].lits[j], f)

\* A script that reads the argument of f of a thread it has just selected entering f.
ReadsSelected ==
  \A i \in DOMAIN Script : Script[i].kind = "readArg" =>
    \E h \in 1..(i - 1) :
      /\ SelectsEntry(h, Script[i].func) /\ Script[h].bind = Script[i].var
      /\ \A k \in (h + 1)..(i - 1) : Script[k].kind = "readArg"

Entering(t, f) == event[t] = [type |-> "FuncEnter", func |-> f]

\* An evaluation that has passed ENTERS(f) is that of a thread entering f, and so is the
\* thread that was selected, until the script publishes another node.
SelectedInv ==
  /\ \A t \in Threads, f \in Funcs : holder = t /\ Script[node].op = "AND" =>
       \A j \in 1..(lit[t] - 1) : EntersLiteral(Script[node].lits[j], f) => Entering(t, f)
  /\ node = 0 => \A h \in 1..(stmt - 1), f \in Funcs :
       SelectsEntry(h, f) /\ (\A k \in (h + 1)..(stmt - 1) : Script[k].kind = "readArg") =>
         LET t == tvar[Script[h].bind] IN
         t \in Threads /\ pc[t] = "set" /\ todo[t] = <<>> /\ Entering(t, f)

=============================================================================
