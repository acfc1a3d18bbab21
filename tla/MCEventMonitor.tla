--------------------------- MODULE MCEventMonitor ---------------------------
(* Instances of EventMonitor for TLC. *)
EXTENDS EventMonitor, TLC

CONSTANTS t1, t2, fun, mem, tv1, tv2, av1, av2

Lit(var, key, value, about) ==
  [var |-> var, key |-> key, value |-> value, about |-> about, neg |-> FALSE]

Symmetry == Permutations(Threads)

AnyThread == <<<<"any", NULL>>>>

\* Waits for a thread at fun and reads its argument, waits for another thread at fun
\* with the same argument, runs the second until pc 1, or the first is inside fun
\* with whatever argument, and the first through a memory access or its end.
MCScript ==
  << [kind |-> "select", first |-> <<>>, all |-> AnyThread, op |-> "AND",
      lits |-> <<Lit("Enters", fun, NULL, TID)>>, bind |-> tv1],
     [kind |-> "readArg", var |-> tv1, func |-> fun, bind |-> av1],
     [kind |-> "select", first |-> <<>>, all |-> AnyThread \o <<<<"minus", tv1>>>>, op |-> "AND",
      lits |-> <<Lit("Enters", fun, NULL, TID), Lit("Arg0", fun, av1, TID)>>, bind |-> tv2],
     [kind |-> "through", first |-> <<>>, all |-> <<<<"by", tv1>>>>, op |-> "OR",
      lits |-> <<Lit("Reads", NULL, NULL, TID), Lit("Writes", NULL, NULL, TID),
                 Lit("Returns", NULL, NULL, TID), Lit("Ends", NULL, NULL, TID)>>, bind |-> NULL],
     [kind |-> "until", first |-> <<<<"notBy", tv1>>>>, all |-> AnyThread \o <<<<"plus", tv2>>>>, op |-> "AND",
      lits |-> <<Lit("AtPc", NULL, NULL, TID), Lit("Arg0", fun, av2, tv1),
                 [Lit("InFunc", fun, NULL, tv1) EXCEPT !.neg = TRUE]>>, bind |-> tv2] >>

\* The script meets the hypothesis of NoAbortCorrect.
ASSUME MCScriptIsScoped == Scoped

\* The script meets the hypothesis of SelectedCorrect.
ASSUME MCScriptReadsSelected == ReadsSelected

Access(type) == [type |-> type, addr |-> mem]
Enter(arg) == [type |-> "FuncEnter", func |-> fun, arg |-> arg]
Call(arg) == [Enter(arg) EXCEPT !.type = "FuncCall"]
Other(type) == [type |-> type]

\* A recursive function, one that reads and writes, and one that is called,
\* stops at pc 1 and whose instrumentation ends inside an instruction.
MCPrograms ==
  { << Enter(1), Enter(2), Other("FuncReturn"), Other("FuncReturn") >>,
    << Enter(1), Access("MemRead"), Access("MemWrite"), Other("MemAccessBefore"),
       Other("FuncReturn") >>,
    << Call(1), Enter(1), [type |-> "AtPc", pc |-> 1], Other("FuncReturn"),
       Access("MemRead"), Other("EndInstrument"), Other("EndTest") >> }

=============================================================================
