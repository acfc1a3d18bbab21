---------------------------- MODULE MCSearchTree ----------------------------
(* Small instances of SearchTree for TLC. *)
EXTENDS SearchTree

Stmt(kind, info, scope, next) ==
  [kind |-> kind, info |-> info, scope |-> scope, next |-> next, nondet |-> FALSE]

CONSTANTS t1, t2

Nondet(stmt) == [stmt EXCEPT !.nondet = TRUE]

\* IF_STAR { run } ; CHOOSE_THREAD_BACKTRACK(t, (t1, t2)) ; IF_NDSTAR { run } ELSE { forall }
Nested == <<
  Stmt("choice", 1, {}, <<3, 2>>),
  Stmt("trans", 2, {}, <<3>>),
  Stmt("forall", 3, {t1, t2}, <<4>>),
  Nondet(Stmt("choice", 4, {}, <<6, 5>>)),
  Stmt("trans", 5, {}, <<7>>),
  Stmt("forall", 6, {t1, t2}, <<7>>)>>

\* The same with a condition and, at the end, an EXISTS.
WithExists == <<
  Stmt("choice", 1, {}, <<3, 2>>),
  Stmt("cond", 2, {}, <<4, 3>>),
  Stmt("forall", 3, {t1, t2}, <<4>>),
  Stmt("exists", 4, {}, <<5>>),
  Stmt("trans", 5, {}, <<6>>),
  Stmt("exists", 6, {t1, t2}, <<7>>)>>

\* for(2) WHILE_STAR { forall; run }: the same lines again.
Loop == <<
  Stmt("choice", 1, {}, <<7, 2>>),
  Stmt("forall", 2, {t1, t2}, <<3>>),
  Stmt("trans", 3, {}, <<4>>),
  Stmt("choice", 1, {}, <<7, 5>>),
  Stmt("forall", 2, {t1, t2}, <<6>>),
  Stmt("trans", 3, {}, <<7>>)>>

\* Two lines that both end in a choice without a body.
TwoStars == <<
  Stmt("choice", 1, {}, <<2, 2>>),
  Stmt("choice", 2, {}, <<3, 3>>)>>

\* Two selections, then a choice without a body.
TwoForalls == <<
  Stmt("forall", 1, {t1, t2}, <<2>>),
  Stmt("forall", 2, {t1, t2}, <<3>>),
  Stmt("choice", 3, {}, <<4, 4>>)>>

\* EXISTS; the first line of two again after the second.
StarAgain == <<
  Stmt("exists", 1, {t1, t2}, <<2>>),
  Stmt("choice", 2, {}, <<3, 5>>),
  Stmt("choice", 3, {}, <<4, 4>>),
  Stmt("choice", 2, {}, <<5, 5>>)>>

\* FORALL(t), which has no scope; run.
UnscopedRun == <<Stmt("forall", 1, {}, <<2>>), Stmt("trans", 2, {}, <<3>>)>>

\* The defaults of config.cpp, also with the tree in place of the stack.
Marking == {[keep |-> k, delete |-> TRUE, mark |-> TRUE] : k \in BOOLEAN}
\* ... with covered nodes left in the tree to be looked at.
Undeleted == {[keep |-> FALSE, delete |-> FALSE, mark |-> FALSE]}

\* Two scripts that nothing disturbs, under every setting, and two that everything
\* disturbs, under the defaults.
AllSearches == [script : {Nested, Loop}, config : ConfigTypes, faults : {{}}]
                 \cup [script : {WithExists, Loop}, config : Marking, faults : {Faults}]

\* The first two are searches of which SearchTreeProofs speaks.
ASSUME CalmUndisturbed ==
  \A search \in AllSearches : search.faults = {} => Calm(search.script, search.config, search.faults)

\* The same with the two stars, where DSLChoice's assertion fails: see the README.
TwoStarsSearches == [script : {TwoStars}, config : Marking, faults : {Faults}]

\* ... and where StackIsPath fails: threads that all end cover a selection whose
\* successors are open, and a mark covers a choice that is on the stack.
AllEndSearches == [script : {TwoForalls}, config : ConfigTypes, faults : {{"allEnd"}}]
MarkedSearches == [script : {StarAgain}, config : Marking, faults : {{}}]

UnscopedSearches == [script : {UnscopedRun}, config : Undeleted, faults : {{}}]

\* The undisturbed searches of AllSearches have a scope for every forall, and no exists.
ASSUME UndisturbedSearches == Searches = AllSearches => Exhaustible /\ RunsDiffer
=============================================================================
