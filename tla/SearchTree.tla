----------------------------- MODULE SearchTree -----------------------------
(***************************************************************************)
(* The depth-first search of the execution tree.  A run of the script      *)
(* follows node_stack_ as far as it goes and then extends the tree; the    *)
(* end of a run hangs the end node into the tree, propagates coverage back *)
(* along the path, deletes what is covered and truncates the stack to the  *)
(* prefix the next run replays.                                            *)
(*                                                                         *)
(* Sequential: the interleavings that lead to each outcome of a statement  *)
(* (consumed by a thread, timeout, all threads ended) are in Rendezvous.   *)
(* A tree node is named by the child indices that lead to it from the      *)
(* root, which is <<>>; indices start at 1 where the code's start at 0.    *)
(***************************************************************************)
EXTENDS Integers, Sequences, FiniteSets

CONSTANTS
  Searches,     \* what to search: a script with its config and its faults
  Threads,      \* the threads that reach the script's statements
  MaxChildren   \* bound on the children of an unscoped forall node

\* config: KeepExecutionTree, DeleteCoveredSubtrees and MarkEndingBranchesCovered.
ConfigTypes == [keep : BOOLEAN, delete : BOOLEAN, mark : BOOLEAN]

\* What may disturb a search: a wait expires although a thread could consume; the
\* threads have all ended at a statement; the script throws ASSUME_FAILS between two
\* statements; a condition differs from one run to the next.
Faults == {"timeout", "allEnd", "assume", "flip"}

\* A statement: its kind, its static info (one for every line of the script), the scope
\* of a selection ({} means every thread), the statements that follow, the second of
\* two for the outcome true, and whether a choice is nondeterministic.
Statements == [kind : {"choice", "cond", "forall", "exists", "trans"}, info : Nat,
               scope : SUBSET Threads, next : Seq(Nat), nondet : BOOLEAN]

\* A script is its statements, a forward control flow graph.
ASSUME SearchAssumption ==
  /\ \A search \in Searches :
       LET s == search.script
       IN  /\ s \in Seq(Statements)
           /\ \A l \in 1..Len(s) :
                /\ Len(s[l].next) = IF s[l].kind \in {"choice", "cond"} THEN 2 ELSE 1
                /\ \A i \in 1..Len(s[l].next) : s[l].next[i] \in (l + 1)..(Len(s) + 1)
           /\ search.config \in ConfigTypes
           /\ search.faults \subseteq Faults
  /\ IsFiniteSet(Threads) /\ Threads # {}
  /\ MaxChildren \in Nat

Root == <<>>
EndNode == <<0>>
NoNode == <<-1>>
RootLoc == [node |-> Root, idx |-> 1]
EndLoc == [node |-> EndNode, idx |-> 1]

VARIABLES
  script,    \* the script of this search
  config,    \* the settings of this search
  faults,    \* what may disturb this search
  tree,      \* the live nodes: their statement, covered_ and children
  stack,     \* node_stack_: ChildLocs, a node and the index of a child
  index,     \* stack_index_: how much of the stack this run has followed
  at,        \* the statement the script is at
  waiting,   \* the statement's node is published and not yet consumed
  selected,  \* the thread the last consumed selection has selected
  reason,    \* the BacktrackReason that ended the script
  marked,    \* StaticChoiceInfo::covered_: <<static info, index>>
  pc,        \* "script", "end", "explore" or "terminated"
  trail,     \* history: the decisions of this run, thread names for selections
  executed,  \* history: the trails of the runs that reached the script's end
  failed     \* "none", or the safe_assert that ended the process

given == <<script, config, faults>>
vars == <<given, tree, stack, index, at, waiting, selected, reason, marked,
          pc, trail, executed, failed>>

\* The histories are kept for the searches whose runs are known in advance.
Undisturbed == faults = {}

Locs == 1..Len(script)
Exit == Len(script) + 1
Kind(l) == script[l].kind
Selections == {"forall", "exists"}
Answer == <<"no", "yes">>

\* The node classes' constructors.
NewNode(l, v) ==
  [stmt |-> l, covered |-> FALSE, value |-> v, vars |-> <<>>, tried |-> {},
   kids |-> CASE Kind(l) = "choice" -> <<"null", "null">>
              [] Kind(l) = "forall" -> <<>>
              [] OTHER              -> <<"null">>]

RootNode == [stmt |-> 0, covered |-> FALSE, value |-> FALSE, vars |-> <<>>,
             tried |-> {}, kids |-> <<"null">>]

NodeKind(n) == CASE n = Root -> "root" [] n = EndNode -> "end" [] OTHER -> Kind(tree[n].stmt)

Init ==
  /\ \E search \in Searches :
       script = search.script /\ config = search.config /\ faults = search.faults
  /\ tree = [n \in {Root} |-> RootNode]
  /\ stack = <<RootLoc>>
  /\ index = 1
  /\ at = 1
  /\ waiting = FALSE
  /\ selected = CHOOSE t \in Threads : TRUE
  /\ reason = "SUCCESS"
  /\ marked = {}
  /\ pc = "script"
  /\ trail = <<>>
  /\ executed = {}
  /\ failed = "none"

-----------------------------------------------------------------------------
\* The tree and the stack.

Below(n, m) == Len(n) <= Len(m) /\ SubSeq(m, 1, Len(n)) = n

\* delete node: the destructor deletes the children, the static end node excepted.
Delete(t, n) == [m \in {k \in DOMAIN t : ~Below(n, k)} |-> t[m]]

\* ChildLoc::get and ChildLoc::set.
Child(loc) == Append(loc.node, loc.idx)
Get(t, loc) == CASE t[loc.node].kids[loc.idx] = "null" -> NoNode
                 [] t[loc.node].kids[loc.idx] = "end"  -> EndNode
                 [] OTHER                              -> Child(loc)
Set(t, loc, v) == [t EXCEPT ![loc.node].kids[loc.idx] = v]

Last(s) == s[Len(s)]

\* The loc the run has reached, and the one the stack holds for the next statement;
\* with index 0 the statement's branch is not decided by the stack.
GetLastNodeInStack == stack[index]
GetNextNodeInStack == IF index < Len(stack) THEN stack[index + 1]
                      ELSE [node |-> Get(tree, Last(stack)), idx |-> 0]

\* child_covered: the end node is covered, a NULL child is not.
EndOrCovered(t, n, i) ==
  \/ t[n].kids[i] = "end"
  \/ t[n].kids[i] = "node" /\ t[Append(n, i)].covered

ChildCovered(t, n, i, m) ==
  \/ EndOrCovered(t, n, i)
  \/ n # Root /\ <<script[t[n].stmt].info, i>> \in m

\* Mutant of Covers: a forall does not wait for all threads of its scope.
CoversAnySize(t, n, C, m) ==
  t[n].covered \/ \A i \in DOMAIN t[n].kids \ C : ChildCovered(t, n, i, m)

\* ComputeCoverage of n, given that the children in C are covered and the branches
\* in m are marked.
ScopeOf(l) == IF script[l].scope = {} THEN Threads ELSE script[l].scope
Covers(t, n, C, m) ==
  \/ t[n].covered
  \/ /\ \A i \in DOMAIN t[n].kids \ C : ChildCovered(t, n, i, m)
     /\ n # Root /\ Kind(t[n].stmt) = "forall" => Len(t[n].kids) = Cardinality(ScopeOf(t[n].stmt))

\* AddToPath(ENDNODE(), 0): in the middle of the stack it goes under the node the
\* stack holds there; whatever the slot held is deleted.
AddEndToPath(t, s, k) ==
  LET s1 == IF k < Len(s) THEN SubSeq(s, 1, k + 1) ELSE s
  IN  [tree |-> Set(Delete(t, Child(Last(s1))), Last(s1), "end"),
       stack |-> Append(s1, EndLoc)]

\* DoBacktrack on a path that ends with the end node.  Coverage goes back along the
\* path as far as every node is covered once its child on the path is.
HighestCovered(p, high, m) ==
  LET cov(k) == Covers(p.tree, p.stack[k].node, {p.stack[k].idx}, m)
  IN  /\ \A k \in high..(Len(p.stack) - 1) : cov(k)
      /\ high > 1 => ~cov(high - 1)

\* Mutant of CoverTree: the parent of the deleted subtree keeps its pointer.
CoverTreeUnlinked(p, high) ==
  LET s == p.stack
      covered == {s[k].node : k \in high..(Len(s) - 1)}
  IN  IF config.delete /\ high \in 2..(Len(s) - 1)
      THEN Delete(p.tree, s[high].node)
      ELSE [n \in DOMAIN p.tree |-> [p.tree[n] EXCEPT !.covered = @ \/ n \in covered]]

\* The largest covered subtree gives way to the end node.
CoverTree(p, high) ==
  LET s == p.stack
      covered == {s[k].node : k \in high..(Len(s) - 1)}
  IN  IF config.delete /\ high \in 2..(Len(s) - 1)
      THEN Set(Delete(p.tree, s[high].node), s[high - 1], "end")
      ELSE [n \in DOMAIN p.tree |-> [p.tree[n] EXCEPT !.covered = @ \/ n \in covered]]

\* Mutant of TruncatedStack: one element too many is kept.
TruncatedStackLate(p, high) == SubSeq(p.stack, 1, high - 1)

\* TruncateNodeStack: the next run decides the branch at the uncovered node afresh.
TruncatedStack(p, high) == IF high > 1 THEN SubSeq(p.stack, 1, high - 2) ELSE <<>>

-----------------------------------------------------------------------------
\* Steps of the script.

Running == failed = "none" /\ pc = "script"
AtStatement(K) == Running /\ at \in Locs /\ Kind(at) \in K

Assert(cond, what) == failed' = IF cond THEN failed ELSE what

\* TRIGGER_BACKTRACK throws: RunTestCase catches it and calls EndWithSuccess.
Backtrack(r) ==
  /\ reason' = r
  /\ pc' = "end"
  /\ waiting' = FALSE
  /\ UNCHANGED <<given, stack, index, at, selected, marked, trail, executed>>

\* The node of the statement: the one in the tree, or a new one.
Here == Child(GetLastNodeInStack)
Existing == Here \in DOMAIN tree
HereNode(v) == IF Existing THEN tree[Here] ELSE NewNode(at, v)

\* The asserts on what the stack and the tree hold for the statement: nothing, or a
\* node of the statement's class, which is not covered.
SameKind ==
  IF Existing THEN GetNextNodeInStack.node = Here /\ Kind(tree[Here].stmt) = Kind(at)
  ELSE GetNextNodeInStack.node = NoNode
Usable == SameKind /\ ~HereNode(TRUE).covered

\* Mutant of AddToNodeStack: the loc is not pushed.
AddToNodeStackLost(loc) ==
  /\ index' = index + 1
  /\ UNCHANGED stack

AddToNodeStack(loc) ==
  /\ stack' = IF index = Len(stack) THEN Append(stack, loc) ELSE stack
  /\ index' = index + 1

\* OnConsumed and ReleaseRef(node, i): AddToPath, and the script goes on at l.
Consume(r, i, label, l) ==
  /\ tree' = Set([n \in DOMAIN tree \cup {Here} |-> IF n = Here THEN r ELSE tree[n]],
                 GetLastNodeInStack, "node")
  /\ AddToNodeStack([node |-> Here, idx |-> i])
  /\ waiting' = FALSE
  /\ at' = l
  /\ trail' = IF Undisturbed THEN Append(trail, label) ELSE trail
  /\ UNCHANGED <<given, reason, marked, pc, executed>>

CoveredBranches ==
  {i \in {1, 2} : \/ <<script[at].info, i>> \in marked
                  \/ Existing /\ EndOrCovered(tree, Here, i)}

\* The branch of a choice: the stack's; else true unless only false is left.
Branches ==
  CASE GetNextNodeInStack.idx # 0 -> {GetNextNodeInStack.idx}
    [] GetNextNodeInStack.idx = 0 /\ CoveredBranches = {} /\ script[at].nondet -> {1, 2}
    [] OTHER -> {IF CoveredBranches = {} \/ 1 \in CoveredBranches THEN 2 ELSE 1}

\* A choice or a condition computes its coverage again: its static info may say more now.
HereCovers == Existing /\ Covers(tree, Here, {}, marked)

ChoiceCovered ==
  /\ AtStatement({"choice", "cond"})
  /\ HereCovers
  /\ Assert(SameKind, "Statement")
  /\ tree' = [tree EXCEPT ![Here].covered = TRUE]
  /\ Backtrack("TREENODE_COVERED")

DSLChoice ==
  /\ AtStatement({"choice"})
  /\ ~HereCovers
  /\ \E i \in Branches :
       /\ Assert(SameKind /\ i \notin CoveredBranches, "Choice")
       /\ Consume(HereNode(FALSE), i, Answer[i], script[at].next[i])
  /\ UNCHANGED selected

CondValues == IF "flip" \in faults THEN BOOLEAN ELSE {TRUE}
CondIndex(v) == IF v THEN 2 ELSE 1

DSLConditional ==
  /\ AtStatement({"cond"})
  /\ ~HereCovers
  /\ Assert(Usable, "Statement")
  /\ \E v \in CondValues :
       /\ HereNode(v).value = v
       /\ Consume(HereNode(v), 1, Answer[CondIndex(v)], script[at].next[CondIndex(v)])
  /\ UNCHANGED selected

\* The condition is not what it was when the node was created.
ReplayFails ==
  /\ AtStatement({"cond"})
  /\ ~HereCovers
  /\ Assert(Usable, "Statement")
  /\ \E v \in CondValues : HereNode(v).value # v
  /\ Backtrack("REPLAY_FAILS")
  /\ UNCHANGED tree

\* A selection or a transition publishes its node.
Submit ==
  /\ AtStatement(Selections \cup {"trans"})
  /\ ~waiting
  /\ Assert(Usable, "Statement")
  /\ waiting' = TRUE
  /\ UNCHANGED <<given, tree, stack, index, at, selected, reason, marked, pc, trail, executed>>

\* A thread consumes a run-through or run-until node.
DSLTransition ==
  /\ AtStatement({"trans"})
  /\ waiting
  /\ Consume(HereNode(FALSE), 1, "run", script[at].next[1])
  /\ UNCHANGED <<selected, failed>>

InScope(t) == t \in ScopeOf(at)

\* add_or_get_child_index: by thread variable; without a scope every evaluation
\* makes a new variable.
VarIndex(r, t) ==
  IF script[at].scope # {} /\ \E i \in DOMAIN r.vars : r.vars[i] = t
  THEN CHOOSE i \in DOMAIN r.vars : r.vars[i] = t
  ELSE Len(r.vars) + 1
WithVar(r, t) ==
  IF VarIndex(r, t) <= Len(r.vars) THEN r
  ELSE [r EXCEPT !.vars = Append(@, t), !.kids = Append(@, "null")]

\* Mutant of MaySelect: a covered child is selected again.
MaySelectCovered(i) == GetNextNodeInStack.idx \in {0, i}

\* ForallThreadNode::CheckAndSelectThread accepts child i: the stack's, not covered.
MaySelect(i) ==
  /\ GetNextNodeInStack.idx \in {0, i}
  /\ ~(Existing /\ i \in DOMAIN tree[Here].kids /\ EndOrCovered(tree, Here, i))

\* A thread that satisfies the predicate evaluates a forall node and consumes it.
ForallSelect(t) ==
  LET r == HereNode(FALSE)
      i == VarIndex(r, t)
  IN /\ AtStatement({"forall"})
     /\ waiting
     /\ InScope(t)
     /\ i <= MaxChildren
     /\ MaySelect(i)
     /\ Consume(WithVar(r, t), i, t, script[at].next[1])
     /\ selected' = t
     /\ UNCHANGED failed

\* ... or is refused, which may have added a child.
ForallRefuse(t) ==
  LET i == VarIndex(HereNode(FALSE), t)
  IN /\ AtStatement({"forall"})
     /\ waiting
     /\ InScope(t)
     /\ i <= MaxChildren
     /\ ~MaySelect(i)
     /\ tree' = [tree EXCEPT ![Here] = WithVar(tree[Here], t)]
     /\ UNCHANGED <<given, stack, index, at, waiting, selected, reason, marked, pc,
                    trail, executed, failed>>

\* ExistsThreadNode::CheckAndSelectThread: a thread that was not tried before.
MayExist(t) == InScope(t) /\ ~(Existing /\ t \in tree[Here].tried)

ExistsSelect(t) ==
  /\ AtStatement({"exists"})
  /\ waiting
  /\ MayExist(t)
  /\ Consume(HereNode(FALSE), 1, "some", script[at].next[1])
  /\ selected' = t
  /\ UNCHANGED failed

Consumable ==
  CASE Kind(at) = "exists" -> \E t \in Threads : MayExist(t)
    [] Kind(at) = "forall" -> \E t \in Threads :
                                /\ InScope(t)
                                /\ VarIndex(HereNode(FALSE), t) <= MaxChildren
                                /\ MaySelect(VarIndex(HereNode(FALSE), t))
    [] OTHER -> TRUE

\* AcquireRefEx times out before the node is consumed.
Timeout ==
  /\ AtStatement(Selections \cup {"trans"})
  /\ waiting
  /\ "timeout" \in faults \/ ~Consumable
  /\ Backtrack("TIMEOUT")
  /\ UNCHANGED <<tree, failed>>

\* IsAllEnded before the statement, or when its wait times out.
ThreadsAllEnded ==
  /\ AtStatement(Selections \cup {"trans"})
  /\ "allEnd" \in faults
  /\ Backtrack("THREADS_ALLENDED")
  /\ UNCHANGED <<tree, failed>>

\* concurritEndTest: a thread inserts the end node itself (EndWithException) and
\* AcquireRefEx throws its backtrack.
EndTest ==
  /\ AtStatement(Selections \cup {"trans"})
  /\ "allEnd" \in faults
  /\ LET p == AddEndToPath(tree, stack, index)
     IN tree' = p.tree /\ stack' = p.stack /\ index' = Len(p.stack)
  /\ reason' = "THREADS_ALLENDED"
  /\ pc' = "end"
  /\ waiting' = FALSE
  /\ UNCHANGED <<given, at, selected, marked, trail, executed, failed>>

AssumeFails ==
  /\ Running
  /\ "assume" \in faults
  /\ ~waiting
  /\ Backtrack("ASSUME_FAILS")
  /\ UNCHANGED <<tree, failed>>

ScriptEnd ==
  /\ Running
  /\ at = Exit
  /\ reason' = "SUCCESS"
  /\ pc' = "end"
  /\ executed' = IF Undisturbed THEN executed \cup {trail} ELSE executed
  /\ UNCHANGED <<given, tree, stack, index, at, waiting, selected, marked, trail, failed>>

-----------------------------------------------------------------------------
\* EndWithSuccess.

Ending == failed = "none" /\ pc = "end"
LastParent == GetLastNodeInStack.node

\* "no way to cover it": a selection after which all threads have ended.
AfterAllEnded ==
  IF reason = "THREADS_ALLENDED" /\ NodeKind(LastParent) \in Selections
  THEN [tree EXCEPT ![LastParent].covered = TRUE] ELSE tree

\* The last consumed node is an uncovered exists: try another thread next time.
TryAnother == NodeKind(LastParent) = "exists" /\ ~AfterAllEnded[LastParent].covered

\* Mutant of EndExists: UpdateCoveredVars is left out.
EndExistsForgets ==
  /\ Ending
  /\ TryAnother
  /\ pc' = "explore"
  /\ UNCHANGED <<given, tree, stack, index, at, waiting, selected, reason, marked, trail,
                 executed, failed>>

EndExists ==
  /\ Ending
  /\ TryAnother
  /\ tree' = [tree EXCEPT ![LastParent].tried = @ \cup {selected}]
  /\ pc' = "explore"
  /\ UNCHANGED <<given, stack, index, at, waiting, selected, reason, marked, trail, executed,
                 failed>>

\* A branch that goes straight to the end of the script is marked in its static info.
MarkBranch ==
  IF reason = "SUCCESS" /\ config.mark /\ NodeKind(LastParent) = "choice"
  THEN {<<script[tree[LastParent].stmt].info, GetLastNodeInStack.idx>>} ELSE {}

\* The path with its end node, which a thread may have inserted already.
CompletePath == IF LastParent = EndNode THEN [tree |-> tree, stack |-> stack]
                ELSE AddEndToPath(AfterAllEnded, stack, index)

EndBacktrack ==
  /\ Ending
  /\ ~TryAnother
  /\ marked' = marked \cup MarkBranch
  /\ \E p \in {CompletePath} : \E high \in 1..Len(p.stack) :
       /\ HighestCovered(p, high, marked \cup MarkBranch)
       /\ tree' = CoverTree(p, high)
       /\ stack' = TruncatedStack(p, high)
       /\ index' = Len(TruncatedStack(p, high))
  /\ pc' = "explore"
  /\ UNCHANGED <<given, at, waiting, selected, reason, trail, executed, failed>>

-----------------------------------------------------------------------------
\* Explore: Backtrack asks whether the root is covered; Start restarts the tree
\* (RestartChildIndexStack).

RootCovered ==
  /\ failed = "none" /\ pc = "explore"
  /\ tree[Root].covered
  /\ pc' = "terminated"
  /\ UNCHANGED <<given, tree, stack, index, at, waiting, selected, reason, marked, trail,
                 executed, failed>>

Restart ==
  /\ failed = "none" /\ pc = "explore"
  /\ ~tree[Root].covered
  /\ stack' = IF config.keep THEN <<RootLoc>> ELSE stack
  /\ index' = 1
  /\ at' = 1
  /\ trail' = <<>>
  /\ reason' = "SUCCESS"
  /\ pc' = "script"
  /\ Assert(stack # <<>> /\ stack[1] = RootLoc, "Restart")
  /\ UNCHANGED <<given, tree, waiting, selected, marked, executed>>

Stopped == failed # "none" \/ pc = "terminated"

Step ==
  \/ ChoiceCovered \/ DSLChoice \/ DSLConditional \/ ReplayFails
  \/ Submit \/ DSLTransition
  \/ \E t \in Threads : ForallSelect(t) \/ ForallRefuse(t) \/ ExistsSelect(t)
  \/ Timeout \/ ThreadsAllEnded \/ EndTest \/ AssumeFails \/ ScriptEnd
  \/ EndExists \/ EndBacktrack \/ RootCovered \/ Restart

Next == Step \/ (Stopped /\ UNCHANGED vars)

\* Main keeps running; a wait ends because a thread consumes or the timer does.
Spec == Init /\ [][Next]_vars
FairSpec == Spec /\ WF_vars(Step)

-----------------------------------------------------------------------------
Reasons == {"SUCCESS", "TIMEOUT", "THREADS_ALLENDED", "ASSUME_FAILS", "REPLAY_FAILS",
            "TREENODE_COVERED"}
Names == Seq(Nat)
Slots == {"null", "node", "end"}
ChildLocs == [node : Names, idx : Nat]

\* Type correctness of the tree, the stack and the script's state.
TypeOK ==
  /\ \A n \in DOMAIN tree :
       /\ n \in Names
       /\ tree[n] \in [stmt : 0..Len(script), covered : BOOLEAN, value : BOOLEAN,
                       vars : Seq(Threads), tried : SUBSET Threads, kids : Seq(Slots)]
  /\ stack \in Seq(ChildLocs)
  /\ index \in 0..Len(stack)
  /\ at \in 1..Exit
  /\ waiting \in BOOLEAN
  /\ selected \in Threads
  /\ reason \in Reasons
  /\ pc \in {"script", "end", "explore", "terminated"}
  /\ failed \in {"none", "Choice", "Statement", "Restart"}

\* No pointer dangles: a child that is a node is live, and every live node is a
\* child of its parent; and what a run follows, node_stack_, is a path of live nodes
\* from the root, although subtrees are deleted when they are covered or when an end
\* node replaces them.
PathLinked ==
  /\ \A n \in DOMAIN tree : \A i \in DOMAIN tree[n].kids :
       tree[n].kids[i] = "node" <=> Append(n, i) \in DOMAIN tree
  /\ pc = "script" =>
       /\ index \in 1..Len(stack)
       /\ stack[1] = RootLoc
       /\ \A k \in 1..Len(stack) :
            stack[k].node \in DOMAIN tree /\ stack[k].idx \in DOMAIN tree[stack[k].node].kids
       /\ \A k \in 1..(Len(stack) - 1) : Get(tree, stack[k]) = stack[k + 1].node

\* ... and while the script runs no node of it is covered, so no replay is wasted.
StackIsPath ==
  /\ PathLinked
  /\ pc = "script" => \A k \in 1..Len(stack) : ~tree[stack[k].node].covered

\* The choices of a line end the script by the same branch, or by none.
MarksAgree(s) ==
  \A k, l \in 1..Len(s) : s[k].kind = "choice" /\ s[l].info = s[k].info =>
    /\ s[l].kind = "choice"
    /\ \A i \in {1, 2} : s[l].next[i] = Len(s) + 1 <=> s[k].next[i] = Len(s) + 1
    /\ \E i \in {1, 2} : s[k].next[i] # Len(s) + 1

\* A search in which nothing is covered but what has been run, or ends the script where it
\* is marked: no selection is given up because all threads have ended.
Calm(s, c, f) == "allEnd" \notin f /\ (c.mark => MarksAgree(s))
CalmSearches == \A search \in Searches : Calm(search.script, search.config, search.faults)

\* No safe_assert of the statements or of Restart fails.
NoAbort == failed = "none"

\* What can follow a statement, and all the runs of the script from it: the
\* reference the search is compared with.
Edges(l) ==
  CASE Kind(l) = "choice" -> {<<Answer[i], script[l].next[i]>> : i \in {1, 2}}
    [] Kind(l) = "cond"   -> {<<Answer[CondIndex(v)], script[l].next[CondIndex(v)]>> : v \in CondValues}
    [] Kind(l) = "forall" -> {<<t, script[l].next[1]>> : t \in ScopeOf(l)}
    [] Kind(l) = "exists" -> {<<"some", script[l].next[1]>>}
    [] Kind(l) = "trans"  -> {<<"run", script[l].next[1]>>}
Trails[l \in 1..Exit] ==
  IF l = Exit THEN {<<>>}
  ELSE UNION {{<<e[1]>> \o s : s \in Trails[e[2]]} : e \in Edges(l)}

\* Nothing is explored twice: in a search that nothing disturbs, a run that reaches
\* the end of the script never has the decisions of an earlier run.
NoRepeat == Undisturbed /\ pc = "script" /\ at = Exit => trail \notin executed

\* The search is exhaustive: unless something disturbed it, when Explore finds the
\* root covered, every run of the script has been executed, every thread of a forall
\* included; MarkEndingBranchesCovered leaves out only runs whose last decision is a
\* choice, and only where another run goes on from before it.
SearchComplete ==
  Undisturbed /\ pc = "terminated" =>
    \A p \in Trails[1] \ executed :
      /\ config.mark
      /\ p # <<>> /\ Last(p) \in {"no", "yes"}
      /\ \E q \in executed : Below(SubSeq(p, 1, Len(p) - 1), q)

\* The search ends, whatever the threads do.
SearchEnds == <>Stopped

\* A forall node is covered only when every thread of its scope has been selected.
ForallTried ==
  Undisturbed => \A n \in DOMAIN tree \ {Root} :
    Kind(tree[n].stmt) = "forall" /\ tree[n].covered =>
      \A t \in ScopeOf(tree[n].stmt) : \E i \in DOMAIN tree[n].vars : tree[n].vars[i] = t
-----------------------------------------------------------------------------
(* The inductive invariant behind TypeOK, StackIsPath and NoAbort.          *)

\* The statement that follows branch i of a node with record r: the root's is the
\* first, a choice goes where its branch goes, a condition by its value.
Goes(r, i) ==
  IF r.stmt = 0 THEN 1
  ELSE script[r.stmt].next[CASE Kind(r.stmt) = "choice" -> i
                             [] Kind(r.stmt) = "cond" -> CondIndex(r.value)
                             [] OTHER -> 1]

\* The record of a node: its children are those its class has.
Records == [stmt : 0..Len(script), covered : BOOLEAN, value : BOOLEAN,
            vars : Seq(Threads), tried : SUBSET Threads, kids : Seq(Slots)]
Width(r) == CASE r.stmt = 0 -> 1
              [] r.stmt # 0 /\ Kind(r.stmt) = "choice" -> 2
              [] r.stmt # 0 /\ Kind(r.stmt) = "forall" -> Len(r.vars)
              [] OTHER -> 1
NodeOK(t, n) ==
  /\ n \in Names /\ t[n] \in Records
  /\ t[n].stmt = 0 <=> n = Root
  /\ Len(t[n].kids) = Width(t[n])

\* A node hangs under the node it is named after, at the statement that follows.
HangsOK(t, n) ==
  n # Root => \E m \in DOMAIN t : \E i \in DOMAIN t[m].kids :
                n = Append(m, i) /\ t[n].stmt = Goes(t[m], i)
LinksOK(t, n) ==
  \A i \in DOMAIN t[n].kids : t[n].kids[i] = "node" <=> Append(n, i) \in DOMAIN t

Tree(t) == Root \in DOMAIN t /\ \A n \in DOMAIN t : NodeOK(t, n) /\ HangsOK(t, n) /\ LinksOK(t, n)

\* A path of nodes from the root, each the child of the one before it.
LocOK(t, loc) == loc.node \in DOMAIN t /\ loc.idx \in DOMAIN t[loc.node].kids
Path(t, s) ==
  /\ s \in Seq(ChildLocs) /\ s # <<>>
  /\ s[1] = RootLoc
  /\ \A k \in 1..Len(s) : LocOK(t, s[k]) /\ Len(s[k].node) = k - 1
  /\ \A k \in 1..(Len(s) - 1) : s[k + 1].node = Child(s[k])
  /\ \A k \in 1..Len(s) : \A j \in 1..k : Below(s[j].node, s[k].node)

\* ... that ends with the end node.
Front(s) == SubSeq(s, 1, Len(s) - 1)
EndedPath(t, s) ==
  /\ s \in Seq(ChildLocs) /\ Len(s) > 1
  /\ s[Len(s)] = EndLoc
  /\ Path(t, Front(s))
  /\ t[s[Len(s) - 1].node].kids[s[Len(s) - 1].idx] = "end"

\* The search that is given, and what does not depend on the tree.
GivenInv ==
  \E search \in Searches :
    script = search.script /\ config = search.config /\ faults = search.faults
ControlInv ==
  /\ at \in 1..Exit /\ waiting \in BOOLEAN /\ selected \in Threads /\ reason \in Reasons
  /\ pc \in {"script", "end", "explore", "terminated"}
  /\ failed \in {"none", "Choice", "Statement", "Restart"}
  /\ waiting => pc = "script" /\ at \in Locs /\ Kind(at) \in Selections \cup {"trans"}

\* Where the stack is a path, and how much of it the run has followed.
StackInv ==
  \/ /\ pc \in {"script", "end"} /\ Path(tree, stack) /\ index \in 1..Len(stack)
     /\ pc = "script" => at = Goes(tree[stack[index].node], stack[index].idx)
  \/ pc = "end" /\ EndedPath(tree, stack) /\ index = Len(stack)
  \/ pc \in {"explore", "terminated"} /\ Path(tree, stack) /\ index \in 1..Len(stack)
  \/ /\ pc \in {"explore", "terminated"} /\ stack = <<>> /\ index = 0
     /\ tree[Root].covered

TreeInv == GivenInv /\ ControlInv /\ Tree(tree) /\ StackInv

\* Nothing is marked but branches that end the script.
EndsOnly(m) ==
  \A e \in m : /\ config.mark
               /\ \E l \in Locs, i \in {1, 2} : /\ Kind(l) = "choice" /\ script[l].next[i] = Exit
                                               /\ e = <<script[l].info, i>>

CalmInv ==
  /\ Calm(script, config, faults) /\ EndsOnly(marked)
  /\ reason # "THREADS_ALLENDED" /\ failed = "none"
  /\ pc = "end" => /\ Path(tree, stack) /\ index \in 1..Len(stack)
                   /\ reason = "SUCCESS" => Goes(tree[stack[index].node], stack[index].idx) = Exit

\* A node with one child is covered with it.  But an exists outlives a choice that was found
\* covered because a branch is marked: it has threads to try.
OneChild(r) == r.stmt = 0 \/ Kind(r.stmt) \notin {"choice", "forall"}
FoundCovered(t, n) ==
  /\ t[n].stmt # 0 /\ Kind(t[n].stmt) = "exists"
  /\ t[n].kids[1] = "node" /\ Kind(t[Append(n, 1)].stmt) = "choice"
ClosedAt(t, n) == OneChild(t[n]) /\ EndOrCovered(t, n, 1) => t[n].covered \/ FoundCovered(t, n)

\* No node of a stack is covered, and its last branch is open.
Uncovered(t, s) == \A k \in 1..Len(s) : ~t[s[k].node].covered
LastOpen(t, s, m) ==
  LET n == Last(s).node IN
  \/ s = <<>>
  \/ t[n].stmt # 0 /\ Kind(t[n].stmt) = "exists"
  \/ ~ChildCovered(t, n, Last(s).idx, m)

\* At the end of a run the coverage of the last node is still to be computed.
CoverInv ==
  /\ CalmInv
  /\ \A n \in DOMAIN tree :
       ClosedAt(tree, n) \/ (pc = "end" /\ n = LastParent /\ NodeKind(n) # "exists")
  /\ Uncovered(tree, stack)
  /\ LastOpen(tree, stack, marked) \/ (pc = "end" /\ index = Len(stack))

-----------------------------------------------------------------------------
(* The inductive invariant behind SearchComplete and NoRepeat.              *)

\* A search that nothing disturbs can be exhausted: a forall has a scope, and a child for
\* each thread of it; the choices of a line agree where branches are marked.
Exhaustible ==
  \A search \in Searches : search.faults = {} =>
    /\ search.config.mark => MarksAgree(search.script)
    /\ \A l \in 1..Len(search.script) : search.script[l].kind = "forall" =>
         /\ search.script[l].scope # {}
         /\ Cardinality(search.script[l].scope) <= MaxChildren

\* Every run of it has decisions of its own: which thread an exists takes is not one.
RunsDiffer ==
  \A search \in Searches : search.faults = {} =>
    \A l \in 1..Len(search.script) : search.script[l].kind # "exists"

\* The decision that branch i of a node stands for.
Decisions == {"no", "yes", "some", "run"} \cup Threads
Decision(r, i) ==
  CASE Kind(r.stmt) = "choice" -> Answer[i]
    [] Kind(r.stmt) = "cond"   -> Answer[CondIndex(r.value)]
    [] Kind(r.stmt) = "forall" -> r.vars[i]
    [] Kind(r.stmt) = "exists" -> "some"
    [] Kind(r.stmt) = "trans"  -> "run"

\* A run with the decisions p comes to m, a node or the place of one.
LeadsTo(t, p, m) ==
  /\ Len(m) <= Len(p) + 1
  /\ \A j \in 1..(Len(m) - 1) : p[j] = Decision(t[SubSeq(m, 1, j)], m[j + 1])

\* Every run that comes to m has been executed, but for the marked branches: then another
\* that differs in the last choice has been.
Done(p, X) ==
  \/ p \in X
  \/ /\ config.mark /\ p # <<>> /\ Last(p) \in {"no", "yes"}
     /\ \E q \in X : Below(SubSeq(p, 1, Len(p) - 1), q)
Explored(t, X, m) == \A p \in Trails[1] : LeadsTo(t, p, m) => Done(p, X)

\* What the nodes of the tree say: a condition is true; a forall has a child for each
\* of some threads of its scope, and is covered with one for all of them.
ForallOK(r) ==
  /\ \A i \in DOMAIN r.vars : r.vars[i] \in ScopeOf(r.stmt)
  /\ \A i, j \in DOMAIN r.vars : r.vars[i] = r.vars[j] => i = j
  /\ r.covered => Len(r.kids) = Cardinality(ScopeOf(r.stmt))
RecordOK(r) ==
  /\ Kind(r.stmt) = "cond" => r.value
  /\ Kind(r.stmt) = "forall" => ForallOK(r)
NodesInv == \A n \in DOMAIN tree \ {Root} : RecordOK(tree[n])

\* What is covered, has an end node or has been tried has been explored.
ExploredAt(t, X, n) ==
  /\ t[n].covered => Explored(t, X, n)
  /\ \A i \in DOMAIN t[n].kids : t[n].kids[i] = "end" => Explored(t, X, Append(n, i))
  /\ t[n].tried # {} => /\ t[n].stmt # 0 /\ Kind(t[n].stmt) = "exists"
                        /\ Explored(t, X, Append(n, 1))
ExploredInv == \A n \in DOMAIN tree : ExploredAt(tree, executed, n)

\* The run has come to where it is, by the decisions of the stack; at its end there is
\* nothing left to explore there.
RunInv ==
  /\ trail \in Seq(Decisions) /\ executed \subseteq Seq(Decisions)
  /\ pc \in {"script", "end"} =>
       Len(trail) = index - 1 /\ LeadsTo(tree, trail, Child(stack[index]))
  /\ pc = "end" => Explored(tree, executed, Child(stack[index]))
  /\ pc = "terminated" => tree[Root].covered

SearchInv == Undisturbed => CoverInv /\ NodesInv /\ ExploredInv /\ RunInv

\* What has been run is closed: a run with the same decisions would come to what is covered.
Closed(t, q) ==
  \/ t[Root].covered
  \/ \E n \in DOMAIN t : \E i \in DOMAIN t[n].kids :
       EndOrCovered(t, n, i) /\ LeadsTo(t, q, Append(n, i))
RepeatInv ==
  Undisturbed => \A q \in executed :
    Closed(tree, q) \/ (pc = "end" /\ reason = "SUCCESS" /\ q = trail)
=============================================================================
