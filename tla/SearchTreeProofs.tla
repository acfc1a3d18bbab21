------------------------- MODULE SearchTreeProofs -------------------------
(***************************************************************************)
(* Proofs about the depth-first search of the execution tree, for every    *)
(* set of scripts, threads and settings and everything that may disturb a  *)
(* search: the types of the tree and the stack, and that no pointer of     *)
(* them dangles although subtrees are deleted.  For searches in which      *)
(* nothing is covered but what has been run or is marked as an end of the  *)
(* script (CalmSearches): the stack of a run has no covered node, and no   *)
(* safe_assert of the statements fails.  For searches that nothing         *)
(* disturbs: every run of the script is executed (Exhaustible), and none   *)
(* twice (RunsDiffer).                                                     *)
(*                                                                         *)
(* TreeInv says that the tree is one, that its nodes have the children of  *)
(* their statement, and that the stack is a path of it that the script     *)
(* follows.  CoverInv adds that a node with one child is covered with it,  *)
(* and that no node of the stack is covered and its last branch is open.   *)
(* SearchInv says that all runs that come to what is covered, ended or     *)
(* tried have been executed; RepeatInv that what has been executed comes   *)
(* to what is covered or ended.  Where an argument goes by induction over  *)
(* a run or along a path, it takes the least place where it would fail.    *)
(***************************************************************************)
EXTENDS SearchTree, FiniteSetTheorems, NaturalsInduction, SequenceTheorems,
        WellFoundedInduction, TLAPS

-----------------------------------------------------------------------------
\* Names: the sequences of child indices that the nodes are named by.

\* The name of a child.
LEMMA ChildName ==
  ASSUME NEW n \in Names, NEW i \in Nat
  PROVE  /\ Append(n, i) \in Names /\ Append(n, i) # Root
         /\ Len(n) \in Nat /\ Len(Append(n, i)) = Len(n) + 1
  BY AppendProperties, LenProperties DEF Names, Root

\* Different children have different names.
LEMMA NameInjective ==
  ASSUME NEW n \in Names, NEW m \in Names, NEW i \in Nat, NEW j \in Nat,
         Append(n, i) = Append(m, j)
  PROVE  n = m /\ i = j
  BY AppendInjective DEF Names

\* The name of the root.
LEMMA RootName == Root \in Names /\ Len(Root) = 0
  BY EmptySeq DEF Names, Root

\* The two markers are not names of nodes.
LEMMA MarkerNames ==
  ASSUME NEW n \in Names, NEW i \in Nat, i > 0
  PROVE  Append(n, i) # EndNode /\ n # NoNode /\ Root # EndNode
<1>1. EndNode = Append(Root, 0)
  BY DEF EndNode, Root
<1>2. Append(n, i) # EndNode
  BY <1>1, NameInjective, RootName
<1>3. n # NoNode
  <2>1. NoNode[1] = -1 /\ Len(NoNode) = 1
    BY DEF NoNode
  <2>2. ASSUME n = NoNode PROVE FALSE
    <3>1. 1 \in 1..Len(n)
      BY <2>1, <2>2
    <3>2. n[1] \in Nat
      BY <3>1, ElementOfSeq DEF Names
    <3> QED BY <2>1, <2>2, <3>2
  <2> QED BY <2>2
<1>4. Root # EndNode
  BY <1>1, ChildName, RootName
<1> QED BY <1>2, <1>3, <1>4

\* A prefix of a sequence.
LEMMA Prefix ==
  ASSUME NEW S, NEW s \in Seq(S), NEW k \in 0..Len(s)
  PROVE  /\ SubSeq(s, 1, k) \in Seq(S) /\ Len(SubSeq(s, 1, k)) = k
         /\ \A i \in 1..k : SubSeq(s, 1, k)[i] = s[i]
<1>1. Len(s) \in Nat /\ \A i \in 1..k : s[i] \in S
  BY LenProperties, ElementOfSeq
<1>2. \A i \in 1..k - 1 + 1 : SubSeq(s, 1, k)[i] = s[1 + i - 1]
  BY <1>1, SubSeqProperties
<1>3. SubSeq(s, 1, k) \in Seq(S) /\ Len(SubSeq(s, 1, k)) = IF 1 <= k THEN k - 1 + 1 ELSE 0
  BY <1>1, SubSeqProperties
<1> QED BY <1>1, <1>2, <1>3

\* A node is below itself, ...
LEMMA BelowSelf ==
  ASSUME NEW n \in Names
  PROVE  Below(n, n)
  BY SubSeqFull, LenProperties DEF Names, Below

\* ... and no shorter than what it is below.
LEMMA BelowLength ==
  ASSUME NEW n \in Names, NEW m \in Names, Below(n, m)
  PROVE  Len(n) <= Len(m) /\ (Len(n) = Len(m) => n = m)
  BY SubSeqFull, LenProperties DEF Names, Below

\* What is below a child is below its parent, the child itself excepted.
LEMMA BelowChild ==
  ASSUME NEW n \in Names, NEW m \in Names, NEW i \in Nat
  PROVE  Below(n, Append(m, i)) <=> n = Append(m, i) \/ Below(n, m)
<1> DEFINE c == Append(m, i)
<1>1. c \in Names /\ Len(c) = Len(m) + 1 /\ Len(m) \in Nat /\ Len(n) \in Nat
  BY ChildName, LenProperties DEF Names
<1>2. CASE Len(n) <= Len(m)
  <2>1. \A k \in 1..Len(n) : c[k] \in Nat /\ m[k] \in Nat /\ c[k] = m[k]
    BY <1>1, <1>2, AppendProperties, ElementOfSeq DEF Names
  <2>2. SubSeq(c, 1, Len(n)) = SubSeq(m, 1, Len(n))
    <3> DEFINE a == SubSeq(c, 1, Len(n))  b == SubSeq(m, 1, Len(n))
    <3>1. a \in Seq(Nat) /\ Len(a) = Len(n) /\ \A k \in 1..Len(n) : a[k] = c[k]
      BY <1>1, <1>2, Prefix DEF Names
    <3>2. b \in Seq(Nat) /\ Len(b) = Len(n) /\ \A k \in 1..Len(n) : b[k] = m[k]
      BY <1>1, <1>2, Prefix DEF Names
    <3> HIDE DEF a, b, c
    <3>3. a = b
      BY <2>1, <3>1, <3>2, SeqEqual
    <3> QED BY <3>3 DEF a, b, c
  <2>3. n # c
    BY <1>1, <1>2
  <2> QED BY <1>1, <1>2, <2>2, <2>3 DEF Below
<1>3. CASE Len(n) = Len(m) + 1
  <2>1. ~Below(n, m)
    BY <1>1, <1>3, BelowLength
  <2>2. Below(n, c) <=> n = c
    BY <1>1, <1>3, BelowLength, BelowSelf
  <2> QED BY <2>1, <2>2
<1>4. CASE Len(n) > Len(m) + 1
  <2>1. ~Below(n, m)
    BY <1>1, <1>4 DEF Below
  <2>2. ~Below(n, c)
    BY <1>1, <1>4 DEF Below
  <2>3. n # c
    BY <1>1, <1>4
  <2> QED BY <2>1, <2>2, <2>3
<1> QED BY <1>1, <1>2, <1>3, <1>4

-----------------------------------------------------------------------------
\* The script and the records of nodes.

\* A script is a forward control flow graph.
LEMMA ScriptFacts ==
  ASSUME GivenInv
  PROVE  /\ script \in Seq(Statements) /\ Len(script) \in Nat
         /\ \A l \in Locs :
              /\ Kind(l) \in {"choice", "cond", "forall", "exists", "trans"}
              /\ script[l].scope \subseteq Threads
              /\ Len(script[l].next) = IF Kind(l) \in {"choice", "cond"} THEN 2 ELSE 1
              /\ \A i \in 1..Len(script[l].next) : script[l].next[i] \in 1..Exit
         /\ config \in ConfigTypes /\ faults \subseteq Faults
<1>1. PICK search \in Searches :
        script = search.script /\ config = search.config /\ faults = search.faults
  BY DEF GivenInv
<1>2. script \in Seq(Statements) /\ Len(script) \in Nat
  BY <1>1, SearchAssumption, LenProperties
<1>3. ASSUME NEW l \in Locs
      PROVE  /\ Kind(l) \in {"choice", "cond", "forall", "exists", "trans"}
             /\ script[l].scope \subseteq Threads
  <2>1. script[l] \in Statements
    BY <1>2, ElementOfSeq DEF Locs
  <2> QED BY <2>1 DEF Statements, Kind
<1>4. ASSUME NEW l \in Locs
      PROVE  /\ Len(script[l].next) = IF Kind(l) \in {"choice", "cond"} THEN 2 ELSE 1
             /\ \A i \in 1..Len(script[l].next) :
                  script[l].next[i] \in (l + 1)..(Len(script) + 1)
  BY <1>1, <1>4, SearchAssumption DEF Kind, Locs
<1>5. ASSUME NEW l \in Locs, NEW i \in 1..Len(script[l].next)
      PROVE  script[l].next[i] \in 1..Exit
  BY <1>2, <1>4, <1>5 DEF Locs, Exit
<1>6. config \in ConfigTypes /\ faults \subseteq Faults
  BY <1>1, SearchAssumption
<1> QED BY <1>2, <1>3, <1>4, <1>5, <1>6

\* The children of a record.
LEMMA KidFacts ==
  ASSUME NEW r \in Records
  PROVE  /\ Len(r.kids) \in Nat /\ DOMAIN r.kids = 1..Len(r.kids)
         /\ \A i \in DOMAIN r.kids : i \in Nat /\ i > 0 /\ r.kids[i] \in Slots
  BY LenProperties, ElementOfSeq DEF Records

\* ChildLoc::set.
LEMMA SetFacts ==
  ASSUME NEW t, NEW loc, NEW v \in Slots, loc.node \in DOMAIN t, t[loc.node] \in Records,
         loc.idx \in DOMAIN t[loc.node].kids
  PROVE  LET u == Set(t, loc, v)
             n == loc.node
         IN  /\ DOMAIN u = DOMAIN t
             /\ \A m \in DOMAIN t : m # n => u[m] = t[m]
             /\ u[n] \in Records
             /\ u[n].stmt = t[n].stmt /\ u[n].covered = t[n].covered
             /\ u[n].value = t[n].value /\ u[n].vars = t[n].vars /\ u[n].tried = t[n].tried
             /\ Len(u[n].kids) = Len(t[n].kids) /\ DOMAIN u[n].kids = DOMAIN t[n].kids
             /\ \A i \in DOMAIN t[n].kids :
                  u[n].kids[i] = IF i = loc.idx THEN v ELSE t[n].kids[i]
<1> DEFINE u == Set(t, loc, v)  n == loc.node  k == [t[n].kids EXCEPT ![loc.idx] = v]
<1>1. u[n] = [t[n] EXCEPT !.kids = k] /\ DOMAIN u = DOMAIN t
  BY DEF Set
<1>2. \A m \in DOMAIN t : m # n => u[m] = t[m]
  BY DEF Set
<1>3. t[n].kids \in Seq(Slots) /\ DOMAIN t[n].kids = 1..Len(t[n].kids)
  BY LenProperties DEF Records
<1>4. /\ k \in Seq(Slots) /\ Len(k) = Len(t[n].kids) /\ DOMAIN k = DOMAIN t[n].kids
      /\ \A i \in DOMAIN t[n].kids : k[i] = IF i = loc.idx THEN v ELSE t[n].kids[i]
  BY <1>3, ExceptSeq, LenProperties
<1> HIDE DEF k, u
<1>5. u[n].kids = k /\ u[n] \in Records
  BY <1>1, <1>4 DEF Records
<1>6. /\ u[n].stmt = t[n].stmt /\ u[n].covered = t[n].covered /\ u[n].value = t[n].value
      /\ u[n].vars = t[n].vars /\ u[n].tried = t[n].tried
  BY <1>1 DEF Records
<1> QED BY <1>1, <1>2, <1>4, <1>5, <1>6 DEF u

\* The names in a tree, and where a node hangs.
LEMMA TreeNames ==
  ASSUME NEW t, Tree(t), NEW n \in DOMAIN t
  PROVE  /\ n \in Names /\ n # EndNode /\ n # NoNode /\ t[n] \in Records
         /\ DOMAIN t[n].kids = 1..Len(t[n].kids) /\ Len(t[n].kids) \in Nat
<1>1. n \in Names /\ t[n] \in Records
  BY DEF Tree, NodeOK
<1>2. n # EndNode /\ n # NoNode
  <2>1. CASE n = Root
    BY <2>1, MarkerNames, ChildName, RootName
  <2>2. CASE n # Root
    <3>1. PICK m \in DOMAIN t : \E i \in DOMAIN t[m].kids : n = Append(m, i)
      BY <2>2 DEF Tree, HangsOK
    <3>2. PICK i \in DOMAIN t[m].kids : n = Append(m, i)
      BY <3>1
    <3>3. m \in Names /\ i \in Nat /\ i > 0
      BY KidFacts DEF Tree, NodeOK
    <3> QED BY <1>1, <3>2, <3>3, MarkerNames, ChildName
  <2> QED BY <2>1, <2>2
<1> QED BY <1>1, <1>2, KidFacts

\* A node in the tree is a child of its parent, which is in the tree.
LEMMA ParentIn ==
  ASSUME NEW t, Tree(t), NEW n \in Names, NEW i \in Nat, Append(n, i) \in DOMAIN t
  PROVE  /\ n \in DOMAIN t /\ i \in DOMAIN t[n].kids /\ t[n].kids[i] = "node"
         /\ t[Append(n, i)].stmt = Goes(t[n], i)
<1> DEFINE c == Append(n, i)
<1>1. c # Root
  BY ChildName
<1>2. PICK m \in DOMAIN t : \E j \in DOMAIN t[m].kids : c = Append(m, j)
        /\ t[c].stmt = Goes(t[m], j)
  BY <1>1 DEF Tree, HangsOK
<1>3. PICK j \in DOMAIN t[m].kids : c = Append(m, j) /\ t[c].stmt = Goes(t[m], j)
  BY <1>2
<1>4. m = n /\ j = i
  BY <1>3, NameInjective, TreeNames
<1> QED BY <1>3, <1>4 DEF Tree, LinksOK

\* A branch leads to a statement or to the end of the script.
LEMMA GoesFacts ==
  ASSUME GivenInv, NEW r \in Records, NEW i \in DOMAIN r.kids, Len(r.kids) = Width(r)
  PROVE  Goes(r, i) \in 1..Exit
<1>1. i \in 1..Width(r)
  BY KidFacts
<1>2. CASE r.stmt = 0
  BY <1>2, ScriptFacts DEF Goes, Exit
<1>3. CASE r.stmt # 0
  <2>1. r.stmt \in Locs
    BY <1>3, ScriptFacts DEF Records, Locs
  <2>2. CondIndex(r.value) \in {1, 2}
    BY DEF CondIndex
  <2>3. CASE Kind(r.stmt) = "choice"
    BY <1>1, <1>3, <2>1, <2>3, ScriptFacts DEF Goes, Width
  <2>4. CASE Kind(r.stmt) = "cond"
    BY <1>3, <2>1, <2>2, <2>4, ScriptFacts DEF Goes
  <2>5. CASE Kind(r.stmt) \notin {"choice", "cond"}
    BY <1>3, <2>1, <2>5, ScriptFacts DEF Goes
  <2> QED BY <2>3, <2>4, <2>5
<1> QED BY <1>2, <1>3

-----------------------------------------------------------------------------
\* How a tree changes.

\* The record of a node with another coverage or other tried threads.
SameShape(r, q) ==
  r.stmt = q.stmt /\ r.value = q.value /\ r.vars = q.vars /\ r.kids = q.kids

\* Coverage and tried threads do not matter to the shape of the tree.
LEMMA ReshapeTree ==
  ASSUME NEW t, Tree(t), NEW u, DOMAIN u = DOMAIN t,
         \A n \in DOMAIN t : u[n] \in Records /\ SameShape(u[n], t[n])
  PROVE  Tree(u) /\ \A s : Path(t, s) => Path(u, s)
<1>1. \A n \in DOMAIN t : NodeOK(u, n)
  BY DEF Tree, NodeOK, SameShape, Width
<1>2. \A n \in DOMAIN t : \A i : Goes(u[n], i) = Goes(t[n], i)
  BY DEF SameShape, Goes
<1>3. \A n \in DOMAIN t : HangsOK(u, n)
  BY <1>2 DEF Tree, HangsOK, SameShape
<1>4. \A n \in DOMAIN t : LinksOK(u, n)
  BY DEF Tree, LinksOK, SameShape
<1>5. ASSUME NEW s, Path(t, s) PROVE Path(u, s)
  BY <1>5 DEF Path, LocOK, SameShape
<1> QED BY <1>1, <1>3, <1>4, <1>5 DEF Tree

\* The subtree at a location gives way to the end node: what AddToPath and the
\* deletion of a covered subtree do.
Cut(t, loc) == Set(Delete(t, Child(loc)), loc, "end")

\* The tree u is t after such a cut.
IsCut(t, loc, u) ==
  /\ DOMAIN u = {k \in DOMAIN t : ~Below(Child(loc), k)}
  /\ \A m \in DOMAIN t : Len(m) <= Len(loc.node) => m \in DOMAIN u
  /\ loc.node \in DOMAIN u /\ u[loc.node] \in Records
  /\ \A m \in DOMAIN u : m # loc.node => u[m] = t[m]
  /\ \A m \in DOMAIN u :
       /\ u[m].stmt = t[m].stmt /\ u[m].covered = t[m].covered
       /\ u[m].value = t[m].value /\ u[m].vars = t[m].vars
       /\ Len(u[m].kids) = Len(t[m].kids) /\ DOMAIN u[m].kids = DOMAIN t[m].kids
  /\ \A i \in DOMAIN t[loc.node].kids :
       u[loc.node].kids[i] = IF i = loc.idx THEN "end" ELSE t[loc.node].kids[i]

\* Delete and Set together are a cut, ...
LEMMA CutFacts ==
  ASSUME NEW t, Tree(t), NEW loc, LocOK(t, loc)
  PROVE  IsCut(t, loc, Cut(t, loc))
<1> DEFINE c == Child(loc)  d == Delete(t, c)  u == Cut(t, loc)
<1>1. /\ loc.node \in DOMAIN t /\ loc.idx \in DOMAIN t[loc.node].kids
      /\ loc.node \in Names /\ loc.idx \in Nat /\ t[loc.node] \in Records
  BY TreeNames DEF LocOK
<1>2. c \in Names /\ Len(c) = Len(loc.node) + 1 /\ Len(loc.node) \in Nat
  BY <1>1, ChildName DEF Child
<1>3. \A m \in DOMAIN t : Len(m) <= Len(loc.node) => ~Below(c, m)
  <2> SUFFICES ASSUME NEW m \in DOMAIN t, Len(m) <= Len(loc.node), Below(c, m) PROVE FALSE
    OBVIOUS
  <2>1. m \in Names /\ Len(m) \in Nat
    BY TreeNames, ChildName
  <2> QED BY <1>2, <2>1, BelowLength
<1>4. DOMAIN d = {k \in DOMAIN t : ~Below(c, k)} /\ \A m \in DOMAIN d : d[m] = t[m]
  BY DEF Delete
<1>5. loc.node \in DOMAIN d /\ d[loc.node] = t[loc.node]
  BY <1>1, <1>2, <1>3, <1>4
<1> HIDE DEF c, d
<1>6. LET v == Set(d, loc, "end")
          n == loc.node
      IN  /\ DOMAIN v = DOMAIN d
          /\ \A m \in DOMAIN d : m # n => v[m] = d[m]
          /\ v[n] \in Records
          /\ v[n].stmt = d[n].stmt /\ v[n].covered = d[n].covered
          /\ v[n].value = d[n].value /\ v[n].vars = d[n].vars /\ v[n].tried = d[n].tried
          /\ Len(v[n].kids) = Len(d[n].kids) /\ DOMAIN v[n].kids = DOMAIN d[n].kids
          /\ \A i \in DOMAIN d[n].kids :
               v[n].kids[i] = IF i = loc.idx THEN "end" ELSE d[n].kids[i]
  BY <1>1, <1>5, SetFacts DEF Slots
<1>7. u = Set(d, loc, "end")
  BY DEF Cut, c, d
<1> HIDE DEF u
<1> QED BY <1>3, <1>4, <1>5, <1>6, <1>7 DEF u, c, IsCut

\* ... and what a cut leaves is a tree.
LEMMA CutTree ==
  ASSUME NEW t, Tree(t), NEW loc, LocOK(t, loc), NEW u, IsCut(t, loc, u)
  PROVE  Tree(u)
<1> DEFINE c == Child(loc)
<1>1. loc.node \in Names /\ loc.idx \in Nat /\ Len(loc.node) \in Nat
  <2>1. loc.node \in Names /\ loc.idx \in Nat
    BY TreeNames DEF LocOK
  <2> QED BY <2>1, ChildName
<1>2. c \in Names /\ c # Root
  BY <1>1, ChildName DEF Child
<1> USE DEF IsCut
<1> HIDE DEF c
<1>3. Root \in DOMAIN u
  <2>1. Root \in DOMAIN t /\ Len(Root) <= Len(loc.node)
    BY <1>1, RootName DEF Tree
  <2> QED BY <2>1
<1>4. ASSUME NEW n \in DOMAIN u PROVE NodeOK(u, n)
  <2>1. NodeOK(t, n) /\ n \in DOMAIN t
    BY DEF Tree
  <2>2. u[n] \in Records
    BY <2>1 DEF NodeOK
  <2>3. Width(u[n]) = Width(t[n])
    BY DEF Width
  <2> QED BY <2>1, <2>2, <2>3 DEF NodeOK
<1>5. ASSUME NEW n \in DOMAIN u PROVE HangsOK(u, n)
  <2> SUFFICES ASSUME n # Root
               PROVE  \E m \in DOMAIN u : \E i \in DOMAIN u[m].kids :
                        n = Append(m, i) /\ u[n].stmt = Goes(u[m], i)
    BY DEF HangsOK
  <2>1. n \in DOMAIN t /\ ~Below(c, n)
    BY DEF c
  <2>2. PICK m \in DOMAIN t : \E i \in DOMAIN t[m].kids : n = Append(m, i)
          /\ t[n].stmt = Goes(t[m], i)
    BY <2>1 DEF Tree, HangsOK
  <2>3. PICK i \in DOMAIN t[m].kids : n = Append(m, i) /\ t[n].stmt = Goes(t[m], i)
    BY <2>2
  <2>4. m \in Names /\ i \in Nat
    BY TreeNames, KidFacts DEF c
  <2>5. m \in DOMAIN u
    BY <1>1, <1>2, <2>1, <2>3, <2>4, BelowChild DEF c
  <2>6. Goes(u[m], i) = Goes(t[m], i)
    BY <2>5 DEF Goes
  <2>7. u[n].stmt = Goes(u[m], i) /\ i \in DOMAIN u[m].kids
    BY <2>3, <2>5, <2>6
  <2> QED BY <2>3, <2>5, <2>7
<1>6. ASSUME NEW n \in DOMAIN u PROVE LinksOK(u, n)
  <2> SUFFICES ASSUME NEW i \in DOMAIN u[n].kids
               PROVE  u[n].kids[i] = "node" <=> Append(n, i) \in DOMAIN u
    BY DEF LinksOK
  <2>1. n \in DOMAIN t /\ ~Below(c, n) /\ n \in Names /\ i \in DOMAIN t[n].kids /\ i \in Nat
    BY TreeNames, KidFacts DEF c
  <2>2. t[n].kids[i] = "node" <=> Append(n, i) \in DOMAIN t
    BY <2>1 DEF Tree, LinksOK
  <2>3. Append(n, i) \in DOMAIN u <=> Append(n, i) \in DOMAIN t /\ Append(n, i) # c
    BY <1>2, <2>1, BelowChild DEF c
  <2>4. Append(n, i) = c <=> n = loc.node /\ i = loc.idx
    <3>1. Append(n, i) = Append(loc.node, loc.idx) => n = loc.node /\ i = loc.idx
      BY <1>1, <2>1, NameInjective
    <3> QED BY <3>1 DEF Child, c
  <2>5. u[n].kids[i] = IF n = loc.node /\ i = loc.idx THEN "end" ELSE t[n].kids[i]
    BY <2>1
  <2> QED BY <2>2, <2>3, <2>4, <2>5
<1> QED BY <1>3, <1>4, <1>5, <1>6 DEF Tree

\* A path whose nodes are no deeper than the cut stays a path, and what ends at the
\* cut ends with the end node.
LEMMA CutPath ==
  ASSUME NEW t, Tree(t), NEW loc, LocOK(t, loc), NEW u, IsCut(t, loc, u),
         NEW s, Path(t, s), Len(s) <= Len(loc.node) + 1
  PROVE  Path(u, s)
<1>1. Len(s) \in Nat /\ Len(loc.node) \in Nat
  <2>1. loc.node \in Names
    BY TreeNames DEF LocOK
  <2> QED BY <2>1, LenProperties, ChildName DEF Path
<1>2. ASSUME NEW k \in 1..Len(s) PROVE LocOK(u, s[k])
  <2>1. LocOK(t, s[k]) /\ Len(s[k].node) = k - 1
    BY DEF Path
  <2>2. Len(s[k].node) <= Len(loc.node)
    BY <1>1, <2>1
  <2> QED BY <2>1, <2>2 DEF LocOK, IsCut
<1> QED BY <1>2 DEF Path

\* A location of a path and the one after it.
LEMMA PathLink ==
  ASSUME NEW t, Tree(t), NEW s, Path(t, s), NEW k \in 1..(Len(s) - 1)
  PROVE  /\ s[k + 1].node = Child(s[k])
         /\ t[s[k].node].kids[s[k].idx] = "node"
         /\ t[s[k + 1].node].stmt = Goes(t[s[k].node], s[k].idx)
<1>1. s[k + 1].node = Append(s[k].node, s[k].idx)
  BY DEF Path, Child
<1>2. k \in 1..Len(s) /\ k + 1 \in 1..Len(s)
  BY LenProperties DEF Path
<1>3. s[k].node \in DOMAIN t /\ s[k].idx \in DOMAIN t[s[k].node].kids
        /\ s[k + 1].node \in DOMAIN t
  BY <1>2 DEF Path, LocOK
<1>4. s[k].node \in Names /\ s[k].idx \in Nat
  BY <1>3, TreeNames
<1>5. t[s[k].node].kids[s[k].idx] = "node"
        /\ t[s[k + 1].node].stmt = Goes(t[s[k].node], s[k].idx)
  BY <1>1, <1>3, <1>4, ParentIn
<1> QED BY <1>1, <1>5 DEF Child

\* Paths: their locations, their prefixes and their extension.
LEMMA PathFacts ==
  ASSUME NEW t, Tree(t), NEW s, Path(t, s)
  PROVE  /\ Len(s) \in Nat /\ Len(s) > 0 /\ s[1] = RootLoc
         /\ \A k \in 1..Len(s) :
              /\ s[k] \in ChildLocs
              /\ s[k].node \in DOMAIN t /\ s[k].idx \in DOMAIN t[s[k].node].kids
              /\ s[k].node \in Names /\ s[k].idx \in Nat /\ s[k].idx > 0
              /\ Len(s[k].node) = k - 1 /\ (k > 1 => s[k].node # Root)
         /\ \A k \in 1..(Len(s) - 1) :
              /\ s[k + 1].node = Child(s[k])
              /\ t[s[k].node].kids[s[k].idx] = "node"
              /\ t[s[k + 1].node].stmt = Goes(t[s[k].node], s[k].idx)
<1>1. Len(s) \in Nat /\ Len(s) > 0 /\ s[1] = RootLoc
  BY LenProperties, EmptySeq DEF Path
<1>2. ASSUME NEW k \in 1..Len(s)
      PROVE  /\ s[k] \in ChildLocs
             /\ s[k].node \in DOMAIN t /\ s[k].idx \in DOMAIN t[s[k].node].kids
             /\ s[k].node \in Names /\ s[k].idx \in Nat /\ s[k].idx > 0
             /\ Len(s[k].node) = k - 1 /\ (k > 1 => s[k].node # Root)
  <2>1. s[k] \in ChildLocs
    BY ElementOfSeq DEF Path
  <2>2. s[k].node \in DOMAIN t /\ s[k].idx \in DOMAIN t[s[k].node].kids
          /\ Len(s[k].node) = k - 1
    BY DEF Path, LocOK
  <2>3. s[k].node \in Names /\ s[k].idx \in Nat /\ s[k].idx > 0
    BY <2>2, TreeNames
  <2>4. k > 1 => s[k].node # Root
    BY <2>2, RootName
  <2> QED BY <2>1, <2>2, <2>3, <2>4
<1>3. ASSUME NEW k \in 1..(Len(s) - 1)
      PROVE  /\ s[k + 1].node = Child(s[k])
             /\ t[s[k].node].kids[s[k].idx] = "node"
             /\ t[s[k + 1].node].stmt = Goes(t[s[k].node], s[k].idx)
  BY PathLink
<1> QED BY <1>1, <1>2, <1>3

\* A prefix of a path is a path, ...
LEMMA PathPrefix ==
  ASSUME NEW t, NEW s, Path(t, s), NEW k \in 1..Len(s)
  PROVE  LET p == SubSeq(s, 1, k)
         IN  Path(t, p) /\ Len(p) = k /\ \A i \in 1..k : p[i] = s[i]
<1> DEFINE p == SubSeq(s, 1, k)
<1>1. s \in Seq(ChildLocs) /\ Len(s) \in Nat
  BY LenProperties DEF Path
<1>2. p \in Seq(ChildLocs) /\ Len(p) = k /\ \A i \in 1..k : p[i] = s[i]
  BY <1>1, Prefix
<1> HIDE DEF p
<1>3. p # <<>> /\ p[1] = RootLoc
  BY <1>1, <1>2, EmptySeq DEF Path
<1>4. ASSUME NEW i \in 1..k PROVE LocOK(t, p[i]) /\ Len(p[i].node) = i - 1
  <2>1. i \in 1..Len(s) /\ p[i] = s[i]
    BY <1>1, <1>2
  <2> QED BY <2>1 DEF Path
<1>5. ASSUME NEW i \in 1..(k - 1) PROVE p[i + 1].node = Child(p[i])
  <2>1. i \in 1..(Len(s) - 1) /\ p[i] = s[i] /\ p[i + 1] = s[i + 1]
    BY <1>1, <1>2
  <2> QED BY <2>1 DEF Path
<1>6. ASSUME NEW i \in 1..k, NEW j \in 1..i PROVE Below(p[j].node, p[i].node)
  <2>1. i \in 1..Len(s) /\ j \in 1..k /\ p[i] = s[i] /\ p[j] = s[j]
    BY <1>1, <1>2
  <2> QED BY <2>1 DEF Path
<1>7. Path(t, p)
  BY <1>2, <1>3, <1>4, <1>5, <1>6 DEF Path
<1> QED BY <1>2, <1>7 DEF p

\* ... and so is a path with the child at its end.
LEMMA PathAppend ==
  ASSUME NEW t, Tree(t), NEW s, Path(t, s), NEW i \in DOMAIN t[Child(Last(s))].kids,
         Child(Last(s)) \in DOMAIN t
  PROVE  Path(t, Append(s, [node |-> Child(Last(s)), idx |-> i]))
<1> DEFINE c == Child(Last(s))  loc == [node |-> c, idx |-> i]  a == Append(s, loc)  n == Len(s)
<1>1. n \in Nat /\ n > 0 /\ s \in Seq(ChildLocs)
  BY PathFacts DEF Path
<1>2. Last(s).node \in Names /\ Last(s).idx \in Nat /\ Len(Last(s).node) = n - 1
  BY <1>1, PathFacts DEF Last
<1>3. c \in Names /\ Len(c) = n
  <2>1. c = Append(Last(s).node, Last(s).idx)
    BY DEF Child
  <2> HIDE DEF c
  <2>2. c \in Names /\ Len(c) = (n - 1) + 1
    BY <1>2, <2>1, ChildName
  <2> QED BY <1>1, <2>2
<1>4. i \in Nat
  BY TreeNames
<1>5. loc \in ChildLocs
  BY <1>3, <1>4 DEF ChildLocs
<1>6. /\ a \in Seq(ChildLocs) /\ a # <<>> /\ Len(a) = n + 1 /\ a[n + 1] = loc
      /\ \A k \in 1..n : a[k] = s[k]
  BY <1>1, <1>5, AppendProperties
<1> HIDE DEF c, a
<1>7. a[1] = RootLoc
  <2>1. a[1] = s[1]
    BY <1>1, <1>6
  <2>2. s[1] = RootLoc
    BY DEF Path
  <2> QED BY <2>1, <2>2
<1>8. ASSUME NEW k \in 1..(n + 1) PROVE LocOK(t, a[k]) /\ Len(a[k].node) = k - 1
  <2>1. CASE k = n + 1
    BY <1>1, <1>3, <1>6, <2>1 DEF LocOK, c
  <2>2. CASE k # n + 1
    <3>1. k \in 1..n /\ a[k] = s[k]
      BY <1>1, <1>6, <2>2
    <3> QED BY <3>1 DEF Path
  <2> QED BY <2>1, <2>2
<1>9. \A k \in 1..n : a[k + 1].node = Child(a[k])
  <2> SUFFICES ASSUME NEW k \in 1..n PROVE a[k + 1].node = Child(a[k])
    OBVIOUS
  <2>1. CASE k = n
    BY <1>1, <1>6, <2>1 DEF c, Last
  <2>2. CASE k < n
    <3>1. k \in 1..(Len(s) - 1) /\ a[k] = s[k] /\ a[k + 1] = s[k + 1]
      BY <1>1, <1>6, <2>2
    <3> QED BY <3>1 DEF Path
  <2> QED BY <1>1, <2>1, <2>2
<1>10. ASSUME NEW k \in 1..(n + 1), NEW j \in 1..k PROVE Below(a[j].node, a[k].node)
  <2>1. CASE k # n + 1
    <3>1. k \in 1..n /\ a[k] = s[k] /\ a[j] = s[j]
      BY <1>1, <1>6, <2>1
    <3> QED BY <3>1 DEF Path
  <2>2. CASE k = n + 1 /\ j = n + 1
    BY <1>3, <1>6, <2>2, BelowSelf
  <2>3. CASE k = n + 1 /\ j # n + 1
    <3>1. j \in 1..n /\ n \in 1..n /\ j \in 1..n /\ a[j] = s[j] /\ a[k].node = c
            /\ Last(s) = s[n]
      BY <1>1, <1>6, <2>3 DEF Last
    <3>2. Below(s[j].node, s[n].node) /\ s[j].node \in Names
      BY <3>1, PathFacts DEF Path
    <3>3. Below(s[j].node, Append(s[n].node, s[n].idx))
      BY <1>2, <3>1, <3>2, BelowChild
    <3> QED BY <3>1, <3>3 DEF Child, c
  <2> QED BY <2>1, <2>2, <2>3
<1>11. Path(t, a)
  <2>1. \A k \in 1..(Len(a) - 1) : a[k + 1].node = Child(a[k])
    BY <1>1, <1>6, <1>9
  <2> QED BY <1>6, <1>7, <1>8, <1>10, <2>1 DEF Path
<1> QED BY <1>11 DEF a, c

\* What AddToPath(ENDNODE(), 0) makes of a path of which k elements have been followed:
\* m of them remain, and the end node takes the place of what was below them.
EndsAt(t, s, m, p) ==
  /\ m \in 1..Len(s) /\ IsCut(t, s[m], p.tree)
  /\ Len(p.stack) = m + 1 /\ p.stack[m + 1] = EndLoc
  /\ \A i \in 1..m : p.stack[i] = s[i]

\* The location of the end node.
LEMMA EndLocType == EndLoc \in ChildLocs
<1>1. EndNode = Append(Root, 0)
  BY DEF EndNode, Root
<1> QED BY <1>1, ChildName, RootName DEF EndLoc, ChildLocs

\* AddToPath(ENDNODE(), 0) leaves a tree and a path to its end node.
LEMMA AddEnd ==
  ASSUME NEW t, Tree(t), NEW s, Path(t, s), NEW k \in 1..Len(s)
  PROVE  LET p == AddEndToPath(t, s, k)
         IN  /\ Tree(p.tree) /\ EndedPath(p.tree, p.stack)
             /\ \E m \in 1..Len(s) : EndsAt(t, s, m, p)
<1> DEFINE m == IF k < Len(s) THEN k + 1 ELSE Len(s)
           s1 == IF k < Len(s) THEN SubSeq(s, 1, k + 1) ELSE s
           u == Cut(t, s[m])
           p == AddEndToPath(t, s, k)
<1>1. Len(s) \in Nat /\ Len(s) > 0 /\ m \in 1..Len(s) /\ s \in Seq(ChildLocs)
  BY PathFacts DEF Path
<1> HIDE DEF m
<1>2. Path(t, s1) /\ Len(s1) = m /\ \A i \in 1..m : s1[i] = s[i]
  <2>1. CASE k < Len(s)
    <3>1. k + 1 \in 1..Len(s)
      BY <1>1, <2>1
    <3> QED BY <2>1, <3>1, PathPrefix DEF m
  <2>2. CASE ~(k < Len(s))
    BY <1>1, <2>2 DEF m
  <2> QED BY <2>1, <2>2
<1> HIDE DEF s1
<1>3. Last(s1) = s[m]
  BY <1>1, <1>2 DEF Last
<1>4. p = [tree |-> u, stack |-> Append(s1, EndLoc)]
  BY <1>3 DEF AddEndToPath, s1, Cut
<1>5. LocOK(t, s[m]) /\ Len(s[m].node) = m - 1
  BY <1>1 DEF Path
<1>6. IsCut(t, s[m], u) /\ Tree(u)
  BY <1>5, CutFacts, CutTree
<1> HIDE DEF u
<1>7. Path(u, s1)
  <2>1. Len(s1) <= Len(s[m].node) + 1
    BY <1>1, <1>2, <1>5
  <2> QED BY <1>2, <1>5, <1>6, <2>1, CutPath
<1>8. /\ Append(s1, EndLoc) \in Seq(ChildLocs) /\ Len(Append(s1, EndLoc)) = m + 1
      /\ Append(s1, EndLoc)[m + 1] = EndLoc
      /\ \A i \in 1..m : Append(s1, EndLoc)[i] = s1[i]
  BY <1>1, <1>2, EndLocType, AppendProperties DEF Path
<1> DEFINE e == Append(s1, EndLoc)
<1> HIDE DEF e
<1>9. Front(e) = s1
  <2>1. e \in Seq(ChildLocs) /\ Len(e) = m + 1 /\ m \in 0..Len(e) /\ Len(e) - 1 = m
    BY <1>1, <1>8 DEF e
  <2>2. /\ SubSeq(e, 1, m) \in Seq(ChildLocs) /\ Len(SubSeq(e, 1, m)) = m
        /\ \A i \in 1..m : SubSeq(e, 1, m)[i] = e[i]
    BY <2>1, Prefix
  <2>3. \A i \in 1..m : SubSeq(e, 1, m)[i] = s1[i]
    BY <1>8, <2>2 DEF e
  <2>4. SubSeq(e, 1, m) = s1
    BY <1>2, <1>7, <2>2, <2>3, SeqEqual DEF Path
  <2> QED BY <2>1, <2>4 DEF Front
<1>10. EndedPath(u, e)
  <2>1. e \in Seq(ChildLocs) /\ Len(e) = m + 1 /\ e[m + 1] = EndLoc /\ e[m] = s[m]
    BY <1>1, <1>2, <1>8 DEF e
  <2>2. u[s[m].node].kids[s[m].idx] = "end"
    BY <1>5, <1>6 DEF IsCut, LocOK
  <2>3. Len(e) > 1 /\ Len(e) - 1 = m /\ e[Len(e)] = EndLoc
    BY <1>1, <2>1
  <2> QED BY <1>7, <1>9, <2>1, <2>2, <2>3 DEF EndedPath
<1>11. EndsAt(t, s, m, p)
  BY <1>1, <1>2, <1>4, <1>6, <1>8 DEF EndsAt
<1> HIDE DEF p
<1>12. p.tree = u /\ p.stack = e
  BY <1>4 DEF e
<1> QED BY <1>1, <1>6, <1>10, <1>11, <1>12 DEF p

\* A location of a path that ends with the end node.
LEMMA EndedNode ==
  ASSUME NEW t, Tree(t), NEW s, EndedPath(t, s), NEW k \in 1..(Len(s) - 1)
  PROVE  /\ Front(s)[k] = s[k] /\ s[k].node \in DOMAIN t /\ s[k].node \in Names
         /\ s[k].idx \in DOMAIN t[s[k].node].kids /\ s[k].idx \in Nat
         /\ Len(s[k].node) = k - 1
<1>1. Len(s) \in Nat /\ Len(s) > 1 /\ s \in Seq(ChildLocs) /\ Path(t, Front(s))
  BY LenProperties DEF EndedPath
<1>2. Len(Front(s)) = Len(s) - 1 /\ Front(s)[k] = s[k]
  <2>1. Len(s) - 1 \in 0..Len(s)
    BY <1>1
  <2> QED BY <1>1, <2>1, Prefix DEF Front
<1>3. k \in 1..Len(Front(s))
  BY <1>2
<1>4. LocOK(t, s[k]) /\ Len(s[k].node) = k - 1
  BY <1>1, <1>2, <1>3 DEF Path
<1> QED BY <1>2, <1>4, TreeNames DEF LocOK

\* A path that ends with the end node, and the path in front of it.
LEMMA EndedFacts ==
  ASSUME NEW t, Tree(t), NEW s, EndedPath(t, s)
  PROVE  /\ Len(s) \in Nat /\ Len(s) > 1 /\ s[Len(s)] = EndLoc /\ s \in Seq(ChildLocs)
         /\ Path(t, Front(s)) /\ Len(Front(s)) = Len(s) - 1
         /\ \A k \in 1..(Len(s) - 1) :
              /\ Front(s)[k] = s[k] /\ s[k].node \in DOMAIN t /\ s[k].node \in Names
              /\ s[k].idx \in DOMAIN t[s[k].node].kids /\ s[k].idx \in Nat
              /\ Len(s[k].node) = k - 1
         /\ s[1] = RootLoc
<1>1. /\ Len(s) \in Nat /\ Len(s) > 1 /\ s[Len(s)] = EndLoc /\ s \in Seq(ChildLocs)
      /\ Path(t, Front(s))
  BY LenProperties DEF EndedPath
<1>2. Len(Front(s)) = Len(s) - 1 /\ \A k \in 1..(Len(s) - 1) : Front(s)[k] = s[k]
  <2>1. Len(s) - 1 \in 0..Len(s)
    BY <1>1
  <2> QED BY <1>1, <2>1, Prefix DEF Front
<1>3. Front(s)[1] = RootLoc
  BY <1>1 DEF Path
<1>4. ASSUME NEW k \in 1..(Len(s) - 1)
      PROVE  /\ Front(s)[k] = s[k] /\ s[k].node \in DOMAIN t /\ s[k].node \in Names
             /\ s[k].idx \in DOMAIN t[s[k].node].kids /\ s[k].idx \in Nat
             /\ Len(s[k].node) = k - 1
  BY EndedNode
<1>5. s[1] = RootLoc
  <2>1. 1 \in 1..(Len(s) - 1)
    BY <1>1
  <2> QED BY <1>2, <1>3, <2>1
<1> QED BY <1>1, <1>2, <1>4, <1>5

\* The record r of the node c takes the place of the one the tree holds, if it holds
\* one: it may have more children, which are null.
Extends(t, c, r) ==
  /\ r \in Records /\ r.stmt # 0 /\ Len(r.kids) = Width(r)
  /\ c \in DOMAIN t =>
       /\ r.stmt = t[c].stmt /\ r.value = t[c].value /\ Len(t[c].kids) <= Len(r.kids)
       /\ \A i \in 1..Len(t[c].kids) : r.kids[i] = t[c].kids[i]
  /\ \A i \in 1..Len(r.kids) :
       r.kids[i] # "null" => c \in DOMAIN t /\ i \in 1..Len(t[c].kids)

\* The tree u is t with the record r for the node at loc.
Grown(t, loc, r, u) ==
  /\ DOMAIN u = DOMAIN t \cup {Child(loc)} /\ u[Child(loc)] = r
  /\ \A m \in DOMAIN t : m # Child(loc) /\ m # loc.node => u[m] = t[m]
  /\ u[loc.node] \in Records
  /\ u[loc.node].stmt = t[loc.node].stmt /\ u[loc.node].covered = t[loc.node].covered
  /\ u[loc.node].value = t[loc.node].value /\ u[loc.node].vars = t[loc.node].vars
  /\ Len(u[loc.node].kids) = Len(t[loc.node].kids)
  /\ \A i \in 1..Len(t[loc.node].kids) :
       u[loc.node].kids[i] = IF i = loc.idx THEN "node" ELSE t[loc.node].kids[i]

\* A tree with such a record is a tree, and its paths stay.
LEMMA GrowTree ==
  ASSUME NEW t, Tree(t), NEW loc, LocOK(t, loc), NEW r, Extends(t, Child(loc), r),
         r.stmt = Goes(t[loc.node], loc.idx), NEW u, Grown(t, loc, r, u)
  PROVE  Tree(u) /\ \A s : Path(t, s) => Path(u, s)
<1> DEFINE p == loc.node  c == Child(loc)
<1>1. /\ p \in DOMAIN t /\ p \in Names /\ loc.idx \in Nat /\ Len(p) \in Nat
      /\ loc.idx \in 1..Len(t[p].kids)
  <2>1. p \in DOMAIN t /\ p \in Names /\ loc.idx \in 1..Len(t[p].kids)
    BY TreeNames DEF LocOK
  <2>2. Len(p) \in Nat
    BY <2>1, LenProperties DEF Names
  <2> QED BY <2>1, <2>2
<1>2. c \in Names /\ c # Root /\ c # p
  <2>1. c = Append(p, loc.idx)
    BY DEF Child
  <2> HIDE DEF c
  <2>2. c \in Names /\ c # Root /\ Len(c) = Len(p) + 1
    BY <1>1, <2>1, ChildName
  <2> QED BY <1>1, <2>2
<1> HIDE DEF c
<1>3. ASSUME NEW n \in DOMAIN u, n # c, n # p PROVE n \in DOMAIN t /\ u[n] = t[n]
  <2>1. DOMAIN u = DOMAIN t \cup {c} /\ \A m \in DOMAIN t : m # c /\ m # p => u[m] = t[m]
    BY DEF Grown, c
  <2> QED BY <1>3, <2>1
<1>4. \A n \in DOMAIN u : n \in Names /\ u[n] \in Records
  BY <1>1, <1>2, <1>3, TreeNames DEF Grown, Extends, c
<1>5. ASSUME NEW n \in DOMAIN t
      PROVE  /\ n \in DOMAIN u /\ u[n].stmt = t[n].stmt /\ u[n].value = t[n].value
             /\ Len(t[n].kids) <= Len(u[n].kids)
             /\ \A i \in 1..Len(t[n].kids) :
                  \/ n = p /\ i = loc.idx /\ u[n].kids[i] = "node"
                  \/ ~(n = p /\ i = loc.idx) /\ u[n].kids[i] = t[n].kids[i]
  <2>1. n \in DOMAIN u /\ Len(t[n].kids) \in Nat
    BY TreeNames DEF Grown
  <2>2. CASE n = c
    BY <1>2, <2>1, <2>2 DEF Grown, Extends, c
  <2>3. CASE n = p
    BY <2>1, <2>3 DEF Grown
  <2>4. CASE n # c /\ n # p
    BY <2>1, <2>4 DEF Grown, c
  <2> QED BY <2>2, <2>3, <2>4
<1>6. ASSUME NEW n \in DOMAIN u PROVE NodeOK(u, n)
  <2>1. CASE n = c
    BY <1>2, <1>4, <2>1 DEF Grown, Extends, NodeOK, c
  <2>2. CASE n = p
    <3>1. NodeOK(t, p)
      BY <1>1 DEF Tree
    <3>2. Width(u[p]) = Width(t[p])
      BY DEF Width, Grown
    <3> QED BY <1>4, <2>2, <3>1, <3>2 DEF Grown, NodeOK
  <2>3. CASE n # c /\ n # p
    BY <1>3, <2>3 DEF Tree, NodeOK
  <2> QED BY <2>1, <2>2, <2>3
<1>7. \A m \in DOMAIN t : \A i : Goes(u[m], i) = Goes(t[m], i)
  BY <1>5 DEF Goes
<1>8. \A m \in DOMAIN t : \A i \in DOMAIN t[m].kids : i \in DOMAIN u[m].kids
  <2> SUFFICES ASSUME NEW m \in DOMAIN t, NEW i \in DOMAIN t[m].kids
               PROVE  i \in DOMAIN u[m].kids
    OBVIOUS
  <2>1. i \in 1..Len(t[m].kids) /\ Len(t[m].kids) \in Nat
    BY TreeNames
  <2>2. m \in DOMAIN u /\ Len(t[m].kids) <= Len(u[m].kids)
    BY <1>5
  <2>3. DOMAIN u[m].kids = 1..Len(u[m].kids) /\ Len(u[m].kids) \in Nat
    BY <1>4, <2>2, KidFacts
  <2> QED BY <2>1, <2>2, <2>3
<1>9. ASSUME NEW n \in DOMAIN u PROVE HangsOK(u, n)
  <2>1. CASE n = c
    <3>1. n = Append(p, loc.idx) /\ u[n].stmt = Goes(u[p], loc.idx)
      BY <1>1, <1>7, <2>1 DEF Grown, Child, c
    <3>2. p \in DOMAIN u /\ loc.idx \in DOMAIN u[p].kids
      BY <1>1, <1>5, <1>8, TreeNames
    <3> QED BY <3>1, <3>2 DEF HangsOK
  <2>2. CASE n # c
    <3> SUFFICES ASSUME n # Root
                 PROVE  \E m \in DOMAIN u : \E i \in DOMAIN u[m].kids :
                          n = Append(m, i) /\ u[n].stmt = Goes(u[m], i)
      BY DEF HangsOK
    <3>1. n \in DOMAIN t
      BY <1>1, <1>3, <2>2
    <3>2. PICK m \in DOMAIN t : \E i \in DOMAIN t[m].kids : n = Append(m, i)
            /\ t[n].stmt = Goes(t[m], i)
      BY <3>1 DEF Tree, HangsOK
    <3>3. PICK i \in DOMAIN t[m].kids : n = Append(m, i) /\ t[n].stmt = Goes(t[m], i)
      BY <3>2
    <3>4. m \in DOMAIN u /\ i \in DOMAIN u[m].kids /\ u[n].stmt = t[n].stmt
      BY <1>5, <1>8, <3>1
    <3>5. Goes(u[m], i) = Goes(t[m], i)
      BY <1>7
    <3>6. n = Append(m, i) /\ u[n].stmt = Goes(u[m], i)
      BY <3>3, <3>4, <3>5
    <3> QED BY <3>4, <3>6
  <2> QED BY <2>1, <2>2
<1>10. ASSUME NEW n \in DOMAIN u PROVE LinksOK(u, n)
  <2> SUFFICES ASSUME NEW i \in DOMAIN u[n].kids
               PROVE  u[n].kids[i] = "node" <=> Append(n, i) \in DOMAIN u
    BY DEF LinksOK
  <2>1. i \in Nat /\ i \in 1..Len(u[n].kids) /\ n \in Names
    BY <1>4, KidFacts
  <2>2. Append(n, i) = c <=> n = p /\ i = loc.idx
    <3>1. Append(n, i) = Append(p, loc.idx) => n = p /\ i = loc.idx
      BY <1>1, <2>1, NameInjective
    <3> QED BY <3>1 DEF Child, c
  <2>3. Append(n, i) \in DOMAIN u <=> Append(n, i) \in DOMAIN t \/ (n = p /\ i = loc.idx)
    BY <2>2 DEF Grown, c
  <2>4. CASE n \in DOMAIN t /\ i \in 1..Len(t[n].kids)
    <3>1. t[n].kids[i] = "node" <=> Append(n, i) \in DOMAIN t
      BY <2>4, TreeNames DEF Tree, LinksOK
    <3>2. \/ n = p /\ i = loc.idx /\ u[n].kids[i] = "node"
          \/ ~(n = p /\ i = loc.idx) /\ u[n].kids[i] = t[n].kids[i]
      BY <1>5, <2>4
    <3> QED BY <2>3, <3>1, <3>2
  <2>5. CASE ~(n \in DOMAIN t /\ i \in 1..Len(t[n].kids))
    <3>1. n = c
      BY <1>1, <1>3, <2>1, <2>5 DEF Grown
    <3>2. u[n].kids[i] = "null"
      BY <2>1, <2>5, <3>1 DEF Grown, Extends, c
    <3>3. Append(n, i) \notin DOMAIN t
      <4> SUFFICES ASSUME Append(n, i) \in DOMAIN t PROVE FALSE
        OBVIOUS
      <4>1. n \in DOMAIN t /\ i \in DOMAIN t[n].kids
        BY <2>1, ParentIn
      <4> QED BY <2>5, <4>1, TreeNames
    <3> QED BY <1>2, <2>3, <3>1, <3>2, <3>3
  <2> QED BY <2>4, <2>5
<1>11. Root \in DOMAIN u
  BY DEF Tree, Grown
<1>12. ASSUME NEW s, Path(t, s) PROVE Path(u, s)
  BY <1>5, <1>8, <1>12 DEF Path, LocOK
<1> QED BY <1>6, <1>9, <1>10, <1>11, <1>12 DEF Tree

-----------------------------------------------------------------------------
\* The node of the statement the script is at.

\* The record of a new node: all its children are null.
LEMMA NewNodeFacts ==
  ASSUME GivenInv, NEW l \in Locs, NEW v \in BOOLEAN
  PROVE  LET r == NewNode(l, v)
         IN  /\ r \in Records /\ r.stmt = l /\ r.stmt # 0 /\ r.value = v /\ ~r.covered
             /\ r.vars = <<>> /\ r.tried = {}
             /\ Len(r.kids) = Width(r)
             /\ \A i \in 1..Len(r.kids) : r.kids[i] = "null"
             /\ Kind(l) = "choice" => Len(r.kids) = 2
             /\ Kind(l) = "forall" => Len(r.kids) = 0
             /\ Kind(l) \notin {"choice", "forall"} => Len(r.kids) = 1
<1> DEFINE r == NewNode(l, v)
           k == CASE Kind(l) = "choice" -> <<"null", "null">>
                  [] Kind(l) = "forall" -> <<>>
                  [] OTHER              -> <<"null">>
<1>1. l \in 1..Len(script) /\ Len(script) \in Nat
  BY ScriptFacts DEF Locs
<1>2. r = [stmt |-> l, covered |-> FALSE, value |-> v, vars |-> <<>>, tried |-> {}, kids |-> k]
  BY DEF NewNode
<1>3. /\ k \in Seq(Slots)
      /\ \A i \in 1..Len(k) : k[i] = "null"
      /\ Kind(l) = "choice" => Len(k) = 2
      /\ Kind(l) = "forall" => Len(k) = 0
      /\ Kind(l) \notin {"choice", "forall"} => Len(k) = 1
  <2>1. CASE Kind(l) = "choice"
    BY <2>1 DEF Slots
  <2>2. CASE Kind(l) = "forall"
    BY <2>2, EmptySeq DEF Slots
  <2>3. CASE Kind(l) \notin {"choice", "forall"}
    BY <2>3 DEF Slots
  <2> QED BY <2>1, <2>2, <2>3
<1> HIDE DEF k, r
<1>4. /\ r.stmt = l /\ r.covered = FALSE /\ r.value = v /\ r.vars = <<>> /\ r.tried = {}
      /\ r.kids = k
  BY <1>2
<1>5. r \in Records
  BY <1>1, <1>2, <1>3, EmptySeq DEF Records
<1>6. Len(r.kids) = Width(r)
  BY <1>1, <1>3, <1>4, EmptySeq DEF Width
<1> QED BY <1>1, <1>3, <1>4, <1>5, <1>6 DEF r

\* The tree's record of the statement's node, if it holds one.
LEMMA HereFacts ==
  ASSUME GivenInv, Tree(tree), Path(tree, stack), index \in 1..Len(stack),
         at = Goes(tree[stack[index].node], stack[index].idx)
  PROVE  /\ LocOK(tree, stack[index]) /\ Here \in Names /\ Here # Root
         /\ Here = Child(stack[index])
         /\ Existing => tree[Here] \in Records /\ tree[Here].stmt = at
         /\ at \in 1..Exit
         /\ index < Len(stack) => Existing /\ stack[index + 1].node = Here
<1> DEFINE p == stack[index].node  j == stack[index].idx
<1>1. p \in DOMAIN tree /\ p \in Names /\ j \in DOMAIN tree[p].kids /\ j \in Nat
  BY PathFacts
<1>2. Here = Append(p, j) /\ Here = Child(stack[index])
  BY DEF Here, Child, GetLastNodeInStack
<1>3. Here \in Names /\ Here # Root
  BY <1>1, <1>2, ChildName
<1>4. Existing => tree[Here] \in Records /\ tree[Here].stmt = at
  <2> SUFFICES ASSUME Existing PROVE tree[Here] \in Records /\ tree[Here].stmt = at
    OBVIOUS
  <2>1. Append(p, j) \in DOMAIN tree
    BY <1>2 DEF Existing
  <2>2. tree[Append(p, j)].stmt = at
    BY <1>1, <2>1, ParentIn
  <2> QED BY <1>2, <2>1, <2>2, TreeNames
<1>5. at \in 1..Exit
  BY <1>1, GoesFacts DEF Tree, NodeOK
<1>6. index < Len(stack) => Existing /\ stack[index + 1].node = Here
  <2> SUFFICES ASSUME index < Len(stack) PROVE Existing /\ stack[index + 1].node = Here
    OBVIOUS
  <2>1. index \in 1..(Len(stack) - 1) /\ index + 1 \in 1..Len(stack)
    BY PathFacts
  <2>2. stack[index + 1].node = Child(stack[index]) /\ stack[index + 1].node \in DOMAIN tree
    BY <2>1, PathFacts
  <2> QED BY <1>2, <2>2 DEF Existing
<1> QED BY <1>1, <1>2, <1>3, <1>4, <1>5, <1>6 DEF LocOK

\* What the statement consumes: the record found or made, a forall's with the variable
\* of the thread.
LEMMA HereExtends ==
  ASSUME GivenInv, Tree(tree), Path(tree, stack), index \in 1..Len(stack),
         at = Goes(tree[stack[index].node], stack[index].idx), at \in Locs, NEW v \in BOOLEAN
  PROVE  LET r == HereNode(v)
         IN  /\ Extends(tree, Here, r) /\ r.stmt = at
             /\ Kind(at) \notin {"choice", "forall"} => 1 \in DOMAIN r.kids
             /\ Kind(at) = "choice" => DOMAIN r.kids = {1, 2}
<1> DEFINE r == HereNode(v)
<1>1. Existing => tree[Here] \in Records /\ tree[Here].stmt = at
  BY HereFacts
<1>2. at # 0 /\ at \in Locs
  BY ScriptFacts DEF Locs
<1>3. CASE Existing
  <2>1. r = tree[Here] /\ Here \in DOMAIN tree
    BY <1>3 DEF HereNode, Existing
  <2>2. Len(r.kids) = Width(r) /\ Len(r.kids) \in Nat
    BY <2>1, TreeNames DEF Tree, NodeOK
  <2>3. Extends(tree, Here, r) /\ r.stmt = at
    BY <1>1, <1>2, <1>3, <2>1, <2>2 DEF Extends
  <2>4. DOMAIN r.kids = 1..Width(r)
    BY <2>1, <2>2, TreeNames
  <2>5. Kind(at) \notin {"choice", "forall"} => Width(r) = 1
    BY <1>2, <2>3 DEF Width
  <2>6. Kind(at) = "choice" => Width(r) = 2
    BY <1>2, <2>3 DEF Width
  <2> HIDE DEF r
  <2>7. Kind(at) \notin {"choice", "forall"} => 1 \in DOMAIN r.kids
    BY <2>4, <2>5
  <2>8. Kind(at) = "choice" => DOMAIN r.kids = {1, 2}
    BY <2>4, <2>6
  <2> QED BY <2>3, <2>7, <2>8 DEF r
<1>4. CASE ~Existing
  <2>1. r = NewNode(at, v) /\ Here \notin DOMAIN tree
    BY <1>4 DEF HereNode, Existing
  <2> HIDE DEF r
  <2>2. /\ r \in Records /\ r.stmt = at /\ Len(r.kids) = Width(r)
        /\ \A i \in 1..Len(r.kids) : r.kids[i] = "null"
        /\ Kind(at) = "choice" => Len(r.kids) = 2
        /\ Kind(at) \notin {"choice", "forall"} => Len(r.kids) = 1
    BY <1>2, <2>1, NewNodeFacts
  <2>3. Extends(tree, Here, r)
    BY <1>2, <2>1, <2>2 DEF Extends
  <2>4. DOMAIN r.kids = 1..Len(r.kids)
    BY <2>2, KidFacts
  <2>5. Kind(at) \notin {"choice", "forall"} => 1 \in DOMAIN r.kids
    BY <2>2, <2>4
  <2>6. Kind(at) = "choice" => DOMAIN r.kids = {1, 2}
    BY <2>2, <2>4
  <2> QED BY <2>2, <2>3, <2>5, <2>6 DEF r
<1> QED BY <1>3, <1>4

\* A forall's record with the variable of a thread.
LEMMA WithVarFacts ==
  ASSUME NEW r \in Records, NEW t \in Threads, Len(r.kids) = Len(r.vars)
  PROVE  LET q == WithVar(r, t)
             i == VarIndex(r, t)
         IN  /\ q \in Records /\ q.stmt = r.stmt /\ q.value = r.value
             /\ q.covered = r.covered /\ q.tried = r.tried
             /\ Len(q.kids) = Len(q.vars) /\ Len(r.kids) <= Len(q.kids)
             /\ \A k \in 1..Len(r.kids) : q.kids[k] = r.kids[k]
             /\ \A k \in 1..Len(q.kids) : k \in 1..Len(r.kids) \/ q.kids[k] = "null"
             /\ i \in DOMAIN q.kids
             /\ q = r \/ \E k \in 1..Len(q.kids) : q.kids[k] = "null"
<1> DEFINE q == WithVar(r, t)  i == VarIndex(r, t)
<1>1. /\ r.kids \in Seq(Slots) /\ r.vars \in Seq(Threads) /\ Len(r.vars) \in Nat
      /\ Len(r.kids) \in Nat /\ DOMAIN r.kids = 1..Len(r.kids)
      /\ DOMAIN r.vars = 1..Len(r.vars)
  BY LenProperties DEF Records
<1>2. i \in 1..(Len(r.vars) + 1)
  BY <1>1 DEF VarIndex
<1> HIDE DEF i
<1>3. CASE i <= Len(r.vars)
  <2>1. q = r
    BY <1>3 DEF WithVar, i
  <2>2. i \in DOMAIN r.kids
    BY <1>1, <1>2, <1>3
  <2> QED BY <1>1, <2>1, <2>2 DEF i
<1>4. CASE ~(i <= Len(r.vars))
  <2> DEFINE vs == Append(r.vars, t)  ks == Append(r.kids, "null")
  <2>1. q = [r EXCEPT !.vars = vs, !.kids = ks]
    BY <1>4 DEF WithVar, i
  <2>2. vs \in Seq(Threads) /\ Len(vs) = Len(r.vars) + 1
    BY <1>1, AppendProperties
  <2>3. /\ ks \in Seq(Slots) /\ Len(ks) = Len(r.kids) + 1 /\ ks[Len(r.kids) + 1] = "null"
        /\ \A k \in 1..Len(r.kids) : ks[k] = r.kids[k]
        /\ DOMAIN ks = 1..Len(ks)
    BY <1>1, AppendProperties, LenProperties DEF Slots
  <2> HIDE DEF q, vs, ks
  <2>4. /\ q.stmt = r.stmt /\ q.value = r.value /\ q.covered = r.covered
        /\ q.tried = r.tried
        /\ q.vars = vs /\ q.kids = ks
    BY <2>1 DEF Records
  <2>5. q \in Records
    BY <2>1, <2>2, <2>3 DEF Records
  <2>6. i \in DOMAIN q.kids
    BY <1>1, <1>2, <2>3, <2>4
  <2>7. \A k \in 1..Len(ks) : k \in 1..Len(r.kids) \/ ks[k] = "null"
    BY <1>1, <2>3
  <2>8. \E k \in 1..Len(ks) : ks[k] = "null"
    <3>1. Len(ks) \in 1..Len(ks) /\ ks[Len(ks)] = "null"
      BY <1>1, <2>3
    <3> QED BY <3>1
  <2> QED BY <1>1, <2>2, <2>3, <2>4, <2>5, <2>6, <2>7, <2>8 DEF q, i
<1> QED BY <1>3, <1>4

\* The tree of a consumption, and the path.
LEMMA ConsumeGrows ==
  ASSUME Tree(tree), NEW loc, LocOK(tree, loc), NEW c, c = Child(loc), NEW r,
         NEW u,
         u = Set([n \in DOMAIN tree \cup {c} |-> IF n = c THEN r ELSE tree[n]], loc, "node")
  PROVE  Grown(tree, loc, r, u)
<1> DEFINE v == [n \in DOMAIN tree \cup {c} |-> IF n = c THEN r ELSE tree[n]]
           p == loc.node
<1>1. /\ p \in DOMAIN tree /\ tree[p] \in Records /\ loc.idx \in DOMAIN tree[p].kids
      /\ p \in Names /\ loc.idx \in Nat /\ DOMAIN tree[p].kids = 1..Len(tree[p].kids)
  BY TreeNames DEF LocOK
<1>2. c # p
  <2>1. Len(Append(p, loc.idx)) = Len(p) + 1 /\ Len(p) \in Nat
    BY <1>1, ChildName
  <2>2. c = Append(p, loc.idx)
    BY DEF Child
  <2> QED BY <2>1, <2>2
<1>3. /\ DOMAIN v = DOMAIN tree \cup {c} /\ v[c] = r
      /\ \A m \in DOMAIN tree : m # c => v[m] = tree[m]
  OBVIOUS
<1> HIDE DEF v
<1>4. v[p] = tree[p] /\ p \in DOMAIN v
  BY <1>1, <1>2, <1>3
<1>5. /\ DOMAIN u = DOMAIN v
      /\ \A m \in DOMAIN v : m # p => u[m] = v[m]
      /\ u[p] \in Records
      /\ u[p].stmt = v[p].stmt /\ u[p].covered = v[p].covered
      /\ u[p].value = v[p].value /\ u[p].vars = v[p].vars
      /\ Len(u[p].kids) = Len(v[p].kids)
      /\ \A i \in DOMAIN v[p].kids :
           u[p].kids[i] = IF i = loc.idx THEN "node" ELSE v[p].kids[i]
  <2>1. u = Set(v, loc, "node")
    BY DEF v
  <2>2. "node" \in Slots /\ p \in DOMAIN v /\ v[p] \in Records
          /\ loc.idx \in DOMAIN v[p].kids
    BY <1>1, <1>4 DEF Slots
  <2> QED BY <2>1, <2>2, SetFacts
<1> QED BY <1>1, <1>2, <1>3, <1>4, <1>5 DEF Grown

\* While the script runs, the stack is a path and decides where the script is.
LEMMA RunningFacts ==
  ASSUME TreeInv, Running
  PROVE  /\ Path(tree, stack) /\ index \in 1..Len(stack)
         /\ at = Goes(tree[stack[index].node], stack[index].idx)
  BY DEF TreeInv, StackInv, Running

-----------------------------------------------------------------------------
\* The steps keep TreeInv.

\* The parts of the invariant while the script runs.
Follows(t, s, k, l) ==
  Tree(t) /\ Path(t, s) /\ k \in 1..Len(s) /\ l = Goes(t[s[k].node], s[k].idx)

\* A consumption extends the tree and the path, and the script follows them.
LEMMA ConsumeFollows ==
  ASSUME GivenInv, Follows(tree, stack, index, at), NEW r, Extends(tree, Here, r),
         r.stmt = at,
         NEW i \in DOMAIN r.kids, NEW label, NEW l, Consume(r, i, label, l), l = Goes(r, i),
         index < Len(stack) => l = Goes(r, stack[index + 1].idx)
  PROVE  /\ Follows(tree', stack', index', at') /\ Grown(tree, stack[index], r, tree')
         /\ at' \in 1..Exit
<1> DEFINE loc == stack[index]
<1>1. LocOK(tree, loc) /\ Here = Child(loc)
        /\ (index < Len(stack) => stack[index + 1].node = Here)
  BY HereFacts DEF Follows
<1>2. Grown(tree, loc, r, tree')
  <2>1. tree' = Set([n \in DOMAIN tree \cup {Here} |-> IF n = Here THEN r ELSE tree[n]],
                     loc, "node")
    BY DEF Consume, GetLastNodeInStack
  <2> QED BY <1>1, <2>1, ConsumeGrows DEF Follows
<1>3. Tree(tree') /\ Path(tree', stack)
  <2>1. r.stmt = Goes(tree[loc.node], loc.idx)
    BY DEF Follows
  <2>2. Extends(tree, Child(loc), r)
    BY <1>1
  <2> QED BY <1>1, <1>2, <2>1, <2>2, GrowTree DEF Follows
<1>4. index' = index + 1 /\ at' = l /\ index \in Nat /\ Len(stack) \in Nat
        /\ index <= Len(stack)
  BY PathFacts DEF Consume, AddToNodeStack, Follows
<1>5. tree'[Here] = r /\ Here \in DOMAIN tree'
  BY <1>1, <1>2 DEF Grown
<1>6. at' \in 1..Exit
  BY <1>4, GoesFacts DEF Extends
<1>7. CASE index < Len(stack)
  <2>1. stack' = stack
    BY <1>4, <1>7 DEF Consume, AddToNodeStack
  <2>2. index' \in 1..Len(stack')
    BY <1>4, <1>7, <2>1
  <2>3. l = Goes(tree'[stack'[index'].node], stack'[index'].idx)
    BY <1>1, <1>4, <1>5, <1>7, <2>1
  <2> QED BY <1>2, <1>3, <1>4, <1>6, <2>1, <2>2, <2>3 DEF Follows
<1>8. CASE index = Len(stack)
  <2> DEFINE new == [node |-> Here, idx |-> i]
  <2>1. stack' = Append(stack, new)
    BY <1>8 DEF Consume, AddToNodeStack
  <2>2. Here = Child(Last(stack))
    BY <1>1, <1>8 DEF Last
  <2>3. Path(tree', stack')
    BY <1>3, <1>5, <2>1, <2>2, PathAppend
  <2>4. new \in ChildLocs
    <3>1. i \in Nat /\ Here \in Names
      BY HereFacts, KidFacts DEF Extends, Follows
    <3> QED BY <3>1 DEF ChildLocs
  <2>5. Len(stack') = Len(stack) + 1 /\ stack'[Len(stack) + 1] = new
    BY <2>1, <2>4, AppendProperties DEF Path, Follows
  <2>6. index' \in 1..Len(stack') /\ stack'[index'] = new
    BY <1>4, <1>8, <2>5
  <2>7. l = Goes(tree'[stack'[index'].node], stack'[index'].idx)
    BY <1>5, <2>6
  <2> QED BY <1>2, <1>3, <1>4, <1>6, <2>3, <2>6, <2>7 DEF Follows
<1> QED BY <1>4, <1>7, <1>8

\* The script does not change, so what is shown of the new tree holds after the step.
LEMMA SameScript ==
  ASSUME GivenInv, UNCHANGED given
  PROVE  /\ GivenInv'
         /\ Tree(tree') => Tree(tree)'
         /\ \A r, i : Goes(r, i)' = Goes(r, i)
         /\ Exit' = Exit /\ Locs' = Locs /\ \A l : Kind(l)' = Kind(l)
<1>1. script' = script /\ config' = config /\ faults' = faults
  BY DEF given
<1>2. GivenInv'
  BY <1>1 DEF GivenInv
<1>3. /\ \A r, i : Goes(r, i)' = Goes(r, i)
      /\ Exit' = Exit /\ Locs' = Locs /\ \A l : Kind(l)' = Kind(l)
  BY <1>1 DEF Goes, Kind, Exit, Locs
<1>4. Records' = Records /\ \A r : Width(r)' = Width(r)
  BY <1>1 DEF Records, Width, Kind
<1>5. Tree(tree') => Tree(tree)'
  BY <1>3, <1>4 DEF Tree, NodeOK, HangsOK, LinksOK
<1> QED BY <1>2, <1>3, <1>5

\* A step of the script that keeps it running.
LEMMA StaysRunning ==
  ASSUME TreeInv, Running, UNCHANGED given, Follows(tree', stack', index', at'), pc' = pc,
         at' \in 1..Exit, reason' = reason, selected' \in Threads,
         failed' \in {"none", "Choice", "Statement", "Restart"},
         waiting' = FALSE
           \/ (waiting' = TRUE /\ at' \in Locs /\ Kind(at') \in Selections \cup {"trans"})
  PROVE  TreeInv'
<1>1. GivenInv' /\ Exit' = Exit /\ Locs' = Locs /\ Kind(at)' = Kind(at')
  BY SameScript DEF TreeInv, Kind, given
<1>2. Tree(tree)'
  BY SameScript DEF TreeInv, Follows
<1>3. ControlInv'
  BY <1>1 DEF TreeInv, ControlInv, Running
<1>4. StackInv'
  <2>1. Path(tree, stack)' /\ (index \in 1..Len(stack))'
    BY DEF Follows, Path, LocOK
  <2>2. (at = Goes(tree[stack[index].node], stack[index].idx))'
    BY Zenon DEF Follows, Goes, Kind, given
  <2> QED BY <2>1, <2>2 DEF StackInv, Running
<1> QED BY <1>1, <1>2, <1>3, <1>4 DEF TreeInv

\* A step that throws a BacktrackException or reaches the end of the script.
LEMMA GoesToEnd ==
  ASSUME TreeInv, Running, UNCHANGED <<given, stack, index, at, selected>>, Tree(tree'),
         Path(tree', stack), pc' = "end", reason' \in Reasons, waiting' = FALSE,
         failed' \in {"none", "Choice", "Statement", "Restart"}
  PROVE  TreeInv'
<1>1. GivenInv' /\ Exit' = Exit /\ Tree(tree)'
  BY SameScript DEF TreeInv
<1>2. ControlInv'
  BY <1>1 DEF TreeInv, ControlInv
<1>3. StackInv'
  <2>1. Path(tree, stack)' /\ (index \in 1..Len(stack))'
    BY RunningFacts DEF Path, LocOK
  <2> QED BY <2>1 DEF StackInv
<1> QED BY <1>1, <1>2, <1>3 DEF TreeInv

\* Those parts hold while the script runs.
LEMMA FollowsNow ==
  ASSUME TreeInv, Running
  PROVE  GivenInv /\ Follows(tree, stack, index, at)
  BY RunningFacts DEF TreeInv, Follows

\* The next branch, where the stack decides it.
LEMMA NextInStack ==
  ASSUME TreeInv, Running
  PROVE  /\ index < Len(stack) => /\ Existing /\ GetNextNodeInStack = stack[index + 1]
                                  /\ stack[index + 1].node = Here
                                  /\ stack[index + 1].idx \in DOMAIN tree[Here].kids
                                  /\ stack[index + 1].idx \in Nat
                                  /\ stack[index + 1].idx > 0
         /\ ~(index < Len(stack)) => /\ GetNextNodeInStack.idx = 0 /\ index = Len(stack)
                                     /\ GetNextNodeInStack.node = Get(tree, Last(stack))
<1>1. Follows(tree, stack, index, at) /\ GivenInv
  BY FollowsNow
<1>2. ASSUME index < Len(stack)
      PROVE  /\ Existing /\ GetNextNodeInStack = stack[index + 1]
             /\ stack[index + 1].node = Here
             /\ stack[index + 1].idx \in DOMAIN tree[Here].kids
             /\ stack[index + 1].idx \in Nat /\ stack[index + 1].idx > 0
  <2>1. index + 1 \in 1..Len(stack)
    BY <1>1, <1>2, PathFacts DEF Follows
  <2>2. Existing /\ stack[index + 1].node = Here
    BY <1>1, <1>2, HereFacts DEF Follows
  <2>3. /\ stack[index + 1].idx \in DOMAIN tree[stack[index + 1].node].kids
        /\ stack[index + 1].idx \in Nat /\ stack[index + 1].idx > 0
    BY <1>1, <2>1, PathFacts DEF Follows
  <2> QED BY <1>2, <2>2, <2>3 DEF GetNextNodeInStack
<1>3. ASSUME ~(index < Len(stack))
      PROVE  /\ GetNextNodeInStack.idx = 0 /\ index = Len(stack)
             /\ GetNextNodeInStack.node = Get(tree, Last(stack))
  <2>1. index = Len(stack)
    BY <1>1, <1>3, PathFacts DEF Follows
  <2> QED BY <1>3, <2>1 DEF GetNextNodeInStack
<1> QED BY <1>2, <1>3

\* ChoiceCovered keeps TreeInv.
LEMMA StepChoiceCovered ==
  ASSUME TreeInv, ChoiceCovered
  PROVE  TreeInv'
<1>1. Running /\ Existing
  BY DEF ChoiceCovered, AtStatement, HereCovers
<1>2. Here \in DOMAIN tree /\ Tree(tree) /\ Path(tree, stack)
  BY <1>1, RunningFacts DEF Existing, TreeInv
<1>3. tree' = [tree EXCEPT ![Here].covered = TRUE]
  BY DEF ChoiceCovered
<1>4. DOMAIN tree' = DOMAIN tree /\ \A n \in DOMAIN tree : tree'[n] \in Records
        /\ SameShape(tree'[n], tree[n])
  <2>1. DOMAIN tree' = DOMAIN tree
    BY <1>3
  <2>2. ASSUME NEW n \in DOMAIN tree
        PROVE  tree'[n] \in Records /\ SameShape(tree'[n], tree[n])
    <3>1. tree[n] \in Records
      BY <1>2, TreeNames
    <3>2. tree'[n] = tree[n] \/ tree'[n] = [tree[n] EXCEPT !.covered = TRUE]
      BY <1>3
    <3> QED BY <3>1, <3>2 DEF Records, SameShape
  <2> QED BY <2>1, <2>2
<1>5. Tree(tree') /\ Path(tree', stack)
  BY <1>2, <1>4, ReshapeTree
<1>6. /\ UNCHANGED <<given, stack, index, at, selected>> /\ pc' = "end" /\ waiting' = FALSE
      /\ reason' \in Reasons /\ failed' \in {"none", "Choice", "Statement", "Restart"}
  BY DEF ChoiceCovered, Backtrack, Assert, Reasons, TreeInv, ControlInv
<1> QED BY <1>1, <1>5, <1>6, GoesToEnd

\* DSLChoice keeps TreeInv: the branch is one of the choice's two.
LEMMA StepChoice ==
  ASSUME TreeInv, DSLChoice
  PROVE  TreeInv'
<1> DEFINE r == HereNode(FALSE)
<1>1. Running /\ at \in Locs /\ Kind(at) = "choice"
  BY DEF DSLChoice, AtStatement
<1>2. PICK i \in Branches : /\ Assert(SameKind /\ i \notin CoveredBranches, "Choice")
                            /\ Consume(r, i, Answer[i], script[at].next[i])
  BY DEF DSLChoice
<1>3. GivenInv /\ Follows(tree, stack, index, at)
  BY <1>1, FollowsNow
<1>4. Extends(tree, Here, r) /\ r.stmt = at /\ DOMAIN r.kids = {1, 2}
        /\ (Existing => r = tree[Here])
  BY <1>1, <1>3, HereExtends DEF Follows, HereNode
<1> HIDE DEF r
<1>5. i \in {1, 2} /\ (index < Len(stack) => i = stack[index + 1].idx)
  <2>1. CASE index < Len(stack)
    <3>1. GetNextNodeInStack = stack[index + 1]
            /\ stack[index + 1].idx \in DOMAIN tree[Here].kids /\ Existing
            /\ stack[index + 1].idx > 0
          /\ stack[index + 1].idx \in Nat
      BY <1>1, <2>1, NextInStack
    <3>2. stack[index + 1].idx # 0
      BY <3>1
    <3>3. i = stack[index + 1].idx
      BY <1>2, <3>1, <3>2 DEF Branches
    <3> QED BY <1>4, <3>1, <3>3
  <2>2. CASE ~(index < Len(stack))
    <3>1. GetNextNodeInStack.idx = 0
      BY <1>1, <2>2, NextInStack
    <3> QED BY <1>2, <2>2, <3>1 DEF Branches
  <2> QED BY <2>1, <2>2
<1>6. at # 0 /\ script[at].next[i] = Goes(r, i)
  <2>1. at # 0
    BY <1>1, <1>3, ScriptFacts DEF Locs
  <2> QED BY <1>1, <1>4, <2>1 DEF Goes
<1>7. Follows(tree', stack', index', at') /\ at' \in 1..Exit
  BY <1>2, <1>3, <1>4, <1>5, <1>6, ConsumeFollows
<1>8. /\ UNCHANGED given /\ pc' = pc /\ reason' = reason /\ selected' \in Threads
      /\ waiting' = FALSE
      /\ failed' \in {"none", "Choice", "Statement", "Restart"}
  BY <1>2 DEF DSLChoice, Consume, Assert, TreeInv, ControlInv
<1> QED BY <1>1, <1>7, <1>8, StaysRunning

\* DSLConditional keeps TreeInv: the value is the one the node was created with.
LEMMA StepConditional ==
  ASSUME TreeInv, DSLConditional
  PROVE  TreeInv'
<1>1. Running /\ at \in Locs /\ Kind(at) = "cond"
  BY DEF DSLConditional, AtStatement
<1>2. PICK v \in CondValues :
        /\ HereNode(v).value = v
        /\ Consume(HereNode(v), 1, Answer[CondIndex(v)], script[at].next[CondIndex(v)])
  BY DEF DSLConditional
<1> DEFINE r == HereNode(v)
<1>3. GivenInv /\ Follows(tree, stack, index, at)
  BY <1>1, FollowsNow
<1>4. v \in BOOLEAN
  BY DEF CondValues
<1>5. Extends(tree, Here, r) /\ r.stmt = at /\ 1 \in DOMAIN r.kids
  BY <1>1, <1>3, <1>4, HereExtends DEF Follows
<1>6. \A i : script[at].next[CondIndex(v)] = Goes(r, i)
  <2>1. at # 0
    BY <1>1, <1>3, ScriptFacts DEF Locs
  <2> QED BY <1>1, <1>2, <1>5, <2>1 DEF Goes
<1>7. Follows(tree', stack', index', at') /\ at' \in 1..Exit
  <2> HIDE DEF r
  <2>1. Consume(r, 1, Answer[CondIndex(v)], script[at].next[CondIndex(v)])
    BY <1>2 DEF r
  <2> QED BY <1>3, <1>5, <1>6, <2>1, ConsumeFollows
<1>8. /\ UNCHANGED given /\ pc' = pc /\ reason' = reason /\ selected' \in Threads
      /\ waiting' = FALSE
      /\ failed' \in {"none", "Choice", "Statement", "Restart"}
  BY <1>2 DEF DSLConditional, Consume, Assert, TreeInv, ControlInv
<1> QED BY <1>1, <1>7, <1>8, StaysRunning

\* The statements whose node has one child, and the foralls: the branch does not say
\* where the script goes.
LEMMA StepSelection ==
  ASSUME TreeInv, Running, at \in Locs, Kind(at) \in Selections \cup {"trans"},
         NEW r, Extends(tree, Here, r), r.stmt = at, NEW i \in DOMAIN r.kids, NEW label,
         Consume(r, i, label, script[at].next[1]), selected' \in Threads, UNCHANGED failed
  PROVE  TreeInv'
<1>1. GivenInv /\ Follows(tree, stack, index, at)
  BY FollowsNow
<1>2. at # 0
  BY <1>1, ScriptFacts DEF Locs
<1>3. \A k : script[at].next[1] = Goes(r, k)
  BY <1>2 DEF Goes, Selections
<1>4. Follows(tree', stack', index', at') /\ at' \in 1..Exit
  BY <1>1, <1>3, ConsumeFollows
<1>5. UNCHANGED given /\ pc' = pc /\ reason' = reason /\ waiting' = FALSE
      /\ failed' \in {"none", "Choice", "Statement", "Restart"}
  BY DEF Consume, TreeInv, ControlInv
<1> QED BY <1>4, <1>5, StaysRunning

\* DSLTransition keeps TreeInv.
LEMMA StepTransition ==
  ASSUME TreeInv, DSLTransition
  PROVE  TreeInv'
<1>1. Running /\ at \in Locs /\ Kind(at) = "trans"
  BY DEF DSLTransition, AtStatement
<1>2. Extends(tree, Here, HereNode(FALSE)) /\ HereNode(FALSE).stmt = at
        /\ 1 \in DOMAIN HereNode(FALSE).kids
  BY <1>1, FollowsNow, HereExtends DEF Follows
<1>3. selected' \in Threads
  BY DEF DSLTransition, TreeInv, ControlInv
<1> QED BY <1>1, <1>2, <1>3, StepSelection DEF DSLTransition

\* ExistsSelect keeps TreeInv.
LEMMA StepExists ==
  ASSUME TreeInv, NEW t \in Threads, ExistsSelect(t)
  PROVE  TreeInv'
<1>1. Running /\ at \in Locs /\ Kind(at) = "exists"
  BY DEF ExistsSelect, AtStatement
<1>2. Extends(tree, Here, HereNode(FALSE)) /\ HereNode(FALSE).stmt = at
        /\ 1 \in DOMAIN HereNode(FALSE).kids
  BY <1>1, FollowsNow, HereExtends DEF Follows
<1> QED BY <1>1, <1>2, StepSelection DEF ExistsSelect, Selections

\* A forall's record with the variable of a thread extends the one in the tree.
LEMMA VarExtends ==
  ASSUME TreeInv, Running, at \in Locs, Kind(at) = "forall", NEW t \in Threads
  PROVE  LET r == HereNode(FALSE)
         IN  /\ r \in Records /\ Len(r.kids) = Len(r.vars) /\ r.stmt = at
             /\ Extends(tree, Here, WithVar(r, t)) /\ WithVar(r, t).stmt = at
             /\ VarIndex(r, t) \in DOMAIN WithVar(r, t).kids
<1> DEFINE r == HereNode(FALSE)  q == WithVar(r, t)
<1>1. Extends(tree, Here, r) /\ r.stmt = at /\ r.stmt # 0
  BY FollowsNow, HereExtends DEF Follows, Extends
<1> HIDE DEF r
<1>2. r \in Records /\ Len(r.kids) = Len(r.vars)
  BY <1>1 DEF Extends, Width
<1>3. /\ q \in Records /\ q.stmt = r.stmt /\ q.value = r.value
      /\ Len(q.kids) = Len(q.vars) /\ Len(r.kids) <= Len(q.kids)
      /\ \A k \in 1..Len(r.kids) : q.kids[k] = r.kids[k]
      /\ \A k \in 1..Len(q.kids) : k \in 1..Len(r.kids) \/ q.kids[k] = "null"
      /\ VarIndex(r, t) \in DOMAIN q.kids
  BY <1>2, WithVarFacts
<1> HIDE DEF q
<1>4. Width(q) = Len(q.vars)
  BY <1>1, <1>3 DEF Width
<1>5. Extends(tree, Here, q)
  <2>1. Here \in DOMAIN tree => r = tree[Here]
    BY DEF r, HereNode, Existing
  <2>2. CASE Here \in DOMAIN tree
    BY <1>1, <1>3, <1>4, <2>1, <2>2 DEF Extends
  <2>3. CASE Here \notin DOMAIN tree
    BY <1>1, <1>3, <1>4, <2>3 DEF Extends
  <2> QED BY <2>2, <2>3
<1> QED BY <1>1, <1>2, <1>3, <1>5 DEF r, q

\* ForallSelect keeps TreeInv: the stack's child is the one consumed again.
LEMMA StepForallSelect ==
  ASSUME TreeInv, NEW t \in Threads, ForallSelect(t)
  PROVE  TreeInv'
<1>1. Running /\ at \in Locs /\ Kind(at) = "forall"
  BY DEF ForallSelect, AtStatement
<1> DEFINE r == HereNode(FALSE)  q == WithVar(r, t)
<1>2. Extends(tree, Here, q) /\ q.stmt = at /\ VarIndex(r, t) \in DOMAIN q.kids
  BY <1>1, VarExtends
<1>3. /\ Consume(q, VarIndex(r, t), t, script[at].next[1])
      /\ selected' \in Threads /\ UNCHANGED failed
  BY DEF ForallSelect
<1> QED BY <1>1, <1>2, <1>3, StepSelection DEF Selections

\* A refused thread may have added a child to the forall's node.
LEMMA RefuseGrows ==
  ASSUME TreeInv, NEW t \in Threads, ForallRefuse(t)
  PROVE  LET q == WithVar(HereNode(FALSE), t)
         IN  /\ Running /\ at \in Locs /\ Kind(at) = "forall"
             /\ Extends(tree, Here, q) /\ q.stmt = at
             /\ LocOK(tree, stack[index]) /\ Here = Child(stack[index])
             /\ Here \in DOMAIN tree
             /\ tree' = [tree EXCEPT ![Here] = q] /\ Grown(tree, stack[index], q, tree')
             /\ Tree(tree') /\ Path(tree', stack)
<1> DEFINE r == HereNode(FALSE)  q == WithVar(r, t)
<1>1. Running /\ at \in Locs /\ Kind(at) = "forall"
  BY DEF ForallRefuse, AtStatement
<1>2. Extends(tree, Here, q)
  BY <1>1, VarExtends
<1>3. GivenInv /\ Follows(tree, stack, index, at)
  BY <1>1, FollowsNow
<1>4. Existing
  <2>1. ~(GetNextNodeInStack.idx \in {0, VarIndex(r, t)}) \/ Existing
    BY DEF ForallRefuse, MaySelect
  <2> QED BY <1>1, <2>1, NextInStack
<1>5. tree' = [tree EXCEPT ![Here] = q]
  BY <1>4 DEF ForallRefuse, HereNode
<1> HIDE DEF q
<1>6. LocOK(tree, stack[index]) /\ Here = Child(stack[index]) /\ Here \in DOMAIN tree
  BY <1>3, <1>4, HereFacts DEF Follows, Existing
<1>7. Grown(tree, stack[index], q, tree')
  <2> DEFINE p == stack[index].node  j == stack[index].idx
  <2>1. /\ p \in DOMAIN tree /\ p \in Names /\ j \in Nat /\ tree[p] \in Records
        /\ j \in DOMAIN tree[p].kids /\ DOMAIN tree[p].kids = 1..Len(tree[p].kids)
    BY <1>3, <1>6, TreeNames DEF LocOK, Follows
  <2>2. Here = Append(p, j)
    BY <1>6 DEF Child
  <2>3. tree[p].kids[j] = "node"
    BY <1>3, <1>6, <2>1, <2>2, ParentIn DEF Follows
  <2>4. Here # p
    <3>1. Len(Append(p, j)) = Len(p) + 1 /\ Len(p) \in Nat
      BY <2>1, ChildName
    <3> QED BY <2>2, <3>1
  <2>5. DOMAIN tree' = DOMAIN tree \cup {Here} /\ tree'[Here] = q
    BY <1>5, <1>6
  <2>6. \A m \in DOMAIN tree : m # Here => tree'[m] = tree[m]
    BY <1>5
  <2>7. tree'[p] = tree[p]
    BY <2>1, <2>4, <2>6
  <2>8. \A i \in 1..Len(tree[p].kids) : tree[p].kids[i] = IF i = j THEN "node" ELSE tree[p].kids[i]
    BY <2>3
  <2> QED BY <1>6, <2>1, <2>5, <2>6, <2>7, <2>8 DEF Grown
<1>8. q.stmt = at
  BY <1>1, VarExtends DEF q
<1>9. Tree(tree') /\ Path(tree', stack)
  <2>1. q.stmt = Goes(tree[stack[index].node], stack[index].idx)
    BY <1>3, <1>8 DEF Follows
  <2>2. Extends(tree, Child(stack[index]), q)
    BY <1>2, <1>6
  <2> QED BY <1>3, <1>6, <1>7, <2>1, <2>2, GrowTree DEF Follows
<1> QED BY <1>1, <1>2, <1>5, <1>6, <1>7, <1>8, <1>9 DEF q

\* ForallRefuse keeps TreeInv: the child it may add is null.
LEMMA StepForallRefuse ==
  ASSUME TreeInv, NEW t \in Threads, ForallRefuse(t)
  PROVE  TreeInv'
<1> DEFINE q == WithVar(HereNode(FALSE), t)
<1>1. /\ Running /\ at \in Locs /\ Kind(at) = "forall" /\ Here = Child(stack[index])
      /\ tree' = [tree EXCEPT ![Here] = q] /\ Tree(tree') /\ Path(tree', stack)
  BY RefuseGrows
<1>2. GivenInv /\ Follows(tree, stack, index, at)
  BY <1>1, FollowsNow
<1> HIDE DEF q
<1>3. Follows(tree', stack', index', at')
  <2>1. stack' = stack /\ index' = index /\ at' = at
    BY DEF ForallRefuse
  <2> DEFINE n == stack[index].node
  <2>2. n \in DOMAIN tree /\ n # Here
    <3>1. n \in Names /\ stack[index].idx \in Nat /\ n \in DOMAIN tree
      BY <1>2, PathFacts DEF Follows
    <3>2. Len(Append(n, stack[index].idx)) = Len(n) + 1 /\ Len(n) \in Nat
      BY <3>1, ChildName
    <3> QED BY <1>1, <3>1, <3>2 DEF Child
  <2>3. tree'[n] = tree[n]
    BY <1>1, <2>2
  <2> QED BY <1>1, <1>2, <2>1, <2>3 DEF Follows
<1>4. /\ UNCHANGED given /\ pc' = pc /\ at' = at /\ reason' = reason
      /\ selected' \in Threads
       /\ failed' \in {"none", "Choice", "Statement", "Restart"} /\ waiting' = waiting
       /\ waiting = TRUE /\ at' \in 1..Exit
  BY DEF ForallRefuse, TreeInv, ControlInv
<1> QED BY <1>1, <1>3, <1>4, StaysRunning DEF Selections

\* Submit keeps TreeInv.
LEMMA StepSubmit ==
  ASSUME TreeInv, Submit
  PROVE  TreeInv'
<1>1. Running /\ at \in Locs /\ Kind(at) \in Selections \cup {"trans"}
  BY DEF Submit, AtStatement
<1>2. Follows(tree', stack', index', at')
  <2>1. tree' = tree /\ stack' = stack /\ index' = index /\ at' = at
    BY DEF Submit
  <2> QED BY <1>1, <2>1, FollowsNow
<1>3. /\ UNCHANGED given /\ pc' = pc /\ at' = at /\ reason' = reason
      /\ selected' \in Threads
      /\ failed' \in {"none", "Choice", "Statement", "Restart"} /\ waiting' = TRUE
      /\ at' \in 1..Exit
  BY DEF Submit, Assert, TreeInv, ControlInv
<1> QED BY <1>1, <1>2, <1>3, StaysRunning

\* The steps that throw with the tree as it is.
LEMMA StepThrow ==
  ASSUME TreeInv, ReplayFails \/ Timeout \/ ThreadsAllEnded \/ AssumeFails
  PROVE  TreeInv'
<1>1. Running /\ tree' = tree /\ pc' = "end" /\ waiting' = FALSE /\ reason' \in Reasons
      /\ UNCHANGED <<given, stack, index, at, selected>>
      /\ failed' \in {"none", "Choice", "Statement", "Restart"}
  BY DEF ReplayFails, Timeout, ThreadsAllEnded, AssumeFails, AtStatement, Backtrack,
     Assert, Reasons,
         TreeInv, ControlInv
<1>2. Tree(tree') /\ Path(tree', stack)
  BY <1>1, FollowsNow DEF Follows
<1> QED BY <1>1, <1>2, GoesToEnd

\* ScriptEnd keeps TreeInv.
LEMMA StepScriptEnd ==
  ASSUME TreeInv, ScriptEnd
  PROVE  TreeInv'
<1>1. Running /\ tree' = tree /\ pc' = "end" /\ waiting' = waiting /\ reason' \in Reasons
      /\ UNCHANGED <<given, stack, index, at, selected>>
      /\ failed' \in {"none", "Choice", "Statement", "Restart"} /\ at = Exit
  BY DEF ScriptEnd, Reasons, TreeInv, ControlInv
<1>2. Tree(tree') /\ Path(tree', stack)
  BY <1>1, FollowsNow DEF Follows
<1>3. waiting' = FALSE
  <2>1. Exit \notin Locs
    BY ScriptFacts DEF Exit, Locs, TreeInv
  <2> QED BY <1>1, <2>1 DEF TreeInv, ControlInv
<1> QED BY <1>1, <1>2, <1>3, GoesToEnd

\* EndTest keeps TreeInv: the end node is at the end of the path.
LEMMA StepEndTest ==
  ASSUME TreeInv, EndTest
  PROVE  TreeInv'
<1> DEFINE p == AddEndToPath(tree, stack, index)
<1>1. Running
  BY DEF EndTest, AtStatement
<1>2. Tree(p.tree) /\ EndedPath(p.tree, p.stack)
  BY <1>1, FollowsNow, AddEnd DEF Follows
<1>3. tree' = p.tree /\ stack' = p.stack /\ index' = Len(p.stack)
  BY DEF EndTest
<1> HIDE DEF p
<1>4. GivenInv' /\ Exit' = Exit /\ Tree(tree)'
  BY <1>2, <1>3, SameScript DEF TreeInv, EndTest
<1>5. ControlInv'
  BY <1>4 DEF TreeInv, ControlInv, EndTest, Reasons
<1>6. EndedPath(tree, stack)' /\ (index = Len(stack))' /\ pc' = "end"
  <2>1. EndedPath(tree', stack') /\ index' = Len(stack') /\ pc' = "end"
    BY <1>2, <1>3 DEF EndTest
  <2> QED BY <2>1 DEF EndedPath, Front, Path, LocOK
<1> QED BY <1>4, <1>5, <1>6 DEF TreeInv, StackInv

-----------------------------------------------------------------------------
\* EndWithSuccess and DoBacktrack.

\* The path the script ends with has its end node, if a thread has inserted it.
LEMMA EndFacts ==
  ASSUME TreeInv, Ending
  PROVE  /\ GivenInv /\ Tree(tree) /\ index \in 1..Len(stack)
         /\ \/ /\ Path(tree, stack) /\ LastParent \in DOMAIN tree /\ LastParent # EndNode
            \/ /\ EndedPath(tree, stack) /\ LastParent = EndNode
               /\ NodeKind(LastParent) = "end"
               /\ LastParent # Root
<1>1. /\ GivenInv /\ Tree(tree)
      /\ (Path(tree, stack) /\ index \in 1..Len(stack))
           \/ (EndedPath(tree, stack) /\ index = Len(stack))
  BY DEF TreeInv, StackInv, Ending
<1>2. CASE Path(tree, stack) /\ index \in 1..Len(stack)
  <2>1. LastParent \in DOMAIN tree
    BY <1>1, <1>2, PathFacts DEF LastParent, GetLastNodeInStack
  <2> QED BY <1>1, <1>2, <2>1, TreeNames
<1>3. CASE EndedPath(tree, stack) /\ index = Len(stack)
  <2>1. stack[index] = EndLoc /\ index \in 1..Len(stack)
    BY <1>1, <1>3, EndedFacts
  <2>2. LastParent = EndNode
    BY <2>1 DEF LastParent, GetLastNodeInStack, EndLoc
  <2>3. EndNode # Root
    BY MarkerNames, RootName
  <2> QED BY <1>1, <1>3, <2>1, <2>2, <2>3 DEF NodeKind
<1> QED BY <1>1, <1>2, <1>3

\* Marking the selection after which all threads have ended leaves the shape.
LEMMA AfterAllEndedFacts ==
  ASSUME TreeInv, Ending
  PROVE  /\ DOMAIN AfterAllEnded = DOMAIN tree
         /\ \A n \in DOMAIN tree : /\ AfterAllEnded[n] \in Records
                                   /\ SameShape(AfterAllEnded[n], tree[n])
         /\ Tree(AfterAllEnded) /\ \A s : Path(tree, s) => Path(AfterAllEnded, s)
<1> DEFINE u == AfterAllEnded
<1>1. u = tree \/ u = [tree EXCEPT ![LastParent].covered = TRUE]
  BY DEF AfterAllEnded
<1>2. Tree(tree)
  BY EndFacts
<1> HIDE DEF u
<1>3. DOMAIN u = DOMAIN tree
  BY <1>1
<1>4. ASSUME NEW n \in DOMAIN tree PROVE u[n] \in Records /\ SameShape(u[n], tree[n])
  <2>1. tree[n] \in Records
    BY <1>2, TreeNames
  <2>2. u[n] = tree[n] \/ u[n] = [tree[n] EXCEPT !.covered = TRUE]
    BY <1>1
  <2> QED BY <2>1, <2>2 DEF Records, SameShape
<1>5. Tree(u) /\ \A s : Path(tree, s) => Path(u, s)
  BY <1>2, <1>3, <1>4, ReshapeTree
<1> QED BY <1>3, <1>4, <1>5 DEF u

\* The path that coverage is propagated along ends with the end node.
LEMMA CompletePathFacts ==
  ASSUME TreeInv, Ending
  PROVE  Tree(CompletePath.tree) /\ EndedPath(CompletePath.tree, CompletePath.stack)
<1>1. CASE LastParent = EndNode
  <2>1. EndedPath(tree, stack) /\ Tree(tree)
    BY <1>1, EndFacts
  <2> QED BY <1>1, <2>1 DEF CompletePath
<1>2. CASE LastParent # EndNode
  <2>1. Tree(AfterAllEnded) /\ Path(AfterAllEnded, stack) /\ index \in 1..Len(stack)
    BY <1>2, EndFacts, AfterAllEndedFacts
  <2>2. CompletePath = AddEndToPath(AfterAllEnded, stack, index)
    BY <1>2 DEF CompletePath
  <2> QED BY <2>1, <2>2, AddEnd
<1> QED BY <1>1, <1>2

\* Coverage never stops right below the root, which has one child; so what is left of
\* the stack is empty or starts at the root.
LEMMA HighFacts ==
  ASSUME NEW p, Tree(p.tree), EndedPath(p.tree, p.stack), NEW m,
         NEW high \in 1..Len(p.stack), HighestCovered(p, high, m)
  PROVE  high = 1 \/ high > 2
<1> SUFFICES ASSUME high = 2 PROVE FALSE
  BY EndedFacts
<1>1. p.stack[1].node = Root /\ p.stack[1].idx = 1
  BY EndedFacts DEF RootLoc
<1>2. DOMAIN p.tree[Root].kids = 1..1
  <2>1. Root \in DOMAIN p.tree /\ NodeOK(p.tree, Root)
    BY DEF Tree
  <2>2. Len(p.tree[Root].kids) = 1
    BY <2>1 DEF NodeOK, Width
  <2> QED BY <2>1, <2>2, TreeNames
<1>3. Covers(p.tree, Root, {1}, m)
  BY <1>2 DEF Covers
<1>4. ~Covers(p.tree, Root, {1}, m)
  <2>1. ~Covers(p.tree, p.stack[high - 1].node, {p.stack[high - 1].idx}, m)
    BY DEF HighestCovered
  <2>2. high - 1 = 1
    OBVIOUS
  <2> QED BY <1>1, <2>1, <2>2
<1> QED BY <1>3, <1>4

\* What CoverTree leaves: a cut, or the tree with the path covered from high on.
PathNodes(s, high) == {s[k].node : k \in high..(Len(s) - 1)}

\* CoverTree deletes the largest covered subtree or covers the nodes of the path.
LEMMA CoverCases ==
  ASSUME NEW p, Tree(p.tree), EndedPath(p.tree, p.stack), NEW high \in 1..Len(p.stack)
  PROVE  LET u == CoverTree(p, high)
             s == p.stack
         IN  \/ /\ high \in 2..(Len(s) - 1) /\ LocOK(p.tree, s[high - 1])
                /\ Len(s[high - 1].node) = high - 2
                /\ u = Cut(p.tree, s[high - 1])
             \/ /\ high = 1 \/ high = Len(s) \/ ~config.delete
                /\ u = [n \in DOMAIN p.tree |->
                          [p.tree[n] EXCEPT !.covered = @ \/ n \in PathNodes(s, high)]]
<1> DEFINE s == p.stack
<1>1. Len(s) \in Nat /\ Len(s) > 1
  BY EndedFacts
<1>2. CASE config.delete /\ high \in 2..(Len(s) - 1)
  <2>1. CoverTree(p, high) = Set(Delete(p.tree, s[high].node), s[high - 1], "end")
    BY <1>2 DEF CoverTree
  <2>2. Path(p.tree, Front(s)) /\ Len(Front(s)) = Len(s) - 1
    BY EndedFacts
  <2>3. high - 1 \in 1..(Len(s) - 1) /\ high \in 1..(Len(s) - 1)
          /\ high - 1 \in 1..(Len(Front(s)) - 1)
    BY <1>1, <1>2, <2>2
  <2>4. Front(s)[(high - 1) + 1].node = Child(Front(s)[high - 1])
    BY <2>2, <2>3, PathFacts
  <2>5. Front(s)[high] = s[high] /\ Front(s)[high - 1] = s[high - 1]
    BY <2>3, EndedFacts
  <2>6. s[high].node = Child(s[high - 1])
    BY <1>1, <2>4, <2>5
  <2>7. LocOK(p.tree, s[high - 1]) /\ Len(s[high - 1].node) = high - 2
    <3> DEFINE k == high - 1
    <3> HIDE DEF k
    <3>1. k \in 1..(Len(s) - 1)
      BY <2>3 DEF k
    <3>2. k = high - 1
      BY DEF k
    <3>3. LocOK(p.tree, s[k]) /\ Len(s[k].node) = k - 1
      <4>1. /\ s[k].node \in DOMAIN p.tree /\ s[k].idx \in DOMAIN p.tree[s[k].node].kids
            /\ Len(s[k].node) = k - 1
        BY <3>1, EndedNode
      <4> QED BY <4>1 DEF LocOK
    <3>4. high \in Nat
      BY <1>1
    <3> QED BY <3>2, <3>3, <3>4
  <2> QED BY <1>2, <2>1, <2>6, <2>7 DEF Cut
<1>3. CASE ~(config.delete /\ high \in 2..(Len(s) - 1))
  <2>1. high = 1 \/ high = Len(s) \/ ~config.delete
    BY <1>1, <1>3
  <2> QED BY <1>3, <2>1 DEF CoverTree, PathNodes
<1> QED BY <1>2, <1>3

\* The tree and the stack that DoBacktrack leaves.
LEMMA DoBacktrackFacts ==
  ASSUME GivenInv, NEW p, Tree(p.tree), EndedPath(p.tree, p.stack), NEW m,
         NEW high \in 1..Len(p.stack), HighestCovered(p, high, m)
  PROVE  LET u == CoverTree(p, high)
             s == TruncatedStack(p, high)
         IN  /\ Tree(u)
             /\ \/ high = 1 /\ s = <<>> /\ Len(s) = 0 /\ u[Root].covered
                \/ /\ high > 2 /\ Path(u, s) /\ Len(s) = high - 2
                   /\ \A k \in 1..Len(s) : s[k] = p.stack[k]
<1> DEFINE s == p.stack  u == CoverTree(p, high)  q == SubSeq(Front(s), 1, high - 2)
<1>1. /\ Len(s) \in Nat /\ Len(s) > 1 /\ Path(p.tree, Front(s))
      /\ Len(Front(s)) = Len(s) - 1
      /\ s[1] = RootLoc /\ high \in Nat /\ s \in Seq(ChildLocs)
  BY EndedFacts
<1>2. high > 2 => /\ Path(p.tree, q) /\ Len(q) = high - 2
                  /\ \A k \in 1..(high - 2) : q[k] = Front(s)[k] /\ Front(s)[k] = s[k]
  <2> SUFFICES ASSUME high > 2
               PROVE  /\ Path(p.tree, q) /\ Len(q) = high - 2
                      /\ \A k \in 1..(high - 2) : q[k] = Front(s)[k] /\ Front(s)[k] = s[k]
    OBVIOUS
  <2>1. high - 2 \in 1..Len(Front(s))
    BY <1>1
  <2>2. Path(p.tree, q) /\ Len(q) = high - 2 /\ \A k \in 1..(high - 2) : q[k] = Front(s)[k]
    BY <1>1, <2>1, PathPrefix
  <2>3. \A k \in 1..(high - 2) : Front(s)[k] = s[k]
    BY <1>1, EndedFacts
  <2> QED BY <2>2, <2>3
<1>3. high > 2 => SubSeq(s, 1, high - 2) = q
  <2> SUFFICES ASSUME high > 2 PROVE SubSeq(s, 1, high - 2) = q
    OBVIOUS
  <2> DEFINE a == SubSeq(s, 1, high - 2)
  <2>1. a \in Seq(ChildLocs) /\ Len(a) = high - 2 /\ \A k \in 1..(high - 2) : a[k] = s[k]
    <3>1. high - 2 \in 0..Len(s)
      BY <1>1
    <3> QED BY <1>1, <3>1, Prefix
  <2> HIDE DEF a, q
  <2>2. a = q
    BY <1>2, <2>1, SeqEqual DEF Path
  <2> QED BY <2>2 DEF a
<1> HIDE DEF q
<1>4. CASE high = 1
  <2>1. u = [n \in DOMAIN p.tree |->
          [p.tree[n] EXCEPT !.covered = @ \/ n \in PathNodes(s, high)]]
    BY <1>1, <1>4, CoverCases
  <2>2. Root \in PathNodes(s, high)
    <3>1. 1 \in high..(Len(s) - 1) /\ s[1].node = Root
      BY <1>1, <1>4 DEF RootLoc
    <3> QED BY <3>1 DEF PathNodes
  <2>3. Root \in DOMAIN p.tree /\ p.tree[Root] \in Records
    BY TreeNames DEF Tree
  <2>4. u[Root].covered
    BY <2>1, <2>2, <2>3 DEF Records
  <2>5. Tree(u)
    <3>1. DOMAIN u = DOMAIN p.tree
      BY <2>1
    <3>2. ASSUME NEW n \in DOMAIN p.tree
          PROVE  u[n] \in Records /\ SameShape(u[n], p.tree[n])
      <4>1. p.tree[n] \in Records
        BY TreeNames
      <4>2. u[n] = [p.tree[n] EXCEPT !.covered = @ \/ n \in PathNodes(s, high)]
        BY <2>1
      <4> QED BY <4>1, <4>2 DEF Records, SameShape
    <3> QED BY <3>1, <3>2, ReshapeTree
  <2>6. TruncatedStack(p, high) = <<>> /\ Len(<<>>) = 0
    BY <1>4, EmptySeq DEF TruncatedStack
  <2> QED BY <1>4, <2>4, <2>5, <2>6
<1>5. CASE high > 2
  <2>1. TruncatedStack(p, high) = q
    BY <1>3, <1>5 DEF TruncatedStack
  <2>2. CASE /\ high \in 2..(Len(s) - 1) /\ LocOK(p.tree, s[high - 1])
             /\ Len(s[high - 1].node) = high - 2 /\ u = Cut(p.tree, s[high - 1])
    <3>1. IsCut(p.tree, s[high - 1], u)
      BY <2>2, CutFacts
    <3> HIDE DEF u
    <3>2. Tree(u)
      BY <2>2, <3>1, CutTree
    <3>3. Path(u, q)
      <4>1. Len(q) <= Len(s[high - 1].node) + 1
        BY <1>1, <1>2, <1>5, <2>2
      <4> QED BY <1>2, <1>5, <2>2, <3>1, <4>1, CutPath
    <3> QED BY <1>2, <1>5, <2>1, <3>2, <3>3 DEF u
  <2>3. CASE u = [n \in DOMAIN p.tree |->
               [p.tree[n] EXCEPT !.covered = @ \/ n \in PathNodes(s, high)]]
    <3>1. DOMAIN u = DOMAIN p.tree
      BY <2>3
    <3>2. ASSUME NEW n \in DOMAIN p.tree
          PROVE  u[n] \in Records /\ SameShape(u[n], p.tree[n])
      <4>1. p.tree[n] \in Records
        BY TreeNames
      <4>2. u[n] = [p.tree[n] EXCEPT !.covered = @ \/ n \in PathNodes(s, high)]
        BY <2>3
      <4> QED BY <4>1, <4>2 DEF Records, SameShape
    <3> HIDE DEF u
    <3>3. Tree(u) /\ Path(u, q)
      BY <1>2, <1>5, <3>1, <3>2, ReshapeTree
    <3> QED BY <1>2, <1>5, <2>1, <3>3 DEF u
  <2> QED BY <2>2, <2>3, CoverCases
<1> QED BY <1>4, <1>5, HighFacts

\* EndExists keeps TreeInv.
LEMMA StepEndExists ==
  ASSUME TreeInv, EndExists
  PROVE  TreeInv'
<1>1. Ending /\ NodeKind(LastParent) = "exists"
  BY DEF EndExists, TryAnother
<1>2. Tree(tree) /\ Path(tree, stack) /\ LastParent \in DOMAIN tree
        /\ index \in 1..Len(stack) /\ GivenInv
  BY <1>1, EndFacts
<1>3. /\ tree' = [tree EXCEPT ![LastParent].tried = @ \cup {selected}] /\ pc' = "explore"
      /\ UNCHANGED <<given, stack, index, at, waiting, selected, reason, marked, failed>>
  BY DEF EndExists
<1>4. DOMAIN tree' = DOMAIN tree
  BY <1>3
<1>5. ASSUME NEW n \in DOMAIN tree
      PROVE  tree'[n] \in Records /\ SameShape(tree'[n], tree[n])
  <2>1. tree[n] \in Records /\ selected \in Threads
    BY <1>2, TreeNames DEF TreeInv, ControlInv
  <2>2. tree'[n] = tree[n] \/ tree'[n] = [tree[n] EXCEPT !.tried = @ \cup {selected}]
    BY <1>3
  <2> QED BY <2>1, <2>2 DEF Records, SameShape
<1>6. Tree(tree') /\ Path(tree', stack)
  BY <1>2, <1>4, <1>5, ReshapeTree
<1>7. GivenInv' /\ Tree(tree)' /\ Exit' = Exit
  BY <1>2, <1>3, <1>6, SameScript
<1>8. ControlInv'
  BY <1>1, <1>3, <1>7 DEF TreeInv, ControlInv, Ending
<1>9. StackInv'
  <2>1. Path(tree, stack)' /\ (index \in 1..Len(stack))'
    BY <1>2, <1>3, <1>6 DEF Path, LocOK
  <2> QED BY <1>3, <2>1 DEF StackInv
<1> QED BY <1>7, <1>8, <1>9 DEF TreeInv

\* EndBacktrack keeps TreeInv.
LEMMA StepEndBacktrack ==
  ASSUME TreeInv, EndBacktrack
  PROVE  TreeInv'
<1>1. Ending /\ pc' = "explore"
        /\ UNCHANGED <<given, at, waiting, selected, reason, failed>>
  BY DEF EndBacktrack
<1>2. PICK high \in 1..Len(CompletePath.stack) :
        /\ HighestCovered(CompletePath, high, marked \cup MarkBranch)
        /\ tree' = CoverTree(CompletePath, high)
        /\ stack' = TruncatedStack(CompletePath, high)
        /\ index' = Len(TruncatedStack(CompletePath, high))
  BY DEF EndBacktrack
<1> DEFINE p == CompletePath
<1>3. Tree(p.tree) /\ EndedPath(p.tree, p.stack) /\ GivenInv
  BY <1>1, CompletePathFacts, EndFacts
<1> HIDE DEF p
<1>4. /\ Tree(tree') /\ index' = Len(stack')
      /\ \/ high = 1 /\ stack' = <<>> /\ Len(stack') = 0 /\ tree'[Root].covered
         \/ high > 2 /\ Path(tree', stack') /\ Len(stack') = high - 2
  BY <1>2, <1>3, DoBacktrackFacts DEF p
<1>5. GivenInv' /\ Tree(tree)' /\ Exit' = Exit
  BY <1>1, <1>3, <1>4, SameScript
<1>6. ControlInv'
  BY <1>1, <1>5 DEF TreeInv, ControlInv, Ending
<1>7. StackInv'
  <2>1. CASE stack' = <<>> /\ Len(stack') = 0 /\ tree'[Root].covered
    BY <1>1, <1>4, <2>1 DEF StackInv
  <2>2. CASE high > 2 /\ Path(tree', stack') /\ Len(stack') = high - 2
    <3>1. Path(tree, stack)'
      BY <2>2 DEF Path, LocOK
    <3>2. (index \in 1..Len(stack))'
      BY <1>2, <1>4, <2>2
    <3> QED BY <1>1, <3>1, <3>2 DEF StackInv
  <2> QED BY <1>4, <2>1, <2>2
<1> QED BY <1>5, <1>6, <1>7 DEF TreeInv

\* RootCovered keeps TreeInv.
LEMMA StepRootCovered ==
  ASSUME TreeInv, RootCovered
  PROVE  TreeInv'
<1>1. /\ pc = "explore" /\ pc' = "terminated"
      /\ UNCHANGED <<given, tree, stack, index, at, waiting>>
      /\ UNCHANGED <<selected, reason, failed>>
  BY DEF RootCovered
<1>2. GivenInv' /\ Tree(tree)' /\ Exit' = Exit
  BY <1>1, SameScript DEF TreeInv
<1>3. ControlInv'
  BY <1>1, <1>2 DEF TreeInv, ControlInv
<1>4. StackInv'
  BY <1>1 DEF TreeInv, StackInv, Path, LocOK
<1> QED BY <1>2, <1>3, <1>4 DEF TreeInv

\* The location of the root is a path.
LEMMA RootPath ==
  ASSUME NEW t, Tree(t)
  PROVE  Path(t, <<RootLoc>>) /\ Len(<<RootLoc>>) = 1 /\ Goes(t[Root], 1) = 1
<1>1. Root \in DOMAIN t /\ NodeOK(t, Root)
  BY DEF Tree
<1>2. Len(t[Root].kids) = 1 /\ t[Root].stmt = 0
  BY <1>1 DEF NodeOK, Width
<1>3. 1 \in DOMAIN t[Root].kids
  BY <1>1, <1>2, TreeNames
<1>4. RootLoc \in ChildLocs /\ RootLoc.node = Root /\ RootLoc.idx = 1 /\ Len(Root) = 0
  BY RootName DEF RootLoc, ChildLocs
<1> DEFINE s == <<RootLoc>>
<1>5. s \in Seq(ChildLocs) /\ Len(s) = 1 /\ s[1] = RootLoc /\ s # <<>>
  BY <1>4
<1> HIDE DEF s
<1>6. Path(t, s)
  <2>1. Below(Root, Root)
    BY RootName, BelowSelf
  <2> QED BY <1>1, <1>3, <1>4, <1>5, <2>1 DEF Path, LocOK
<1> QED BY <1>2, <1>5, <1>6 DEF s, Goes

\* Restart keeps TreeInv, and its safe_assert holds: the stack starts at the root.
LEMMA StepRestart ==
  ASSUME TreeInv, Restart
  PROVE  TreeInv' /\ stack # <<>> /\ stack[1] = RootLoc
<1>1. /\ pc = "explore" /\ pc' = "script" /\ UNCHANGED <<given, tree, waiting, selected>>
      /\ stack' = IF config.keep THEN <<RootLoc>> ELSE stack
      /\ index' = 1 /\ at' = 1 /\ reason' = "SUCCESS" /\ ~tree[Root].covered
      /\ failed' \in {"none", "Choice", "Statement", "Restart"}
  BY DEF Restart, Assert, TreeInv, ControlInv
<1>2. GivenInv' /\ Tree(tree)' /\ Exit' = Exit
  BY <1>1, SameScript DEF TreeInv
<1>3. ControlInv'
  <2>1. 1 \in 1..Exit
    BY ScriptFacts DEF Exit, TreeInv
  <2> QED BY <1>1, <1>2, <2>1 DEF TreeInv, ControlInv, Reasons
<1>4. Path(tree, stack) /\ stack # <<>> /\ stack[1] = RootLoc
  BY <1>1 DEF TreeInv, StackInv, Path
<1>5. Path(tree, stack') /\ 1 \in 1..Len(stack')
  <2>1. CASE config.keep
    BY <1>1, <2>1, RootPath DEF TreeInv
  <2>2. CASE ~config.keep
    BY <1>1, <1>4, <2>2, PathFacts DEF TreeInv
  <2> QED BY <2>1, <2>2
<1>6. stack'[1] = RootLoc
  BY <1>5 DEF Path
<1>7. StackInv'
  <2>1. Path(tree, stack)' /\ (index \in 1..Len(stack))'
    BY <1>1, <1>5 DEF Path, LocOK
  <2>2. tree[Root].stmt = 0
    BY DEF TreeInv, Tree, NodeOK
  <2>3. (at = Goes(tree[stack[index].node], stack[index].idx))'
    <3>1. at' = 1 /\ tree'[stack'[index'].node].stmt = 0
      BY <1>1, <1>6, <2>2 DEF RootLoc
    <3> QED BY <3>1 DEF Goes
  <2> QED BY <1>1, <2>1, <2>3 DEF StackInv
<1> QED BY <1>2, <1>3, <1>4, <1>7 DEF TreeInv

\* A stutter keeps TreeInv.
LEMMA StepStutter ==
  ASSUME TreeInv, UNCHANGED vars
  PROVE  TreeInv'
<1>1. UNCHANGED <<given, tree, stack, index, at, waiting, selected, reason, pc, failed>>
  BY DEF vars
<1>2. GivenInv' /\ Tree(tree)' /\ Exit' = Exit
  BY <1>1, SameScript DEF TreeInv
<1>3. ControlInv'
  <2>1. at' = at /\ Locs' = Locs /\ Kind(at)' = Kind(at)
    BY <1>1 DEF Locs, Kind, given
  <2> QED BY <1>1, <1>2, <2>1 DEF TreeInv, ControlInv
<1>4. StackInv'
  <2>1. Path(tree, stack)' <=> Path(tree, stack)
    BY <1>1 DEF Path, LocOK
  <2>2. EndedPath(tree, stack)' <=> EndedPath(tree, stack)
    BY <1>1 DEF EndedPath, Front, Path, LocOK
  <2>3. Goes(tree[stack[index].node], stack[index].idx)'
          = Goes(tree[stack[index].node], stack[index].idx)
    BY <1>1, Zenon DEF Goes, Kind, given
  <2> QED BY <1>1, <2>1, <2>2, <2>3 DEF TreeInv, StackInv
<1> QED BY <1>2, <1>3, <1>4 DEF TreeInv

\* TreeInv holds at first, ...
LEMMA TreeStart ==
  ASSUME Init
  PROVE  TreeInv
<1>1. GivenInv
  BY DEF Init, GivenInv
<1>2. Len(script) \in Nat /\ 1 \in 1..Exit
  BY <1>1, ScriptFacts DEF Exit
<1>3. RootNode \in Records /\ RootNode.stmt = 0 /\ Len(RootNode.kids) = 1
      /\ DOMAIN RootNode.kids = {1} /\ RootNode.kids[1] = "null"
  <2>1. <<"null">> \in Seq(Slots) /\ Len(<<"null">>) = 1 /\ DOMAIN <<"null">> = {1}
          /\ <<"null">>[1] = "null"
    BY DEF Slots
  <2>2. RootNode = [stmt |-> 0, covered |-> FALSE, value |-> FALSE, vars |-> <<>>,
                    tried |-> {}, kids |-> <<"null">>]
    BY DEF RootNode
  <2>3. <<>> \in Seq(Threads)
    BY EmptySeq
  <2> QED BY <1>2, <2>1, <2>2, <2>3 DEF Records
<1>4. DOMAIN tree = {Root} /\ tree[Root] = RootNode
  BY DEF Init
<1>5. Tree(tree)
  <2>1. NodeOK(tree, Root)
    BY <1>3, <1>4, RootName DEF NodeOK, Width
  <2>2. LinksOK(tree, Root)
    <3>1. Append(Root, 1) # Root
      BY RootName, ChildName
    <3> QED BY <1>3, <1>4, <3>1 DEF LinksOK
  <2> QED BY <1>4, <2>1, <2>2 DEF Tree, HangsOK
<1>6. ControlInv
  <2>1. (CHOOSE t \in Threads : TRUE) \in Threads
    BY SearchAssumption
  <2> QED BY <1>2, <2>1 DEF Init, ControlInv, Reasons
<1>7. StackInv
  <2>1. stack = <<RootLoc>> /\ index = 1 /\ at = 1 /\ pc = "script"
    BY DEF Init
  <2>2. Path(tree, stack) /\ Len(stack) = 1 /\ Goes(tree[Root], 1) = 1
    BY <1>5, <2>1, RootPath
  <2>3. stack[1] = RootLoc
    BY <2>1
  <2> QED BY <2>1, <2>2, <2>3 DEF StackInv, RootLoc
<1> QED BY <1>1, <1>5, <1>6, <1>7 DEF TreeInv

\* ... and every step keeps it.
LEMMA TreeStep ==
  ASSUME TreeInv, [Next]_vars
  PROVE  TreeInv'
<1>1. CASE UNCHANGED vars
  BY <1>1, StepStutter
<1>2. CASE Step
  <2>1. CASE ReplayFails \/ Timeout \/ ThreadsAllEnded \/ AssumeFails
    BY <2>1, StepThrow
  <2>2. CASE \E t \in Threads : ForallSelect(t) \/ ForallRefuse(t) \/ ExistsSelect(t)
    BY <2>2, StepForallSelect, StepForallRefuse, StepExists
  <2>3. CASE ChoiceCovered \/ DSLChoice \/ DSLConditional \/ Submit \/ DSLTransition
    BY <2>3, StepChoiceCovered, StepChoice, StepConditional, StepSubmit, StepTransition
  <2>4. CASE EndTest \/ ScriptEnd \/ EndExists \/ EndBacktrack \/ RootCovered \/ Restart
    BY <2>4, StepEndTest, StepScriptEnd, StepEndExists, StepEndBacktrack, StepRootCovered,
       StepRestart
  <2> QED BY <1>2, <2>1, <2>2, <2>3, <2>4 DEF Step
<1> QED BY <1>1, <1>2 DEF Next

\* It implies the types ...
LEMMA TreeTypes ==
  ASSUME TreeInv
  PROVE  TypeOK
<1>1. ASSUME NEW n \in DOMAIN tree
      PROVE  /\ n \in Names
             /\ tree[n] \in [stmt : 0..Len(script), covered : BOOLEAN, value : BOOLEAN,
                             vars : Seq(Threads), tried : SUBSET Threads, kids : Seq(Slots)]
  BY TreeNames DEF TreeInv, Records
<1>2. stack \in Seq(ChildLocs) /\ index \in 0..Len(stack)
  <2>1. CASE Path(tree, stack) /\ index \in 1..Len(stack)
    BY <2>1, PathFacts DEF TreeInv, Path
  <2>2. CASE EndedPath(tree, stack) /\ index = Len(stack)
    BY <2>2, EndedFacts DEF TreeInv
  <2>3. CASE stack = <<>> /\ index = 0
    BY <2>3, EmptySeq
  <2> QED BY <2>1, <2>2, <2>3 DEF TreeInv, StackInv
<1> QED BY <1>1, <1>2 DEF TypeOK, TreeInv, ControlInv

\* The types of the tree, the stack and the script's state are kept.
THEOREM TypeCorrect == Spec => []TypeOK
<1>1. Init => TreeInv
  BY TreeStart
<1>2. TreeInv /\ [Next]_vars => TreeInv'
  BY TreeStep
<1>3. TreeInv => TypeOK
  BY TreeTypes
<1> QED BY <1>1, <1>2, <1>3, PTL DEF Spec

-----------------------------------------------------------------------------
\* No pointer dangles.

\* TreeInv implies that no pointer dangles.
LEMMA TreeLinked ==
  ASSUME TreeInv
  PROVE  PathLinked
<1>1. Tree(tree)
  BY DEF TreeInv
<1>2. ASSUME NEW n \in DOMAIN tree, NEW i \in DOMAIN tree[n].kids
      PROVE  tree[n].kids[i] = "node" <=> Append(n, i) \in DOMAIN tree
  BY <1>1 DEF Tree, LinksOK
<1>3. ASSUME pc = "script" PROVE Path(tree, stack) /\ index \in 1..Len(stack)
  BY <1>3 DEF TreeInv, StackInv
<1>4. ASSUME pc = "script", NEW k \in 1..(Len(stack) - 1)
      PROVE  Get(tree, stack[k]) = stack[k + 1].node
  <2>1. stack[k + 1].node = Child(stack[k])
          /\ tree[stack[k].node].kids[stack[k].idx] = "node"
    BY <1>1, <1>3, <1>4, PathLink
  <2> QED BY <2>1 DEF Get
<1>5. ASSUME pc = "script", NEW k \in 1..Len(stack)
      PROVE  stack[k].node \in DOMAIN tree
               /\ stack[k].idx \in DOMAIN tree[stack[k].node].kids
  BY <1>1, <1>3, <1>5, PathFacts
<1>6. ASSUME pc = "script" PROVE stack[1] = RootLoc
  BY <1>1, <1>3, <1>6, PathFacts
<1> QED BY <1>2, <1>3, <1>4, <1>5, <1>6 DEF PathLinked

\* What a run follows is a path of live nodes from the root, whatever disturbs the
\* search and under every setting.
THEOREM PathCorrect == Spec => []PathLinked
<1>1. Init => TreeInv
  BY TreeStart
<1>2. TreeInv /\ [Next]_vars => TreeInv'
  BY TreeStep
<1>3. TreeInv => PathLinked
  BY TreeLinked
<1> QED BY <1>1, <1>2, <1>3, PTL DEF Spec

-----------------------------------------------------------------------------
\* Coverage.

-----------------------------------------------------------------------------
\* Coverage.

\* A node but the root is a node of a statement; one with one child has it at 1.
LEMMA NodeFacts ==
  ASSUME GivenInv, NEW t, Tree(t), NEW n \in DOMAIN t
  PROVE  /\ n # Root => t[n].stmt \in Locs /\ t[n].stmt # 0
         /\ Root \in DOMAIN t /\ t[Root].stmt = 0
         /\ OneChild(t[n]) => DOMAIN t[n].kids = 1..1
         /\ n # Root /\ Kind(t[n].stmt) = "choice" => DOMAIN t[n].kids = {1, 2}
<1>1. n # Root => t[n].stmt \in Locs /\ t[n].stmt # 0
  <2>1. t[n].stmt \in 0..Len(script) /\ (t[n].stmt = 0 <=> n = Root)
    BY DEF Tree, NodeOK, Records
  <2> QED BY <2>1, ScriptFacts DEF Locs
<1>2. Root \in DOMAIN t /\ t[Root].stmt = 0 /\ (t[n].stmt = 0 <=> n = Root)
  BY DEF Tree, NodeOK
<1>3. Len(t[n].kids) = Width(t[n]) /\ DOMAIN t[n].kids = 1..Len(t[n].kids)
  BY TreeNames DEF Tree, NodeOK
<1>4. OneChild(t[n]) => DOMAIN t[n].kids = 1..1
  BY <1>3 DEF OneChild, Width
<1>5. n # Root /\ Kind(t[n].stmt) = "choice" => Len(t[n].kids) = 2
  BY <1>2, <1>3 DEF Width
<1> QED BY <1>1, <1>2, <1>3, <1>4, <1>5

\* A forall node is complete when it has a child for every thread of its scope.
FullSize(t, n) ==
  n # Root /\ Kind(t[n].stmt) = "forall" => Len(t[n].kids) = Cardinality(ScopeOf(t[n].stmt))

\* ComputeCoverage of a node.
LEMMA CoversWhen ==
  ASSUME NEW t, NEW n, NEW C, NEW m
  PROVE  Covers(t, n, C, m) <=>
           t[n].covered
             \/ (FullSize(t, n) /\ \A i \in DOMAIN t[n].kids \ C : ChildCovered(t, n, i, m))
  BY DEF Covers, FullSize

\* A marked branch is a choice's and ends the script, ...
LEMMA MarkedBranch ==
  ASSUME GivenInv, Calm(script, config, faults), NEW m, EndsOnly(m), NEW l \in Locs,
         NEW i, <<script[l].info, i>> \in m
  PROVE  /\ Kind(l) = "choice" /\ i \in {1, 2} /\ script[l].next[i] = Exit
         /\ \E b \in {1, 2} : script[l].next[b] # Exit
         /\ config.mark
<1>1. config.mark /\ MarksAgree(script)
  BY DEF EndsOnly, Calm
<1>2. PICK k \in Locs, b \in {1, 2} :
        Kind(k) = "choice" /\ script[k].next[b] = Exit
          /\ <<script[l].info, i>> = <<script[k].info, b>>
  BY DEF EndsOnly
<1>3. script[l].info = script[k].info /\ i = b
  BY <1>2
<1>4. k \in 1..Len(script) /\ l \in 1..Len(script) /\ script[k].kind = "choice"
  BY <1>2 DEF Locs, Kind
<1>5. /\ script[l].kind = "choice"
      /\ \A a \in {1, 2} : script[l].next[a] = Len(script) + 1
                            <=> script[k].next[a] = Len(script) + 1
      /\ \E a \in {1, 2} : script[k].next[a] # Len(script) + 1
  BY <1>1, <1>3, <1>4 DEF MarksAgree
<1> QED BY <1>1, <1>2, <1>3, <1>5 DEF Exit, Kind

\* ... and the other branch of the choice does not, and is not marked.
LEMMA OtherBranch ==
  ASSUME GivenInv, Calm(script, config, faults), NEW m, EndsOnly(m), NEW l \in Locs,
         NEW i \in {1, 2}, <<script[l].info, i>> \in m
  PROVE  /\ script[l].next[3 - i] # Exit /\ 3 - i \in {1, 2}
         /\ <<script[l].info, 3 - i>> \notin m
<1>1. script[l].next[i] = Exit /\ \E b \in {1, 2} : script[l].next[b] # Exit
  BY MarkedBranch
<1>2. 3 - i \in {1, 2} /\ \A b \in {1, 2} : b = i \/ b = 3 - i
  OBVIOUS
<1>3. script[l].next[3 - i] # Exit
  BY <1>1, <1>2
<1>4. <<script[l].info, 3 - i>> \notin m
  BY <1>3, MarkedBranch
<1> QED BY <1>2, <1>3, <1>4

\* A tree in which coverage, children and statements are the same is as closed.
LEMMA SameCoverage ==
  ASSUME NEW t, Tree(t), NEW u, DOMAIN u = DOMAIN t, GivenInv,
         \A n \in DOMAIN t : u[n].covered = t[n].covered /\ SameShape(u[n], t[n])
  PROVE  /\ \A n \in DOMAIN t : ClosedAt(t, n) => ClosedAt(u, n)
         /\ \A s : Path(t, s) /\ Uncovered(t, s) => Uncovered(u, s)
         /\ \A s, m : Path(t, s) /\ LastOpen(t, s, m) => LastOpen(u, s, m)
<1>1. ASSUME NEW n \in DOMAIN t, NEW i \in DOMAIN t[n].kids
      PROVE  /\ EndOrCovered(u, n, i) <=> EndOrCovered(t, n, i)
             /\ \A m : ChildCovered(u, n, i, m) <=> ChildCovered(t, n, i, m)
  <2>1. t[n].kids[i] = "node" => Append(n, i) \in DOMAIN t
    BY DEF Tree, LinksOK
  <2> QED BY <2>1 DEF EndOrCovered, SameShape, ChildCovered
<1>2. ASSUME NEW n \in DOMAIN t, ClosedAt(t, n) PROVE ClosedAt(u, n)
  <2> SUFFICES ASSUME OneChild(u[n]), EndOrCovered(u, n, 1)
               PROVE  u[n].covered \/ FoundCovered(u, n)
    BY DEF ClosedAt
  <2>1. OneChild(t[n])
    BY DEF OneChild, SameShape
  <2>2. 1 \in DOMAIN t[n].kids
    BY <2>1, NodeFacts
  <2>3. t[n].covered \/ FoundCovered(t, n)
    BY <1>1, <1>2, <2>1, <2>2 DEF ClosedAt
  <2>4. t[n].kids[1] = "node" => Append(n, 1) \in DOMAIN t
    BY <2>2 DEF Tree, LinksOK
  <2> QED BY <2>3, <2>4 DEF FoundCovered, SameShape
<1>3. ASSUME NEW s, Path(t, s)
      PROVE  /\ Uncovered(t, s) => Uncovered(u, s)
             /\ \A m : LastOpen(t, s, m) => LastOpen(u, s, m)
  <2>1. \A k \in 1..Len(s) : s[k].node \in DOMAIN t /\ s[k].idx \in DOMAIN t[s[k].node].kids
    BY <1>3, PathFacts
  <2>2. Len(s) \in 1..Len(s) /\ Last(s) = s[Len(s)] /\ s # <<>>
    BY <1>3, PathFacts DEF Last, Path
  <2>3. Last(s).node \in DOMAIN t /\ Last(s).idx \in DOMAIN t[Last(s).node].kids
    BY <2>1, <2>2
  <2>4. Uncovered(t, s) => Uncovered(u, s)
    BY <2>1 DEF Uncovered
  <2>5. ASSUME NEW m, LastOpen(t, s, m) PROVE LastOpen(u, s, m)
    BY <1>1, <2>3, <2>5 DEF LastOpen, SameShape
  <2> QED BY <2>4, <2>5
<1> QED BY <1>2, <1>3

\* A branch that leads to a node is not marked.
LEMMA LiveNotMarked ==
  ASSUME GivenInv, Calm(script, config, faults), NEW m, EndsOnly(m), NEW t, Tree(t),
         NEW n \in DOMAIN t, NEW i \in DOMAIN t[n].kids, t[n].kids[i] = "node", n # Root
  PROVE  <<script[t[n].stmt].info, i>> \notin m
<1> SUFFICES ASSUME <<script[t[n].stmt].info, i>> \in m PROVE FALSE
  OBVIOUS
<1>1. t[n].stmt \in Locs /\ t[n].stmt # 0 /\ n \in Names /\ i \in Nat
  BY NodeFacts, TreeNames, KidFacts
<1>2. ASSUME NEW l \in Locs, <<script[l].info, i>> \in m
      PROVE  Kind(l) = "choice" /\ script[l].next[i] = Exit
  BY <1>1, <1>2, MarkedBranch
<1>3. Goes(t[n], i) = Exit
  BY <1>1, <1>2 DEF Goes
<1>4. Append(n, i) \in DOMAIN t /\ Append(n, i) # Root
  BY <1>1, ChildName DEF Tree, LinksOK
<1>5. t[Append(n, i)].stmt = Goes(t[n], i)
  BY <1>1, <1>4, ParentIn
<1>6. t[Append(n, i)].stmt \in Locs
  BY <1>4, NodeFacts
<1> QED BY <1>3, <1>5, <1>6, ScriptFacts DEF Locs, Exit

\* The branches of a stack are open: all but the last for it is of nodes that are not covered.
LEMMA OpenBranches ==
  ASSUME GivenInv, Calm(script, config, faults), NEW m, EndsOnly(m), NEW t, Tree(t), NEW s,
         Path(t, s), Uncovered(t, s), LastOpen(t, s, m), NEW k \in 1..Len(s)
  PROVE  \/ k = Len(s) /\ t[s[k].node].stmt # 0 /\ Kind(t[s[k].node].stmt) = "exists"
         \/ ~ChildCovered(t, s[k].node, s[k].idx, m)
<1> DEFINE n == s[k].node  i == s[k].idx
<1>1. CASE k = Len(s)
  <2>1. Last(s) = s[k] /\ s # <<>>
    BY <1>1 DEF Last, Path
  <2> QED BY <1>1, <2>1 DEF LastOpen
<1>2. CASE k # Len(s)
  <2>1. k \in 1..(Len(s) - 1) /\ k + 1 \in 1..Len(s)
    BY <1>2, PathFacts
  <2>2. s[k + 1].node = Append(n, i) /\ t[n].kids[i] = "node"
    <3>1. s[k + 1].node = Child(s[k]) /\ t[n].kids[i] = "node"
      BY <2>1, PathLink
    <3> QED BY <3>1 DEF Child
  <2>3. /\ ~t[s[k + 1].node].covered /\ s[k + 1].node \in DOMAIN t
        /\ n \in DOMAIN t /\ i \in DOMAIN t[n].kids
    BY <2>1, PathFacts DEF Uncovered
  <2>4. ~EndOrCovered(t, n, i)
    BY <2>2, <2>3 DEF EndOrCovered
  <2>5. n # Root => <<script[t[n].stmt].info, i>> \notin m
    BY <2>2, <2>3, LiveNotMarked
  <2> QED BY <2>4, <2>5 DEF ChildCovered
<1> QED BY <1>1, <1>2

-----------------------------------------------------------------------------
\* What CoverInv says while the script runs.
LEMMA CoverNow ==
  ASSUME TreeInv, CoverInv, Running
  PROVE  /\ GivenInv /\ Calm(script, config, faults) /\ EndsOnly(marked)
         /\ Follows(tree, stack, index, at) /\ Tree(tree) /\ Path(tree, stack)
         /\ index \in 1..Len(stack)
         /\ \A n \in DOMAIN tree : ClosedAt(tree, n)
         /\ Uncovered(tree, stack) /\ LastOpen(tree, stack, marked)
         /\ reason # "THREADS_ALLENDED" /\ failed = "none" /\ pc = "script"
<1>1. GivenInv /\ Follows(tree, stack, index, at) /\ pc = "script"
  BY FollowsNow DEF Running
<1> QED BY <1>1 DEF Follows, CoverInv, CalmInv

\* The node of the statement, where coverage is what the tree says: the asserts hold, and
\* nothing is covered but a choice that the tree still reaches because of a marked branch.
LEMMA HereOpen ==
  ASSUME TreeInv, CoverInv, Running, at \in Locs
  PROVE  /\ SameKind
         /\ Existing /\ tree[Here].covered => Kind(at) = "choice" /\ index = Len(stack)
         /\ Kind(at) # "choice" => Usable /\ \A v \in BOOLEAN : ~HereNode(v).covered
<1> DEFINE p == stack[index].node  j == stack[index].idx
<1>1. /\ GivenInv /\ Calm(script, config, faults) /\ EndsOnly(marked)
      /\ Follows(tree, stack, index, at) /\ Tree(tree) /\ Path(tree, stack)
      /\ index \in 1..Len(stack) /\ Uncovered(tree, stack) /\ LastOpen(tree, stack, marked)
  BY CoverNow
<1>2. /\ p \in DOMAIN tree /\ p \in Names /\ j \in Nat /\ j \in DOMAIN tree[p].kids
      /\ tree[p].kids[j] \in Slots
  BY <1>1, PathFacts, TreeNames, KidFacts
<1>3. Here = Append(p, j) /\ Here = Child(stack[index])
  BY DEF Here, Child, GetLastNodeInStack
<1>4. Existing <=> tree[p].kids[j] = "node"
  BY <1>1, <1>2, <1>3 DEF Existing, Tree, LinksOK
<1>5. Existing => tree[Here].stmt = at
  BY <1>1, HereFacts DEF Follows
<1>6. ~tree[p].covered /\ (ClosedAt(tree, p))
  BY <1>1, <1>2, CoverNow DEF Uncovered
<1>7. \/ index = Len(stack) /\ tree[p].stmt # 0 /\ Kind(tree[p].stmt) = "exists"
      \/ ~ChildCovered(tree, p, j, marked)
  BY <1>1, OpenBranches
<1>8. \/ ~EndOrCovered(tree, p, j)
      \/ /\ index = Len(stack) /\ tree[p].kids[j] = "node"
         /\ Kind(tree[Here].stmt) = "choice"
  <2>1. CASE index = Len(stack) /\ tree[p].stmt # 0 /\ Kind(tree[p].stmt) = "exists"
    <3>1. OneChild(tree[p])
      BY <2>1 DEF OneChild
    <3>2. j = 1
      BY <1>1, <1>2, <3>1, NodeFacts
    <3> QED BY <1>3, <1>6, <2>1, <3>1, <3>2 DEF ClosedAt, FoundCovered
  <2>2. CASE ~ChildCovered(tree, p, j, marked)
    BY <2>2 DEF ChildCovered
  <2> QED BY <1>7, <2>1, <2>2
<1>9. Existing /\ tree[Here].covered => Kind(at) = "choice" /\ index = Len(stack)
  BY <1>3, <1>4, <1>5, <1>8 DEF EndOrCovered
<1>10. ~Existing => tree[p].kids[j] = "null"
  BY <1>2, <1>4, <1>8 DEF EndOrCovered, Slots
<1>11. SameKind
  <2>1. CASE index < Len(stack)
    <3>1. Existing /\ GetNextNodeInStack = stack[index + 1] /\ stack[index + 1].node = Here
      BY <2>1, NextInStack
    <3> QED BY <1>5, <3>1 DEF SameKind
  <2>2. CASE ~(index < Len(stack))
    <3>1. Last(stack) = stack[index] /\ GetNextNodeInStack.node = Get(tree, Last(stack))
      BY <2>2, NextInStack DEF Last
    <3>2. CASE Existing
      <4>1. Get(tree, stack[index]) = Here
        BY <1>3, <1>4, <3>2 DEF Get
      <4> QED BY <1>5, <3>1, <3>2, <4>1 DEF SameKind
    <3>3. CASE ~Existing
      <4>1. Get(tree, stack[index]) = NoNode
        BY <1>10, <3>3 DEF Get
      <4> QED BY <3>1, <3>3, <4>1 DEF SameKind
    <3> QED BY <3>2, <3>3
  <2> QED BY <2>1, <2>2
<1>12. ASSUME Kind(at) # "choice", NEW v \in BOOLEAN PROVE ~HereNode(v).covered
  <2>1. ~NewNode(at, v).covered
    BY <1>1, NewNodeFacts
  <2> QED BY <1>9, <1>12, <2>1 DEF HereNode
<1> QED BY <1>9, <1>11, <1>12 DEF Usable

\* The next branch of the stack is open, an exists' excepted.
LEMMA NextOpen ==
  ASSUME TreeInv, CoverInv, Running, at \in Locs, index < Len(stack)
  PROVE  Kind(at) = "exists" \/ ~ChildCovered(tree, Here, stack[index + 1].idx, marked)
<1>1. Existing /\ stack[index + 1].node = Here
  BY NextInStack
<1>2. tree[Here].stmt = at
  BY <1>1, CoverNow, HereFacts DEF Follows
<1>3. index + 1 \in 1..Len(stack)
  BY CoverNow, PathFacts
<1>4. \/ tree[Here].stmt # 0 /\ Kind(tree[Here].stmt) = "exists"
      \/ ~ChildCovered(tree, stack[index + 1].node, stack[index + 1].idx, marked)
  BY <1>1, <1>3, CoverNow, OpenBranches
<1> QED BY <1>1, <1>2, <1>4

\* The statements do not find their node covered, a choice at the end of the stack excepted.
LEMMA HereCoversWhen ==
  ASSUME TreeInv, CoverInv, Running, at \in Locs, Kind(at) \in {"choice", "cond"}, HereCovers
  PROVE  Kind(at) = "choice" /\ index = Len(stack) /\ Existing
<1>1. Existing /\ Here \in DOMAIN tree /\ Covers(tree, Here, {}, marked)
  BY DEF HereCovers, Existing
<1>2. tree[Here].stmt = at /\ at # 0 /\ Here # Root
  BY <1>1, CoverNow, HereFacts, ScriptFacts DEF Follows, Locs
<1>3. /\ Existing /\ tree[Here].covered => Kind(at) = "choice" /\ index = Len(stack)
      /\ Kind(at) # "choice" => Usable /\ \A v \in BOOLEAN : ~HereNode(v).covered
  BY HereOpen
<1>4. CASE tree[Here].covered
  BY <1>1, <1>3, <1>4
<1>5. CASE ~tree[Here].covered
  <2>1. \A i \in DOMAIN tree[Here].kids \ {} : ChildCovered(tree, Here, i, marked)
    BY <1>1, <1>5, CoversWhen
  <2>2. Kind(at) # "cond"
    <3> SUFFICES ASSUME Kind(at) = "cond" PROVE FALSE
      OBVIOUS
    <3>1. OneChild(tree[Here]) /\ DOMAIN tree[Here].kids = 1..1
      BY <1>1, <1>2, CoverNow, NodeFacts DEF OneChild
    <3>2. <<script[at].info, 1>> \notin marked
      BY CoverNow, MarkedBranch
    <3>3. EndOrCovered(tree, Here, 1)
      BY <1>2, <2>1, <3>1, <3>2 DEF ChildCovered
    <3>4. ClosedAt(tree, Here)
      BY <1>1, CoverNow
    <3> QED BY <1>2, <1>5, <3>1, <3>3, <3>4 DEF ClosedAt, FoundCovered
  <2>3. CASE index < Len(stack)
    <3>1. stack[index + 1].idx \in DOMAIN tree[Here].kids
      BY <2>3, NextInStack
    <3> QED BY <2>1, <2>3, <3>1, NextOpen
  <2>4. CASE ~(index < Len(stack))
    BY <1>1, <2>2, <2>4, NextInStack
  <2> QED BY <2>3, <2>4
<1> QED BY <1>4, <1>5

-----------------------------------------------------------------------------
\* A consumption covers nothing.
LEMMA GrownCoverage ==
  ASSUME NEW t, Tree(t), NEW loc, LocOK(t, loc), NEW r, Extends(t, Child(loc), r), NEW u,
         Grown(t, loc, r, u), ~r.covered, Child(loc) \in DOMAIN t => ~t[Child(loc)].covered
  PROVE  /\ \A n \in DOMAIN t : n \in DOMAIN u /\ u[n].covered = t[n].covered
         /\ \A n \in DOMAIN t : \A k \in 1..Len(t[n].kids) :
              ~(n = loc.node /\ k = loc.idx)
                => (EndOrCovered(u, n, k) <=> EndOrCovered(t, n, k))
         /\ ~EndOrCovered(u, loc.node, loc.idx)
<1> DEFINE p == loc.node  c == Child(loc)
<1>1. /\ p \in DOMAIN t /\ p \in Names /\ loc.idx \in Nat /\ loc.idx \in 1..Len(t[p].kids)
      /\ loc.idx \in DOMAIN t[p].kids
  BY TreeNames DEF LocOK
<1>2. c = Append(p, loc.idx) /\ c # p
  <2>1. Len(Append(p, loc.idx)) = Len(p) + 1 /\ Len(p) \in Nat
    BY <1>1, ChildName
  <2> QED BY <2>1 DEF Child
<1> HIDE DEF c
<1>3. /\ DOMAIN u = DOMAIN t \cup {c} /\ u[c] = r
      /\ \A m \in DOMAIN t : m # c /\ m # p => u[m] = t[m]
      /\ u[p].covered = t[p].covered
      /\ \A i \in 1..Len(t[p].kids) : u[p].kids[i] = IF i = loc.idx THEN "node" ELSE t[p].kids[i]
  BY DEF Grown, c
<1>4. ASSUME NEW n \in DOMAIN t PROVE n \in DOMAIN u /\ u[n].covered = t[n].covered
  <2>1. t[n].covered \in BOOLEAN /\ r.covered \in BOOLEAN
    BY TreeNames DEF Extends, Records
  <2>2. CASE n = c
    BY <1>3, <2>1, <2>2 DEF c
  <2>3. CASE n # c
    BY <1>3, <2>3
  <2> QED BY <2>2, <2>3
<1>5. ASSUME NEW n \in DOMAIN t, NEW k \in 1..Len(t[n].kids), ~(n = p /\ k = loc.idx)
      PROVE  EndOrCovered(u, n, k) <=> EndOrCovered(t, n, k)
  <2>1. u[n].kids[k] = t[n].kids[k]
    <3>1. CASE n = c
      BY <1>3, <1>5, <3>1 DEF Extends, c
    <3>2. CASE n = p
      BY <1>3, <1>5, <3>2
    <3>3. CASE n # c /\ n # p
      BY <1>3, <3>3
    <3> QED BY <3>1, <3>2, <3>3
  <2>2. k \in DOMAIN t[n].kids /\ (t[n].kids[k] = "node" => Append(n, k) \in DOMAIN t)
    BY TreeNames DEF Tree, LinksOK
  <2> QED BY <1>4, <2>1, <2>2 DEF EndOrCovered
<1>6. ~EndOrCovered(u, p, loc.idx)
  BY <1>1, <1>2, <1>3 DEF EndOrCovered
<1> QED BY <1>4, <1>5, <1>6

\* Statements stay, and every node is as closed as before: the consumed one has no closed
\* child that it had not.
LEMMA GrownClosed ==
  ASSUME GivenInv, NEW t, Tree(t), \A n \in DOMAIN t : ClosedAt(t, n), NEW loc, LocOK(t, loc),
         NEW r, Extends(t, Child(loc), r), NEW u, Grown(t, loc, r, u), ~r.covered,
         Child(loc) \in DOMAIN t => ~t[Child(loc)].covered
  PROVE  /\ \A n \in DOMAIN t : u[n].stmt = t[n].stmt
         /\ \A n \in DOMAIN u : ClosedAt(u, n)
<1> DEFINE p == loc.node  c == Child(loc)
<1>1. p \in DOMAIN t /\ p \in Names /\ loc.idx \in Nat /\ loc.idx \in DOMAIN t[p].kids
  BY TreeNames DEF LocOK
<1>2. c # p /\ c \in Names
  <2>1. Len(Append(p, loc.idx)) = Len(p) + 1 /\ Len(p) \in Nat /\ Append(p, loc.idx) \in Names
    BY <1>1, ChildName
  <2> QED BY <2>1 DEF Child
<1>3. /\ \A n \in DOMAIN t : n \in DOMAIN u /\ u[n].covered = t[n].covered
      /\ \A n \in DOMAIN t : \A k \in 1..Len(t[n].kids) :
           ~(n = p /\ k = loc.idx) => (EndOrCovered(u, n, k) <=> EndOrCovered(t, n, k))
      /\ ~EndOrCovered(u, p, loc.idx)
  BY GrownCoverage
<1> HIDE DEF c
<1>4. /\ DOMAIN u = DOMAIN t \cup {c} /\ u[c] = r
      /\ \A m \in DOMAIN t : m # c /\ m # p => u[m] = t[m]
      /\ u[p].stmt = t[p].stmt
  BY DEF Grown, c
<1>5. ASSUME NEW n \in DOMAIN t PROVE u[n].stmt = t[n].stmt
  BY <1>4 DEF Extends, c
<1>6. ASSUME NEW n \in DOMAIN t, n # p PROVE ClosedAt(u, n)
  <2> SUFFICES ASSUME OneChild(u[n]), EndOrCovered(u, n, 1)
               PROVE  u[n].covered \/ FoundCovered(u, n)
    BY DEF ClosedAt
  <2>1. OneChild(t[n])
    BY <1>5 DEF OneChild
  <2>2. 1 \in DOMAIN t[n].kids /\ 1 \in 1..Len(t[n].kids)
    BY <2>1, NodeFacts, TreeNames
  <2>3. EndOrCovered(t, n, 1)
    BY <1>3, <1>6, <2>2
  <2>4. t[n].covered \/ FoundCovered(t, n)
    BY <2>1, <2>3 DEF ClosedAt
  <2>5. t[n].kids[1] = "node" => Append(n, 1) \in DOMAIN t
    BY <2>2 DEF Tree, LinksOK
  <2>6. u[n].kids[1] = t[n].kids[1]
    BY <1>4, <1>6, <2>2 DEF Extends, c
  <2>7. FoundCovered(t, n) => FoundCovered(u, n)
    BY <1>5, <2>5, <2>6 DEF FoundCovered
  <2> QED BY <1>3, <2>4, <2>7
<1>7. ClosedAt(u, p)
  <2> SUFFICES ASSUME OneChild(u[p]), EndOrCovered(u, p, 1) PROVE FALSE
    BY DEF ClosedAt
  <2>1. OneChild(t[p])
    BY <1>1, <1>5 DEF OneChild
  <2>2. loc.idx = 1
    BY <1>1, <2>1, NodeFacts
  <2> QED BY <1>3, <2>2
<1>8. ASSUME c \notin DOMAIN t PROVE ClosedAt(u, c)
  <2> SUFFICES ASSUME OneChild(u[c]), EndOrCovered(u, c, 1) PROVE FALSE
    BY DEF ClosedAt
  <2>1. r.stmt # 0 /\ OneChild(r) /\ Len(r.kids) = Width(r)
    BY <1>4 DEF Extends
  <2>2. Len(r.kids) = 1
    BY <2>1 DEF OneChild, Width
  <2>3. r.kids[1] = "null"
    BY <1>8, <2>2 DEF Extends, c
  <2> QED BY <1>4, <2>3 DEF EndOrCovered
<1> QED BY <1>4, <1>5, <1>6, <1>7, <1>8

\* A branch that may be added to the stack: it is open, or an exists'.
MayFollow(t, c, r, i, m) ==
  \/ Kind(r.stmt) = "exists"
  \/ /\ <<script[r.stmt].info, i>> \notin m
     /\ c \in DOMAIN t /\ i \in DOMAIN t[c].kids => ~EndOrCovered(t, c, i)

\* The path stays open, and so does the path with the branch that is consumed.
LEMMA GrownFresh ==
  ASSUME GivenInv, NEW t, Tree(t), NEW s, Path(t, s), NEW m, Uncovered(t, s),
         LastOpen(t, s, m), \A n \in DOMAIN t : ClosedAt(t, n),
         NEW k \in 1..Len(s), NEW r, Extends(t, Child(s[k]), r), NEW u, Grown(t, s[k], r, u),
         ~r.covered, Child(s[k]) \in DOMAIN t => ~t[Child(s[k])].covered
  PROVE  /\ Uncovered(u, s) /\ LastOpen(u, s, m)
         /\ \A i \in DOMAIN r.kids : k = Len(s) /\ MayFollow(t, Child(s[k]), r, i, m) =>
              LET a == Append(s, [node |-> Child(s[k]), idx |-> i])
              IN  Uncovered(u, a) /\ LastOpen(u, a, m)
<1> DEFINE loc == s[k]  p == loc.node  c == Child(loc)
<1>1. LocOK(t, loc) /\ Len(s) \in Nat /\ Len(s) > 0 /\ s # <<>> /\ s \in Seq(ChildLocs)
  BY PathFacts DEF Path
<1>2. /\ \A n \in DOMAIN t : n \in DOMAIN u /\ u[n].covered = t[n].covered
      /\ \A n \in DOMAIN t : \A j \in 1..Len(t[n].kids) :
           ~(n = p /\ j = loc.idx) => (EndOrCovered(u, n, j) <=> EndOrCovered(t, n, j))
      /\ ~EndOrCovered(u, p, loc.idx)
  BY <1>1, GrownCoverage
<1>3. \A n \in DOMAIN t : u[n].stmt = t[n].stmt
  BY <1>1, GrownClosed
<1>4. Uncovered(u, s)
  BY <1>2, PathFacts DEF Uncovered
<1>5. LastOpen(u, s, m)
  <2>1. Last(s) = s[Len(s)] /\ Len(s) \in 1..Len(s)
    BY <1>1 DEF Last
  <2> DEFINE l == Last(s)
  <2>2. l.node \in DOMAIN t /\ l.idx \in 1..Len(t[l.node].kids)
    <3>1. \A j \in 1..Len(s) : s[j].node \in DOMAIN t
            /\ s[j].idx \in DOMAIN t[s[j].node].kids
      BY PathFacts
    <3>2. l.node \in DOMAIN t /\ l.idx \in DOMAIN t[l.node].kids
      BY <2>1, <3>1
    <3> QED BY <3>2, TreeNames
  <2>3. ChildCovered(u, l.node, l.idx, m) => ChildCovered(t, l.node, l.idx, m)
    BY <1>2, <1>3, <2>2 DEF ChildCovered
  <2> QED BY <1>1, <1>3, <2>2, <2>3 DEF LastOpen
<1>6. ASSUME k = Len(s), NEW i \in DOMAIN r.kids,
             \/ Kind(r.stmt) = "exists"
             \/ /\ <<script[r.stmt].info, i>> \notin m
                /\ c \in DOMAIN t /\ i \in DOMAIN t[c].kids => ~EndOrCovered(t, c, i)
      PROVE  LET a == Append(s, [node |-> c, idx |-> i])
             IN  Uncovered(u, a) /\ LastOpen(u, a, m)
  <2> DEFINE new == [node |-> c, idx |-> i]  a == Append(s, new)
  <2>1. p \in DOMAIN t /\ p \in Names /\ loc.idx \in Nat
    BY PathFacts
  <2>2. c \in Names /\ c # p
    <3>1. Append(p, loc.idx) \in Names /\ Len(Append(p, loc.idx)) = Len(p) + 1
            /\ Len(p) \in Nat
      BY <2>1, ChildName
    <3> QED BY <3>1 DEF Child
  <2>3. new \in ChildLocs
    BY <2>2, KidFacts DEF ChildLocs, Extends
  <2>4. /\ Len(a) = Len(s) + 1 /\ a[Len(s) + 1] = new
        /\ \A j \in 1..Len(s) : a[j] = s[j]
    BY <1>1, <2>3, AppendProperties
  <2> HIDE DEF a, c
  <2>5. u[c] = r
    BY DEF Grown, c
  <2>6. ASSUME <<script[r.stmt].info, i>> \notin m,
               c \in DOMAIN t /\ i \in DOMAIN t[c].kids => ~EndOrCovered(t, c, i)
        PROVE  ~ChildCovered(u, c, i, m)
    <3>1. CASE r.kids[i] = "null"
      BY <2>5, <2>6, <3>1 DEF EndOrCovered, ChildCovered
    <3>2. CASE r.kids[i] # "null"
      <4>1. i \in 1..Len(r.kids)
        BY KidFacts DEF Extends
      <4>2. c \in DOMAIN t /\ i \in 1..Len(t[c].kids)
        BY <3>2, <4>1 DEF Extends, c
      <4>3. i \in DOMAIN t[c].kids /\ ~EndOrCovered(t, c, i)
        BY <2>6, <4>2, TreeNames
      <4> QED BY <1>2, <2>2, <2>5, <2>6, <4>2, <4>3 DEF ChildCovered
    <3> QED BY <3>1, <3>2
  <2>7. ASSUME NEW j \in 1..Len(a) PROVE ~u[a[j].node].covered
    <3>1. CASE j = Len(s) + 1
      BY <2>4, <2>5, <3>1
    <3>2. CASE j # Len(s) + 1
      <4>1. j \in 1..Len(s) /\ a[j] = s[j]
        BY <1>1, <2>4, <2>7, <3>2
      <4> QED BY <1>4, <4>1 DEF Uncovered
    <3> QED BY <3>1, <3>2
  <2>8. Last(a) = new
    BY <2>4 DEF Last
  <2>9. r.stmt # 0
    BY DEF Extends
  <2>10. LastOpen(u, a, m)
    BY <1>6, <2>5, <2>6, <2>8, <2>9 DEF LastOpen
  <2> QED BY <2>7, <2>10 DEF Uncovered, a, c
<1> QED BY <1>4, <1>5, <1>6 DEF MayFollow

-----------------------------------------------------------------------------
\* The steps keep CoverInv.

\* The script does not change, so what is shown of the new coverage holds after the step.
LEMMA SameScope ==
  ASSUME UNCHANGED given, GivenInv, Calm(script, config, faults)
  PROVE  /\ (\A n \in DOMAIN tree' : ClosedAt(tree', n))
              => (\A n \in DOMAIN tree : ClosedAt(tree, n))'
         /\ \A n : ClosedAt(tree', n) => ClosedAt(tree, n)'
         /\ Uncovered(tree', stack') => Uncovered(tree, stack)'
         /\ LastOpen(tree', stack', marked') => LastOpen(tree, stack, marked)'
         /\ EndsOnly(marked') => EndsOnly(marked)'
         /\ Calm(script, config, faults)'
<1>1. script' = script /\ config' = config /\ faults' = faults
  BY DEF given
<1>2. Locs' = Locs /\ Exit' = Exit /\ \A l : Kind(l)' = Kind(l)
  BY <1>1, SameScript
<1>3. \A n : ClosedAt(tree', n) => ClosedAt(tree, n)'
  BY <1>2 DEF ClosedAt, OneChild, EndOrCovered, FoundCovered
<1>4. Uncovered(tree', stack') => Uncovered(tree, stack)'
  BY DEF Uncovered
<1>5. LastOpen(tree', stack', marked') => LastOpen(tree, stack, marked)'
  BY <1>1, <1>2 DEF LastOpen, Last, ChildCovered, EndOrCovered
<1>6. EndsOnly(marked') => EndsOnly(marked)'
  BY <1>1, <1>2 DEF EndsOnly
<1>7. Calm(script, config, faults)'
  BY <1>1 DEF Calm, MarksAgree
<1> QED BY <1>3, <1>4, <1>5, <1>6, <1>7

\* A step after which the script goes on.
LEMMA StaysCalm ==
  ASSUME TreeInv, CoverInv, UNCHANGED given, pc' # "end", reason' # "THREADS_ALLENDED",
         failed' = "none", EndsOnly(marked'), \A n \in DOMAIN tree' : ClosedAt(tree', n),
         Uncovered(tree', stack'), LastOpen(tree', stack', marked')
  PROVE  CoverInv'
<1>1. /\ (\A n \in DOMAIN tree : ClosedAt(tree, n))' /\ Uncovered(tree, stack)'
      /\ LastOpen(tree, stack, marked)' /\ EndsOnly(marked)' /\ Calm(script, config, faults)'
  BY SameScope DEF TreeInv, CoverInv, CalmInv
<1>2. CalmInv'
  BY <1>1 DEF CalmInv
<1> QED BY <1>1, <1>2 DEF CoverInv

\* A step that throws or reaches the end of the script, with the tree as it is.
LEMMA EndsCalm ==
  ASSUME TreeInv, CoverInv, Running, UNCHANGED <<given, marked, tree, stack, index>>,
         reason' # "THREADS_ALLENDED", failed' = "none", reason' = "SUCCESS" => at = Exit
  PROVE  CoverInv'
<1>1. /\ \A n \in DOMAIN tree' : ClosedAt(tree', n)
      /\ Uncovered(tree', stack') /\ LastOpen(tree', stack', marked') /\ EndsOnly(marked')
  BY CoverNow
<1>2. /\ (\A n \in DOMAIN tree : ClosedAt(tree, n))' /\ Uncovered(tree, stack)'
      /\ LastOpen(tree, stack, marked)' /\ EndsOnly(marked)' /\ Calm(script, config, faults)'
  BY <1>1, SameScope, CoverNow
<1>3. Path(tree, stack)' /\ (index \in 1..Len(stack))'
  BY RunningFacts DEF Path, LocOK
<1>4. (reason = "SUCCESS" => Goes(tree[stack[index].node], stack[index].idx) = Exit)'
  <2>1. reason' = "SUCCESS" => Goes(tree[stack[index].node], stack[index].idx) = Exit
    BY CoverNow DEF Follows
  <2>2. UNCHANGED script
    BY DEF given
  <2> QED BY <2>1, <2>2 DEF Goes, Exit, Kind
<1>5. CalmInv'
  BY <1>2, <1>3, <1>4 DEF CalmInv
<1> QED BY <1>2, <1>5 DEF CoverInv

\* A consumption of a branch that is open.
LEMMA CoverConsume ==
  ASSUME TreeInv, CoverInv, Running, at \in Locs, NEW r, Extends(tree, Here, r), ~r.covered,
         Existing => ~tree[Here].covered,
         r.stmt = at, NEW i \in DOMAIN r.kids, NEW label, NEW l, Consume(r, i, label, l),
         l = Goes(r, i), index < Len(stack) => l = Goes(r, stack[index + 1].idx),
         MayFollow(tree, Here, r, i, marked), failed' = "none"
  PROVE  CoverInv'
<1>1. /\ GivenInv /\ Follows(tree, stack, index, at) /\ Tree(tree) /\ Path(tree, stack)
      /\ index \in 1..Len(stack) /\ \A n \in DOMAIN tree : ClosedAt(tree, n)
      /\ Uncovered(tree, stack) /\ LastOpen(tree, stack, marked) /\ EndsOnly(marked)
      /\ reason # "THREADS_ALLENDED" /\ pc = "script"
  BY CoverNow
<1>2. Follows(tree', stack', index', at') /\ Grown(tree, stack[index], r, tree')
  BY <1>1, ConsumeFollows
<1>3. LocOK(tree, stack[index]) /\ Here = Child(stack[index])
  BY <1>1, HereFacts DEF Follows
<1> DEFINE loc == stack[index]
<1>4. /\ Extends(tree, Child(loc), r) /\ MayFollow(tree, Child(loc), r, i, marked)
      /\ Child(loc) \in DOMAIN tree => ~tree[Child(loc)].covered
  BY <1>3 DEF Existing
<1>5. \A n \in DOMAIN tree' : ClosedAt(tree', n)
  BY <1>1, <1>2, <1>3, <1>4, GrownClosed
<1>6. /\ Uncovered(tree', stack) /\ LastOpen(tree', stack, marked)
      /\ index = Len(stack) =>
           /\ Uncovered(tree', Append(stack, [node |-> Child(loc), idx |-> i]))
           /\ LastOpen(tree', Append(stack, [node |-> Child(loc), idx |-> i]), marked)
  BY <1>1, <1>2, <1>4, GrownFresh
<1>7. Uncovered(tree', stack') /\ LastOpen(tree', stack', marked)
  BY <1>3, <1>6 DEF Consume, AddToNodeStack
<1>8. UNCHANGED <<given, marked, pc, reason>>
  BY DEF Consume
<1> QED BY <1>1, <1>5, <1>7, <1>8, StaysCalm

\* The only child of a node that is not covered is open, an exists' excepted.
LEMMA OnlyChildOpen ==
  ASSUME TreeInv, CoverInv, Running, at \in Locs, Kind(at) \in {"cond", "trans", "exists"},
         NEW r, r.stmt = at
  PROVE  MayFollow(tree, Here, r, 1, marked)
<1> SUFFICES ASSUME Kind(at) # "exists" PROVE MayFollow(tree, Here, r, 1, marked)
  BY DEF MayFollow
<1>1. <<script[at].info, 1>> \notin marked
  BY CoverNow, MarkedBranch
<1>2. ASSUME Existing PROVE ~EndOrCovered(tree, Here, 1)
  <2>1. tree[Here].stmt = at /\ ~tree[Here].covered /\ Here \in DOMAIN tree
    BY <1>2, CoverNow, HereFacts, HereOpen DEF Follows, Existing
  <2>2. ClosedAt(tree, Here) /\ OneChild(tree[Here])
    BY <2>1, CoverNow DEF OneChild
  <2> QED BY <2>1, <2>2 DEF ClosedAt, FoundCovered
<1> QED BY <1>1, <1>2 DEF MayFollow, Existing

\* DSLChoice keeps CoverInv: it takes a branch that is neither covered nor marked.
LEMMA CoverChoice ==
  ASSUME TreeInv, CoverInv, DSLChoice
  PROVE  CoverInv'
<1> DEFINE r == HereNode(FALSE)
<1>1. Running /\ at \in Locs /\ Kind(at) = "choice" /\ ~HereCovers
  BY DEF DSLChoice, AtStatement
<1>2. PICK i \in Branches : /\ Assert(SameKind /\ i \notin CoveredBranches, "Choice")
                            /\ Consume(r, i, Answer[i], script[at].next[i])
  BY DEF DSLChoice
<1>3. GivenInv /\ Follows(tree, stack, index, at) /\ Tree(tree) /\ SameKind /\ failed = "none"
  BY <1>1, CoverNow, HereOpen
<1>4. Existing => tree[Here].stmt = at /\ ~tree[Here].covered
  BY <1>1, <1>3, HereFacts DEF Follows, HereCovers, Covers
<1>5. Extends(tree, Here, r) /\ r.stmt = at /\ DOMAIN r.kids = {1, 2} /\ ~r.covered
      /\ at # 0
  <2>1. ~NewNode(at, FALSE).covered /\ at # 0
    BY <1>1, <1>3, NewNodeFacts, ScriptFacts DEF Locs
  <2> QED BY <1>1, <1>3, <1>4, <2>1, HereExtends DEF Follows, HereNode
<1> HIDE DEF r
<1>6. i \in {1, 2} /\ i \notin CoveredBranches
        /\ (index < Len(stack) => i = stack[index + 1].idx)
  <2>1. CASE index < Len(stack)
    <3>1. /\ GetNextNodeInStack = stack[index + 1]
          /\ stack[index + 1].idx \in DOMAIN tree[Here].kids
          /\ Existing /\ stack[index + 1].idx > 0 /\ stack[index + 1].idx \in Nat
          /\ stack[index + 1].node = Here
      BY <1>1, <2>1, NextInStack
    <3>2. stack[index + 1].idx # 0
      BY <3>1
    <3>3. i = stack[index + 1].idx
      BY <1>2, <3>1, <3>2 DEF Branches
    <3>4. ~ChildCovered(tree, Here, i, marked)
      BY <1>1, <2>1, <3>3, NextOpen
    <3>5. Here # Root
      BY <1>3, HereFacts DEF Follows
    <3>6. i \notin CoveredBranches
      BY <1>4, <3>1, <3>4, <3>5 DEF ChildCovered, CoveredBranches
    <3>7. tree[Here].stmt = at /\ Here \in DOMAIN tree
      BY <1>4, <3>1 DEF Existing
    <3>8. DOMAIN tree[Here].kids = {1, 2}
      BY <1>1, <1>3, <3>5, <3>7, NodeFacts
    <3> QED BY <3>1, <3>3, <3>6, <3>8
  <2>2. CASE ~(index < Len(stack))
    <3>1. GetNextNodeInStack.idx = 0
      BY <1>1, <2>2, NextInStack
    <3>2. CoveredBranches # {1, 2}
      <4> SUFFICES ASSUME CoveredBranches = {1, 2} PROVE FALSE
        OBVIOUS
      <4>1. \A k \in {1, 2} : \/ <<script[at].info, k>> \in marked
                              \/ Existing /\ EndOrCovered(tree, Here, k)
        BY DEF CoveredBranches
      <4>2. ASSUME NEW k \in {1, 2}, <<script[at].info, k>> \in marked
            PROVE  <<script[at].info, 3 - k>> \notin marked
        BY <1>1, <4>2, CoverNow, OtherBranch
      <4>3. <<script[at].info, 1>> \notin marked \/ <<script[at].info, 2>> \notin marked
        <5>1. 3 - 1 = 2 /\ 1 \in {1, 2}
          OBVIOUS
        <5> QED BY <4>2, <5>1
      <4>4. Existing
        BY <4>1, <4>3
      <4>5. tree[Here].stmt = at /\ Here # Root /\ Here \in DOMAIN tree
        BY <1>3, <1>4, <4>4, HereFacts DEF Follows, Existing
      <4>6. DOMAIN tree[Here].kids = {1, 2} /\ FullSize(tree, Here)
        BY <1>1, <1>3, <4>5, NodeFacts DEF FullSize
      <4>7. Covers(tree, Here, {}, marked)
        BY <4>1, <4>5, <4>6, CoversWhen DEF ChildCovered
      <4> QED BY <1>1, <4>4, <4>7 DEF HereCovers
    <3>3. CoveredBranches \subseteq {1, 2}
      BY DEF CoveredBranches
    <3>4. i \in {1, 2} /\ i \notin CoveredBranches
      BY <1>2, <3>1, <3>2, <3>3 DEF Branches
    <3> QED BY <2>2, <3>4
  <2> QED BY <2>1, <2>2
<1>7. script[at].next[i] = Goes(r, i)
  BY <1>1, <1>5 DEF Goes
<1>8. MayFollow(tree, Here, r, i, marked)
  BY <1>5, <1>6 DEF MayFollow, CoveredBranches, Existing
<1>9. failed' = "none"
  BY <1>2, <1>3, <1>6 DEF Assert
<1>10. index < Len(stack) => script[at].next[i] = Goes(r, stack[index + 1].idx)
  BY <1>6, <1>7
<1>11. i \in DOMAIN r.kids
  BY <1>5, <1>6
<1> QED BY <1>1, <1>2, <1>4, <1>5, <1>7, <1>8, <1>9, <1>10, <1>11, CoverConsume

\* DSLConditional keeps CoverInv.
LEMMA CoverConditional ==
  ASSUME TreeInv, CoverInv, DSLConditional
  PROVE  CoverInv'
<1>1. Running /\ at \in Locs /\ Kind(at) = "cond"
  BY DEF DSLConditional, AtStatement
<1>2. PICK v \in CondValues :
        /\ HereNode(v).value = v
        /\ Consume(HereNode(v), 1, Answer[CondIndex(v)], script[at].next[CondIndex(v)])
  BY DEF DSLConditional
<1> DEFINE r == HereNode(v)
<1>3. GivenInv /\ Follows(tree, stack, index, at) /\ v \in BOOLEAN
  BY <1>1, FollowsNow DEF CondValues
<1>4. Extends(tree, Here, r) /\ r.stmt = at /\ 1 \in DOMAIN r.kids /\ ~r.covered
  BY <1>1, <1>3, HereExtends, HereOpen DEF Follows
<1>5. Existing => ~tree[Here].covered
  BY <1>1, HereOpen
<1>6. MayFollow(tree, Here, r, 1, marked)
  BY <1>1, <1>4, OnlyChildOpen
<1>7. \A i : script[at].next[CondIndex(v)] = Goes(r, i)
  <2>1. at # 0
    BY <1>1, <1>3, ScriptFacts DEF Locs
  <2> QED BY <1>1, <1>2, <1>4, <2>1 DEF Goes
<1>8. failed' = "none"
  BY <1>1, CoverNow, HereOpen DEF DSLConditional, Assert
<1>9. Consume(r, 1, Answer[CondIndex(v)], script[at].next[CondIndex(v)])
  BY <1>2
<1> HIDE DEF r
<1> QED BY <1>1, <1>4, <1>5, <1>6, <1>7, <1>8, <1>9, CoverConsume

\* The statements after which the script goes on at one place.
LEMMA CoverSelection ==
  ASSUME TreeInv, CoverInv, Running, at \in Locs, Kind(at) \in Selections \cup {"trans"},
         NEW r, Extends(tree, Here, r), r.stmt = at, ~r.covered, NEW i \in DOMAIN r.kids,
         NEW label,
         Consume(r, i, label, script[at].next[1]), UNCHANGED failed,
         MayFollow(tree, Here, r, i, marked)
  PROVE  CoverInv'
<1>1. at # 0
  BY ScriptFacts DEF Locs, TreeInv
<1>2. \A k : script[at].next[1] = Goes(r, k)
  BY <1>1 DEF Goes, Selections
<1>3. failed' = "none"
  BY CoverNow
<1>4. Existing => ~tree[Here].covered
  BY HereOpen DEF Selections
<1> QED BY <1>2, <1>3, <1>4, CoverConsume

\* DSLTransition and ExistsSelect keep CoverInv.
LEMMA CoverSingle ==
  ASSUME TreeInv, CoverInv, DSLTransition \/ \E t \in Threads : ExistsSelect(t)
  PROVE  CoverInv'
<1> DEFINE r == HereNode(FALSE)
<1>1. /\ Running /\ at \in Locs /\ Kind(at) \in {"trans", "exists"} /\ UNCHANGED failed
      /\ \E label : Consume(r, 1, label, script[at].next[1])
  BY DEF DSLTransition, ExistsSelect, AtStatement
<1>2. PICK label : Consume(r, 1, label, script[at].next[1])
  BY <1>1
<1>3. Extends(tree, Here, r) /\ r.stmt = at /\ 1 \in DOMAIN r.kids /\ ~r.covered
  BY <1>1, FollowsNow, HereExtends, HereOpen DEF Follows
<1>4. MayFollow(tree, Here, r, 1, marked)
  BY <1>1, <1>3, OnlyChildOpen
<1> HIDE DEF r
<1> QED BY <1>1, <1>2, <1>3, <1>4, CoverSelection DEF Selections

\* A forall's record with the variable of a thread is not covered.
LEMMA VarOpen ==
  ASSUME TreeInv, CoverInv, Running, at \in Locs, Kind(at) = "forall", NEW t \in Threads
  PROVE  ~WithVar(HereNode(FALSE), t).covered
<1> DEFINE r == HereNode(FALSE)
<1>1. r \in Records /\ Len(r.kids) = Len(r.vars) /\ ~r.covered
  BY VarExtends, HereOpen
<1> HIDE DEF r
<1>2. WithVar(r, t).covered = r.covered
  BY <1>1, WithVarFacts
<1> QED BY <1>1, <1>2 DEF r

\* ForallSelect keeps CoverInv: MaySelect refuses a covered child.
LEMMA CoverForallSelect ==
  ASSUME TreeInv, CoverInv, NEW t \in Threads, ForallSelect(t)
  PROVE  CoverInv'
<1>1. Running /\ at \in Locs /\ Kind(at) = "forall"
  BY DEF ForallSelect, AtStatement
<1> DEFINE r == HereNode(FALSE)  q == WithVar(r, t)  i == VarIndex(r, t)
<1>2. Extends(tree, Here, q) /\ q.stmt = at /\ i \in DOMAIN q.kids
  BY <1>1, VarExtends
<1>3. ~q.covered
  BY <1>1, VarOpen
<1>4. Consume(q, i, t, script[at].next[1]) /\ UNCHANGED failed /\ MaySelect(i)
  BY DEF ForallSelect
<1> HIDE DEF r, q, i
<1>5. <<script[at].info, i>> \notin marked
  BY <1>1, CoverNow, MarkedBranch
<1>6. MayFollow(tree, Here, q, i, marked)
  BY <1>2, <1>4, <1>5 DEF MaySelect, MayFollow, Existing
<1> QED BY <1>1, <1>2, <1>3, <1>4, <1>6, CoverSelection DEF Selections

\* ForallRefuse keeps CoverInv: a child it adds is not covered.
LEMMA CoverForallRefuse ==
  ASSUME TreeInv, CoverInv, NEW t \in Threads, ForallRefuse(t)
  PROVE  CoverInv'
<1> DEFINE q == WithVar(HereNode(FALSE), t)
<1>1. /\ Running /\ at \in Locs /\ Kind(at) = "forall" /\ Extends(tree, Here, q)
      /\ LocOK(tree, stack[index]) /\ Here = Child(stack[index]) /\ Here \in DOMAIN tree
      /\ Grown(tree, stack[index], q, tree') /\ Tree(tree')
  BY RefuseGrows
<1>2. ~q.covered /\ ~tree[Here].covered
  BY <1>1, VarOpen, HereOpen DEF Existing
<1> HIDE DEF q
<1>3. /\ GivenInv /\ Tree(tree) /\ Path(tree, stack) /\ index \in 1..Len(stack)
      /\ \A n \in DOMAIN tree : ClosedAt(tree, n)
      /\ Uncovered(tree, stack) /\ LastOpen(tree, stack, marked) /\ EndsOnly(marked)
      /\ reason # "THREADS_ALLENDED" /\ failed = "none"
  BY <1>1, CoverNow
<1> DEFINE loc == stack[index]
<1>4. /\ Extends(tree, Child(loc), q)
      /\ Child(loc) \in DOMAIN tree => ~tree[Child(loc)].covered
  BY <1>1, <1>2
<1>5. \A n \in DOMAIN tree' : ClosedAt(tree', n)
  BY <1>1, <1>2, <1>3, <1>4, GrownClosed
<1>6. Uncovered(tree', stack) /\ LastOpen(tree', stack, marked)
  BY <1>1, <1>2, <1>3, <1>4, GrownFresh
<1>7. UNCHANGED <<given, stack, marked, pc, reason, failed>> /\ pc # "end"
  BY <1>1 DEF ForallRefuse, Running
<1> QED BY <1>3, <1>5, <1>6, <1>7, StaysCalm

\* Submit keeps CoverInv: the node it publishes is usable.
LEMMA CoverSubmit ==
  ASSUME TreeInv, CoverInv, Submit
  PROVE  CoverInv'
<1>1. Running /\ at \in Locs /\ Kind(at) # "choice" /\ Assert(Usable, "Statement")
      /\ UNCHANGED <<given, tree, stack, marked, pc, reason>>
  BY DEF Submit, AtStatement, Selections
<1>2. failed' = "none"
  BY <1>1, HereOpen, CoverNow DEF Assert
<1> QED BY <1>1, <1>2, StaysCalm, CoverNow

\* A run that is given up, or reaches the end of the script, keeps CoverInv.
LEMMA CoverThrow ==
  ASSUME TreeInv, CoverInv, ReplayFails \/ Timeout \/ AssumeFails \/ ScriptEnd
  PROVE  CoverInv'
<1>1. Running /\ UNCHANGED <<given, marked, tree, stack, index>>
        /\ reason' # "THREADS_ALLENDED" /\ (reason' = "SUCCESS" => at = Exit)
  BY DEF ReplayFails, Timeout, AssumeFails, ScriptEnd, AtStatement, Backtrack
<1>2. failed' = "none"
  <2>1. CASE ReplayFails
    BY <2>1, HereOpen, CoverNow DEF ReplayFails, AtStatement, Assert
  <2>2. CASE Timeout \/ AssumeFails \/ ScriptEnd
    BY <1>1, <2>2, CoverNow DEF Timeout, AssumeFails, ScriptEnd
  <2> QED BY <2>1, <2>2
<1> QED BY <1>1, <1>2, EndsCalm

-----------------------------------------------------------------------------
\* ChoiceCovered keeps CoverInv: the choice is not on the stack, and the coverage of the
\* node above it is computed at the end of the run.
LEMMA CoverChoiceCovered ==
  ASSUME TreeInv, CoverInv, ChoiceCovered
  PROVE  CoverInv'
<1> DEFINE p == stack[index].node  j == stack[index].idx
<1>1. Running /\ at \in Locs /\ Kind(at) \in {"choice", "cond"} /\ HereCovers
  BY DEF ChoiceCovered, AtStatement
<1>2. Kind(at) = "choice" /\ index = Len(stack) /\ Here \in DOMAIN tree
  BY <1>1, HereCoversWhen DEF Existing
<1>3. /\ GivenInv /\ Calm(script, config, faults) /\ EndsOnly(marked) /\ Tree(tree)
      /\ Follows(tree, stack, index, at) /\ Path(tree, stack) /\ index \in 1..Len(stack)
      /\ \A n \in DOMAIN tree : ClosedAt(tree, n)
      /\ Uncovered(tree, stack) /\ failed = "none"
  BY <1>1, CoverNow
<1>4. /\ p \in DOMAIN tree /\ p \in Names /\ j \in Nat /\ j \in DOMAIN tree[p].kids
      /\ Here = Append(p, j) /\ tree[Here].stmt = at
      /\ Len(p) = index - 1 /\ p = LastParent
  BY <1>2, <1>3, PathFacts, HereFacts DEF Here, Child, GetLastNodeInStack, LastParent, Existing,
     Follows
<1>5. tree[p].kids[j] = "node" /\ Len(Here) = Len(p) + 1
  BY <1>2, <1>3, <1>4, ChildName DEF Tree, LinksOK
<1>6. /\ tree' = [tree EXCEPT ![Here].covered = TRUE]
      /\ UNCHANGED <<given, stack, index, marked>> /\ failed' = "none"
      /\ reason' = "TREENODE_COVERED" /\ pc' = "end"
  BY <1>1, <1>3, HereOpen DEF ChoiceCovered, Backtrack, Assert
<1>7. DOMAIN tree' = DOMAIN tree
  BY <1>6
<1>8. ASSUME NEW n \in DOMAIN tree
      PROVE  /\ tree'[n] \in Records /\ SameShape(tree'[n], tree[n])
             /\ tree'[n].covered <=> tree[n].covered \/ n = Here
  <2>1. tree[n] \in Records
    BY <1>3, TreeNames
  <2>2. tree'[n] = IF n = Here THEN [tree[n] EXCEPT !.covered = TRUE] ELSE tree[n]
    BY <1>6
  <2> QED BY <2>1, <2>2 DEF Records, SameShape
<1>9. Path(tree', stack)
  BY <1>3, <1>7, <1>8, ReshapeTree
<1>10. Uncovered(tree', stack)
  <2> SUFFICES ASSUME NEW k \in 1..Len(stack) PROVE ~tree'[stack[k].node].covered
    BY DEF Uncovered
  <2>1. stack[k].node \in DOMAIN tree /\ Len(stack[k].node) = k - 1 /\ Len(stack) \in Nat
    BY <1>3, PathFacts
  <2>2. stack[k].node # Here
    BY <1>2, <1>4, <1>5, <2>1
  <2> QED BY <1>3, <1>8, <2>1, <2>2 DEF Uncovered
<1>11. ASSUME NEW n \in DOMAIN tree, n # p PROVE ClosedAt(tree', n)
  <2> SUFFICES ASSUME OneChild(tree'[n]), EndOrCovered(tree', n, 1)
               PROVE  tree'[n].covered \/ FoundCovered(tree', n)
    BY DEF ClosedAt
  <2>1. OneChild(tree[n]) /\ SameShape(tree'[n], tree[n])
    BY <1>8 DEF OneChild, SameShape
  <2>2. 1 \in DOMAIN tree[n].kids /\ n \in Names
    BY <1>3, <2>1, NodeFacts, TreeNames
  <2>3. tree[n].kids[1] = "node" => Append(n, 1) \in DOMAIN tree
    BY <1>3, <2>2 DEF Tree, LinksOK
  <2>4. Append(n, 1) # Here
    BY <1>4, <1>11, <2>2, NameInjective
  <2>5. EndOrCovered(tree, n, 1)
    BY <1>8, <2>1, <2>3, <2>4 DEF EndOrCovered, SameShape
  <2>6. tree[n].covered \/ FoundCovered(tree, n)
    BY <1>3, <2>1, <2>5 DEF ClosedAt
  <2>7. FoundCovered(tree, n) => FoundCovered(tree', n)
    BY <1>8, <2>1, <2>3 DEF FoundCovered, SameShape
  <2> QED BY <1>8, <2>6, <2>7
<1>12. ASSUME NodeKind(p) = "exists" PROVE ClosedAt(tree', p)
  <2>1. p # Root /\ Kind(tree[p].stmt) = "exists" /\ tree[p].stmt # 0 /\ OneChild(tree[p])
    BY <1>3, <1>4, <1>12, NodeFacts DEF NodeKind, OneChild
  <2>2. j = 1
    BY <1>3, <1>4, <2>1, NodeFacts
  <2>3. SameShape(tree'[p], tree[p]) /\ SameShape(tree'[Here], tree[Here])
    BY <1>2, <1>4, <1>8
  <2>4. FoundCovered(tree', p)
    BY <1>2, <1>4, <1>5, <2>1, <2>2, <2>3 DEF FoundCovered, SameShape
  <2> QED BY <2>4 DEF ClosedAt
<1>13. NodeKind(p)' = NodeKind(p)
  BY <1>4, <1>6, <1>8 DEF NodeKind, SameShape, Kind, given
<1>14. /\ \A n : ClosedAt(tree', n) => ClosedAt(tree, n)'
       /\ Uncovered(tree, stack)' /\ EndsOnly(marked)' /\ Calm(script, config, faults)'
  BY <1>3, <1>6, <1>10, SameScope
<1>15. LastParent' = p
  BY <1>6 DEF LastParent, GetLastNodeInStack
<1>16. (\A n \in DOMAIN tree :
          ClosedAt(tree, n) \/ (pc = "end" /\ n = LastParent /\ NodeKind(n) # "exists"))'
  BY <1>6, <1>7, <1>11, <1>12, <1>13, <1>14, <1>15
<1>17. Path(tree, stack)'
  BY <1>6, <1>9 DEF Path, LocOK
<1>18. CalmInv'
  BY <1>3, <1>6, <1>14, <1>17 DEF CalmInv
<1>19. (pc = "end" /\ index = Len(stack))'
  BY <1>2, <1>6
<1> QED BY <1>14, <1>16, <1>18, <1>19 DEF CoverInv

\* EndExists keeps CoverInv: nothing becomes covered.
LEMMA CoverEndExists ==
  ASSUME TreeInv, CoverInv, EndExists
  PROVE  CoverInv'
<1>1. Ending /\ TryAnother /\ Path(tree, stack) /\ Tree(tree) /\ GivenInv
      /\ index \in 1..Len(stack)
  BY DEF EndExists, Ending, CoverInv, CalmInv, TreeInv
<1>2. /\ tree' = [tree EXCEPT ![LastParent].tried = @ \cup {selected}] /\ pc' = "explore"
      /\ UNCHANGED <<given, stack, marked, reason, failed>>
  BY DEF EndExists
<1>3. DOMAIN tree' = DOMAIN tree
  BY <1>2
<1>4. ASSUME NEW n \in DOMAIN tree
      PROVE  tree'[n].covered = tree[n].covered /\ SameShape(tree'[n], tree[n])
  <2>1. tree[n] \in Records
    BY <1>1, TreeNames
  <2>2. tree'[n] = tree[n] \/ tree'[n] = [tree[n] EXCEPT !.tried = @ \cup {selected}]
    BY <1>2
  <2> QED BY <2>1, <2>2 DEF Records, SameShape
<1>5. NodeKind(LastParent) = "exists"
  BY <1>1 DEF TryAnother
<1>6. \A n \in DOMAIN tree : ClosedAt(tree, n)
  BY <1>5 DEF CoverInv
<1>7. LastOpen(tree, stack, marked)
  <2> SUFFICES ASSUME index = Len(stack) PROVE LastOpen(tree, stack, marked)
    BY DEF CoverInv
  <2>1. Last(stack).node = LastParent /\ LastParent \in DOMAIN tree
    BY <1>1, PathFacts DEF Last, LastParent, GetLastNodeInStack
  <2>2. LastParent # Root /\ Kind(tree[LastParent].stmt) = "exists"
    BY <1>1, <1>5, <2>1, TreeNames DEF NodeKind
  <2>3. tree[LastParent].stmt # 0
    BY <1>1, <2>1, <2>2, NodeFacts
  <2> QED BY <2>1, <2>2, <2>3 DEF LastOpen
<1>8. /\ \A n \in DOMAIN tree' : ClosedAt(tree', n)
      /\ Uncovered(tree', stack) /\ LastOpen(tree', stack, marked)
  BY <1>1, <1>3, <1>4, <1>6, <1>7, SameCoverage DEF CoverInv
<1> QED BY <1>2, <1>8, StaysCalm DEF CoverInv, CalmInv

\* RootCovered keeps CoverInv.
LEMMA CoverRootCovered ==
  ASSUME TreeInv, CoverInv, RootCovered
  PROVE  CoverInv'
<1>1. /\ UNCHANGED <<given, tree, stack, marked, reason, failed>> /\ pc' = "terminated"
      /\ pc = "explore"
  BY DEF RootCovered
<1>2. /\ \A n \in DOMAIN tree' : ClosedAt(tree', n)
      /\ Uncovered(tree', stack') /\ LastOpen(tree', stack', marked')
  BY <1>1 DEF CoverInv
<1> QED BY <1>1, <1>2, StaysCalm DEF CoverInv, CalmInv

\* Restart keeps CoverInv: a root that is not covered has an open child.
LEMMA CoverRestart ==
  ASSUME TreeInv, CoverInv, Restart
  PROVE  CoverInv'
<1>1. /\ UNCHANGED <<given, tree, marked>> /\ pc' = "script" /\ reason' = "SUCCESS"
      /\ stack' = IF config.keep THEN <<RootLoc>> ELSE stack
      /\ ~tree[Root].covered /\ pc = "explore"
  BY DEF Restart
<1>2. failed' = "none"
  BY StepRestart DEF Restart, Assert, CoverInv, CalmInv
<1>3. \A n \in DOMAIN tree : ClosedAt(tree, n)
  BY <1>1 DEF CoverInv
<1>4. Uncovered(tree, <<RootLoc>>) /\ LastOpen(tree, <<RootLoc>>, marked)
  <2>1. Root \in DOMAIN tree /\ tree[Root].stmt = 0
    BY DEF TreeInv, Tree, NodeOK
  <2>2. ~EndOrCovered(tree, Root, 1)
    BY <1>1, <1>3, <2>1 DEF ClosedAt, OneChild, FoundCovered
  <2> DEFINE s == <<RootLoc>>
  <2>3. Len(s) = 1 /\ s[1] = RootLoc
    OBVIOUS
  <2> HIDE DEF s
  <2>4. Uncovered(tree, s) /\ LastOpen(tree, s, marked)
    BY <1>1, <2>2, <2>3 DEF Uncovered, LastOpen, RootLoc, Last, ChildCovered
  <2> QED BY <2>4 DEF s
<1>5. /\ \A n \in DOMAIN tree' : ClosedAt(tree', n)
      /\ Uncovered(tree', stack') /\ LastOpen(tree', stack', marked')
  BY <1>1, <1>3, <1>4 DEF CoverInv
<1> QED BY <1>1, <1>2, <1>5, StaysCalm DEF CoverInv, CalmInv

-----------------------------------------------------------------------------
\* DoBacktrack keeps coverage what the tree says.

\* A cut covers nothing, and opens nothing but what is at the cut.
LEMMA CutCoverage ==
  ASSUME NEW t, Tree(t), NEW loc, LocOK(t, loc), NEW u, IsCut(t, loc, u)
  PROVE  \A n \in DOMAIN u : \A k \in DOMAIN u[n].kids :
           ~(n = loc.node /\ k = loc.idx)
             => (EndOrCovered(u, n, k) <=> EndOrCovered(t, n, k))
<1> SUFFICES ASSUME NEW n \in DOMAIN u, NEW k \in DOMAIN u[n].kids,
                    ~(n = loc.node /\ k = loc.idx)
             PROVE  EndOrCovered(u, n, k) <=> EndOrCovered(t, n, k)
  OBVIOUS
<1>1. Tree(u)
  BY CutTree
<1>2. n \in DOMAIN t /\ k \in DOMAIN t[n].kids /\ u[n].kids[k] = t[n].kids[k]
  BY DEF IsCut
<1>3. u[n].kids[k] = "node" => Append(n, k) \in DOMAIN u
  BY <1>1 DEF Tree, LinksOK
<1>4. \A m \in DOMAIN u : u[m].covered = t[m].covered
  BY DEF IsCut
<1> QED BY <1>2, <1>3, <1>4 DEF EndOrCovered

\* The elements of such a path.
LEMMA EndedChain ==
  ASSUME NEW t, Tree(t), NEW s, EndedPath(t, s)
  PROVE  /\ \A k \in 1..(Len(s) - 2) : s[k + 1].node = Child(s[k])
         /\ \A k \in 1..(Len(s) - 1) : \A j \in 1..k : Below(s[j].node, s[k].node)
<1>1. /\ Len(s) \in Nat /\ Path(t, Front(s)) /\ Len(Front(s)) = Len(s) - 1
      /\ \A k \in 1..(Len(s) - 1) : Front(s)[k] = s[k]
  BY EndedFacts
<1>2. ASSUME NEW k \in 1..(Len(s) - 2) PROVE s[k + 1].node = Child(s[k])
  <2>1. k \in 1..(Len(Front(s)) - 1) /\ k \in 1..(Len(s) - 1) /\ k + 1 \in 1..(Len(s) - 1)
    BY <1>1
  <2>2. Front(s)[k + 1].node = Child(Front(s)[k])
    BY <1>1, <2>1, PathFacts
  <2> QED BY <1>1, <2>1, <2>2
<1>3. ASSUME NEW k \in 1..(Len(s) - 1), NEW j \in 1..k PROVE Below(s[j].node, s[k].node)
  <2>1. k \in 1..Len(Front(s)) /\ j \in 1..(Len(s) - 1) /\ Front(s)[k] = s[k]
          /\ Front(s)[j] = s[j]
    BY <1>1
  <2>2. Below(Front(s)[j].node, Front(s)[k].node)
    BY <1>1, <2>1 DEF Path
  <2> QED BY <2>1, <2>2
<1> QED BY <1>2, <1>3

\* A child on the path hangs where the path goes.
PathHangs(s) ==
  \A j \in 1..(Len(s) - 1) : \A n \in Names : \A i \in Nat : Append(n, i) = s[j].node =>
    j > 1 /\ j - 1 \in 1..(Len(s) - 1) /\ n = s[j - 1].node /\ i = s[j - 1].idx

\* A path that ends with the end node is such a path.
LEMMA PathChild ==
  ASSUME NEW t, Tree(t), NEW s, EndedPath(t, s)
  PROVE  PathHangs(s)
<1> SUFFICES ASSUME NEW j \in 1..(Len(s) - 1), NEW n \in Names, NEW i \in Nat,
                    Append(n, i) = s[j].node
             PROVE  j > 1 /\ j - 1 \in 1..(Len(s) - 1) /\ n = s[j - 1].node
                      /\ i = s[j - 1].idx
  BY DEF PathHangs
<1>1. Len(s) \in Nat /\ s[1].node = Root
  BY EndedFacts DEF RootLoc
<1>2. j # 1
  BY <1>1, ChildName
<1>3. j - 1 \in 1..(Len(s) - 2) /\ j - 1 \in 1..(Len(s) - 1) /\ (j - 1) + 1 = j
  BY <1>1, <1>2
<1>4. s[j].node = Child(s[j - 1])
  BY <1>3, EndedChain
<1>5. s[j - 1].node \in Names /\ s[j - 1].idx \in Nat
  BY <1>3, EndedFacts
<1>6. n = s[j - 1].node /\ i = s[j - 1].idx
  BY <1>4, <1>5, NameInjective DEF Child
<1> QED BY <1>2, <1>3, <1>6

\* Every node of the path above high is uncovered, and covered from high on.
CoverPath(p, high) ==
  [n \in DOMAIN p.tree |->
    [p.tree[n] EXCEPT !.covered = @ \/ n \in PathNodes(p.stack, high)]]

\* What covering the path changes.
LEMMA CoverPathFacts ==
  ASSUME NEW p, Tree(p.tree), NEW high, NEW n \in DOMAIN p.tree
  PROVE  LET u == CoverPath(p, high)
         IN  /\ u[n].covered <=> p.tree[n].covered \/ n \in PathNodes(p.stack, high)
             /\ u[n].kids = p.tree[n].kids /\ u[n].stmt = p.tree[n].stmt
<1>1. p.tree[n] \in Records
  BY TreeNames
<1>2. CoverPath(p, high)[n] =
        [p.tree[n] EXCEPT !.covered = @ \/ n \in PathNodes(p.stack, high)]
  BY DEF CoverPath
<1> QED BY <1>1, <1>2 DEF Records

\* The path of a run that ends: no node of it is covered, and what is not on it is as
\* closed as before.
EndedOpen(p) ==
  /\ \A k \in 1..(Len(p.stack) - 1) : ~p.tree[p.stack[k].node].covered
  /\ \A n \in DOMAIN p.tree :
       ClosedAt(p.tree, n) \/ \E k \in 1..(Len(p.stack) - 1) : n = p.stack[k].node

\* A node as closed after a change that leaves its record, and the coverage of its child.
LEMMA StaysClosed ==
  ASSUME GivenInv, NEW t, Tree(t), NEW u, Tree(u), NEW n \in DOMAIN t, n \in DOMAIN u,
         ClosedAt(t, n), SameShape(u[n], t[n]), u[n].covered = t[n].covered,
         EndOrCovered(u, n, 1) => EndOrCovered(t, n, 1),
         \A m \in DOMAIN u : m \in DOMAIN t => u[m].stmt = t[m].stmt
  PROVE  ClosedAt(u, n)
<1> SUFFICES ASSUME OneChild(u[n]), EndOrCovered(u, n, 1)
             PROVE  u[n].covered \/ FoundCovered(u, n)
  BY DEF ClosedAt
<1>1. OneChild(t[n]) /\ EndOrCovered(t, n, 1)
  BY DEF OneChild, SameShape
<1>2. t[n].covered \/ FoundCovered(t, n)
  BY <1>1 DEF ClosedAt
<1>3. 1 \in DOMAIN t[n].kids /\ 1 \in DOMAIN u[n].kids
  BY <1>1, NodeFacts
<1>4. /\ t[n].kids[1] = "node" => Append(n, 1) \in DOMAIN t
      /\ u[n].kids[1] = "node" => Append(n, 1) \in DOMAIN u
  BY <1>3 DEF Tree, LinksOK
<1>5. FoundCovered(t, n) => FoundCovered(u, n)
  BY <1>4 DEF FoundCovered, SameShape
<1> QED BY <1>2, <1>5

\* The end node leaves such a path: where it is inserted, or right above, is the last node
\* that the run consumed.
LEMMA EndedIsOpen ==
  ASSUME GivenInv, NEW t, Tree(t), NEW s, Path(t, s), Uncovered(t, s), NEW k \in 1..Len(s),
         \A n \in DOMAIN t : ClosedAt(t, n) \/ n = s[k].node,
         NEW m \in 1..Len(s), k <= m, NEW p, EndsAt(t, s, m, p), Tree(p.tree)
  PROVE  EndedOpen(p)
<1> DEFINE loc == s[m]
<1>1. /\ IsCut(t, loc, p.tree) /\ LocOK(t, loc) /\ Len(p.stack) = m + 1
      /\ \A i \in 1..m : p.stack[i] = s[i]
      /\ Len(s) \in Nat
  BY PathFacts DEF EndsAt, LocOK
<1>2. ASSUME NEW i \in 1..(Len(p.stack) - 1) PROVE ~p.tree[p.stack[i].node].covered
  <2>1. i \in 1..m /\ i \in 1..Len(s) /\ p.stack[i] = s[i]
    BY <1>1
  <2>2. /\ s[i].node \in DOMAIN t /\ Len(s[i].node) = i - 1 /\ Len(s[m].node) = m - 1
    <3>1. \A j \in 1..Len(s) : s[j].node \in DOMAIN t /\ Len(s[j].node) = j - 1
      BY PathFacts
    <3> QED BY <2>1, <3>1
  <2>3. s[i].node \in DOMAIN p.tree
    <3>1. Len(s[i].node) <= Len(loc.node)
      BY <1>1, <2>1, <2>2
    <3> QED BY <1>1, <2>2, <3>1 DEF IsCut
  <2>4. p.tree[s[i].node].covered = t[s[i].node].covered
    BY <1>1, <2>3 DEF IsCut
  <2> QED BY <2>1, <2>4 DEF Uncovered
<1>3. ASSUME NEW n \in DOMAIN p.tree, n # s[k].node, n # loc.node
      PROVE  ClosedAt(p.tree, n)
  <2>1. n \in DOMAIN t /\ p.tree[n] = t[n] /\ ClosedAt(t, n)
        /\ \A x \in DOMAIN p.tree : p.tree[x].stmt = t[x].stmt
    BY <1>1, <1>3 DEF IsCut
  <2>2. EndOrCovered(p.tree, n, 1) => EndOrCovered(t, n, 1) \/ ~OneChild(p.tree[n])
    <3> SUFFICES ASSUME OneChild(p.tree[n]), EndOrCovered(p.tree, n, 1)
                 PROVE  EndOrCovered(t, n, 1)
      OBVIOUS
    <3>1. 1 \in DOMAIN p.tree[n].kids
      BY NodeFacts
    <3> QED BY <1>1, <1>3, <3>1, CutCoverage
  <2>3. CASE OneChild(p.tree[n])
    <3>1. SameShape(p.tree[n], t[n]) /\ p.tree[n].covered = t[n].covered
      BY <2>1 DEF SameShape
    <3> DEFINE u == p.tree
    <3>2. /\ Tree(u) /\ n \in DOMAIN u /\ SameShape(u[n], t[n]) /\ u[n].covered = t[n].covered
          /\ EndOrCovered(u, n, 1) => EndOrCovered(t, n, 1)
          /\ \A x \in DOMAIN u : u[x].stmt = t[x].stmt
      BY <2>1, <2>2, <2>3, <3>1
    <3> HIDE DEF u
    <3>3. ClosedAt(u, n)
      BY <2>1, <3>2, StaysClosed
    <3> QED BY <3>3 DEF u
  <2> QED BY <2>3 DEF ClosedAt
<1>4. k \in 1..(Len(p.stack) - 1) /\ m \in 1..(Len(p.stack) - 1) /\ p.stack[k] = s[k]
        /\ p.stack[m] = s[m]
  BY <1>1
<1> QED BY <1>2, <1>3, <1>4 DEF EndedOpen

\* Above high, DoBacktrack leaves the nodes of the path, uncovered as they were.
LEMMA AboveOpen ==
  ASSUME NEW p, Tree(p.tree), EndedPath(p.tree, p.stack), EndedOpen(p),
         NEW high \in 1..Len(p.stack), NEW k \in 1..(high - 1)
  PROVE  LET n == p.stack[k].node
         IN  n \in DOMAIN CoverTree(p, high) /\ ~CoverTree(p, high)[n].covered
<1> DEFINE s == p.stack  u == CoverTree(p, high)  n == s[k].node
<1>1. Len(s) \in Nat /\ high \in Nat /\ k \in 1..(Len(s) - 1) /\ k \in Nat
  BY EndedFacts
<1>2. n \in DOMAIN p.tree /\ Len(n) = k - 1 /\ ~p.tree[n].covered
  BY <1>1, EndedFacts DEF EndedOpen
<1>3. CASE /\ high \in 2..(Len(s) - 1) /\ LocOK(p.tree, s[high - 1])
           /\ Len(s[high - 1].node) = high - 2 /\ u = Cut(p.tree, s[high - 1])
  <2>1. IsCut(p.tree, s[high - 1], u)
    BY <1>3, CutFacts
  <2>2. Len(n) <= Len(s[high - 1].node)
    BY <1>1, <1>2, <1>3
  <2> HIDE DEF u, n
  <2>3. n \in DOMAIN u /\ u[n].covered = p.tree[n].covered
    BY <1>2, <2>1, <2>2 DEF IsCut
  <2> QED BY <1>2, <2>3 DEF u, n
<1>4. CASE u = CoverPath(p, high)
  <2>1. n \notin PathNodes(s, high)
    <3>1. ASSUME NEW j \in high..(Len(s) - 1), n = s[j].node PROVE FALSE
      <4>1. j \in 1..(Len(s) - 1) /\ j # k
        BY <1>1
      <4>2. Len(s[j].node) = j - 1
        BY <4>1, EndedNode
      <4> QED BY <1>1, <1>2, <3>1, <4>1, <4>2
    <3> QED BY <3>1 DEF PathNodes
  <2>2. DOMAIN u = DOMAIN p.tree
    BY <1>4 DEF CoverPath
  <2>3. u[n].covered <=> p.tree[n].covered \/ n \in PathNodes(s, high)
    BY <1>2, <1>4, CoverPathFacts
  <2> QED BY <1>2, <2>1, <2>2, <2>3
<1> QED BY <1>3, <1>4, CoverCases DEF CoverPath

\* A location of the path above high - 1 leads to the next node, which is not covered.
LEMMA AboveLive ==
  ASSUME GivenInv, NEW p, Tree(p.tree), EndedPath(p.tree, p.stack), EndedOpen(p),
         NEW high \in 1..Len(p.stack), Tree(CoverTree(p, high)), NEW k \in 1..(high - 2)
  PROVE  LET u == CoverTree(p, high)
             n == p.stack[k].node
             i == p.stack[k].idx
         IN  /\ n \in DOMAIN u /\ i \in DOMAIN u[n].kids /\ u[n].kids[i] = "node"
             /\ p.stack[k + 1].node = Append(n, i) /\ ~EndOrCovered(u, n, i)
<1> DEFINE s == p.stack  u == CoverTree(p, high)  n == s[k].node  i == s[k].idx
<1>1. Len(s) \in Nat /\ high \in Nat /\ k \in 1..(Len(s) - 2) /\ k \in 1..(high - 1)
        /\ k + 1 \in 1..(high - 1) /\ k \in 1..(Len(s) - 1)
  BY EndedFacts
<1>2. n \in DOMAIN u /\ s[k + 1].node \in DOMAIN u /\ ~u[s[k + 1].node].covered
  BY <1>1, AboveOpen
<1>3. s[k + 1].node = Append(n, i)
  BY <1>1, EndedChain DEF Child
<1>4. n \in Names /\ i \in Nat
  BY <1>1, EndedFacts
<1> HIDE DEF u
<1>5. i \in DOMAIN u[n].kids /\ u[n].kids[i] = "node"
  BY <1>2, <1>3, <1>4, ParentIn DEF u
<1> QED BY <1>2, <1>3, <1>5 DEF EndOrCovered, u

-----------------------------------------------------------------------------
\* Where coverage stops, there are several branches.
LEMMA StopsAtBranches ==
  ASSUME GivenInv, NEW p, Tree(p.tree), EndedPath(p.tree, p.stack), NEW m,
         NEW high \in 2..Len(p.stack), HighestCovered(p, high, m)
  PROVE  ~OneChild(p.tree[p.stack[high - 1].node])
<1> DEFINE n == p.stack[high - 1].node  i == p.stack[high - 1].idx
<1> SUFFICES ASSUME OneChild(p.tree[n]) PROVE FALSE
  OBVIOUS
<1>1. high - 1 \in 1..(Len(p.stack) - 1)
  BY EndedFacts
<1>2. n \in DOMAIN p.tree /\ i \in DOMAIN p.tree[n].kids
  BY <1>1, EndedFacts
<1>3. DOMAIN p.tree[n].kids \ {i} = {}
  BY <1>2, NodeFacts
<1>4. FullSize(p.tree, n)
  BY <1>2, NodeFacts DEF FullSize, OneChild
<1>5. Covers(p.tree, n, {i}, m)
  BY <1>3, <1>4, CoversWhen
<1> QED BY <1>1, <1>5 DEF HighestCovered

\* What DoBacktrack leaves off the path is as closed as before.
LEMMA OffPathClosed ==
  ASSUME GivenInv, NEW p, Tree(p.tree), EndedPath(p.tree, p.stack), EndedOpen(p), NEW m,
         NEW high \in 1..Len(p.stack), NEW n \in DOMAIN CoverTree(p, high),
         Tree(CoverTree(p, high)),
         \A k \in 1..(Len(p.stack) - 1) : n # p.stack[k].node
  PROVE  ClosedAt(CoverTree(p, high), n)
<1> DEFINE s == p.stack  u == CoverTree(p, high)  t == p.tree
<1> SUFFICES ASSUME OneChild(u[n]) PROVE ClosedAt(u, n)
  BY DEF ClosedAt
<1>1. Len(s) \in Nat /\ Len(s) > 1 /\ high \in Nat
  BY EndedFacts
<1>2. 1 \in DOMAIN u[n].kids
  BY NodeFacts
<1>3. /\ n \in DOMAIN t /\ SameShape(u[n], t[n]) /\ u[n].covered = t[n].covered
      /\ EndOrCovered(u, n, 1) => EndOrCovered(t, n, 1)
      /\ \A x \in DOMAIN u : x \in DOMAIN t => u[x].stmt = t[x].stmt
  <2>1. CASE high \in 2..(Len(s) - 1) /\ LocOK(t, s[high - 1]) /\ u = Cut(t, s[high - 1])
    <3>1. IsCut(t, s[high - 1], u)
      BY <2>1, CutFacts
    <3>2. n # s[high - 1].node
      <4>1. high - 1 \in 1..(Len(s) - 1)
        BY <1>1, <2>1
      <4> QED BY <4>1
    <3> HIDE DEF u, t
    <3>3. n \in DOMAIN t /\ u[n] = t[n]
      BY <3>1, <3>2 DEF IsCut, u
    <3>4. EndOrCovered(u, n, 1) => EndOrCovered(t, n, 1)
      BY <1>2, <2>1, <3>1, <3>2, CutCoverage DEF u, t
    <3>5. \A x \in DOMAIN u : u[x].stmt = t[x].stmt
      BY <3>1 DEF IsCut
    <3> QED BY <3>3, <3>4, <3>5 DEF SameShape
  <2>2. CASE u = CoverPath(p, high)
    <3>1. DOMAIN u = DOMAIN t
      BY <2>2 DEF CoverPath
    <3>2. \A x \in DOMAIN t : /\ u[x].covered <=> t[x].covered \/ x \in PathNodes(s, high)
                              /\ u[x].kids = t[x].kids /\ u[x].stmt = t[x].stmt
      BY <2>2, CoverPathFacts
    <3>3. n \in DOMAIN t /\ n \in Names /\ t[n] \in Records /\ u[n] \in Records
      BY <3>1, TreeNames
    <3>4. n \notin PathNodes(s, high)
      BY <1>1 DEF PathNodes
    <3>5. Append(n, 1) \notin PathNodes(s, high)
      <4>1. ASSUME NEW k \in high..(Len(s) - 1), Append(n, 1) = s[k].node PROVE FALSE
        <5>1. k \in 1..(Len(s) - 1)
          BY <1>1
        <5>2. PathHangs(s)
          BY PathChild
        <5>3. k - 1 \in 1..(Len(s) - 1) /\ n = s[k - 1].node
          BY <3>3, <4>1, <5>1, <5>2 DEF PathHangs
        <5> QED BY <5>3
      <4> QED BY <4>1 DEF PathNodes
    <3>6. t[n].kids[1] = "node" => Append(n, 1) \in DOMAIN t
      BY <1>2, <3>2, <3>3 DEF Tree, LinksOK
    <3>7. EndOrCovered(u, n, 1) => EndOrCovered(t, n, 1)
      BY <3>2, <3>3, <3>5, <3>6 DEF EndOrCovered
    <3>8. u[n].covered = t[n].covered
      BY <3>2, <3>3, <3>4 DEF Records
    <3>9. SameShape(u[n], t[n])
      BY <2>2, <3>3 DEF CoverPath, SameShape, Records
    <3> QED BY <3>2, <3>3, <3>7, <3>8, <3>9
  <2> QED BY <2>1, <2>2, CoverCases DEF CoverPath
<1>4. ClosedAt(t, n)
  BY <1>3 DEF EndedOpen
<1> HIDE DEF u, t
<1> QED BY <1>3, <1>4, StaysClosed DEF u, t

\* DoBacktrack leaves coverage that is what the tree says and a stack that is open.
LEMMA DoBacktrackCoverage ==
  ASSUME GivenInv, Calm(script, config, faults), NEW m, EndsOnly(m), NEW p, Tree(p.tree),
         EndedPath(p.tree, p.stack), EndedOpen(p),
         NEW high \in 1..Len(p.stack), HighestCovered(p, high, m)
  PROVE  /\ \A n \in DOMAIN CoverTree(p, high) : ClosedAt(CoverTree(p, high), n)
         /\ Uncovered(CoverTree(p, high), TruncatedStack(p, high))
         /\ LastOpen(CoverTree(p, high), TruncatedStack(p, high), m)
<1> DEFINE s == p.stack  u == CoverTree(p, high)  q == TruncatedStack(p, high)  t == p.tree
<1>1. Len(s) \in Nat /\ high \in Nat /\ high <= Len(s) /\ Len(s) > 1
  BY EndedFacts
<1>2. /\ Tree(u)
      /\ \/ q = <<>> /\ Len(q) = 0
         \/ /\ high > 2 /\ Path(u, q) /\ Len(q) = high - 2
            /\ \A k \in 1..Len(q) : q[k] = s[k]
  BY DoBacktrackFacts
<1>3. ASSUME NEW k \in 1..(high - 2)
      PROVE  LET n == s[k].node
                 i == s[k].idx
             IN  /\ n \in DOMAIN u /\ i \in DOMAIN u[n].kids /\ u[n].kids[i] = "node"
                 /\ s[k + 1].node = Append(n, i) /\ ~EndOrCovered(u, n, i)
  BY <1>2, AboveLive
<1>4. ASSUME NEW n \in DOMAIN u PROVE ClosedAt(u, n)
  <2>1. CASE \A k \in 1..(Len(s) - 1) : n # s[k].node
    BY <1>2, <2>1, OffPathClosed
  <2>2. ASSUME NEW k \in 1..(Len(s) - 1), n = s[k].node PROVE ClosedAt(u, n)
    <3>1. n \in DOMAIN t /\ u[n].stmt = t[n].stmt /\ (k >= high => u[n].covered)
      <4>1. CASE /\ high \in 2..(Len(s) - 1) /\ LocOK(t, s[high - 1])
                 /\ u = Cut(t, s[high - 1])
        <5>1. IsCut(t, s[high - 1], u)
          BY <4>1, CutFacts
        <5>2. k < high
          <6> SUFFICES ASSUME k >= high PROVE FALSE
            BY <1>1
          <6>1. high \in 1..k /\ high - 1 \in 1..(Len(s) - 2) /\ (high - 1) + 1 = high
            BY <1>1, <2>2, <4>1
          <6>2. Below(s[high].node, n) /\ s[high].node = Child(s[high - 1])
            BY <2>2, <6>1, EndedChain
          <6> HIDE DEF u
          <6> QED BY <5>1, <6>2 DEF IsCut
        <5> HIDE DEF u, t
        <5>3. n \in DOMAIN t /\ u[n].stmt = t[n].stmt
          BY <5>1 DEF IsCut
        <5> QED BY <1>1, <5>2, <5>3
      <4>2. CASE u = CoverPath(p, high)
        <5>1. n \in DOMAIN t
          BY <4>2 DEF CoverPath
        <5>2. /\ u[n].covered <=> t[n].covered \/ n \in PathNodes(s, high)
              /\ u[n].stmt = t[n].stmt
          BY <4>2, <5>1, CoverPathFacts
        <5>3. k >= high => n \in PathNodes(s, high)
          BY <1>1, <2>2 DEF PathNodes
        <5> QED BY <5>1, <5>2, <5>3
      <4> QED BY <4>1, <4>2, CoverCases DEF CoverPath
    <3>2. CASE k >= high
      BY <3>1, <3>2 DEF ClosedAt
    <3>3. CASE k = high - 1
      <4>1. high \in 2..Len(s)
        BY <1>1, <2>2, <3>3
      <4>2. ~OneChild(t[n])
        BY <2>2, <3>3, <4>1, StopsAtBranches
      <4>3. ~OneChild(u[n])
        BY <3>1, <4>2 DEF OneChild
      <4> QED BY <4>3 DEF ClosedAt
    <3>4. CASE k < high - 1
      <4> SUFFICES ASSUME OneChild(u[n]) PROVE ~EndOrCovered(u, n, 1)
        BY DEF ClosedAt
      <4>1. k \in 1..(high - 2)
        BY <1>1, <2>2, <3>4
      <4>2. s[k].idx \in DOMAIN u[n].kids /\ ~EndOrCovered(u, n, s[k].idx)
        BY <1>3, <2>2, <4>1
      <4>3. s[k].idx = 1
        BY <1>2, <4>2, NodeFacts
      <4> QED BY <4>2, <4>3
    <3> QED BY <1>1, <3>2, <3>3, <3>4
  <2> QED BY <2>1, <2>2
<1>5. ASSUME NEW k \in 1..(high - 1) PROVE s[k].node \in DOMAIN u /\ ~u[s[k].node].covered
  BY AboveOpen
<1> HIDE DEF u, q
<1>6. ASSUME q = <<>>, Len(q) = 0 PROVE Uncovered(u, q) /\ LastOpen(u, q, m)
  BY <1>6 DEF Uncovered, LastOpen
<1>7. ASSUME high > 2, Path(u, q), Len(q) = high - 2, \A k \in 1..Len(q) : q[k] = s[k]
      PROVE  Uncovered(u, q) /\ LastOpen(u, q, m)
  <2> DEFINE n == s[high - 2].node  i == s[high - 2].idx
  <2>1. high - 2 \in 1..Len(q) /\ high - 2 \in 1..(high - 2)
    BY <1>1, <1>7
  <2>2. Last(q) = s[high - 2]
    BY <1>7, <2>1 DEF Last
  <2>3. n \in DOMAIN u /\ i \in DOMAIN u[n].kids /\ u[n].kids[i] = "node"
        /\ ~EndOrCovered(u, n, i)
    BY <1>3, <2>1
  <2>4. n # Root => <<script[u[n].stmt].info, i>> \notin m
    BY <1>2, <2>3, LiveNotMarked
  <2>5. LastOpen(u, q, m)
    BY <2>2, <2>3, <2>4 DEF LastOpen, ChildCovered
  <2>6. Uncovered(u, q)
    <3>1. \A k \in 1..Len(q) : k \in 1..(high - 1)
      BY <1>1, <1>7
    <3> QED BY <1>5, <1>7, <3>1 DEF Uncovered
  <2> QED BY <2>5, <2>6
<1>8. Uncovered(u, q) /\ LastOpen(u, q, m)
  BY <1>2, <1>6, <1>7
<1> QED BY <1>4, <1>8 DEF u, q

-----------------------------------------------------------------------------
\* The end of a run: no selection is covered because all threads have ended, the end node
\* goes where the run stopped, and what is marked then ends the script.
LEMMA EndCalm ==
  ASSUME TreeInv, CoverInv, EndBacktrack
  PROVE  LET p == CompletePath
         IN  /\ GivenInv /\ Tree(tree) /\ Path(tree, stack) /\ index \in 1..Len(stack)
             /\ AfterAllEnded = tree /\ p = AddEndToPath(tree, stack, index)
             /\ Tree(p.tree) /\ EndedPath(p.tree, p.stack) /\ EndedOpen(p)
             /\ \E m \in index..Len(stack) : EndsAt(tree, stack, m, p)
             /\ EndsOnly(marked \cup MarkBranch) /\ LastParent \in DOMAIN tree
             /\ NodeKind(LastParent) # "exists" /\ Len(p.stack) <= index + 2
<1> DEFINE p == CompletePath
<1>1. /\ Path(tree, stack) /\ index \in 1..Len(stack) /\ Tree(tree) /\ GivenInv
      /\ Calm(script, config, faults) /\ EndsOnly(marked) /\ Uncovered(tree, stack)
      /\ reason = "SUCCESS" => Goes(tree[stack[index].node], stack[index].idx) = Exit
  BY DEF CoverInv, CalmInv, EndBacktrack, Ending, TreeInv
<1>2. /\ LastParent \in DOMAIN tree /\ LastParent # EndNode /\ LastParent = stack[index].node
      /\ stack[index].idx \in DOMAIN tree[LastParent].kids /\ ~tree[LastParent].covered
  <2>1. /\ LastParent = stack[index].node /\ LastParent \in DOMAIN tree
        /\ stack[index].idx \in DOMAIN tree[LastParent].kids
    BY <1>1, PathFacts DEF LastParent, GetLastNodeInStack
  <2> QED BY <1>1, <2>1, TreeNames DEF Uncovered
<1>3. AfterAllEnded = tree
  BY DEF AfterAllEnded, CoverInv, CalmInv
<1>4. p = AddEndToPath(tree, stack, index)
  BY <1>2, <1>3 DEF CompletePath
<1>5. NodeKind(LastParent) # "exists"
  BY <1>2, <1>3 DEF TryAnother, EndBacktrack
<1>6. /\ Tree(p.tree) /\ EndedPath(p.tree, p.stack)
      /\ \E m \in 1..Len(stack) : EndsAt(tree, stack, m, p)
  BY <1>1, <1>4, AddEnd
<1>7. Len(p.stack) = IF index < Len(stack) THEN index + 2 ELSE Len(stack) + 1
  <2> DEFINE s1 == IF index < Len(stack) THEN SubSeq(stack, 1, index + 1) ELSE stack
  <2>1. stack \in Seq(ChildLocs) /\ Len(stack) \in Nat
    BY <1>1, PathFacts DEF Path
  <2>2. s1 \in Seq(ChildLocs) /\ Len(s1) = IF index < Len(stack) THEN index + 1 ELSE Len(stack)
    BY <1>1, <2>1, Prefix
  <2>3. p.stack = Append(s1, EndLoc)
    BY <1>4 DEF AddEndToPath
  <2> HIDE DEF s1
  <2> QED BY <1>1, <2>1, <2>2, <2>3, EndLocType, AppendProperties
<1>8. PICK m \in 1..Len(stack) : EndsAt(tree, stack, m, p)
  BY <1>6
<1>9. index <= m /\ m \in index..Len(stack)
  BY <1>1, <1>7, <1>8, PathFacts DEF EndsAt
<1>10. \A n \in DOMAIN tree : ClosedAt(tree, n) \/ n = stack[index].node
  BY <1>2 DEF CoverInv
<1> HIDE DEF p
<1>11. EndedOpen(p)
  BY <1>1, <1>6, <1>8, <1>9, <1>10, EndedIsOpen
<1>12. EndsOnly(MarkBranch)
  <2> SUFFICES ASSUME reason = "SUCCESS", config.mark, NodeKind(LastParent) = "choice"
               PROVE  EndsOnly({<<script[tree[LastParent].stmt].info, stack[index].idx>>})
    BY DEF MarkBranch, EndsOnly, GetLastNodeInStack
  <2>1. LastParent # Root /\ Kind(tree[LastParent].stmt) = "choice"
    BY <1>2 DEF NodeKind
  <2>2. tree[LastParent].stmt \in Locs /\ tree[LastParent].stmt # 0
        /\ stack[index].idx \in {1, 2}
    BY <1>1, <1>2, <2>1, NodeFacts
  <2>3. script[tree[LastParent].stmt].next[stack[index].idx] = Exit
    BY <1>1, <1>2, <2>1, <2>2 DEF Goes
  <2> QED BY <2>1, <2>2, <2>3 DEF EndsOnly
<1>13. EndsOnly(marked \cup MarkBranch)
  BY <1>1, <1>12 DEF EndsOnly
<1>14. Len(p.stack) <= index + 2
  BY <1>1, <1>7, PathFacts
<1> QED BY <1>1, <1>2, <1>3, <1>4, <1>5, <1>6, <1>8, <1>9, <1>11, <1>13, <1>14 DEF p

\* EndBacktrack keeps CoverInv.
LEMMA CoverEndBacktrack ==
  ASSUME TreeInv, CoverInv, EndBacktrack
  PROVE  CoverInv'
<1> DEFINE p == CompletePath  m == marked \cup MarkBranch
<1>1. /\ pc' = "explore" /\ UNCHANGED <<given, reason, failed>> /\ marked' = m
      /\ \E high \in 1..Len(p.stack) :
           /\ HighestCovered(p, high, m)
           /\ tree' = CoverTree(p, high) /\ stack' = TruncatedStack(p, high)
  BY DEF EndBacktrack
<1>2. /\ GivenInv /\ Tree(p.tree) /\ EndedPath(p.tree, p.stack) /\ EndedOpen(p)
      /\ EndsOnly(m)
  BY EndCalm
<1> HIDE DEF p, m
<1>3. PICK high \in 1..Len(p.stack) :
        /\ HighestCovered(p, high, m)
        /\ tree' = CoverTree(p, high) /\ stack' = TruncatedStack(p, high)
  BY <1>1
<1>4. Calm(script, config, faults)
  BY DEF CoverInv, CalmInv
<1>5. /\ \A n \in DOMAIN tree' : ClosedAt(tree', n)
      /\ Uncovered(tree', stack') /\ LastOpen(tree', stack', m)
  BY <1>2, <1>3, <1>4, DoBacktrackCoverage
<1> QED BY <1>1, <1>2, <1>5, StaysCalm DEF CoverInv, CalmInv

\* A stutter keeps CoverInv.
LEMMA CoverStutter ==
  ASSUME TreeInv, CoverInv, UNCHANGED vars
  PROVE  CoverInv'
<1>1. UNCHANGED <<given, tree, stack, index, reason, marked, pc, failed>>
  BY DEF vars
<1>2. script' = script /\ config' = config /\ faults' = faults
  BY <1>1 DEF given
<1>3. Locs' = Locs /\ Exit' = Exit /\ \A l : Kind(l)' = Kind(l)
  BY <1>2 DEF Locs, Exit, Kind
<1>4. CalmInv'
  BY <1>1, <1>2, <1>3 DEF CoverInv, CalmInv, Calm, MarksAgree, EndsOnly, Path, LocOK, Goes
<1>5. /\ Uncovered(tree, stack)' <=> Uncovered(tree, stack)
      /\ LastOpen(tree, stack, marked)' <=> LastOpen(tree, stack, marked)
      /\ \A n : ClosedAt(tree, n)' <=> ClosedAt(tree, n)
      /\ LastParent' = LastParent /\ \A n : NodeKind(n)' = NodeKind(n)
  BY <1>1, <1>2, <1>3 DEF Uncovered, LastOpen, Last, ChildCovered, EndOrCovered, ClosedAt, OneChild,
     FoundCovered, LastParent, GetLastNodeInStack, NodeKind
<1> QED BY <1>1, <1>4, <1>5 DEF CoverInv

\* CoverInv holds at first, ...
LEMMA CoverStart ==
  ASSUME Init, Calm(script, config, faults)
  PROVE  CoverInv
<1>1. CalmInv
  BY DEF Init, CalmInv, EndsOnly
<1>2. DOMAIN tree = {Root} /\ tree[Root] = RootNode /\ stack = <<RootLoc>> /\ marked = {}
  BY DEF Init
<1>3. ~RootNode.covered /\ RootNode.kids[1] = "null"
  BY DEF RootNode
<1>4. ~EndOrCovered(tree, Root, 1)
  BY <1>2, <1>3 DEF EndOrCovered
<1>5. Len(stack) = 1 /\ stack[1] = RootLoc
  BY <1>2
<1>6. Uncovered(tree, stack) /\ LastOpen(tree, stack, marked)
  BY <1>2, <1>3, <1>4, <1>5 DEF Uncovered, LastOpen, RootLoc, Last, ChildCovered
<1> QED BY <1>1, <1>2, <1>4, <1>6 DEF CoverInv, ClosedAt

\* ... and every step keeps it: the threads have not all ended at a statement.
LEMMA CoverStep ==
  ASSUME TreeInv, CoverInv, [Next]_vars
  PROVE  CoverInv'
<1>1. CASE UNCHANGED vars
  BY <1>1, CoverStutter
<1>2. CASE Step
  <2>1. CASE ChoiceCovered \/ DSLChoice \/ DSLConditional \/ Submit \/ DSLTransition
    BY <2>1, CoverChoiceCovered, CoverChoice, CoverConditional, CoverSubmit, CoverSingle
  <2>2. CASE \E t \in Threads : ForallSelect(t) \/ ForallRefuse(t) \/ ExistsSelect(t)
    BY <2>2, CoverForallSelect, CoverForallRefuse, CoverSingle
  <2>3. CASE ReplayFails \/ Timeout \/ AssumeFails \/ ScriptEnd
    BY <2>3, CoverThrow
  <2>4. CASE EndExists \/ EndBacktrack \/ RootCovered \/ Restart
    BY <2>4, CoverEndExists, CoverEndBacktrack, CoverRootCovered, CoverRestart
  <2>5. CASE ThreadsAllEnded \/ EndTest
    BY <2>5 DEF ThreadsAllEnded, EndTest, CoverInv, CalmInv, Calm
  <2> QED BY <1>2, <2>1, <2>2, <2>3, <2>4, <2>5 DEF Step
<1> QED BY <1>1, <1>2 DEF Next

\* Every search of CalmSearches is calm.
LEMMA CalmStart ==
  ASSUME CalmSearches, Init
  PROVE  Calm(script, config, faults)
  BY DEF CalmSearches, Init

\* In calm searches the stack of a run is a path of live nodes none of which is covered: no
\* replay is wasted.
THEOREM StackCorrect ==
  ASSUME CalmSearches
  PROVE  Spec => []StackIsPath
<1>1. Init => TreeInv /\ CoverInv
  BY TreeStart, CalmStart, CoverStart
<1>2. TreeInv /\ CoverInv /\ [Next]_vars => (TreeInv /\ CoverInv)'
  BY TreeStep, CoverStep
<1>3. TreeInv /\ CoverInv => StackIsPath
  BY TreeLinked DEF StackIsPath, CoverInv, Uncovered
<1> QED BY <1>1, <1>2, <1>3, PTL DEF Spec

\* ... and no safe_assert of the statements or of Restart fails.
THEOREM NoAbortCorrect ==
  ASSUME CalmSearches
  PROVE  Spec => []NoAbort
<1>1. Init => TreeInv /\ CoverInv
  BY TreeStart, CalmStart, CoverStart
<1>2. TreeInv /\ CoverInv /\ [Next]_vars => (TreeInv /\ CoverInv)'
  BY TreeStep, CoverStep
<1>3. TreeInv /\ CoverInv => NoAbort
  BY DEF NoAbort, CoverInv, CalmInv
<1> QED BY <1>1, <1>2, <1>3, PTL DEF Spec

-----------------------------------------------------------------------------
\* The runs of a script.

\* A set of natural numbers has a least element.
LEMMA Least ==
  ASSUME NEW S \in SUBSET Nat, S # {}
  PROVE  \E n \in S : \A m \in S : n <= m
<1> DEFINE R == {ss \in Nat \X Nat : ss[1] < ss[2]}
<1>1. IsWellFoundedOn(R, Nat)
  BY NatLessThanWellFounded DEF OpToRel
<1> HIDE DEF R
<1>2. PICK n \in S : \A m \in S : ~(<<m, n>> \in R)
  BY <1>1, WFMin
<1>3. \A m \in S : ~(m < n)
  BY <1>2 DEF R
<1> QED BY <1>3

\* The ways a statement goes on lead forward.
LEMMA EdgeFacts ==
  ASSUME GivenInv, NEW l \in Locs
  PROVE  /\ Edges(l) # {}
         /\ \A e \in Edges(l) : \E d \in Decisions, k \in (l + 1)..Exit :
              e = <<d, k>> /\ k \in 1..Exit
<1>1. PICK search \in Searches :
        script = search.script /\ config = search.config /\ faults = search.faults
  BY DEF GivenInv
<1>2. /\ Kind(l) \in {"choice", "cond", "forall", "exists", "trans"} /\ l \in Nat
      /\ Len(script) \in Nat /\ script[l].scope \subseteq Threads
  BY ScriptFacts DEF Locs
<1>3. /\ Len(script[l].next) = IF Kind(l) \in {"choice", "cond"} THEN 2 ELSE 1
      /\ \A i \in 1..Len(script[l].next) :
           script[l].next[i] \in (l + 1)..(Len(script) + 1)
  BY <1>1, SearchAssumption DEF Kind, Locs
<1>4. CondValues \subseteq BOOLEAN /\ TRUE \in CondValues
  BY DEF CondValues
<1>5. ScopeOf(l) \subseteq Threads /\ ScopeOf(l) # {}
  BY <1>2, SearchAssumption DEF ScopeOf
<1>6. \A i \in {1, 2} : Answer[i] \in Decisions
  BY DEF Answer, Decisions
<1>7. \A v \in BOOLEAN : CondIndex(v) \in {1, 2}
  BY DEF CondIndex
<1>8. \A k \in (l + 1)..Exit : k \in 1..Exit
  BY <1>2 DEF Exit
<1>9. CASE Kind(l) = "choice"
  <2>1. Edges(l) = {<<Answer[i], script[l].next[i]>> : i \in {1, 2}}
    BY <1>9 DEF Edges
  <2>2. \A i \in {1, 2} : script[l].next[i] \in (l + 1)..Exit
    BY <1>3, <1>9 DEF Exit
  <2>3. <<Answer[1], script[l].next[1]>> \in Edges(l)
    BY <2>1
  <2>4. ASSUME NEW e \in Edges(l)
        PROVE  \E d \in Decisions, k \in (l + 1)..Exit : e = <<d, k>> /\ k \in 1..Exit
    <3>1. PICK i \in {1, 2} : e = <<Answer[i], script[l].next[i]>>
      BY <2>1
    <3> QED BY <1>6, <1>8, <2>2, <3>1
  <2> QED BY <2>3, <2>4
<1>10. CASE Kind(l) = "cond"
  <2>1. Edges(l) = {<<Answer[CondIndex(v)], script[l].next[CondIndex(v)]>> : v \in CondValues}
    BY <1>10 DEF Edges
  <2>2. \A i \in {1, 2} : script[l].next[i] \in (l + 1)..Exit
    BY <1>3, <1>10 DEF Exit
  <2>3. <<Answer[CondIndex(TRUE)], script[l].next[CondIndex(TRUE)]>> \in Edges(l)
    BY <1>4, <2>1
  <2>4. ASSUME NEW e \in Edges(l)
        PROVE  \E d \in Decisions, k \in (l + 1)..Exit : e = <<d, k>> /\ k \in 1..Exit
    <3>1. PICK v \in CondValues : e = <<Answer[CondIndex(v)], script[l].next[CondIndex(v)]>>
      BY <2>1
    <3>2. CondIndex(v) \in {1, 2}
      BY <1>4, <1>7
    <3> QED BY <1>6, <1>8, <2>2, <3>1, <3>2
  <2> QED BY <2>3, <2>4
<1>11. CASE Kind(l) \in {"forall", "exists", "trans"}
  <2>1. script[l].next[1] \in (l + 1)..Exit
    BY <1>3, <1>11 DEF Exit
  <2>2. PICK D \in SUBSET Decisions : D # {} /\ Edges(l) = {<<d, script[l].next[1]>> : d \in D}
    <3>1. CASE Kind(l) = "forall"
      <4>1. Edges(l) = {<<t, script[l].next[1]>> : t \in ScopeOf(l)}
        BY <3>1 DEF Edges
      <4>2. ScopeOf(l) \in SUBSET Decisions
        BY <1>5 DEF Decisions
      <4> QED BY <1>5, <4>1, <4>2
    <3>2. CASE Kind(l) = "exists"
      <4>1. Edges(l) = {<<d, script[l].next[1]>> : d \in {"some"}}
        BY <3>2 DEF Edges
      <4>2. {"some"} \in SUBSET Decisions
        BY DEF Decisions
      <4> QED BY <4>1, <4>2
    <3>3. CASE Kind(l) = "trans"
      <4>1. Edges(l) = {<<d, script[l].next[1]>> : d \in {"run"}}
        BY <3>3 DEF Edges
      <4>2. {"run"} \in SUBSET Decisions
        BY DEF Decisions
      <4> QED BY <4>1, <4>2
    <3> QED BY <1>11, <3>1, <3>2, <3>3
  <2>3. Edges(l) # {}
    BY <2>2
  <2>4. ASSUME NEW e \in Edges(l)
        PROVE  \E d \in Decisions, k \in (l + 1)..Exit : e = <<d, k>> /\ k \in 1..Exit
    <3>1. PICK d \in D : e = <<d, script[l].next[1]>>
      BY <2>2
    <3> QED BY <1>8, <2>1, <2>2, <3>1
  <2> QED BY <2>3, <2>4
<1> QED BY <1>2, <1>9, <1>10, <1>11

\* The runs from l, given those from the statements after it.
Onwards(f, l) ==
  IF l = Exit THEN {<<>>}
  ELSE UNION {{<<e[1]>> \o s : s \in f[e[2]]} : e \in Edges(l)}

\* It depends on those only.
LEMMA OnwardsSame ==
  ASSUME GivenInv, NEW l \in 1..Exit, NEW f, NEW g, \A k \in (l + 1)..Exit : f[k] = g[k]
  PROVE  Onwards(f, l) = Onwards(g, l)
<1>1. CASE l = Exit
  BY <1>1 DEF Onwards
<1>2. CASE l # Exit
  <2>1. l \in Locs
    BY <1>2, ScriptFacts DEF Locs, Exit
  <2>2. ASSUME NEW e \in Edges(l) PROVE f[e[2]] = g[e[2]]
    <3>1. PICK d \in Decisions, k \in (l + 1)..Exit : e = <<d, k>>
      BY <2>1, EdgeFacts
    <3>2. e[2] = k
      BY <3>1
    <3> QED BY <3>2
  <2> DEFINE From(h, e) == {<<e[1]>> \o s : s \in h[e[2]]}
             F == {From(f, e) : e \in Edges(l)}
             G == {From(g, e) : e \in Edges(l)}
  <2>3. \A e \in Edges(l) : From(f, e) = From(g, e)
    BY <2>2
  <2>4. F = G
    <3> HIDE DEF From
    <3> QED BY <2>3
  <2>5. Onwards(f, l) = UNION F
    BY <1>2, Zenon DEF Onwards
  <2>6. Onwards(g, l) = UNION G
    BY <1>2, Zenon DEF Onwards
  <2> HIDE DEF F, G
  <2> QED BY <2>4, <2>5, <2>6
<1> QED BY <1>1, <1>2

\* Trails is the function its definition says.
LEMMA TrailsExist ==
  ASSUME GivenInv
  PROVE  \E f : f = [l \in 1..Exit |-> Onwards(f, l)]
<1> DEFINE Has(k) == \E f : DOMAIN f = k..Exit /\ \A l \in k..Exit : f[l] = Onwards(f, l)
           Bad == {j \in 0..Len(script) : ~Has(Exit - j)}
<1>1. Len(script) \in Nat /\ Exit = Len(script) + 1
  BY ScriptFacts DEF Exit
<1>2. Bad = {}
  <2> SUFFICES ASSUME Bad # {} PROVE FALSE
    OBVIOUS
  <2>1. PICK j \in Bad : \A i \in Bad : j <= i
    <3>1. Bad \in SUBSET Nat
      BY <1>1
    <3> HIDE DEF Bad
    <3> QED BY <3>1, Least
  <2>2. j \in 0..Len(script) /\ ~Has(Exit - j)
    OBVIOUS
  <2>3. CASE j = 0
    <3> DEFINE f == [l \in Exit..Exit |-> {<<>>}]
    <3>1. \A l \in Exit..Exit : f[l] = Onwards(f, l)
      BY <1>1 DEF Onwards
    <3>2. Has(Exit)
      <4>1. DOMAIN f = Exit..Exit
        OBVIOUS
      <4> HIDE DEF f
      <4> QED BY <3>1, <4>1
    <3>3. Exit - j = Exit
      BY <1>1, <2>3
    <3> HIDE DEF Has
    <3> QED BY <2>2, <3>2, <3>3
  <2>4. CASE j # 0
    <3>1. j - 1 \in 0..Len(script) /\ ~(j <= j - 1)
      BY <1>1, <2>2, <2>4
    <3>2. Has(Exit - (j - 1))
      <4> HIDE DEF Has
      <4> QED BY <2>1, <3>1
    <3> DEFINE k == Exit - j
    <3>3. Exit - (j - 1) = k + 1 /\ k \in Nat /\ k \in 1..Exit /\ k # Exit
      BY <1>1, <2>2, <2>4
    <3>4. PICK f : DOMAIN f = (k + 1)..Exit /\ \A l \in (k + 1)..Exit : f[l] = Onwards(f, l)
      BY <3>2, <3>3
    <3> DEFINE g == [l \in k..Exit |-> IF l = k THEN Onwards(f, k) ELSE f[l]]
    <3> HIDE DEF k
    <3>5. \A l \in (k + 1)..Exit : g[l] = f[l]
      BY <1>1, <3>3
    <3>6. ASSUME NEW l \in k..Exit PROVE g[l] = Onwards(g, l)
      <4>1. \A i \in (l + 1)..Exit : f[i] = g[i]
        BY <1>1, <3>3, <3>5
      <4>2. Onwards(f, l) = Onwards(g, l)
        <5> HIDE DEF g
        <5> QED BY <1>1, <3>3, <4>1, OnwardsSame
      <4>3. g[l] = Onwards(f, l)
        BY <1>1, <3>3, <3>4
      <4> QED BY <4>2, <4>3
    <3>7. Has(k)
      BY <3>6
    <3> QED BY <2>2, <3>7 DEF k
  <2> QED BY <2>3, <2>4
<1>3. Has(1)
  <2>1. Len(script) \in 0..Len(script) /\ Exit - Len(script) = 1
    BY <1>1
  <2> QED BY <1>2, <2>1
<1>4. PICK f : DOMAIN f = 1..Exit /\ \A l \in 1..Exit : f[l] = Onwards(f, l)
  BY <1>3
<1> DEFINE g == [l \in 1..Exit |-> f[l]]
<1>5. \A l \in 1..Exit : g[l] = Onwards(g, l)
  <2> SUFFICES ASSUME NEW l \in 1..Exit PROVE g[l] = Onwards(g, l)
    OBVIOUS
  <2>1. \A i \in (l + 1)..Exit : f[i] = g[i]
    BY <1>1
  <2>2. Onwards(f, l) = Onwards(g, l)
    <3> HIDE DEF g
    <3> QED BY <2>1, OnwardsSame
  <2> QED BY <1>4, <2>2
<1>6. g = [l \in 1..Exit |-> Onwards(g, l)]
  BY <1>5
<1> QED BY <1>6

\* The runs from a statement begin with a way it goes on.
LEMMA TrailsFacts ==
  ASSUME GivenInv, NEW l \in 1..Exit
  PROVE  Trails[l] = Onwards(Trails, l)
<1>1. Trails = CHOOSE f : f = [k \in 1..Exit |-> Onwards(f, k)]
  BY DEF Trails, Onwards
<1>2. Trails = [k \in 1..Exit |-> Onwards(Trails, k)]
  BY <1>1, TrailsExist
<1> DEFINE g == [k \in 1..Exit |-> Onwards(Trails, k)]
<1>3. g[l] = Onwards(Trails, l)
  OBVIOUS
<1> QED BY <1>2, <1>3

LEMMA SameTrails ==
  ASSUME UNCHANGED given
  PROVE Trails' = Trails
<1>1. script' = script /\ faults' = faults
  BY DEF given
<1> QED BY <1>1 DEF Trails, Exit, Edges, Kind, CondValues, ScopeOf

-----------------------------------------------------------------------------
\* The walks through the script that a run takes.

\* w are the statements at which the decisions p are taken, from l to the end.
Walk(l, p, w) ==
  /\ p \in Seq(Decisions) /\ w \in [1..(Len(p) + 1) -> 1..Exit]
  /\ w[1] = l /\ w[Len(p) + 1] = Exit
  /\ \A j \in 1..Len(p) : w[j] \in Locs /\ <<p[j], w[j + 1]>> \in Edges(w[j])

\* A walk that begins one statement earlier.
LEMMA WalkCons ==
  ASSUME GivenInv, NEW l \in Locs, NEW d \in Decisions, NEW k, <<d, k>> \in Edges(l),
         NEW s, NEW v, Walk(k, s, v)
  PROVE  \E w : Walk(l, <<d>> \o s, w)
<1>1. s \in Seq(Decisions) /\ Len(s) \in Nat /\ v \in [1..(Len(s) + 1) -> 1..Exit]
  BY LenProperties DEF Walk
<1>2. <<d>> \in Seq(Decisions) /\ Len(<<d>>) = 1
  OBVIOUS
<1> DEFINE p == <<d>> \o s
           w == [j \in 1..(Len(s) + 2) |-> IF j = 1 THEN l ELSE v[j - 1]]
<1>3. /\ p \in Seq(Decisions) /\ Len(p) = Len(s) + 1
      /\ \A i \in 1..(Len(s) + 1) : p[i] = IF i <= 1 THEN <<d>>[i] ELSE s[i - 1]
  BY <1>1, <1>2, ConcatProperties
<1>4. p[1] = d /\ \A i \in 2..(Len(s) + 1) : p[i] = s[i - 1]
  <2>1. 1 \in 1..(Len(s) + 1) /\ <<d>>[1] = d
    BY <1>1
  <2> HIDE DEF p
  <2> QED BY <1>1, <1>3, <2>1
<1>5. l \in 1..Exit
  BY ScriptFacts DEF Locs, Exit
<1>6. /\ w \in [1..(Len(p) + 1) -> 1..Exit] /\ w[1] = l
      /\ \A j \in 2..(Len(s) + 2) : w[j] = v[j - 1]
  BY <1>1, <1>3, <1>5
<1> HIDE DEF p, w
<1>7. w[Len(p) + 1] = Exit /\ w[2] = k
  <2>1. v[1] = k /\ v[Len(s) + 1] = Exit
    BY DEF Walk
  <2>2. /\ Len(p) + 1 \in 2..(Len(s) + 2) /\ (Len(p) + 1) - 1 = Len(s) + 1
        /\ 2 \in 2..(Len(s) + 2) /\ 2 - 1 = 1
    BY <1>1, <1>3
  <2> QED BY <1>6, <2>1, <2>2
<1>8. ASSUME NEW j \in 1..Len(p)
      PROVE  w[j] \in Locs /\ <<p[j], w[j + 1]>> \in Edges(w[j])
  <2>1. CASE j = 1
    BY <1>4, <1>6, <1>7, <2>1
  <2>2. CASE j # 1
    <3>1. j - 1 \in 1..Len(s) /\ j \in 2..(Len(s) + 1) /\ j + 1 \in 2..(Len(s) + 2)
      BY <1>1, <1>3, <2>2
    <3>2. v[j - 1] \in Locs /\ <<s[j - 1], v[(j - 1) + 1]>> \in Edges(v[j - 1])
      BY <3>1 DEF Walk
    <3>3. w[j] = v[j - 1] /\ w[j + 1] = v[(j - 1) + 1] /\ p[j] = s[j - 1]
      <4>1. j \in 2..(Len(s) + 2) /\ (j + 1) - 1 = (j - 1) + 1
        BY <1>1, <3>1
      <4>2. w[j] = v[j - 1] /\ w[j + 1] = v[(j + 1) - 1]
        BY <1>6, <3>1, <4>1
      <4>3. p[j] = s[j - 1]
        BY <1>4, <3>1
      <4> QED BY <4>1, <4>2, <4>3
    <3> QED BY <3>2, <3>3
  <2> QED BY <2>1, <2>2
<1>9. Walk(l, p, w)
  BY <1>3, <1>6, <1>7, <1>8 DEF Walk
<1> QED BY <1>9 DEF p

\* ... and one that begins one later.
LEMMA WalkTail ==
  ASSUME GivenInv, NEW l, NEW p, NEW w, Walk(l, p, w), l # Exit
  PROVE  /\ p \in Seq(Decisions) /\ p # <<>> /\ p = <<p[1]>> \o Tail(p)
         /\ l \in Locs /\ <<p[1], w[2]>> \in Edges(l)
         /\ \E v : Walk(w[2], Tail(p), v)
<1>1. p \in Seq(Decisions) /\ Len(p) \in Nat /\ w \in [1..(Len(p) + 1) -> 1..Exit]
  BY LenProperties DEF Walk
<1>2. Len(p) # 0 /\ p # <<>>
  BY <1>1 DEF Walk
<1>3. 1 \in 1..Len(p)
  BY <1>1, <1>2
<1>4. l \in Locs /\ <<p[1], w[2]>> \in Edges(l)
  BY <1>3 DEF Walk
<1>5. /\ Tail(p) \in Seq(Decisions) /\ Len(Tail(p)) = Len(p) - 1
      /\ \A i \in 1..Len(Tail(p)) : Tail(p)[i] = p[i + 1]
  BY <1>1, <1>2, HeadTailProperties
<1>6. p = <<p[1]>> \o Tail(p)
  <2>1. SubSeq(p, 1, Len(p)) = <<p[1]>> \o SubSeq(p, 1 + 1, Len(p))
    BY <1>1, <1>3, SubSeqRecursiveFirst
  <2>2. SubSeq(p, 1, Len(p)) = p /\ Tail(p) = SubSeq(p, 2, Len(p))
    BY <1>1, <1>2, SubSeqFull, TailIsSubSeq
  <2> QED BY <2>1, <2>2
<1> DEFINE s == Tail(p)  v == [j \in 1..Len(p) |-> w[j + 1]]
<1>7. /\ v \in [1..(Len(s) + 1) -> 1..Exit] /\ v[1] = w[2] /\ v[Len(s) + 1] = w[Len(p) + 1]
      /\ \A j \in 1..Len(p) : v[j] = w[j + 1]
  BY <1>1, <1>3, <1>5
<1> HIDE DEF s, v
<1>8. ASSUME NEW j \in 1..Len(s)
      PROVE  v[j] \in Locs /\ <<s[j], v[j + 1]>> \in Edges(v[j])
  <2>1. j + 1 \in 1..Len(p) /\ j \in 1..Len(p)
    BY <1>1, <1>5 DEF s
  <2>2. w[j + 1] \in Locs /\ <<p[j + 1], w[(j + 1) + 1]>> \in Edges(w[j + 1])
    BY <2>1 DEF Walk
  <2>3. v[j] = w[j + 1] /\ v[j + 1] = w[(j + 1) + 1] /\ s[j] = p[j + 1]
    BY <1>5, <1>7, <2>1 DEF s
  <2> QED BY <2>2, <2>3
<1>9. Walk(w[2], s, v)
  BY <1>5, <1>7, <1>8 DEF Walk, s
<1> QED BY <1>1, <1>2, <1>4, <1>6, <1>9 DEF s

\* Trails are the decisions of the walks, and there is one from every statement.
LEMMA TrailWalk ==
  ASSUME GivenInv, NEW l \in 1..Exit
  PROVE  /\ Trails[l] # {}
         /\ \A p : p \in Trails[l] <=> \E w : Walk(l, p, w)
<1> DEFINE Good(k) == /\ Trails[k] # {}
                      /\ \A p : p \in Trails[k] <=> \E w : Walk(k, p, w)
           Bad == {j \in 0..Len(script) : ~Good(Exit - j)}
<1>1. Len(script) \in Nat /\ Exit = Len(script) + 1
  BY ScriptFacts DEF Exit
<1>2. Bad = {}
  <2> SUFFICES ASSUME Bad # {} PROVE FALSE
    OBVIOUS
  <2>1. PICK j \in Bad : \A i \in Bad : j <= i
    <3>1. Bad \in SUBSET Nat
      BY <1>1
    <3> HIDE DEF Bad
    <3> QED BY <3>1, Least
  <2> DEFINE k == Exit - j
  <2>2. j \in 0..Len(script) /\ ~Good(k)
    OBVIOUS
  <2>3. k \in 1..Exit
    BY <1>1, <2>2
  <2>4. \A m \in (k + 1)..Exit : Good(m)
    <3> TAKE m \in (k + 1)..Exit
    <3>1. Exit - m \in 0..Len(script) /\ ~(j <= Exit - m) /\ Exit - (Exit - m) = m
      BY <1>1, <2>2, <2>3
    <3> HIDE DEF Good, k
    <3>2. Exit - m \notin Bad
      BY <2>1, <3>1
    <3> QED BY <3>1, <3>2
  <2> HIDE DEF Bad, k
  <2>5. Trails[k] = Onwards(Trails, k)
    BY <2>3, TrailsFacts
  <2>6. CASE k = Exit
    <3>1. Trails[k] = {<<>>}
      BY <2>5, <2>6 DEF Onwards
    <3>2. Walk(k, <<>>, [i \in 1..1 |-> Exit])
      <4>1. <<>> \in Seq(Decisions) /\ Len(<<>>) = 0
        BY EmptySeq
      <4> QED BY <1>1, <2>6, <4>1 DEF Walk
    <3>3. ASSUME NEW p, NEW w, Walk(k, p, w) PROVE p = <<>>
      <4>1. p \in Seq(Decisions) /\ Len(p) \in Nat
        BY <3>3, LenProperties DEF Walk
      <4>2. ~(1 \in 1..Len(p))
        <5>1. w[1] \notin Locs
          BY <1>1, <2>6, <3>3 DEF Walk, Locs
        <5> QED BY <3>3, <5>1 DEF Walk
      <4> QED BY <4>1, <4>2, EmptySeq
    <3> QED BY <2>2, <3>1, <3>2, <3>3
  <2>7. CASE k # Exit
    <3>1. k \in Locs
      BY <1>1, <2>3, <2>7 DEF Locs
    <3>2. /\ Edges(k) # {}
          /\ \A e \in Edges(k) : \E d \in Decisions, m \in (k + 1)..Exit : e = <<d, m>>
      BY <3>1, EdgeFacts
    <3> DEFINE From(e) == {<<e[1]>> \o s : s \in Trails[e[2]]}
    <3>3. Trails[k] = UNION {From(e) : e \in Edges(k)}
      BY <2>5, <2>7, Zenon DEF Onwards
    <3>4. ASSUME NEW d, NEW m, <<d, m>> \in Edges(k), NEW s \in Trails[m]
          PROVE  <<d>> \o s \in Trails[k]
      <4>1. <<d, m>>[1] = d /\ <<d, m>>[2] = m
        OBVIOUS
      <4> DEFINE e == <<d, m>>
      <4>2. e \in Edges(k) /\ e[1] = d /\ e[2] = m
        BY <3>4, <4>1
      <4> HIDE DEF e
      <4>3. <<d>> \o s \in From(e)
        BY <4>2
      <4> HIDE DEF From
      <4> QED BY <3>3, <4>2, <4>3
    <3>5. ASSUME NEW p \in Trails[k]
          PROVE  \E d \in Decisions, m \in (k + 1)..Exit :
                   <<d, m>> \in Edges(k) /\ \E s \in Trails[m] : p = <<d>> \o s
      <4>1. PICK e \in Edges(k) : p \in From(e)
        <5> HIDE DEF From
        <5> QED BY <3>3, <3>5
      <4>2. PICK d \in Decisions, m \in (k + 1)..Exit : e = <<d, m>>
        BY <3>2
      <4>3. e[1] = d /\ e[2] = m
        BY <4>2
      <4> QED BY <4>1, <4>2, <4>3
    <3>6. Trails[k] # {}
      <4>1. PICK d \in Decisions, m \in (k + 1)..Exit : <<d, m>> \in Edges(k)
        BY <3>2
      <4>2. PICK s : s \in Trails[m]
        BY <2>4
      <4> QED BY <3>4, <4>1, <4>2
    <3>7. ASSUME NEW p \in Trails[k] PROVE \E w : Walk(k, p, w)
      <4>1. PICK d \in Decisions, m \in (k + 1)..Exit :
              <<d, m>> \in Edges(k) /\ \E s \in Trails[m] : p = <<d>> \o s
        BY <3>5
      <4>2. PICK s \in Trails[m] : p = <<d>> \o s
        BY <4>1
      <4>3. PICK v : Walk(m, s, v)
        BY <2>4
      <4> QED BY <3>1, <4>1, <4>2, <4>3, WalkCons
    <3>8. ASSUME NEW p, NEW w, Walk(k, p, w) PROVE p \in Trails[k]
      <4>1. /\ p = <<p[1]>> \o Tail(p) /\ <<p[1], w[2]>> \in Edges(k)
            /\ \E v : Walk(w[2], Tail(p), v)
        BY <2>7, <3>8, WalkTail
      <4>2. w[2] \in (k + 1)..Exit
        <5>1. PICK d \in Decisions, m \in (k + 1)..Exit : <<p[1], w[2]>> = <<d, m>>
          BY <3>2, <4>1
        <5> QED BY <5>1
      <4>3. Tail(p) \in Trails[w[2]]
        BY <2>4, <4>1, <4>2
      <4> QED BY <3>4, <4>1, <4>3
    <3> QED BY <2>2, <3>6, <3>7, <3>8
  <2> QED BY <2>6, <2>7
<1>3. Good(l)
  <2>1. Exit - l \in 0..Len(script) /\ Exit - (Exit - l) = l
    BY <1>1
  <2> HIDE DEF Good
  <2> QED BY <1>2, <2>1
<1> QED BY <1>3

-----------------------------------------------------------------------------
\* The nodes that a run leads to.

\* q has the first k decisions of p, and then those of s.
Spliced(q, p, k, s) ==
  /\ q \in Seq(Decisions) /\ Len(q) = k + Len(s)
  /\ \A i \in 1..k : q[i] = p[i]
  /\ \A i \in 1..Len(s) : q[k + i] = s[i]

\* A run that goes on as another at one of its statements.
LEMMA SpliceWalk ==
  ASSUME GivenInv, NEW l, NEW p, NEW w, Walk(l, p, w), NEW k, k \in 0..Len(p),
         NEW c, c = w[k + 1], NEW s, NEW v, Walk(c, s, v)
  PROVE  \E q : Spliced(q, p, k, s) /\ \E u : Walk(l, q, u)
<1>1. /\ p \in Seq(Decisions) /\ Len(p) \in Nat /\ w \in [1..(Len(p) + 1) -> 1..Exit]
      /\ s \in Seq(Decisions) /\ Len(s) \in Nat /\ v \in [1..(Len(s) + 1) -> 1..Exit]
  BY LenProperties DEF Walk
<1> DEFINE a == SubSeq(p, 1, k)
<1>2. a \in Seq(Decisions) /\ Len(a) = k /\ \A i \in 1..k : a[i] = p[i]
  BY <1>1, Prefix
<1> HIDE DEF a
<1> DEFINE q == a \o s
<1>3. /\ q \in Seq(Decisions) /\ Len(q) = k + Len(s)
      /\ \A i \in 1..(k + Len(s)) : q[i] = IF i <= k THEN a[i] ELSE s[i - k]
  BY <1>1, <1>2, ConcatProperties
<1> HIDE DEF q
<1>4. \A i \in 1..k : q[i] = p[i]
  <2> TAKE i \in 1..k
  <2>1. i \in 1..(k + Len(s)) /\ i <= k
    BY <1>1
  <2> QED BY <1>2, <1>3, <2>1
<1>5. \A i \in 1..Len(s) : q[k + i] = s[i]
  <2> TAKE i \in 1..Len(s)
  <2>1. k + i \in 1..(k + Len(s)) /\ ~(k + i <= k) /\ (k + i) - k = i
    BY <1>1
  <2> QED BY <1>3, <2>1
<1> DEFINE u == [x \in 1..(k + Len(s) + 1) |-> IF x <= k THEN w[x] ELSE v[x - k]]
<1>6. /\ u \in [1..(k + Len(s) + 1) -> 1..Exit]
      /\ \A x \in 1..k : u[x] = w[x]
      /\ \A x \in 1..(Len(s) + 1) : u[k + x] = v[x]
  <2>1. \A x \in 1..(k + Len(s) + 1) :
          (x <= k => x \in 1..(Len(p) + 1)) /\ (~(x <= k) => x - k \in 1..(Len(s) + 1))
    BY <1>1
  <2>2. u \in [1..(k + Len(s) + 1) -> 1..Exit]
    BY <1>1, <2>1
  <2>3. \A x \in 1..k : u[x] = w[x]
    BY <1>1
  <2>4. ASSUME NEW x \in 1..(Len(s) + 1) PROVE u[k + x] = v[x]
    <3>1. k + x \in 1..(k + Len(s) + 1) /\ ~(k + x <= k) /\ (k + x) - k = x
      BY <1>1
    <3> QED BY <3>1
  <2> QED BY <2>2, <2>3, <2>4
<1> HIDE DEF u
<1>7. v[1] = w[k + 1] /\ 1 \in 1..(Len(s) + 1)
  BY <1>1 DEF Walk
<1>8. u[k + 1] = w[k + 1]
  BY <1>6, <1>7
<1>9. u[1] = l
  <2>1. w[1] = l
    BY DEF Walk
  <2>2. k = 0 \/ 1 \in 1..k
    OBVIOUS
  <2> QED BY <1>6, <1>8, <2>1, <2>2
<1>10. u[Len(q) + 1] = Exit
  <2>1. Len(q) + 1 = k + (Len(s) + 1) /\ Len(s) + 1 \in 1..(Len(s) + 1)
    BY <1>1, <1>3
  <2> QED BY <1>6, <2>1 DEF Walk
<1>11. ASSUME NEW j \in 1..Len(q)
       PROVE  u[j] \in Locs /\ <<q[j], u[j + 1]>> \in Edges(u[j])
  <2>1. CASE j <= k
    <3>1. j \in 1..k /\ j \in 1..Len(p) /\ (j + 1 \in 1..k \/ j + 1 = k + 1)
      BY <1>1, <1>3, <2>1
    <3>2. u[j] = w[j] /\ u[j + 1] = w[j + 1] /\ q[j] = p[j]
      BY <1>4, <1>6, <1>8, <3>1
    <3> QED BY <3>1, <3>2 DEF Walk
  <2>2. CASE ~(j <= k)
    <3>0. j \in Int /\ k \in Int
      BY <1>1
    <3>1. /\ j - k \in 1..Len(s) /\ j = k + (j - k) /\ j - k \in 1..(Len(s) + 1)
          /\ (j - k) + 1 \in 1..(Len(s) + 1) /\ j + 1 = k + ((j - k) + 1)
      <4>1. Len(q) = k + Len(s) /\ Len(s) \in Nat /\ k < j /\ j <= Len(q)
        BY <1>1, <1>3, <2>2, <3>0
      <4> QED BY <3>0, <4>1
    <3> DEFINE i == j - k
    <3>2. /\ i \in 1..Len(s) /\ j = k + i /\ i \in 1..(Len(s) + 1)
          /\ i + 1 \in 1..(Len(s) + 1) /\ j + 1 = k + (i + 1)
      BY <3>1
    <3> HIDE DEF i
    <3>3. u[j] = v[i] /\ u[j + 1] = v[i + 1] /\ q[j] = s[i]
      BY <1>5, <1>6, <3>2
    <3> QED BY <3>2, <3>3 DEF Walk
  <2> QED BY <2>1, <2>2
<1>12. Walk(l, q, u)
  BY <1>3, <1>6, <1>9, <1>10, <1>11 DEF Walk
<1>13. Spliced(q, p, k, s)
  BY <1>3, <1>4, <1>5 DEF Spliced
<1> QED BY <1>12, <1>13

\* A run leads to a child if it leads to the node and takes the branch there.
LEMMA LeadsStep ==
  ASSUME NEW t, NEW p, Len(p) \in Nat, NEW n \in Names, NEW i \in Nat
  PROVE  LeadsTo(t, p, Append(n, i)) <=>
           /\ LeadsTo(t, p, n) /\ Len(n) <= Len(p)
           /\ n # Root => p[Len(n)] = Decision(t[n], i)
<1> DEFINE c == Append(n, i)  k == Len(n)
<1>1. /\ k \in Nat /\ Len(c) = k + 1 /\ c \in Seq(Nat) /\ n \in Seq(Nat)
      /\ \A j \in 1..k : c[j] = n[j]
  BY LenProperties, AppendProperties DEF Names
<1>2. c[k + 1] = i
  BY AppendProperties DEF Names
<1>3. \A j \in 1..k : SubSeq(c, 1, j) = SubSeq(n, 1, j)
  <2> TAKE j \in 1..k
  <2> DEFINE a == SubSeq(c, 1, j)  b == SubSeq(n, 1, j)
  <2>1. a \in Seq(Nat) /\ Len(a) = j /\ \A x \in 1..j : a[x] = c[x]
    BY <1>1, Prefix
  <2>2. b \in Seq(Nat) /\ Len(b) = j /\ \A x \in 1..j : b[x] = n[x]
    BY <1>1, Prefix
  <2>3. \A x \in 1..j : a[x] = b[x]
    <3> HIDE DEF a, b, c
    <3>1. \A x \in 1..j : x \in 1..k
      BY <1>1
    <3> QED BY <1>1, <2>1, <2>2, <3>1
  <2> HIDE DEF a, b, c
  <2>4. a = b
    BY <2>1, <2>2, <2>3, SeqEqual
  <2> QED BY <2>4 DEF a, b
<1>4. SubSeq(n, 1, k) = n
  BY <1>1, SubSeqFull
<1>5. n # Root <=> k # 0
  BY <1>1, EmptySeq DEF Root, Names
<1> HIDE DEF c
<1>6. LeadsTo(t, p, c) <=>
        k <= Len(p) /\ \A j \in 1..k : p[j] = Decision(t[SubSeq(n, 1, j)], c[j + 1])
  <2>1. LeadsTo(t, p, c) <=>
          /\ Len(c) <= Len(p) + 1
          /\ \A j \in 1..(Len(c) - 1) : p[j] = Decision(t[SubSeq(c, 1, j)], c[j + 1])
    BY DEF LeadsTo
  <2>2. Len(c) - 1 = k /\ (Len(c) <= Len(p) + 1 <=> k <= Len(p))
    BY <1>1
  <2> QED BY <1>3, <2>1, <2>2
<1>7. LeadsTo(t, p, n) <=>
        k <= Len(p) + 1 /\ \A j \in 1..(k - 1) : p[j] = Decision(t[SubSeq(n, 1, j)], n[j + 1])
  BY DEF LeadsTo
<1>8. \A j \in 1..(k - 1) : j \in 1..k /\ c[j + 1] = n[j + 1]
  BY <1>1
<1>9. \A j \in 1..k : j \in 1..(k - 1) \/ j = k
  BY <1>1
<1>10. k # 0 => k \in 1..k /\ SubSeq(n, 1, k) = n /\ c[k + 1] = i /\ k \in Nat
  BY <1>1, <1>2, <1>4
<1>11. CASE k = 0
  BY <1>1, <1>5, <1>6, <1>7, <1>11 DEF c
<1>12. CASE k # 0
  <2> DEFINE A(j) == p[j] = Decision(t[SubSeq(n, 1, j)], c[j + 1])
  <2>1. A(k) <=> p[k] = Decision(t[n], i)
    BY <1>10, <1>12
  <2>2. LeadsTo(t, p, c) <=> k <= Len(p) /\ \A j \in 1..k : A(j)
    BY <1>6
  <2>3. LeadsTo(t, p, n) <=> k <= Len(p) + 1 /\ \A j \in 1..(k - 1) : A(j)
    BY <1>7, <1>8
  <2>4. k <= Len(p) => k <= Len(p) + 1
    BY <1>1
  <2> HIDE DEF A
  <2>5. (\A j \in 1..k : A(j)) <=> (\A j \in 1..(k - 1) : A(j)) /\ A(k)
    BY <1>8, <1>9, <1>10, <1>12
  <2> QED BY <1>5, <1>12, <2>1, <2>2, <2>3, <2>4, <2>5 DEF c
<1> QED BY <1>11, <1>12 DEF c

-----------------------------------------------------------------------------

\* Every run leads to the root.
LEMMA LeadsRoot ==
  ASSUME NEW t, NEW p, Len(p) \in Nat
  PROVE  LeadsTo(t, p, Root)
  BY RootName DEF LeadsTo

\* A node of a tree and its parent.
LEMMA Parent ==
  ASSUME NEW t, Tree(t), NEW n \in DOMAIN t, n # Root
  PROVE  \E m \in DOMAIN t : \E i \in DOMAIN t[m].kids :
           /\ n = Append(m, i) /\ m \in Names /\ i \in Nat
           /\ Len(m) \in Nat /\ Len(n) = Len(m) + 1
           /\ t[m].kids[i] = "node" /\ t[n].stmt = Goes(t[m], i)
<1>1. PICK m \in DOMAIN t : \E i \in DOMAIN t[m].kids : n = Append(m, i)
  BY DEF Tree, HangsOK
<1>2. PICK i \in DOMAIN t[m].kids : n = Append(m, i)
  BY <1>1
<1>3. m \in Names /\ i \in Nat
  BY TreeNames
<1> QED BY <1>2, <1>3, ChildName, ParentIn

\* A tree with the same decisions, for the nodes of one of them.
LEMMA SameLeads ==
  ASSUME NEW t, Tree(t), NEW u, NEW p, Len(p) \in Nat,
         \A n \in DOMAIN t \ {Root} : \A i \in DOMAIN t[n].kids :
           Decision(u[n], i) = Decision(t[n], i)
  PROVE  \A n \in DOMAIN t :
           /\ LeadsTo(u, p, n) <=> LeadsTo(t, p, n)
           /\ \A i \in DOMAIN t[n].kids :
                LeadsTo(u, p, Append(n, i)) <=> LeadsTo(t, p, Append(n, i))
<1> DEFINE Same(n) == LeadsTo(u, p, n) <=> LeadsTo(t, p, n)
           Bad == {Len(n) : n \in {m \in DOMAIN t : ~Same(m)}}
<1>1. ASSUME NEW n \in DOMAIN t, Same(n), NEW i \in DOMAIN t[n].kids
      PROVE  LeadsTo(u, p, Append(n, i)) <=> LeadsTo(t, p, Append(n, i))
  <2>1. n \in Names /\ i \in Nat
    BY TreeNames
  <2> QED BY <1>1, <2>1, LeadsStep
<1>2. Bad = {}
  <2> SUFFICES ASSUME Bad # {} PROVE FALSE
    OBVIOUS
  <2>1. Bad \in SUBSET Nat
    BY TreeNames, ChildName
  <2>2. PICK k \in Bad : \A j \in Bad : k <= j
    <3> HIDE DEF Bad
    <3> QED BY <2>1, Least
  <2>3. PICK n \in DOMAIN t : ~Same(n) /\ k = Len(n)
    OBVIOUS
  <2>4. n # Root
    BY <2>3, LeadsRoot
  <2>5. PICK m \in DOMAIN t : \E i \in DOMAIN t[m].kids :
          n = Append(m, i) /\ Len(m) \in Nat /\ Len(n) = Len(m) + 1
    BY <2>4, Parent
  <2>6. PICK i \in DOMAIN t[m].kids : n = Append(m, i)
    BY <2>5
  <2>7. Same(m)
    <3>1. ~(k <= Len(m))
      BY <2>3, <2>5
    <3>2. Len(m) \notin Bad
      BY <2>2, <3>1
    <3> QED BY <3>2
  <2> QED BY <1>1, <2>3, <2>6, <2>7
<1>3. \A n \in DOMAIN t : Same(n)
  BY <1>2
<1> QED BY <1>1, <1>3

\* The branch of a node goes where the edge with its decision goes.
LEMMA EdgeGoes ==
  ASSUME GivenInv, NEW r, r.stmt \in Locs, NEW i,
         Kind(r.stmt) = "choice" => i \in {1, 2},
         NEW x, <<Decision(r, i), x>> \in Edges(r.stmt)
  PROVE  x = Goes(r, i)
<1> DEFINE l == r.stmt  d == Decision(r, i)
<1>1. l # 0 /\ Kind(l) \in {"choice", "cond", "forall", "exists", "trans"}
  BY ScriptFacts DEF Locs
<1>2. \A a, b \in {1, 2} : Answer[a] = Answer[b] => a = b
  BY DEF Answer
<1>3. \A v : CondIndex(v) \in {1, 2}
  BY DEF CondIndex
<1>4. CASE Kind(l) = "choice"
  <2>1. d = Answer[i] /\ Goes(r, i) = script[l].next[i]
    BY <1>1, <1>4 DEF Decision, Goes
  <2>2. Edges(l) = {<<Answer[a], script[l].next[a]>> : a \in {1, 2}}
    BY <1>4 DEF Edges
  <2>3. PICK a \in {1, 2} : <<d, x>> = <<Answer[a], script[l].next[a]>>
    BY <2>2
  <2> QED BY <1>2, <1>4, <2>1, <2>3
<1>5. CASE Kind(l) = "cond"
  <2>1. d = Answer[CondIndex(r.value)] /\ Goes(r, i) = script[l].next[CondIndex(r.value)]
    BY <1>1, <1>5 DEF Decision, Goes
  <2>2. Edges(l) = {<<Answer[CondIndex(v)], script[l].next[CondIndex(v)]>> : v \in CondValues}
    BY <1>5 DEF Edges
  <2>3. PICK v \in CondValues : <<d, x>> = <<Answer[CondIndex(v)], script[l].next[CondIndex(v)]>>
    BY <2>2
  <2>4. Answer[CondIndex(r.value)] = Answer[CondIndex(v)] /\ x = script[l].next[CondIndex(v)]
    BY <2>1, <2>3
  <2>5. CondIndex(r.value) \in {1, 2} /\ CondIndex(v) \in {1, 2}
    BY <1>3
  <2>6. CondIndex(r.value) = CondIndex(v)
    <3> DEFINE a == CondIndex(r.value)  b == CondIndex(v)
    <3>1. Answer[a] = Answer[b] /\ a \in {1, 2} /\ b \in {1, 2}
      BY <2>4, <2>5
    <3> HIDE DEF a, b
    <3>2. a = b
      BY <1>2, <3>1
    <3> QED BY <3>2 DEF a, b
  <2> QED BY <2>1, <2>4, <2>6
<1>6. CASE Kind(l) \in {"forall", "exists", "trans"}
  <2>1. Goes(r, i) = script[l].next[1]
    BY <1>1, <1>6 DEF Goes
  <2>2. \A e \in Edges(l) : \E c : e = <<c, script[l].next[1]>>
    BY <1>6 DEF Edges
  <2>3. PICK c : <<d, x>> = <<c, script[l].next[1]>>
    BY <2>2
  <2> QED BY <2>1, <2>3
<1> QED BY <1>1, <1>4, <1>5, <1>6

\* A run that leads to a node of the tree is at its statement there.
LEMMA Arrives ==
  ASSUME GivenInv, NEW t, Tree(t), NEW p, NEW w, Walk(1, p, w)
  PROVE  \A n \in DOMAIN t : LeadsTo(t, p, n) =>
           /\ n # Root => Len(n) \in 1..Len(p) /\ w[Len(n)] = t[n].stmt
           /\ \A i \in DOMAIN t[n].kids :
                LeadsTo(t, p, Append(n, i)) => w[Len(n) + 1] = Goes(t[n], i)
<1>1. p \in Seq(Decisions) /\ Len(p) \in Nat
  BY LenProperties DEF Walk
<1> DEFINE At(n) == LeadsTo(t, p, n) =>
             /\ n # Root => Len(n) \in 1..Len(p) /\ w[Len(n)] = t[n].stmt
             /\ \A i \in DOMAIN t[n].kids :
                  LeadsTo(t, p, Append(n, i)) => w[Len(n) + 1] = Goes(t[n], i)
           Bad == {Len(n) : n \in {m \in DOMAIN t : ~At(m)}}
<1>2. Bad = {}
  <2> SUFFICES ASSUME Bad # {} PROVE FALSE
    OBVIOUS
  <2>1. Bad \in SUBSET Nat
    <3> HIDE DEF At
    <3> QED BY TreeNames, ChildName
  <2>2. PICK k \in Bad : \A j \in Bad : k <= j
    <3> HIDE DEF Bad
    <3> QED BY <2>1, Least
  <2>3. PICK n \in DOMAIN t : ~At(n) /\ k = Len(n)
    <3> HIDE DEF At
    <3> QED OBVIOUS
  <2>4. n # Root
    <3> SUFFICES ASSUME n = Root PROVE At(n)
      BY <2>3
    <3>1. t[n].stmt = 0 /\ Len(n) = 0 /\ Len(n) + 1 = 1
      BY RootName DEF Tree, NodeOK
    <3>2. w[Len(n) + 1] = 1 /\ \A i : Goes(t[n], i) = 1
      BY <3>1 DEF Walk, Goes
    <3> QED BY <3>2
  <2>5. PICK m \in DOMAIN t : \E i \in DOMAIN t[m].kids :
          /\ n = Append(m, i) /\ m \in Names /\ i \in Nat
          /\ Len(m) \in Nat /\ Len(n) = Len(m) + 1
          /\ t[n].stmt = Goes(t[m], i)
    BY <2>4, Parent
  <2>6. PICK b \in DOMAIN t[m].kids : n = Append(m, b) /\ b \in Nat /\ t[n].stmt = Goes(t[m], b)
    BY <2>5
  <2>7. At(m)
    <3>1. ~(k <= Len(m))
      BY <2>3, <2>5
    <3> HIDE DEF At
    <3>2. Len(m) \notin Bad
      <4> HIDE DEF Bad
      <4> QED BY <2>2, <3>1
    <3> QED BY <3>2
  <2> SUFFICES ASSUME LeadsTo(t, p, n)
               PROVE  /\ Len(n) \in 1..Len(p) /\ w[Len(n)] = t[n].stmt
                      /\ \A i \in DOMAIN t[n].kids :
                           LeadsTo(t, p, Append(n, i)) => w[Len(n) + 1] = Goes(t[n], i)
    BY <2>3, <2>4
  <2>8. LeadsTo(t, p, m) /\ Len(m) <= Len(p)
    BY <1>1, <2>5, <2>6, LeadsStep
  <2>9. w[Len(n)] = t[n].stmt
    BY <2>5, <2>6, <2>7, <2>8
  <2>10. t[n].stmt \in Locs /\ n \in Names
    BY <2>4, NodeFacts, TreeNames
  <2>11. Len(n) \in 1..Len(p)
    <3>1. Exit \notin Locs
      BY ScriptFacts DEF Exit, Locs
    <3>2. Len(n) # Len(p) + 1
      BY <2>9, <2>10, <3>1 DEF Walk
    <3> QED BY <1>1, <2>5, <2>8, <3>2
  <2>12. ASSUME NEW i \in DOMAIN t[n].kids, LeadsTo(t, p, Append(n, i))
         PROVE  w[Len(n) + 1] = Goes(t[n], i)
    <3>1. i \in Nat
      BY TreeNames
    <3>2. p[Len(n)] = Decision(t[n], i)
      BY <1>1, <2>4, <2>10, <2>12, <3>1, LeadsStep
    <3>3. <<p[Len(n)], w[Len(n) + 1]>> \in Edges(t[n].stmt)
      BY <2>9, <2>11 DEF Walk
    <3>4. Kind(t[n].stmt) = "choice" => i \in {1, 2}
      BY <2>4, <2>12, NodeFacts
    <3> QED BY <2>10, <3>2, <3>3, <3>4, EdgeGoes
  <2> QED BY <2>9, <2>11, <2>12
<1>3. \A n \in DOMAIN t : At(n)
  <2> HIDE DEF At
  <2> QED BY <1>2
<1> QED BY <1>3

-----------------------------------------------------------------------------
\* What has been explored.

\* The children of a forall: never more than the threads of its scope, and if they are as
\* many, there is one for each.
LEMMA VarsCount ==
  ASSUME NEW vs \in Seq(Threads), NEW S, IsFiniteSet(S),
         \A i \in DOMAIN vs : vs[i] \in S,
         \A i, j \in DOMAIN vs : vs[i] = vs[j] => i = j
  PROVE  /\ Len(vs) <= Cardinality(S)
         /\ Len(vs) = Cardinality(S) => \A t \in S : \E i \in DOMAIN vs : vs[i] = t
         /\ \A t \in S : (\A i \in DOMAIN vs : vs[i] # t) => Len(vs) + 1 <= Cardinality(S)
<1>1. Len(vs) \in Nat /\ DOMAIN vs = 1..Len(vs) /\ vs \in [1..Len(vs) -> Threads]
  BY LenProperties
<1> DEFINE D == 1..Len(vs)
<1>2. IsFiniteSet(D) /\ Cardinality(D) = Len(vs)
  <2>1. IsFiniteSet(D) /\ Cardinality(D) = IF 1 > Len(vs) THEN 0 ELSE Len(vs) - 1 + 1
    <3>1. 1 \in Int /\ Len(vs) \in Int
      BY <1>1
    <3> QED BY <3>1, FS_Interval
  <2> QED BY <1>1, <2>1
<1>3. ASSUME NEW T, \A i \in D : vs[i] \in T PROVE vs \in Injection(D, T)
  <2>1. vs = [i \in D |-> vs[i]]
    BY <1>1
  <2>2. vs \in [D -> T]
    BY <1>3, <2>1
  <2>3. IsInjective(vs)
    BY DEF IsInjective
  <2> QED BY <2>2, <2>3 DEF Injection
<1>4. vs \in Injection(D, S)
  BY <1>1, <1>3
<1>5. /\ Len(vs) <= Cardinality(S)
      /\ Len(vs) = Cardinality(S) => vs \in Surjection(D, S)
  BY <1>2, <1>4, FS_Injection
<1>6. vs \in Surjection(D, S) => \A t \in S : \E i \in DOMAIN vs : vs[i] = t
  BY <1>1 DEF Surjection
<1>7. ASSUME NEW t \in S, \A i \in DOMAIN vs : vs[i] # t
      PROVE  Len(vs) + 1 <= Cardinality(S)
  <2>1. IsFiniteSet(S \ {t}) /\ Cardinality(S \ {t}) = Cardinality(S) - 1
    BY FS_RemoveElement
  <2>2. vs \in Injection(D, S \ {t})
    BY <1>1, <1>3, <1>7
  <2>3. Len(vs) <= Cardinality(S \ {t})
    BY <1>2, <2>1, <2>2, FS_Injection
  <2>4. Cardinality(S) \in Nat
    BY FS_CardinalityType
  <2> QED BY <1>1, <2>1, <2>3, <2>4
<1> QED BY <1>5, <1>6, <1>7

\* A run from the first statement is a walk.
LEMMA RunFacts ==
  ASSUME GivenInv, NEW p \in Trails[1]
  PROVE  p \in Seq(Decisions) /\ Len(p) \in Nat /\ \E w : Walk(1, p, w)
<1>1. 1 \in 1..Exit
  BY ScriptFacts DEF Exit
<1>2. PICK w : Walk(1, p, w)
  BY <1>1, TrailWalk
<1>3. p \in Seq(Decisions)
  BY <1>2 DEF Walk
<1> QED BY <1>2, <1>3, LenProperties

\* A node is explored with its branches: for every way its statement goes on.
LEMMA ExploredNode ==
  ASSUME GivenInv, NEW t, Tree(t), NEW X, NEW n \in DOMAIN t, n # Root,
         \A e \in Edges(t[n].stmt) : \E i \in DOMAIN t[n].kids :
           e[1] = Decision(t[n], i) /\ Explored(t, X, Append(n, i))
  PROVE  Explored(t, X, n)
<1> SUFFICES ASSUME NEW p \in Trails[1], LeadsTo(t, p, n) PROVE Done(p, X)
  BY DEF Explored
<1>1. PICK w : Walk(1, p, w)
  BY RunFacts
<1>2. Len(p) \in Nat /\ n \in Names
  BY RunFacts, TreeNames
<1>3. Len(n) \in 1..Len(p) /\ w[Len(n)] = t[n].stmt
  BY <1>1, Arrives
<1> DEFINE e == <<p[Len(n)], w[Len(n) + 1]>>
<1>4. e \in Edges(t[n].stmt) /\ e[1] = p[Len(n)]
  BY <1>1, <1>3 DEF Walk
<1> HIDE DEF e
<1>5. PICK i \in DOMAIN t[n].kids : e[1] = Decision(t[n], i) /\ Explored(t, X, Append(n, i))
  BY <1>4
<1>6. i \in Nat /\ Len(n) <= Len(p)
  BY <1>2, <1>3, TreeNames
<1>7. LeadsTo(t, p, Append(n, i))
  BY <1>2, <1>4, <1>5, <1>6, LeadsStep
<1> QED BY <1>5, <1>7 DEF Explored

\* The root is explored with its one child.
LEMMA ExploredRoot ==
  ASSUME GivenInv, NEW t, NEW X, Explored(t, X, Append(Root, 1))
  PROVE  Explored(t, X, Root)
<1> SUFFICES ASSUME NEW p \in Trails[1], LeadsTo(t, p, Root) PROVE Done(p, X)
  BY DEF Explored
<1>1. Len(p) \in Nat
  BY RunFacts
<1>2. LeadsTo(t, p, Append(Root, 1))
  <2>1. Root \in Names /\ Len(Root) <= Len(p) /\ 1 \in Nat
    BY <1>1, RootName
  <2> QED BY <1>1, <2>1, LeadsStep
<1> QED BY <1>2 DEF Explored

\* What is below something explored is explored.
LEMMA ExploredDown ==
  ASSUME GivenInv, NEW t, NEW X, NEW n \in Names, NEW i \in Nat, Explored(t, X, n)
  PROVE  Explored(t, X, Append(n, i))
<1> SUFFICES ASSUME NEW p \in Trails[1], LeadsTo(t, p, Append(n, i)) PROVE Done(p, X)
  BY DEF Explored
<1>1. LeadsTo(t, p, n)
  BY RunFacts, LeadsStep
<1> QED BY <1>1 DEF Explored

\* Exploration grows with the runs, and is the same in a tree with the same decisions.
LEMMA ExploredMore ==
  ASSUME NEW t, NEW X, NEW Y, X \subseteq Y, NEW m, Explored(t, X, m)
  PROVE  Explored(t, Y, m)
<1>1. \A p : Done(p, X) => Done(p, Y)
  BY DEF Done
<1> QED BY <1>1 DEF Explored
LEMMA ExploredSame ==
  ASSUME GivenInv, NEW t, Tree(t), NEW u, NEW X,
         \A n \in DOMAIN t \ {Root} : \A i \in DOMAIN t[n].kids :
           Decision(u[n], i) = Decision(t[n], i)
  PROVE  \A n \in DOMAIN t :
           /\ Explored(u, X, n) <=> Explored(t, X, n)
           /\ \A i \in DOMAIN t[n].kids :
                Explored(u, X, Append(n, i)) <=> Explored(t, X, Append(n, i))
<1>1. ASSUME NEW p \in Trails[1]
      PROVE  \A n \in DOMAIN t :
               /\ LeadsTo(u, p, n) <=> LeadsTo(t, p, n)
               /\ \A i \in DOMAIN t[n].kids :
                    LeadsTo(u, p, Append(n, i)) <=> LeadsTo(t, p, Append(n, i))
  <2>1. Len(p) \in Nat
    BY RunFacts
  <2> QED BY <2>1, SameLeads
<1> QED BY <1>1 DEF Explored

\* The branches of a node that is complete are all the ways its statement goes on.
LEMMA AllBranches ==
  ASSUME GivenInv, Undisturbed, NEW t, Tree(t), NEW n \in DOMAIN t, n # Root,
         RecordOK(t[n]), FullSize(t, n), NEW e \in Edges(t[n].stmt)
  PROVE  \E i \in DOMAIN t[n].kids : e[1] = Decision(t[n], i)
<1> DEFINE r == t[n]  l == t[n].stmt
<1>1. /\ l \in Locs /\ l # 0 /\ Kind(l) \in {"choice", "cond", "forall", "exists", "trans"}
      /\ r \in Records /\ r.vars \in Seq(Threads) /\ Len(r.kids) = Width(r)
  <2>1. l \in Locs /\ l # 0
    BY NodeFacts
  <2>2. r \in Records /\ Len(r.kids) = Width(r)
    BY DEF Tree, NodeOK
  <2> QED BY <2>1, <2>2, ScriptFacts DEF Records
<1>2. DOMAIN r.kids = 1..Len(r.kids)
  BY TreeNames
<1>3. CASE Kind(l) = "choice"
  <2>1. DOMAIN r.kids = {1, 2}
    BY <1>3, NodeFacts
  <2>2. PICK i \in {1, 2} : e = <<Answer[i], script[l].next[i]>>
    BY <1>3 DEF Edges
  <2>3. Decision(r, i) = Answer[i]
    BY <1>3 DEF Decision
  <2> QED BY <2>1, <2>2, <2>3
<1>4. CASE Kind(l) \in {"cond", "exists", "trans"}
  <2>1. DOMAIN r.kids = 1..1
    BY <1>4, NodeFacts DEF OneChild
  <2>2. e[1] = Decision(r, 1)
    <3>1. CASE Kind(l) = "cond"
      <4>1. r.value = TRUE
        <5>1. r.value
          BY <3>1 DEF RecordOK
        <5>2. r.value \in BOOLEAN
          BY <1>1 DEF Records
        <5> QED BY <5>1, <5>2
      <4>2. CondValues = {TRUE}
        BY DEF CondValues, Undisturbed
      <4>3. PICK v \in CondValues :
              e = <<Answer[CondIndex(v)], script[l].next[CondIndex(v)]>>
        BY <3>1 DEF Edges
      <4>4. Decision(r, 1) = Answer[CondIndex(r.value)]
        BY <3>1 DEF Decision
      <4>5. v = r.value
        BY <4>1, <4>2
      <4> QED BY <4>3, <4>4, <4>5
    <3>2. CASE Kind(l) = "exists"
      BY <3>2 DEF Edges, Decision
    <3>3. CASE Kind(l) = "trans"
      BY <3>3 DEF Edges, Decision
    <3> QED BY <1>4, <3>1, <3>2, <3>3
  <2> QED BY <2>1, <2>2
<1>5. CASE Kind(l) = "forall"
  <2>1. PICK x \in ScopeOf(l) : e = <<x, script[l].next[1]>>
    BY <1>5 DEF Edges
  <2>2. /\ \A i \in DOMAIN r.vars : r.vars[i] \in ScopeOf(l)
        /\ \A i, j \in DOMAIN r.vars : r.vars[i] = r.vars[j] => i = j
    BY <1>5 DEF RecordOK, ForallOK
  <2>3. Len(r.vars) = Cardinality(ScopeOf(l)) /\ DOMAIN r.vars = DOMAIN r.kids
    <3>1. Len(r.kids) = Len(r.vars)
      BY <1>1, <1>5 DEF Width
    <3>2. DOMAIN r.vars = 1..Len(r.vars)
      BY <1>1, LenProperties
    <3> QED BY <1>2, <1>5, <3>1, <3>2 DEF FullSize
  <2>4. IsFiniteSet(ScopeOf(l))
    <3>1. ScopeOf(l) \in SUBSET Threads
      BY <1>1, ScriptFacts DEF ScopeOf
    <3> QED BY <3>1, SearchAssumption, FS_Subset
  <2>5. PICK i \in DOMAIN r.vars : r.vars[i] = x
    BY <1>1, <2>1, <2>2, <2>3, <2>4, VarsCount
  <2>6. Decision(r, i) = r.vars[i]
    BY <1>5 DEF Decision
  <2> QED BY <2>1, <2>3, <2>5, <2>6
<1> QED BY <1>1, <1>3, <1>4, <1>5

-----------------------------------------------------------------------------

\* One sequence begins with another.
LEMMA BelowEqual ==
  ASSUME NEW S, NEW a \in Seq(S), NEW b \in Seq(S)
  PROVE  Below(a, b) <=> Len(a) <= Len(b) /\ \A x \in 1..Len(a) : b[x] = a[x]
<1>1. Len(a) \in Nat /\ Len(b) \in Nat
  BY LenProperties
<1>2. CASE Len(a) <= Len(b)
  <2> DEFINE c == SubSeq(b, 1, Len(a))
  <2>1. c \in Seq(S) /\ Len(c) = Len(a) /\ \A x \in 1..Len(a) : c[x] = b[x]
    BY <1>1, <1>2, Prefix
  <2> HIDE DEF c
  <2>2. c = a <=> \A x \in 1..Len(a) : b[x] = a[x]
    BY <2>1, SeqEqual
  <2> QED BY <1>2, <2>2 DEF Below, c
<1> QED BY <1>2 DEF Below

\* Where a run leads is a matter of its first decisions.
LEMMA LeadsPrefix ==
  ASSUME NEW t, NEW p, NEW q, NEW m, LeadsTo(t, p, m), Len(m) <= Len(q) + 1,
         \A x \in 1..(Len(m) - 1) : q[x] = p[x]
  PROVE  LeadsTo(t, q, m)
  BY DEF LeadsTo

\* A branch that ends the script is explored, where branches are marked, when the other
\* one is: a run that takes it differs in its last decision from one that takes the other.
LEMMA MarkedExplored ==
  ASSUME GivenInv, NEW t, Tree(t), NEW X \in SUBSET Seq(Decisions), NEW n \in DOMAIN t,
         n # Root, Kind(t[n].stmt) = "choice", config.mark,
         NEW i \in {1, 2}, script[t[n].stmt].next[i] = Exit,
         NEW j \in {1, 2}, Explored(t, X, Append(n, j))
  PROVE  Explored(t, X, Append(n, i))
<1> DEFINE l == t[n].stmt  k == Len(n)
<1> SUFFICES ASSUME NEW p \in Trails[1], LeadsTo(t, p, Append(n, i)) PROVE Done(p, X)
  BY DEF Explored
<1>1. PICK w : Walk(1, p, w)
  BY RunFacts
<1>2. p \in Seq(Decisions) /\ Len(p) \in Nat /\ n \in Names /\ k \in Nat /\ l \in Locs /\ l # 0
  BY RunFacts, TreeNames, NodeFacts, ChildName
<1>3. DOMAIN t[n].kids = {1, 2}
  BY NodeFacts
<1>4. LeadsTo(t, p, n) /\ p[k] = Decision(t[n], i)
  BY <1>2, LeadsStep
<1>5. k \in 1..Len(p) /\ w[k] = l /\ w[k + 1] = Exit
  <2>1. k \in 1..Len(p) /\ w[k] = l /\ w[k + 1] = Goes(t[n], i)
    BY <1>1, <1>3, <1>4, Arrives
  <2>2. Goes(t[n], i) = Exit
    BY <1>2 DEF Goes
  <2> QED BY <2>1, <2>2
<1>6. k = Len(p)
  <2>1. Exit \notin Locs
    BY ScriptFacts DEF Exit, Locs
  <2>2. ~(k + 1 \in 1..Len(p))
    BY <1>1, <1>5, <2>1 DEF Walk
  <2> QED BY <1>2, <1>5, <2>2
<1>7. p[k] = Answer[i] /\ Decision(t[n], j) = Answer[j]
  BY <1>4 DEF Decision
<1> DEFINE m == script[l].next[j]
<1>8. <<Answer[j], m>> \in Edges(l) /\ m \in 1..Exit /\ Answer[j] \in Decisions
  <2>1. <<Answer[j], m>> \in Edges(l)
    BY DEF Edges
  <2>2. PICK d \in Decisions, x \in (l + 1)..Exit : <<Answer[j], m>> = <<d, x>> /\ x \in 1..Exit
    BY <1>2, <2>1, EdgeFacts
  <2> QED BY <2>1, <2>2
<1>9. PICK s0, v0 : Walk(m, s0, v0)
  BY <1>8, TrailWalk
<1> DEFINE s == <<Answer[j]>> \o s0
<1>10. PICK v : Walk(l, s, v)
  <2> HIDE DEF l, m
  <2> QED BY <1>2, <1>8, <1>9, WalkCons
<1>11. s \in Seq(Decisions) /\ Len(s) \in Nat /\ Len(s) > 0 /\ s[1] = Answer[j]
  <2>1. s0 \in Seq(Decisions) /\ <<Answer[j]>> \in Seq(Decisions) /\ Len(<<Answer[j]>>) = 1
    BY <1>8, <1>9 DEF Walk
  <2>2. /\ Len(s) = 1 + Len(s0) /\ s \in Seq(Decisions)
        /\ \A x \in 1..(1 + Len(s0)) : s[x] = IF x <= 1 THEN <<Answer[j]>>[x] ELSE s0[x - 1]
    BY <2>1, ConcatProperties
  <2>3. Len(s0) \in Nat /\ 1 \in 1..(1 + Len(s0))
    BY <2>1, LenProperties
  <2> HIDE DEF s
  <2> QED BY <2>2, <2>3
<1> HIDE DEF s, m
<1>12. PICK q : /\ \E u : Walk(1, q, u)
                /\ q \in Seq(Decisions) /\ Len(q) = k - 1 + Len(s)
                /\ \A x \in 1..(k - 1) : q[x] = p[x]
                /\ \A x \in 1..Len(s) : q[k - 1 + x] = s[x]
  <2> DEFINE b == k - 1
  <2>1. b \in 0..Len(p) /\ b + 1 = k
    BY <1>2, <1>5
  <2> HIDE DEF b
  <2>2. l = w[b + 1]
    BY <1>5, <2>1
  <2>3. PICK q : Spliced(q, p, b, s) /\ \E u : Walk(1, q, u)
    <3> HIDE DEF l, k
    <3> QED BY <1>1, <1>10, <2>1, <2>2, SpliceWalk
  <2> QED BY <2>3 DEF b, Spliced
<1>13. Len(q) \in Nat /\ k <= Len(q) /\ q[k] = Answer[j]
  <2>1. 1 \in 1..Len(s) /\ k - 1 + 1 = k
    BY <1>2, <1>11
  <2> QED BY <1>2, <1>11, <1>12, <2>1
<1>14. q \in Trails[1]
  <2>1. 1 \in 1..Exit
    BY ScriptFacts DEF Exit
  <2> QED BY <1>12, <2>1, TrailWalk
<1>15. LeadsTo(t, q, Append(n, j))
  <2>1. LeadsTo(t, q, n)
    <3>1. Len(n) <= Len(q) + 1 /\ \A x \in 1..(Len(n) - 1) : q[x] = p[x]
      <4>1. Len(n) = k /\ k \in Nat /\ k <= Len(q) /\ Len(q) \in Nat
        BY <1>2, <1>13
      <4> HIDE DEF k
      <4> QED BY <1>12, <4>1
    <3> QED BY <1>4, <3>1, LeadsPrefix
  <2> QED BY <1>2, <1>7, <1>13, <2>1, LeadsStep
<1>16. Done(q, X)
  BY <1>14, <1>15 DEF Explored
<1> DEFINE f == SubSeq(p, 1, k - 1)
<1>17. f \in Seq(Decisions) /\ Len(f) = k - 1 /\ \A x \in 1..(k - 1) : f[x] = p[x]
  <2>1. k - 1 \in 0..Len(p)
    BY <1>2, <1>5
  <2> QED BY <1>2, <2>1, Prefix
<1> HIDE DEF f
<1>18. \E r \in X : Below(f, r)
  <2>1. CASE q \in X
    <3>1. Len(f) <= Len(q) /\ \A x \in 1..Len(f) : q[x] = f[x]
      BY <1>2, <1>12, <1>13, <1>17
    <3>2. Below(f, q)
      BY <1>12, <1>17, <3>1, BelowEqual
    <3> QED BY <2>1, <3>2
  <2>2. CASE \E r \in X : Below(SubSeq(q, 1, Len(q) - 1), r)
    <3>1. PICK r \in X : Below(SubSeq(q, 1, Len(q) - 1), r)
      BY <2>2
    <3> DEFINE g == SubSeq(q, 1, Len(q) - 1)
    <3>2. Len(q) - 1 \in 0..Len(q) /\ Len(q) - 1 >= k - 1
      BY <1>2, <1>5, <1>13
    <3>3. /\ g \in Seq(Decisions) /\ Len(g) = Len(q) - 1
          /\ \A x \in 1..(Len(q) - 1) : g[x] = q[x]
      BY <1>12, <3>2, Prefix
    <3>4. r \in Seq(Decisions) /\ Len(r) \in Nat
      BY LenProperties
    <3>5. Below(g, r)
      BY <3>1
    <3> HIDE DEF g
    <3>6. Len(g) <= Len(r) /\ \A x \in 1..Len(g) : r[x] = g[x]
      BY <3>3, <3>4, <3>5, BelowEqual
    <3>7. ASSUME NEW x \in 1..Len(f) PROVE r[x] = f[x]
      <4>1. x \in 1..(k - 1) /\ x \in 1..(Len(q) - 1)
        BY <1>2, <1>13, <1>17, <3>2
      <4> QED BY <1>12, <1>17, <3>3, <3>6, <4>1
    <3>8. Len(f) <= Len(r)
      BY <1>2, <1>13, <1>17, <3>2, <3>3, <3>4, <3>6
    <3>9. Below(f, r)
      BY <1>17, <3>4, <3>7, <3>8, BelowEqual
    <3> QED BY <3>9
  <2> QED BY <1>16, <2>1, <2>2 DEF Done
<1>19. p # <<>> /\ Last(p) = Answer[i] /\ Answer[i] \in {"no", "yes"}
  <2>1. p # <<>>
    BY <1>5, EmptySeq
  <2> QED BY <1>6, <1>7, <2>1 DEF Last, Answer
<1> QED BY <1>6, <1>18, <1>19 DEF Done, f

\* A branch with the end node or a covered one is explored, ...
LEMMA ClosedExplored ==
  ASSUME NEW t, Tree(t), NEW X, \A n \in DOMAIN t : ExploredAt(t, X, n),
         NEW n \in DOMAIN t, NEW i \in DOMAIN t[n].kids, EndOrCovered(t, n, i)
  PROVE  Explored(t, X, Append(n, i))
<1>1. CASE t[n].kids[i] = "end"
  BY <1>1 DEF ExploredAt
<1>2. CASE t[n].kids[i] = "node" /\ t[Append(n, i)].covered
  <2>1. Append(n, i) \in DOMAIN t
    BY <1>2 DEF Tree, LinksOK
  <2> QED BY <1>2, <2>1 DEF ExploredAt
<1> QED BY <1>1, <1>2 DEF EndOrCovered

\* ... and a node that ComputeCoverage would cover is.
LEMMA CoversExplored ==
  ASSUME GivenInv, Undisturbed, Calm(script, config, faults), NEW t, Tree(t),
         \A n \in DOMAIN t \ {Root} : RecordOK(t[n]),
         NEW X \in SUBSET Seq(Decisions), \A n \in DOMAIN t : ExploredAt(t, X, n),
         NEW n \in DOMAIN t, NEW C, NEW m, EndsOnly(m),
         \A i \in C \cap DOMAIN t[n].kids : Explored(t, X, Append(n, i)), Covers(t, n, C, m)
  PROVE  Explored(t, X, n)
<1>1. CASE t[n].covered
  BY <1>1 DEF ExploredAt
<1>2. CASE ~t[n].covered
  <2>1. FullSize(t, n) /\ \A i \in DOMAIN t[n].kids \ C : ChildCovered(t, n, i, m)
    BY <1>2, CoversWhen
  <2>2. ASSUME NEW i \in DOMAIN t[n].kids, i \in C \/ EndOrCovered(t, n, i)
        PROVE  Explored(t, X, Append(n, i))
    BY <2>2, ClosedExplored
  <2>3. ASSUME NEW i \in DOMAIN t[n].kids PROVE Explored(t, X, Append(n, i))
    <3>1. CASE i \in C \/ EndOrCovered(t, n, i)
      BY <2>2, <3>1
    <3>2. CASE ~(i \in C \/ EndOrCovered(t, n, i))
      <4>1. n # Root /\ <<script[t[n].stmt].info, i>> \in m
        BY <2>1, <3>2 DEF ChildCovered
      <4>2. t[n].stmt \in Locs
        BY <4>1, NodeFacts
      <4>3. /\ Kind(t[n].stmt) = "choice" /\ i \in {1, 2} /\ config.mark
            /\ script[t[n].stmt].next[i] = Exit
        BY <4>1, <4>2, MarkedBranch
      <4>4. DOMAIN t[n].kids = {1, 2}
        BY <4>1, <4>3, NodeFacts
      <4>5. PICK j \in {1, 2} : <<script[t[n].stmt].info, j>> \notin m
        BY <4>1, <4>2, <4>3, OtherBranch
      <4>6. j \in C \/ EndOrCovered(t, n, j)
        BY <2>1, <4>4, <4>5 DEF ChildCovered
      <4>7. Explored(t, X, Append(n, j))
        BY <2>2, <4>4, <4>6
      <4> QED BY <4>1, <4>3, <4>7, MarkedExplored
    <3> QED BY <3>1, <3>2
  <2>4. CASE n = Root
    <3>1. DOMAIN t[n].kids = 1..1
      BY <2>4, NodeFacts DEF OneChild
    <3> QED BY <2>3, <2>4, <3>1, ExploredRoot
  <2>5. CASE n # Root
    <3>1. RecordOK(t[n])
      BY <2>5
    <3>2. \A e \in Edges(t[n].stmt) : \E i \in DOMAIN t[n].kids : e[1] = Decision(t[n], i)
      BY <2>1, <2>5, <3>1, AllBranches
    <3> QED BY <2>3, <2>5, <3>2, ExploredNode
  <2> QED BY <2>4, <2>5
<1> QED BY <1>1, <1>2

-----------------------------------------------------------------------------
\* The steps keep SearchInv.

\* NodesInv and ExploredInv of a tree.
Searched(t, X) ==
  /\ \A n \in DOMAIN t : ExploredAt(t, X, n)
  /\ \A n \in DOMAIN t \ {Root} : RecordOK(t[n])

\* The script does not change, so what is shown of the new tree holds after the step.
LEMMA StaysSearched ==
  ASSUME UNCHANGED given, CoverInv', Searched(tree', executed'),
         trail' \in Seq(Decisions), executed' \subseteq Seq(Decisions),
         pc' \in {"script", "end"} =>
           Len(trail') = index' - 1 /\ LeadsTo(tree', trail', Child(stack'[index'])),
         pc' = "end" => Explored(tree', executed', Child(stack'[index'])),
         pc' = "terminated" => tree'[Root].covered
  PROVE  SearchInv'
<1>1. script' = script /\ config' = config /\ faults' = faults
  BY DEF given
<1>2. /\ Trails' = Trails /\ \A l : Kind(l)' = Kind(l)
      /\ \A l : ScopeOf(l)' = ScopeOf(l)
  BY <1>1, SameTrails DEF Kind, ScopeOf
<1>3. \A r, i : Decision(r, i)' = Decision(r, i)
  BY <1>2 DEF Decision
<1>4. \A p, m : LeadsTo(tree', p, m) => LeadsTo(tree, p, m)'
  BY <1>3 DEF LeadsTo
<1>5. \A p, m : LeadsTo(tree, p, m)' => LeadsTo(tree', p, m)
  BY <1>3 DEF LeadsTo
<1>6. \A p : Done(p, executed') => Done(p, executed)'
  BY <1>1 DEF Done
<1>7. \A m : Explored(tree', executed', m) => Explored(tree, executed, m)'
  BY <1>2, <1>5, <1>6 DEF Explored
<1>8. ExploredInv'
  BY <1>2, <1>7 DEF ExploredInv, ExploredAt, Searched
<1>9. NodesInv'
  BY <1>2 DEF NodesInv, RecordOK, ForallOK, Searched
<1>10. (pc = "end" => Explored(tree, executed, Child(stack[index])))'
  BY <1>7 DEF Child
<1>11. (pc \in {"script", "end"} =>
          Len(trail) = index - 1 /\ LeadsTo(tree, trail, Child(stack[index])))'
  BY <1>4 DEF Child
<1>12. RunInv'
  BY <1>10, <1>11 DEF RunInv
<1> QED BY <1>8, <1>9, <1>12 DEF SearchInv

\* What SearchInv says of a search that nothing disturbs.
LEMMA SearchNow ==
  ASSUME TreeInv, SearchInv, Undisturbed
  PROVE  /\ GivenInv /\ Tree(tree) /\ Calm(script, config, faults) /\ EndsOnly(marked)
         /\ CoverInv
         /\ Searched(tree, executed)
         /\ trail \in Seq(Decisions) /\ executed \in SUBSET Seq(Decisions)
         /\ Len(trail) \in Nat
         /\ pc \in {"script", "end"} =>
              /\ Path(tree, stack) /\ index \in 1..Len(stack)
              /\ LocOK(tree, stack[index]) /\ stack[index].node \in Names
              /\ stack[index].idx \in Nat /\ Len(stack[index].node) = index - 1
              /\ Len(trail) = index - 1 /\ LeadsTo(tree, trail, Child(stack[index]))
         /\ pc = "end" => Explored(tree, executed, Child(stack[index]))
<1>1. /\ GivenInv /\ Tree(tree) /\ CoverInv /\ NodesInv /\ ExploredInv /\ RunInv
  BY DEF TreeInv, SearchInv
<1>2. Calm(script, config, faults) /\ EndsOnly(marked)
  BY <1>1 DEF CoverInv, CalmInv
<1>3. pc \in {"script", "end"} => Path(tree, stack) /\ index \in 1..Len(stack)
  BY <1>1 DEF TreeInv, StackInv, CoverInv, CalmInv
<1>4. pc \in {"script", "end"} =>
        /\ LocOK(tree, stack[index]) /\ stack[index].node \in Names
        /\ stack[index].idx \in Nat /\ Len(stack[index].node) = index - 1
  BY <1>1, <1>3, PathFacts DEF LocOK
<1>5. trail \in Seq(Decisions) /\ Len(trail) \in Nat
  BY <1>1, LenProperties DEF RunInv
<1> QED BY <1>1, <1>2, <1>3, <1>4, <1>5 DEF NodesInv, ExploredInv, RunInv, Searched

\* The record r for the node c stands for the decisions the node stood for.
KeepsRuns(t, c, r) ==
  /\ RecordOK(r) /\ ~r.covered
  /\ c \in DOMAIN t => /\ ~t[c].covered /\ r.tried = t[c].tried
                       /\ \A i \in DOMAIN t[c].kids : Decision(r, i) = Decision(t[c], i)
  /\ c \notin DOMAIN t => r.tried = {}

\* With such a record the branches of all nodes stand for what they stood for.
LEMMA GrownDecisions ==
  ASSUME NEW t, Tree(t), NEW loc, LocOK(t, loc), NEW c, c = Child(loc),
         NEW r, KeepsRuns(t, c, r), NEW u, Grown(t, loc, r, u)
  PROVE  \A n \in DOMAIN t : \A i \in DOMAIN t[n].kids : Decision(u[n], i) = Decision(t[n], i)
<1> SUFFICES ASSUME NEW n \in DOMAIN t, NEW i \in DOMAIN t[n].kids
             PROVE  Decision(u[n], i) = Decision(t[n], i)
  OBVIOUS
<1>1. /\ u[c] = r /\ \A m \in DOMAIN t : m # c /\ m # loc.node => u[m] = t[m]
      /\ u[loc.node].stmt = t[loc.node].stmt
      /\ u[loc.node].value = t[loc.node].value /\ u[loc.node].vars = t[loc.node].vars
  BY DEF Grown
<1>2. c \in DOMAIN t => \A k \in DOMAIN t[c].kids : Decision(r, k) = Decision(t[c], k)
  BY DEF KeepsRuns
<1>3. CASE n = c
  BY <1>1, <1>2, <1>3
<1>4. CASE n # c /\ n = loc.node
  BY <1>1, <1>4 DEF Decision
<1>5. CASE n # c /\ n # loc.node
  BY <1>1, <1>5
<1> QED BY <1>3, <1>4, <1>5

\* A record takes the place of a node, or a new node is hung: what has been explored stays
\* so, and a run comes where it came.
LEMMA GrownExplored ==
  ASSUME GivenInv, NEW t, Tree(t), NEW loc, LocOK(t, loc), NEW c, c = Child(loc),
         NEW r, Extends(t, c, r), KeepsRuns(t, c, r), NEW u, Grown(t, loc, r, u),
         \A n \in DOMAIN t : n # c => u[n].tried = t[n].tried, NEW X, Searched(t, X)
  PROVE  /\ Searched(u, X)
         /\ \A p : Len(p) \in Nat /\ LeadsTo(t, p, c) => LeadsTo(u, p, c)
<1>0. /\ RecordOK(r) /\ ~r.covered
      /\ c \in DOMAIN t => /\ ~t[c].covered /\ r.tried = t[c].tried
                           /\ \A i \in DOMAIN t[c].kids : Decision(r, i) = Decision(t[c], i)
      /\ c \notin DOMAIN t => r.tried = {}
      /\ \A n \in DOMAIN t : ExploredAt(t, X, n)
      /\ \A n \in DOMAIN t \ {Root} : RecordOK(t[n])
  BY DEF KeepsRuns, Searched
<1>1. /\ DOMAIN u = DOMAIN t \cup {c} /\ u[c] = r
      /\ \A m \in DOMAIN t : m # c /\ m # loc.node => u[m] = t[m]
      /\ u[loc.node] \in Records
      /\ u[loc.node].stmt = t[loc.node].stmt /\ u[loc.node].covered = t[loc.node].covered
      /\ u[loc.node].value = t[loc.node].value /\ u[loc.node].vars = t[loc.node].vars
      /\ Len(u[loc.node].kids) = Len(t[loc.node].kids)
      /\ \A i \in 1..Len(t[loc.node].kids) :
           u[loc.node].kids[i] = IF i = loc.idx THEN "node" ELSE t[loc.node].kids[i]
  BY DEF Grown
<1>2. /\ loc.node \in DOMAIN t /\ loc.idx \in DOMAIN t[loc.node].kids
      /\ loc.node \in Names /\ loc.idx \in Nat /\ c = Append(loc.node, loc.idx)
      /\ c # Root
  <2>1. /\ loc.node \in DOMAIN t /\ loc.idx \in DOMAIN t[loc.node].kids
        /\ c = Append(loc.node, loc.idx)
    BY DEF LocOK, Child
  <2>2. loc.node \in Names /\ loc.idx \in Nat
    BY <2>1, TreeNames
  <2> QED BY <2>1, <2>2, ChildName
<1>3. /\ r \in Records /\ r.stmt # 0
      /\ c \in DOMAIN t =>
           /\ r.stmt = t[c].stmt /\ r.value = t[c].value
           /\ \A i \in 1..Len(t[c].kids) : r.kids[i] = t[c].kids[i]
      /\ \A i \in 1..Len(r.kids) : r.kids[i] # "null" => c \in DOMAIN t /\ i \in 1..Len(t[c].kids)
  BY DEF Extends
<1>4. \A n \in DOMAIN t : /\ DOMAIN t[n].kids = 1..Len(t[n].kids)
                          /\ t[n] \in Records
  BY TreeNames
<1>5. DOMAIN r.kids = 1..Len(r.kids)
  BY <1>3, KidFacts
<1>6. DOMAIN u[loc.node].kids = DOMAIN t[loc.node].kids
  BY <1>1, <1>2, <1>4, KidFacts
<1>7. \A n \in DOMAIN t : \A i \in DOMAIN t[n].kids : Decision(u[n], i) = Decision(t[n], i)
  BY GrownDecisions
<1>8. \A n \in DOMAIN t :
        /\ Explored(u, X, n) <=> Explored(t, X, n)
        /\ \A i \in DOMAIN t[n].kids :
             Explored(u, X, Append(n, i)) <=> Explored(t, X, Append(n, i))
  BY <1>7, ExploredSame
<1>9. ASSUME NEW n \in DOMAIN u PROVE ExploredAt(u, X, n)
  <2>1. ASSUME n \notin DOMAIN t PROVE ExploredAt(u, X, n)
    <3>1. u[n] = r /\ r.tried = {} /\ ~r.covered /\ \A i \in DOMAIN r.kids : r.kids[i] = "null"
      BY <1>0, <1>1, <1>3, <1>5, <2>1
    <3> QED BY <3>1 DEF ExploredAt
  <2>2. ASSUME n \in DOMAIN t PROVE ExploredAt(u, X, n)
    <3>1. ExploredAt(t, X, n)
      BY <1>0, <2>2
    <3>2. (u[n].covered => t[n].covered) /\ u[n].tried = t[n].tried /\ u[n].stmt = t[n].stmt
      BY <1>0, <1>1, <1>3, <2>2
    <3>3. \A i \in DOMAIN u[n].kids : u[n].kids[i] = "end" =>
            i \in DOMAIN t[n].kids /\ t[n].kids[i] = "end"
      <4>1. CASE n = c
        BY <1>1, <1>3, <1>4, <1>5, <2>2, <4>1
      <4>2. CASE n # c /\ n = loc.node
        BY <1>1, <1>4, <1>6, <2>2, <4>2
      <4>3. CASE n # c /\ n # loc.node
        BY <1>1, <2>2, <4>3
      <4> QED BY <4>1, <4>2, <4>3
    <3>4. t[n].stmt # 0 /\ Kind(t[n].stmt) = "exists" => 1 \in DOMAIN t[n].kids
      BY <2>2, NodeFacts DEF OneChild
    <3> QED BY <1>8, <2>2, <3>1, <3>2, <3>3, <3>4 DEF ExploredAt
  <2> QED BY <2>1, <2>2
<1>10. ASSUME NEW n \in DOMAIN u \ {Root} PROVE RecordOK(u[n])
  <2>1. CASE n = c
    BY <1>0, <1>1, <2>1
  <2>2. CASE n # c /\ n = loc.node
    <3>1. RecordOK(t[n])
      BY <1>0, <1>2, <2>2
    <3> QED BY <1>1, <2>2, <3>1 DEF RecordOK, ForallOK
  <2>3. CASE n # c /\ n # loc.node
    BY <1>0, <1>1, <2>3
  <2> QED BY <2>1, <2>2, <2>3
<1>11. ASSUME NEW p, Len(p) \in Nat, LeadsTo(t, p, c) PROVE LeadsTo(u, p, c)
  <2>1. \A n \in DOMAIN t : \A i \in DOMAIN t[n].kids :
          LeadsTo(u, p, Append(n, i)) <=> LeadsTo(t, p, Append(n, i))
    BY <1>7, <1>11, SameLeads
  <2> QED BY <1>2, <1>11, <2>1
<1>12. Searched(u, X)
  BY <1>9, <1>10 DEF Searched
<1> QED BY <1>11, <1>12

-----------------------------------------------------------------------------
\* To set a child does not change which threads were tried.
LEMMA SetTried ==
  ASSUME NEW t, NEW loc, NEW v, NEW n \in DOMAIN t
  PROVE  Set(t, loc, v)[n].tried = t[n].tried
<1> DEFINE u == Set(t, loc, v)
<1>1. u[n] = IF n = loc.node THEN [t[n] EXCEPT !.kids[loc.idx] = v] ELSE t[n]
  BY DEF Set
<1>2. [t[n] EXCEPT !.kids[loc.idx] = v].tried = t[n].tried
  OBVIOUS
<1> QED BY <1>1, <1>2

\* A consumption keeps SearchInv: the run comes to the branch that is decided.
LEMMA SearchConsume ==
  ASSUME TreeInv, SearchInv, Undisturbed, CoverInv', Running, at \in Locs,
         NEW r, Extends(tree, Here, r), KeepsRuns(tree, Here, r), r.stmt = at,
         NEW i \in DOMAIN r.kids, NEW label \in Decisions, label = Decision(r, i),
         NEW l, Consume(r, i, label, l), index < Len(stack) => i = stack[index + 1].idx
  PROVE  SearchInv'
<1>1. /\ GivenInv /\ Tree(tree) /\ trail \in Seq(Decisions) /\ Len(trail) \in Nat
      /\ executed \in SUBSET Seq(Decisions)
      /\ Path(tree, stack) /\ index \in 1..Len(stack)
      /\ LocOK(tree, stack[index]) /\ stack[index].node \in Names /\ stack[index].idx \in Nat
      /\ Len(stack[index].node) = index - 1
      /\ Len(trail) = index - 1 /\ LeadsTo(tree, trail, Child(stack[index]))
      /\ Searched(tree, executed)
  BY SearchNow DEF Running
<1>2. Follows(tree, stack, index, at)
  BY FollowsNow
<1>3. Here = Child(stack[index]) /\ Here \in Names /\ Here # Root
        /\ (index < Len(stack) => stack[index + 1].node = Here)
  BY <1>1, <1>2, HereFacts DEF Follows
<1>4. /\ tree' = Set([n \in DOMAIN tree \cup {Here} |-> IF n = Here THEN r ELSE tree[n]],
                     stack[index], "node")
      /\ stack' = IF index = Len(stack) THEN Append(stack, [node |-> Here, idx |-> i]) ELSE stack
      /\ index' = index + 1 /\ trail' = Append(trail, label)
      /\ UNCHANGED <<given, executed, pc>>
  BY DEF Consume, AddToNodeStack, GetLastNodeInStack, Undisturbed
<1>5. Grown(tree, stack[index], r, tree')
  BY <1>1, <1>3, <1>4, ConsumeGrows
<1>6. \A n \in DOMAIN tree : n # Here => tree'[n].tried = tree[n].tried
  <2> DEFINE w == [n \in DOMAIN tree \cup {Here} |-> IF n = Here THEN r ELSE tree[n]]
  <2>1. \A n \in DOMAIN tree : n \in DOMAIN w /\ (n # Here => w[n] = tree[n])
    OBVIOUS
  <2>2. tree' = Set(w, stack[index], "node")
    BY <1>4
  <2> HIDE DEF w
  <2>3. \A n \in DOMAIN w : tree'[n].tried = w[n].tried
    BY <2>2, SetTried
  <2> QED BY <2>1, <2>3
<1>7. /\ Searched(tree', executed)
      /\ \A p : Len(p) \in Nat /\ LeadsTo(tree, p, Here) => LeadsTo(tree', p, Here)
  <2> DEFINE loc == stack[index]
  <2>1. LocOK(tree, loc) /\ Here = Child(loc) /\ Grown(tree, loc, r, tree')
    BY <1>1, <1>3, <1>5
  <2> HIDE DEF loc
  <2> QED BY <1>1, <1>6, <2>1, GrownExplored
<1>8. stack'[index'].node = Here /\ stack'[index'].idx = i
  <2>1. CASE index = Len(stack)
    <3>1. stack \in Seq(ChildLocs) /\ Len(stack) \in Nat
      BY <1>1, PathFacts DEF Path
    <3>2. i \in Nat
      BY KidFacts DEF Extends
    <3>3. [node |-> Here, idx |-> i] \in ChildLocs
      BY <1>3, <3>2 DEF ChildLocs
    <3>4. stack'[index'] = [node |-> Here, idx |-> i]
      BY <1>1, <1>4, <2>1, <3>1, <3>3, AppendProperties
    <3> QED BY <3>4
  <2>2. CASE index # Len(stack)
    <3>1. index < Len(stack)
      BY <1>1, <2>2, PathFacts
    <3> QED BY <1>3, <1>4, <2>2, <3>1
  <2> QED BY <2>1, <2>2
<1>9. /\ trail' \in Seq(Decisions) /\ Len(trail') = index /\ trail'[index] = label
      /\ \A x \in 1..(index - 1) : trail'[x] = trail[x]
  BY <1>1, <1>4, AppendProperties
<1>10. Len(Here) = index /\ index \in Nat /\ i \in Nat
  <2>1. Here = Append(stack[index].node, stack[index].idx)
    BY <1>3 DEF Child
  <2>2. i \in Nat
    BY KidFacts DEF Extends
  <2> DEFINE n == stack[index].node  j == stack[index].idx
  <2>3. n \in Names /\ j \in Nat /\ Here = Append(n, j) /\ Len(n) = index - 1 /\ index \in Int
    BY <1>1, <2>1
  <2> HIDE DEF n, j
  <2>4. Len(n) \in Nat /\ Len(Here) = Len(n) + 1
    BY <2>3, ChildName
  <2> QED BY <2>2, <2>3, <2>4
<1>11. LeadsTo(tree', trail', Here)
  <2>1. LeadsTo(tree', trail, Here)
    BY <1>1, <1>3, <1>7
  <2> QED BY <1>9, <1>10, <2>1, LeadsPrefix
<1>12. tree'[Here] = r
  BY <1>3, <1>5 DEF Grown
<1>13. LeadsTo(tree', trail', Append(Here, i))
  BY <1>3, <1>9, <1>10, <1>11, <1>12, LeadsStep
<1>14. LeadsTo(tree', trail', Child(stack'[index']))
  BY <1>8, <1>13 DEF Child
<1>15. Len(trail') = index' - 1 /\ pc' = "script"
  BY <1>4, <1>9, <1>10 DEF Running
<1> QED BY <1>1, <1>4, <1>7, <1>9, <1>14, <1>15, StaysSearched

-----------------------------------------------------------------------------
\* In an exhaustible search a forall has a scope, which fits in the node.
LEMMA ScopeFits ==
  ASSUME Exhaustible, GivenInv, Undisturbed, NEW l \in Locs, Kind(l) = "forall"
  PROVE  /\ script[l].scope # {} /\ ScopeOf(l) = script[l].scope
         /\ ScopeOf(l) \subseteq Threads /\ IsFiniteSet(ScopeOf(l))
         /\ Cardinality(ScopeOf(l)) \in Nat /\ Cardinality(ScopeOf(l)) <= MaxChildren
         /\ MaxChildren \in Nat
<1>1. PICK search \in Searches :
        script = search.script /\ config = search.config /\ faults = search.faults
  BY DEF GivenInv
<1>2. search.faults = {} /\ l \in 1..Len(search.script) /\ search.script[l].kind = "forall"
  BY <1>1 DEF Undisturbed, Locs, Kind
<1>3. script[l].scope # {} /\ Cardinality(script[l].scope) <= MaxChildren
  BY <1>1, <1>2 DEF Exhaustible
<1>4. script[l].scope \subseteq Threads /\ IsFiniteSet(Threads) /\ MaxChildren \in Nat
  BY ScriptFacts, SearchAssumption
<1>5. IsFiniteSet(script[l].scope) /\ Cardinality(script[l].scope) \in Nat
  BY <1>4, FS_Subset, FS_CardinalityType
<1>6. ScopeOf(l) = script[l].scope
  BY <1>3 DEF ScopeOf
<1> QED BY <1>3, <1>4, <1>5, <1>6

\* The node of the statement stands for the decisions it stood for.
LEMMA HereKeeps ==
  ASSUME TreeInv, SearchInv, Undisturbed, Running, at \in Locs, NEW v \in BOOLEAN,
         Kind(at) = "cond" => v, Existing => ~tree[Here].covered
  PROVE  KeepsRuns(tree, Here, HereNode(v))
<1>1. GivenInv /\ Tree(tree) /\ Searched(tree, executed)
  BY SearchNow
<1>2. Here # Root
  BY FollowsNow, HereFacts DEF Follows
<1>3. CASE Existing
  <2>1. HereNode(v) = tree[Here] /\ Here \in DOMAIN tree
    BY <1>3 DEF HereNode, Existing
  <2> QED BY <1>1, <1>2, <1>3, <2>1 DEF KeepsRuns, Searched
<1>4. CASE ~Existing
  <2>1. HereNode(v) = NewNode(at, v) /\ Here \notin DOMAIN tree
    BY <1>4 DEF HereNode, Existing
  <2> DEFINE r == NewNode(at, v)
  <2>2. r.stmt = at /\ r.value = v /\ ~r.covered /\ r.vars = <<>> /\ r.tried = {}
    BY <1>1, NewNodeFacts
  <2> HIDE DEF r
  <2>3. DOMAIN r.vars = {}
    BY <2>2
  <2>4. RecordOK(r)
    BY <2>2, <2>3 DEF RecordOK, ForallOK
  <2> QED BY <2>1, <2>2, <2>4 DEF KeepsRuns, r
<1> QED BY <1>3, <1>4

\* DSLChoice keeps SearchInv.
LEMMA SearchChoice ==
  ASSUME TreeInv, SearchInv, Undisturbed, DSLChoice
  PROVE  SearchInv'
<1> DEFINE r == HereNode(FALSE)
<1>1. Running /\ at \in Locs /\ Kind(at) = "choice" /\ ~HereCovers
  BY DEF DSLChoice, AtStatement
<1>2. PICK i \in Branches : Consume(r, i, Answer[i], script[at].next[i])
  BY DEF DSLChoice
<1>3. /\ TreeInv /\ CoverInv /\ CoverInv' /\ GivenInv /\ Follows(tree, stack, index, at)
      /\ Tree(tree)
  BY <1>1, SearchNow, CoverChoice, FollowsNow DEF Follows
<1>4. Existing => ~tree[Here].covered
  BY <1>1 DEF HereCovers, Covers
<1>5. Extends(tree, Here, r) /\ r.stmt = at /\ DOMAIN r.kids = {1, 2}
  BY <1>1, <1>3, HereExtends DEF Follows
<1>6. KeepsRuns(tree, Here, r)
  BY <1>1, <1>4, HereKeeps
<1> HIDE DEF r
<1>7. i \in {1, 2} /\ (index < Len(stack) => i = stack[index + 1].idx)
  <2>1. CASE index < Len(stack)
    <3>1. /\ GetNextNodeInStack = stack[index + 1]
          /\ stack[index + 1].idx \in DOMAIN tree[Here].kids
          /\ Existing /\ stack[index + 1].idx > 0 /\ stack[index + 1].idx \in Nat
      BY <1>1, <2>1, NextInStack
    <3>2. stack[index + 1].idx # 0
      BY <3>1
    <3>3. i = stack[index + 1].idx
      BY <1>2, <3>1, <3>2 DEF Branches
    <3>4. tree[Here].stmt = at /\ Here \in DOMAIN tree /\ Here # Root
      BY <1>3, <3>1, HereFacts DEF Follows, Existing
    <3> QED BY <1>1, <1>3, <3>1, <3>3, <3>4, NodeFacts
  <2>2. CASE ~(index < Len(stack))
    <3>1. GetNextNodeInStack.idx = 0
      BY <1>1, <2>2, NextInStack
    <3> QED BY <1>2, <2>2, <3>1 DEF Branches
  <2> QED BY <2>1, <2>2
<1>8. Answer[i] = Decision(r, i) /\ Answer[i] \in Decisions
  BY <1>1, <1>5, <1>7 DEF Decision, Answer, Decisions
<1>9. i \in DOMAIN r.kids
  BY <1>5, <1>7
<1> QED BY <1>1, <1>2, <1>3, <1>5, <1>6, <1>7, <1>8, <1>9, SearchConsume

\* Where a node has one child, that is the one on the stack.
LEMMA OneInStack ==
  ASSUME TreeInv, Running, at \in Locs, Kind(at) \in {"cond", "trans", "exists"},
         index < Len(stack)
  PROVE  1 = stack[index + 1].idx
<1>1. GivenInv /\ Tree(tree) /\ Follows(tree, stack, index, at)
  BY FollowsNow DEF Follows
<1>2. Existing /\ stack[index + 1].idx \in DOMAIN tree[Here].kids
  BY NextInStack
<1>3. tree[Here].stmt = at /\ Here \in DOMAIN tree
  BY <1>1, <1>2, HereFacts DEF Follows, Existing
<1>4. DOMAIN tree[Here].kids = 1..1
  BY <1>1, <1>3, NodeFacts DEF OneChild
<1> QED BY <1>2, <1>4

\* DSLConditional keeps SearchInv.
LEMMA SearchConditional ==
  ASSUME TreeInv, SearchInv, Undisturbed, DSLConditional
  PROVE  SearchInv'
<1>1. Running /\ at \in Locs /\ Kind(at) = "cond"
  BY DEF DSLConditional, AtStatement
<1>2. PICK v \in CondValues :
        /\ HereNode(v).value = v
        /\ Consume(HereNode(v), 1, Answer[CondIndex(v)], script[at].next[CondIndex(v)])
  BY DEF DSLConditional
<1> DEFINE r == HereNode(v)
<1>3. TreeInv /\ CoverInv /\ CoverInv' /\ GivenInv /\ Follows(tree, stack, index, at)
  BY <1>1, SearchNow, CoverConditional, FollowsNow
<1>4. v = TRUE /\ v \in BOOLEAN
  BY DEF CondValues, Undisturbed
<1>5. Extends(tree, Here, r) /\ r.stmt = at /\ 1 \in DOMAIN r.kids
  BY <1>1, <1>3, <1>4, HereExtends DEF Follows
<1>6. Existing => ~tree[Here].covered
  BY <1>1, <1>3, HereOpen
<1>7. KeepsRuns(tree, Here, r)
  BY <1>1, <1>4, <1>6, HereKeeps
<1>8. Answer[CondIndex(v)] = Decision(r, 1) /\ Answer[CondIndex(v)] \in Decisions
  BY <1>1, <1>2, <1>4, <1>5 DEF Decision, Answer, Decisions, CondIndex
<1>9. Consume(r, 1, Answer[CondIndex(v)], script[at].next[CondIndex(v)])
  BY <1>2
<1> HIDE DEF r
<1>10. index < Len(stack) => 1 = stack[index + 1].idx
  BY <1>1, OneInStack
<1> QED BY <1>1, <1>3, <1>5, <1>7, <1>8, <1>9, <1>10, SearchConsume

\* DSLTransition and ExistsSelect keep SearchInv.
LEMMA SearchSingle ==
  ASSUME TreeInv, SearchInv, Undisturbed, DSLTransition \/ \E t \in Threads : ExistsSelect(t)
  PROVE  SearchInv'
<1> DEFINE r == HereNode(FALSE)
<1>1. /\ Running /\ at \in Locs /\ Kind(at) \in {"trans", "exists"}
      /\ \E label \in {"run", "some"} :
           /\ Consume(r, 1, label, script[at].next[1])
           /\ label = IF Kind(at) = "trans" THEN "run" ELSE "some"
  BY DEF DSLTransition, ExistsSelect, AtStatement
<1>2. PICK label \in {"run", "some"} :
        /\ Consume(r, 1, label, script[at].next[1])
        /\ label = IF Kind(at) = "trans" THEN "run" ELSE "some"
  BY <1>1
<1>3. TreeInv /\ CoverInv /\ CoverInv' /\ GivenInv /\ Follows(tree, stack, index, at)
  BY <1>1, SearchNow, CoverSingle, FollowsNow
<1>4. Extends(tree, Here, r) /\ r.stmt = at /\ 1 \in DOMAIN r.kids
  BY <1>1, <1>3, HereExtends DEF Follows
<1>5. Existing => ~tree[Here].covered
  BY <1>1, <1>3, HereOpen
<1>6. KeepsRuns(tree, Here, r)
  BY <1>1, <1>5, HereKeeps
<1>7. label = Decision(r, 1) /\ label \in Decisions
  BY <1>1, <1>2, <1>4 DEF Decision, Decisions
<1> HIDE DEF r
<1>8. index < Len(stack) => 1 = stack[index + 1].idx
  BY <1>1, OneInStack
<1> QED BY <1>1, <1>2, <1>3, <1>4, <1>6, <1>7, <1>8, SearchConsume

-----------------------------------------------------------------------------
\* A forall's record with a variable for a thread of the scope, and where that is.
LEMMA VarRecord ==
  ASSUME Exhaustible, GivenInv, Undisturbed, at \in Locs, Kind(at) = "forall",
         NEW r \in Records, r.stmt = at, Len(r.kids) = Len(r.vars), RecordOK(r), ~r.covered,
         NEW t \in ScopeOf(at)
  PROVE  LET q == WithVar(r, t)
             i == VarIndex(r, t)
         IN  /\ RecordOK(q) /\ ~q.covered /\ q.tried = r.tried /\ Decision(q, i) = t
             /\ \A k \in DOMAIN r.kids : Decision(q, k) = Decision(r, k)
             /\ i <= MaxChildren
             /\ i \in DOMAIN r.kids => Decision(r, i) = t
             /\ \A j \in DOMAIN r.kids : Decision(r, j) = t => i = j
<1> DEFINE q == WithVar(r, t)  i == VarIndex(r, t)  n == Len(r.vars)  S == ScopeOf(at)
<1>1. /\ script[at].scope # {} /\ S \subseteq Threads /\ IsFiniteSet(S)
      /\ Cardinality(S) \in Nat /\ Cardinality(S) <= MaxChildren /\ MaxChildren \in Nat
  BY ScopeFits
<1>2. /\ r.vars \in Seq(Threads) /\ n \in Nat /\ DOMAIN r.vars = 1..n /\ DOMAIN r.kids = 1..n
      /\ r.kids \in Seq(Slots)
  BY LenProperties, KidFacts DEF Records
<1>3. /\ \A k \in DOMAIN r.vars : r.vars[k] \in S
      /\ \A k, j \in DOMAIN r.vars : r.vars[k] = r.vars[j] => k = j
  BY DEF RecordOK, ForallOK
<1>4. \A k : Decision(r, k) = r.vars[k]
  BY DEF Decision
<1>5. /\ Len(r.vars) <= Cardinality(S)
      /\ \A x \in S : (\A k \in DOMAIN r.vars : r.vars[k] # x) => Len(r.vars) + 1 <= Cardinality(S)
  <2> HIDE DEF S
  <2> QED BY <1>1, <1>2, <1>3, VarsCount
<1>6. CASE \E k \in DOMAIN r.vars : r.vars[k] = t
  <2>1. i = CHOOSE k \in DOMAIN r.vars : r.vars[k] = t
    BY <1>1, <1>6 DEF VarIndex
  <2> HIDE DEF i, S
  <2>2. i \in DOMAIN r.vars /\ r.vars[i] = t
    BY <1>6, <2>1
  <2>3. i \in 1..n /\ i <= n /\ i <= MaxChildren
    BY <1>1, <1>2, <1>5, <2>2
  <2>4. q = r
    BY <2>3 DEF WithVar, i
  <2> HIDE DEF q
  <2>5. Decision(q, i) = t /\ \A k \in DOMAIN r.kids : Decision(q, k) = Decision(r, k)
    BY <1>4, <2>2, <2>4
  <2>6. \A j \in DOMAIN r.kids : Decision(r, j) = t => i = j
    BY <1>2, <1>3, <1>4, <2>2
  <2>7. RecordOK(q) /\ ~q.covered /\ q.tried = r.tried
    BY <2>4
  <2> QED BY <2>3, <2>4, <2>5, <2>6, <2>7 DEF q, i
<1>7. CASE ~\E k \in DOMAIN r.vars : r.vars[k] = t
  <2>1. i = n + 1
    BY <1>7 DEF VarIndex
  <2> HIDE DEF i
  <2>2. ~(i <= n) /\ i \notin DOMAIN r.kids
    BY <1>2, <2>1
  <2>3. q = [r EXCEPT !.vars = Append(@, t), !.kids = Append(@, "null")]
    BY <2>2 DEF WithVar, i
  <2>4. /\ q.stmt = r.stmt /\ q.covered = r.covered /\ q.tried = r.tried
        /\ q.vars = Append(r.vars, t)
    BY <2>3 DEF Records
  <2>5. t \in Threads
    BY <1>1
  <2> HIDE DEF q, S
  <2>6. /\ q.vars \in Seq(Threads) /\ DOMAIN q.vars = 1..(n + 1)
        /\ \A k \in 1..n : q.vars[k] = r.vars[k]
        /\ q.vars[i] = t
    <3>1. /\ Append(r.vars, t) \in Seq(Threads) /\ Len(Append(r.vars, t)) = n + 1
          /\ \A k \in 1..n : Append(r.vars, t)[k] = r.vars[k]
          /\ Append(r.vars, t)[n + 1] = t
      BY <1>2, <2>5, AppendProperties
    <3>2. DOMAIN Append(r.vars, t) = 1..(n + 1)
      BY <3>1, LenProperties
    <3> QED BY <2>1, <2>4, <3>1, <3>2
  <2>7. \A k : Decision(q, k) = q.vars[k]
    BY <2>4 DEF Decision
  <2>8. ForallOK(q)
    <3>1. \A k \in DOMAIN q.vars : k \in 1..n \/ k = i
      BY <1>2, <2>1, <2>6
    <3>2. \A k \in DOMAIN q.vars : q.vars[k] \in S
      BY <1>2, <1>3, <2>6, <3>1 DEF S
    <3>3. \A k, j \in DOMAIN q.vars : q.vars[k] = q.vars[j] => k = j
      BY <1>2, <1>3, <1>7, <2>6, <3>1
    <3> QED BY <2>4, <3>2, <3>3 DEF ForallOK, S
  <2>9. RecordOK(q)
    BY <2>4, <2>8 DEF RecordOK
  <2>10. i <= MaxChildren
    <3>1. t \in S
      BY DEF S
    <3>2. Len(r.vars) + 1 <= Cardinality(S)
      BY <1>5, <1>7, <3>1
    <3> QED BY <1>1, <1>2, <2>1, <3>2
  <2>11. \A j \in DOMAIN r.kids : Decision(r, j) = t => i = j
    BY <1>2, <1>4, <1>7
  <2>12. /\ Decision(q, i) = t /\ \A k \in DOMAIN r.kids : Decision(q, k) = Decision(r, k)
    BY <1>2, <1>4, <2>6, <2>7
  <2> QED BY <2>2, <2>4, <2>9, <2>10, <2>11, <2>12 DEF q, i
<1> QED BY <1>6, <1>7

\* ... of the forall the script is at.
LEMMA VarKeeps ==
  ASSUME Exhaustible, TreeInv, SearchInv, Undisturbed, Running, at \in Locs,
         Kind(at) = "forall", NEW t \in ScopeOf(at)
  PROVE  LET r == HereNode(FALSE)
             q == WithVar(r, t)
             i == VarIndex(r, t)
         IN  /\ KeepsRuns(tree, Here, q) /\ Decision(q, i) = t /\ i <= MaxChildren
             /\ Existing => r = tree[Here]
             /\ i \in DOMAIN r.kids => Decision(r, i) = t
             /\ \A j \in DOMAIN r.kids : Decision(r, j) = t => i = j
<1> DEFINE r == HereNode(FALSE)  q == WithVar(r, t)  i == VarIndex(r, t)
<1>1. GivenInv /\ CoverInv /\ t \in Threads
  <2>1. GivenInv /\ CoverInv
    BY SearchNow
  <2> QED BY <2>1, ScopeFits
<1>2. r \in Records /\ Len(r.kids) = Len(r.vars) /\ r.stmt = at
  BY <1>1, VarExtends
<1>3. KeepsRuns(tree, Here, r)
  BY <1>1, HereOpen, HereKeeps
<1>4. RecordOK(r) /\ ~r.covered
  BY <1>3 DEF KeepsRuns
<1>5. Existing => r = tree[Here]
  BY DEF HereNode
<1> HIDE DEF r
<1>6. /\ RecordOK(q) /\ ~q.covered /\ q.tried = r.tried /\ Decision(q, i) = t
      /\ \A k \in DOMAIN r.kids : Decision(q, k) = Decision(r, k)
      /\ i <= MaxChildren
      /\ i \in DOMAIN r.kids => Decision(r, i) = t
      /\ \A j \in DOMAIN r.kids : Decision(r, j) = t => i = j
  BY <1>1, <1>2, <1>4, VarRecord
<1> HIDE DEF q, i
<1>7. KeepsRuns(tree, Here, q)
  BY <1>3, <1>5, <1>6 DEF KeepsRuns, Existing
<1> QED BY <1>5, <1>6, <1>7 DEF r, q, i

\* ForallSelect keeps SearchInv.
LEMMA SearchForallSelect ==
  ASSUME Exhaustible, TreeInv, SearchInv, Undisturbed, NEW t \in Threads, ForallSelect(t)
  PROVE  SearchInv'
<1> DEFINE r == HereNode(FALSE)  q == WithVar(r, t)  i == VarIndex(r, t)
<1>1. Running /\ at \in Locs /\ Kind(at) = "forall" /\ t \in ScopeOf(at)
  BY DEF ForallSelect, AtStatement, InScope
<1>2. Extends(tree, Here, q) /\ q.stmt = at /\ i \in DOMAIN q.kids
  BY <1>1, VarExtends
<1>3. KeepsRuns(tree, Here, q) /\ t = Decision(q, i) /\ t \in Decisions
  BY <1>1, VarKeeps DEF Decisions
<1>4. Consume(q, i, t, script[at].next[1]) /\ MaySelect(i)
  BY DEF ForallSelect
<1> HIDE DEF r, q, i
<1>5. index < Len(stack) => i = stack[index + 1].idx
  <2> SUFFICES ASSUME index < Len(stack) PROVE i = stack[index + 1].idx
    OBVIOUS
  <2>1. GetNextNodeInStack = stack[index + 1] /\ stack[index + 1].idx # 0
    BY <1>1, NextInStack
  <2> QED BY <1>4, <2>1 DEF MaySelect
<1>6. CoverInv'
  BY SearchNow, CoverForallSelect
<1> QED BY <1>1, <1>2, <1>3, <1>4, <1>5, <1>6, SearchConsume

\* ForallRefuse keeps SearchInv: a child it adds has not been reached.
LEMMA SearchForallRefuse ==
  ASSUME Exhaustible, TreeInv, SearchInv, Undisturbed, NEW t \in Threads, ForallRefuse(t)
  PROVE  SearchInv'
<1> DEFINE q == WithVar(HereNode(FALSE), t)  loc == stack[index]
<1>1. /\ Running /\ at \in Locs /\ Kind(at) = "forall" /\ Extends(tree, Here, q)
      /\ LocOK(tree, loc) /\ Here = Child(loc) /\ Here \in DOMAIN tree
      /\ tree' = [tree EXCEPT ![Here] = q] /\ Grown(tree, loc, q, tree')
  BY RefuseGrows
<1>2. /\ t \in ScopeOf(at)
      /\ UNCHANGED <<given, stack, index, pc, trail, executed>>
  BY DEF ForallRefuse, InScope
<1>3. KeepsRuns(tree, Here, q)
  BY <1>1, <1>2, VarKeeps
<1>4. \A n \in DOMAIN tree : n # Here => tree'[n].tried = tree[n].tried
  BY <1>1
<1>5. /\ GivenInv /\ Tree(tree) /\ Searched(tree, executed) /\ Len(trail) \in Nat
      /\ trail \in Seq(Decisions) /\ executed \in SUBSET Seq(Decisions)
      /\ Len(trail) = index - 1 /\ LeadsTo(tree, trail, Child(loc)) /\ pc = "script"
  BY <1>1, SearchNow DEF Running
<1> HIDE DEF q, loc
<1>6. /\ Searched(tree', executed)
      /\ \A p : Len(p) \in Nat /\ LeadsTo(tree, p, Here) => LeadsTo(tree', p, Here)
  BY <1>1, <1>3, <1>4, <1>5, GrownExplored
<1>7. LeadsTo(tree', trail', Child(stack'[index']))
  BY <1>1, <1>2, <1>5, <1>6 DEF loc
<1>8. CoverInv'
  BY SearchNow, CoverForallRefuse
<1> QED BY <1>2, <1>5, <1>6, <1>7, <1>8, StaysSearched

-----------------------------------------------------------------------------
\* Submit keeps SearchInv.
LEMMA SearchSubmit ==
  ASSUME TreeInv, SearchInv, Undisturbed, Submit
  PROVE  SearchInv'
<1>1. /\ Running /\ UNCHANGED <<given, tree, stack, index, pc, trail, executed>>
  BY DEF Submit, AtStatement
<1>2. CoverInv'
  BY SearchNow, CoverSubmit
<1> QED BY <1>1, <1>2, SearchNow, StaysSearched DEF Running

\* The run that ends the script is the only one that comes there.
LEMMA OneRun ==
  ASSUME GivenInv, NEW t, Tree(t), NEW n \in DOMAIN t, NEW i \in DOMAIN t[n].kids,
         Goes(t[n], i) = Exit, NEW q \in Seq(Decisions), Len(q) = Len(n),
         LeadsTo(t, q, Append(n, i)), NEW p \in Trails[1], LeadsTo(t, p, Append(n, i))
  PROVE  p = q
<1>1. PICK w : Walk(1, p, w)
  BY RunFacts
<1>2. /\ p \in Seq(Decisions) /\ Len(p) \in Nat /\ n \in Names /\ i \in Nat
      /\ Append(n, i) \in Names /\ Len(n) \in Nat /\ Len(Append(n, i)) = Len(n) + 1
  <2>1. p \in Seq(Decisions) /\ Len(p) \in Nat
    BY RunFacts
  <2>2. n \in Names /\ i \in Nat
    BY TreeNames
  <2> QED BY <2>1, <2>2, ChildName
<1>3. LeadsTo(t, p, n) /\ Len(n) <= Len(p)
  BY <1>2, LeadsStep
<1>4. w[Len(n) + 1] = Exit
  BY <1>1, <1>3, Arrives
<1>5. Len(p) = Len(n)
  <2>1. Exit \notin Locs
    BY ScriptFacts DEF Exit, Locs
  <2>2. ~(Len(n) + 1 \in 1..Len(p))
    BY <1>1, <1>4, <2>1 DEF Walk
  <2> QED BY <1>2, <1>3, <2>2
<1> DEFINE m == Append(n, i)
<1>6. Len(m) - 1 = Len(n)
  BY <1>2
<1>7. \A j \in 1..Len(n) : p[j] = q[j]
  <2>1. \A j \in 1..(Len(m) - 1) : p[j] = Decision(t[SubSeq(m, 1, j)], m[j + 1])
    BY DEF LeadsTo
  <2>2. \A j \in 1..(Len(m) - 1) : q[j] = Decision(t[SubSeq(m, 1, j)], m[j + 1])
    BY DEF LeadsTo
  <2> HIDE DEF m
  <2> QED BY <1>6, <2>1, <2>2
<1> QED BY <1>2, <1>5, <1>7, SeqEqual

\* ScriptEnd keeps SearchInv.
LEMMA SearchScriptEnd ==
  ASSUME TreeInv, SearchInv, Undisturbed, ScriptEnd
  PROVE  SearchInv'
<1>1. /\ Running /\ at = Exit /\ pc = "script" /\ pc' = "end"
      /\ executed' = executed \cup {trail} /\ UNCHANGED <<given, tree, stack, index, trail>>
  BY DEF ScriptEnd, Running, Undisturbed
<1>2. /\ GivenInv /\ Tree(tree) /\ Searched(tree, executed)
      /\ trail \in Seq(Decisions) /\ executed \in SUBSET Seq(Decisions)
      /\ LocOK(tree, stack[index]) /\ Len(stack[index].node) = index - 1
      /\ Len(trail) = index - 1 /\ LeadsTo(tree, trail, Child(stack[index])) /\ CoverInv
  BY <1>1, SearchNow
<1>3. CoverInv'
  BY <1>2, CoverThrow
<1>4. Searched(tree, executed')
  <2>1. executed \subseteq executed'
    BY <1>1
  <2>2. \A m : Explored(tree, executed, m) => Explored(tree, executed', m)
    BY <2>1, ExploredMore
  <2> QED BY <1>2, <2>2 DEF Searched, ExploredAt
<1> DEFINE n == stack[index].node  i == stack[index].idx
<1>5. /\ n \in DOMAIN tree /\ i \in DOMAIN tree[n].kids /\ Goes(tree[n], i) = Exit
      /\ Len(trail) = Len(n) /\ LeadsTo(tree, trail, Append(n, i))
  BY <1>1, <1>2, FollowsNow DEF LocOK, Follows, Child
<1>6. Explored(tree, executed', Append(n, i))
  <2> SUFFICES ASSUME NEW p \in Trails[1], LeadsTo(tree, p, Append(n, i)) PROVE Done(p, executed')
    BY DEF Explored
  <2> HIDE DEF n, i
  <2>1. p = trail
    BY <1>2, <1>5, OneRun
  <2> QED BY <1>1, <2>1 DEF Done
<1>7. Explored(tree', executed', Child(stack'[index']))
  BY <1>1, <1>6 DEF Child
<1>8. executed' \subseteq Seq(Decisions)
  BY <1>1, <1>2
<1> QED BY <1>1, <1>2, <1>3, <1>4, <1>7, <1>8, StaysSearched

\* A condition is what it was when its node was created, and the script assumes nothing
\* that fails.
LEMMA NeverThrows ==
  ASSUME TreeInv, SearchInv, Undisturbed
  PROVE  ~(ReplayFails \/ AssumeFails \/ ThreadsAllEnded \/ EndTest)
<1>1. ~(AssumeFails \/ ThreadsAllEnded \/ EndTest)
  BY DEF Undisturbed, AssumeFails, ThreadsAllEnded, EndTest
<1>2. ASSUME ReplayFails PROVE FALSE
  <2>1. Running /\ at \in Locs /\ Kind(at) = "cond" /\ CondValues = {TRUE}
    BY <1>2 DEF ReplayFails, AtStatement, CondValues, Undisturbed
  <2>2. HereNode(TRUE).value # TRUE
    BY <1>2, <2>1 DEF ReplayFails
  <2>3. CoverInv /\ GivenInv
    BY SearchNow
  <2>4. Existing => ~tree[Here].covered
    BY <2>1, <2>3, HereOpen
  <2> DEFINE r == HereNode(TRUE)
  <2>5. KeepsRuns(tree, Here, r) /\ r.stmt = at /\ r \in Records
    <3>1. Extends(tree, Here, r) /\ r.stmt = at
      BY <2>1, <2>3, FollowsNow, HereExtends DEF Follows
    <3> QED BY <2>1, <2>4, <3>1, HereKeeps DEF Extends
  <2> HIDE DEF r
  <2>6. r.value /\ r.value \in BOOLEAN
    BY <2>1, <2>5 DEF KeepsRuns, RecordOK, Records
  <2> QED BY <2>2, <2>6 DEF r
<1> QED BY <1>1, <1>2

\* When no thread may consume a selection, all it can select has been explored.
LEMMA NoneLeft ==
  ASSUME Exhaustible, TreeInv, SearchInv, Undisturbed, Running, at \in Locs,
         Kind(at) \in Selections, ~Consumable
  PROVE  Explored(tree, executed, Here)
<1>1. /\ GivenInv /\ CoverInv /\ Tree(tree) /\ Searched(tree, executed)
      /\ \A n \in DOMAIN tree : ExploredAt(tree, executed, n)
      /\ Follows(tree, stack, index, at)
  BY SearchNow, FollowsNow DEF Searched
<1>2. ScopeOf(at) \subseteq Threads /\ ScopeOf(at) # {}
  BY <1>1, ScriptFacts, SearchAssumption DEF ScopeOf
<1>3. Existing => tree[Here].stmt = at /\ Here \in DOMAIN tree /\ Here # Root
  BY <1>1, HereFacts DEF Follows, Existing
<1>4. CASE Kind(at) = "exists"
  <2>1. \A t \in Threads : ~MayExist(t)
    BY <1>4 DEF Consumable
  <2>2. Existing /\ tree[Here].tried # {}
    BY <1>2, <2>1 DEF MayExist, InScope
  <2>3. Explored(tree, executed, Append(Here, 1))
    BY <1>1, <1>3, <2>2 DEF ExploredAt
  <2>4. 1 \in DOMAIN tree[Here].kids
    BY <1>1, <1>3, <1>4, <2>2, NodeFacts DEF OneChild
  <2>5. \A e \in Edges(at) : e[1] = Decision(tree[Here], 1)
    BY <1>3, <1>4, <2>2 DEF Edges, Decision
  <2> QED BY <1>1, <1>3, <2>2, <2>3, <2>4, <2>5, ExploredNode
<1>5. CASE Kind(at) = "forall"
  <2> DEFINE r == HereNode(FALSE)
  <2>1. ASSUME NEW t \in ScopeOf(at)
        PROVE  /\ VarIndex(r, t) \in DOMAIN tree[Here].kids /\ Existing /\ r = tree[Here]
               /\ Decision(r, VarIndex(r, t)) = t
               /\ EndOrCovered(tree, Here, VarIndex(r, t))
    <3> DEFINE i == VarIndex(r, t)
    <3>1. /\ i <= MaxChildren /\ (Existing => r = tree[Here])
          /\ i \in DOMAIN r.kids => Decision(r, i) = t
      BY <1>5, VarKeeps
    <3>2. t \in Threads /\ InScope(t)
      BY <1>2 DEF InScope
    <3>3. ~MaySelect(i)
      BY <1>5, <3>1, <3>2 DEF Consumable
    <3> HIDE DEF r, i
    <3>4. CASE GetNextNodeInStack.idx \in {0, i}
      <4>1. Existing /\ i \in DOMAIN tree[Here].kids /\ EndOrCovered(tree, Here, i)
        BY <3>3, <3>4 DEF MaySelect
      <4> QED BY <3>1, <4>1 DEF i
    <3>5. CASE GetNextNodeInStack.idx \notin {0, i}
      <4>1. PICK j : j = stack[index + 1].idx /\ index < Len(stack)
        BY <3>5, NextInStack
      <4>2. /\ Existing /\ j \in DOMAIN tree[Here].kids /\ GetNextNodeInStack.idx = j
            /\ stack[index + 1].node = Here
        BY <4>1, NextInStack
      <4>3. Decision(r, j) \in ScopeOf(at)
        <5>1. r = tree[Here] /\ RecordOK(r) /\ r.stmt = at
          BY <1>1, <1>3, <3>1, <4>2 DEF Searched
        <5>2. DOMAIN r.kids = DOMAIN r.vars
          <6>1. r \in Records /\ Len(r.kids) = Width(r)
            BY <1>1, <1>3, <3>1, <4>2 DEF Tree, NodeOK
          <6>2. Len(r.kids) = Len(r.vars)
            BY <1>1, <1>3, <1>5, <4>2, <5>1, <6>1, NodeFacts DEF Width
          <6> QED BY <6>1, <6>2, LenProperties DEF Records
        <5> QED BY <1>5, <4>2, <5>1, <5>2 DEF RecordOK, ForallOK, Decision
      <4> DEFINE x == Decision(r, j)  k == VarIndex(r, x)
      <4>4. /\ k <= MaxChildren /\ r = tree[Here]
            /\ \A y \in DOMAIN r.kids : Decision(r, y) = x => k = y
        <5> HIDE DEF x
        <5>1. x \in ScopeOf(at)
          BY <4>3 DEF x
        <5>2. /\ VarIndex(HereNode(FALSE), x) <= MaxChildren
              /\ Existing => HereNode(FALSE) = tree[Here]
              /\ \A y \in DOMAIN HereNode(FALSE).kids :
                   Decision(HereNode(FALSE), y) = x => VarIndex(HereNode(FALSE), x) = y
          BY <1>5, <5>1, VarKeeps
        <5> QED BY <4>2, <5>2 DEF r
      <4>5. k = j
        BY <4>2, <4>4
      <4>6. ~MaySelect(j)
        <5>1. x \in Threads /\ InScope(x)
          BY <1>2, <4>3 DEF InScope
        <5> HIDE DEF x
        <5> QED BY <1>5, <4>4, <4>5, <5>1 DEF Consumable, r
      <4>7. EndOrCovered(tree, Here, j)
        BY <4>2, <4>6 DEF MaySelect
      <4>8. Kind(at) # "exists"
        BY <1>5
      <4> QED BY <1>1, <4>1, <4>7, <4>8, NextOpen DEF ChildCovered
    <3> QED BY <3>4, <3>5
  <2>2. \A e \in Edges(at) : \E t \in ScopeOf(at) : e[1] = t
    BY <1>5 DEF Edges
  <2> HIDE DEF r
  <2>3. Existing /\ r = tree[Here]
    BY <1>2, <2>1
  <2>4. ASSUME NEW t \in ScopeOf(at)
        PROVE  \E i \in DOMAIN tree[Here].kids :
                 t = Decision(tree[Here], i) /\ Explored(tree, executed, Append(Here, i))
    <3> DEFINE i == VarIndex(r, t)
    <3>1. i \in DOMAIN tree[Here].kids /\ Decision(tree[Here], i) = t
      BY <2>1, <2>3
    <3>2. EndOrCovered(tree, Here, i)
      BY <2>1
    <3> HIDE DEF i
    <3>3. Explored(tree, executed, Append(Here, i))
      BY <1>1, <1>3, <2>3, <3>1, <3>2, ClosedExplored
    <3> QED BY <3>1, <3>3
  <2> QED BY <1>1, <1>3, <2>2, <2>3, <2>4, ExploredNode
<1> QED BY <1>4, <1>5 DEF Selections

-----------------------------------------------------------------------------
\* Timeout keeps SearchInv: the run is given up where all has been explored.
LEMMA SearchTimeout ==
  ASSUME Exhaustible, TreeInv, SearchInv, Undisturbed, Timeout
  PROVE  SearchInv'
<1>1. /\ Running /\ at \in Locs /\ Kind(at) \in Selections \cup {"trans"} /\ ~Consumable
      /\ pc = "script" /\ pc' = "end"
      /\ UNCHANGED <<given, tree, stack, index, trail, executed>>
  BY DEF Timeout, AtStatement, Running, Backtrack, Undisturbed
<1>2. CoverInv'
  BY SearchNow, CoverThrow
<1>3. Kind(at) \in Selections
  BY <1>1 DEF Consumable, Selections
<1>4. Explored(tree, executed, Child(stack[index]))
  BY <1>1, <1>3, NoneLeft DEF Here, GetLastNodeInStack
<1> QED BY <1>1, <1>2, <1>4, SearchNow, StaysSearched

\* Coverage does not matter to where a run comes.
LEMMA CoverageLeads ==
  ASSUME GivenInv, NEW t, Tree(t), NEW u, \A n \in DOMAIN t : SameShape(u[n], t[n])
  PROVE  /\ \A X : \A n \in DOMAIN t :
              /\ Explored(u, X, n) <=> Explored(t, X, n)
              /\ \A i \in DOMAIN t[n].kids :
                   Explored(u, X, Append(n, i)) <=> Explored(t, X, Append(n, i))
         /\ \A p : Len(p) \in Nat => \A n \in DOMAIN t : \A i \in DOMAIN t[n].kids :
              LeadsTo(u, p, Append(n, i)) <=> LeadsTo(t, p, Append(n, i))
<1>1. \A n \in DOMAIN t \ {Root} : \A i \in DOMAIN t[n].kids :
        Decision(u[n], i) = Decision(t[n], i)
  BY DEF Decision, SameShape
<1>2. ASSUME NEW X
      PROVE  \A n \in DOMAIN t :
              /\ Explored(u, X, n) <=> Explored(t, X, n)
              /\ \A i \in DOMAIN t[n].kids :
                   Explored(u, X, Append(n, i)) <=> Explored(t, X, Append(n, i))
  BY <1>1, ExploredSame
<1>3. ASSUME NEW p, Len(p) \in Nat
      PROVE  \A n \in DOMAIN t : \A i \in DOMAIN t[n].kids :
              LeadsTo(u, p, Append(n, i)) <=> LeadsTo(t, p, Append(n, i))
  BY <1>1, <1>3, SameLeads
<1> QED BY <1>2, <1>3

\* ChoiceCovered keeps SearchInv: ComputeCoverage covers what has been explored.
LEMMA SearchChoiceCovered ==
  ASSUME TreeInv, SearchInv, Undisturbed, ChoiceCovered
  PROVE  SearchInv'
<1>1. Running /\ at \in Locs /\ Kind(at) \in {"choice", "cond"} /\ HereCovers
  BY DEF ChoiceCovered, AtStatement
<1>2. /\ GivenInv /\ Tree(tree) /\ Calm(script, config, faults) /\ EndsOnly(marked) /\ CoverInv
      /\ Searched(tree, executed) /\ trail \in Seq(Decisions) /\ Len(trail) \in Nat
      /\ executed \in SUBSET Seq(Decisions) /\ LocOK(tree, stack[index])
      /\ Len(trail) = index - 1 /\ LeadsTo(tree, trail, Child(stack[index]))
      /\ \A n \in DOMAIN tree \ {Root} : RecordOK(tree[n])
      /\ \A n \in DOMAIN tree : ExploredAt(tree, executed, n)
  BY <1>1, SearchNow DEF Running, Searched
<1>3. Kind(at) = "choice" /\ Here \in DOMAIN tree /\ tree[Here].stmt = at
  BY <1>1, <1>2, HereCoversWhen, FollowsNow, HereFacts DEF Existing, Follows
<1>4. CoverInv'
  BY <1>2, CoverChoiceCovered
<1>5. /\ tree' = [tree EXCEPT ![Here].covered = TRUE] /\ pc' = "end" /\ executed' = executed
      /\ UNCHANGED <<given, stack, index, trail>>
  BY <1>1 DEF ChoiceCovered, Backtrack
<1>6. Explored(tree, executed, Here)
  <2>1. Covers(tree, Here, {}, marked)
    BY <1>1 DEF HereCovers
  <2>2. \A i \in {} \cap DOMAIN tree[Here].kids : Explored(tree, executed, Append(Here, i))
    OBVIOUS
  <2> QED BY <1>2, <1>3, <2>1, <2>2, CoversExplored
<1>7. DOMAIN tree' = DOMAIN tree
  BY <1>5
<1>8. ASSUME NEW n \in DOMAIN tree
      PROVE  /\ SameShape(tree'[n], tree[n]) /\ tree'[n].tried = tree[n].tried
             /\ tree'[n].covered <=> tree[n].covered \/ n = Here
             /\ n # Here => tree'[n] = tree[n]
  <2>1. tree[n] \in Records
    BY <1>2, TreeNames
  <2>2. tree'[n] = IF n = Here THEN [tree[n] EXCEPT !.covered = TRUE] ELSE tree[n]
    BY <1>5
  <2> QED BY <2>1, <2>2 DEF Records, SameShape
<1>9. /\ \A n \in DOMAIN tree :
           /\ Explored(tree', executed, n) <=> Explored(tree, executed, n)
           /\ \A i \in DOMAIN tree[n].kids :
                Explored(tree', executed, Append(n, i)) <=> Explored(tree, executed, Append(n, i))
      /\ \A n \in DOMAIN tree : \A i \in DOMAIN tree[n].kids :
           LeadsTo(tree', trail, Append(n, i)) <=> LeadsTo(tree, trail, Append(n, i))
  BY <1>2, <1>8, CoverageLeads
<1>10. ASSUME NEW n \in DOMAIN tree PROVE ExploredAt(tree', executed, n)
  <2>1. ExploredAt(tree, executed, n)
    BY <1>2
  <2>2. tree[n].stmt # 0 /\ Kind(tree[n].stmt) = "exists" => 1 \in DOMAIN tree[n].kids
    BY <1>2, NodeFacts DEF OneChild
  <2>3. SameShape(tree'[n], tree[n]) /\ tree'[n].tried = tree[n].tried
        /\ (tree'[n].covered => Explored(tree, executed, n))
    BY <1>6, <1>8, <2>1 DEF ExploredAt
  <2> QED BY <1>9, <2>1, <2>2, <2>3 DEF ExploredAt, SameShape
<1>11. ASSUME NEW n \in DOMAIN tree \ {Root} PROVE RecordOK(tree'[n])
  <2>1. CASE n = Here
    <3>1. tree'[n].stmt = at
      BY <1>3, <1>8, <2>1 DEF SameShape
    <3> QED BY <1>3, <3>1 DEF RecordOK
  <2>2. CASE n # Here
    BY <1>2, <1>8, <2>2
  <2> QED BY <2>1, <2>2
<1>12. Searched(tree', executed)
  BY <1>7, <1>10, <1>11 DEF Searched
<1> DEFINE loc == stack[index]
<1>13. /\ loc.node \in DOMAIN tree /\ loc.idx \in DOMAIN tree[loc.node].kids
       /\ Here = Append(loc.node, loc.idx)
  BY <1>2 DEF LocOK, Here, GetLastNodeInStack, Child
<1>14. LeadsTo(tree', trail, Child(loc)) /\ Explored(tree', executed, Child(loc))
  <2>1. LeadsTo(tree, trail, Append(loc.node, loc.idx))
    BY <1>2 DEF Child
  <2> HIDE DEF loc
  <2> QED BY <1>3, <1>6, <1>9, <1>13, <2>1 DEF Child
<1> QED BY <1>2, <1>4, <1>5, <1>12, <1>14, StaysSearched

\* EndExists keeps SearchInv: what follows the thread that was tried has been explored.
LEMMA SearchEndExists ==
  ASSUME TreeInv, SearchInv, Undisturbed, EndExists
  PROVE  SearchInv'
<1>1. Ending /\ TryAnother /\ pc = "end" /\ NodeKind(LastParent) = "exists"
  BY DEF EndExists, Ending, TryAnother
<1>2. /\ GivenInv /\ Tree(tree) /\ CoverInv /\ Searched(tree, executed)
      /\ trail \in Seq(Decisions) /\ executed \in SUBSET Seq(Decisions)
      /\ LocOK(tree, stack[index]) /\ Explored(tree, executed, Child(stack[index]))
      /\ \A n \in DOMAIN tree \ {Root} : RecordOK(tree[n])
      /\ \A n \in DOMAIN tree : ExploredAt(tree, executed, n)
  BY <1>1, SearchNow DEF Searched
<1>3. /\ tree' = [tree EXCEPT ![LastParent].tried = @ \cup {selected}] /\ pc' = "explore"
      /\ UNCHANGED <<given, trail, executed>>
  BY DEF EndExists
<1>4. CoverInv'
  BY <1>2, CoverEndExists
<1> DEFINE m == stack[index].node
<1>5. /\ LastParent = m /\ m \in DOMAIN tree /\ stack[index].idx \in DOMAIN tree[m].kids
      /\ Child(stack[index]) = Append(m, stack[index].idx)
  BY <1>2 DEF LocOK, LastParent, GetLastNodeInStack, Child
<1>6. m # Root /\ tree[m].stmt # 0 /\ Kind(tree[m].stmt) = "exists" /\ DOMAIN tree[m].kids = 1..1
  <2>1. m # Root /\ Kind(tree[m].stmt) = "exists"
    BY <1>1, <1>2, <1>5, TreeNames DEF NodeKind
  <2> QED BY <1>2, <1>5, <2>1, NodeFacts DEF OneChild
<1>7. Explored(tree, executed, Append(m, 1))
  <2>1. stack[index].idx = 1
    BY <1>5, <1>6
  <2> QED BY <1>2, <1>5, <2>1
<1>8. DOMAIN tree' = DOMAIN tree
  BY <1>3
<1>9. ASSUME NEW n \in DOMAIN tree
      PROVE  /\ SameShape(tree'[n], tree[n]) /\ tree'[n].covered = tree[n].covered
             /\ n # m => tree'[n] = tree[n]
  <2>1. tree[n] \in Records
    BY <1>2, TreeNames
  <2>2. tree'[n] = IF n = m THEN [tree[n] EXCEPT !.tried = @ \cup {selected}] ELSE tree[n]
    BY <1>3, <1>5
  <2> QED BY <2>1, <2>2 DEF Records, SameShape
<1>10. \A n \in DOMAIN tree :
         /\ Explored(tree', executed, n) <=> Explored(tree, executed, n)
         /\ \A i \in DOMAIN tree[n].kids :
              Explored(tree', executed, Append(n, i)) <=> Explored(tree, executed, Append(n, i))
  BY <1>2, <1>9, CoverageLeads
<1> HIDE DEF m
<1>11. ASSUME NEW n \in DOMAIN tree PROVE ExploredAt(tree', executed, n)
  <2>1. ExploredAt(tree, executed, n)
    BY <1>2
  <2>2. tree[n].stmt # 0 /\ Kind(tree[n].stmt) = "exists" => 1 \in DOMAIN tree[n].kids
    BY <1>2, NodeFacts DEF OneChild
  <2>3. SameShape(tree'[n], tree[n]) /\ tree'[n].covered = tree[n].covered
    BY <1>9
  <2>4. tree'[n].tried # {} => /\ tree[n].stmt # 0 /\ Kind(tree[n].stmt) = "exists"
                               /\ Explored(tree, executed, Append(n, 1))
    BY <1>6, <1>7, <1>9, <2>1 DEF ExploredAt
  <2> QED BY <1>10, <2>1, <2>2, <2>3, <2>4 DEF ExploredAt, SameShape
<1>12. ASSUME NEW n \in DOMAIN tree \ {Root} PROVE RecordOK(tree'[n])
  BY <1>2, <1>9 DEF RecordOK, ForallOK, SameShape
<1>13. Searched(tree', executed)
  BY <1>8, <1>11, <1>12 DEF Searched
<1> QED BY <1>2, <1>3, <1>4, <1>13, StaysSearched

\* A run that has decided nothing is where the first statement's node goes.
LEMMA FirstLeads ==
  ASSUME NEW t, NEW p, Len(p) = 0
  PROVE  LeadsTo(t, p, Child(RootLoc))
<1>1. /\ Root \in Names /\ 1 \in Nat /\ Len(p) \in Nat
      /\ LeadsTo(t, p, Root) /\ Len(Root) <= Len(p)
  BY LeadsRoot, RootName
<1> DEFINE n == Root  i == 1
<1>2. n \in Names /\ i \in Nat /\ LeadsTo(t, p, n) /\ Len(n) <= Len(p) /\ n = Root
  BY <1>1
<1> HIDE DEF n, i
<1>3. LeadsTo(t, p, Append(n, i))
  BY <1>1, <1>2, LeadsStep
<1> QED BY <1>3 DEF n, i, Child, RootLoc

\* RootCovered keeps SearchInv, ...
LEMMA SearchRootCovered ==
  ASSUME TreeInv, SearchInv, Undisturbed, RootCovered
  PROVE  SearchInv'
<1>1. /\ tree[Root].covered /\ pc' = "terminated"
      /\ UNCHANGED <<given, tree, stack, index, trail, executed>>
  BY DEF RootCovered
<1>2. CoverInv'
  BY SearchNow, CoverRootCovered
<1> QED BY <1>1, <1>2, SearchNow, StaysSearched

\* ... and so does Restart: the next run has decided nothing yet.
LEMMA SearchRestart ==
  ASSUME TreeInv, SearchInv, Undisturbed, Restart
  PROVE  SearchInv'
<1>1. /\ pc' = "script" /\ trail' = <<>> /\ index' = 1
      /\ stack' = IF config.keep THEN <<RootLoc>> ELSE stack
      /\ UNCHANGED <<given, tree, executed>>
  BY DEF Restart
<1>2. CoverInv'
  BY SearchNow, CoverRestart
<1>3. stack'[index'] = RootLoc
  BY <1>1, StepRestart
<1>4. trail' \in Seq(Decisions) /\ Len(trail') = 0
  BY <1>1
<1>5. LeadsTo(tree', trail', Child(stack'[index']))
  BY <1>3, <1>4, FirstLeads
<1> QED BY <1>1, <1>2, <1>4, <1>5, SearchNow, StaysSearched

\* A stutter keeps SearchInv.
LEMMA SearchStutter ==
  ASSUME TreeInv, SearchInv, Undisturbed, UNCHANGED vars
  PROVE  SearchInv'
<1>1. UNCHANGED <<given, tree, stack, index, pc, trail, executed>>
  BY DEF vars
<1>2. CoverInv'
  BY SearchNow, CoverStutter
<1>3. pc = "terminated" => tree[Root].covered
  BY DEF SearchInv, RunInv
<1> QED BY <1>1, <1>2, <1>3, SearchNow, StaysSearched

-----------------------------------------------------------------------------
\* The end of a run covers what has been explored.

\* A cut deletes what hangs at loc, and leaves which threads were tried.
LEMMA CutTried ==
  ASSUME NEW t, NEW loc, NEW n \in DOMAIN t, ~Below(Child(loc), n)
  PROVE  Cut(t, loc)[n].tried = t[n].tried
<1> DEFINE v == Delete(t, Child(loc))
<1>1. n \in DOMAIN v /\ v[n] = t[n]
  BY DEF Delete
<1> HIDE DEF v
<1>2. Set(v, loc, "end")[n].tried = v[n].tried
  BY <1>1, SetTried
<1> QED BY <1>1, <1>2 DEF Cut, v

\* A cut where all has been explored loses nothing.
LEMMA CutExplored ==
  ASSUME GivenInv, NEW t, Tree(t), NEW loc, LocOK(t, loc), NEW u, Tree(u), IsCut(t, loc, u),
         u = Cut(t, loc), NEW X, Searched(t, X), Explored(t, X, Child(loc))
  PROVE  /\ Searched(u, X)
         /\ \A n \in DOMAIN u :
              /\ Explored(u, X, n) <=> Explored(t, X, n)
              /\ \A i \in DOMAIN u[n].kids :
                   Explored(u, X, Append(n, i)) <=> Explored(t, X, Append(n, i))
<1>1. /\ \A n \in DOMAIN u : n \in DOMAIN t /\ ~Below(Child(loc), n)
      /\ loc.node \in DOMAIN u
      /\ \A m \in DOMAIN u : m # loc.node => u[m] = t[m]
      /\ \A m \in DOMAIN u :
           /\ u[m].stmt = t[m].stmt /\ u[m].covered = t[m].covered
           /\ u[m].value = t[m].value /\ u[m].vars = t[m].vars
           /\ Len(u[m].kids) = Len(t[m].kids) /\ DOMAIN u[m].kids = DOMAIN t[m].kids
      /\ \A i \in DOMAIN t[loc.node].kids :
           u[loc.node].kids[i] = IF i = loc.idx THEN "end" ELSE t[loc.node].kids[i]
  BY DEF IsCut
<1>2. \A n \in DOMAIN u : u[n].tried = t[n].tried
  BY <1>1, CutTried
<1>3. \A n \in DOMAIN u : \A i \in DOMAIN u[n].kids : Decision(t[n], i) = Decision(u[n], i)
  BY <1>1 DEF Decision
<1>4. \A n \in DOMAIN u :
        /\ Explored(t, X, n) <=> Explored(u, X, n)
        /\ \A i \in DOMAIN u[n].kids :
             Explored(t, X, Append(n, i)) <=> Explored(u, X, Append(n, i))
  BY <1>3, ExploredSame
<1>5. ASSUME NEW n \in DOMAIN u PROVE ExploredAt(u, X, n)
  <2>1. ExploredAt(t, X, n) /\ n \in DOMAIN t
    BY <1>1 DEF Searched
  <2>2. u[n].covered => Explored(u, X, n)
    BY <1>1, <1>4, <2>1 DEF ExploredAt
  <2>3. ASSUME NEW i \in DOMAIN u[n].kids, u[n].kids[i] = "end"
        PROVE  Explored(t, X, Append(n, i))
    <3>1. CASE n = loc.node /\ i = loc.idx
      BY <3>1 DEF Child
    <3>2. CASE ~(n = loc.node /\ i = loc.idx)
      BY <1>1, <2>1, <2>3, <3>2 DEF ExploredAt
    <3> QED BY <3>1, <3>2
  <2>4. \A i \in DOMAIN u[n].kids : u[n].kids[i] = "end" => Explored(u, X, Append(n, i))
    BY <1>4, <2>3
  <2>5. u[n].tried # {} => /\ u[n].stmt # 0 /\ Kind(u[n].stmt) = "exists"
                           /\ Explored(u, X, Append(n, 1))
    <3>1. t[n].stmt # 0 /\ Kind(t[n].stmt) = "exists" => 1 \in DOMAIN u[n].kids
      BY <1>1, NodeFacts DEF OneChild
    <3> QED BY <1>1, <1>2, <1>4, <2>1, <3>1 DEF ExploredAt
  <2> QED BY <2>2, <2>4, <2>5 DEF ExploredAt
<1>6. ASSUME NEW n \in DOMAIN u \ {Root} PROVE RecordOK(u[n])
  <2>1. RecordOK(t[n])
    BY <1>1 DEF Searched
  <2> QED BY <1>1, <2>1 DEF RecordOK, ForallOK
<1>7. Searched(u, X)
  BY <1>5, <1>6 DEF Searched
<1> QED BY <1>4, <1>7

\* Coverage goes back along the path as far as all has been explored.
LEMMA PathExplored ==
  ASSUME GivenInv, Undisturbed, Calm(script, config, faults), NEW m, EndsOnly(m), NEW p,
         Tree(p.tree), EndedPath(p.tree, p.stack), NEW X \in SUBSET Seq(Decisions),
         Searched(p.tree, X), NEW high \in 1..Len(p.stack), HighestCovered(p, high, m)
  PROVE  \A k \in high..(Len(p.stack) - 1) : Explored(p.tree, X, p.stack[k].node)
<1> DEFINE t == p.tree  s == p.stack  e == Len(p.stack) - 1
           Good(k) == Explored(t, X, s[k].node)
           Bad == {j \in 0..e : e - j \in high..e /\ ~Good(e - j)}
<1>1. /\ Len(s) \in Nat /\ Len(s) > 1 /\ e \in Nat
      /\ \A k \in 1..e : /\ s[k].node \in DOMAIN t /\ s[k].idx \in DOMAIN t[s[k].node].kids
                         /\ s[k].node \in Names /\ s[k].idx \in Nat
  BY EndedFacts
<1>2. \A n \in DOMAIN t : ExploredAt(t, X, n)
  BY DEF Searched
<1>3. ASSUME NEW k \in high..e, Explored(t, X, Child(s[k])) PROVE Good(k)
  <2> DEFINE n == s[k].node  i == s[k].idx
  <2>1. k \in 1..e
    BY <1>1
  <2>2. n \in DOMAIN t /\ Explored(t, X, Append(n, i))
    BY <1>1, <1>3, <2>1 DEF Child
  <2>3. Covers(t, n, {i}, m)
    BY <1>3 DEF HighestCovered
  <2> HIDE DEF n, i
  <2>4. \A x \in {i} \cap DOMAIN t[n].kids : Explored(t, X, Append(n, x))
    BY <2>2
  <2>5. \A x \in DOMAIN t \ {Root} : RecordOK(t[x])
    BY DEF Searched
  <2> HIDE DEF t
  <2>6. Tree(t)
    BY DEF t
  <2>7. Explored(t, X, n)
    BY <1>2, <2>2, <2>3, <2>4, <2>5, <2>6, CoversExplored
  <2> QED BY <2>7 DEF n
<1>4. Bad = {}
  <2> SUFFICES ASSUME Bad # {} PROVE FALSE
    OBVIOUS
  <2>1. PICK j \in Bad : \A i \in Bad : j <= i
    <3>1. Bad \in SUBSET Nat
      BY <1>1
    <3> HIDE DEF Bad
    <3> QED BY <3>1, Least
  <2> DEFINE k == e - j
  <2>2. j \in 0..e /\ k \in high..e /\ ~Good(k) /\ k \in 1..e
    BY <1>1
  <2>3. CASE j = 0
    <3>1. k = e
      BY <1>1, <2>3
    <3> DEFINE n == s[e].node  i == s[e].idx
    <3>2. n \in DOMAIN t /\ i \in DOMAIN t[n].kids /\ t[n].kids[i] = "end"
      <4>1. e \in 1..e
        BY <1>1
      <4> QED BY <1>1, <4>1 DEF EndedPath
    <3> HIDE DEF n, i, t
    <3>3. Explored(t, X, Append(n, i))
      BY <1>2, <3>2 DEF ExploredAt
    <3> HIDE DEF e, k
    <3>4. Explored(t, X, Child(s[k]))
      BY <3>1, <3>3 DEF Child, n, i
    <3> HIDE DEF Good
    <3> QED BY <1>3, <2>2, <3>4
  <2>4. CASE j # 0
    <3>1. j - 1 \in 0..e /\ ~(j <= j - 1) /\ e - (j - 1) = k + 1 /\ k + 1 \in high..e
          /\ k \in 1..(Len(s) - 2)
      BY <1>1, <2>2, <2>4
    <3>2. Good(k + 1)
      <4> HIDE DEF Good
      <4>1. j - 1 \notin Bad
        <5> HIDE DEF Bad
        <5> QED BY <2>1, <3>1
      <4> QED BY <3>1, <4>1
    <3>3. s[k + 1].node = Child(s[k])
      BY <3>1, EndedChain
    <3>4. Explored(t, X, Child(s[k]))
      BY <3>2, <3>3
    <3> HIDE DEF Good, e, k
    <3> QED BY <1>3, <2>2, <3>4
  <2> QED BY <2>3, <2>4
<1>5. ASSUME NEW k \in high..e PROVE Good(k)
  <2>1. e - k \in 0..e /\ e - (e - k) = k
    BY <1>1
  <2> HIDE DEF Good
  <2> QED BY <1>4, <2>1
<1> QED BY <1>5

-----------------------------------------------------------------------------
\* What is covered or deleted at the end of a run has been explored.
LEMMA CoverTreeSearched ==
  ASSUME GivenInv, Undisturbed, Calm(script, config, faults), NEW m, EndsOnly(m), NEW p,
         Tree(p.tree), EndedPath(p.tree, p.stack), EndedOpen(p),
         NEW X \in SUBSET Seq(Decisions), Searched(p.tree, X), NEW high \in 1..Len(p.stack),
         HighestCovered(p, high, m), Tree(CoverTree(p, high))
  PROVE  Searched(CoverTree(p, high), X)
<1> DEFINE t == p.tree  s == p.stack  u == CoverTree(p, high)
<1>1. \A k \in high..(Len(s) - 1) : Explored(t, X, s[k].node)
  BY PathExplored
<1>2. Len(s) \in Nat
  BY EndedFacts
<1>3. CASE high \in 2..(Len(s) - 1) /\ LocOK(t, s[high - 1]) /\ u = Cut(t, s[high - 1])
  <2> DEFINE loc == s[high - 1]
  <2>1. LocOK(t, loc) /\ u = Cut(t, loc)
    BY <1>3
  <2>2. Explored(t, X, Child(loc))
    <3>1. high - 1 \in 1..(Len(s) - 2) /\ (high - 1) + 1 = high /\ high \in high..(Len(s) - 1)
      BY <1>2, <1>3
    <3>2. s[high].node = Child(loc)
      BY <3>1, EndedChain
    <3> QED BY <1>1, <3>1, <3>2
  <2> HIDE DEF loc, u
  <2>3. IsCut(t, loc, u)
    BY <2>1, CutFacts
  <2>4. Tree(u)
    BY DEF u
  <2>5. Searched(u, X)
    BY <2>1, <2>2, <2>3, <2>4, CutExplored
  <2> QED BY <2>5 DEF u
<1>4. CASE u = [n \in DOMAIN t |-> [t[n] EXCEPT !.covered = @ \/ n \in PathNodes(s, high)]]
  <2>1. DOMAIN u = DOMAIN t
    BY <1>4
  <2>2. ASSUME NEW n \in DOMAIN t
        PROVE  /\ SameShape(u[n], t[n]) /\ u[n].tried = t[n].tried
               /\ u[n].covered => t[n].covered \/ n \in PathNodes(s, high)
    <3>1. t[n] \in Records
      BY TreeNames
    <3>2. u[n] = [t[n] EXCEPT !.covered = @ \/ n \in PathNodes(s, high)]
      BY <1>4
    <3> HIDE DEF u, t
    <3> QED BY <3>1, <3>2 DEF Records, SameShape
  <2> HIDE DEF u
  <2>3. \A n \in DOMAIN t :
          /\ Explored(u, X, n) <=> Explored(t, X, n)
          /\ \A i \in DOMAIN t[n].kids :
               Explored(u, X, Append(n, i)) <=> Explored(t, X, Append(n, i))
    BY <2>2, CoverageLeads
  <2>4. ASSUME NEW n \in DOMAIN t PROVE ExploredAt(u, X, n)
    <3>1. ExploredAt(t, X, n)
      BY DEF Searched
    <3>2. t[n].stmt # 0 /\ Kind(t[n].stmt) = "exists" => 1 \in DOMAIN t[n].kids
      BY NodeFacts DEF OneChild
    <3>3. n \in PathNodes(s, high) => Explored(t, X, n)
      BY <1>1 DEF PathNodes
    <3>4. SameShape(u[n], t[n]) /\ u[n].tried = t[n].tried
          /\ (u[n].covered => Explored(t, X, n))
      BY <2>2, <3>1, <3>3 DEF ExploredAt
    <3> HIDE DEF t
    <3> QED BY <2>3, <3>1, <3>2, <3>4 DEF ExploredAt, SameShape
  <2>5. ASSUME NEW n \in DOMAIN t \ {Root} PROVE RecordOK(u[n])
    <3>1. RecordOK(t[n])
      BY DEF Searched
    <3>2. ASSUME n \in PathNodes(s, high), Kind(t[n].stmt) = "forall"
          PROVE  Len(t[n].kids) = Cardinality(ScopeOf(t[n].stmt))
      <4>1. PICK k \in high..(Len(s) - 1) : n = s[k].node
        BY <3>2 DEF PathNodes
      <4>2. Covers(t, n, {s[k].idx}, m)
        BY <4>1 DEF HighestCovered
      <4>3. ~t[n].covered
        <5>1. k \in 1..(Len(s) - 1)
          BY <1>2, <4>1
        <5> QED BY <4>1, <5>1 DEF EndedOpen
      <4>4. FullSize(t, n)
        BY <4>2, <4>3, CoversWhen
      <4> QED BY <3>2, <4>4 DEF FullSize
    <3>3. SameShape(u[n], t[n]) /\ (u[n].covered => t[n].covered \/ n \in PathNodes(s, high))
      BY <2>2
    <3> HIDE DEF t
    <3> QED BY <3>1, <3>2, <3>3 DEF RecordOK, ForallOK, SameShape
  <2>6. Searched(u, X)
    BY <2>1, <2>4, <2>5 DEF Searched
  <2> QED BY <2>6 DEF u
<1>5. \/ high \in 2..(Len(s) - 1) /\ LocOK(t, s[high - 1]) /\ u = Cut(t, s[high - 1])
      \/ u = [n \in DOMAIN t |-> [t[n] EXCEPT !.covered = @ \/ n \in PathNodes(s, high)]]
  BY CoverCases
<1> QED BY <1>3, <1>4, <1>5

\* The end node goes where the run stopped, or one node further down the stack.
LEMMA EndSearched ==
  ASSUME TreeInv, SearchInv, Undisturbed, EndBacktrack
  PROVE  Searched(CompletePath.tree, executed)
<1> DEFINE p == CompletePath
<1>1. /\ GivenInv /\ Tree(tree) /\ CoverInv /\ Searched(tree, executed)
      /\ Explored(tree, executed, Child(stack[index]))
  BY SearchNow DEF EndBacktrack, Ending
<1>2. /\ Path(tree, stack) /\ index \in 1..Len(stack) /\ p = AddEndToPath(tree, stack, index)
      /\ Tree(p.tree) /\ Len(p.stack) <= index + 2
      /\ \E m \in index..Len(stack) : EndsAt(tree, stack, m, p)
  BY <1>1, EndCalm
<1>3. PICK m \in index..Len(stack) : EndsAt(tree, stack, m, p)
  BY <1>2
<1>4. /\ Len(stack) \in Nat /\ stack \in Seq(ChildLocs) /\ m \in 1..Len(stack)
      /\ m = index \/ (m = index + 1 /\ index \in 1..(Len(stack) - 1))
  <2>1. Len(stack) \in Nat /\ stack \in Seq(ChildLocs)
    BY <1>2, PathFacts DEF Path
  <2>2. Len(p.stack) = m + 1
    BY <1>3 DEF EndsAt
  <2> QED BY <1>2, <1>3, <2>1, <2>2
<1> DEFINE loc == stack[m]
<1>5. Explored(tree, executed, Child(loc)) /\ LocOK(tree, loc)
  <2>1. LocOK(tree, loc) /\ loc.node \in Names /\ loc.idx \in Nat
    BY <1>1, <1>2, <1>4, PathFacts DEF LocOK
  <2>2. CASE m = index
    BY <1>1, <2>1, <2>2
  <2>3. CASE m = index + 1 /\ index \in 1..(Len(stack) - 1)
    <3>1. loc.node = Child(stack[index])
      BY <1>1, <1>2, <2>3, PathFacts
    <3>2. Explored(tree, executed, loc.node)
      BY <1>1, <3>1
    <3> HIDE DEF loc
    <3> QED BY <1>1, <2>1, <3>2, ExploredDown DEF Child
  <2> QED BY <1>4, <2>2, <2>3
<1>6. p.tree = Cut(tree, loc)
  <2> DEFINE s1 == IF index < Len(stack) THEN SubSeq(stack, 1, index + 1) ELSE stack
  <2>1. p.tree = Cut(tree, Last(s1)) /\ p.stack = Append(s1, EndLoc)
    BY <1>2 DEF AddEndToPath, Cut
  <2>2. s1 \in Seq(ChildLocs) /\ Len(s1) \in Nat /\ Len(s1) <= Len(stack)
        /\ \A k \in 1..Len(s1) : s1[k] = stack[k]
    BY <1>2, <1>4, Prefix, LenProperties
  <2> HIDE DEF s1
  <2>3. Len(p.stack) = Len(s1) + 1
    BY <2>1, <2>2, EndLocType, AppendProperties
  <2>4. Len(s1) = m
    BY <1>3, <1>4, <2>2, <2>3 DEF EndsAt
  <2>5. Last(s1) = loc
    BY <1>4, <2>2, <2>4 DEF Last
  <2> QED BY <2>1, <2>5
<1>7. IsCut(tree, loc, p.tree)
  BY <1>3 DEF EndsAt
<1> HIDE DEF loc, p
<1>8. Searched(p.tree, executed)
  BY <1>1, <1>2, <1>5, <1>6, <1>7, CutExplored
<1> QED BY <1>8 DEF p

\* EndBacktrack keeps SearchInv.
LEMMA SearchEndBacktrack ==
  ASSUME TreeInv, SearchInv, Undisturbed, EndBacktrack
  PROVE  SearchInv'
<1> DEFINE p == CompletePath  m == marked \cup MarkBranch
<1>1. /\ pc' = "explore" /\ UNCHANGED <<given, trail, executed>>
      /\ \E high \in 1..Len(p.stack) : /\ HighestCovered(p, high, m)
                                       /\ tree' = CoverTree(p, high)
  BY DEF EndBacktrack
<1>2. /\ GivenInv /\ CoverInv /\ Calm(script, config, faults)
      /\ trail \in Seq(Decisions) /\ executed \in SUBSET Seq(Decisions)
  BY SearchNow
<1>3. /\ Tree(p.tree) /\ EndedPath(p.tree, p.stack) /\ EndedOpen(p) /\ EndsOnly(m)
  BY <1>2, EndCalm
<1>4. Searched(p.tree, executed)
  BY EndSearched
<1> HIDE DEF p, m
<1>5. PICK high \in 1..Len(p.stack) : HighestCovered(p, high, m) /\ tree' = CoverTree(p, high)
  BY <1>1
<1>6. Tree(CoverTree(p, high))
  BY <1>2, <1>3, <1>5, DoBacktrackFacts
<1>7. Searched(tree', executed)
  BY <1>2, <1>3, <1>4, <1>5, <1>6, CoverTreeSearched
<1>8. CoverInv'
  BY <1>2, CoverEndBacktrack
<1> QED BY <1>1, <1>2, <1>7, <1>8, StaysSearched

-----------------------------------------------------------------------------
\* SearchInv holds at first, ...
LEMMA SearchStart ==
  ASSUME Exhaustible, Init
  PROVE  SearchInv
<1> SUFFICES ASSUME Undisturbed PROVE SearchInv
  BY DEF SearchInv
<1>1. PICK search \in Searches :
        script = search.script /\ config = search.config /\ faults = search.faults
  BY DEF Init
<1>2. Calm(script, config, faults)
  BY <1>1 DEF Exhaustible, Undisturbed, Calm
<1>3. CoverInv
  BY <1>2, CoverStart
<1>4. /\ DOMAIN tree = {Root} /\ tree[Root] = RootNode /\ index = 1 /\ trail = <<>>
      /\ executed = {} /\ pc = "script" /\ stack = <<RootLoc>>
  BY DEF Init
<1>5. NodesInv
  BY <1>4 DEF NodesInv
<1>6. ExploredInv
  <2>1. /\ ~RootNode.covered /\ RootNode.tried = {}
        /\ \A i \in DOMAIN RootNode.kids : RootNode.kids[i] = "null"
    BY DEF RootNode
  <2> QED BY <1>4, <2>1 DEF ExploredInv, ExploredAt
<1>7. RunInv
  <2>1. stack[index] = RootLoc
    BY <1>4
  <2>2. trail \in Seq(Decisions) /\ Len(trail) = 0
    BY <1>4
  <2>3. LeadsTo(tree, trail, Child(stack[index]))
    BY <2>1, <2>2, FirstLeads
  <2> QED BY <1>4, <2>2, <2>3 DEF RunInv
<1> QED BY <1>3, <1>5, <1>6, <1>7 DEF SearchInv

\* ... and every step keeps it.
LEMMA SearchStep ==
  ASSUME Exhaustible, TreeInv, SearchInv, [Next]_vars
  PROVE  SearchInv'
<1>1. Undisturbed' <=> Undisturbed
  <2>1. CASE UNCHANGED vars
    BY <2>1 DEF vars, given, Undisturbed
  <2>2. CASE Step
    <3>1. UNCHANGED given
      BY <2>2 DEF Step, ChoiceCovered, DSLChoice, DSLConditional, ReplayFails, Submit,
         DSLTransition, ForallSelect, ForallRefuse, ExistsSelect, Timeout, ThreadsAllEnded,
         EndTest, AssumeFails, ScriptEnd, EndExists, EndBacktrack, RootCovered, Restart,
         Consume, Backtrack
    <3> QED BY <3>1 DEF given, Undisturbed
  <2> QED BY <2>1, <2>2 DEF Next
<1> SUFFICES ASSUME Undisturbed PROVE SearchInv'
  BY <1>1 DEF SearchInv
<1>2. CASE UNCHANGED vars
  BY <1>2, SearchStutter
<1>3. CASE Step
  <2>1. CASE ChoiceCovered \/ DSLChoice \/ DSLConditional \/ Submit \/ DSLTransition
    BY <2>1, SearchChoiceCovered, SearchChoice, SearchConditional, SearchSubmit, SearchSingle
  <2>2. CASE \E t \in Threads : ForallSelect(t) \/ ForallRefuse(t) \/ ExistsSelect(t)
    BY <2>2, SearchForallSelect, SearchForallRefuse, SearchSingle
  <2>3. CASE Timeout \/ ScriptEnd
    BY <2>3, SearchTimeout, SearchScriptEnd
  <2>4. CASE EndExists \/ EndBacktrack \/ RootCovered \/ Restart
    BY <2>4, SearchEndExists, SearchEndBacktrack, SearchRootCovered, SearchRestart
  <2>5. CASE ReplayFails \/ AssumeFails \/ ThreadsAllEnded \/ EndTest
    BY <2>5, NeverThrows
  <2> QED BY <1>3, <2>1, <2>2, <2>3, <2>4, <2>5 DEF Step
<1> QED BY <1>2, <1>3 DEF Next

\* In exhaustible searches the search is exhaustive: when Explore finds the root covered, every
\* run of the script has been executed, but for those that MarkEndingBranchesCovered leaves out.
THEOREM SearchCompleteCorrect ==
  ASSUME Exhaustible
  PROVE  Spec => []SearchComplete
<1>1. Init => TreeInv /\ SearchInv
  BY TreeStart, SearchStart
<1>2. TreeInv /\ SearchInv /\ [Next]_vars => (TreeInv /\ SearchInv)'
  BY TreeStep, SearchStep
<1>3. TreeInv /\ SearchInv => SearchComplete
  <2> SUFFICES ASSUME TreeInv, SearchInv, Undisturbed, pc = "terminated",
                      NEW p \in Trails[1] \ executed
               PROVE  /\ config.mark
                      /\ p # <<>> /\ Last(p) \in {"no", "yes"}
                      /\ \E q \in executed : Below(SubSeq(p, 1, Len(p) - 1), q)
    BY DEF SearchComplete
  <2>1. GivenInv /\ Tree(tree) /\ tree[Root].covered /\ ExploredInv
    BY DEF TreeInv, SearchInv, RunInv
  <2>2. Explored(tree, executed, Root)
    BY <2>1 DEF ExploredInv, ExploredAt, Tree
  <2>3. LeadsTo(tree, p, Root)
    BY <2>1, RunFacts, LeadsRoot
  <2> QED BY <2>2, <2>3 DEF Explored, Done
<1> QED BY <1>1, <1>2, <1>3, PTL DEF Spec

\* In exhaustible searches a forall is covered only when every thread of its scope has been
\* selected.
THEOREM ForallTriedCorrect ==
  ASSUME Exhaustible
  PROVE  Spec => []ForallTried
<1>1. Init => TreeInv /\ SearchInv
  BY TreeStart, SearchStart
<1>2. TreeInv /\ SearchInv /\ [Next]_vars => (TreeInv /\ SearchInv)'
  BY TreeStep, SearchStep
<1>3. TreeInv /\ SearchInv => ForallTried
  <2> SUFFICES ASSUME TreeInv, SearchInv, Undisturbed, NEW n \in DOMAIN tree \ {Root},
                      Kind(tree[n].stmt) = "forall", tree[n].covered,
                      NEW t \in ScopeOf(tree[n].stmt)
               PROVE  \E i \in DOMAIN tree[n].vars : tree[n].vars[i] = t
    BY DEF ForallTried
  <2> DEFINE r == tree[n]  S == ScopeOf(r.stmt)
  <2>1. GivenInv /\ Tree(tree) /\ ForallOK(r)
    BY DEF TreeInv, SearchInv, NodesInv, RecordOK
  <2>2. r \in Records /\ r.stmt \in Locs /\ r.stmt # 0 /\ Len(r.kids) = Width(r)
    BY <2>1, NodeFacts DEF Tree, NodeOK
  <2>3. Len(r.vars) = Cardinality(S)
    BY <2>1, <2>2 DEF ForallOK, Width
  <2>4. IsFiniteSet(S)
    BY <2>1, <2>2, ScopeFits
  <2>5. r.vars \in Seq(Threads)
    BY <2>2 DEF Records
  <2>6. t \in S /\ (\A i \in DOMAIN r.vars : r.vars[i] \in S)
        /\ (\A i, j \in DOMAIN r.vars : r.vars[i] = r.vars[j] => i = j)
    BY <2>1 DEF ForallOK
  <2> HIDE DEF r, S
  <2>7. \A x \in S : \E i \in DOMAIN r.vars : r.vars[i] = x
    BY <2>3, <2>4, <2>5, <2>6, VarsCount
  <2> QED BY <2>6, <2>7 DEF r
<1> QED BY <1>1, <1>2, <1>3, PTL DEF Spec

-----------------------------------------------------------------------------
\* Nothing is explored twice.

\* A run that comes to a place has come by the places above it.
LEMMA LeadsBelow ==
  ASSUME NEW t, NEW p, NEW a \in Names, NEW b \in Names, Below(a, b), LeadsTo(t, p, b)
  PROVE  LeadsTo(t, p, a)
<1>1. /\ Len(a) \in Nat /\ Len(b) \in Nat /\ Len(a) <= Len(b)
      /\ \A x \in 1..Len(a) : b[x] = a[x]
  BY BelowEqual, LenProperties DEF Names
<1>2. ASSUME NEW j \in 1..(Len(a) - 1)
      PROVE  p[j] = Decision(t[SubSeq(a, 1, j)], a[j + 1])
  <2>1. j \in 1..(Len(b) - 1) /\ j \in 0..Len(a) /\ j \in 0..Len(b) /\ j + 1 \in 1..Len(a)
        /\ \A x \in 1..j : x \in 1..Len(a)
    BY <1>1
  <2> DEFINE c == SubSeq(a, 1, j)  d == SubSeq(b, 1, j)
  <2>2. c \in Seq(Nat) /\ Len(c) = j /\ \A x \in 1..j : c[x] = a[x]
    BY <2>1, Prefix DEF Names
  <2>3. d \in Seq(Nat) /\ Len(d) = j /\ \A x \in 1..j : d[x] = b[x]
    BY <2>1, Prefix DEF Names
  <2> HIDE DEF c, d
  <2>4. c = d
    BY <1>1, <2>1, <2>2, <2>3, SeqEqual
  <2>5. p[j] = Decision(t[d], b[j + 1])
    BY <2>1 DEF LeadsTo, d
  <2> QED BY <1>1, <2>1, <2>4, <2>5 DEF c
<1>3. Len(b) <= Len(p) + 1
  BY DEF LeadsTo
<1>4. Len(a) <= Len(p) + 1
  <2>1. CASE Len(a) = Len(b)
    BY <1>3, <2>1
  <2>2. CASE Len(a) # Len(b)
    BY <1>1, <1>3, <2>2
  <2> QED BY <2>1, <2>2
<1> QED BY <1>2, <1>4 DEF LeadsTo

\* Two branches of a node stand for two decisions.
LEMMA DecisionInjective ==
  ASSUME GivenInv, NEW t, Tree(t), NEW n \in DOMAIN t, n # Root => RecordOK(t[n]),
         NEW i \in DOMAIN t[n].kids, NEW j \in DOMAIN t[n].kids,
         n # Root => Decision(t[n], i) = Decision(t[n], j)
  PROVE  i = j
<1>1. CASE OneChild(t[n])
  <2>1. DOMAIN t[n].kids = 1..1
    BY <1>1, NodeFacts
  <2> QED BY <2>1
<1>2. CASE ~OneChild(t[n])
  <2>1. n # Root /\ t[n].stmt # 0 /\ Kind(t[n].stmt) \in {"choice", "forall"}
    BY <1>2, NodeFacts DEF OneChild
  <2>2. CASE Kind(t[n].stmt) = "choice"
    <3>1. i \in {1, 2} /\ j \in {1, 2}
      BY <2>1, <2>2, NodeFacts
    <3>2. Answer[i] = Answer[j]
      BY <2>1, <2>2 DEF Decision
    <3> QED BY <3>1, <3>2 DEF Answer
  <2>3. CASE Kind(t[n].stmt) = "forall"
    <3>1. t[n] \in Records /\ Len(t[n].kids) = Len(t[n].vars)
      BY <2>1, <2>3 DEF Tree, NodeOK, Width
    <3>2. DOMAIN t[n].kids = DOMAIN t[n].vars
      BY <3>1, KidFacts, LenProperties DEF Records
    <3>3. t[n].vars[i] = t[n].vars[j]
      BY <2>1, <2>3 DEF Decision
    <3> QED BY <2>1, <2>3, <3>2, <3>3 DEF RecordOK, ForallOK
  <2> QED BY <2>1, <2>2, <2>3
<1> QED BY <1>1, <1>2

\* The run has come by every branch of the stack it has followed.
LEMMA StackLeads ==
  ASSUME TreeInv, SearchInv, Undisturbed, pc \in {"script", "end"}, NEW k \in 1..index
  PROVE  /\ k \in 1..Len(stack) /\ LeadsTo(tree, trail, Child(stack[k]))
         /\ stack[k].node \in DOMAIN tree /\ stack[k].idx \in DOMAIN tree[stack[k].node].kids
         /\ stack[k].node \in Names /\ stack[k].idx \in Nat /\ Len(stack[k].node) = k - 1
<1>1. /\ Tree(tree) /\ Path(tree, stack) /\ index \in 1..Len(stack)
      /\ Len(trail) \in Nat /\ LeadsTo(tree, trail, Child(stack[index]))
  BY SearchNow
<1>2. /\ Len(stack) \in Nat
      /\ \A j \in 1..Len(stack) :
           /\ stack[j].node \in DOMAIN tree /\ stack[j].idx \in DOMAIN tree[stack[j].node].kids
           /\ stack[j].node \in Names /\ stack[j].idx \in Nat /\ Len(stack[j].node) = j - 1
      /\ \A j \in 1..(Len(stack) - 1) : stack[j + 1].node = Child(stack[j])
  BY <1>1, PathFacts
<1>3. k \in 1..Len(stack)
  BY <1>1, <1>2
<1>4. LeadsTo(tree, trail, Child(stack[k]))
  <2>1. CASE k = index
    BY <1>1, <2>1
  <2>2. CASE k # index
    <3>1. k \in 1..(Len(stack) - 1) /\ k + 1 \in 1..index /\ k + 1 \in 1..Len(stack)
      BY <1>1, <1>2, <2>2
    <3> DEFINE a == stack[k + 1].node  b == stack[index].node  i == stack[index].idx
    <3>2. Below(a, b) /\ a \in Names /\ b \in Names /\ i \in Nat /\ a = Child(stack[k])
      BY <1>1, <1>2, <3>1 DEF Path
    <3>3. LeadsTo(tree, trail, Append(b, i))
      BY <1>1 DEF Child
    <3> HIDE DEF a, b, i
    <3>4. LeadsTo(tree, trail, b)
      BY <1>1, <3>2, <3>3, LeadsStep
    <3> QED BY <3>2, <3>4, LeadsBelow
  <2> QED BY <2>1, <2>2
<1> QED BY <1>2, <1>3, <1>4

-----------------------------------------------------------------------------
\* Where every run has decisions of its own, no statement is an exists ...
LEMMA NoExists ==
  ASSUME RunsDiffer, GivenInv, Undisturbed, NEW l \in Locs
  PROVE  Kind(l) # "exists"
<1>1. PICK search \in Searches :
        script = search.script /\ config = search.config /\ faults = search.faults
  BY DEF GivenInv
<1> QED BY <1>1 DEF RunsDiffer, Undisturbed, Locs, Kind

\* ... and a run follows branches that are open.
LEMMA OpenBranch ==
  ASSUME RunsDiffer, TreeInv, SearchInv, Undisturbed, Running, NEW k \in 1..Len(stack)
  PROVE  ~EndOrCovered(tree, stack[k].node, stack[k].idx)
<1>1. GivenInv /\ CoverInv
  BY SearchNow
<1>2. /\ Calm(script, config, faults) /\ EndsOnly(marked) /\ Tree(tree) /\ Path(tree, stack)
      /\ Uncovered(tree, stack) /\ LastOpen(tree, stack, marked)
  BY <1>1, CoverNow
<1> DEFINE n == stack[k].node
<1>3. n \in DOMAIN tree
  BY <1>2, PathFacts
<1>4. tree[n].stmt # 0 => Kind(tree[n].stmt) # "exists"
  <2> HIDE DEF n
  <2>1. n # Root => tree[n].stmt \in Locs
    BY <1>1, <1>2, <1>3, NodeFacts
  <2>2. tree[Root].stmt = 0
    BY <1>1, <1>2, <1>3, NodeFacts
  <2> QED BY <1>1, <2>1, <2>2, NoExists
<1>5. ~ChildCovered(tree, n, stack[k].idx, marked)
  BY <1>1, <1>2, <1>4, OpenBranches
<1> QED BY <1>5 DEF ChildCovered

\* What is closed in the next state.
LEMMA StaysRepeat ==
  ASSUME UNCHANGED given,
         \A q \in executed' :
           Closed(tree', q) \/ (pc' = "end" /\ reason' = "SUCCESS" /\ q = trail')
  PROVE  RepeatInv'
<1>1. /\ UNCHANGED <<script, config, faults>> /\ (Undisturbed' <=> Undisturbed)
      /\ \A l : Kind(l)' = Kind(l)
  BY DEF given, Kind, Undisturbed
<1>2. \A r, i : Decision(r, i)' = Decision(r, i)
  BY <1>1 DEF Decision
<1>3. \A p, m : LeadsTo(tree', p, m) => LeadsTo(tree, p, m)'
  BY <1>2 DEF LeadsTo
<1>4. \A q : Closed(tree', q) => Closed(tree, q)'
  BY <1>3 DEF Closed, EndOrCovered
<1> QED BY <1>4 DEF RepeatInv

\* Nothing opens when more is covered, ...
LEMMA CoverageCloses ==
  ASSUME GivenInv, NEW t, Tree(t), NEW u, DOMAIN u = DOMAIN t,
         \A n \in DOMAIN t : SameShape(u[n], t[n]) /\ (t[n].covered => u[n].covered),
         NEW q, Len(q) \in Nat, Closed(t, q)
  PROVE  Closed(u, q)
<1>1. CASE t[Root].covered
  BY <1>1 DEF Closed, Tree
<1>2. CASE \E n \in DOMAIN t : \E i \in DOMAIN t[n].kids :
             EndOrCovered(t, n, i) /\ LeadsTo(t, q, Append(n, i))
  <2>1. PICK n \in DOMAIN t : \E i \in DOMAIN t[n].kids :
               EndOrCovered(t, n, i) /\ LeadsTo(t, q, Append(n, i))
    BY <1>2
  <2>2. PICK i \in DOMAIN t[n].kids : EndOrCovered(t, n, i) /\ LeadsTo(t, q, Append(n, i))
    BY <2>1
  <2>3. u[n].kids = t[n].kids
    BY DEF SameShape
  <2>4. t[n].kids[i] = "node" => Append(n, i) \in DOMAIN t
    BY DEF Tree, LinksOK
  <2>5. EndOrCovered(u, n, i)
    BY <2>2, <2>3, <2>4 DEF EndOrCovered
  <2>6. LeadsTo(u, q, Append(n, i))
    BY <2>2, CoverageLeads
  <2> QED BY <2>3, <2>5, <2>6 DEF Closed
<1> QED BY <1>1, <1>2 DEF Closed

\* ... when a run goes on by an open branch, ...
LEMMA GrownCloses ==
  ASSUME GivenInv, NEW t, Tree(t), NEW loc, LocOK(t, loc), NEW c, c = Child(loc),
         NEW r, Extends(t, c, r), KeepsRuns(t, c, r), NEW u, Grown(t, loc, r, u),
         ~EndOrCovered(t, loc.node, loc.idx), NEW q, Len(q) \in Nat, Closed(t, q)
  PROVE  Closed(u, q)
<1>1. ~r.covered /\ (Child(loc) \in DOMAIN t => ~t[Child(loc)].covered)
  BY DEF KeepsRuns
<1>2. /\ \A n \in DOMAIN t : n \in DOMAIN u /\ u[n].covered = t[n].covered
      /\ \A n \in DOMAIN t : \A k \in 1..Len(t[n].kids) :
           ~(n = loc.node /\ k = loc.idx) => (EndOrCovered(u, n, k) <=> EndOrCovered(t, n, k))
  BY <1>1, GrownCoverage
<1>3. \A n \in DOMAIN t : \A i \in DOMAIN t[n].kids : Decision(u[n], i) = Decision(t[n], i)
  BY GrownDecisions
<1>4. \A n \in DOMAIN t : \A i \in DOMAIN t[n].kids :
        LeadsTo(u, q, Append(n, i)) <=> LeadsTo(t, q, Append(n, i))
  BY <1>3, SameLeads
<1>5. CASE t[Root].covered
  BY <1>2, <1>5 DEF Closed, Tree
<1>6. CASE \E n \in DOMAIN t : \E i \in DOMAIN t[n].kids :
             EndOrCovered(t, n, i) /\ LeadsTo(t, q, Append(n, i))
  <2>1. PICK n \in DOMAIN t : \E i \in DOMAIN t[n].kids :
               EndOrCovered(t, n, i) /\ LeadsTo(t, q, Append(n, i))
    BY <1>6
  <2>2. PICK i \in DOMAIN t[n].kids : EndOrCovered(t, n, i) /\ LeadsTo(t, q, Append(n, i))
    BY <2>1
  <2>3. i \in 1..Len(t[n].kids) /\ Len(t[n].kids) \in Nat
    BY TreeNames, KidFacts
  <2>4. EndOrCovered(u, n, i)
    BY <1>2, <2>2, <2>3
  <2>5. i \in DOMAIN u[n].kids
    <3>1. CASE n = c
      <4>1. u[n] = r /\ r \in Records /\ Len(t[n].kids) <= Len(r.kids)
        BY <3>1 DEF Grown, Extends
      <4>2. DOMAIN r.kids = 1..Len(r.kids) /\ Len(r.kids) \in Nat
        BY <4>1, KidFacts
      <4> QED BY <2>3, <4>1, <4>2
    <3>2. CASE n # c /\ n = loc.node
      <4>1. u[n] \in Records /\ Len(u[n].kids) = Len(t[n].kids)
        BY <3>2 DEF Grown
      <4>2. DOMAIN u[n].kids = 1..Len(u[n].kids)
        BY <4>1, KidFacts
      <4> QED BY <2>3, <4>1, <4>2
    <3>3. CASE n # c /\ n # loc.node
      BY <3>3 DEF Grown
    <3> QED BY <3>1, <3>2, <3>3
  <2> QED BY <1>2, <1>4, <2>2, <2>4, <2>5 DEF Closed
<1> QED BY <1>5, <1>6 DEF Closed

\* ... or when the end node takes the place of what hangs at loc; that closes loc.
LEMMA CutCloses ==
  ASSUME GivenInv, NEW t, Tree(t), NEW loc, LocOK(t, loc), NEW u, Tree(u), IsCut(t, loc, u),
         NEW q, Len(q) \in Nat, Closed(t, q) \/ LeadsTo(t, q, Child(loc))
  PROVE  Closed(u, q)
<1>1. /\ \A n \in DOMAIN t : n \in DOMAIN u \/ Below(Child(loc), n)
      /\ \A n \in DOMAIN u : n \in DOMAIN t /\ DOMAIN u[n].kids = DOMAIN t[n].kids
                             /\ u[n].covered = t[n].covered
      /\ loc.node \in DOMAIN u
      /\ \A i \in DOMAIN t[loc.node].kids :
           u[loc.node].kids[i] = IF i = loc.idx THEN "end" ELSE t[loc.node].kids[i]
  BY DEF IsCut
<1>2. \A n \in DOMAIN u : \A i \in DOMAIN u[n].kids : Decision(t[n], i) = Decision(u[n], i)
  BY DEF IsCut, Decision
<1>3. \A n \in DOMAIN u : \A i \in DOMAIN u[n].kids :
        LeadsTo(t, q, Append(n, i)) <=> LeadsTo(u, q, Append(n, i))
  BY <1>2, SameLeads
<1>4. /\ loc.node \in DOMAIN t /\ loc.idx \in DOMAIN t[loc.node].kids
      /\ loc.node \in Names /\ loc.idx \in Nat /\ Child(loc) = Append(loc.node, loc.idx)
  <2>1. loc.node \in DOMAIN t /\ loc.idx \in DOMAIN t[loc.node].kids
    BY DEF LocOK
  <2> QED BY <2>1, TreeNames DEF Child
<1>5. ASSUME LeadsTo(t, q, Child(loc)) PROVE Closed(u, q)
  <2>1. u[loc.node].kids[loc.idx] = "end"
    BY <1>1, <1>4
  <2>2. LeadsTo(u, q, Append(loc.node, loc.idx)) /\ loc.idx \in DOMAIN u[loc.node].kids
    BY <1>1, <1>3, <1>4, <1>5
  <2> QED BY <1>1, <2>1, <2>2 DEF Closed, EndOrCovered
<1>6. CASE t[Root].covered
  BY <1>1, <1>6 DEF Closed, Tree
<1>7. ASSUME NEW n \in DOMAIN t, NEW i \in DOMAIN t[n].kids,
             EndOrCovered(t, n, i), LeadsTo(t, q, Append(n, i))
      PROVE  Closed(u, q)
  <2>1. CASE n = loc.node /\ i = loc.idx
    BY <1>4, <1>5, <1>7, <2>1
  <2>2. CASE n \in DOMAIN u /\ ~(n = loc.node /\ i = loc.idx)
    <3>1. i \in DOMAIN u[n].kids /\ EndOrCovered(u, n, i)
      BY <1>1, <1>7, <2>2, CutCoverage
    <3> QED BY <1>3, <1>7, <2>2, <3>1 DEF Closed
  <2>3. CASE Below(Child(loc), n)
    <3>1. n \in Names /\ i \in Nat
      BY TreeNames
    <3>2. LeadsTo(t, q, n)
      BY <1>7, <3>1, LeadsStep
    <3>3. Child(loc) \in Names
      BY <1>4, ChildName
    <3> QED BY <1>5, <2>3, <3>1, <3>2, <3>3, LeadsBelow
  <2> QED BY <1>1, <2>1, <2>2, <2>3
<1> QED BY <1>5, <1>6, <1>7 DEF Closed

-----------------------------------------------------------------------------
\* What has been executed is closed, but for the run that has just ended.
LEMMA RepeatNow ==
  ASSUME TreeInv, SearchInv, RepeatInv, Undisturbed, NEW q \in executed
  PROVE  /\ Len(q) \in Nat
         /\ Closed(tree, q) \/ (pc = "end" /\ reason = "SUCCESS" /\ q = trail)
         /\ pc # "end" => Closed(tree, q)
<1>1. q \in Seq(Decisions)
  BY SearchNow
<1>2. Len(q) \in Nat
  BY <1>1, LenProperties
<1> QED BY <1>2 DEF RepeatInv

\* A consumption keeps RepeatInv: it goes on by an open branch.
LEMMA RepeatConsume ==
  ASSUME RunsDiffer, TreeInv, SearchInv, RepeatInv, Undisturbed, Running, at \in Locs,
         NEW r, Extends(tree, Here, r), KeepsRuns(tree, Here, r),
         NEW i, NEW label, NEW l, Consume(r, i, label, l)
  PROVE  RepeatInv'
<1> DEFINE loc == stack[index]
<1>1. /\ GivenInv /\ Tree(tree) /\ LocOK(tree, loc) /\ index \in 1..Len(stack) /\ pc = "script"
      /\ Path(tree, stack)
  BY SearchNow DEF Running
<1>2. Follows(tree, stack, index, at)
  BY FollowsNow
<1>3. Here = Child(loc) /\ Here \in Names /\ Here # Root
  BY <1>1, <1>2, HereFacts DEF Follows
<1>4. /\ tree' = Set([n \in DOMAIN tree \cup {Here} |-> IF n = Here THEN r ELSE tree[n]],
                     loc, "node")
      /\ UNCHANGED <<given, executed, pc>>
  BY DEF Consume, GetLastNodeInStack
<1>5. Grown(tree, loc, r, tree')
  BY <1>1, <1>3, <1>4, ConsumeGrows
<1>6. ~EndOrCovered(tree, loc.node, loc.idx)
  BY <1>1, OpenBranch
<1> HIDE DEF loc
<1>7. ASSUME NEW q \in executed PROVE Closed(tree', q)
  <2>1. Closed(tree, q) /\ Len(q) \in Nat
    BY <1>1, RepeatNow
  <2> QED BY <1>1, <1>3, <1>5, <1>6, <2>1, GrownCloses
<1> QED BY <1>4, <1>7, StaysRepeat

\* The choices, conditions, transitions and selections of a run keep RepeatInv.
LEMMA RepeatStatement ==
  ASSUME RunsDiffer, Exhaustible, TreeInv, SearchInv, RepeatInv, Undisturbed,
         DSLChoice \/ DSLConditional \/ DSLTransition \/ \E t \in Threads : ForallSelect(t)
  PROVE  RepeatInv'
<1>0. GivenInv /\ CoverInv
  BY SearchNow
<1>1. ASSUME DSLChoice PROVE RepeatInv'
  <2> DEFINE r == HereNode(FALSE)
  <2>1. Running /\ at \in Locs /\ Kind(at) = "choice" /\ ~HereCovers
    BY <1>1 DEF DSLChoice, AtStatement
  <2>2. PICK i \in Branches : Consume(r, i, Answer[i], script[at].next[i])
    BY <1>1 DEF DSLChoice
  <2>3. Existing => ~tree[Here].covered
    BY <2>1 DEF HereCovers, Covers
  <2>4. KeepsRuns(tree, Here, r)
    BY <2>1, <2>3, HereKeeps
  <2>5. Extends(tree, Here, r)
    BY <1>0, <2>1, FollowsNow, HereExtends DEF Follows
  <2> HIDE DEF r
  <2> QED BY <2>1, <2>2, <2>4, <2>5, RepeatConsume
<1>2. ASSUME DSLConditional PROVE RepeatInv'
  <2>1. Running /\ at \in Locs /\ Kind(at) = "cond"
    BY <1>2 DEF DSLConditional, AtStatement
  <2>2. PICK v \in CondValues :
          Consume(HereNode(v), 1, Answer[CondIndex(v)], script[at].next[CondIndex(v)])
    BY <1>2 DEF DSLConditional
  <2>3. v = TRUE
    BY <2>2 DEF CondValues, Undisturbed
  <2> DEFINE r == HereNode(v)
  <2>4. KeepsRuns(tree, Here, r)
    BY <1>0, <2>1, <2>3, HereOpen, HereKeeps
  <2>5. Extends(tree, Here, r)
    BY <1>0, <2>1, <2>3, FollowsNow, HereExtends DEF Follows
  <2>6. Consume(r, 1, Answer[CondIndex(v)], script[at].next[CondIndex(v)])
    BY <2>2
  <2> HIDE DEF r
  <2> QED BY <2>1, <2>4, <2>5, <2>6, RepeatConsume
<1>3. ASSUME DSLTransition PROVE RepeatInv'
  <2> DEFINE r == HereNode(FALSE)
  <2>1. Running /\ at \in Locs /\ Kind(at) = "trans" /\ Consume(r, 1, "run", script[at].next[1])
    BY <1>3 DEF DSLTransition, AtStatement
  <2>2. KeepsRuns(tree, Here, r)
    BY <1>0, <2>1, HereOpen, HereKeeps
  <2>3. Extends(tree, Here, r)
    BY <1>0, <2>1, FollowsNow, HereExtends DEF Follows
  <2> HIDE DEF r
  <2> QED BY <2>1, <2>2, <2>3, RepeatConsume
<1>4. ASSUME NEW t \in Threads, ForallSelect(t) PROVE RepeatInv'
  <2> DEFINE r == HereNode(FALSE)  q == WithVar(r, t)  i == VarIndex(r, t)
  <2>1. Running /\ at \in Locs /\ Kind(at) = "forall" /\ t \in ScopeOf(at)
    BY <1>4 DEF ForallSelect, AtStatement, InScope
  <2>2. Extends(tree, Here, q)
    BY <2>1, VarExtends
  <2>3. KeepsRuns(tree, Here, q)
    BY <2>1, VarKeeps
  <2>4. Consume(q, i, t, script[at].next[1])
    BY <1>4 DEF ForallSelect
  <2> HIDE DEF r, q, i
  <2> QED BY <2>1, <2>2, <2>3, <2>4, RepeatConsume
<1> QED BY <1>1, <1>2, <1>3, <1>4

\* A child that is added when a thread is refused does not open what was closed.
LEMMA RepeatRefuse ==
  ASSUME RunsDiffer, Exhaustible, TreeInv, SearchInv, RepeatInv, Undisturbed,
         NEW t \in Threads, ForallRefuse(t)
  PROVE  RepeatInv'
<1> DEFINE r == WithVar(HereNode(FALSE), t)  loc == stack[index]
<1>1. /\ Running /\ at \in Locs /\ Kind(at) = "forall" /\ Extends(tree, Here, r)
      /\ LocOK(tree, loc) /\ Here = Child(loc) /\ Here \in DOMAIN tree
      /\ Grown(tree, loc, r, tree')
  BY RefuseGrows
<1>2. t \in ScopeOf(at) /\ UNCHANGED <<given, pc, executed>> /\ pc = "script"
  BY DEF ForallRefuse, InScope, AtStatement, Running
<1>3. KeepsRuns(tree, Here, r)
  BY <1>1, <1>2, VarKeeps
<1>4. GivenInv /\ Tree(tree) /\ index \in 1..Len(stack)
  BY <1>2, SearchNow
<1>5. ~EndOrCovered(tree, loc.node, loc.idx)
  BY <1>1, <1>4, OpenBranch
<1> HIDE DEF r, loc
<1>6. ASSUME NEW q \in executed PROVE Closed(tree', q)
  <2>1. Closed(tree, q) /\ Len(q) \in Nat
    BY <1>2, RepeatNow
  <2> QED BY <1>1, <1>3, <1>4, <1>5, <2>1, GrownCloses
<1> QED BY <1>2, <1>6, StaysRepeat

\* A choice that is found covered is closed.
LEMMA RepeatChoiceCovered ==
  ASSUME TreeInv, SearchInv, RepeatInv, Undisturbed, ChoiceCovered
  PROVE  RepeatInv'
<1>1. /\ pc = "script" /\ tree' = [tree EXCEPT ![Here].covered = TRUE]
      /\ UNCHANGED <<given, executed>>
  BY DEF ChoiceCovered, AtStatement, Running, Backtrack
<1>2. GivenInv /\ Tree(tree)
  BY SearchNow
<1>3. DOMAIN tree' = DOMAIN tree
  BY <1>1
<1>4. ASSUME NEW n \in DOMAIN tree
      PROVE  SameShape(tree'[n], tree[n]) /\ (tree[n].covered => tree'[n].covered)
  <2>1. tree[n] \in Records
    BY <1>2, TreeNames
  <2>2. tree'[n] = IF n = Here THEN [tree[n] EXCEPT !.covered = TRUE] ELSE tree[n]
    BY <1>1
  <2> QED BY <2>1, <2>2 DEF Records, SameShape
<1>5. ASSUME NEW q \in executed PROVE Closed(tree', q)
  <2>1. Closed(tree, q) /\ Len(q) \in Nat
    BY <1>1, RepeatNow
  <2> QED BY <1>2, <1>3, <1>4, <2>1, CoverageCloses
<1> QED BY <1>1, <1>5, StaysRepeat

\* The tree stays as it is until the run has ended, and until the next one starts.
LEMMA RepeatSame ==
  ASSUME TreeInv, SearchInv, RepeatInv, Undisturbed,
         Submit \/ Timeout \/ ScriptEnd \/ RootCovered \/ Restart \/ UNCHANGED vars
  PROVE  RepeatInv'
<1>1. CASE UNCHANGED vars
  <2>1. UNCHANGED <<given, tree, pc, reason, trail, executed>>
    BY <1>1 DEF vars
  <2> QED BY <2>1, RepeatNow, StaysRepeat
<1>2. CASE ScriptEnd
  <2>1. /\ pc = "script" /\ pc' = "end" /\ reason' = "SUCCESS" /\ UNCHANGED <<given, tree, trail>>
        /\ executed' = executed \cup {trail}
    BY <1>2 DEF ScriptEnd, Running, Undisturbed
  <2> QED BY <2>1, RepeatNow, StaysRepeat
<1>3. CASE Submit \/ Timeout \/ RootCovered \/ Restart
  <2>1. pc # "end" /\ UNCHANGED <<given, tree, executed>>
    BY <1>3 DEF Submit, Timeout, RootCovered, Restart, AtStatement, Running, Backtrack
  <2> QED BY <2>1, RepeatNow, StaysRepeat
<1> QED BY <1>1, <1>2, <1>3

-----------------------------------------------------------------------------
\* The end node closes the path of a run that has reached the end of the script ...
LEMMA EndCloses ==
  ASSUME TreeInv, SearchInv, RepeatInv, Undisturbed, EndBacktrack, NEW q \in executed
  PROVE  Closed(CompletePath.tree, q)
<1> DEFINE p == CompletePath
<1>1. /\ GivenInv /\ Tree(tree) /\ CoverInv /\ pc = "end" /\ Len(q) \in Nat
      /\ LeadsTo(tree, trail, Child(stack[index]))
      /\ Closed(tree, q) \/ (reason = "SUCCESS" /\ q = trail)
  BY SearchNow, RepeatNow DEF EndBacktrack, Ending
<1>2. /\ Path(tree, stack) /\ index \in 1..Len(stack) /\ Tree(p.tree)
      /\ \E m \in index..Len(stack) : EndsAt(tree, stack, m, p)
  BY <1>1, EndCalm
<1>3. PICK m \in index..Len(stack) : EndsAt(tree, stack, m, p)
  BY <1>2
<1>4. m \in 1..Len(stack) /\ Len(stack) \in Nat
  BY <1>1, <1>2, <1>3, PathFacts
<1> DEFINE loc == stack[m]
<1>5. LocOK(tree, loc) /\ IsCut(tree, loc, p.tree)
  BY <1>1, <1>2, <1>3, <1>4, PathFacts DEF LocOK, EndsAt
<1>6. reason = "SUCCESS" => m = index
  <2> SUFFICES ASSUME reason = "SUCCESS", m # index PROVE FALSE
    OBVIOUS
  <2>1. Goes(tree[stack[index].node], stack[index].idx) = Exit
    BY <1>1 DEF CoverInv, CalmInv
  <2>2. index \in 1..(Len(stack) - 1) /\ index + 1 \in 1..Len(stack)
    BY <1>2, <1>3, <1>4
  <2>3. tree[stack[index + 1].node].stmt = Exit
    BY <1>1, <1>2, <2>1, <2>2, PathLink
  <2>4. stack[index + 1].node \in DOMAIN tree /\ stack[index + 1].node # Root
    <3> DEFINE k == index + 1
    <3>1. k \in 1..Len(stack) /\ k > 1
      BY <1>2, <2>2
    <3> HIDE DEF k
    <3>2. stack[k].node \in DOMAIN tree /\ stack[k].node # Root
      BY <1>1, <1>2, <3>1, PathFacts
    <3> QED BY <3>2 DEF k
  <2>5. Exit \in Locs
    BY <1>1, <2>3, <2>4, NodeFacts
  <2> QED BY <1>1, <2>5, ScriptFacts DEF Exit, Locs
<1>7. Closed(tree, q) \/ LeadsTo(tree, q, Child(loc))
  BY <1>1, <1>6
<1> HIDE DEF loc, p
<1>8. Closed(p.tree, q)
  BY <1>1, <1>2, <1>5, <1>7, CutCloses
<1> QED BY <1>8 DEF p

\* ... and DoBacktrack covers or deletes no more than that.
LEMMA RepeatEndBacktrack ==
  ASSUME TreeInv, SearchInv, RepeatInv, Undisturbed, EndBacktrack
  PROVE  RepeatInv'
<1> DEFINE p == CompletePath  m == marked \cup MarkBranch
<1>1. /\ UNCHANGED <<given, executed>>
      /\ \E high \in 1..Len(p.stack) : /\ HighestCovered(p, high, m)
                                       /\ tree' = CoverTree(p, high)
  BY DEF EndBacktrack
<1>2. GivenInv /\ CoverInv
  BY SearchNow
<1>3. Tree(p.tree) /\ EndedPath(p.tree, p.stack)
  BY <1>2, EndCalm
<1>4. \A q \in executed : Closed(p.tree, q) /\ Len(q) \in Nat
  BY EndCloses, RepeatNow
<1> HIDE DEF p, m
<1>5. PICK high \in 1..Len(p.stack) : HighestCovered(p, high, m) /\ tree' = CoverTree(p, high)
  BY <1>1
<1>6. Tree(tree')
  BY <1>2, <1>3, <1>5, DoBacktrackFacts
<1> DEFINE t == p.tree  s == p.stack  u == tree'
<1>7. \/ high \in 2..(Len(s) - 1) /\ LocOK(t, s[high - 1]) /\ u = Cut(t, s[high - 1])
      \/ u = [n \in DOMAIN t |-> [t[n] EXCEPT !.covered = @ \/ n \in PathNodes(s, high)]]
  BY <1>3, <1>5, CoverCases
<1>8. ASSUME NEW q \in executed PROVE Closed(u, q)
  <2>0. Closed(t, q) /\ Len(q) \in Nat /\ Tree(t) /\ Tree(u)
    BY <1>3, <1>4, <1>6
  <2>1. CASE LocOK(t, s[high - 1]) /\ u = Cut(t, s[high - 1])
    <3> DEFINE loc == s[high - 1]
    <3>1. LocOK(t, loc) /\ u = Cut(t, loc)
      BY <2>1
    <3> HIDE DEF loc, t, u
    <3>2. IsCut(t, loc, u)
      BY <2>0, <3>1, CutFacts
    <3> QED BY <1>2, <2>0, <3>1, <3>2, CutCloses
  <2>2. CASE u = [n \in DOMAIN t |-> [t[n] EXCEPT !.covered = @ \/ n \in PathNodes(s, high)]]
    <3> HIDE DEF t, u
    <3>1. DOMAIN u = DOMAIN t
      BY <2>2
    <3>2. ASSUME NEW n \in DOMAIN t
          PROVE  SameShape(u[n], t[n]) /\ (t[n].covered => u[n].covered)
      <4>1. t[n] \in Records
        BY <2>0, TreeNames
      <4>2. u[n] = [t[n] EXCEPT !.covered = @ \/ n \in PathNodes(s, high)]
        BY <2>2
      <4> QED BY <4>1, <4>2 DEF Records, SameShape
    <3> QED BY <1>2, <2>0, <3>1, <3>2, CoverageCloses
  <2> QED BY <1>7, <2>1, <2>2
<1> QED BY <1>1, <1>8, StaysRepeat

\* Where no statement is an exists, no other thread is tried.
LEMMA NeverAnother ==
  ASSUME RunsDiffer, TreeInv, SearchInv, Undisturbed
  PROVE  ~EndExists /\ \A t \in Threads : ~ExistsSelect(t)
<1>1. GivenInv /\ Tree(tree)
  BY SearchNow
<1>2. ASSUME EndExists PROVE FALSE
  <2>1. pc = "end" /\ NodeKind(LastParent) = "exists"
    BY <1>2 DEF EndExists, Ending, TryAnother
  <2> DEFINE n == LastParent
  <2>2. n \in DOMAIN tree
    BY <2>1, SearchNow DEF LastParent, GetLastNodeInStack, LocOK
  <2>3. n # Root /\ Kind(tree[n].stmt) = "exists"
    BY <1>1, <2>1, <2>2, TreeNames DEF NodeKind
  <2> HIDE DEF n
  <2>4. tree[n].stmt \in Locs
    BY <1>1, <2>2, <2>3, NodeFacts
  <2> QED BY <1>1, <2>3, <2>4, NoExists
<1>3. ASSUME NEW t \in Threads, ExistsSelect(t) PROVE FALSE
  BY <1>1, <1>3, NoExists DEF ExistsSelect, AtStatement
<1> QED BY <1>2, <1>3

\* RepeatInv holds at first, ...
LEMMA RepeatStart ==
  ASSUME Init
  PROVE  RepeatInv
BY DEF Init, RepeatInv

\* ... and every step keeps it.
LEMMA RepeatStep ==
  ASSUME Exhaustible, RunsDiffer, TreeInv, SearchInv, RepeatInv, [Next]_vars
  PROVE  RepeatInv'
<1>1. Undisturbed' <=> Undisturbed
  <2>1. CASE UNCHANGED vars
    BY <2>1 DEF vars, given, Undisturbed
  <2>2. CASE Step
    <3>1. UNCHANGED given
      BY <2>2 DEF Step, ChoiceCovered, DSLChoice, DSLConditional, ReplayFails, Submit,
         DSLTransition, ForallSelect, ForallRefuse, ExistsSelect, Timeout, ThreadsAllEnded,
         EndTest, AssumeFails, ScriptEnd, EndExists, EndBacktrack, RootCovered, Restart,
         Consume, Backtrack
    <3> QED BY <3>1 DEF given, Undisturbed
  <2> QED BY <2>1, <2>2 DEF Next
<1> SUFFICES ASSUME Undisturbed PROVE RepeatInv'
  BY <1>1 DEF RepeatInv
<1>2. CASE UNCHANGED vars
  BY <1>2, RepeatSame
<1>3. CASE Step
  <2>1. CASE DSLChoice \/ DSLConditional \/ DSLTransition \/ \E t \in Threads : ForallSelect(t)
    BY <2>1, RepeatStatement
  <2>2. CASE \E t \in Threads : ForallRefuse(t) \/ ExistsSelect(t)
    BY <2>2, RepeatRefuse, NeverAnother
  <2>3. CASE ChoiceCovered
    BY <2>3, RepeatChoiceCovered
  <2>4. CASE Submit \/ Timeout \/ ScriptEnd \/ RootCovered \/ Restart
    BY <2>4, RepeatSame
  <2>5. CASE EndExists \/ EndBacktrack
    BY <2>5, NeverAnother, RepeatEndBacktrack
  <2>6. CASE ReplayFails \/ AssumeFails \/ ThreadsAllEnded \/ EndTest
    BY <2>6, NeverThrows
  <2> QED BY <1>3, <2>1, <2>2, <2>3, <2>4, <2>5, <2>6 DEF Step
<1> QED BY <1>2, <1>3 DEF Next

-----------------------------------------------------------------------------
\* A run leaves a node of the stack only by the stack's branch.
LEMMA OneBranch ==
  ASSUME TreeInv, SearchInv, Undisturbed, pc = "script", NEW k \in 1..index,
         NEW i \in DOMAIN tree[stack[k].node].kids,
         LeadsTo(tree, trail, Append(stack[k].node, i))
  PROVE  i = stack[k].idx
<1> DEFINE n == stack[k].node  j == stack[k].idx
<1>1. /\ GivenInv /\ Tree(tree) /\ Len(trail) \in Nat
      /\ \A m \in DOMAIN tree \ {Root} : RecordOK(tree[m])
  BY SearchNow DEF Searched
<1>2. /\ LeadsTo(tree, trail, Append(n, j)) /\ n \in DOMAIN tree /\ j \in DOMAIN tree[n].kids
      /\ n \in Names /\ j \in Nat
  BY StackLeads DEF Child
<1>3. i \in DOMAIN tree[n].kids /\ LeadsTo(tree, trail, Append(n, i))
  OBVIOUS
<1> HIDE DEF n, j
<1>4. i \in Nat
  BY <1>1, <1>2, <1>3, TreeNames
<1>5. n # Root => /\ trail[Len(n)] = Decision(tree[n], i)
                  /\ trail[Len(n)] = Decision(tree[n], j)
  BY <1>1, <1>2, <1>3, <1>4, LeadsStep
<1>6. n # Root => Decision(tree[n], i) = Decision(tree[n], j)
  BY <1>5
<1>7. i = j
  BY <1>1, <1>2, <1>3, <1>6, DecisionInjective
<1> QED BY <1>7 DEF j

\* The nodes a run comes to are those of the stack.
LEMMA OnStack ==
  ASSUME TreeInv, SearchInv, Undisturbed, pc = "script", NEW n \in DOMAIN tree,
         LeadsTo(tree, trail, n), Len(n) < index
  PROVE  Len(n) + 1 \in 1..index /\ n = stack[Len(n) + 1].node
<1>1. /\ GivenInv /\ Tree(tree) /\ Path(tree, stack) /\ index \in 1..Len(stack)
      /\ Len(trail) \in Nat
  BY SearchNow
<1>2. /\ Len(stack) \in Nat /\ stack[1] = RootLoc
      /\ \A k \in 1..(Len(stack) - 1) : stack[k + 1].node = Child(stack[k])
  BY <1>1, PathFacts
<1> DEFINE Off(k) == \E m \in DOMAIN tree : /\ Len(m) = k /\ LeadsTo(tree, trail, m)
                                            /\ m # stack[k + 1].node
           Bad == {k \in 0..(index - 1) : Off(k)}
<1>3. Bad = {}
  <2> SUFFICES ASSUME Bad # {} PROVE FALSE
    OBVIOUS
  <2>1. PICK k \in Bad : \A j \in Bad : k <= j
    <3>1. Bad \in SUBSET Nat
      BY <1>1
    <3> HIDE DEF Bad
    <3> QED BY <3>1, Least
  <2>2. k \in 0..(index - 1) /\ Off(k) /\ k \in Nat
    OBVIOUS
  <2>3. PICK m \in DOMAIN tree : Len(m) = k /\ LeadsTo(tree, trail, m) /\ m # stack[k + 1].node
    BY <2>2
  <2>4. CASE m = Root
    <3>1. k = 0
      BY <2>3, <2>4, RootName
    <3>2. stack[1].node = Root
      BY <1>2 DEF RootLoc
    <3> QED BY <2>3, <2>4, <3>1, <3>2
  <2>5. CASE m # Root
    <3>1. PICK a \in DOMAIN tree : \E i \in DOMAIN tree[a].kids :
            /\ m = Append(a, i) /\ a \in Names /\ i \in Nat
            /\ Len(a) \in Nat /\ Len(m) = Len(a) + 1
      BY <1>1, <2>5, Parent
    <3>2. PICK i \in DOMAIN tree[a].kids :
            /\ m = Append(a, i) /\ a \in Names /\ i \in Nat
            /\ Len(a) \in Nat /\ Len(m) = Len(a) + 1
      BY <3>1
    <3>3. LeadsTo(tree, trail, a)
      BY <1>1, <2>3, <3>2, LeadsStep
    <3>4. Len(a) = k - 1 /\ k - 1 \in 0..(index - 1) /\ ~(k <= k - 1)
      <4>1. Len(m) = k /\ Len(m) = Len(a) + 1 /\ Len(a) \in Nat
        BY <2>3, <3>2
      <4>2. k \in 0..(index - 1) /\ index \in Int
        BY <1>1
      <4> QED BY <4>1, <4>2
    <3>5. ~Off(k - 1)
      <4> HIDE DEF Off
      <4>1. k - 1 \notin Bad
        <5> HIDE DEF Bad
        <5> QED BY <2>1, <3>4
      <4> QED BY <3>4, <4>1
    <3>6. a = stack[k].node
      <4>1. a = stack[(k - 1) + 1].node
        BY <3>3, <3>4, <3>5
      <4>2. (k - 1) + 1 = k
        BY <2>2
      <4> QED BY <4>1, <4>2
    <3>7. k \in 1..index /\ k \in 1..(Len(stack) - 1)
      BY <1>1, <1>2, <2>2, <3>2, <3>4
    <3>8. i = stack[k].idx
      BY <2>3, <3>2, <3>6, <3>7, OneBranch
    <3>9. m = stack[k + 1].node
      BY <1>2, <3>2, <3>6, <3>7, <3>8 DEF Child
    <3> QED BY <2>3, <3>9
  <2> QED BY <2>4, <2>5
<1>4. Len(n) \in 0..(index - 1)
  <2>1. n \in Names
    BY <1>1, TreeNames
  <2>2. Len(n) \in Nat
    BY <2>1, LenProperties DEF Names
  <2> QED BY <1>1, <2>2
<1>5. ~Off(Len(n))
  <2> HIDE DEF Off
  <2> QED BY <1>3, <1>4
<1>6. n = stack[Len(n) + 1].node
  BY <1>5
<1> QED BY <1>1, <1>4, <1>6

\* A run that reaches the end of the script has followed all of the stack, by open branches:
\* it is none of those that are closed.
LEMMA RunIsOpen ==
  ASSUME RunsDiffer, TreeInv, SearchInv, Undisturbed, pc = "script", at = Exit
  PROVE  ~Closed(tree, trail)
<1>1. /\ GivenInv /\ Tree(tree) /\ Path(tree, stack) /\ index \in 1..Len(stack)
      /\ Len(trail) \in Nat /\ Len(trail) = index - 1 /\ CoverInv
  BY SearchNow
<1>2. Running
  BY <1>1 DEF CoverInv, CalmInv, Running
<1>3. Uncovered(tree, stack)
  BY <1>1, <1>2, CoverNow
<1>4. Len(stack) \in Nat /\ stack[1] = RootLoc
  BY <1>1, PathFacts
<1>5. ~tree[Root].covered
  <2>1. 1 \in 1..Len(stack) /\ stack[1].node = Root
    BY <1>1, <1>4 DEF RootLoc
  <2> QED BY <1>3, <2>1 DEF Uncovered
<1>6. ASSUME NEW n \in DOMAIN tree, NEW i \in DOMAIN tree[n].kids,
             LeadsTo(tree, trail, Append(n, i))
      PROVE  ~EndOrCovered(tree, n, i)
  <2>1. n \in Names /\ i \in Nat
    BY <1>1, TreeNames
  <2>2. LeadsTo(tree, trail, n) /\ Len(n) <= Len(trail)
    BY <1>1, <1>6, <2>1, LeadsStep
  <2>3. Len(n) < index
    <3>1. Len(n) \in Nat
      BY <2>1, LenProperties DEF Names
    <3> QED BY <1>1, <2>2, <3>1
  <2> DEFINE k == Len(n) + 1
  <2>4. k \in 1..index /\ n = stack[k].node
    BY <2>2, <2>3, OnStack
  <2> HIDE DEF k
  <2>5. i = stack[k].idx
    BY <1>6, <2>4, OneBranch
  <2>6. k \in 1..Len(stack)
    BY <1>1, <1>4, <2>4
  <2> QED BY <1>2, <2>4, <2>5, <2>6, OpenBranch
<1> QED BY <1>5, <1>6 DEF Closed

\* In searches whose runs have decisions of their own, no run that reaches the end of the
\* script has the decisions of an earlier one.
THEOREM NoRepeatCorrect ==
  ASSUME Exhaustible, RunsDiffer
  PROVE  Spec => []NoRepeat
<1>1. Init => TreeInv /\ SearchInv /\ RepeatInv
  BY TreeStart, SearchStart, RepeatStart
<1>2. TreeInv /\ SearchInv /\ RepeatInv /\ [Next]_vars => (TreeInv /\ SearchInv /\ RepeatInv)'
  BY TreeStep, SearchStep, RepeatStep
<1>3. TreeInv /\ SearchInv /\ RepeatInv => NoRepeat
  <2> SUFFICES ASSUME TreeInv, SearchInv, RepeatInv, Undisturbed, pc = "script", at = Exit,
                      trail \in executed
               PROVE  FALSE
    BY DEF NoRepeat
  <2>1. Closed(tree, trail)
    BY DEF RepeatInv
  <2> QED BY <2>1, RunIsOpen
<1> QED BY <1>1, <1>2, <1>3, PTL DEF Spec
=============================================================================
