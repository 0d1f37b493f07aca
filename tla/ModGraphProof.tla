---------------------------- MODULE ModGraphProof ----------------------------
(***************************************************************************)
(* Proofs about ModGraph, for every project that fits its constants: the   *)
(* recursion over the imports scans each module once, and the loop over    *)
(* the hooks runs the hook of each module that was found, once, whatever   *)
(* modules the hooks bring in late; and what has been collected when the   *)
(* analysis is over lies between what is asked for and what may be.        *)
(***************************************************************************)
EXTENDS ModGraph, FiniteSetTheorems, FunctionTheorems, SequenceTheorems, TLAPS

-----------------------------------------------------------------------------
(* The names on a path, and the least position that has a property.        *)

LEMMA LeastNatural ==
    ASSUME NEW A \in SUBSET Nat, A # {}
    PROVE  \E m \in A : \A k \in A : m <= k
<1>1. PICK m \in A : \A k \in A : <<k, m>> \notin OpToRel(<, Nat)
  BY NatLessThanWellFounded, WFMin, Zenon
<1>2. \A k \in A : ~(k < m)
  BY <1>1, Zenon DEF OpToRel
<1>3. QED
  BY <1>2

LEMMA PathTypes ==
    ASSUME NEW n \in Names
    PROVE  /\ Path[n] \in Seq(Names) /\ Len(Path[n]) \in Nat \ {0}
           /\ n \in Ancestors(n) /\ Ancestors(n) \subseteq Names
           /\ ~TopLevel(n) => Parent(n) \in Names
           /\ Before(n) \subseteq Names
<1>1. /\ Path[n] \in Seq(Names) /\ Path[n] # <<>> /\ Path[n][Len(Path[n])] = n
  BY ModGraphAssumption
<1> DEFINE path == Path[n]
           size == Len(path)
<1>2. size \in Nat /\ size > 0 /\ \A i \in 1..size : path[i] \in Names
  BY <1>1, LenProperties, EmptySeq
<1>3. path[size] = n
  BY <1>1
<1> HIDE DEF path, size
<1>4. size \in 1..size /\ (size # 1 => size - 1 \in 1..size)
  BY <1>2
<1>5. n \in Ancestors(n) /\ Ancestors(n) \subseteq Names
  BY <1>2, <1>3, <1>4 DEF Ancestors, path, size
<1>6. ~TopLevel(n) => Parent(n) \in Names
  BY <1>2, <1>4 DEF TopLevel, Parent, path, size
<1>7. Before(n) \subseteq Names
  <2>1. ASSUME NEW m \in Names PROVE Ancestors(m) \subseteq Names
    <3>1. Path[m] \in Seq(Names)
      BY ModGraphAssumption
    <3>2. \A i \in 1..Len(Path[m]) : Path[m][i] \in Names
      BY <3>1, LenProperties
    <3>3. QED
      BY <3>2 DEF Ancestors
  <2>2. QED
    BY <1>6, <2>1 DEF Before
<1>8. QED
  BY <1>1, <1>2, <1>5, <1>6, <1>7 DEF path, size

\* The references from submodules to their packages are edges between names.
LEMMA UpTypes == ASSUME NEW S \in SUBSET Names PROVE Up(S) \subseteq Names \X Names
BY PathTypes DEF Up

\* import_hook descends along the path of a name: the first part that is not in
\* the graph is well-defined.
LEMMA FirstAbsentPlace ==
    ASSUME NEW n \in Names, ~Present(n)
    PROVE  /\ FirstAbsent(n) \in Names /\ nodes[FirstAbsent(n)] = "absent"
           /\ \E i \in 1..Len(Path[n]) :
                /\ FirstAbsent(n) = Path[n][i] /\ nodes[Path[n][i]] = "absent"
                /\ \A j \in 1..(i - 1) : nodes[Path[n][j]] # "absent"
<1> DEFINE A == {i \in 1..Len(Path[n]) : nodes[Path[n][i]] = "absent"}
           IsFirst(i) == /\ nodes[Path[n][i]] = "absent"
                         /\ \A j \in 1..(i - 1) : nodes[Path[n][j]] # "absent"
<1>1. DOMAIN Path[n] = 1..Len(Path[n]) /\ Len(Path[n]) \in Nat
      /\ \A i \in DOMAIN Path[n] : Path[n][i] \in Names
  BY PathTypes, LenProperties
<1>2. A # {} /\ A \in SUBSET Nat
  BY <1>1 DEF Present, Ancestors
<1>3. PICK m \in A : \A k \in A : m <= k
  BY <1>2, LeastNatural
<1>4. m \in DOMAIN Path[n] /\ IsFirst(m)
  <2>1. m \in 1..Len(Path[n]) /\ nodes[Path[n][m]] = "absent"
    BY <1>3
  <2>2. ASSUME NEW j \in 1..(m - 1) PROVE nodes[Path[n][j]] # "absent"
    <3>1. j \in 1..Len(Path[n]) /\ ~(m <= j)
      BY <1>1, <2>1
    <3>2. j \notin A
      BY <1>3, <3>1
    <3>3. QED
      BY <3>1, <3>2
  <2>3. QED
    BY <1>1, <2>1, <2>2
<1> DEFINE first == CHOOSE i \in DOMAIN Path[n] : IsFirst(i)
<1>5. first \in DOMAIN Path[n] /\ IsFirst(first)
  <2> HIDE DEF IsFirst
  <2>1. QED
    BY <1>4, Zenon
<1>6. FirstAbsent(n) = Path[n][first]
  BY DEF FirstAbsent
<1> HIDE DEF first
<1>7. QED
  BY <1>1, <1>5, <1>6

-----------------------------------------------------------------------------
(* The stack of calls.                                                     *)

Frames == [node : Names, todo : Seq(Item), hidden : BOOLEAN]

\* A module whose code is being scanned is in the graph, and scanned by one call.
StackInv ==
    /\ stack \in Seq(Frames)
    /\ \A i \in 1..Len(stack) : ~stack[i].hidden => nodes[stack[i].node] # "absent"
    /\ \A i, j \in 1..Len(stack) :
         /\ ~stack[i].hidden /\ ~stack[j].hidden /\ stack[i].node = stack[j].node
         => i = j

LEMMA TopTypes ==
    ASSUME stack \in Seq(Frames), stack # <<>>
    PROVE  /\ Len(stack) \in Nat \ {0} /\ Len(stack) \in 1..Len(stack)
           /\ Top \in Frames /\ Source \in Names
           /\ Top.todo # <<>> => /\ Import \in Item /\ Import.base \in Names
                                 /\ Import.attr # NoAttr => Import.attr \in Names
<1>1. Len(stack) \in Nat \ {0} /\ Len(stack) \in 1..Len(stack)
  BY EmptySeq, LenProperties
<1>2. Top \in Frames
  BY <1>1, LenProperties DEF Top
<1>3. Source \in Names /\ Top.todo \in Seq(Item)
  BY <1>2 DEF Source, Frames
<1>4. Top.todo # <<>> => Import \in Item
  BY <1>3, HeadTailProperties DEF Import
<1>5. \A t \in Item : t.base \in Names /\ (t.attr # NoAttr => t.attr \in Names)
  BY DEF Item
<1>6. QED
  BY <1>1, <1>2, <1>3, <1>4, <1>5

LEMMA FrameNodes ==
    ASSUME stack \in Seq(Frames)
    PROVE  \A i \in 1..Len(stack) : stack[i].node \in Names
<1>1. \A i \in 1..Len(stack) : stack[i] \in Frames
  BY LenProperties
<1>2. QED
  BY <1>1 DEF Frames

\* The import that was processed is dropped, and nothing else.
LEMMA DropTypes ==
    ASSUME stack \in Seq(Frames), stack # <<>>, Top.todo # <<>>
    PROVE  /\ Drop \in Seq(Frames) /\ Len(Drop) = Len(stack)
           /\ \A i \in 1..Len(stack) : /\ Drop[i].node = stack[i].node
                                       /\ Drop[i].hidden = stack[i].hidden
<1> DEFINE rest == [Top EXCEPT !.todo = Tail(@)]
<1>1. /\ Len(stack) \in 1..Len(stack) /\ Top \in Frames
  BY TopTypes
<1>2. Tail(Top.todo) \in Seq(Item)
  BY <1>1, HeadTailProperties DEF Frames
<1>3. rest \in Frames /\ rest.node = Top.node /\ rest.hidden = Top.hidden
  BY <1>1, <1>2 DEF Frames
<1>4. Drop = [stack EXCEPT ![Len(stack)] = rest]
  BY DEF Drop, Top
<1> HIDE DEF rest
<1>5. /\ Drop \in Seq(Frames) /\ Len(Drop) = Len(stack)
      /\ \A i \in 1..Len(stack) : Drop[i] = IF i = Len(stack) THEN rest ELSE stack[i]
  BY <1>1, <1>3, <1>4, ExceptSeq
<1>6. QED
  BY <1>3, <1>5 DEF Top

LEMMA StackDropped ==
    ASSUME StackInv, stack # <<>>, Top.todo # <<>>, stack' = Drop,
           \A n \in Names : nodes'[n] = "absent" => nodes[n] = "absent"
    PROVE  StackInv'
<1>1. /\ stack' \in Seq(Frames) /\ Len(stack') = Len(stack)
      /\ \A i \in 1..Len(stack) : /\ stack'[i].node = stack[i].node
                                  /\ stack'[i].hidden = stack[i].hidden
  BY DropTypes DEF StackInv
<1>2. \A i \in 1..Len(stack) : stack[i].node \in Names
  BY FrameNodes DEF StackInv
<1>3. \A i \in 1..Len(stack') : ~stack'[i].hidden => nodes'[stack'[i].node] # "absent"
  BY <1>1, <1>2 DEF StackInv
<1>4. \A i, j \in 1..Len(stack') :
        /\ ~stack'[i].hidden /\ ~stack'[j].hidden /\ stack'[i].node = stack'[j].node
        => i = j
  BY <1>1 DEF StackInv
<1>5. QED
  BY <1>1, <1>3, <1>4 DEF StackInv

\* The code of a project's modules is a list of imports.
LEMMA ProjectTypes ==
    ASSUME project \in Projects
    PROVE  /\ \A n \in Names : project.imports[n] \in Seq(Item)
           /\ project.hiddenimports \in Seq(Names)
           /\ DOMAIN project.hooks \subseteq Names /\ IsFiniteSet(DOMAIN project.hooks)
           /\ \A m \in DOMAIN project.hooks : project.hooks[m].hiddenimports \in Seq(Names)
<1>1. IsProject(project)
  BY ModGraphAssumption
<1>2. IsFiniteSet(DOMAIN project.hooks)
  BY <1>1, FS_Subset, ModGraphAssumption DEF IsProject
<1>3. QED
  BY <1>1, <1>2 DEF IsProject, Hook

LEMMA StackEntered ==
    ASSUME StackInv, nodes \in [Names -> {"absent", "script", "module", "missing", "excluded"}],
           project \in Projects, NEW n \in Names, nodes[n] = "absent", EnterModule(n)
    PROVE  StackInv'
<1> DEFINE frame == Frame(n, project.imports[n], FALSE)
<1>1. frame \in Frames /\ frame.node = n /\ frame.hidden = FALSE
  BY ProjectTypes DEF Frame, Frames
<1>2. stack' = Append(stack, frame)
  BY DEF EnterModule
<1> HIDE DEF frame
<1>3. /\ stack' \in Seq(Frames) /\ Len(stack') = Len(stack) + 1 /\ Len(stack) \in Nat
      /\ \A i \in 1..Len(stack) : stack'[i] = stack[i]
      /\ stack'[Len(stack) + 1] = frame
  BY <1>1, <1>2, AppendProperties, LenProperties DEF StackInv
<1>4. /\ nodes'[n] = "module" /\ \A m \in Names : nodes'[m] = "absent" => nodes[m] = "absent"
  BY DEF EnterModule
<1>5. \A i \in 1..Len(stack) : stack[i].node \in Names
  BY FrameNodes DEF StackInv
<1>6. \A i \in 1..Len(stack) : ~stack[i].hidden => stack[i].node # n
  BY DEF StackInv
<1>7. ASSUME NEW i \in 1..Len(stack'), ~stack'[i].hidden
      PROVE  nodes'[stack'[i].node] # "absent"
  <2>1. CASE i = Len(stack) + 1
    BY <1>1, <1>3, <1>4, <2>1
  <2>2. CASE i \in 1..Len(stack)
    BY <1>3, <1>4, <1>5, <1>7, <2>2 DEF StackInv
  <2>3. QED
    BY <1>3, <2>1, <2>2
<1>8. ASSUME NEW i \in 1..Len(stack'), NEW j \in 1..Len(stack'),
             ~stack'[i].hidden, ~stack'[j].hidden, stack'[i].node = stack'[j].node
      PROVE  i = j
  <2>1. CASE i \in 1..Len(stack) /\ j \in 1..Len(stack)
    BY <1>3, <1>8, <2>1 DEF StackInv
  <2>2. CASE i = Len(stack) + 1 /\ j \in 1..Len(stack)
    BY <1>1, <1>3, <1>6, <1>8, <2>2
  <2>3. CASE j = Len(stack) + 1 /\ i \in 1..Len(stack)
    BY <1>1, <1>3, <1>6, <1>8, <2>3
  <2>4. QED
    BY <1>3, <2>1, <2>2, <2>3
<1>9. QED
  BY <1>3, <1>7, <1>8 DEF StackInv

\* A stack of one call.
LEMMA StackOfOne ==
    ASSUME NEW frame \in Frames, stack' = <<frame>>,
           frame.hidden \/ nodes'[frame.node] # "absent"
    PROVE  StackInv'
<1>1. stack' \in Seq(Frames) /\ Len(stack') = 1 /\ stack'[1] = frame
  OBVIOUS
<1>2. QED
  BY <1>1 DEF StackInv

LEMMA StackReturned ==
    ASSUME StackInv, stack # <<>>, stack' = SubSeq(stack, 1, Len(stack) - 1), nodes' = nodes
    PROVE  StackInv'
<1> DEFINE size == Len(stack) - 1
<1>1. /\ Len(stack) \in Nat \ {0} /\ \A i \in 1..Len(stack) : stack[i] \in Frames
  BY EmptySeq, LenProperties DEF StackInv
<1>2. size \in Nat /\ \A i \in 1..size : i \in 1..Len(stack)
  BY <1>1
<1>3. /\ stack' \in Seq(Frames) /\ Len(stack') = IF 1 <= size THEN size - 1 + 1 ELSE 0
      /\ \A i \in 1..(size - 1 + 1) : stack'[i] = stack[1 + i - 1]
  <2>1. 1 \in Int /\ size \in Int /\ \A i \in 1..size : stack[i] \in Frames
    BY <1>1, <1>2
  <2>2. stack' = SubSeq(stack, 1, size)
    OBVIOUS
  <2> HIDE DEF size
  <2>3. QED
    BY <2>1, <2>2, SubSeqProperties
<1> HIDE DEF size
<1>4. /\ Len(stack') = size /\ \A i \in 1..size : stack'[i] = stack[i]
  BY <1>2, <1>3
<1>5. QED
  BY <1>2, <1>3, <1>4 DEF StackInv

-----------------------------------------------------------------------------
(* Types, and the recursion over the imports.                              *)

NodeKinds == {"absent", "script", "module", "missing", "excluded"}

GraphTypeOK ==
    /\ project \in Projects /\ order \in Orders(DOMAIN project.hooks)
    /\ phase \in {"scripts", "hidden", "hooks", "rthooks", "done"}
    /\ nodes \in [Names -> NodeKinds] /\ edges \subseteq Names \X Names
    /\ hooks \subseteq DOMAIN project.hooks /\ hooked \subseteq hooks
    /\ position \in Nat \ {0}

LEMMA AttrTypes ==
    ASSUME stack \in Seq(Frames), stack # <<>>, Top.todo # <<>>
    PROVE  Attr # NoAttr => Attr \in Names
BY TopTypes DEF Attr

\* A step of the recursion, whatever it finds, only brings names into the graph
\* that were not there.
LEMMA RecursionStep ==
    ASSUME GraphTypeOK, StackInv,
           Suppress \/ Descend \/ DescendAttr \/ MissBase \/ Link \/ Return
    PROVE  /\ UNCHANGED control /\ stack # <<>>
           /\ nodes' \in [Names -> NodeKinds] /\ edges' \subseteq Names \X Names
           /\ \A n \in Names : nodes[n] # "absent" => nodes'[n] = nodes[n]
           /\ StackInv'
<1> DEFINE Grows == \A n \in Names : nodes[n] # "absent" => nodes'[n] = nodes[n]
<1>t. /\ nodes \in [Names -> NodeKinds] /\ edges \subseteq Names \X Names
      /\ project \in Projects /\ stack \in Seq(Frames)
      /\ "module" \in NodeKinds /\ "missing" \in NodeKinds
  BY DEF GraphTypeOK, StackInv, NodeKinds
<1>g. ASSUME Grows PROVE \A n \in Names : nodes'[n] = "absent" => nodes[n] = "absent"
  BY <1>g
<1>1. CASE Suppress
  <2>1. StackInv'
    BY <1>1, StackDropped DEF Suppress
  <2>2. QED
    BY <1>1, <1>t, <2>1 DEF Suppress
<1>e. ASSUME NEW n \in Names, nodes[n] = "absent", EnterModule(n)
      PROVE  nodes' \in [Names -> NodeKinds] /\ Grows /\ StackInv'
  <2>1. nodes' = [nodes EXCEPT ![n] = "module"]
    BY <1>e DEF EnterModule
  <2>2. StackInv'
    BY <1>e, <1>t, StackEntered DEF NodeKinds
  <2>3. QED
    BY <1>e, <1>t, <2>1, <2>2
<1>2. CASE Descend
  <2> DEFINE n == FirstAbsent(Import.base)
  <2>1. /\ stack # <<>> /\ Top.todo # <<>> /\ ~Present(Import.base) /\ EnterModule(n)
        /\ edges' = edges \cup Up(Before(n)) /\ UNCHANGED control
    BY <1>2 DEF Descend
  <2>2. n \in Names /\ nodes[n] = "absent"
    BY <1>t, <2>1, TopTypes, FirstAbsentPlace
  <2> HIDE DEF n
  <2>3. edges' \subseteq Names \X Names
    BY <1>t, <2>1, <2>2, PathTypes, UpTypes
  <2>4. QED
    BY <1>e, <2>1, <2>2, <2>3
<1>3. CASE DescendAttr
  <2>1. /\ stack # <<>> /\ Top.todo # <<>> /\ Attr # NoAttr /\ nodes[Attr] = "absent"
        /\ EnterModule(Attr) /\ UNCHANGED control
        /\ edges' = edges \cup Up(Ancestors(Import.base)) \cup {<<Import.base, Attr>>}
    BY <1>3 DEF DescendAttr
  <2>2. Attr \in Names /\ Import.base \in Names
    BY <1>t, <2>1, AttrTypes, TopTypes
  <2>3. Up(Ancestors(Import.base)) \subseteq Names \X Names
    BY <2>2, PathTypes, UpTypes
  <2>4. <<Import.base, Attr>> \in Names \X Names
    BY <2>2
  <2>5. edges' \subseteq Names \X Names
    BY <1>t, <2>1, <2>3, <2>4
  <2>6. QED
    BY <1>e, <2>1, <2>2, <2>5
<1>4. CASE MissBase
  <2> DEFINE n == FirstAbsent(Import.base)
  <2>1. /\ stack # <<>> /\ Top.todo # <<>> /\ ~Present(Import.base) /\ UNCHANGED control
        /\ nodes' = IF Top.hidden THEN nodes ELSE [nodes EXCEPT ![n] = "missing"]
        /\ edges' = edges \cup Up(Before(n))
                      \cup IF Top.hidden THEN {} ELSE {<<Source, n>>}
        /\ stack' = Drop
    BY <1>4 DEF MissBase
  <2>2. n \in Names /\ nodes[n] = "absent" /\ Source \in Names
    BY <1>t, <2>1, TopTypes, FirstAbsentPlace
  <2> HIDE DEF n
  <2>3. Up(Before(n)) \subseteq Names \X Names
    BY <2>2, PathTypes, UpTypes
  <2>4. edges' \subseteq Names \X Names
    BY <1>t, <2>1, <2>2, <2>3
  <2>5. nodes' \in [Names -> NodeKinds] /\ Grows
    BY <1>t, <2>1, <2>2
  <2>6. StackInv'
    BY <1>g, <2>1, <2>5, StackDropped
  <2>7. QED
    BY <2>1, <2>4, <2>5, <2>6
<1>5. CASE Link
  <2> DEFINE base == edges \cup Up(Ancestors(Import.base)) \cup {<<Source, Import.base>>}
  <2>1. /\ stack # <<>> /\ Top.todo # <<>> /\ UNCHANGED control /\ stack' = Drop
    BY <1>5 DEF Link
  <2>2. Source \in Names /\ Import.base \in Names
    BY <1>t, <2>1, TopTypes
  <2>3. base \subseteq Names \X Names
    BY <1>t, <2>2, PathTypes, UpTypes
  <2>4. \/ edges' = base /\ UNCHANGED nodes
        \/ /\ Attr # NoAttr
           /\ edges' = base \cup {<<Source, Attr>>}
                             \cup IF Registered(Attr) THEN {} ELSE {<<Import.base, Attr>>}
           /\ nodes' = [nodes EXCEPT ![Attr] = IF @ = "absent" THEN "missing" ELSE @]
    BY <1>5 DEF Link
  <2> HIDE DEF base
  <2>5. CASE edges' = base /\ UNCHANGED nodes
    <3>1. StackInv'
      BY <2>1, <2>5, StackDropped
    <3>2. QED
      BY <1>t, <2>1, <2>3, <2>5, <3>1
  <2>6. CASE /\ Attr # NoAttr
             /\ edges' = base \cup {<<Source, Attr>>}
                               \cup IF Registered(Attr) THEN {} ELSE {<<Import.base, Attr>>}
             /\ nodes' = [nodes EXCEPT ![Attr] = IF @ = "absent" THEN "missing" ELSE @]
    <3>1. Attr \in Names
      BY <1>t, <2>1, <2>6, AttrTypes
    <3>2. nodes' \in [Names -> NodeKinds] /\ Grows
      BY <1>t, <2>6, <3>1
    <3>3. edges' \subseteq Names \X Names
      BY <2>2, <2>3, <2>6, <3>1
    <3>4. StackInv'
      BY <1>g, <2>1, <3>2, StackDropped
    <3>5. QED
      BY <2>1, <3>2, <3>3, <3>4
  <2>7. QED
    BY <2>4, <2>5, <2>6
<1>6. CASE Return
  <2>1. /\ stack # <<>> /\ UNCHANGED <<control, nodes>>
        /\ stack' = SubSeq(stack, 1, Len(stack) - 1)
        /\ edges' = edges \/ edges' = edges \cup Up({Source})
    BY <1>6 DEF Return
  <2>2. StackInv'
    BY <2>1, StackReturned
  <2>3. edges' \subseteq Names \X Names
    BY <1>t, <2>1, TopTypes, UpTypes
  <2>4. QED
    BY <1>t, <2>1, <2>2, <2>3
<1>7. QED
  BY <1>1, <1>2, <1>3, <1>4, <1>5, <1>6

-----------------------------------------------------------------------------
(* The loop over the hooks.                                                *)

Hooked == (DOMAIN project.hooks \ hooks) \cup hooked

\* What the loop has done so far, and what it has found in this iteration.
HookInv ==
    /\ phase \in {"scripts", "hidden"} =>
           hooks = DOMAIN project.hooks /\ hooked = {} /\ ran = <<>>
    /\ phase = "hooks" => \A m \in hooked : \E i \in 1..(position - 1) : order[i] = m
    /\ \A m \in Hooked : nodes[m] # "absent"
    /\ phase = "hooks" /\ hooked = {} =>
           /\ stack = <<>>
           /\ \A i \in 1..(position - 1) : order[i] \notin hooks \/ nodes[order[i]] = "absent"
    /\ phase = "rthooks" =>
           stack = <<>> /\ hooked = {} /\ \A m \in hooks : nodes[m] # "module"

\* A hook has been run if its module was found, and the loop has come to it.
RanInv ==
    /\ ran \in Seq(DOMAIN project.hooks)
    /\ \A i, j \in 1..Len(ran) : ran[i] = ran[j] => i = j
    /\ phase # "done" =>
           \A m \in DOMAIN project.hooks :
               (\E i \in 1..Len(ran) : ran[i] = m) <=> (m \in Hooked /\ nodes[m] = "module")

GraphInv == GraphTypeOK /\ StackInv /\ HookInv /\ RanInv

\* The user's order, or that of the file system, names every hook once.
LEMMA OrderTypes ==
    ASSUME GraphTypeOK
    PROVE  /\ order \in Seq(DOMAIN project.hooks) /\ Len(order) \in Nat
           /\ \A i \in 1..Len(order) : order[i] \in DOMAIN project.hooks
           /\ \A i, j \in 1..Len(order) : order[i] = order[j] => i = j
           /\ \A m \in DOMAIN project.hooks : \E i \in 1..Len(order) : order[i] = m
<1> DEFINE S == DOMAIN project.hooks
           n == Cardinality(S)
<1>1. IsFiniteSet(S) /\ n \in Nat
  BY ProjectTypes, FS_CardinalityType DEF GraphTypeOK
<1>2. order \in [1..n -> S] /\ \A i, j \in 1..n : order[i] = order[j] => i = j
  BY DEF GraphTypeOK, Orders
<1> HIDE DEF n
<1>3. order \in Seq(S)
  BY <1>1, <1>2, SeqDef
<1>4. Len(order) = n
  BY <1>1, <1>2, <1>3, LenProperties
<1>5. order \in Injection(1..n, S)
  BY <1>2, Fun_IsInj
<1>6. Cardinality(1..n) = n
  <2>1. 1 \in Int /\ n \in Int
    BY <1>1
  <2>2. Cardinality(1..n) = IF 1 > n THEN 0 ELSE n - 1 + 1
    BY <2>1, FS_Interval
  <2>3. QED
    BY <1>1, <2>2
<1>7. order \in Surjection(1..n, S)
  BY <1>1, <1>5, <1>6, FS_Injection DEF n
<1>8. \A m \in S : \E i \in 1..n : order[i] = m
  BY <1>7 DEF Surjection
<1>9. QED
  BY <1>1, <1>2, <1>3, <1>4, <1>8

LEMMA GraphInit == Init => GraphInv
<1> SUFFICES ASSUME Init PROVE GraphInv
  OBVIOUS
<1>1. Script \in Names
  BY ModGraphAssumption
<1>2. nodes \in [Names -> NodeKinds] /\ nodes[Script] = "script"
  <2> DEFINE Kind(n) == CASE n = Script -> "script"
                          [] n \in project.excludes \ {Script} -> "excluded"
                          [] OTHER -> "absent"
  <2>1. nodes = [n \in Names |-> Kind(n)]
    BY DEF Init
  <2>2. Kind(Script) = "script"
    OBVIOUS
  <2>3. ASSUME NEW n \in Names PROVE Kind(n) \in NodeKinds
    <3>1. CASE n = Script
      BY <3>1 DEF NodeKinds
    <3>2. CASE n \in project.excludes \ {Script}
      BY <3>2 DEF NodeKinds
    <3>3. CASE n # Script /\ n \notin project.excludes
      BY <3>3 DEF NodeKinds
    <3>4. QED
      BY <3>1, <3>2, <3>3
  <2> HIDE DEF Kind
  <2>4. QED
    BY <1>1, <2>1, <2>2, <2>3
<1>3. GraphTypeOK
  BY <1>2 DEF Init, GraphTypeOK
<1>4. StackInv
  <2> DEFINE frame == Frame(Script, project.imports[Script], FALSE)
  <2>1. frame \in Frames /\ frame.node = Script
    BY <1>1, <1>3, ProjectTypes DEF GraphTypeOK, Frame, Frames
  <2>2. stack = <<frame>>
    BY DEF Init
  <2> HIDE DEF frame
  <2>3. stack \in Seq(Frames) /\ Len(stack) = 1 /\ stack[1] = frame
    BY <2>1, <2>2
  <2>4. QED
    BY <1>2, <2>1, <2>3 DEF StackInv
<1>5. HookInv
  BY DEF Init, HookInv, Hooked
<1>6. RanInv
  BY DEF Init, RanInv, Hooked
<1>7. QED
  BY <1>3, <1>4, <1>5, <1>6 DEF GraphInv

\* A step that leaves the hooks alone, and nodes but for what was absent, leaves
\* the loop where it was.
LEMMA LoopFrame ==
    ASSUME GraphInv, UNCHANGED <<project, hooks, hooked, ran>>,
           \A n \in Names : nodes[n] # "absent" => nodes'[n] = nodes[n]
    PROVE  /\ Hooked' = Hooked /\ \A m \in Hooked : nodes'[m] = nodes[m] /\ nodes'[m] # "absent"
           /\ phase # "done" => RanInv'
           /\ phase' = "done" => RanInv'
<1>1. Hooked' = Hooked
  BY DEF Hooked
<1>2. \A m \in Hooked : m \in Names
  BY ProjectTypes DEF GraphInv, GraphTypeOK, Hooked
<1>3. \A m \in Hooked : nodes'[m] = nodes[m] /\ nodes'[m] # "absent"
  BY <1>2 DEF GraphInv, HookInv
<1>4. /\ ran' \in Seq(DOMAIN project'.hooks)
      /\ \A i, j \in 1..Len(ran') : ran'[i] = ran'[j] => i = j
  BY DEF GraphInv, RanInv
<1>5. ASSUME phase # "done"
      PROVE  \A m \in DOMAIN project'.hooks :
               (\E i \in 1..Len(ran') : ran'[i] = m) <=> (m \in Hooked' /\ nodes'[m] = "module")
  BY <1>1, <1>3, <1>5 DEF GraphInv, RanInv
<1>6. QED
  BY <1>1, <1>3, <1>4, <1>5 DEF RanInv

LEMMA GraphStep == ASSUME GraphInv, [Next]_vars PROVE GraphInv'
<1>0. GraphTypeOK /\ StackInv /\ HookInv /\ RanInv
  BY DEF GraphInv
<1>p. project \in Projects /\ position \in Nat \ {0}
  BY <1>0 DEF GraphTypeOK
<1>s. Script \in Names
  BY ModGraphAssumption
<1>1. CASE UNCHANGED vars \/ Terminated
  <2>1. UNCHANGED vars
    BY <1>1 DEF Terminated
  <2>2. GraphTypeOK'
    BY <1>0, <2>1 DEF vars, GraphTypeOK
  <2>3. StackInv'
    BY <1>0, <2>1 DEF vars, StackInv
  <2>4. HookInv'
    BY <1>0, <2>1 DEF vars, HookInv, Hooked
  <2>5. RanInv'
    BY <1>0, <2>1 DEF vars, RanInv, Hooked
  <2>6. QED
    BY <2>2, <2>3, <2>4, <2>5 DEF GraphInv
<1>2. CASE Suppress \/ Descend \/ DescendAttr \/ MissBase \/ Link \/ Return
  <2>1. /\ UNCHANGED control /\ stack # <<>>
        /\ nodes' \in [Names -> NodeKinds] /\ edges' \subseteq Names \X Names
        /\ \A n \in Names : nodes[n] # "absent" => nodes'[n] = nodes[n]
        /\ StackInv'
    BY <1>0, <1>2, RecursionStep
  <2>2. GraphTypeOK'
    BY <1>0, <2>1 DEF control, GraphTypeOK
  <2>3. /\ Hooked' = Hooked /\ \A m \in Hooked : nodes'[m] = nodes[m] /\ nodes'[m] # "absent"
        /\ RanInv'
    BY <2>1, LoopFrame DEF control
  <2>4. HookInv'
    BY <1>0, <2>1, <2>3 DEF control, HookInv
  <2>5. QED
    BY <2>1, <2>2, <2>3, <2>4 DEF GraphInv
\* The phases before the hooks: the loop has not begun.
<1>3. CASE ScriptsDone
  <2>1. /\ phase = "scripts" /\ phase' = "hidden"
        /\ UNCHANGED <<project, order, nodes, edges, stack, hooks, position, hooked, ran>>
    BY <1>3 DEF ScriptsDone
  <2>2. GraphTypeOK' /\ StackInv'
    BY <1>0, <2>1 DEF GraphTypeOK, StackInv
  <2>3. HookInv' /\ RanInv'
    BY <1>0, <2>1 DEF HookInv, RanInv, Hooked
  <2>4. QED
    BY <2>2, <2>3 DEF GraphInv
<1>4. CASE AddHiddenImport
  <2> DEFINE n == project.hiddenimports[position]
             frame == Frame(Script, <<HiddenItem(n)>>, TRUE)
  <2>1. /\ phase = "hidden" /\ position <= Len(project.hiddenimports)
        /\ position' = position + 1
        /\ UNCHANGED <<project, order, phase, nodes, hooks, hooked, ran>>
        /\ \/ edges' = edges \cup {<<Script, n>>} /\ UNCHANGED stack
           \/ stack' = <<frame>> /\ UNCHANGED edges
    BY <1>4 DEF AddHiddenImport
  <2>2. GraphTypeOK'
    <3>1. CASE UNCHANGED edges
      BY <1>0, <2>1, <3>1 DEF GraphTypeOK
    <3>2. CASE edges' = edges \cup {<<Script, n>>}
      <4>1. nodes[n] # "absent" \/ nodes[n] = "absent"
        OBVIOUS
      <4>2. n \in Names /\ Script \in Names
        BY <1>p, <1>s, <2>1, ProjectTypes, LenProperties
      <4>3. QED
        BY <1>0, <2>1, <3>2, <4>2 DEF GraphTypeOK
    <3>3. QED
      BY <2>1, <3>1, <3>2
  <2>3. StackInv'
    <3>1. CASE UNCHANGED stack
      BY <1>0, <2>1, <3>1 DEF StackInv
    <3>2. CASE stack' = <<frame>>
      <4>1. n \in Names /\ Script \in Names
        BY <1>p, <1>s, <2>1, ProjectTypes, LenProperties
      <4>2. HiddenItem(n) \in Item
        BY <4>1 DEF HiddenItem, Item
      <4>3. frame \in Frames /\ frame.hidden
        BY <4>1, <4>2 DEF Frame, Frames
      <4> HIDE DEF frame
      <4>4. QED
        BY <3>2, <4>3, StackOfOne
    <3>3. QED
      BY <2>1, <3>1, <3>2
  <2>4. HookInv' /\ RanInv'
    BY <1>0, <2>1 DEF HookInv, RanInv, Hooked
  <2>5. QED
    BY <2>2, <2>3, <2>4 DEF GraphInv
<1>5. CASE StartHooks
  <2>1. /\ stack = <<>> /\ phase = "hidden" /\ phase' = "hooks" /\ position' = 1
        /\ UNCHANGED <<project, order, nodes, edges, stack, hooks, hooked, ran>>
    BY <1>5 DEF StartHooks
  <2>2. GraphTypeOK' /\ StackInv'
    BY <1>0, <2>1 DEF GraphTypeOK, StackInv
  <2>3. HookInv' /\ RanInv'
    BY <1>0, <2>1 DEF HookInv, RanInv, Hooked
  <2>4. QED
    BY <2>2, <2>3 DEF GraphInv
\* The loop.
<1>6. CASE SkipHook
  <2>1. /\ phase = "hooks" /\ stack = <<>> /\ position' = position + 1
        /\ order[position] \notin hooks \/ nodes[order[position]] = "absent"
        /\ UNCHANGED <<project, order, phase, nodes, edges, stack, hooks, hooked, ran>>
    BY <1>6 DEF SkipHook, AtHook
  <2>2. GraphTypeOK' /\ StackInv' /\ RanInv'
    BY <1>0, <2>1 DEF GraphTypeOK, StackInv, RanInv, Hooked
  <2>3. HookInv'
    <3>1. \A m \in hooked : \E i \in 1..(position' - 1) : order[i] = m
      BY <1>0, <1>p, <2>1 DEF HookInv
    <3>2. hooked = {} =>
            \A i \in 1..(position' - 1) : order[i] \notin hooks \/ nodes[order[i]] = "absent"
      <4>1. \A i \in 1..(position' - 1) : i = position \/ i \in 1..(position - 1)
        BY <1>p, <2>1
      <4>2. QED
        BY <1>0, <2>1, <4>1 DEF HookInv
    <3>3. QED
      BY <1>0, <2>1, <3>1, <3>2 DEF HookInv, Hooked
  <2>4. QED
    BY <2>2, <2>3 DEF GraphInv
<1>7. CASE IgnoreHook
  <2> DEFINE m == order[position]
  <2>1. /\ phase = "hooks" /\ stack = <<>> /\ position' = position + 1
        /\ m \in hooks /\ nodes[m] \in {"missing", "excluded"}
        /\ hooked' = hooked \cup {m}
        /\ UNCHANGED <<project, order, phase, nodes, edges, stack, hooks, ran>>
    BY <1>7 DEF IgnoreHook, AtHook
  <2>2. GraphTypeOK' /\ StackInv'
    BY <1>0, <2>1 DEF GraphTypeOK, StackInv
  <2>3. Hooked' = Hooked \cup {m} /\ m \in DOMAIN project.hooks /\ nodes[m] # "module"
    BY <1>0, <2>1 DEF Hooked, GraphTypeOK
  <2>4. \A k \in hooked' : \E i \in 1..(position' - 1) : order[i] = k
    <3>1. \A i \in 1..(position - 1) : i \in 1..(position' - 1)
      BY <1>p, <2>1
    <3>2. position \in 1..(position' - 1)
      BY <1>p, <2>1
    <3>3. QED
      BY <1>0, <2>1, <3>1, <3>2 DEF HookInv
  <2> HIDE DEF m
  <2>5. HookInv'
    BY <1>0, <2>1, <2>3, <2>4 DEF HookInv
  <2>6. RanInv'
    BY <1>0, <2>1, <2>3 DEF RanInv
  <2>7. QED
    BY <2>2, <2>5, <2>6 DEF GraphInv
<1>8. CASE RunHook
  <2> DEFINE m == order[position]
             frame == Frame(m, HiddenItems(project.hooks[m].hiddenimports), TRUE)
  <2>1. /\ phase = "hooks" /\ position <= Len(order) /\ position' = position + 1
        /\ m \in hooks /\ nodes[m] = "module" /\ stack' = <<frame>>
        /\ hooked' = hooked \cup {m} /\ ran' = Append(ran, m)
        /\ UNCHANGED <<project, order, phase, nodes, edges, hooks>>
    BY <1>8 DEF RunHook, AtHook
  <2>2. GraphTypeOK'
    BY <1>0, <2>1 DEF GraphTypeOK
  <2>3. Hooked' = Hooked \cup {m} /\ m \in DOMAIN project.hooks
    BY <1>0, <2>1 DEF Hooked, GraphTypeOK
  <2>4. StackInv'
    <3>1. m \in Names /\ project.hooks[m].hiddenimports \in Seq(Names)
      BY <1>p, <2>3, ProjectTypes
    <3>2. HiddenItems(project.hooks[m].hiddenimports) \in Seq(Item)
      <4> DEFINE names == project.hooks[m].hiddenimports
      <4>1. DOMAIN names = 1..Len(names) /\ Len(names) \in Nat
            /\ \A i \in 1..Len(names) : names[i] \in Names
        BY <3>1, LenProperties
      <4> HIDE DEF names
      <4>2. \A i \in 1..Len(names) : HiddenItem(names[i]) \in Item
        BY <4>1 DEF HiddenItem, Item
      <4>3. HiddenItems(names) \in [1..Len(names) -> Item]
        BY <4>1, <4>2 DEF HiddenItems
      <4>4. HiddenItems(names) \in Seq(Item)
        BY <4>1, <4>3, SeqDef
      <4>5. QED
        BY <4>4 DEF names
    <3>3. frame \in Frames /\ frame.hidden
      BY <3>1, <3>2 DEF Frame, Frames
    <3> HIDE DEF frame
    <3>4. QED
      BY <2>1, <3>3, StackOfOne
\* A hook is at one place of the order, and so it has not been run before.
  <2>5. m \notin Hooked
    <3>1. m \notin hooked
      <4>1. SUFFICES ASSUME m \in hooked PROVE FALSE
        OBVIOUS
      <4>2. PICK i \in 1..(position - 1) : order[i] = m
        BY <1>0, <2>1, <4>1 DEF HookInv
      <4>n. Len(order) \in Nat
        BY <1>0, OrderTypes
      <4>3. i \in 1..Len(order) /\ position \in 1..Len(order) /\ i # position
        BY <1>p, <2>1, <4>n
      <4>4. QED
        BY <1>0, <4>2, <4>3, OrderTypes
    <3>2. QED
      BY <2>1, <3>1 DEF Hooked
  <2>6. \A k \in hooked' : \E i \in 1..(position' - 1) : order[i] = k
    <3>1. \A i \in 1..(position - 1) : i \in 1..(position' - 1)
      BY <1>p, <2>1
    <3>2. position \in 1..(position' - 1)
      BY <1>p, <2>1
    <3>3. QED
      BY <1>0, <2>1, <3>1, <3>2 DEF HookInv
  <2> HIDE DEF m, frame
  <2>7. HookInv'
    BY <1>0, <2>1, <2>3, <2>6 DEF HookInv
  <2>8. RanInv'
    <3>1. /\ ran' \in Seq(DOMAIN project.hooks) /\ Len(ran') = Len(ran) + 1 /\ Len(ran) \in Nat
          /\ \A i \in 1..Len(ran) : ran'[i] = ran[i]
          /\ ran'[Len(ran) + 1] = m
      BY <1>0, <2>1, <2>3, AppendProperties, LenProperties DEF RanInv
    <3>2. \A i \in 1..Len(ran) : ran[i] # m
      BY <1>0, <2>1, <2>3, <2>5 DEF RanInv
    <3>3. ASSUME NEW i \in 1..Len(ran'), NEW j \in 1..Len(ran'), ran'[i] = ran'[j]
          PROVE  i = j
      <4>1. CASE i \in 1..Len(ran) /\ j \in 1..Len(ran)
        BY <1>0, <3>1, <3>3, <4>1 DEF RanInv
      <4>2. CASE i = Len(ran) + 1 /\ j \in 1..Len(ran)
        BY <3>1, <3>2, <3>3, <4>2
      <4>3. CASE j = Len(ran) + 1 /\ i \in 1..Len(ran)
        BY <3>1, <3>2, <3>3, <4>3
      <4>4. QED
        BY <3>1, <4>1, <4>2, <4>3
    <3>4. ASSUME NEW k \in DOMAIN project.hooks
          PROVE  (\E i \in 1..Len(ran') : ran'[i] = k) <=> (k \in Hooked' /\ nodes'[k] = "module")
      <4>1. (\E i \in 1..Len(ran') : ran'[i] = k)
              <=> (k = m \/ \E i \in 1..Len(ran) : ran[i] = k)
        <5>1. \A i \in 1..Len(ran') : i = Len(ran) + 1 \/ i \in 1..Len(ran)
          BY <3>1
        <5>2. Len(ran) + 1 \in 1..Len(ran') /\ \A i \in 1..Len(ran) : i \in 1..Len(ran')
          BY <3>1
        <5>3. QED
          BY <3>1, <5>1, <5>2
      <4>2. QED
        BY <1>0, <2>1, <2>3, <4>1 DEF RanInv
    <3>5. QED
      BY <2>1, <3>1, <3>3, <3>4 DEF RanInv
  <2>9. QED
    BY <2>2, <2>4, <2>7, <2>8 DEF GraphInv
\* If no hook has been run, all that are left are for modules that were not found.
<1>9. CASE EndIteration
  <2>1. /\ phase = "hooks" /\ stack = <<>> /\ position > Len(order) /\ position' = 1
        /\ hooks' = hooks \ hooked /\ hooked' = {}
        /\ phase' = IF hooked = {} THEN "rthooks" ELSE "hooks"
        /\ UNCHANGED <<project, order, nodes, edges, stack, ran>>
    BY <1>9 DEF EndIteration
  <2>2. GraphTypeOK' /\ StackInv'
    BY <1>0, <2>1 DEF GraphTypeOK, StackInv
  <2>3. Hooked' = Hooked
    BY <1>0, <2>1 DEF Hooked, GraphTypeOK
  <2>4. RanInv'
    BY <1>0, <2>1, <2>3 DEF RanInv
  <2>5. ASSUME hooked = {} PROVE \A m \in hooks' : nodes[m] # "module"
    <3> SUFFICES ASSUME NEW m \in hooks' PROVE nodes[m] # "module"
      OBVIOUS
    <3>1. m \in hooks /\ m \in DOMAIN project.hooks
      BY <1>0, <2>1 DEF GraphTypeOK
    <3>2. PICK i \in 1..Len(order) : order[i] = m
      BY <1>0, <3>1, OrderTypes
    <3>3. i \in 1..(position - 1)
      BY <1>0, <1>p, <2>1, OrderTypes
    <3>4. QED
      BY <1>0, <2>1, <2>5, <3>1, <3>2, <3>3 DEF HookInv
  <2>6. HookInv'
    BY <1>0, <2>1, <2>3, <2>5 DEF HookInv
  <2>7. QED
    BY <2>2, <2>4, <2>6 DEF GraphInv
<1>10. CASE AddRunTimeHook
  <2> DEFINE frame == Frame(RunTimeHook, project.imports[RunTimeHook], FALSE)
  <2>1. /\ phase = "rthooks" /\ phase' = "done"
        /\ UNCHANGED <<project, order, hooks, position, hooked, ran>>
        /\ \/ /\ nodes' = [nodes EXCEPT ![RunTimeHook] = "script"]
              /\ edges' = edges \cup {<<Script, RunTimeHook>>}
              /\ stack' = <<frame>>
           \/ UNCHANGED <<nodes, edges, stack>>
    BY <1>10 DEF AddRunTimeHook
  <2>2. Script \in Names /\ RunTimeHook \in Names
    BY ModGraphAssumption
  <2>3. GraphTypeOK'
    <3>1. nodes' \in [Names -> NodeKinds] /\ edges' \subseteq Names \X Names
      <4>1. /\ nodes \in [Names -> NodeKinds] /\ edges \subseteq Names \X Names
            /\ "script" \in NodeKinds
        BY <1>0 DEF GraphTypeOK, NodeKinds
      <4>2. CASE /\ nodes' = [nodes EXCEPT ![RunTimeHook] = "script"]
                 /\ edges' = edges \cup {<<Script, RunTimeHook>>}
        BY <2>2, <4>1, <4>2
      <4>3. CASE UNCHANGED <<nodes, edges, stack>>
        BY <4>1, <4>3
      <4>4. QED
        BY <2>1, <4>2, <4>3
    <3>2. QED
      BY <1>0, <2>1, <3>1 DEF GraphTypeOK
  <2>4. StackInv'
    <3>1. CASE UNCHANGED <<nodes, edges, stack>>
      BY <1>0, <3>1 DEF StackInv
    <3>2. CASE nodes' = [nodes EXCEPT ![RunTimeHook] = "script"] /\ stack' = <<frame>>
      <4>1. frame \in Frames /\ frame.node = RunTimeHook
        BY <1>p, <2>2, ProjectTypes DEF Frame, Frames
      <4>2. nodes'[RunTimeHook] # "absent"
        BY <1>0, <2>2, <3>2 DEF GraphTypeOK
      <4> HIDE DEF frame
      <4>3. QED
        BY <3>2, <4>1, <4>2, StackOfOne
    <3>3. QED
      BY <2>1, <3>1, <3>2
  <2>5. HookInv'
    <3>1. Hooked' = Hooked /\ \A m \in Hooked : m \in Names
      BY <1>0, <1>p, <2>1, ProjectTypes DEF Hooked, GraphTypeOK
    <3>2. \A m \in Names : nodes[m] # "absent" => nodes'[m] # "absent"
      BY <1>0, <2>1, <2>2 DEF GraphTypeOK
    <3>3. QED
      BY <1>0, <2>1, <3>1, <3>2 DEF HookInv
  <2>6. RanInv'
    BY <1>0, <2>1 DEF RanInv
  <2>7. QED
    BY <2>3, <2>4, <2>5, <2>6 DEF GraphInv
<1>11. QED
  BY <1>1, <1>2, <1>3, <1>4, <1>5, <1>6, <1>7, <1>8, <1>9, <1>10 DEF Next, Step

\* The inductive invariant: the stack of calls, and how far the loop is.
THEOREM Invariance == Spec => []GraphInv
<1>1. QED
  BY GraphInit, GraphStep, PTL DEF Spec

-----------------------------------------------------------------------------
(* What it shows.                                                          *)

\* At most one frame of the stack scans a given module's code.
LEMMA OneScan ==
    ASSUME StackInv, NEW n \in Names
    PROVE  Cardinality({i \in DOMAIN stack : stack[i].node = n /\ ~stack[i].hidden}) <= 1
<1> DEFINE S == {i \in DOMAIN stack : stack[i].node = n /\ ~stack[i].hidden}
<1>1. DOMAIN stack = 1..Len(stack)
  BY LenProperties DEF StackInv
<1>2. \A i, j \in S : i = j
  BY <1>1 DEF StackInv
<1>3. CASE S = {}
  BY <1>3, FS_EmptySet
<1>4. CASE S # {}
  <2>1. PICK i \in S : TRUE
    BY <1>4
  <2>2. S = {i}
    BY <1>2, <2>1
  <2> HIDE DEF S
  <2>3. Cardinality(S) = 1
    BY <2>2, FS_Singleton
  <2>4. QED
    BY <2>3 DEF S
<1>5. QED
  BY <1>3, <1>4

\* Types: the graph is over the program's names, and the code of a module is
\* scanned by one call of _process_imports at a time, however its imports are
\* tied in cycles (_load_module adds the node before it goes on).
THEOREM TypeCorrect == Spec => []TypeOK
<1>1. ASSUME GraphInv PROVE TypeOK
  <2>1. \A n \in Names : Cardinality({i \in DOMAIN stack : stack[i].node = n
                                                            /\ ~stack[i].hidden}) <= 1
    BY <1>1, OneScan DEF GraphInv
  <2>2. QED
    BY <1>1, <2>1 DEF GraphInv, GraphTypeOK, TypeOK, NodeKinds
<1>2. QED
  BY <1>1, Invariance, PTL

\* When the loop over the post-graph hooks ends, the hook of every module that
\* is in the graph has been run, and no hook has been run twice, whatever the
\* order of the hooks, and however late a hook's hidden imports brought a
\* hooked module in (process_post_graph_hooks).
THEOREM RunsEachHookOnce == Spec => []HookedOnce
<1>1. ASSUME GraphInv PROVE HookedOnce
  <2>1. DOMAIN ran = 1..Len(ran) /\ \A i \in 1..Len(ran) : ran[i] \in DOMAIN project.hooks
    BY <1>1, LenProperties DEF GraphInv, RanInv
  <2>2. \A i, j \in DOMAIN ran : ran[i] = ran[j] => i = j
    BY <1>1, <2>1 DEF GraphInv, RanInv
  <2>3. ASSUME phase = "rthooks"
        PROVE  {ran[i] : i \in DOMAIN ran} = {m \in DOMAIN project.hooks : nodes[m] = "module"}
    <3>1. \A m \in DOMAIN project.hooks :
            (\E i \in 1..Len(ran) : ran[i] = m) <=> (m \in Hooked /\ nodes[m] = "module")
      BY <1>1, <2>3 DEF GraphInv, RanInv
    <3>2. \A m \in DOMAIN project.hooks : nodes[m] = "module" => m \in Hooked
      BY <1>1, <2>3 DEF GraphInv, HookInv, Hooked
    <3>3. QED
      BY <2>1, <3>1, <3>2
  <2>4. QED
    BY <2>2, <2>3 DEF HookedOnce
<1>2. QED
  BY <1>1, Invariance, PTL

-----------------------------------------------------------------------------
(* Paths: a package's path is the beginning of those of its submodules.    *)

LEMMA PathDepth ==
    ASSUME NEW n \in Names, NEW i \in 1..Len(Path[n])
    PROVE  /\ Path[n][i] \in Names /\ Path[n][i] \in Ancestors(n)
           /\ Len(Path[Path[n][i]]) = i
           /\ \A j \in 1..i : Path[Path[n][i]][j] = Path[n][j]
<1> DEFINE path == Path[n]
<1>1. path \in Seq(Names) /\ Path[path[i]] = SubSeq(path, 1, i)
  BY ModGraphAssumption
<1>2. Len(path) \in Nat /\ \A j \in 1..Len(path) : path[j] \in Names
  BY <1>1, LenProperties
<1>3. i \in 1..Len(path)
  OBVIOUS
<1>4. Path[n][i] \in Ancestors(n)
  BY DEF Ancestors
<1> HIDE DEF path
<1>5. 1 \in Int /\ i \in Int /\ 1 <= i /\ \A j \in 1..i : path[j] \in Names
  BY <1>2, <1>3
<1>6. /\ Len(SubSeq(path, 1, i)) = IF 1 <= i THEN i - 1 + 1 ELSE 0
      /\ \A j \in 1..(i - 1 + 1) : SubSeq(path, 1, i)[j] = path[1 + j - 1]
  BY <1>5, SubSeqProperties
<1>7. /\ Len(SubSeq(path, 1, i)) = i
      /\ \A j \in 1..i : SubSeq(path, 1, i)[j] = path[j]
  BY <1>5, <1>6
<1>8. QED
  BY <1>1, <1>2, <1>3, <1>4, <1>7 DEF path

LEMMA ParentPath ==
    ASSUME NEW n \in Names, ~TopLevel(n)
    PROVE  /\ Parent(n) \in Names /\ Parent(n) # n /\ Parent(n) \in Ancestors(n)
           /\ Ancestors(n) = Ancestors(Parent(n)) \cup {n}
<1> DEFINE size == Len(Path[n])
           path == Path[n]
           p == Parent(n)
<1>1. size \in Nat \ {0} /\ path[size] = n /\ size # 1 /\ p = path[size - 1]
  BY PathTypes, ModGraphAssumption DEF TopLevel, Parent
<1> HIDE DEF size
<1>2. size - 1 \in 1..size
  BY <1>1
<1>3. /\ p \in Names /\ p \in Ancestors(n) /\ Len(Path[p]) = size - 1
      /\ \A j \in 1..(size - 1) : Path[p][j] = path[j]
  BY <1>1, <1>2, PathDepth DEF size
<1> HIDE DEF p
<1>4. p # n
  BY <1>1, <1>3 DEF size
<1> HIDE DEF path
<1>5. Ancestors(p) = {path[i] : i \in 1..(size - 1)}
  BY <1>3 DEF Ancestors
<1>6. Ancestors(n) = {path[i] : i \in 1..size}
  BY DEF Ancestors, path, size
<1>7. \A i \in 1..size : i = size \/ i \in 1..(size - 1)
  BY <1>1
<1>8. size \in 1..size /\ \A i \in 1..(size - 1) : i \in 1..size
  BY <1>1
<1>9. {path[i] : i \in 1..size} = {path[i] : i \in 1..(size - 1)} \cup {n}
  BY <1>1, <1>7, <1>8
<1>10. QED
  BY <1>3, <1>4, <1>5, <1>6, <1>9 DEF p

\* What is found is found with its packages.
LEMMA FoundPackages ==
    ASSUME NEW n \in Names, NEW m \in Ancestors(n)
    PROVE  /\ Ancestors(m) \subseteq Ancestors(n)
           /\ Found(n) => Found(m)
<1>1. PICK i \in 1..Len(Path[n]) : m = Path[n][i]
  BY DEF Ancestors
<1>2. /\ m \in Names /\ Len(Path[m]) = i
      /\ \A j \in 1..i : Path[m][j] = Path[n][j]
  BY <1>1, PathDepth
<1>3. Len(Path[n]) \in Nat /\ Path[n][Len(Path[n])] = n
  BY PathTypes, ModGraphAssumption
<1>4. \A k \in Ancestors(m) : \E j \in 1..i : k = Path[n][j]
  BY <1>2 DEF Ancestors
<1>5. \A j \in 1..i : j \in 1..Len(Path[n])
  BY <1>3
<1>6. Ancestors(m) \subseteq Ancestors(n)
  BY <1>4, <1>5 DEF Ancestors
<1>7. ASSUME Found(n), NEW k \in Ancestors(m), k # m PROVE k \in Packages
  <2>1. k # n
    <3>1. SUFFICES ASSUME k = n PROVE FALSE
      OBVIOUS
    <3>2. PICK j \in 1..i : n = Path[n][j]
      BY <1>4, <3>1
    <3>3. Len(Path[n]) = j
      BY <1>5, <3>2, PathDepth
    <3>4. i = Len(Path[n])
      BY <1>3, <3>3
    <3>5. QED
      BY <1>1, <1>3, <1>7, <3>1, <3>4
  <2>2. QED
    BY <1>6, <1>7, <2>1 DEF Found
<1>8. Found(n) => Found(m)
  BY <1>6, <1>7 DEF Found
<1>9. QED
  BY <1>6, <1>8

\* A submodule is found if its package is, and the other way round.
LEMMA FoundParent ==
    ASSUME NEW n \in Names, ~TopLevel(n)
    PROVE  Found(n) <=> /\ Found(Parent(n)) /\ Parent(n) \in Packages
                        /\ n \in Exists \ project.excludes
<1>1. /\ Parent(n) \in Names /\ Parent(n) # n /\ Parent(n) \in Ancestors(n)
      /\ Ancestors(n) = Ancestors(Parent(n)) \cup {n}
  BY ParentPath
<1>2. Found(n) => Found(Parent(n))
  BY <1>1, FoundPackages
<1>3. QED
  BY <1>1, <1>2 DEF Found

LEMMA FoundTop ==
    ASSUME NEW n \in Names, TopLevel(n)
    PROVE  Found(n) <=> n \in Exists \ project.excludes
<1>1. Path[n][Len(Path[n])] = n
  BY ModGraphAssumption
<1>2. Ancestors(n) = {n}
  BY <1>1 DEF TopLevel, Ancestors
<1>3. QED
  BY <1>2 DEF Found

\* The part of a path that an import comes to first is below one that is there.
LEMMA FirstAbsentParent ==
    ASSUME NEW n \in Names, ~Present(n)
    PROVE  LET m == FirstAbsent(n)
           IN /\ m \in Names /\ m \in Ancestors(n) /\ nodes[m] = "absent"
              /\ ~TopLevel(m) => nodes[Parent(m)] # "absent"
<1> DEFINE m == FirstAbsent(n)
<1>1. PICK i \in 1..Len(Path[n]) :
        /\ m = Path[n][i] /\ nodes[Path[n][i]] = "absent"
        /\ \A j \in 1..(i - 1) : nodes[Path[n][j]] # "absent"
  BY FirstAbsentPlace
<1>2. /\ m \in Names /\ m \in Ancestors(n) /\ Len(Path[m]) = i
      /\ \A j \in 1..i : Path[m][j] = Path[n][j]
  BY <1>1, PathDepth
<1>3. ASSUME ~TopLevel(m) PROVE nodes[Parent(m)] # "absent"
  <2>1. i # 1 /\ i - 1 \in 1..(i - 1) /\ i - 1 \in 1..i
    BY <1>2, <1>3 DEF TopLevel
  <2>2. Parent(m) = Path[n][i - 1]
    BY <1>2, <2>1 DEF Parent
  <2>3. QED
    BY <1>1, <2>1, <2>2
<1>4. QED
  BY <1>1, <1>2, <1>3

-----------------------------------------------------------------------------
(* What is reached along a relation.                                       *)

LEMMA ClosureClosed ==
    ASSUME NEW start \in SUBSET Names, NEW relation \in SUBSET (Names \X Names)
    PROVE  /\ Closure(start, relation) \subseteq Names /\ start \subseteq Closure(start, relation)
           /\ \A n, m : /\ <<n, m>> \in relation /\ n \in Closure(start, relation)
                        => m \in Closure(start, relation)
<1> DEFINE closed == {S \in SUBSET Names : Closed(S, start, relation)}
<1>1. Closure(start, relation) = {n \in Names : \A S \in closed : n \in S}
  BY DEF Closure
<1>2. \A S \in closed : start \subseteq S /\ \A n, m : <<n, m>> \in relation /\ n \in S => m \in S
  <2> SUFFICES ASSUME NEW S \in closed, NEW n, NEW m, <<n, m>> \in relation, n \in S
               PROVE  start \subseteq S /\ m \in S
    BY DEF Closed
  <2>1. start \subseteq S /\ \A e \in relation : e[1] \in S => e[2] \in S
    BY DEF Closed
  <2>2. <<n, m>>[1] = n /\ <<n, m>>[2] = m
    OBVIOUS
  <2>3. QED
    BY <2>1, <2>2
<1>3. \A n, m : <<n, m>> \in relation => m \in Names
  OBVIOUS
<1>4. QED
  <2> HIDE DEF closed
  <2>1. QED
    BY <1>1, <1>2, <1>3

LEMMA ClosureLeast ==
    ASSUME NEW start \in SUBSET Names, NEW relation \in SUBSET (Names \X Names),
           NEW S \in SUBSET Names, start \subseteq S,
           \A n, m : <<n, m>> \in relation /\ n \in S => m \in S
    PROVE  Closure(start, relation) \subseteq S
<1>1. ASSUME NEW e \in relation, e[1] \in S PROVE e[2] \in S
  <2>1. e = <<e[1], e[2]>>
    OBVIOUS
  <2>2. QED
    BY <1>1, <2>1
<1>2. Closed(S, start, relation)
  BY <1>1 DEF Closed
<1>3. QED
  BY <1>2 DEF Closure

LEMMA ClosureGrows ==
    ASSUME NEW start \in SUBSET Names, NEW relation \in SUBSET (Names \X Names),
           NEW start2 \in SUBSET Names, NEW relation2 \in SUBSET (Names \X Names),
           start \subseteq start2, relation \subseteq relation2
    PROVE  Closure(start, relation) \subseteq Closure(start2, relation2)
<1> DEFINE S == Closure(start2, relation2)
<1>1. /\ S \subseteq Names /\ start2 \subseteq S
      /\ \A n, m : <<n, m>> \in relation2 /\ n \in S => m \in S
  BY ClosureClosed
<1> HIDE DEF S
<1>2. Closure(start, relation) \subseteq S
  BY <1>1, ClosureLeast
<1>3. QED
  BY <1>2 DEF S

-----------------------------------------------------------------------------
(* Names that can be found are never found missing, and no other is ever a *)
(* module.                                                                 *)

FoundInv ==
    \A n \in Names :
        /\ nodes[n] = "module" => Found(n)
        /\ nodes[n] = "module" /\ ~TopLevel(n) => nodes[Parent(n)] = "module"
        /\ Found(n) => nodes[n] \in {"absent", "module"}
        /\ nodes[n] = "absent" => n \notin project.excludes
        /\ nodes[n] = "script" => n = Script \/ (n = RunTimeHook /\ phase = "done")

\* A name that is in the graph below its package can be found if, and only if,
\* it can be imported.
LEMMA ImportableIsFound ==
    ASSUME FoundInv, NEW n \in Names, nodes[n] = "absent",
           ~TopLevel(n) => nodes[Parent(n)] # "absent"
    PROVE  Importable(n) <=> Found(n)
<1>1. n \notin project.excludes
  BY DEF FoundInv
<1>2. CASE TopLevel(n)
  BY <1>1, <1>2, FoundTop DEF Importable
<1>3. CASE ~TopLevel(n)
  <2>1. Parent(n) \in Names
    BY <1>3, ParentPath
  <2>2. nodes[Parent(n)] = "module" <=> Found(Parent(n))
    BY <1>3, <2>1 DEF FoundInv
  <2>3. QED
    BY <1>1, <1>3, <2>2, FoundParent DEF Importable
<1>4. QED
  BY <1>2, <1>3

LEMMA FoundInit == Init /\ GraphTypeOK => FoundInv
<1> SUFFICES ASSUME Init, GraphTypeOK, NEW n \in Names
             PROVE  /\ nodes[n] = "module" => Found(n)
                    /\ nodes[n] = "module" /\ ~TopLevel(n) => nodes[Parent(n)] = "module"
                    /\ Found(n) => nodes[n] \in {"absent", "module"}
                    /\ nodes[n] = "absent" => n \notin project.excludes
                    /\ nodes[n] = "script" => n = Script
  BY DEF FoundInv
<1> DEFINE Kind(m) == CASE m = Script -> "script"
                        [] m \in project.excludes \ {Script} -> "excluded"
                        [] OTHER -> "absent"
<1>1. nodes[n] = Kind(n)
  BY DEF Init
<1>2. Found(n) => n \in Exists \ project.excludes /\ n # Script
  BY PathTypes, ModGraphAssumption DEF Found
<1>3. CASE n = Script
  BY <1>1, <1>2, <1>3
<1>4. CASE n \in project.excludes \ {Script}
  <2>1. Kind(n) = "excluded"
    BY <1>4
  <2>2. QED
    BY <1>1, <1>2, <1>4, <2>1
<1>5. CASE n # Script /\ n \notin project.excludes
  <2>1. Kind(n) = "absent"
    BY <1>5
  <2>2. QED
    BY <1>1, <1>5, <2>1
<1>6. QED
  BY <1>3, <1>4, <1>5

LEMMA AttrFacts ==
    ASSUME stack \in Seq(Frames), stack # <<>>, Top.todo # <<>>, Attr # NoAttr
    PROVE  /\ Attr = Import.attr /\ Attr \in Names /\ ~Suppressed(Attr)
           /\ ~TopLevel(Attr) /\ Parent(Attr) = Import.base
           /\ nodes[Import.base] = "module" /\ Import.base \in Packages
<1>1. Attr = Import.attr /\ ~Suppressed(Import.attr) /\ nodes[Import.base] = "module"
      /\ Import.base \in Packages
  BY DEF Attr
<1>2. Import \in Item
  BY TopTypes
<1>3. ~TopLevel(Import.attr) /\ Parent(Import.attr) = Import.base
  BY <1>1, <1>2 DEF Item
<1>4. Attr \in Names
  BY AttrTypes
<1>5. QED
  BY <1>1, <1>3, <1>4

\* All that a step does to the nodes.
NodeStep ==
    \/ nodes' = nodes
    \/ \E n \in Names : nodes[n] = "absent" /\ Importable(n) /\ EnterModule(n)
    \/ \E n \in Names : /\ nodes[n] = "absent" /\ ~Found(n)
                        /\ nodes' = [nodes EXCEPT ![n] = "missing"]
    \/ /\ phase' = "done" /\ nodes' = [nodes EXCEPT ![RunTimeHook] = "script"]
       /\ stack' = <<Frame(RunTimeHook, project.imports[RunTimeHook], FALSE)>>

LEMMA NodeSteps ==
    ASSUME GraphInv, FoundInv, [Next]_vars
    PROVE  NodeStep /\ UNCHANGED project /\ (phase = "done" => phase' = "done")
<1>1. stack \in Seq(Frames) /\ nodes \in [Names -> NodeKinds]
  BY DEF GraphInv, StackInv, GraphTypeOK
<1>2. CASE UNCHANGED nodes /\ UNCHANGED <<project, phase>>
  BY <1>2 DEF NodeStep
<1>3. CASE Descend
  <2> DEFINE n == FirstAbsent(Import.base)
  <2>1. /\ stack # <<>> /\ Top.todo # <<>> /\ ~Present(Import.base) /\ UNCHANGED control
        /\ Importable(n) /\ EnterModule(n)
    BY <1>3 DEF Descend
  <2>2. n \in Names /\ nodes[n] = "absent"
    BY <1>1, <2>1, TopTypes, FirstAbsentPlace
  <2> HIDE DEF n
  <2>3. QED
    BY <2>1, <2>2 DEF NodeStep, control
<1>4. CASE DescendAttr
  <2>1. /\ stack # <<>> /\ Top.todo # <<>> /\ Attr # NoAttr /\ UNCHANGED control
        /\ nodes[Attr] = "absent" /\ Importable(Attr) /\ EnterModule(Attr)
    BY <1>4 DEF DescendAttr
  <2>2. Attr \in Names
    BY <1>1, <2>1, AttrTypes
  <2>3. QED
    BY <2>1, <2>2 DEF NodeStep, control
<1>5. CASE MissBase
  <2> DEFINE n == FirstAbsent(Import.base)
  <2>1. /\ stack # <<>> /\ Top.todo # <<>> /\ ~Present(Import.base) /\ UNCHANGED control
        /\ ~Importable(n)
        /\ nodes' = nodes \/ nodes' = [nodes EXCEPT ![n] = "missing"]
    BY <1>5 DEF MissBase
  <2>2. n \in Names /\ nodes[n] = "absent" /\ (~TopLevel(n) => nodes[Parent(n)] # "absent")
    BY <1>1, <2>1, TopTypes, FirstAbsentParent
  <2> HIDE DEF n
  <2>3. ~Found(n)
    BY <2>1, <2>2, ImportableIsFound
  <2>4. QED
    BY <2>1, <2>2, <2>3 DEF NodeStep, control
<1>6. CASE Link
  <2>1. /\ stack # <<>> /\ Top.todo # <<>> /\ UNCHANGED control
        /\ ~(Attr # NoAttr /\ nodes[Attr] = "absent" /\ Importable(Attr))
        /\ \/ nodes' = nodes
           \/ /\ Attr # NoAttr
              /\ nodes' = [nodes EXCEPT ![Attr] = IF @ = "absent" THEN "missing" ELSE @]
    BY <1>6 DEF Link
  <2>2. CASE nodes' = nodes
    BY <2>1, <2>2 DEF NodeStep, control
  <2>3. CASE /\ Attr # NoAttr /\ nodes[Attr] = "absent"
             /\ nodes' = [nodes EXCEPT ![Attr] = IF @ = "absent" THEN "missing" ELSE @]
    <3>1. /\ Attr \in Names /\ Parent(Attr) = Import.base /\ nodes[Import.base] = "module"
      BY <1>1, <2>1, <2>3, AttrFacts
    <3>2. ~Found(Attr)
      BY <2>1, <2>3, <3>1, ImportableIsFound
    <3>3. nodes' = [nodes EXCEPT ![Attr] = "missing"]
      BY <2>3
    <3>4. QED
      BY <2>1, <2>3, <3>1, <3>2, <3>3 DEF NodeStep, control
  <2>4. CASE /\ Attr # NoAttr /\ nodes[Attr] # "absent"
             /\ nodes' = [nodes EXCEPT ![Attr] = IF @ = "absent" THEN "missing" ELSE @]
    <3>1. nodes' = nodes
      BY <1>1, <2>4
    <3>2. QED
      BY <2>1, <3>1 DEF NodeStep, control
  <2>5. QED
    BY <2>1, <2>2, <2>3, <2>4
<1>7. CASE AddRunTimeHook
  BY <1>7 DEF AddRunTimeHook, NodeStep
<1>8. CASE ScriptsDone \/ StartHooks \/ EndIteration
  BY <1>8 DEF ScriptsDone, StartHooks, EndIteration, NodeStep
<1>9. CASE Suppress \/ Return \/ AddHiddenImport \/ SkipHook \/ IgnoreHook \/ RunHook
           \/ Terminated \/ UNCHANGED vars
  BY <1>2, <1>9 DEF Suppress, Return, AddHiddenImport, SkipHook, IgnoreHook, RunHook,
                    Terminated, vars, control
<1>10. QED
  BY <1>3, <1>4, <1>5, <1>6, <1>7, <1>8, <1>9 DEF Next, Step

LEMMA FoundStep == ASSUME GraphInv, FoundInv, [Next]_vars PROVE FoundInv'
<1>1. /\ NodeStep /\ UNCHANGED project /\ (phase = "done" => phase' = "done")
      /\ nodes \in [Names -> NodeKinds] /\ "module" \in NodeKinds
  BY NodeSteps DEF GraphInv, GraphTypeOK, NodeKinds
<1>2. \A n : Found(n)' <=> Found(n)
  BY <1>1 DEF Found
<1>3. \A n \in Names : ~TopLevel(n) => Parent(n) \in Names
  BY PathTypes
<1>4. SUFFICES ASSUME NEW n \in Names
               PROVE  /\ nodes'[n] = "module" => Found(n)
                      /\ nodes'[n] = "module" /\ ~TopLevel(n) => nodes'[Parent(n)] = "module"
                      /\ Found(n) => nodes'[n] \in {"absent", "module"}
                      /\ nodes'[n] = "absent" => n \notin project.excludes
                      /\ nodes'[n] = "script" =>
                           n = Script \/ (n = RunTimeHook /\ phase' = "done")
  BY <1>1, <1>2 DEF FoundInv
<1>5. CASE nodes' = nodes
  BY <1>1, <1>5 DEF FoundInv
<1>6. ASSUME NEW m \in Names, nodes[m] = "absent", Importable(m), EnterModule(m)
      PROVE  /\ nodes'[n] = "module" => Found(n)
             /\ nodes'[n] = "module" /\ ~TopLevel(n) => nodes'[Parent(n)] = "module"
             /\ Found(n) => nodes'[n] \in {"absent", "module"}
             /\ nodes'[n] = "absent" => n \notin project.excludes
             /\ nodes'[n] = "script" => n = Script \/ (n = RunTimeHook /\ phase' = "done")
  <2>1. ~TopLevel(m) => nodes[Parent(m)] = "module"
    BY <1>6 DEF Importable
  <2>2. Found(m)
    BY <1>6, <2>1, ImportableIsFound
  <2>3. \A k \in Names : nodes'[k] = IF k = m THEN "module" ELSE nodes[k]
    BY <1>1, <1>6 DEF EnterModule
  <2>4. CASE n = m
    BY <1>3, <2>1, <2>2, <2>3, <2>4
  <2>5. CASE n # m
    BY <1>1, <1>3, <2>3, <2>5 DEF FoundInv
  <2>6. QED
    BY <2>4, <2>5
<1>7. ASSUME NEW m \in Names, nodes[m] = "absent", ~Found(m),
             nodes' = [nodes EXCEPT ![m] = "missing"]
      PROVE  /\ nodes'[n] = "module" => Found(n)
             /\ nodes'[n] = "module" /\ ~TopLevel(n) => nodes'[Parent(n)] = "module"
             /\ Found(n) => nodes'[n] \in {"absent", "module"}
             /\ nodes'[n] = "absent" => n \notin project.excludes
             /\ nodes'[n] = "script" => n = Script \/ (n = RunTimeHook /\ phase' = "done")
  <2>1. \A k \in Names : nodes'[k] = IF k = m THEN "missing" ELSE nodes[k]
    BY <1>1, <1>7
  <2>2. QED
    BY <1>1, <1>3, <1>7, <2>1 DEF FoundInv
<1>8. CASE phase' = "done" /\ nodes' = [nodes EXCEPT ![RunTimeHook] = "script"]
  <2>1. ~Found(RunTimeHook)
    BY PathTypes, ModGraphAssumption DEF Found
  <2>2. RunTimeHook \in Names /\ nodes[RunTimeHook] # "module"
    BY <2>1, ModGraphAssumption DEF FoundInv
  <2>3. \A k \in Names : nodes'[k] = IF k = RunTimeHook THEN "script" ELSE nodes[k]
    BY <1>1, <1>8
  <2>4. QED
    BY <1>1, <1>3, <1>8, <2>1, <2>2, <2>3 DEF FoundInv
<1>9. QED
  BY <1>1, <1>5, <1>6, <1>7, <1>8 DEF NodeStep

-----------------------------------------------------------------------------
(* The frames of the stack, and what they have left to do.                 *)

LEMMA SeqSetTypes ==
    ASSUME NEW S, NEW s \in Seq(S)
    PROVE  /\ SeqSet(s) \subseteq S /\ \A i \in 1..Len(s) : s[i] \in SeqSet(s)
           /\ \A x \in SeqSet(s) : \E i \in 1..Len(s) : s[i] = x
<1>1. DOMAIN s = 1..Len(s) /\ \A i \in 1..Len(s) : s[i] \in S
  BY LenProperties
<1>2. QED
  BY <1>1 DEF SeqSet

LEMMA DropFrames ==
    ASSUME stack \in Seq(Frames), stack # <<>>, Top.todo # <<>>, stack' = Drop
    PROVE  /\ Len(stack') = Len(stack) /\ Import \in SeqSet(Top.todo)
           /\ \A i \in 1..Len(stack) :
                /\ stack'[i].node = stack[i].node /\ stack'[i].hidden = stack[i].hidden
                /\ SeqSet(stack'[i].todo) \subseteq SeqSet(stack[i].todo)
                /\ \A t \in SeqSet(stack[i].todo) :
                     t \in SeqSet(stack'[i].todo) \/ (i = Len(stack) /\ t = Import)
<1> DEFINE todo == Top.todo
           rest == [Top EXCEPT !.todo = Tail(@)]
<1>1. /\ Len(stack') = Len(stack) /\ Len(stack) \in 1..Len(stack) /\ Top \in Frames
      /\ \A i \in 1..Len(stack) : /\ stack'[i].node = stack[i].node
                                  /\ stack'[i].hidden = stack[i].hidden
  BY DropTypes, TopTypes
<1>2. todo \in Seq(Item) /\ todo # <<>>
  BY <1>1 DEF Frames
<1>3. rest.todo = Tail(todo) /\ rest \in Frames
  <2>1. Tail(Top.todo) \in Seq(Item)
    BY <1>2, HeadTailProperties
  <2>2. QED
    BY <1>1, <2>1 DEF Frames
<1>4. Drop = [stack EXCEPT ![Len(stack)] = rest]
  BY DEF Drop, Top
<1> HIDE DEF rest
<1>5. \A i \in 1..Len(stack) : stack'[i] = IF i = Len(stack) THEN rest ELSE stack[i]
  <2>1. \A i \in 1..Len(stack) : Drop[i] = IF i = Len(stack) THEN rest ELSE stack[i]
    <3>1. DOMAIN stack = 1..Len(stack)
      BY LenProperties
    <3>2. QED
      BY <1>4, <3>1
  <2>2. QED
    BY <2>1
<1>6. Import = todo[1] /\ stack[Len(stack)].todo = todo
  BY <1>2 DEF Import, Top
<1> HIDE DEF todo
<1>7. /\ Len(todo) \in Nat \ {0} /\ Tail(todo) \in Seq(Item) /\ Len(Tail(todo)) = Len(todo) - 1
      /\ \A j \in 1..(Len(todo) - 1) : Tail(todo)[j] = todo[j + 1]
  <2>1. Len(todo) \in Nat \ {0}
    BY <1>2, EmptySeq, LenProperties
  <2>2. /\ Tail(todo) \in Seq(Item) /\ Len(Tail(todo)) = Len(todo) - 1
        /\ \A j \in 1..Len(Tail(todo)) : Tail(todo)[j] = todo[j + 1]
    BY <1>2, HeadTailProperties
  <2>3. QED
    BY <2>1, <2>2
<1>8. Import \in SeqSet(todo)
  <2>1. 1 \in 1..Len(todo)
    BY <1>7
  <2>2. QED
    BY <1>2, <1>6, <2>1, SeqSetTypes
<1>9. SeqSet(Tail(todo)) \subseteq SeqSet(todo)
  <2> SUFFICES ASSUME NEW x \in SeqSet(Tail(todo)) PROVE x \in SeqSet(todo)
    OBVIOUS
  <2>1. PICK j \in 1..Len(Tail(todo)) : Tail(todo)[j] = x
    BY <1>7, SeqSetTypes
  <2>2. j + 1 \in 1..Len(todo) /\ todo[j + 1] = x
    BY <1>7, <2>1
  <2>3. QED
    BY <1>2, <2>2, SeqSetTypes
<1>10. \A x \in SeqSet(todo) : x \in SeqSet(Tail(todo)) \/ x = Import
  <2> SUFFICES ASSUME NEW x \in SeqSet(todo), x # Import PROVE x \in SeqSet(Tail(todo))
    OBVIOUS
  <2>1. PICK j \in 1..Len(todo) : todo[j] = x
    BY <1>2, SeqSetTypes
  <2>2. j - 1 \in 1..Len(Tail(todo)) /\ Tail(todo)[j - 1] = x
    BY <1>6, <1>7, <2>1
  <2>3. QED
    BY <1>7, <2>2, SeqSetTypes
<1>11. ASSUME NEW i \in 1..Len(stack)
       PROVE  /\ SeqSet(stack'[i].todo) \subseteq SeqSet(stack[i].todo)
              /\ \A t \in SeqSet(stack[i].todo) :
                   t \in SeqSet(stack'[i].todo) \/ (i = Len(stack) /\ t = Import)
  <2>1. CASE i = Len(stack)
    BY <1>3, <1>5, <1>6, <1>9, <1>10, <2>1
  <2>2. CASE i # Len(stack)
    BY <1>5, <2>2
  <2>3. QED
    BY <2>1, <2>2
<1>12. QED
  BY <1>1, <1>8, <1>11 DEF todo

LEMMA EnterFrames ==
    ASSUME stack \in Seq(Frames), project \in Projects, NEW n \in Names, EnterModule(n)
    PROVE  /\ Len(stack) \in Nat /\ Len(stack') = Len(stack) + 1
           /\ \A i \in 1..Len(stack) : stack'[i] = stack[i]
           /\ stack'[Len(stack) + 1].node = n
           /\ stack'[Len(stack) + 1].todo = project.imports[n]
           /\ stack'[Len(stack) + 1].hidden = FALSE
<1> DEFINE frame == Frame(n, project.imports[n], FALSE)
<1>1. /\ frame \in Frames /\ frame.node = n /\ frame.todo = project.imports[n]
      /\ frame.hidden = FALSE
  BY ProjectTypes DEF Frame, Frames
<1>2. stack' = Append(stack, frame)
  BY DEF EnterModule
<1> HIDE DEF frame
<1>3. QED
  BY <1>1, <1>2, AppendProperties, LenProperties

LEMMA ReturnFrames ==
    ASSUME stack \in Seq(Frames), stack # <<>>, stack' = SubSeq(stack, 1, Len(stack) - 1)
    PROVE  /\ Len(stack) \in Nat \ {0} /\ Len(stack') = Len(stack) - 1
           /\ \A i \in 1..Len(stack') : stack'[i] = stack[i]
<1> DEFINE size == Len(stack) - 1
<1>1. /\ Len(stack) \in Nat \ {0} /\ \A i \in 1..Len(stack) : stack[i] \in Frames
  BY EmptySeq, LenProperties
<1>2. size \in Nat /\ \A i \in 1..size : i \in 1..Len(stack)
  BY <1>1
<1>3. /\ Len(stack') = IF 1 <= size THEN size - 1 + 1 ELSE 0
      /\ \A i \in 1..(size - 1 + 1) : stack'[i] = stack[1 + i - 1]
  <2>1. 1 \in Int /\ size \in Int /\ \A i \in 1..size : stack[i] \in Frames
    BY <1>1, <1>2
  <2>2. stack' = SubSeq(stack, 1, size)
    OBVIOUS
  <2> HIDE DEF size
  <2>3. QED
    BY <2>1, <2>2, SubSeqProperties
<1> HIDE DEF size
<1>4. Len(stack') = size /\ \A i \in 1..size : stack'[i] = stack[i]
  BY <1>2, <1>3
<1>5. QED
  BY <1>1, <1>4 DEF size

-----------------------------------------------------------------------------
(* What the code and the hooks of the program ask for.                     *)

\* What the hooks in the cache exclude when all are in it.
Full(n) == ExcludedBy(DOMAIN project.hooks, n)

LEMMA RelationTypes ==
    ASSUME project \in Projects, NEW partly \in BOOLEAN
    PROVE  /\ Roots(partly) \in SUBSET Names
           /\ \A excluding, hooking \in BOOLEAN :
                Relation(excluding, hooking, partly) \in SUBSET (Names \X Names)
<1>1. \A n \in Names : Part(n, partly) \subseteq Names
  BY PathTypes DEF Part
<1>2. ASSUME NEW names \in Seq(Names) PROVE Hides(names, partly) \subseteq Names
  <2>1. DOMAIN names = 1..Len(names) /\ \A i \in 1..Len(names) : names[i] \in Names
    BY LenProperties
  <2>2. QED
    BY <1>1, <2>1 DEF Hides
<1>3. ASSUME NEW n \in Names, NEW excluded PROVE Asks(n, excluded, partly) \subseteq Names
  <2>1. project.imports[n] \in Seq(Item)
    BY ProjectTypes
  <2>2. SeqSet(project.imports[n]) \subseteq Item
    BY <2>1, SeqSetTypes
  <2>3. \A t \in Item : t.base \in Names /\ (t.attr # NoAttr => t.attr \in Names)
    BY DEF Item
  <2>4. \A t \in Kept(n, excluded) : t \in Item
    BY <2>2 DEF Kept
  <2>5. \A t \in Kept(n, excluded) : Part(t.base, partly) \subseteq Names
    BY <1>1, <2>3, <2>4
  <2>6. \A t \in KeptAttr(n, excluded) : t.attr \in Names
    BY <2>3, <2>4 DEF KeptAttr
  <2> DEFINE bases == UNION {Part(t.base, partly) : t \in Kept(n, excluded)}
             attrs == {t.attr : t \in KeptAttr(n, excluded)}
  <2>7. bases \subseteq Names
    BY <2>5
  <2>8. attrs \subseteq Names
    BY <2>6
  <2>9. Asks(n, excluded, partly) = attrs \cup bases
    BY DEF Asks
  <2> HIDE DEF bases, attrs
  <2>10. QED
    BY <2>7, <2>8, <2>9
<1>4. /\ Hides(project.hiddenimports, partly) \subseteq Names
      /\ DOMAIN project.hooks \subseteq Names
      /\ \A m \in DOMAIN project.hooks :
           Hides(project.hooks[m].hiddenimports, partly) \subseteq Names
  BY <1>2, ProjectTypes
<1>5. Roots(partly) \in SUBSET Names
  BY <1>4, ModGraphAssumption DEF Roots
<1>6. ASSUME NEW excluding \in BOOLEAN, NEW hooking \in BOOLEAN
      PROVE  Relation(excluding, hooking, partly) \in SUBSET (Names \X Names)
  <2> DEFINE Excluded(n) == IF excluding THEN Full(n) ELSE {}
             asked == UNION {{n} \X Asks(n, Excluded(n), partly) : n \in Names}
             hidden == UNION {{m} \X Hides(project.hooks[m].hiddenimports, partly) :
                                m \in DOMAIN project.hooks}
  <2>1. Relation(excluding, hooking, partly) = asked \cup IF hooking THEN hidden ELSE {}
    BY DEF Relation, Full
  <2>2. \A n \in Names : Asks(n, Excluded(n), partly) \subseteq Names
    BY <1>3
  <2> HIDE DEF Excluded
  <2>4. asked \subseteq Names \X Names
    BY <2>2
  <2>5. hidden \subseteq Names \X Names
    BY <1>4
  <2> HIDE DEF asked, hidden
  <2>6. QED
    BY <2>1, <2>4, <2>5
<1>7. QED
  BY <1>5, <1>6

LEMMA RelationPairs ==
    ASSUME NEW excluding \in BOOLEAN, NEW hooking \in BOOLEAN, NEW partly \in BOOLEAN
    PROVE  \A n, m :
             <<n, m>> \in Relation(excluding, hooking, partly) <=>
               \/ /\ n \in Names
                  /\ m \in Asks(n, IF excluding THEN Full(n) ELSE {}, partly)
               \/ /\ hooking /\ n \in DOMAIN project.hooks
                  /\ m \in Hides(project.hooks[n].hiddenimports, partly)
<1> DEFINE Excluded(n) == IF excluding THEN Full(n) ELSE {}
           Hidden(m) == Hides(project.hooks[m].hiddenimports, partly)
           Asked(n) == Asks(n, Excluded(n), partly)
           asked == UNION {{n} \X Asked(n) : n \in Names}
           hidden == UNION {{m} \X Hidden(m) : m \in DOMAIN project.hooks}
<1>1. Relation(excluding, hooking, partly) = asked \cup IF hooking THEN hidden ELSE {}
  BY DEF Relation, Full
<1> HIDE DEF Asked, Hidden
<1>2. \A n, m : <<n, m>> \in asked <=> n \in Names /\ m \in Asked(n)
  OBVIOUS
<1>3. \A n, m : <<n, m>> \in hidden <=> n \in DOMAIN project.hooks /\ m \in Hidden(n)
  OBVIOUS
<1> HIDE DEF asked, hidden
<1>4. \A n, m : <<n, m>> \in Relation(excluding, hooking, partly) <=>
                   \/ n \in Names /\ m \in Asked(n)
                   \/ hooking /\ n \in DOMAIN project.hooks /\ m \in Hidden(n)
  BY <1>1, <1>2, <1>3
<1>5. QED
  BY <1>4 DEF Asked, Hidden

\* They are the project's, which does not change.
LEMMA SameRelation ==
    ASSUME UNCHANGED project
    PROVE  /\ \A n : Found(n)' <=> Found(n)
           /\ \A n : Full(n)' = Full(n)
           /\ \A n, partly : Part(n, partly)' = Part(n, partly)
           /\ \A n, excluded : Kept(n, excluded)' = Kept(n, excluded)
           /\ \A n, excluded : KeptAttr(n, excluded)' = KeptAttr(n, excluded)
           /\ \A partly : Roots(partly)' = Roots(partly)
           /\ \A excluding, hooking, partly :
                Relation(excluding, hooking, partly)' = Relation(excluding, hooking, partly)
<1>1. \A n : Found(n)' <=> Found(n)
  BY DEF Found
<1>2. \A n, partly : Part(n, partly)' = Part(n, partly)
  BY <1>1 DEF Part
<1>3. \A n, excluded : Kept(n, excluded)' = Kept(n, excluded)
  BY DEF Kept
<1>4. \A n, excluded : KeptAttr(n, excluded)' = KeptAttr(n, excluded)
  BY <1>1, <1>3 DEF KeptAttr
<1>5. \A n, excluded, partly : Asks(n, excluded, partly)' = Asks(n, excluded, partly)
  BY <1>2, <1>3, <1>4 DEF Asks
<1>6. \A names, partly : Hides(names, partly)' = Hides(names, partly)
  BY <1>2 DEF Hides
<1>7. /\ \A cache, n : ExcludedBy(cache, n)' = ExcludedBy(cache, n)
      /\ \A n : Full(n)' = Full(n)
  BY DEF ExcludedBy, Full
<1>8. \A partly : Roots(partly)' = Roots(partly)
  BY <1>6 DEF Roots
<1>9. \A excluding, hooking, partly :
        Relation(excluding, hooking, partly)' = Relation(excluding, hooking, partly)
  BY <1>5, <1>6, <1>7 DEF Relation
<1>10. QED
  BY <1>1, <1>2, <1>3, <1>4, <1>7, <1>8, <1>9

-----------------------------------------------------------------------------
(* Nothing comes into the graph but what is asked for.                     *)

PermittedRoots == Roots(TRUE) \cup {n \in {RunTimeHook} : nodes[n] = "script"}
Permitted == Closure(PermittedRoots, Relation(FALSE, TRUE, TRUE))

Granted(t) ==
    /\ Part(t.base, TRUE) \subseteq Permitted
    /\ t.attr # NoAttr /\ Found(t.attr) => t.attr \in Permitted

SoundInv ==
    /\ \A n \in Names : nodes[n] = "module" => n \in Permitted
    /\ \A i \in 1..Len(stack) : \A t \in SeqSet(stack[i].todo) : Granted(t)

LEMMA PermittedClosed ==
    ASSUME project \in Projects
    PROVE  /\ Permitted \subseteq Names /\ Roots(TRUE) \subseteq Permitted
           /\ nodes[RunTimeHook] = "script" => RunTimeHook \in Permitted
           /\ \A n, m : /\ <<n, m>> \in Relation(FALSE, TRUE, TRUE) /\ n \in Permitted
                        => m \in Permitted
<1> DEFINE relation == Relation(FALSE, TRUE, TRUE)
<1>1. relation \in SUBSET (Names \X Names) /\ Roots(TRUE) \in SUBSET Names
  BY RelationTypes
<1>2. Permitted = Closure(PermittedRoots, relation)
  BY DEF Permitted
<1>3. /\ PermittedRoots \in SUBSET Names /\ Roots(TRUE) \subseteq PermittedRoots
      /\ nodes[RunTimeHook] = "script" => RunTimeHook \in PermittedRoots
  BY <1>1, ModGraphAssumption DEF PermittedRoots
<1> HIDE DEF relation
<1>4. /\ Closure(PermittedRoots, relation) \subseteq Names
      /\ PermittedRoots \subseteq Closure(PermittedRoots, relation)
      /\ \A n, m : /\ <<n, m>> \in relation /\ n \in Closure(PermittedRoots, relation)
                   => m \in Closure(PermittedRoots, relation)
  BY <1>1, <1>3, ClosureClosed
<1>5. QED
  BY <1>2, <1>3, <1>4 DEF relation

\* When a run-time hook is added, more is.
LEMMA PermittedGrows ==
    ASSUME GraphInv, FoundInv, [Next]_vars
    PROVE  /\ Permitted \subseteq Permitted'
           /\ \A t : Granted(t) => Granted(t)'
           /\ nodes'[RunTimeHook] = "script" => RunTimeHook \in Permitted'
           /\ \A n, m : /\ <<n, m>> \in Relation(FALSE, TRUE, TRUE) /\ n \in Permitted'
                        => m \in Permitted'
<1> DEFINE relation == Relation(FALSE, TRUE, TRUE)
<1>1. /\ UNCHANGED project /\ project \in Projects /\ NodeStep
      /\ nodes \in [Names -> NodeKinds]
  BY NodeSteps DEF GraphInv, GraphTypeOK
<1>2. relation \in SUBSET (Names \X Names) /\ Roots(TRUE) \in SUBSET Names
  BY <1>1, RelationTypes
<1>3. relation' = relation /\ Roots(TRUE)' = Roots(TRUE)
  BY <1>1, SameRelation
<1>4. Permitted = Closure(PermittedRoots, relation)
  BY DEF Permitted
<1>5. Permitted' = Closure(PermittedRoots', relation')
  BY DEF Permitted, Closure, Closed
<1>6. nodes[RunTimeHook] = "script" => nodes'[RunTimeHook] = "script"
  BY <1>1, ModGraphAssumption DEF NodeStep, EnterModule
<1>7. PermittedRoots \in SUBSET Names /\ PermittedRoots' \in SUBSET Names
      /\ PermittedRoots \subseteq PermittedRoots'
  BY <1>2, <1>3, <1>6, ModGraphAssumption DEF PermittedRoots
<1>r. nodes'[RunTimeHook] = "script" => RunTimeHook \in PermittedRoots'
  BY DEF PermittedRoots
<1> HIDE DEF relation
<1>8. Closure(PermittedRoots, relation) \subseteq Closure(PermittedRoots', relation)
  BY <1>2, <1>7, ClosureGrows
<1>9. Permitted \subseteq Permitted'
  BY <1>3, <1>4, <1>5, <1>8
<1>c. /\ PermittedRoots' \subseteq Closure(PermittedRoots', relation)
      /\ \A n, m : /\ <<n, m>> \in relation /\ n \in Closure(PermittedRoots', relation)
                   => m \in Closure(PermittedRoots', relation)
  BY <1>2, <1>7, ClosureClosed
<1>d. /\ nodes'[RunTimeHook] = "script" => RunTimeHook \in Permitted'
      /\ \A n, m : <<n, m>> \in relation /\ n \in Permitted' => m \in Permitted'
  BY <1>3, <1>5, <1>r, <1>c
<1>10. ASSUME NEW t, Granted(t) PROVE Granted(t)'
  <2>1. Part(t.base, TRUE)' = Part(t.base, TRUE) /\ (Found(t.attr)' <=> Found(t.attr))
    BY <1>1, SameRelation
  <2>2. QED
    BY <1>9, <1>10, <2>1 DEF Granted
<1>11. QED
  BY <1>9, <1>d, <1>10 DEF relation

\* What code asks for is in a set that is closed under the relation.
LEMMA AskedOf ==
    ASSUME NEW n \in Names, NEW t \in SeqSet(project.imports[n]), NEW P, n \in P,
           \A k, m : <<k, m>> \in Relation(FALSE, TRUE, TRUE) /\ k \in P => m \in P
    PROVE  /\ Part(t.base, TRUE) \subseteq P
           /\ t.attr # NoAttr /\ Found(t.attr) => t.attr \in P
<1>1. t \in Kept(n, {})
  BY DEF Kept
<1>2. Part(t.base, TRUE) \subseteq Asks(n, {}, TRUE)
  BY <1>1 DEF Asks
<1>3. ASSUME t.attr # NoAttr, Found(t.attr) PROVE t.attr \in Asks(n, {}, TRUE)
  <2>1. t \in KeptAttr(n, {})
    BY <1>1, <1>3 DEF KeptAttr
  <2>2. QED
    BY <2>1 DEF Asks
<1>4. \A m \in Asks(n, {}, TRUE) : <<n, m>> \in Relation(FALSE, TRUE, TRUE)
  BY RelationPairs
<1>5. QED
  BY <1>2, <1>3, <1>4

LEMMA GrantedCode ==
    ASSUME project \in Projects, NEW n \in Names, n \in Permitted,
           NEW t \in SeqSet(project.imports[n])
    PROVE  Granted(t)
<1>1. \A k, m : <<k, m>> \in Relation(FALSE, TRUE, TRUE) /\ k \in Permitted => m \in Permitted
  BY PermittedClosed
<1>2. QED
  BY <1>1, AskedOf DEF Granted

\* A hook's hidden imports, and the user's.
LEMMA GrantedHidden ==
    ASSUME project \in Projects, NEW names \in Seq(Names), NEW i \in 1..Len(names),
           Hides(names, TRUE) \subseteq Permitted
    PROVE  Granted(HiddenItem(names[i]))
<1>1. DOMAIN names = 1..Len(names)
  BY LenProperties
<1>2. Part(names[i], TRUE) \subseteq Hides(names, TRUE)
  BY <1>1 DEF Hides
<1>3. HiddenItem(names[i]).base = names[i] /\ HiddenItem(names[i]).attr = NoAttr
  BY DEF HiddenItem
<1>4. QED
  BY <1>2, <1>3 DEF Granted

LEMMA GrantedHook ==
    ASSUME project \in Projects, NEW m \in DOMAIN project.hooks, m \in Permitted
    PROVE  Hides(project.hooks[m].hiddenimports, TRUE) \subseteq Permitted
<1>1. \A k \in Hides(project.hooks[m].hiddenimports, TRUE) :
        <<m, k>> \in Relation(FALSE, TRUE, TRUE)
  BY RelationPairs
<1>2. QED
  BY <1>1, PermittedClosed

LEMMA SoundInit == ASSUME Init, GraphTypeOK PROVE SoundInv
<1>1. Script \in Names /\ project \in Projects
  BY ModGraphAssumption DEF Init
<1>2. \A n \in Names : nodes[n] # "module"
  <2> SUFFICES ASSUME NEW n \in Names PROVE nodes[n] # "module"
    OBVIOUS
  <2>1. \/ n = Script \/ n \in project.excludes \ {Script}
        \/ n # Script /\ n \notin project.excludes
    OBVIOUS
  <2>2. QED
    BY <2>1 DEF Init
<1>3. Script \in Permitted
  BY <1>1, PermittedClosed DEF Roots
<1>4. /\ Len(stack) = 1 /\ stack[1].todo = project.imports[Script]
  BY DEF Init, Frame
<1>5. \A t \in SeqSet(project.imports[Script]) : Granted(t)
  BY <1>1, <1>3, GrantedCode
<1>6. QED
  BY <1>2, <1>4, <1>5 DEF SoundInv

\* A step that brings nothing new on the stack, nor a module into the graph.
LEMMA SoundFrame ==
    ASSUME GraphInv, FoundInv, SoundInv, [Next]_vars,
           \A n \in Names : nodes'[n] = "module" => nodes[n] = "module",
           \A i \in 1..Len(stack') :
             \/ \A t \in SeqSet(stack'[i].todo) : Granted(t)'
             \/ i \in 1..Len(stack) /\ SeqSet(stack'[i].todo) \subseteq SeqSet(stack[i].todo)
    PROVE  SoundInv'
<1>1. Permitted \subseteq Permitted' /\ \A t : Granted(t) => Granted(t)'
  BY PermittedGrows
<1>2. \A n \in Names : nodes'[n] = "module" => n \in Permitted'
  BY <1>1 DEF SoundInv
<1>3. \A i \in 1..Len(stack') : \A t \in SeqSet(stack'[i].todo) : Granted(t)'
  BY <1>1 DEF SoundInv
<1>4. QED
  BY <1>2, <1>3 DEF SoundInv, SeqSet

LEMMA SoundEntered ==
    ASSUME GraphInv, FoundInv, SoundInv, [Next]_vars,
           NEW n \in Names, EnterModule(n), n \in Permitted
    PROVE  SoundInv'
<1>1. /\ stack \in Seq(Frames) /\ nodes \in [Names -> NodeKinds] /\ project \in Projects
  BY DEF GraphInv, StackInv, GraphTypeOK
<1>2. Permitted \subseteq Permitted' /\ \A t : Granted(t) => Granted(t)'
  BY PermittedGrows
<1>3. ASSUME NEW m \in Names, nodes'[m] = "module" PROVE m \in Permitted'
  <2>1. m = n \/ nodes[m] = "module"
    BY <1>1, <1>3 DEF EnterModule
  <2>2. QED
    BY <1>2, <2>1 DEF SoundInv
<1>4. \A t \in SeqSet(project.imports[n]) : Granted(t)
  BY <1>1, GrantedCode
<1>5. /\ Len(stack) \in Nat /\ Len(stack') = Len(stack) + 1
      /\ \A i \in 1..Len(stack) : stack'[i] = stack[i]
      /\ stack'[Len(stack) + 1].todo = project.imports[n]
  BY <1>1, EnterFrames
<1>6. ASSUME NEW i \in 1..Len(stack'), NEW t \in SeqSet(stack'[i].todo) PROVE Granted(t)'
  <2>1. CASE i = Len(stack) + 1
    BY <1>2, <1>4, <1>5, <2>1
  <2>2. CASE i \in 1..Len(stack)
    <3>1. t \in SeqSet(stack[i].todo)
      BY <1>5, <2>2
    <3>2. QED
      BY <1>2, <2>2, <3>1 DEF SoundInv
  <2>3. QED
    BY <1>5, <2>1, <2>2
<1>7. QED
  BY <1>3, <1>6 DEF SoundInv, SeqSet

\* The import that is next is granted, for the part of its path that is found.
LEMMA NextGranted ==
    ASSUME GraphInv, SoundInv, stack # <<>>, Top.todo # <<>>
    PROVE  Granted(Import) /\ Import.base \in Names
<1>1. stack \in Seq(Frames)
  BY DEF GraphInv, StackInv
<1>2. Len(stack) \in 1..Len(stack) /\ Top \in Frames /\ Import.base \in Names
  BY <1>1, TopTypes
<1>3. Top.todo \in Seq(Item)
  BY <1>2 DEF Frames
<1>4. Len(Top.todo) \in Nat \ {0} /\ Import = Top.todo[1]
  BY <1>3, EmptySeq, LenProperties DEF Import
<1>5. 1 \in 1..Len(Top.todo)
  BY <1>4
<1>6. Import \in SeqSet(Top.todo)
  BY <1>3, <1>4, <1>5, SeqSetTypes
<1>7. QED
  BY <1>2, <1>6 DEF SoundInv, Top

LEMMA SoundStep == ASSUME GraphInv, FoundInv, SoundInv, [Next]_vars PROVE SoundInv'
<1>0. /\ stack \in Seq(Frames) /\ nodes \in [Names -> NodeKinds] /\ project \in Projects
      /\ position \in Nat \ {0} /\ hooks \subseteq DOMAIN project.hooks
  BY DEF GraphInv, StackInv, GraphTypeOK
<1>g. /\ Permitted \subseteq Permitted' /\ \A t : Granted(t) => Granted(t)'
  BY PermittedGrows
<1>s. /\ project.hiddenimports \in Seq(Names) /\ Script \in Names /\ RunTimeHook \in Names
      /\ DOMAIN project.hooks \subseteq Names
      /\ \A m \in DOMAIN project.hooks : project.hooks[m].hiddenimports \in Seq(Names)
  BY <1>0, ProjectTypes, ModGraphAssumption
<1>d. ASSUME stack # <<>>, Top.todo # <<>>, stack' = Drop,
             \A n \in Names : nodes'[n] = "module" => nodes[n] = "module"
      PROVE  SoundInv'
  <2>1. /\ Len(stack') = Len(stack)
        /\ \A i \in 1..Len(stack) : SeqSet(stack'[i].todo) \subseteq SeqSet(stack[i].todo)
    BY <1>0, <1>d, DropFrames
  <2>2. QED
    BY <1>d, <2>1, SoundFrame
<1>o. ASSUME NEW frame, stack' = <<frame>>, \A t \in SeqSet(frame.todo) : Granted(t)',
             \A n \in Names : nodes'[n] = "module" => nodes[n] = "module"
      PROVE  SoundInv'
  <2>1. \A i \in 1..Len(stack') : \A t \in SeqSet(stack'[i].todo) : Granted(t)'
    <3>1. Len(stack') = 1 /\ stack'[1] = frame
      BY <1>o
    <3>2. QED
      BY <1>o, <3>1
  <2>2. QED
    BY <1>o, <2>1, SoundFrame
<1>1. CASE Suppress
  BY <1>1, <1>d DEF Suppress
<1>2. CASE Descend
  <2> DEFINE n == FirstAbsent(Import.base)
  <2>1. /\ stack # <<>> /\ Top.todo # <<>> /\ ~Present(Import.base)
        /\ Importable(n) /\ EnterModule(n)
    BY <1>2 DEF Descend
  <2>2. Granted(Import) /\ Import.base \in Names
    BY <2>1, NextGranted
  <2>3. /\ n \in Names /\ n \in Ancestors(Import.base) /\ nodes[n] = "absent"
        /\ ~TopLevel(n) => nodes[Parent(n)] # "absent"
    BY <2>1, <2>2, FirstAbsentParent
  <2> HIDE DEF n
  <2>4. Found(n)
    BY <2>1, <2>3, ImportableIsFound
  <2>5. n \in Permitted
    BY <2>2, <2>3, <2>4 DEF Granted, Part
  <2>6. QED
    BY <2>1, <2>3, <2>5, SoundEntered
<1>3. CASE DescendAttr
  <2>1. /\ stack # <<>> /\ Top.todo # <<>> /\ Attr # NoAttr
        /\ nodes[Attr] = "absent" /\ Importable(Attr) /\ EnterModule(Attr)
    BY <1>3 DEF DescendAttr
  <2>2. Granted(Import)
    BY <2>1, NextGranted
  <2>3. /\ Attr = Import.attr /\ Attr \in Names /\ Parent(Attr) = Import.base
        /\ nodes[Import.base] = "module"
    BY <1>0, <2>1, AttrFacts
  <2>4. Found(Attr)
    BY <2>1, <2>3, ImportableIsFound
  <2>5. Attr \in Permitted
    BY <2>1, <2>2, <2>3, <2>4 DEF Granted
  <2>6. QED
    BY <2>1, <2>3, <2>5, SoundEntered
<1>4. CASE MissBase
  <2>1. /\ stack # <<>> /\ Top.todo # <<>> /\ stack' = Drop
        /\ \/ nodes' = nodes
           \/ nodes' = [nodes EXCEPT ![FirstAbsent(Import.base)] = "missing"]
    BY <1>4 DEF MissBase
  <2>2. \A n \in Names : nodes'[n] = "module" => nodes[n] = "module"
    BY <1>0, <2>1
  <2>3. QED
    BY <1>d, <2>1, <2>2
<1>5. CASE Link
  <2>1. /\ stack # <<>> /\ Top.todo # <<>> /\ stack' = Drop
        /\ \/ nodes' = nodes
           \/ nodes' = [nodes EXCEPT ![Attr] = IF @ = "absent" THEN "missing" ELSE @]
    BY <1>5 DEF Link
  <2>2. \A n \in Names : nodes'[n] = "module" => nodes[n] = "module"
    BY <1>0, <2>1
  <2>3. QED
    BY <1>d, <2>1, <2>2
<1>6. CASE Return
  <2>1. /\ stack # <<>> /\ stack' = SubSeq(stack, 1, Len(stack) - 1) /\ UNCHANGED nodes
    BY <1>6 DEF Return
  <2>2. /\ Len(stack) \in Nat \ {0} /\ Len(stack') = Len(stack) - 1
        /\ \A i \in 1..Len(stack') : stack'[i] = stack[i]
    BY <1>0, <2>1, ReturnFrames
  <2>3. \A i \in 1..Len(stack') :
          i \in 1..Len(stack) /\ SeqSet(stack'[i].todo) \subseteq SeqSet(stack[i].todo)
    BY <2>2
  <2>4. QED
    BY <2>1, <2>3, SoundFrame
<1>7. CASE UNCHANGED <<nodes, stack>>
  BY <1>7, SoundFrame
<1>8. CASE AddHiddenImport
  <2> DEFINE n == project.hiddenimports[position]
             frame == Frame(Script, <<HiddenItem(n)>>, TRUE)
  <2>1. /\ UNCHANGED nodes /\ position <= Len(project.hiddenimports)
        /\ UNCHANGED stack \/ stack' = <<frame>>
    BY <1>8 DEF AddHiddenImport
  <2>p. position \in 1..Len(project.hiddenimports)
    BY <1>0, <1>s, <2>1, LenProperties
  <2>2. CASE UNCHANGED stack
    BY <1>7, <2>1, <2>2
  <2>3. CASE stack' = <<frame>>
    <3>1. Hides(project.hiddenimports, TRUE) \subseteq Permitted
      BY <1>0, PermittedClosed DEF Roots
    <3>2. Granted(HiddenItem(n))
      BY <1>0, <1>s, <2>p, <3>1, GrantedHidden
    <3>3. SeqSet(frame.todo) = {HiddenItem(n)}
      BY DEF Frame, SeqSet
    <3> HIDE DEF frame, n
    <3>4. \A t \in SeqSet(frame.todo) : Granted(t)'
      BY <1>g, <3>2, <3>3
    <3>5. QED
      BY <1>o, <2>1, <2>3, <3>4
  <2>4. QED
    BY <2>1, <2>2, <2>3
<1>9. CASE RunHook
  <2> DEFINE m == order[position]
             names == project.hooks[m].hiddenimports
             frame == Frame(m, HiddenItems(names), TRUE)
  <2>1. UNCHANGED nodes /\ m \in hooks /\ nodes[m] = "module" /\ stack' = <<frame>>
    BY <1>9 DEF RunHook
  <2>2. m \in DOMAIN project.hooks /\ m \in Names /\ names \in Seq(Names)
    BY <1>0, <1>s, <2>1
  <2>3. m \in Permitted
    BY <2>1, <2>2 DEF SoundInv
  <2>4. Hides(names, TRUE) \subseteq Permitted
    BY <1>0, <2>2, <2>3, GrantedHook
  <2>5. \A t \in SeqSet(frame.todo) : \E i \in 1..Len(names) : t = HiddenItem(names[i])
    <3>1. DOMAIN names = 1..Len(names)
      BY <2>2, LenProperties
    <3>2. frame.todo = HiddenItems(names)
      BY DEF Frame
    <3> HIDE DEF frame, names
    <3>3. QED
      BY <3>1, <3>2 DEF SeqSet, HiddenItems
  <2> HIDE DEF frame, names, m
  <2>6. \A t \in SeqSet(frame.todo) : Granted(t)'
    BY <1>0, <1>g, <2>2, <2>4, <2>5, GrantedHidden
  <2>7. QED
    BY <1>o, <2>1, <2>6
<1>10. CASE AddRunTimeHook
  <2> DEFINE frame == Frame(RunTimeHook, project.imports[RunTimeHook], FALSE)
  <2>1. \/ UNCHANGED <<nodes, stack>>
        \/ nodes' = [nodes EXCEPT ![RunTimeHook] = "script"] /\ stack' = <<frame>>
    BY <1>10 DEF AddRunTimeHook
  <2>2. CASE nodes' = [nodes EXCEPT ![RunTimeHook] = "script"] /\ stack' = <<frame>>
    <3>1. \A n \in Names : nodes'[n] = "module" => nodes[n] = "module"
      BY <1>0, <2>2
    <3>2. RunTimeHook \in Permitted'
      BY <1>0, <1>s, <2>2, PermittedGrows
    <3>3. \A k, m : /\ <<k, m>> \in Relation(FALSE, TRUE, TRUE) /\ k \in Permitted'
                    => m \in Permitted'
      BY PermittedGrows
    <3>4. ASSUME NEW t \in SeqSet(project.imports[RunTimeHook]) PROVE Granted(t)'
      <4>1. /\ Part(t.base, TRUE) \subseteq Permitted'
            /\ t.attr # NoAttr /\ Found(t.attr) => t.attr \in Permitted'
        BY <1>s, <3>2, <3>3, AskedOf
      <4>2. Part(t.base, TRUE)' = Part(t.base, TRUE) /\ (Found(t.attr)' <=> Found(t.attr))
        BY NodeSteps, SameRelation
      <4>3. QED
        BY <4>1, <4>2 DEF Granted
    <3>5. frame.todo = project.imports[RunTimeHook]
      BY DEF Frame
    <3> HIDE DEF frame
    <3>6. QED
      BY <1>o, <2>2, <3>1, <3>4, <3>5
  <2>3. QED
    BY <1>7, <2>1, <2>2
<1>11. QED
  BY <1>1, <1>2, <1>3, <1>4, <1>5, <1>6, <1>7, <1>8, <1>9, <1>10
     DEF Next, Step, ScriptsDone, StartHooks, SkipHook, IgnoreHook, EndIteration, Terminated, vars

-----------------------------------------------------------------------------
(* All that is asked for, and that no hook excludes, comes into the graph. *)

Made(n, m) == nodes[m] = "module" /\ <<n, m>> \in edges

Pending(n, t, hidden) ==
    \E i \in 1..Len(stack) : /\ stack[i].node = n /\ stack[i].hidden = hidden
                             /\ t \in SeqSet(stack[i].todo)

\* Nothing leaves the graph.
LEMMA GraphGrows ==
    ASSUME GraphInv, FoundInv, [Next]_vars
    PROVE  /\ edges \subseteq edges'
           /\ \A n \in Names : nodes[n] \in {"module", "script"} => nodes'[n] = nodes[n]
           /\ \A n, m : m \in Names /\ Made(n, m) => Made(n, m)'
<1>1. NodeStep /\ nodes \in [Names -> NodeKinds]
  BY NodeSteps DEF GraphInv, GraphTypeOK
<1>2. edges \subseteq edges'
  <2>1. CASE Link
    BY <2>1 DEF Link
  <2>2. CASE MissBase
    BY <2>2 DEF MissBase
  <2>3. CASE ~(Link \/ MissBase)
    BY <2>3 DEF Next, Step, Suppress, Descend, DescendAttr, Return, ScriptsDone,
                AddHiddenImport, StartHooks, SkipHook, IgnoreHook, RunHook, EndIteration,
                AddRunTimeHook, Terminated, vars, control
  <2>4. QED
    BY <2>1, <2>2, <2>3
<1>3. ASSUME NEW n \in Names, nodes[n] \in {"module", "script"} PROVE nodes'[n] = nodes[n]
  <2>1. ~Found(RunTimeHook) /\ RunTimeHook \in Names
    BY PathTypes, ModGraphAssumption DEF Found
  <2>2. nodes[RunTimeHook] # "module"
    BY <2>1 DEF FoundInv
  <2>3. QED
    BY <1>1, <1>3, <2>1, <2>2 DEF NodeStep, EnterModule
<1>4. ASSUME NEW n, NEW m \in Names, Made(n, m) PROVE Made(n, m)'
  BY <1>2, <1>3, <1>4 DEF Made
<1>5. QED
  BY <1>2, <1>3, <1>4

\* What is on the stack stays there until its turn comes.
LEMMA PendingStep ==
    ASSUME GraphInv, [Next]_vars, NEW n, NEW t, NEW hidden, Pending(n, t, hidden)
    PROVE  \/ Pending(n, t, hidden)'
           \/ /\ Suppress \/ MissBase \/ Link
              /\ n = Source /\ t = Import /\ hidden = Top.hidden
<1>0. stack \in Seq(Frames) /\ project \in Projects /\ stack # <<>>
  <2>1. stack # <<>>
    BY DEF Pending
  <2>2. QED
    BY <2>1 DEF GraphInv, StackInv, GraphTypeOK
<1>1. PICK i \in 1..Len(stack) : /\ stack[i].node = n /\ stack[i].hidden = hidden
                                 /\ t \in SeqSet(stack[i].todo)
  BY DEF Pending
<1>k. ASSUME i \in 1..Len(stack'), stack'[i].node = n, stack'[i].hidden = hidden,
             t \in SeqSet(stack'[i].todo)
      PROVE  Pending(n, t, hidden)'
  BY <1>k DEF Pending, SeqSet
<1>2. CASE Suppress \/ MissBase \/ Link
  <2>1. stack' = Drop /\ Top.todo # <<>>
    BY <1>2 DEF Suppress, MissBase, Link
  <2>2. /\ Len(stack') = Len(stack) /\ stack'[i].node = n /\ stack'[i].hidden = hidden
        /\ t \in SeqSet(stack'[i].todo) \/ (i = Len(stack) /\ t = Import)
    BY <1>0, <1>1, <2>1, DropFrames
  <2>3. CASE i = Len(stack) /\ t = Import
    BY <1>1, <1>2, <2>3 DEF Source, Top
  <2>4. QED
    BY <1>k, <2>2, <2>3
<1>e. ASSUME NEW m \in Names, EnterModule(m) PROVE Pending(n, t, hidden)'
  <2>1. /\ Len(stack) \in Nat /\ Len(stack') = Len(stack) + 1
        /\ \A j \in 1..Len(stack) : stack'[j] = stack[j]
    BY <1>0, <1>e, EnterFrames
  <2>2. i \in 1..Len(stack') /\ stack'[i] = stack[i]
    BY <2>1
  <2>3. QED
    BY <1>1, <1>k, <2>2
<1>3. CASE Descend
  <2>1. Top.todo # <<>> /\ ~Present(Import.base) /\ EnterModule(FirstAbsent(Import.base))
    BY <1>3 DEF Descend
  <2>2. QED
    BY <1>0, <1>e, <2>1, TopTypes, FirstAbsentPlace
<1>4. CASE DescendAttr
  <2>1. Top.todo # <<>> /\ Attr # NoAttr /\ EnterModule(Attr)
    BY <1>4 DEF DescendAttr
  <2>2. QED
    BY <1>0, <1>e, <2>1, AttrTypes
<1>5. CASE Return
  <2>1. Top.todo = <<>> /\ stack' = SubSeq(stack, 1, Len(stack) - 1)
    BY <1>5 DEF Return
  <2>2. /\ Len(stack) \in Nat \ {0} /\ Len(stack') = Len(stack) - 1
        /\ \A j \in 1..Len(stack') : stack'[j] = stack[j]
    BY <1>0, <2>1, ReturnFrames
  <2>3. i # Len(stack)
    <3>1. SeqSet(<<>>) = {}
      BY DEF SeqSet
    <3>2. QED
      BY <1>1, <2>1, <3>1 DEF Top
  <2>4. i \in 1..Len(stack') /\ stack'[i] = stack[i]
    BY <2>2, <2>3
  <2>5. QED
    BY <1>1, <1>k, <2>4
<1>6. CASE UNCHANGED stack
  BY <1>1, <1>k, <1>6
<1>7. QED
  BY <1>0, <1>2, <1>3, <1>4, <1>5, <1>6
     DEF Next, Step, ScriptsDone, AddHiddenImport, StartHooks, SkipHook, IgnoreHook, RunHook,
         EndIteration, AddRunTimeHook, AtHook, Terminated, vars

\* An import whose turn has come was made if it could be, and was not excluded.
LEMMA ImportDone ==
    ASSUME GraphInv, FoundInv, Suppress \/ MissBase \/ Link, [Next]_vars,
           NEW n, NEW t, n = Source, t = Import
    PROVE  /\ Top.hidden \/ t \in Kept(n, Full(n)) => (Found(t.base) => Made(n, t.base)')
           /\ t \in KeptAttr(n, Full(n)) => Made(n, t.attr)'
<1>0. /\ stack \in Seq(Frames) /\ nodes \in [Names -> NodeKinds] /\ edges \subseteq Names \X Names
      /\ hooks \subseteq DOMAIN project.hooks
  BY DEF GraphInv, StackInv, GraphTypeOK
<1>1. stack # <<>> /\ Top.todo # <<>>
  BY DEF Suppress, MissBase, Link
<1>2. /\ Source \in Names /\ Import.base \in Names /\ Import \in Item
      /\ Import.attr # NoAttr => Import.attr \in Names
  BY <1>0, <1>1, TopTypes
<1>3. ExcludedBy(hooks, Source) \subseteq Full(Source)
  BY <1>0 DEF ExcludedBy, Full
<1>4. /\ Top.hidden \/ Import \in Kept(Source, Full(Source)) => ~Suppressed(Import.base)
      /\ Import \in KeptAttr(Source, Full(Source)) => ~Suppressed(Import.attr)
  BY <1>3 DEF Suppressed, Kept, KeptAttr
<1>5. Import \in KeptAttr(Source, Full(Source)) =>
        /\ Import \in Kept(Source, Full(Source)) /\ Import.attr # NoAttr /\ Found(Import.attr)
        /\ Import.base = Parent(Import.attr) /\ ~TopLevel(Import.attr)
  BY <1>2 DEF KeptAttr, Item
<1>6. Import \in KeptAttr(Source, Full(Source)) =>
        /\ Found(Import.base) /\ Import.base \in Packages
        /\ Import.attr \in Exists
  BY <1>2, <1>5, FoundParent
<1>7. CASE Suppress
  BY <1>4, <1>5, <1>7 DEF Suppress
<1>8. CASE MissBase
  <2> DEFINE m == FirstAbsent(Import.base)
  <2>1. ~Present(Import.base) /\ ~Importable(m)
    BY <1>8 DEF MissBase
  <2>2. /\ m \in Names /\ m \in Ancestors(Import.base) /\ nodes[m] = "absent"
        /\ ~TopLevel(m) => nodes[Parent(m)] # "absent"
    BY <1>2, <2>1, FirstAbsentParent
  <2> HIDE DEF m
  <2>3. ~Found(m)
    BY <2>1, <2>2, ImportableIsFound
  <2>4. ~Found(Import.base)
    BY <1>2, <2>2, <2>3, FoundPackages
  <2>5. QED
    BY <1>5, <1>6, <2>4
<1>9. CASE Link
  <2> DEFINE base == edges \cup Up(Ancestors(Import.base)) \cup {<<Source, Import.base>>}
             global == Attr \in project.globals /\ nodes[Attr] = "absent"
  <2>1. /\ Present(Import.base)
        /\ ~(Attr # NoAttr /\ nodes[Attr] = "absent" /\ Importable(Attr))
        /\ base \subseteq edges'
        /\ Attr # NoAttr /\ ~global => <<Source, Attr>> \in edges'
    BY <1>9 DEF Link
  <2>2. <<Source, Import.base>> \in edges'
    BY <2>1
  <2>3. Found(Import.base) => nodes[Import.base] = "module"
    BY <1>2, <2>1, PathTypes DEF Present, FoundInv
  <2>4. Found(t.base) => Made(n, t.base)'
    BY <1>2, <2>2, <2>3, GraphGrows DEF Made
  <2>5. ASSUME Import \in KeptAttr(Source, Full(Source)) PROVE Made(n, t.attr)'
    <3>1. nodes[Import.base] = "module" /\ Attr = Import.attr
      BY <1>4, <1>5, <1>6, <2>3, <2>5 DEF Attr
    <3>2. Attr # NoAttr /\ Attr \in Names /\ Importable(Attr)
      BY <1>2, <1>5, <1>6, <2>5, <3>1 DEF Importable
    <3>3. nodes[Attr] = "module"
      BY <1>5, <2>1, <2>5, <3>1, <3>2 DEF FoundInv
    <3>4. <<Source, Attr>> \in edges'
      BY <2>1, <3>2, <3>3
    <3>5. QED
      BY <3>1, <3>2, <3>3, <3>4, GraphGrows DEF Made
  <2>6. QED
    BY <2>4, <2>5
<1>10. QED
  BY <1>7, <1>8, <1>9

\* What a module's code asks for was made when it could be, or is on the stack.
AskInv ==
    \A n \in Names : nodes[n] \in {"module", "script"} =>
        \A t \in Kept(n, Full(n)) :
            \/ Pending(n, t, FALSE)
            \/ /\ Found(t.base) => Made(n, t.base)
               /\ t \in KeptAttr(n, Full(n)) => Made(n, t.attr)

LEMMA KeptTypes ==
    ASSUME project \in Projects, NEW n \in Names, NEW excluded, NEW t \in Kept(n, excluded)
    PROVE  /\ t \in SeqSet(project.imports[n]) /\ t.base \in Names
           /\ t \in KeptAttr(n, excluded) =>
                /\ t.attr \in Names /\ ~TopLevel(t.attr) /\ Parent(t.attr) = t.base
                /\ Found(t.attr) /\ Found(t.base)
<1>1. project.imports[n] \in Seq(Item) /\ t \in SeqSet(project.imports[n])
  BY ProjectTypes DEF Kept
<1>2. t \in Item
  BY <1>1, SeqSetTypes
<1>3. /\ t.base \in Names
      /\ t.attr # NoAttr =>
           t.attr \in Names /\ ~TopLevel(t.attr) /\ Parent(t.attr) = t.base
  BY <1>2 DEF Item
<1>4. t \in KeptAttr(n, excluded) => t.attr # NoAttr /\ Found(t.attr)
  BY DEF KeptAttr
<1>5. t \in KeptAttr(n, excluded) => Found(t.base)
  BY <1>3, <1>4, FoundParent
<1>6. QED
  BY <1>1, <1>3, <1>4, <1>5

LEMMA AskInit == ASSUME Init, GraphTypeOK, FoundInv, StackInv PROVE AskInv
<1> SUFFICES ASSUME NEW n \in Names, nodes[n] \in {"module", "script"},
                    NEW t \in Kept(n, Full(n))
             PROVE  Pending(n, t, FALSE)
  BY DEF AskInv
<1>1. n = Script
  <2>1. \/ n = Script \/ n \in project.excludes \ {Script}
        \/ n # Script /\ n \notin project.excludes
    OBVIOUS
  <2>2. QED
    BY <2>1 DEF Init
<1>2. t \in SeqSet(project.imports[Script])
  BY <1>1, KeptTypes DEF GraphTypeOK
<1>3. /\ Len(stack) = 1 /\ stack[1].todo = project.imports[Script]
      /\ stack[1].node = Script /\ stack[1].hidden = FALSE
  BY DEF Init, Frame
<1>4. QED
  BY <1>1, <1>2, <1>3 DEF Pending

LEMMA EnteredPending ==
    ASSUME stack \in Seq(Frames), project \in Projects,
           NEW n \in Names, EnterModule(n), NEW t \in SeqSet(project.imports[n])
    PROVE  Pending(n, t, FALSE)'
<1>1. /\ Len(stack) \in Nat /\ Len(stack') = Len(stack) + 1
      /\ stack'[Len(stack) + 1].node = n
      /\ stack'[Len(stack) + 1].todo = project.imports[n]
      /\ stack'[Len(stack) + 1].hidden = FALSE
  BY EnterFrames
<1>2. Len(stack) + 1 \in 1..Len(stack')
  BY <1>1
<1>3. QED
  BY <1>1, <1>2 DEF Pending, SeqSet

LEMMA AskStep == ASSUME GraphInv, FoundInv, AskInv, [Next]_vars PROVE AskInv'
<1>0. /\ stack \in Seq(Frames) /\ nodes \in [Names -> NodeKinds] /\ project \in Projects
      /\ UNCHANGED project
  BY NodeSteps DEF GraphInv, StackInv, GraphTypeOK
<1>s. /\ \A n : Found(n)' <=> Found(n)
      /\ \A n : Full(n)' = Full(n)
      /\ \A n, excluded : Kept(n, excluded)' = Kept(n, excluded)
      /\ \A n, excluded : KeptAttr(n, excluded)' = KeptAttr(n, excluded)
  BY <1>0, SameRelation
<1> SUFFICES ASSUME NEW n \in Names, nodes'[n] \in {"module", "script"},
                    NEW t \in Kept(n, Full(n))
             PROVE  \/ Pending(n, t, FALSE)'
                    \/ /\ Found(t.base) => Made(n, t.base)'
                       /\ t \in KeptAttr(n, Full(n)) => Made(n, t.attr)'
  BY <1>s DEF AskInv
<1>t. /\ t \in SeqSet(project.imports[n]) /\ t.base \in Names
      /\ t \in KeptAttr(n, Full(n)) => t.attr \in Names
  BY <1>0, KeptTypes
<1>1. CASE nodes[n] \in {"module", "script"}
  <2>1. CASE Pending(n, t, FALSE)
    <3>1. \/ Pending(n, t, FALSE)'
          \/ /\ Suppress \/ MissBase \/ Link
             /\ n = Source /\ t = Import /\ FALSE = Top.hidden
      BY <2>1, PendingStep
    <3>2. CASE (Suppress \/ MissBase \/ Link) /\ n = Source /\ t = Import
      BY <3>2, ImportDone
    <3>3. QED
      BY <3>1, <3>2
  <2>2. CASE /\ Found(t.base) => Made(n, t.base)
             /\ t \in KeptAttr(n, Full(n)) => Made(n, t.attr)
    BY <1>t, <2>2, GraphGrows
  <2>3. QED
    BY <1>1, <2>1, <2>2 DEF AskInv
<1>2. CASE nodes[n] \notin {"module", "script"}
  <2>1. \/ EnterModule(n)
        \/ n = RunTimeHook /\ stack' = <<Frame(n, project.imports[n], FALSE)>>
    <3>1. NodeStep
      BY NodeSteps
    <3>2. QED
      BY <1>0, <1>2, <3>1, ModGraphAssumption DEF NodeStep, EnterModule
  <2>2. CASE EnterModule(n)
    BY <1>0, <1>t, <2>2, EnteredPending
  <2>3. CASE stack' = <<Frame(n, project.imports[n], FALSE)>>
    <3>1. /\ Len(stack') = 1 /\ stack'[1].todo = project.imports[n]
          /\ stack'[1].node = n /\ stack'[1].hidden = FALSE
      BY <2>3 DEF Frame
    <3>2. QED
      BY <1>t, <3>1 DEF Pending, SeqSet
  <2>4. QED
    BY <2>1, <2>2, <2>3
<1>3. QED
  BY <1>1, <1>2

\* A hidden import was made if it could be, or is on the stack.
Imported(n, k) == Found(k) => Made(n, k) \/ Pending(n, HiddenItem(k), TRUE)

HideInv ==
    /\ phase = "scripts" => position = 1
    /\ \A m \in SeqSet(ran) : \A j \in 1..Len(project.hooks[m].hiddenimports) :
         Imported(m, project.hooks[m].hiddenimports[j])
    /\ \A j \in 1..Len(project.hiddenimports) :
         phase # "scripts" /\ (phase = "hidden" => j < position) =>
           Imported(Script, project.hiddenimports[j])

LEMMA ImportedStep ==
    ASSUME GraphInv, FoundInv, [Next]_vars, NEW n, NEW k \in Names, Imported(n, k)
    PROVE  Imported(n, k)'
<1>1. Found(k)' <=> Found(k)
  BY NodeSteps, SameRelation
<1>2. HiddenItem(k).base = k /\ HiddenItem(k)' = HiddenItem(k)
  BY DEF HiddenItem
<1>3. CASE Found(k) /\ Made(n, k)
  BY <1>3, GraphGrows DEF Imported
<1>4. CASE Found(k) /\ Pending(n, HiddenItem(k), TRUE)
  <2>1. \/ Pending(n, HiddenItem(k), TRUE)'
        \/ /\ Suppress \/ MissBase \/ Link
           /\ n = Source /\ HiddenItem(k) = Import /\ TRUE = Top.hidden
    BY <1>4, PendingStep
  <2>2. CASE /\ Suppress \/ MissBase \/ Link
             /\ n = Source /\ HiddenItem(k) = Import /\ Top.hidden
    <3>1. Made(n, k)'
      BY <1>2, <1>4, <2>2, ImportDone
    <3>2. QED
      BY <3>1 DEF Imported
  <2>3. QED
    BY <2>1, <2>2 DEF Imported
<1>5. QED
  BY <1>1, <1>3, <1>4 DEF Imported

LEMMA HideInit == Init => HideInv
BY DEF Init, HideInv, SeqSet

LEMMA HideStep == ASSUME GraphInv, FoundInv, HideInv, [Next]_vars PROVE HideInv'
<1>0. /\ stack \in Seq(Frames) /\ project \in Projects /\ UNCHANGED project
      /\ position \in Nat \ {0} /\ ran \in Seq(DOMAIN project.hooks)
      /\ hooks \subseteq DOMAIN project.hooks
  BY NodeSteps DEF GraphInv, StackInv, GraphTypeOK, RanInv
<1>p. /\ project.hiddenimports \in Seq(Names) /\ Len(project.hiddenimports) \in Nat
      /\ \A j \in 1..Len(project.hiddenimports) : project.hiddenimports[j] \in Names
      /\ DOMAIN project.hooks \subseteq Names
      /\ \A m \in DOMAIN project.hooks :
           /\ project.hooks[m].hiddenimports \in Seq(Names)
           /\ \A j \in 1..Len(project.hooks[m].hiddenimports) :
                project.hooks[m].hiddenimports[j] \in Names
  BY <1>0, ProjectTypes, LenProperties
<1>1. phase' = "scripts" => position' = 1
  <2>1. phase' = "scripts" => phase = "scripts" /\ (position' = position)
    BY DEF Next, Step, Suppress, Descend, DescendAttr, MissBase, Link, Return, ScriptsDone,
           AddHiddenImport, StartHooks, SkipHook, IgnoreHook, RunHook, EndIteration,
           AddRunTimeHook, AtHook, Terminated, vars, control
  <2>2. QED
    BY <2>1 DEF HideInv
<1>2. ASSUME NEW m \in SeqSet(ran'), NEW j \in 1..Len(project.hooks[m].hiddenimports)
      PROVE  Imported(m, project.hooks[m].hiddenimports[j])'
  <2> DEFINE names == project.hooks[m].hiddenimports
             k == names[j]
  <2>1. CASE m \in SeqSet(ran)
    <3>1. m \in DOMAIN project.hooks
      BY <1>0, <2>1, SeqSetTypes
    <3>2. k \in Names /\ Imported(m, k)
      BY <1>p, <2>1, <3>1 DEF HideInv
    <3>3. k' = k
      BY <1>0
    <3> HIDE DEF k
    <3>4. ASSUME NEW l \in Names, l = k PROVE Imported(m, l)'
      BY <3>2, <3>4, ImportedStep
    <3>5. QED
      BY <3>2, <3>3, <3>4 DEF k
  <2>2. CASE m \notin SeqSet(ran)
    <3>1. RunHook
      <4>1. ran' # ran
        BY <1>2, <2>2 DEF SeqSet
      <4>2. QED
        BY <4>1 DEF Next, Step, Suppress, Descend, DescendAttr, MissBase, Link, Return,
                    ScriptsDone, AddHiddenImport, StartHooks, SkipHook, IgnoreHook,
                    EndIteration, AddRunTimeHook, Terminated, vars, control
    <3> DEFINE o == order[position]
    <3>2. /\ o \in hooks /\ ran' = Append(ran, o)
          /\ stack' = <<Frame(o, HiddenItems(project.hooks[o].hiddenimports), TRUE)>>
      BY <3>1 DEF RunHook
    <3>3. m = o
      <4>1. /\ ran' \in Seq(DOMAIN project.hooks) /\ Len(ran') = Len(ran) + 1
            /\ Len(ran) \in Nat /\ ran'[Len(ran) + 1] = o
            /\ \A i \in 1..Len(ran) : ran'[i] = ran[i]
        <5>1. o \in DOMAIN project.hooks
          BY <1>0, <3>2
        <5> HIDE DEF o
        <5>2. QED
          BY <1>0, <3>2, <5>1, AppendProperties, LenProperties
      <4>2. PICK i \in 1..Len(ran') : ran'[i] = m
        BY <1>2, <4>1, SeqSetTypes
      <4>3. i \notin 1..Len(ran)
        BY <1>0, <2>2, <4>1, <4>2, SeqSetTypes
      <4>4. i = Len(ran) + 1
        BY <4>1, <4>2, <4>3
      <4>5. QED
        BY <4>1, <4>2, <4>4
    <3>4. m \in DOMAIN project.hooks /\ names \in Seq(Names) /\ k \in Names
      BY <1>0, <1>p, <3>2, <3>3
    <3>5. stack' = <<Frame(m, HiddenItems(names), TRUE)>>
      BY <3>2, <3>3
    <3> HIDE DEF names
    <3>6. /\ Len(stack') = 1 /\ stack'[1].node = m /\ stack'[1].hidden = TRUE
          /\ stack'[1].todo = HiddenItems(names)
      BY <3>5 DEF Frame
    <3>7. DOMAIN names = 1..Len(names) /\ j \in 1..Len(names)
      BY <3>4, LenProperties DEF names
    <3>8. HiddenItem(k) \in SeqSet(HiddenItems(names))
      BY <3>7 DEF SeqSet, HiddenItems
    <3> HIDE DEF k
    <3>9. ASSUME NEW l, l = k PROVE Imported(m, l)'
      BY <3>6, <3>8, <3>9 DEF Imported, Pending, SeqSet, HiddenItem
    <3>10. k' = k
      BY <1>0 DEF k, names
    <3>11. QED
      BY <3>9, <3>10 DEF k, names
  <2>3. QED
    BY <2>1, <2>2
<1>3. ASSUME NEW j \in 1..Len(project.hiddenimports),
             phase' # "scripts" /\ (phase' = "hidden" => j < position')
      PROVE  Imported(Script, project.hiddenimports[j])'
  <2> DEFINE k == project.hiddenimports[j]
  <2>1. k \in Names /\ k' = k
    BY <1>0, <1>p
  <2> HIDE DEF k
  <2>2. CASE phase # "scripts" /\ (phase = "hidden" => j < position)
    <3>1. ASSUME NEW l \in Names, l = k PROVE Imported(Script, l)'
      BY <2>2, <3>1, ImportedStep DEF HideInv, k
    <3>2. QED
      BY <2>1, <3>1 DEF k
  <2>3. CASE ~(phase # "scripts" /\ (phase = "hidden" => j < position))
    <3>1. \/ AddHiddenImport
          \/ phase = "scripts" /\ phase' = "hidden" /\ position' = position
          \/ phase = "hidden" /\ position > Len(project.hiddenimports)
          \/ phase \notin {"scripts", "hidden"}
          \/ phase' = phase /\ position' = position
      <4>1. CASE ScriptsDone \/ StartHooks
        BY <4>1 DEF ScriptsDone, StartHooks
      <4>2. CASE SkipHook \/ IgnoreHook \/ RunHook \/ EndIteration \/ AddRunTimeHook
        BY <4>2 DEF SkipHook, IgnoreHook, RunHook, EndIteration, AddRunTimeHook, AtHook
      <4>3. CASE Suppress \/ Descend \/ DescendAttr \/ MissBase \/ Link \/ Return
                 \/ Terminated \/ UNCHANGED vars
        BY <4>3 DEF Suppress, Descend, DescendAttr, MissBase, Link, Return, Terminated,
                    vars, control
      <4>4. QED
        BY <4>1, <4>2, <4>3 DEF Next, Step
    <3>2. AddHiddenImport /\ j = position
      <4>1. phase = "scripts" => position = 1
        BY DEF HideInv
      <4>2. AddHiddenImport =>
              phase = "hidden" /\ phase' = phase /\ position' = position + 1
        BY DEF AddHiddenImport
      <4> DEFINE size == Len(project.hiddenimports)
      <4>3. /\ j \in Nat \ {0} /\ j <= size /\ size \in Nat /\ position \in Nat \ {0}
            /\ phase' # "scripts" /\ (phase' = "hidden" => j < position')
        BY <1>0, <1>p, <1>3
      <4> HIDE DEF size
      <4>4. CASE AddHiddenImport
        BY <2>3, <4>2, <4>3, <4>4
      <4>5. CASE phase = "scripts" /\ phase' = "hidden" /\ position' = position
        BY <4>1, <4>3, <4>5
      <4>6. CASE phase = "hidden" /\ position > size
        BY <2>3, <4>3, <4>6
      <4>7. CASE phase' = phase /\ position' = position
        BY <2>3, <4>3, <4>7
      <4>8. CASE phase \notin {"scripts", "hidden"}
        BY <2>3, <4>8
      <4>9. QED
        BY <3>1, <4>4, <4>5, <4>6, <4>7, <4>8 DEF size
    <3>3. \/ nodes[k] # "absent" /\ edges' = edges \cup {<<Script, k>>} /\ nodes' = nodes
          \/ stack' = <<Frame(Script, <<HiddenItem(k)>>, TRUE)>>
      BY <3>2 DEF AddHiddenImport, k
    <3>4. ASSUME NEW l \in Names, l = k PROVE Imported(Script, l)'
      <4>1. Found(l)' <=> Found(l)
        BY <1>0, SameRelation
      <4>2. CASE nodes[k] # "absent" /\ edges' = edges \cup {<<Script, k>>} /\ nodes' = nodes
        <5>1. Found(l) => nodes[l] = "module"
          BY <3>4, <4>2 DEF FoundInv
        <5>2. QED
          BY <3>4, <4>1, <4>2, <5>1 DEF Imported, Made
      <4>3. CASE stack' = <<Frame(Script, <<HiddenItem(k)>>, TRUE)>>
        <5>1. /\ Len(stack') = 1 /\ stack'[1].node = Script /\ stack'[1].hidden = TRUE
              /\ stack'[1].todo = <<HiddenItem(k)>>
          BY <4>3 DEF Frame
        <5>2. HiddenItem(k) \in SeqSet(<<HiddenItem(k)>>)
          BY DEF SeqSet
        <5>3. QED
          BY <3>4, <5>1, <5>2 DEF Imported, Pending, SeqSet, HiddenItem
      <4>4. QED
        BY <3>3, <4>2, <4>3
    <3>5. QED
      BY <2>1, <3>4 DEF k
  <2>4. QED
    BY <2>2, <2>3
<1>4. QED
  BY <1>0, <1>1, <1>2, <1>3 DEF HideInv, SeqSet

-----------------------------------------------------------------------------
(* A module that was scanned refers to its package.                        *)

Scanning(n) == \E i \in 1..Len(stack) : stack[i].node = n /\ stack[i].hidden = FALSE

UpInv ==
    \A n \in Names : nodes[n] = "module" /\ ~TopLevel(n) =>
        <<n, Parent(n)>> \in edges \/ Scanning(n)

LEMMA UpInit == ASSUME Init PROVE UpInv
<1> SUFFICES ASSUME NEW n \in Names PROVE nodes[n] # "module"
  BY DEF UpInv
<1>1. \/ n = Script \/ n \in project.excludes \ {Script}
      \/ n # Script /\ n \notin project.excludes
  OBVIOUS
<1>2. QED
  BY <1>1 DEF Init

\* A scan goes on until it returns.
LEMMA ScanningStep ==
    ASSUME GraphInv, [Next]_vars, NEW n \in Names, Scanning(n)
    PROVE  Scanning(n)' \/ (Return /\ n = Source /\ ~Top.hidden)
<1>0. stack \in Seq(Frames) /\ project \in Projects /\ stack # <<>>
  <2>1. stack # <<>>
    BY DEF Scanning
  <2>2. QED
    BY <2>1 DEF GraphInv, StackInv, GraphTypeOK
<1>1. PICK i \in 1..Len(stack) : stack[i].node = n /\ stack[i].hidden = FALSE
  BY DEF Scanning
<1>k. ASSUME i \in 1..Len(stack'), stack'[i].node = n, stack'[i].hidden = FALSE
      PROVE  Scanning(n)'
  BY <1>k DEF Scanning
<1>2. CASE Suppress \/ MissBase \/ Link
  <2>1. stack' = Drop /\ Top.todo # <<>>
    BY <1>2 DEF Suppress, MissBase, Link
  <2>2. Len(stack') = Len(stack) /\ stack'[i].node = n /\ stack'[i].hidden = FALSE
    BY <1>0, <1>1, <2>1, DropFrames
  <2>3. QED
    BY <1>k, <2>2
<1>e. ASSUME NEW m \in Names, EnterModule(m) PROVE Scanning(n)'
  <2>1. /\ Len(stack) \in Nat /\ Len(stack') = Len(stack) + 1
        /\ \A j \in 1..Len(stack) : stack'[j] = stack[j]
    BY <1>0, <1>e, EnterFrames
  <2>2. i \in 1..Len(stack') /\ stack'[i] = stack[i]
    BY <2>1
  <2>3. QED
    BY <1>1, <1>k, <2>2
<1>3. CASE Descend
  <2>1. Top.todo # <<>> /\ ~Present(Import.base) /\ EnterModule(FirstAbsent(Import.base))
    BY <1>3 DEF Descend
  <2>2. QED
    BY <1>0, <1>e, <2>1, TopTypes, FirstAbsentPlace
<1>4. CASE DescendAttr
  <2>1. Top.todo # <<>> /\ Attr # NoAttr /\ EnterModule(Attr)
    BY <1>4 DEF DescendAttr
  <2>2. QED
    BY <1>0, <1>e, <2>1, AttrTypes
<1>5. CASE Return
  <2>1. stack' = SubSeq(stack, 1, Len(stack) - 1)
    BY <1>5 DEF Return
  <2>2. /\ Len(stack) \in Nat \ {0} /\ Len(stack') = Len(stack) - 1
        /\ \A j \in 1..Len(stack') : stack'[j] = stack[j]
    BY <1>0, <2>1, ReturnFrames
  <2>3. CASE i = Len(stack)
    BY <1>1, <1>5, <2>3 DEF Source, Top
  <2>4. CASE i # Len(stack)
    <3>1. i \in 1..Len(stack') /\ stack'[i] = stack[i]
      BY <2>2, <2>4
    <3>2. QED
      BY <1>1, <1>k, <3>1
  <2>5. QED
    BY <2>3, <2>4
<1>6. CASE UNCHANGED stack
  BY <1>1, <1>k, <1>6
<1>7. QED
  BY <1>0, <1>2, <1>3, <1>4, <1>5, <1>6
     DEF Next, Step, ScriptsDone, AddHiddenImport, StartHooks, SkipHook, IgnoreHook, RunHook,
         EndIteration, AddRunTimeHook, AtHook, Terminated, vars

LEMMA UpStep == ASSUME GraphInv, FoundInv, UpInv, [Next]_vars PROVE UpInv'
<1>0. /\ stack \in Seq(Frames) /\ nodes \in [Names -> NodeKinds] /\ project \in Projects
  BY DEF GraphInv, StackInv, GraphTypeOK
<1> SUFFICES ASSUME NEW n \in Names, nodes'[n] = "module", ~TopLevel(n)
             PROVE  <<n, Parent(n)>> \in edges' \/ Scanning(n)'
  BY DEF UpInv, TopLevel, Parent
<1>1. CASE nodes[n] = "module"
  <2>1. CASE <<n, Parent(n)>> \in edges
    BY <2>1, GraphGrows
  <2>2. CASE Scanning(n)
    <3>1. CASE Return /\ n = Source /\ ~Top.hidden
      <4>1. edges' = edges \cup Up({n})
        BY <1>1, <3>1 DEF Return
      <4>2. QED
        BY <4>1 DEF Up
    <3>2. QED
      BY <2>2, <3>1, ScanningStep
  <2>3. QED
    BY <1>1, <2>1, <2>2 DEF UpInv
<1>2. CASE nodes[n] # "module"
  <2>1. EnterModule(n)
    <3>1. NodeStep
      BY NodeSteps
    <3>2. QED
      BY <1>0, <1>2, <3>1, ModGraphAssumption DEF NodeStep, EnterModule
  <2>2. /\ Len(stack) \in Nat /\ Len(stack') = Len(stack) + 1
        /\ stack'[Len(stack) + 1].node = n /\ stack'[Len(stack) + 1].hidden = FALSE
    BY <1>0, <2>1, EnterFrames
  <2>3. Len(stack) + 1 \in 1..Len(stack')
    BY <2>2
  <2>4. QED
    BY <2>2, <2>3 DEF Scanning
<1>3. QED
  BY <1>1, <1>2

-----------------------------------------------------------------------------
(* What is asked for is reached when nothing is left to do.                *)

Program == {n \in Reached : nodes[n] \in {"module", "script"}}

LEMMA ReachedEdges ==
    ASSUME GraphTypeOK
    PROVE  /\ Reached \subseteq Names /\ Script \in Reached
           /\ \A n, m : <<n, m>> \in edges /\ n \in Reached => m \in Reached
<1>1. edges \in SUBSET (Names \X Names) /\ {Script} \in SUBSET Names
  BY ModGraphAssumption DEF GraphTypeOK
<1>2. /\ Closure({Script}, edges) \subseteq Names /\ {Script} \subseteq Closure({Script}, edges)
      /\ \A n, m : /\ <<n, m>> \in edges /\ n \in Closure({Script}, edges)
                   => m \in Closure({Script}, edges)
  BY <1>1, ClosureClosed
<1>3. QED
  BY <1>2 DEF Reached

LEMMA ProgramMade ==
    ASSUME GraphTypeOK, NEW n \in Program, NEW m \in Names, Made(n, m)
    PROVE  m \in Collected /\ m \in Program
BY ReachedEdges DEF Program, Collected, Made

LEMMA ProgramGrows ==
    ASSUME GraphInv, FoundInv, [Next]_vars, GraphTypeOK'
    PROVE  Program \subseteq Program'
<1>1. edges \in SUBSET (Names \X Names) /\ edges' \in SUBSET (Names \X Names)
  BY DEF GraphInv, GraphTypeOK
<1>2. /\ edges \subseteq edges'
      /\ \A n \in Names : nodes[n] \in {"module", "script"} => nodes'[n] = nodes[n]
  BY GraphGrows
<1>3. {Script} \in SUBSET Names
  BY ModGraphAssumption
<1>4. Closure({Script}, edges) \subseteq Closure({Script}, edges')
  BY <1>1, <1>2, <1>3, ClosureGrows
<1>5. Reached' = Closure({Script}, edges') /\ Reached = Closure({Script}, edges)
  BY DEF Reached, Closure, Closed
<1>6. Reached \subseteq Names
  BY ReachedEdges DEF GraphInv
<1>7. QED
  BY <1>2, <1>4, <1>5, <1>6 DEF Program

\* A module goes into the program with all its packages: there is no least
\* distance from it at which one is left out.
LEMMA CollectedPackages ==
    ASSUME GraphTypeOK, FoundInv, UpInv, stack = <<>>,
           NEW n \in Collected, NEW m \in Ancestors(n)
    PROVE  m \in Collected
<1> DEFINE path == Path[n]
           size == Len(path)
           Left == {d \in 0..(size - 1) : path[size - d] \notin Collected}
<1>1. n \in Names /\ size \in Nat \ {0} /\ path[size] = n
  BY ReachedEdges, PathTypes, ModGraphAssumption DEF Collected
<1>2. ASSUME NEW d \in 1..(size - 1), path[size - (d - 1)] \in Collected
      PROVE  path[size - d] \in Collected
  <2> DEFINE i == size - (d - 1)
             k == path[i]
  <2>1. i \in 1..size /\ i # 1 /\ i - 1 = size - d /\ i - 1 \in 1..i
    BY <1>1
  <2> HIDE DEF i, size
  <2>2. k \in Names /\ Len(Path[k]) = i /\ Path[k][i - 1] = path[i - 1]
    BY <1>1, <2>1, PathDepth DEF size
  <2>3. ~TopLevel(k) /\ Parent(k) = path[i - 1]
    BY <2>1, <2>2 DEF TopLevel, Parent
  <2>4. k \in Reached /\ nodes[k] = "module"
    BY <1>2 DEF Collected, i
  <2> HIDE DEF k, path
  <2>5. <<k, Parent(k)>> \in edges
    BY <2>2, <2>3, <2>4 DEF UpInv, Scanning
  <2>6. Parent(k) \in Reached /\ nodes[Parent(k)] = "module"
    BY <2>2, <2>3, <2>4, <2>5, ReachedEdges DEF FoundInv
  <2>7. QED
    BY <2>1, <2>3, <2>6 DEF Collected
<1>3. Left = {}
  <2> SUFFICES ASSUME Left # {} PROVE FALSE
    OBVIOUS
  <2>1. PICK d \in Left : \A e \in Left : d <= e
    <3>1. Left \in SUBSET Nat
      BY <1>1
    <3> HIDE DEF Left
    <3>2. QED
      BY <3>1, LeastNatural
  <2>2. d # 0
    BY <1>1, <2>1
  <2>3. d \in 1..(size - 1) /\ d - 1 \in 0..(size - 1) /\ ~(d <= d - 1)
    BY <1>1, <2>1, <2>2
  <2>4. path[size - (d - 1)] \in Collected
    BY <2>1, <2>3
  <2>5. QED
    BY <1>2, <2>1, <2>3, <2>4
<1>4. PICK i \in 1..size : m = path[i]
  BY DEF Ancestors
<1>5. size - i \in 0..(size - 1) /\ size - (size - i) = i
  BY <1>1, <1>4
<1>6. QED
  BY <1>3, <1>4, <1>5

LEMMA ProgramAsks ==
    ASSUME GraphTypeOK, FoundInv, UpInv, AskInv, stack = <<>>,
           NEW n \in Program, NEW m \in Asks(n, Full(n), FALSE)
    PROVE  m \in Program
<1>1. n \in Names /\ nodes[n] \in {"module", "script"} /\ project \in Projects
  BY ReachedEdges DEF Program, GraphTypeOK
<1>2. Collected \subseteq Program
  BY DEF Collected, Program
<1>3. ASSUME NEW t \in Kept(n, Full(n))
      PROVE  /\ Found(t.base) => Made(n, t.base)
             /\ t \in KeptAttr(n, Full(n)) => Made(n, t.attr)
  BY <1>1 DEF AskInv, Pending
<1>4. ASSUME NEW t \in KeptAttr(n, Full(n)), m = t.attr PROVE m \in Program
  <2>1. t \in Kept(n, Full(n))
    BY DEF KeptAttr
  <2>2. m \in Names /\ Made(n, m)
    BY <1>1, <1>3, <1>4, <2>1, KeptTypes
  <2>3. QED
    BY <2>2, ProgramMade
<1>5. ASSUME NEW t \in Kept(n, Full(n)), m \in Part(t.base, FALSE) PROVE m \in Program
  <2>1. Found(t.base) /\ m \in Ancestors(t.base) /\ t.base \in Names
    BY <1>1, <1>5, KeptTypes DEF Part
  <2>2. t.base \in Collected
    BY <1>3, <2>1, ProgramMade
  <2>3. QED
    BY <1>2, <2>1, <2>2, CollectedPackages
<1>6. \/ \E t \in KeptAttr(n, Full(n)) : m = t.attr
      \/ \E t \in Kept(n, Full(n)) : m \in Part(t.base, FALSE)
  BY DEF Asks
<1>7. QED
  BY <1>4, <1>5, <1>6

LEMMA ProgramHides ==
    ASSUME GraphTypeOK, FoundInv, UpInv, stack = <<>>, NEW n \in Program,
           NEW names \in Seq(Names), \A j \in 1..Len(names) : Imported(n, names[j]),
           NEW m \in Hides(names, FALSE)
    PROVE  m \in Program
<1>1. DOMAIN names = 1..Len(names) /\ \A j \in 1..Len(names) : names[j] \in Names
  BY LenProperties
<1>2. PICK j \in 1..Len(names) : m \in Part(names[j], FALSE)
  BY <1>1 DEF Hides
<1>3. Found(names[j]) /\ m \in Ancestors(names[j]) /\ names[j] \in Names
  BY <1>1, <1>2 DEF Part
<1>4. Made(n, names[j])
  BY <1>3 DEF Imported, Pending
<1>5. names[j] \in Collected
  BY <1>3, <1>4, ProgramMade
<1>6. m \in Collected
  BY <1>3, <1>5, CollectedPackages
<1>7. QED
  BY <1>6 DEF Collected, Program

\* What hooks that run, and exclude, let the scripts and the user ask for.
FirstWanted == Closure(Roots(FALSE), Relation(TRUE, TRUE, FALSE))

WantInv ==
    /\ nodes[Script] = "script"
    /\ phase = "done" =>
         /\ FirstWanted \subseteq Program
         /\ project.rthook \in FirstWanted => RunTimeHook \in Program

\* It is in the program when the loop over the hooks has ended.
LEMMA FirstWantedReached ==
    ASSUME GraphInv, FoundInv, AskInv, HideInv, UpInv, nodes[Script] = "script",
           phase = "rthooks"
    PROVE  FirstWanted \subseteq Program
<1>0. /\ GraphTypeOK /\ project \in Projects /\ stack = <<>>
      /\ ran \in Seq(DOMAIN project.hooks)
  BY DEF GraphInv, GraphTypeOK, HookInv, RanInv
<1>1. /\ Script \in Program /\ Program \subseteq Names
  BY <1>0, ReachedEdges DEF Program
<1>2. Hides(project.hiddenimports, FALSE) \subseteq Program
  <2>1. \A j \in 1..Len(project.hiddenimports) : Imported(Script, project.hiddenimports[j])
    BY DEF HideInv
  <2>2. project.hiddenimports \in Seq(Names)
    BY <1>0, ProjectTypes
  <2>3. QED
    BY <1>0, <1>1, <2>1, <2>2, ProgramHides
<1>3. ASSUME NEW n \in Program, NEW m,
             <<n, m>> \in Relation(TRUE, TRUE, FALSE)
      PROVE  m \in Program
  <2>1. \/ m \in Asks(n, Full(n), FALSE)
        \/ /\ n \in DOMAIN project.hooks
           /\ m \in Hides(project.hooks[n].hiddenimports, FALSE)
    BY <1>3, RelationPairs
  <2>2. CASE m \in Asks(n, Full(n), FALSE)
    BY <1>0, <2>2, ProgramAsks
  <2>3. CASE /\ n \in DOMAIN project.hooks
             /\ m \in Hides(project.hooks[n].hiddenimports, FALSE)
    <3>1. /\ n \in Names \ {Script, RunTimeHook}
          /\ project.hooks[n].hiddenimports \in Seq(Names)
      BY <1>0, <2>3, ModGraphAssumption DEF IsProject, Hook
    <3>2. nodes[n] = "module"
      BY <3>1 DEF FoundInv, Program
    <3>3. n \in Hooked
      BY <2>3, <3>2 DEF GraphInv, HookInv, Hooked
    <3>4. PICK i \in 1..Len(ran) : ran[i] = n
      BY <2>3, <3>2, <3>3 DEF GraphInv, RanInv
    <3>5. n \in SeqSet(ran)
      BY <1>0, <3>4, SeqSetTypes
    <3>6. \A j \in 1..Len(project.hooks[n].hiddenimports) :
            Imported(n, project.hooks[n].hiddenimports[j])
      BY <3>5 DEF HideInv
    <3>7. QED
      BY <1>0, <2>3, <3>1, <3>6, ProgramHides
  <2>4. QED
    BY <2>1, <2>2, <2>3
<1>4. /\ Roots(FALSE) \in SUBSET Names /\ Roots(FALSE) \subseteq Program
      /\ Relation(TRUE, TRUE, FALSE) \in SUBSET (Names \X Names)
  BY <1>0, <1>1, <1>2, RelationTypes DEF Roots
<1> DEFINE relation == Relation(TRUE, TRUE, FALSE)
<1>5. FirstWanted = Closure(Roots(FALSE), relation)
  BY DEF FirstWanted
<1>6. relation \in SUBSET (Names \X Names) /\ \A n, m : <<n, m>> \in relation /\ n \in Program => m \in Program
  BY <1>3, <1>4
<1> HIDE DEF relation
<1>7. Closure(Roots(FALSE), relation) \subseteq Program
  BY <1>1, <1>4, <1>6, ClosureLeast
<1>8. QED
  BY <1>5, <1>7

LEMMA WantInit == ASSUME Init PROVE WantInv
<1>1. Script \in Names
  BY ModGraphAssumption
<1>2. QED
  BY <1>1 DEF Init, WantInv

LEMMA WantStep ==
    ASSUME GraphInv, FoundInv, AskInv, HideInv, UpInv, WantInv, [Next]_vars, GraphTypeOK'
    PROVE  WantInv'
<1>1. /\ nodes[Script] = "script" /\ Script \in Names /\ RunTimeHook \in Names
      /\ UNCHANGED project /\ project \in Projects /\ nodes \in [Names -> NodeKinds]
  BY NodeSteps, ModGraphAssumption DEF WantInv, GraphInv, GraphTypeOK
<1>2. nodes'[Script] = "script"
  BY <1>1, GraphGrows
<1>3. Program \subseteq Program'
  BY ProgramGrows
<1>4. FirstWanted' = FirstWanted
  <2>1. Roots(FALSE)' = Roots(FALSE)
        /\ Relation(TRUE, TRUE, FALSE)' = Relation(TRUE, TRUE, FALSE)
    BY <1>1, SameRelation
  <2>2. QED
    BY <2>1 DEF FirstWanted, Closure, Closed
<1>5. CASE phase = "done"
  BY <1>1, <1>2, <1>3, <1>4, <1>5 DEF WantInv
<1>6. CASE phase # "done" /\ phase' = "done"
  <2>1. AddRunTimeHook
    BY <1>6 DEF Next, Step, Suppress, Descend, DescendAttr, MissBase, Link, Return, ScriptsDone,
                AddHiddenImport, StartHooks, SkipHook, IgnoreHook, RunHook, EndIteration,
                AtHook, Terminated, vars, control
  <2>2. FirstWanted \subseteq Program
    BY <1>1, <2>1, FirstWantedReached DEF AddRunTimeHook
  <2>3. ASSUME project.rthook \in FirstWanted PROVE RunTimeHook \in Program'
    <3>1. project.rthook \in Names \ {Script, RunTimeHook}
      BY <1>1, ModGraphAssumption DEF IsProject
    <3>2. project.rthook \in Collected
      BY <2>2, <2>3, <3>1 DEF Program, Collected, FoundInv
    <3>3. nodes'[RunTimeHook] = "script" /\ <<Script, RunTimeHook>> \in edges'
      BY <1>1, <2>1, <3>2 DEF AddRunTimeHook
    <3>4. Script \in Program
      BY <1>1, ReachedEdges DEF GraphInv, Program
    <3>5. RunTimeHook \in Reached'
      <4>1. edges' \in SUBSET (Names \X Names) /\ {Script} \in SUBSET Names
        BY <1>1 DEF GraphTypeOK
      <4>2. Script \in Closure({Script}, edges') /\ RunTimeHook \in Closure({Script}, edges')
        BY <3>3, <4>1, ClosureClosed
      <4>3. QED
        BY <4>2 DEF Reached, Closure, Closed
    <3>6. QED
      BY <3>3, <3>5 DEF Program
  <2>4. QED
    BY <1>1, <1>2, <1>3, <1>4, <2>2, <2>3 DEF WantInv
<1>7. CASE phase' # "done"
  BY <1>2, <1>7 DEF WantInv
<1>8. QED
  BY <1>5, <1>6, <1>7

\* In the end, with what a run-time hook asks for, all that is wanted is there.
LEMMA WantedReached ==
    ASSUME GraphInv, FoundInv, AskInv, UpInv, WantInv, Finished
    PROVE  Wanted \subseteq Program
<1>1. /\ GraphTypeOK /\ project \in Projects /\ stack = <<>> /\ phase = "done"
      /\ RunTimeHook \in Names
  BY ModGraphAssumption DEF GraphInv, GraphTypeOK, Finished
<1>2. Program \subseteq Names
  BY <1>1, ReachedEdges DEF Program
<1> DEFINE relation == Relation(TRUE, FALSE, FALSE)
           start == FirstWanted \cup {RunTimeHook}
<1>3. relation \in SUBSET (Names \X Names)
  BY <1>1, RelationTypes
<1>4. ASSUME NEW n \in Program, NEW m, <<n, m>> \in relation PROVE m \in Program
  <2>1. m \in Asks(n, Full(n), FALSE)
    BY <1>4, RelationPairs
  <2>2. QED
    BY <1>1, <2>1, ProgramAsks
<1>5. FirstWanted \subseteq Program
  BY <1>1 DEF WantInv
<1>6. Wanted = IF project.rthook \in FirstWanted THEN Closure(start, relation) ELSE FirstWanted
  BY DEF Wanted, FirstWanted
<1> HIDE DEF relation
<1>7. CASE project.rthook \in FirstWanted
  <2>1. start \subseteq Program
    BY <1>1, <1>5, <1>7 DEF WantInv
  <2> HIDE DEF start
  <2>2. Closure(start, relation) \subseteq Program
    BY <1>2, <1>3, <1>4, <2>1, ClosureLeast
  <2>3. QED
    BY <1>6, <1>7, <2>2
<1>8. CASE project.rthook \notin FirstWanted
  BY <1>5, <1>6, <1>8
<1>9. QED
  BY <1>7, <1>8

CollectInv ==
    /\ GraphInv /\ FoundInv /\ SoundInv
    /\ AskInv /\ HideInv /\ UpInv /\ WantInv

\* While the graph grows, what is there is permitted, and what is asked for is
\* there or on the stack.
THEOREM CollectInvariance == Spec => []CollectInv
<1>1. Init => CollectInv
  <2> SUFFICES ASSUME Init PROVE CollectInv
    OBVIOUS
  <2>1. GraphInv
    BY GraphInit
  <2>2. GraphTypeOK /\ StackInv
    BY <2>1 DEF GraphInv
  <2>3. FoundInv
    BY <2>2, FoundInit
  <2>4. QED
    BY <2>1, <2>2, <2>3, SoundInit, AskInit, HideInit, UpInit, WantInit DEF CollectInv
<1>2. CollectInv /\ [Next]_vars => CollectInv'
  <2> SUFFICES ASSUME CollectInv, [Next]_vars PROVE CollectInv'
    OBVIOUS
  <2>1. /\ GraphInv /\ FoundInv /\ SoundInv
        /\ AskInv /\ HideInv /\ UpInv /\ WantInv
    BY DEF CollectInv
  <2>2. GraphInv'
    BY <2>1, GraphStep
  <2>3. GraphTypeOK'
    BY <2>2 DEF GraphInv
  <2>4. FoundInv' /\ SoundInv' /\ AskInv' /\ HideInv' /\ UpInv' /\ WantInv'
    BY <2>1, <2>3, FoundStep, SoundStep, AskStep, HideStep, UpStep, WantStep
  <2>5. QED
    BY <2>2, <2>4 DEF CollectInv
<1>3. QED
  BY <1>1, <1>2, PTL DEF Spec

\* When the analysis ends, the program holds all that its code, the hooks of
\* its modules and the user ask for and no hook excludes, and nothing that they
\* do not ask for: whatever the cycles of the imports, the order of the hooks
\* and the names that fail or are found missing on the way
\* (_safe_import_hook, process_post_graph_hooks, analyze_runtime_hooks).
THEOREM CollectsWhatIsAsked == Spec => []CollectsClosure
<1>1. ASSUME CollectInv PROVE CollectsClosure
  <2>1. /\ GraphInv /\ FoundInv /\ SoundInv
        /\ AskInv /\ HideInv /\ UpInv /\ WantInv
    BY <1>1 DEF CollectInv
  <2> SUFFICES ASSUME Finished
               PROVE  /\ Wanted \ {Script, RunTimeHook} \subseteq Collected
                      /\ Collected \subseteq Allowed(FALSE)
    BY DEF CollectsClosure
  <2>2. Wanted \ {Script, RunTimeHook} \subseteq Collected
    <3>1. Reached \subseteq Names
      BY <2>1, ReachedEdges DEF GraphInv
    <3>2. QED
      BY <2>1, <3>1, WantedReached DEF Program, Collected, FoundInv
  <2>3. Collected \subseteq Permitted
    <3>1. Reached \subseteq Names
      BY <2>1, ReachedEdges DEF GraphInv
    <3>2. QED
      BY <2>1, <3>1 DEF Collected, SoundInv
  <2>4. Allowed(FALSE) = Permitted
    BY DEF Allowed, Permitted, PermittedRoots
  <2>5. QED
    BY <2>2, <2>3, <2>4
<1>2. QED
  BY <1>1, CollectInvariance, PTL
=============================================================================
