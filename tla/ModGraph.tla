------------------------------ MODULE ModGraph ------------------------------
(***************************************************************************)
(* The analysis of a program's modules: the recursive graph of imports     *)
(* (lib/modulegraph/modulegraph.py), with the imports that hooks exclude,  *)
(* the fixpoint of post-graph hooks with their hidden imports, and the     *)
(* run-time hooks that follow it (depend/analysis.py, depend/imphook.py).  *)
(*                                                                         *)
(* Names of imports are taken as resolved (level).  A module is any node   *)
(* of VALID_MODULE_TYPES; aliases, SWIG modules, the other kinds of hooks  *)
(* and del_imports are left out.                                           *)
(***************************************************************************)
EXTENDS Naturals, Sequences, FiniteSets

CONSTANTS
    Names,            \* of modules, and of scripts
    Path,             \* n |-> the names from its top-level package to n
    Packages,
    Exists,           \* the modules that can be found
    Script, RunTimeHook,
    Projects          \* what can be analysed (IsProject)

Ancestors(n) == {Path[n][i] : i \in 1..Len(Path[n])}
Parent(n) == Path[n][Len(Path[n]) - 1]
TopLevel(n) == Len(Path[n]) = 1

\* What is imported from a package, if anything, has a name below the package's.
NoAttr == "no attribute"
Item == {t \in [base : Names, attr : Names \cup {NoAttr}] :
           t.attr # NoAttr => ~TopLevel(t.attr) /\ Parent(t.attr) = t.base}
Hook == [hiddenimports : Seq(Names), excludedimports : SUBSET Names]

\* imports are those of each module's and script's code; globals are the names
\* that a package's code defines itself; rthook is the module that the run-time
\* hook is for; hiddenimports and excludes are options of the user.
IsProject(g) ==
    /\ g.imports \in [Names -> Seq(Item)] /\ g.globals \subseteq Names
    /\ DOMAIN g.hooks \subseteq Names \ {Script, RunTimeHook}
    /\ \A m \in DOMAIN g.hooks : g.hooks[m] \in Hook
    /\ g.rthook \in Names \ {Script, RunTimeHook}
    /\ g.hiddenimports \in Seq(Names) /\ g.excludes \subseteq Names

ASSUME ModGraphAssumption ==
    /\ IsFiniteSet(Names) /\ Script \in Names /\ RunTimeHook \in Names \ {Script}
    /\ Packages \subseteq Names /\ Exists \subseteq Names \ {Script, RunTimeHook}
    /\ Path \in [Names -> Seq(Names)]
    /\ \A n \in Names : Path[n] # <<>> /\ Path[n][Len(Path[n])] = n
    /\ \A n \in Names : \A i \in 1..Len(Path[n]) : Path[Path[n][i]] = SubSeq(Path[n], 1, i)
    /\ \A g \in Projects : IsProject(g)

VARIABLES
    project, order,   \* the order in which the hooks were found
    phase,            \* "scripts", "hidden", "hooks", "rthooks", "done"
    nodes,            \* what each name is in the graph
    edges,
    stack,            \* of calls of _process_imports, and of hooks
    hooks,            \* modules whose hooks are in the cache
    position,         \* in the user's hidden imports, or in order
    hooked,           \* hooked_module_names
    ran               \* hooks that were run, in order (history)

vars == <<project, order, phase, nodes, edges, stack, hooks, position, hooked, ran>>
control == <<project, order, phase, hooks, position, hooked, ran>>

\* One call: the node whose imports these are, those that are left, and whether
\* they come from code or from a list of hidden imports.
Frame(n, todo, hidden) == [node |-> n, todo |-> todo, hidden |-> hidden]
HiddenItem(n) == [base |-> n, attr |-> NoAttr]
HiddenItems(names) == [i \in DOMAIN names |-> HiddenItem(names[i])]

Orders(S) == {o \in [1..Cardinality(S) -> S] : \A i, j \in DOMAIN o : o[i] = o[j] => i = j}

Init ==
    /\ project \in Projects /\ order \in Orders(DOMAIN project.hooks)
    /\ phase = "scripts"
    /\ nodes = [n \in Names |-> CASE n = Script -> "script"
                                  [] n \in project.excludes \ {Script} -> "excluded"
                                  [] OTHER -> "absent"]
    /\ edges = {}
    /\ stack = <<Frame(Script, project.imports[Script], FALSE)>>
    /\ hooks = DOMAIN project.hooks
    /\ position = 1 /\ hooked = {} /\ ran = <<>>

-----------------------------------------------------------------------------
(* _safe_import_hook of analysis.py, and the calls below it.               *)

Top == stack[Len(stack)]
Source == Top.node
Import == Head(Top.todo)
Drop == [stack EXCEPT ![Len(stack)].todo = Tail(@)]

\* _find_all_excluded_imports: what the hooks in the cache say.
ExcludedBy(cache, n) ==
    UNION {project.hooks[m].excludedimports : m \in Ancestors(n) \cap cache}

\* Mutant: the hidden imports of hooks are subject to it, too.
SuppressedEven(n) == ExcludedBy(hooks, Source) \cap Ancestors(n) # {}

Suppressed(n) == ~Top.hidden /\ ExcludedBy(hooks, Source) \cap Ancestors(n) # {}

\* _safe_import_module, for a name that is not in the graph yet.
Importable(n) ==
    n \in Exists /\ (~TopLevel(n) => Parent(n) \in Packages /\ nodes[Parent(n)] = "module")

\* The base and its packages, up to the first that is not in the graph.
Present(n) == \A m \in Ancestors(n) : nodes[m] # "absent"
FirstAbsent(n) ==
    Path[n][CHOOSE i \in DOMAIN Path[n] :
              nodes[Path[n][i]] = "absent" /\ \A j \in 1..(i - 1) : nodes[Path[n][j]] # "absent"]

Before(n) == IF TopLevel(n) THEN {} ELSE Ancestors(Parent(n))
Up(names) == {<<m, Parent(m)>> : m \in {k \in names : ~TopLevel(k)}}

Attr == IF Import.attr = NoAttr \/ Suppressed(Import.attr) \/ nodes[Import.base] # "module"
           \/ Import.base \notin Packages
        THEN NoAttr ELSE Import.attr

Suppress ==
    /\ stack # <<>> /\ Top.todo # <<>> /\ Suppressed(Import.base)
    /\ stack' = Drop
    /\ UNCHANGED <<control, nodes, edges>>

\* Mutant: the node is created after its imports were processed.
EnterModuleLate(n) ==
    /\ stack' = Append(stack, Frame(n, project.imports[n], FALSE))
    /\ nodes' = [nodes EXCEPT ![n] = IF project.imports[n] = <<>> THEN "module" ELSE @]

\* _load_module and _scan_code: the node is created before its imports.
EnterModule(n) ==
    /\ stack' = Append(stack, Frame(n, project.imports[n], FALSE))
    /\ nodes' = [nodes EXCEPT ![n] = "module"]

Descend ==
    /\ stack # <<>> /\ Top.todo # <<>> /\ ~Suppressed(Import.base)
    /\ ~Present(Import.base)
    /\ LET n == FirstAbsent(Import.base)
       IN /\ Importable(n) /\ EnterModule(n)
          /\ edges' = edges \cup Up(Before(n))
    /\ UNCHANGED control

\* The attribute of a package is taken for a module first.
DescendAttr ==
    /\ stack # <<>> /\ Top.todo # <<>> /\ ~Suppressed(Import.base)
    /\ Present(Import.base) /\ Attr # NoAttr /\ nodes[Attr] = "absent" /\ Importable(Attr)
    /\ EnterModule(Attr)
    /\ edges' = edges \cup Up(Ancestors(Import.base)) \cup {<<Import.base, Attr>>}
    /\ UNCHANGED control

\* An import that fails leaves a MissingModule; a hidden one leaves nothing.
MissBase ==
    /\ stack # <<>> /\ Top.todo # <<>> /\ ~Suppressed(Import.base)
    /\ ~Present(Import.base)
    /\ LET n == FirstAbsent(Import.base)
       IN /\ ~Importable(n)
          /\ nodes' = IF Top.hidden THEN nodes ELSE [nodes EXCEPT ![n] = "missing"]
          /\ edges' = edges \cup Up(Before(n))
                        \cup IF Top.hidden THEN {} ELSE {<<Source, n>>}
    /\ stack' = Drop
    /\ UNCHANGED control

Registered(n) == {<<n, Parent(n)>>, <<Parent(n), n>>} \cap edges # {}

\* All that the import needs was found, but for the attribute perhaps, which is
\* then a global of the package, or missing.
Link ==
    /\ stack # <<>> /\ Top.todo # <<>> /\ ~Suppressed(Import.base)
    /\ Present(Import.base) /\ ~(Attr # NoAttr /\ nodes[Attr] = "absent" /\ Importable(Attr))
    /\ LET base == edges \cup Up(Ancestors(Import.base)) \cup {<<Source, Import.base>>}
           global == Attr \in project.globals /\ nodes[Attr] = "absent"
       IN IF Attr = NoAttr \/ global
          THEN edges' = base /\ UNCHANGED nodes
          ELSE /\ edges' = base \cup {<<Source, Attr>>}
                             \cup IF Registered(Attr) THEN {} ELSE {<<Import.base, Attr>>}
               /\ nodes' = [nodes EXCEPT ![Attr] = IF @ = "absent" THEN "missing" ELSE @]
    /\ stack' = Drop
    /\ UNCHANGED control

\* The end of _process_imports or _process_hidden_imports.  A submodule is then
\* referred to its package, by the import that goes on.
Return ==
    /\ stack # <<>> /\ Top.todo = <<>>
    /\ stack' = SubSeq(stack, 1, Len(stack) - 1)
    /\ edges' = edges \cup IF Top.hidden \/ nodes[Source] # "module" THEN {} ELSE Up({Source})
    /\ UNCHANGED <<control, nodes>>

-----------------------------------------------------------------------------
(* Analysis.assemble.                                                      *)

ScriptsDone ==
    /\ stack = <<>> /\ phase = "scripts"
    /\ phase' = "hidden"
    /\ UNCHANGED <<project, order, nodes, edges, stack, hooks, position, hooked, ran>>

\* add_hiddenimports.
AddHiddenImport ==
    /\ stack = <<>> /\ phase = "hidden" /\ position <= Len(project.hiddenimports)
    /\ LET n == project.hiddenimports[position]
       IN IF nodes[n] # "absent"
          THEN edges' = edges \cup {<<Script, n>>} /\ UNCHANGED stack
          ELSE stack' = <<Frame(Script, <<HiddenItem(n)>>, TRUE)>> /\ UNCHANGED edges
    /\ position' = position + 1
    /\ UNCHANGED <<project, order, phase, nodes, hooks, hooked, ran>>

StartHooks ==
    /\ stack = <<>> /\ phase = "hidden" /\ position > Len(project.hiddenimports)
    /\ phase' = "hooks" /\ position' = 1
    /\ UNCHANGED <<project, order, nodes, edges, stack, hooks, hooked, ran>>

AtHook == stack = <<>> /\ phase = "hooks" /\ position <= Len(order)

\* Not imported yet, or not in the cache any more.
SkipHook ==
    /\ AtHook /\ (order[position] \notin hooks \/ nodes[order[position]] = "absent")
    /\ position' = position + 1
    /\ UNCHANGED <<project, order, phase, nodes, edges, stack, hooks, hooked, ran>>

\* Not importable.
IgnoreHook ==
    /\ AtHook /\ order[position] \in hooks
    /\ nodes[order[position]] \in {"missing", "excluded"}
    /\ hooked' = hooked \cup {order[position]} /\ position' = position + 1
    /\ UNCHANGED <<project, order, phase, nodes, edges, stack, hooks, ran>>

\* post_graph: its hidden imports are imported in the module's name.
RunHook ==
    /\ AtHook /\ order[position] \in hooks /\ nodes[order[position]] = "module"
    /\ LET m == order[position]
       IN /\ stack' = <<Frame(m, HiddenItems(project.hooks[m].hiddenimports), TRUE)>>
          /\ hooked' = hooked \cup {m} /\ ran' = Append(ran, m)
    /\ position' = position + 1
    /\ UNCHANGED <<project, order, phase, nodes, edges, hooks>>

\* Mutants: one iteration is taken to be enough; hooks are not removed.
EndIterationAtOnce ==
    /\ stack = <<>> /\ phase = "hooks" /\ position > Len(order)
    /\ hooks' = hooks \ hooked /\ hooked' = {} /\ position' = 1
    /\ phase' = "rthooks"
    /\ UNCHANGED <<project, order, nodes, edges, stack, ran>>

EndIterationKeeps ==
    /\ stack = <<>> /\ phase = "hooks" /\ position > Len(order)
    /\ hooked' = {} /\ position' = 1
    /\ phase' = IF hooked = {} THEN "rthooks" ELSE "hooks"
    /\ ran' = IF hooked = {} THEN ran ELSE <<>>
    /\ UNCHANGED <<project, order, nodes, edges, stack, hooks>>

EndIteration ==
    /\ stack = <<>> /\ phase = "hooks" /\ position > Len(order)
    /\ hooks' = hooks \ hooked /\ hooked' = {} /\ position' = 1
    /\ phase' = IF hooked = {} THEN "rthooks" ELSE "hooks"
    /\ UNCHANGED <<project, order, nodes, edges, stack, ran>>

\* What is reached along the pairs of a relation: the least set that is closed.
Closed(S, start, relation) == start \subseteq S /\ \A e \in relation : e[1] \in S => e[2] \in S
Closure(start, relation) ==
    LET closed == {S \in SUBSET Names : Closed(S, start, relation)}
    IN {n \in Names : \A S \in closed : n \in S}

\* What is reached from the script goes into the program (_make_toc).
Reached == Closure({Script}, edges)
Collected == {n \in Reached : nodes[n] = "module"}

\* analyze_runtime_hooks: scripts for modules that are collected by now.
AddRunTimeHook ==
    /\ stack = <<>> /\ phase = "rthooks"
    /\ IF project.rthook \in Collected
       THEN /\ nodes' = [nodes EXCEPT ![RunTimeHook] = "script"]
            /\ edges' = edges \cup {<<Script, RunTimeHook>>}
            /\ stack' = <<Frame(RunTimeHook, project.imports[RunTimeHook], FALSE)>>
       ELSE UNCHANGED <<nodes, edges, stack>>
    /\ phase' = "done"
    /\ UNCHANGED <<project, order, hooks, position, hooked, ran>>

Finished == phase = "done" /\ stack = <<>>
Terminated == Finished /\ UNCHANGED vars

Step ==
    \/ Suppress \/ Descend \/ DescendAttr \/ MissBase \/ Link \/ Return
    \/ ScriptsDone \/ AddHiddenImport \/ StartHooks
    \/ SkipHook \/ IgnoreHook \/ RunHook \/ EndIteration \/ AddRunTimeHook

Next == Step \/ Terminated

Spec == Init /\ [][Next]_vars
FairSpec == Spec /\ WF_vars(Step)

-----------------------------------------------------------------------------
\* Types.  A module is scanned once, so that no recursion is deeper than there
\* are modules, whatever cycles their imports have.
TypeOK ==
    /\ phase \in {"scripts", "hidden", "hooks", "rthooks", "done"}
    /\ nodes \in [Names -> {"absent", "script", "module", "missing", "excluded"}]
    /\ edges \subseteq Names \X Names
    /\ \A n \in Names : Cardinality({i \in DOMAIN stack : stack[i].node = n
                                                           /\ ~stack[i].hidden}) <= 1
    /\ hooks \subseteq DOMAIN project.hooks /\ hooked \subseteq hooks
    /\ position \in Nat

\* When run-time hooks are added, the hook of every module that was found has
\* been run, once, however late another hook brought the module in, and no
\* other (process_post_graph_hooks).
HookedOnce ==
    /\ \A i, j \in DOMAIN ran : ran[i] = ran[j] => i = j
    /\ phase = "rthooks" =>
         {ran[i] : i \in DOMAIN ran} = {m \in DOMAIN project.hooks : nodes[m] = "module"}

\* A definition to compare the graph with: the least set of modules that holds
\* what the imports of its members' code and of their hooks ask for.  An import
\* that fails half-way may bring in, or not, the packages that were found.
Found(n) == Ancestors(n) \subseteq Exists \ project.excludes
            /\ \A m \in Ancestors(n) \ {n} : m \in Packages
Part(n, partly) == {m \in Ancestors(n) : Found(m) /\ (partly \/ Found(n))}
SeqSet(s) == {s[i] : i \in DOMAIN s}

Kept(n, excluded) ==
    {t \in SeqSet(project.imports[n]) : excluded \cap Ancestors(t.base) = {}}
KeptAttr(n, excluded) ==
    {t \in Kept(n, excluded) : t.attr # NoAttr /\ excluded \cap Ancestors(t.attr) = {}
                                                /\ Found(t.attr)}
Asks(n, excluded, partly) ==
    {t.attr : t \in KeptAttr(n, excluded)}
    \cup UNION {Part(t.base, partly) : t \in Kept(n, excluded)}
Hides(names, partly) == UNION {Part(names[i], partly) : i \in DOMAIN names}

\* excludedimports count or not, and hooks run or not.
Relation(excluding, hooking, partly) ==
    LET excluded(n) == IF excluding THEN ExcludedBy(DOMAIN project.hooks, n) ELSE {}
        asking == UNION {{n} \X Asks(n, excluded(n), partly) : n \in Names}
        hiding == UNION {{m} \X Hides(project.hooks[m].hiddenimports, partly) :
                           m \in DOMAIN project.hooks}
    IN asking \cup IF hooking THEN hiding ELSE {}
Roots(partly) == {Script} \cup Hides(project.hiddenimports, partly)

\* Hooks do not run any more for what only a run-time hook asks for.
Wanted ==
    LET before == Closure(Roots(FALSE), Relation(TRUE, TRUE, FALSE))
    IN IF project.rthook \in before
       THEN Closure(before \cup {RunTimeHook}, Relation(TRUE, FALSE, FALSE)) ELSE before

Allowed(excluding) ==
    Closure(Roots(TRUE) \cup {n \in {RunTimeHook} : nodes[n] = "script"},
            Relation(excluding, TRUE, TRUE))

\* What goes into the program is what its code and its hooks ask for, in
\* whatever order the hooks come, in spite of cycles, of imports that fail
\* half-way and of names that are found missing before they are asked for: all
\* that would be there if every exclusion applied, and nothing that would not
\* be there if none did.
CollectsClosure ==
    Finished =>
        /\ Wanted \ {Script, RunTimeHook} \subseteq Collected
        /\ Collected \subseteq Allowed(FALSE)

\* "If an excluded module is imported only by the hooked module or one of its
\* sub-modules, the excluded name and its sub-modules will not be part of the
\* bundle" (doc/hooks.rst).
ExclusionsApply == Finished => Collected \subseteq Allowed(TRUE)

\* The loop over the hooks and the recursion over the imports end.
AnalysisEnds == <>Finished
=============================================================================
