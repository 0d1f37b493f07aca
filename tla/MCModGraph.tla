----------------------------- MODULE MCModGraph -----------------------------
(* Instances of ModGraph for TLC: a script s and a run-time hook rt, a package  *)
(* p with a submodule p.x, modules q and r, and p.y, which is no module.        *)
EXTENDS ModGraph

MCNames == {"s", "rt", "p", "p.x", "p.y", "q", "r"}
MCPath == [n \in MCNames |-> CASE n = "p.x" -> <<"p", "p.x">> [] n = "p.y" -> <<"p", "p.y">>
                               [] OTHER -> <<n>>]
MCPackages == {"p"}
MCExists == {"p", "p.x", "q", "r"}

Of(base) == [base |-> base, attr |-> NoAttr]
From(attr) == [base |-> "p", attr |-> attr]

Imports ==
    [s : {<<Of("p")>>, <<Of("q"), Of("p.y")>>, <<Of("p.y"), From("p.x")>>},
     p : {<<>>, <<From("p.x")>>, <<Of("q"), From("p.y")>>},
     x : {<<Of("r")>>, <<Of("q"), Of("p.y")>>},
     q : {<<Of("p.y")>>, <<From("p.x")>>}]
ImportsOf(i) ==
    [n \in MCNames |-> CASE n = "s" -> i.s [] n = "p" -> i.p [] n = "p.x" -> i.x
                         [] n = "q" -> i.q [] n = "rt" -> <<Of("q")>> [] OTHER -> <<>>]

Hooks == [p : [hiddenimports : {<<>>, <<"p.y", "q">>}, excludedimports : {{}, {"q", "r"}}],
          q : [hiddenimports : {<<>>, <<"p.x">>}, excludedimports : {{}, {"p"}}],
          x : {[hiddenimports |-> <<"r">>, excludedimports |-> {"p.y"}]}]
HooksOf(h) == [m \in {"p", "p.x", "q"} |-> IF m = "p.x" THEN h.x ELSE h[m]]

\* A hidden import, or an excluded module, of the user.
Options == {[u |-> <<>>, x |-> {}], [u |-> <<"q">>, x |-> {}], [u |-> <<>>, x |-> {"q"}]}

MCProjects ==
    {[imports |-> ImportsOf(i), globals |-> g, hooks |-> HooksOf(h), rthook |-> "p",
      hiddenimports |-> o.u, excludes |-> o.x] :
        i \in Imports, g \in {{}, {"p.y"}}, h \in Hooks, o \in Options}

\* p's hook brings in q, whose hook brings in p.x, whose import p's hook excludes.
LateSubmodule ==
    {[imports |-> [n \in MCNames |-> CASE n = "s" -> <<Of("p")>> [] n = "p.x" -> <<Of("r")>>
                                        [] OTHER -> <<>>],
      globals |-> {}, rthook |-> "p.y", hiddenimports |-> <<>>, excludes |-> {},
      hooks |-> [p |-> [hiddenimports |-> <<"q">>, excludedimports |-> {"r"}],
                 q |-> [hiddenimports |-> <<"p.x">>, excludedimports |-> {}]]]}
=============================================================================
