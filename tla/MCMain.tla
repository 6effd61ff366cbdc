-------------------------------- MODULE MCMain -----------------------------
(***************************************************************************)
(* Kernel trees: three modules a, b, c, a builtin module x without a path  *)
(* and a file y that is not a module.  Looking up an alias may return one  *)
(* module, several or none.  Systems: three devices, two loaded modules.   *)
(***************************************************************************)
EXTENDS Main

MCModules == {"a", "b", "c", "x", "y"}
MCAliases == {"A", "B", "C", "X", "none"}

Of(a, b, c, rest) ==
  [m \in MCModules |-> CASE m = "a" -> a [] m = "b" -> b [] m = "c" -> c [] OTHER -> rest]

MCLookup == [n \in MCAliases |->
  CASE n = "A" -> <<"a">> [] n = "B" -> <<"b", "x">> [] n = "C" -> <<"c", "b">>
    [] n = "X" -> <<"x">> [] OTHER -> <<>>]

NoRegexp == [given |-> FALSE, matches |-> {}]
Regexps(n, s) ==
  [ noname |-> n, nopath |-> NoRegexp, path |-> NoRegexp,
    nosymbol |-> NoRegexp, symbol |-> s ]
NoFilter == Regexps(NoRegexp, NoRegexp)
NotNamedB == Regexps([given |-> TRUE, matches |-> {"B"}], NoRegexp)
WithSymbol == Regexps(NoRegexp, [given |-> TRUE, matches |-> {"s"}])

MCInfo == [m \in MCModules |->
  [ named |-> TRUE, name |-> Of("A", "B", "C", "X")[m], path |-> m,
    symbolsErr |-> m = "b",
    symbols |-> IF m = "a" THEN <<"t", "s">> ELSE <<"t">> ]]

Kernel(kmod, nameless, lookupErr, deps, softErr, pre, requests, filter, cloneErr) ==
  [ kmod |-> kmod, notModule |-> {"y"}, nameless |-> nameless, pathless |-> {"x"},
    alias |-> Of("A", "B", "C", "X"), lookupErr |-> lookupErr, lookup |-> MCLookup,
    deps |-> deps, softErr |-> softErr, pre |-> pre, requests |-> requests,
    filter |-> filter, info |-> MCInfo, cloneErr |-> cloneErr ]

Name(n) == [kind |-> "name", alias |-> n]
Path(m) == [kind |-> "path", mod |-> m]
File(m) == [kind |-> "file", mod |-> m]
LostFile(m) == [kind |-> "lost", mod |-> m]

DepVariants ==
  { Of(<<>>, <<>>, <<>>, <<>>),
    Of(<<"b", "c">>, <<"c">>, <<>>, <<>>),       \* shared dependency
    Of(<<"b">>, <<"a">>, <<"x">>, <<>>) }        \* a cycle, a builtin

PreVariants ==
  { Of(<<>>, <<>>, <<>>, <<>>),
    Of(<<"c">>, <<>>, <<"a">>, <<>>),            \* cyclic soft dependencies
    Of(<<"b">>, <<"c">>, <<"x", "a">>, <<>>) }

\* The searches.
WalkTrees ==
  {Kernel(TRUE, n, e, d, s, p, r, f, {}) :
     n \in {{}, {"c"}},
     e \in {{}, {"C"}, {"B"}},
     d \in DepVariants,
     s \in {{}, {"b"}},
     p \in PreVariants,
     r \in {<<Name("A"), Name("B")>>, <<Path("b"), File("a")>>},
     f \in {NoFilter, NotNamedB, WithSymbol}}

\* Requests that do not resolve, a context that cannot be created, files
\* that cannot be copied.
FailTrees ==
  {Kernel(k, n, e, Of(<<"b">>, <<"c">>, <<>>, <<>>), {}, Of(<<>>, <<>>, <<>>, <<>>), r, NoFilter, c) :
     k \in BOOLEAN,
     n \in {{}, {"b"}},
     e \in {{}, {"C"}},
     r \in {<<>>, <<Name("none")>>, <<Name("A"), Name("C")>>, <<File("y"), File("a")>>,
            <<Path("y"), File("a")>>, <<Path("b"), Path("c")>>,
            <<LostFile("a")>>, <<LostFile("c"), File("a")>>},
     c \in {{}, {"b"}, {"a", "c"}}}

\* Every combination of the filters, for a module with every small symbol list.
OneModule(n, np, p, ns, s, d, e, y) ==
  [Kernel(TRUE, {}, {}, Of(<<>>, <<>>, <<>>, <<>>), {}, Of(<<>>, <<>>, <<>>, <<>>), <<Name("A")>>,
          [noname |-> n, nopath |-> np, path |-> p, nosymbol |-> ns, symbol |-> s], {})
   EXCEPT !.info = [MCInfo EXCEPT !["a"] =
     [named |-> d, name |-> "A", path |-> "a", symbolsErr |-> e, symbols |-> y]]]

Options(S) == {NoRegexp} \cup [given : {TRUE}, matches : SUBSET S]

SymbolLists == {<<>>, <<"s">>, <<"t">>, <<"s", "t">>, <<"t", "s">>}

PathFilterTrees ==
  {OneModule(n, np, p, NoRegexp, s, d, FALSE, <<"s">>) :
     n \in Options({"A"}), np \in Options({"a"}), p \in Options({"a"}),
     s \in {NoRegexp, [given |-> TRUE, matches |-> {"s"}]}, d \in BOOLEAN}

SymbolFilterTrees ==
  {OneModule(NoRegexp, NoRegexp, NoRegexp, ns, s, TRUE, e, y) :
     ns \in Options({"s", "t"}), s \in Options({"s", "t"}), e \in BOOLEAN, y \in SymbolLists}

MCTrees == WalkTrees \cup FailTrees \cup PathFilterTrees \cup SymbolFilterTrees

----------------------------------------------------------------------------
MCDevices == {"d1", "d2", "d3"}
MCEmpty == "empty"

MCSystems ==
  {[ kmod |-> k, loaded |-> l, nameless |-> nl, name |-> Of("A", "B", "C", "X"),
     lookup |-> [n \in MCAliases |-> CASE n = "A" -> <<"a">> [] n = "B" -> lookupB
                                       [] n = "C" -> <<"a", "b">> [] OTHER -> <<>>],
     lookupErr |-> le, modalias |-> ma, present |-> d,
     unreadable |-> ur, hidden |-> h ] :
     k \in BOOLEAN,
     l \in {<<>>, <<"a", "b">>},
     nl \in {{}, {"b"}},
     lookupB \in {<<>>, <<"b", "a">>},
     le \in {{}, {"C"}},
     ma \in {f \in [MCDevices -> {"A", "C", "empty"}] : f["d3"] = "A" /\ f["d1"] # f["d2"]},
     d \in {{"d1", "d2"}, {"d1", "d3"}},
     ur \in {{}, {"d2"}},
     h \in {{}, {"d1"}}}

----------------------------------------------------------------------------
MakeCommand(d, r, l, k, ma, mo, f) ==
  [ destrootdir |-> d, regexps |-> r, logs |-> l, kernel |-> k,
    modalias |-> ma, module |-> mo, files |-> f ]

ModuleCommand == MakeCommand(TRUE, TRUE, TRUE, TRUE, FALSE, TRUE, "exit0")
ListCommand == MakeCommand(FALSE, TRUE, TRUE, TRUE, TRUE, FALSE, "exit0")

ATree ==
  Kernel(TRUE, {}, {}, Of(<<"b">>, <<>>, <<>>, <<>>), {}, Of(<<>>, <<>>, <<>>, <<>>), <<Name("A")>>,
         NoFilter, {})
ASystem == CHOOSE s \in MCSystems : s.kmod

\* Every tree for --module, every system for --modalias, every command line.
MCInputs ==
  [cmd : {ModuleCommand}, tree : MCTrees, sys : {ASystem}] \cup
  [cmd : {ListCommand}, tree : {ATree}, sys : MCSystems] \cup
  [cmd : Command, tree : {ATree}, sys : {ASystem}]

SymbolInputs == [cmd : {ModuleCommand}, tree : SymbolFilterTrees, sys : {ASystem}]
=============================================================================
