----------------------------- MODULE ModFilter -----------------------------
(***************************************************************************)
(* filter_module_name_path_symbols() of src/src/lib.rs: which kernel       *)
(* modules named on the command line the --mod-filter-* options let pass.  *)
(* Verdict is what the code does, with its early returns; Accepts is what  *)
(* the options mean together, and what the properties are stated with.     *)
(***************************************************************************)
EXTENDS Naturals, Sequences

\* The five options; each is an Option<Regex>, with the set of the strings
\* that the expression matches.
Filter(f) ==
  \A option \in {"noname", "nopath", "path", "nosymbol", "symbol"} :
    DOMAIN f[option] = {"given", "matches"} /\ f[option].given \in BOOLEAN

\* What is asked of a module; info() may return any list of symbols.
Info(m) == m.symbols \in Seq({m.symbols[k] : k \in DOMAIN m.symbols})

IsMatch(r, s) == r.given /\ s \in r.matches

\* Mutant of SymbolLoop: the two filters are asked in the other order.
SymbolLoop_SymbolFirst(f, symbols) ==
  LET From[k \in 1..(Len(symbols) + 1)] ==
        /\ k <= Len(symbols)
        /\ \/ IsMatch(f.symbol, symbols[k])
           \/ ~IsMatch(f.nosymbol, symbols[k]) /\ From[k + 1]
  IN  From[1]

\* The loop over the symbols, from the k-th on: the first symbol that one of
\* the two filters matches decides, and without one the answer is no.
SymbolLoop(f, symbols) ==
  LET From[k \in 1..(Len(symbols) + 1)] ==
        /\ k <= Len(symbols)
        /\ ~IsMatch(f.nosymbol, symbols[k])
        /\ IsMatch(f.symbol, symbols[k]) \/ From[k + 1]
  IN  From[1]

Verdict(f, m) ==
  IF m.named /\ IsMatch(f.noname, m.name) THEN FALSE
  ELSE IF IsMatch(f.nopath, m.path) THEN FALSE
  ELSE IF f.path.given /\ m.path \notin f.path.matches THEN FALSE
  ELSE IF ~f.nosymbol.given /\ ~f.symbol.given THEN TRUE
  ELSE IF m.symbolsErr THEN TRUE
  ELSE SymbolLoop(f, m.symbols)

----------------------------------------------------------------------------
\* A symbol that `symbol` matches counts if no symbol up to and including it
\* is one that `nosymbol` matches.
SymbolsAccepted(f, m) ==
  \E k \in 1..Len(m.symbols) :
    /\ IsMatch(f.symbol, m.symbols[k])
    /\ \A j \in 1..k : ~IsMatch(f.nosymbol, m.symbols[j])

Accepts(f, m) ==
  /\ ~(m.named /\ IsMatch(f.noname, m.name))
  /\ ~IsMatch(f.nopath, m.path)
  /\ f.path.given => IsMatch(f.path, m.path)
  /\ \/ ~f.nosymbol.given /\ ~f.symbol.given
     \/ m.symbolsErr
     \/ SymbolsAccepted(f, m)
=============================================================================
