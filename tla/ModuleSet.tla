----------------------------- MODULE ModuleSet -----------------------------
(***************************************************************************)
(* What install_modules() of src/src/lib.rs promises, without the          *)
(* recursion: modules are chosen one by one, each because it is asked for  *)
(* or because a chosen one needs it; only a choice that lacks nothing is   *)
(* copied, and Ok is returned when all of it is.  It may fail at any time  *)
(* before.                                                                 *)
(***************************************************************************)
VARIABLES
  roots,    \* the modules that are asked for and let through by the filter (constant)
  needs,    \* needs[m]: the modules that m needs (constant)
  state,    \* "choose", "copy", "ok" or "failed"
  chosen,
  copied

Init == state = "choose" /\ chosen = {} /\ copied = {}

Choose(m) ==
  /\ state = "choose"
  /\ m \in roots \cup UNION {needs[c] : c \in chosen}
  /\ chosen' = chosen \cup {m}
  /\ UNCHANGED <<roots, needs, state, copied>>

Commit ==
  /\ state = "choose"
  /\ roots \subseteq chosen
  /\ \A c \in chosen : needs[c] \subseteq chosen
  /\ state' = "copy"
  /\ UNCHANGED <<roots, needs, chosen, copied>>

Copy(m) ==
  /\ state = "copy"
  /\ copied' = copied \cup {m}
  /\ UNCHANGED <<roots, needs, state, chosen>>

Finish ==
  /\ state = "copy" /\ copied = chosen
  /\ state' = "ok"
  /\ UNCHANGED <<roots, needs, chosen, copied>>

Fail ==
  /\ state \in {"choose", "copy"}
  /\ state' = "failed"
  /\ UNCHANGED <<roots, needs, chosen, copied>>

Next ==
  \/ (\E m \in DOMAIN needs : Choose(m)) \/ Commit
  \/ (\E m \in chosen : Copy(m)) \/ Finish \/ Fail

Spec == Init /\ [][Next]_<<roots, needs, state, chosen, copied>>
=============================================================================
