--------------------------- MODULE MCModeBuilder ---------------------------
(* Two modes and two tokens, with every action a caller can ask for, a     *)
(* target past the last mode included, and patterns that match the empty   *)
(* string at either priority.                                              *)
EXTENDS ModeBuilder

MCActions ==
  { Action("stay", 1), Action("pop", 1) }
    \cup { Action(kind, target) : kind \in {"go_to", "push"}, target \in 0 .. 2 }

MCPatterns ==
  { p \in [token : TokenIds, priority : {1, 2}, empty : BOOLEAN] :
      p.priority = 1 \/ p.empty }
=============================================================================
