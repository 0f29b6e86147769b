--------------------------- MODULE MCFoundWindow ---------------------------
(* The automata over two bytes and one token that certify windows and no   *)
(* byte, without useless or nullable ones, and the smallest automata       *)
(* whatever they certify; for the search, those that certify none as well. *)
EXTENDS FoundWindow, SmallAutomata

CONSTANTS MaxStates, MaxLength, MaxWalked

MCBytes == <<0, 1>>

MCInputs == Words(0, MaxLength)

MCTexts == Words(2, MaxWindow)

MCSearchDfas ==
  Automata(1) \cup Automata(2) \cup
  UNION { { D \in Automata(n) : Uncertified(D) } : n \in 3 .. MaxStates }

MCDfas ==
  Automata(1) \cup Automata(2) \cup
  { D \in MCSearchDfas :
      \E w \in Words(2, MaxWalked) : SplitOrigin(Simulator(D, {}), w) # BeforeWindow }
=============================================================================
