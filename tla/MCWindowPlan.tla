---------------------------- MODULE MCWindowPlan ----------------------------
(* The core is derived for the automata over two bytes and one token that  *)
(* certify no byte and have no useless state, and for token sets with a    *)
(* comment, whose terminator is their core.  Plans are made with the short *)
(* comments, two sets whose windows have no core in common and one that    *)
(* certifies a byte.                                                       *)
EXTENDS WindowPlan, SmallAutomata

CONSTANTS MaxStates, MaxTerminator, LongestTerminator, MaxLength

MCBytes == <<0, 1>>

(* 11(01)*                                                                 *)
Steps == Automaton(<< <<NoState, 1>>, <<NoState, 2>>, <<1, NoState>> >>, {2})

(* (10)*1(1 or empty): a scan comes back to the initial state.             *)
Reentrant == Automaton(<< <<NoState, 1>>, <<0, 2>>, <<NoState, NoState>> >>, {1, 2})

(* 0 or 01: the byte 0 is certified.                                       *)
Pairs == Automaton(<< <<1, NoState>>, <<NoState, 2>>, <<NoState, NoState>> >>, {1, 2})

MCPlanned ==
  { Comment(terminator) : terminator \in Words(1, MaxTerminator) }
  \cup {Steps, Reentrant, Pairs}

MCDfas ==
  MCPlanned
  \cup Automata(2) \cup UNION { { D \in Automata(n) : Uncertified(D) } : n \in 3 .. MaxStates }
  \cup { Comment(terminator) : terminator \in Words(MaxTerminator, LongestTerminator) }

MCInputs == Words(0, MaxLength)
=============================================================================
