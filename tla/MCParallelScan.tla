--------------------------- MODULE MCParallelScan ---------------------------
(* Token sets that differ in what a chunk boundary has to get right, each  *)
(* with every input up to MaxLength, the malformed ones too.               *)
EXTENDS ParallelScan, TLC

CONSTANTS a, b, MaxLength

Row(onA, onB) == (a :> onA) @@ (b :> onB)

Automaton(rows, accept) ==
  LET states == 0 .. Len(rows) - 1
  IN [ count  |-> Len(rows),
       init   |-> 0,
       next   |-> [s \in states |-> rows[s + 1]],
       accept |-> [s \in states |-> accept[s + 1]] ]

(* a | ab: a certified, an input with a second or a leading b malformed.   *)
Pairs == Automaton(<<Row(1, NoState), Row(NoState, 2), Row(NoState, NoState)>>,
                   <<NoToken, 1, 2>>)

(* a | abb | b: reading on past the longest match, a certified.            *)
Lookahead ==
  Automaton(<<Row(1, 4), Row(NoState, 2), Row(NoState, 3),
        Row(NoState, NoState), Row(NoState, NoState)>>,
      <<NoToken, 1, NoToken, 2, 1>>)

(* a | b: every byte certified, so that cuts may be adjacent.              *)
Bytes ==
  Automaton(<<Row(1, 2), Row(NoState, NoState), Row(NoState, NoState)>>,
      <<NoToken, 1, 2>>)

(* ab* or empty: nullable, the automaton starts anew, a is certified.     *)
Nullable == Automaton(<<Row(1, NoState), Row(NoState, 1)>>, <<1, 1>>)

(* a*b: the initial state is re-entered, nothing is certified.             *)
Reentrant == Automaton(<<Row(0, 1), Row(NoState, NoState)>>, <<NoToken, 1>>)

(* a | b, with states that read on and never accept: the bytes are         *)
(* certified though an accepting state consumes a.                         *)
DeadEnd ==
  Automaton(<<Row(1, 3), Row(2, NoState), Row(2, 2), Row(NoState, NoState)>>,
      <<NoToken, 1, NoToken, 2>>)

MCDfas == {Pairs, Lookahead, Bytes, Nullable, Reentrant, DeadEnd}

MCInputs == UNION { [1 .. n -> Symbols] : n \in 0 .. MaxLength }
=============================================================================
