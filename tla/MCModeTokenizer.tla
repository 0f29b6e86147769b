-------------------------- MODULE MCModeTokenizer --------------------------
(* Tokenizers of one token set: comments, whose terminators are certified  *)
(* windows, tokens that certify a byte, and the small automata that match  *)
(* the empty string; and of two modes, driven by a grammar or the caller.  *)
EXTENDS ModeTokenizer, SmallAutomata

CONSTANTS MaxTerminator, MaxStates, MaxLength

(* 01: its first byte is certified, and fails where the second is missing. *)
Pair == Automaton(<< <<1, NoState>>, <<NoState, 2>>, <<NoState, NoState>> >>, {2})

(* 0 and 1, under tokens of their own.                                     *)
Brackets ==
  [Automaton(<< <<1, 2>>, <<NoState, NoState>>, <<NoState, NoState>> >>, {1, 2})
     EXCEPT !.accept[2] = 2]

(* 0*, which matches the empty string.                                     *)
Zeros == Automaton(<< <<0, NoState>> >>, {0})

Nullable ==
  { D \in UNION { Automata(n) : n \in 1 .. MaxStates } :
      D.accept[0] = 1 /\ \A s \in States(D) : D.accept[s] # 2 }

Flats ==
  {Pair} \cup { Comment(terminator) : terminator \in Words(1, MaxTerminator) } \cup Nullable

Lexer(by, dfas, actions) ==
  [by |-> by, modes |-> Len(dfas), dfa |-> [ m \in 0 .. Len(dfas) - 1 |-> dfas[m + 1] ],
   actions |-> actions]

Modal == { <<D, E>> : D \in {Brackets, Pair}, E \in {Brackets, Comment(<<1>>), Zeros} }

On(mode, token, acts) == <<[mode |-> mode, token |-> token, action |-> Pack(acts)]>>

(* A token of each mode acts; the second bracket pops.                     *)
Acts ==
  { On(0, 1, first) \o On(1, 1, second) \o On(1, 2, Action("pop", 0)) :
      first \in {Action("push", 1), Action("go_to", 1), Action("pop", 0)},
      second \in {Action("push", 1), Action("go_to", 0), Action("pop", 0)} }

MCLexers ==
  { Lexer("caller", <<D>>, << >>) : D \in Flats }
  \cup { Lexer("caller", dfas, << >>) : dfas \in Modal }
  \cup { Lexer("grammar", dfas, acts) : dfas \in Modal, acts \in Acts \cup {<< >>} }

MCInputs == Words(0, MaxLength)

MCLoads == {<<1, 0>>, <<0, 1, 1>>}
=============================================================================
