----------------------------- MODULE MCModeScan -----------------------------
(* Mode lexers of three modes: one family in which every mode scans single *)
(* bytes, and one with a mode that reads past its longest match and a      *)
(* nullable one.  Token 1 carries any action in each mode, token 2 pops,   *)
(* but where it matches the empty string.  Stacks are the default one, one *)
(* in the middle of a nesting, and two with modes of another lexer.        *)
EXTENDS ModeScan, TLC

CONSTANTS a, b, MaxLength

Row(onA, onB) == (a :> onA) @@ (b :> onB)

Automaton(rows, accept) ==
  LET states == 0 .. Len(rows) - 1
  IN [ count  |-> Len(rows),
       init   |-> 0,
       next   |-> [s \in states |-> rows[s + 1]],
       accept |-> [s \in states |-> accept[s + 1]] ]

(* a | b                                                                   *)
Bytes ==
  Automaton(<<Row(1, 2), Row(NoState, NoState), Row(NoState, NoState)>>,
            <<NoToken, 1, 2>>)

(* a | abb                                                                 *)
Lookahead ==
  Automaton(<<Row(1, NoState), Row(NoState, 2), Row(NoState, 3), Row(NoState, NoState)>>,
            <<NoToken, 1, NoToken, 2>>)

(* b*, which matches the empty string; token 1 is registered and dead.     *)
Nullable == Automaton(<<Row(NoState, 1), Row(NoState, 1)>>, <<2, 2>>)

ActionsIn(m0) ==
  {Stay, Action("pop", 0)}
    \cup { Action("push", m) : m \in 0 .. 2 }
    \cup { Action("go_to", m) : m \in (0 .. 2) \ {m0} }

Registered(m0, token, act) ==
  IF act = Stay THEN << >>
  ELSE <<[mode |-> m0, token |-> token, action |-> Pack(act)]>>

Lexer(dfas, first, second) ==
  [ modes   |-> 3,
    dfa     |-> [m \in 0 .. 2 |-> dfas[m + 1]],
    payload |-> [m \in 0 .. 2 |-> (1 :> Pack(first[m])) @@ (2 :> Pack(second[m]))],
    actions |-> Registered(0, 1, first[0]) \o Registered(0, 2, second[0])
                \o Registered(1, 1, first[1]) \o Registered(1, 2, second[1])
                \o Registered(2, 1, first[2]) \o Registered(2, 2, second[2]) ]

First ==
  { (0 :> x) @@ (1 :> y) @@ (2 :> z) :
      x \in ActionsIn(0), y \in ActionsIn(1), z \in ActionsIn(2) }

Everywhere(act) == [m \in 0 .. 2 |-> act]

(* The token that matches the empty string takes no action.                *)
MCLexers ==
  { Lexer(<<Bytes, Bytes, Bytes>>, first, Everywhere(Action("pop", 0))) : first \in First }
  \cup
  { Lexer(<<Bytes, Lookahead, Nullable>>, first,
          [Everywhere(Action("pop", 0)) EXCEPT ![2] = Stay]) : first \in First }

MCInputs == UNION { [1 .. n -> Symbols] : n \in 0 .. MaxLength }

MCStarts ==
  { FreshStack,
    [current |-> 1, saved |-> <<0>>],
    [current |-> 0, saved |-> <<3>>],
    [current |-> 3, saved |-> << >>] }
=============================================================================
