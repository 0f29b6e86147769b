--------------------------- MODULE SmallAutomata ---------------------------
(* The automata over the bytes 0 and 1 that TLC enumerates: those with n   *)
(* states, all reachable, numbered in the order a breadth-first walk meets *)
(* them (up to three states), and the inputs they are given.               *)
EXTENDS Dfa

Automata(n) ==
  LET S == 0 .. n - 1
  IN { D \in [ count : {n}, init : {0},
               next : [S -> [Symbols -> S \cup {NoState}]],
               accept : [S -> TokenIds \cup {NoToken}] ] :
         /\ Reachable(D) = S
         /\ D.next[0][0] # 2
         /\ D.next[0][1] = 2 => D.next[0][0] = 1 }

(* An automaton by the rows of its table and its accepting states.         *)
Automaton(rows, accepting) ==
  LET states == 0 .. Len(rows) - 1
  IN [ count  |-> Len(rows),
       init   |-> 0,
       next   |-> [ s \in states |-> [ b \in Symbols |-> rows[s + 1][b + 1] ] ],
       accept |-> [ s \in states |-> IF s \in accepting THEN 1 ELSE NoToken ] ]

Words(shortest, longest) == UNION { [1 .. n -> Symbols] : n \in shortest .. longest }

(* No byte is certified, and every state is of use to a scan.              *)
Uncertified(D) ==
  LET tables == Simulator(D, {})
  IN /\ ~ Accepting(D, D.init)
     /\ tables.live = States(D)
     /\ tables.split_points = {}

(* The byte 1, or a comment: 0 and whatever follows, through the first     *)
(* terminator.  In state n + 2 n bytes of the terminator are matched.      *)
Comment(terminator) ==
  LET final == Len(terminator) + 2
      matched(seen) ==
        { m \in 0 .. Len(seen) :
            SubSeq(terminator, 1, m) = SubSeq(seen, Len(seen) - m + 1, Len(seen)) }
      longest(S) == CHOOSE m \in S : \A o \in S : o <= m
      read(n, b) == longest(matched(Append(SubSeq(terminator, 1, n), b))) + 2
  IN [ count  |-> final + 1,
       init   |-> 0,
       next   |-> [ s \in 0 .. final |->
                      [ b \in Symbols |->
                          IF s = 0 THEN 2 - b
                          ELSE IF s \in 2 .. final - 1 THEN read(s - 2, b)
                          ELSE NoState ] ],
       accept |-> [ s \in 0 .. final |-> IF s \in {1, final} THEN 1 ELSE NoToken ] ]
=============================================================================
