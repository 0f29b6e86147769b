----------------------------- MODULE MCScanner -----------------------------
(* Every automaton of at most three states over two bytes and two tokens   *)
(* that certifies some byte, all states reachable and one automaton of     *)
(* each renaming, against every input up to MaxLength.                     *)
EXTENDS Scanner

CONSTANTS MaxStates, MaxLength

AllDfas ==
  UNION { LET S == 0 .. n - 1
          IN [ count : {n}, init : {0},
               next : [S -> [Symbols -> S \cup {NoState}]],
               accept : [S -> TokenIds \cup {NoToken}] ] : n \in 1 .. MaxStates }

(* States and tokens are numbered in the order they are first met.         *)
Canonical(D) ==
  /\ D.next[0][0] # 2
  /\ D.next[0][1] = 2 => D.next[0][0] = 1
  /\ \A s \in States(D) :
       D.accept[s] = 2 => \E r \in 0 .. s - 1 : D.accept[r] = 1

MCDfas ==
  { D \in AllDfas : /\ Canonical(D)
                    /\ Reachable(D) = States(D)
                    /\ SplitPoints(UnrollStart(D), {}) # {} }

MCInputs == UNION { [1 .. n -> Symbols] : n \in 0 .. MaxLength }
=============================================================================
