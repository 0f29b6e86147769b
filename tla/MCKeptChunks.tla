---------------------------- MODULE MCKeptChunks ----------------------------
(* The automata over two bytes and two tokens whose discarding callers     *)
(* have a certified byte that the others lack, up to the numbering of      *)
(* their states.                                                           *)
EXTENDS KeptChunks

CONSTANTS MaxStates, MaxLength

AllDfas ==
  UNION { LET S == 0 .. n - 1
          IN [ count : {n}, init : {0},
               next : [S -> [Symbols -> S \cup {NoState}]],
               accept : [S -> TokenIds \cup {NoToken}] ] : n \in 1 .. MaxStates }

Canonical(D) ==
  /\ D.next[0][0] # 2
  /\ D.next[0][1] = 2 => D.next[0][0] = 1

MCDfas ==
  { D \in AllDfas :
      /\ Canonical(D)
      /\ Reachable(D) = States(D)
      /\ 1 \in { D.accept[s] : s \in States(D) }
      /\ LET C == UnrollStart(D)
         IN SplitPoints(C, {1}) \ SplitPoints(C, {}) # {} }

MCIgnored == {{}, {1}, {1, 2}}

MCInputs == UNION { [1 .. n -> Symbols] : n \in 0 .. MaxLength }
=============================================================================
