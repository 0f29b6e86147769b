---------------------------- MODULE TokenStream ----------------------------
(***************************************************************************)
(* What a whole-input scan promises: from the front of the input, one      *)
(* longest match of positive width after the other, until the input is     *)
(* exhausted, nothing matches, or the sink asks to stop.                   *)
(***************************************************************************)
EXTENDS Dfa

CONSTANTS Dfas, Inputs

VARIABLES dfa, input, offset, stream, status

streamVars == <<dfa, input, offset, stream, status>>

Statuses == {"running", "exhausted", "unmatched", "stopped"}

Init ==
  /\ dfa \in Dfas
  /\ input \in Inputs
  /\ offset = 0
  /\ stream = << >>
  /\ status = "running"

Emit ==
  /\ status = "running"
  /\ MatchLengths(dfa, input, offset) # {}
  /\ LET n == LongestMatch(dfa, input, offset)
         s == StateAfter(dfa, input, offset)[n]
     IN /\ stream' = Append(stream, [begin |-> offset, length |-> n,
                                     token |-> dfa.accept[s]])
        /\ offset' = offset + n
  /\ status' \in {"running", "stopped"}
  /\ UNCHANGED <<dfa, input>>

Finish ==
  /\ status = "running"
  /\ MatchLengths(dfa, input, offset) = {}
  /\ status' = IF offset = Len(input) THEN "exhausted" ELSE "unmatched"
  /\ UNCHANGED <<dfa, input, offset, stream>>

Next == Emit \/ Finish

Spec == Init /\ [][Next]_streamVars /\ WF_streamVars(Next)
=============================================================================
