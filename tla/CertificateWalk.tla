-------------------------- MODULE CertificateWalk --------------------------
(***************************************************************************)
(* What the planner of window cuts and the recovery from a lexical error   *)
(* ask of an input: which windows at a position are certified, and where   *)
(* the first certificate at or after an offset is.                         *)
(***************************************************************************)
EXTENDS WindowCloud

CONSTANTS ShortestTried, LongestTried   \* shortest_window, longest_window

ASSUME CertificateWalkAssumption == ShortestTried \in Nat /\ LongestTried \in Nat

OriginAt(D, w, at, length) == SplitOrigin(D, SubSeq(w, at + 1, at + length))

LengthsAt(D, w, at) ==
  { n \in ShortestTried .. LongestTried :
      at + n <= Len(w) /\ OriginAt(D, w, at, n) # BeforeWindow }

Least(S) == CHOOSE n \in S : \A m \in S : n <= m

(* The occurrence of the window answered, not its origin.                  *)
CertificateAtOccurrence(D, w, at) ==
  IF w[at + 1] \in D.split_points
  THEN [start |-> at, evidence_begin |-> at, evidence_end |-> at + 1]
  ELSE LET n == Least(LengthsAt(D, w, at))
       IN [start |-> at, evidence_begin |-> at, evidence_end |-> at + n]

(* The certificate met first at a position where there is one: the byte    *)
(* itself, or else the shortest window.                                    *)
CertificateAt(D, w, at) ==
  IF w[at + 1] \in D.split_points
  THEN [start |-> at, evidence_begin |-> at, evidence_end |-> at + 1]
  ELSE LET n == Least(LengthsAt(D, w, at))
       IN [ start |-> at + OriginAt(D, w, at, n),
            evidence_begin |-> at,
            evidence_end |-> at + n ]

(* The first certificate in the order of the evidence, as the one answer   *)
(* or none.                                                                *)
NextCertified(D, w, from) ==
  LET certified == { at \in from .. Len(w) - 1 :
                       w[at + 1] \in D.split_points \/ LengthsAt(D, w, at) # {} }
  IN { CertificateAt(D, w, at) : at \in { a \in certified : \A b \in certified : a <= b } }
=============================================================================
