------------------------------ MODULE Scanner ------------------------------
(***************************************************************************)
(* Simulator::run_all(): the whole-input scan, byte by byte.  The sink is  *)
(* the caller's: it records the token and may ask the scan to stop.        *)
(***************************************************************************)
EXTENDS Dfa

CONSTANTS Dfas,         \* the automata a simulator is constructed from
          Inputs        \* the inputs scanned

ASSUME ScannerAssumption ==
  /\ \A D \in Dfas : IsDfa(D)
  /\ Inputs \subseteq Seq(Symbols)

VARIABLES
  dfa,              \* the automaton given to the constructor
  sim,              \* the simulator compiled from it
  input,
  pc,               \* "token": loop head, "byte": inner loop, or how it ended
  offset,
  state,
  consumed,
  accept_state,
  accept_consumed,
  stream            \* the sink's calls in order, each with where it began

scan == <<state, consumed, accept_state, accept_consumed>>
vars == <<dfa, sim, input, pc, offset, scan, stream>>

Init ==
  /\ dfa \in Dfas
  /\ sim = Simulator(dfa, {})
  /\ input \in Inputs
  /\ pc = "token"
  /\ offset = 0
  /\ state = sim.init
  /\ consumed = 0
  /\ accept_state = NoState
  /\ accept_consumed = 0
  /\ stream = << >>

(* A restart that keeps the length read for the token before.              *)
BeginTokenKeepsConsumed ==
  /\ pc = "token"
  /\ offset < Len(input)
  /\ state' = sim.init
  /\ accept_state' = NoState
  /\ accept_consumed' = 0
  /\ pc' = "byte"
  /\ UNCHANGED <<dfa, sim, input, offset, consumed, stream>>

(* The outer loop's head: the automaton restarts at each token.            *)
BeginToken ==
  /\ pc = "token"
  /\ offset < Len(input)
  /\ state' = sim.init
  /\ consumed' = 0
  /\ accept_state' = NoState
  /\ accept_consumed' = 0
  /\ pc' = "byte"
  /\ UNCHANGED <<dfa, sim, input, offset, stream>>

Exhausted ==
  /\ pc = "token"
  /\ offset = Len(input)
  /\ pc' = "exhausted"
  /\ UNCHANGED <<dfa, sim, input, offset, scan, stream>>

(* The table's entry for the byte at the cursor, no state past the end.    *)
Entry ==
  IF offset + consumed < Len(input)
  THEN sim.next[state][input[offset + consumed + 1]]
  ELSE NoState

(* The first accepting state kept, not the last.                           *)
ReadByteShortestMatch ==
  /\ pc = "byte"
  /\ Entry # NoState
  /\ state' = Entry
  /\ consumed' = consumed + 1
  /\ IF Accepting(sim, Entry) /\ accept_state = NoState
     THEN accept_state' = Entry /\ accept_consumed' = consumed + 1
     ELSE UNCHANGED <<accept_state, accept_consumed>>
  /\ UNCHANGED <<dfa, sim, input, pc, offset, stream>>

ReadByte ==
  /\ pc = "byte"
  /\ Entry # NoState
  /\ state' = Entry
  /\ consumed' = consumed + 1
  /\ IF Accepting(sim, Entry)
     THEN accept_state' = Entry /\ accept_consumed' = consumed + 1
     ELSE UNCHANGED <<accept_state, accept_consumed>>
  /\ UNCHANGED <<dfa, sim, input, pc, offset, stream>>

(* The inner loop ended without an accepting state seen.                   *)
Unmatched ==
  /\ pc = "byte"
  /\ Entry = NoState
  /\ accept_state = NoState
  /\ pc' = "unmatched"
  /\ UNCHANGED <<dfa, sim, input, offset, scan, stream>>

(* The scan resumes where it stopped reading, past the longest match.      *)
EmitSkipsLookahead ==
  /\ pc = "byte"
  /\ Entry = NoState
  /\ accept_state # NoState
  /\ offset' = offset + consumed
  /\ stream' = Append(stream, [begin  |-> offset,
                               length |-> accept_consumed,
                               token  |-> sim.accept[accept_state]])
  /\ pc' \in {"token", "stopped"}
  /\ UNCHANGED <<dfa, sim, input, scan>>

(* The longest match goes to the sink, which may stop the scan after it.   *)
Emit ==
  /\ pc = "byte"
  /\ Entry = NoState
  /\ accept_state # NoState
  /\ offset' = offset + accept_consumed
  /\ stream' = Append(stream, [begin  |-> offset,
                               length |-> accept_consumed,
                               token  |-> sim.accept[accept_state]])
  /\ pc' \in {"token", "stopped"}
  /\ UNCHANGED <<dfa, sim, input, scan>>

Next == BeginToken \/ Exhausted \/ ReadByte \/ Unmatched \/ Emit

Spec == Init /\ [][Next]_vars /\ WF_vars(Next)

----------------------------------------------------------------------------
Running == pc \in {"token", "byte"}

TypeOK ==
  /\ dfa \in Dfas
  /\ IsDfa(sim)
  /\ input \in Inputs
  /\ pc \in {"token", "byte", "exhausted", "unmatched", "stopped"}
  /\ offset \in 0 .. Len(input)
  /\ consumed \in 0 .. Len(input)
  /\ pc = "byte" => offset + consumed <= Len(input)
  /\ accept_consumed \in 0 .. consumed
  /\ state \in States(sim)
  /\ accept_state \in States(sim) \cup {NoState}
  /\ stream \in Seq([begin : 0 .. Len(input), length : 1 .. Len(input),
                    token : TokenIds])

(* No token of any scan, complete or not, holds a certified byte anywhere  *)
(* but in front: what derive_split_points() certifies and what makes a cut *)
(* before such a byte safe (lexer.hpp 567-577).  A scan that reads on past *)
(* such a byte is doomed: it is in no live state, and the last accepting   *)
(* state it saw ended before the byte.                                     *)
SplitPointsBeginTokens ==
  /\ \A i \in DOMAIN stream :
       \A k \in 1 .. stream[i].length - 1 :
         input[stream[i].begin + k + 1] \notin sim.split_points
  /\ pc = "byte" =>
       \A k \in 1 .. consumed - 1 :
         input[offset + k + 1] \in sim.split_points =>
           state \notin sim.live /\ accept_consumed <= k

(* The tokens lie end to end from the front of the input to the offset: no *)
(* byte is emitted twice or skipped, and the bytes read ahead of the last  *)
(* match are read again.                                                   *)
TokensTileInput ==
  /\ \A i \in DOMAIN stream \ {1} :
       stream[i].begin = stream[i - 1].begin + stream[i - 1].length
  /\ IF stream = << >>
     THEN offset = 0
     ELSE LET last == stream[Len(stream)]
          IN stream[1].begin = 0 /\ offset = last.begin + last.length

(* run_all() is the longest-match scan of the automaton as given, before   *)
(* its start was unrolled and its token boundaries were forgotten.         *)
Stream == INSTANCE TokenStream
            WITH status <- IF Running THEN "running" ELSE pc
ImplementsTokenStream == Stream!Spec
=============================================================================
