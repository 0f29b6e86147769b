----------------------------- MODULE KeptChunks -----------------------------
(***************************************************************************)
(* A caller that discards some kinds of tokens, and plans its own chunk    *)
(* boundaries with is_split_point_ignoring(): a chunk ends at any byte so  *)
(* certified, or at the end of the input, and the chunks are scanned one   *)
(* after the other.  The promise is for completely tokenizable input.      *)
(***************************************************************************)
EXTENDS Dfa

CONSTANTS CallerDfas, Texts,
          Ignored       \* the sets of token IDs callers discard

ASSUME KeptAssumption ==
  /\ \A D \in CallerDfas : IsDfa(D)
  /\ Texts \subseteq Seq(Symbols)
  /\ Ignored \subseteq SUBSET TokenIds

VARIABLES
  lexer, ignored, text,
  scanning,     \* "plan": a chunk is to be cut, "chunk": it is scanned
  end,          \* where the chunk ends
  position,
  kept          \* the sink's calls but for the ignored kinds

callerGiven == <<lexer, ignored, text>>
callerVars == <<callerGiven, scanning, end, position, kept>>

CallerInit ==
  /\ ignored \in Ignored
  /\ \E D \in CallerDfas : lexer = Simulator(D, ignored)
  /\ text \in { w \in Texts : Serial(lexer, w).consumed = Len(w) }
  /\ scanning = "plan"
  /\ end = 0
  /\ position = 0
  /\ kept = << >>

Cuts == { at \in position + 1 .. Len(text) - 1 : text[at + 1] \in lexer.split_points_ignoring }

PlanChunk ==
  /\ scanning = "plan"
  /\ position < Len(text)
  /\ end' \in Cuts \cup {Len(text)}
  /\ scanning' = "chunk"
  /\ UNCHANGED <<callerGiven, position, kept>>

Chunk == SubSeq(text, 1, end)

EmitKept ==
  /\ scanning = "chunk"
  /\ MatchLengths(lexer, Chunk, position) # {}
  /\ LET n == LongestMatch(lexer, Chunk, position)
         token == lexer.accept[StateAfter(lexer, Chunk, position)[n]]
     IN /\ position' = position + n
        /\ kept' = IF token \in ignored THEN kept
                   ELSE Append(kept, [begin |-> position, length |-> n, token |-> token])
  /\ UNCHANGED <<callerGiven, scanning, end>>

(* A chunk consumed in part ends the stream where it stopped.              *)
EndChunk ==
  /\ scanning = "chunk"
  /\ MatchLengths(lexer, Chunk, position) = {}
  /\ scanning' = IF position = end THEN "plan" ELSE "unmatched"
  /\ UNCHANGED <<callerGiven, end, position, kept>>

CallerNext == PlanChunk \/ EmitKept \/ EndChunk

CallerSpec == CallerInit /\ [][CallerNext]_callerVars

----------------------------------------------------------------------------
(* The tokens kept of the first n of a stream.                             *)
KeptOf(discarded, stream) ==
  LET keptOf[n \in 0 .. Len(stream)] ==
        IF n = 0 THEN << >>
        ELSE IF stream[n].token \in discarded THEN keptOf[n - 1]
        ELSE Append(keptOf[n - 1], stream[n])
  IN keptOf

Kept(discarded, stream) == KeptOf(discarded, stream)[Len(stream)]

(* Whatever certified bytes the chunks are cut at, the tokens kept are the *)
(* serial scan's, each in its place, and every chunk is consumed whole:    *)
(* only tokens that are discarded are severed (simulator.hpp 157-172).     *)
KeptStreamIsSerial ==
  LET serial == Kept(ignored, Serial(lexer, text).stream)
  IN /\ scanning # "unmatched"
     /\ kept = SubSeq(serial, 1, Len(kept))
     /\ position = Len(text) => kept = serial

=============================================================================
