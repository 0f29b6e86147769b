---------------------------- MODULE FoundWindow ----------------------------
(***************************************************************************)
(* The two window decisions. is_split_window(): a caller that has found a  *)
(* window at an offset of its input asks where the token around it began.  *)
(* The promise is for completely tokenizable input; the walk runs on any.  *)
(*                                                                         *)
(* And both as a caller uses them: it has the shortest certified window    *)
(* searched for and then looks for it in its inputs, or brings a window of *)
(* its own; either way is_split_window() says where the token around an    *)
(* occurrence began.                                                       *)
(***************************************************************************)
EXTENDS WindowCloud, FiniteSets

CONSTANTS Dfas, Inputs

ASSUME SplitWindowAssumption ==
  /\ \A D \in Dfas : IsDfa(D)
  /\ Inputs \subseteq Seq(Symbols)

VARIABLES
  sim, input,
  occurrence, length,   \* where the window lies in the input
  at,                   \* the bytes of it that the walk has read
  cloud,
  walk                  \* "walking", "certified", "refused"

given == <<sim, input, occurrence, length>>
vars == <<given, at, cloud, walk>>

window == SubSeq(input, occurrence + 1, occurrence + length)

Init ==
  /\ \E D \in Dfas : sim = Simulator(D, {})
  /\ input \in Inputs
  /\ occurrence \in 0 .. Len(input)
  /\ length \in 0 .. Len(input) - occurrence
  /\ at = 0
  /\ cloud = InitialCloud(sim)
  /\ walk = "walking"

(* The empty window certifies nothing.                                     *)
RefuseEmpty ==
  /\ walk = "walking"
  /\ length = 0
  /\ walk' = "refused"
  /\ UNCHANGED <<given, at, cloud>>

(* The empty cloud refuses at once.                                        *)
ReadByte ==
  /\ walk = "walking"
  /\ at < length
  /\ LET next == Advance(sim, cloud, window[at + 1], at)
     IN IF next = {}
        THEN walk' = "refused" /\ UNCHANGED <<at, cloud>>
        ELSE cloud' = next /\ at' = at + 1 /\ UNCHANGED walk
  /\ UNCHANGED given

Decide ==
  /\ walk = "walking"
  /\ length > 0
  /\ at = length
  /\ walk' = IF Verdict(cloud) # BeforeWindow THEN "certified" ELSE "refused"
  /\ UNCHANGED <<given, at, cloud>>

Next == RefuseEmpty \/ ReadByte \/ Decide

Spec == Init /\ [][Next]_vars

----------------------------------------------------------------------------
serial == Serial(sim, input)

Tokenizable == serial.consumed = Len(input)

(* The offset where the serial scan's token around a byte begins.          *)
Covering(offset) ==
  LET i == CHOOSE i \in 1 .. Len(serial.stream) :
             /\ serial.stream[i].begin <= offset
             /\ offset < serial.stream[i].begin + serial.stream[i].length
  IN serial.stream[i].begin

(* What the scan's own history is in the terms of a hypothesis, once the   *)
(* byte at the offset is read.                                             *)
History(offset) ==
  LET begin == Covering(offset)
  IN << StateAfter(sim, input, begin)[offset + 1 - begin],
        IF begin >= occurrence THEN begin - occurrence ELSE BeforeWindow >>

(* The cloud never loses the truth: however long the token around the      *)
(* window has been running, and however many end inside, what the serial   *)
(* scan is really doing at a byte of the window is one of the hypotheses   *)
(* (split_window.hpp 71-76).                                               *)
CloudCoversScan ==
  Tokenizable /\ at > 0 => History(occurrence + at - 1) \in cloud

(* A certified origin is where the serial scan's token around the window's *)
(* last byte begins (split_window.hpp 65-66); and a window of one byte is  *)
(* certified exactly when the byte is a split point, unless no token can   *)
(* be matched at all (split_window.hpp 78-80).                             *)
OriginBeginsToken ==
  /\ walk = "certified" /\ Tokenizable =>
       occurrence + Verdict(cloud) = Covering(occurrence + length - 1)
  /\ length = 1 /\ walk # "walking" /\ sim.live # {} =>
       (walk = "certified" <=> input[occurrence + 1] \in sim.split_points)

----------------------------------------------------------------------------
CONSTANTS SearchDfas, Budgets, Bytes, MaxWindow,
          Texts         \* the inputs in which the window found is looked for

ASSUME FoundWindowAssumption ==
  /\ \A D \in SearchDfas : IsDfa(D)
  /\ Budgets \subseteq Nat
  /\ Bytes \in Seq(Symbols)
  /\ \A a \in Symbols : \E i \in 1 .. Len(Bytes) : Bytes[i] = a
  /\ Texts \subseteq Seq(Symbols)

VARIABLES budget, nodes, reached, expanded, byte, pending, outcome, last

walkVars == <<input, occurrence, length, at, cloud, walk>>
searchVars == <<budget, nodes, reached, expanded, byte, pending, outcome, last>>
useVars == <<sim, walkVars, searchVars>>

Search == INSTANCE ShortestWindow WITH Dfas <- SearchDfas, at <- expanded

NoSearch ==
  /\ budget = 0 /\ expanded = 0 /\ byte = 0 /\ last = 0
  /\ nodes = << >> /\ reached = << >>
  /\ pending = {}
  /\ outcome = "unasked"

NoWindow ==
  /\ input = << >> /\ occurrence = 0 /\ length = 0 /\ at = 0
  /\ cloud = {}
  /\ walk = "unasked"

UseInit == (Init /\ NoSearch) \/ (Search!Init /\ NoWindow)

(* Where a text holds the window found.                                    *)
Occurrences(text, found) ==
  { o \in 0 .. Len(text) - Len(found) : SubSeq(text, o + 1, o + Len(found)) = found }

Use ==
  /\ walk = "unasked"
  /\ outcome = "found"
  /\ \E text \in Texts : \E o \in Occurrences(text, Search!WindowTo(last)) :
       /\ input' = text
       /\ occurrence' = o
  /\ length' = Len(Search!WindowTo(last))
  /\ at' = 0
  /\ cloud' = InitialCloud(sim)
  /\ walk' = "walking"
  /\ UNCHANGED <<sim, searchVars>>

UseNext ==
  \/ Next /\ UNCHANGED searchVars
  \/ Search!Next /\ UNCHANGED walkVars
  \/ Use

UseSpec == UseInit /\ [][UseNext]_useVars

----------------------------------------------------------------------------
(* What the search finds with the origins forgotten is what the cloud with *)
(* all of its origins certifies, at the same origin, and no shorter window *)
(* is certified; it says that there is none only when there is none        *)
(* (split_window.hpp 89-93, 97-98, 104-105).                               *)
FoundIsShortest == Search!FoundIsShortest
=============================================================================
