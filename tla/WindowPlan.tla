----------------------------- MODULE WindowPlan -----------------------------
(***************************************************************************)
(* Lexer::chunk_boundaries_with_windows() and its Window_planner: where no *)
(* byte is certified, a cut is placed by the first certified window at or  *)
(* after the floor of its round.  With a mandatory core the windows are    *)
(* tried only around its occurrences, in the order of the exhaustive walk. *)
(* The core is the one the simulator's constructor derived.  The memo of   *)
(* window decisions is left out: they depend on nothing else.              *)
(***************************************************************************)
EXTENDS CoreSearch, CertificateWalk, Bags

CONSTANTS Planned,      \* those whose inputs are planned
          Inputs, MaxChunks, SizeMax, MaxWindow,
          Nothing                       \* std::nullopt

ASSUME WindowPlanAssumption ==
  /\ \A D \in Dfas : IsDfa(D)
  /\ Planned \subseteq Dfas
  /\ Inputs \subseteq Seq(Symbols)
  /\ SizeMax \in Nat \ {0}
  /\ \A w \in Inputs : Len(w) \in 0 .. SizeMax
  /\ MaxChunks \in 0 .. SizeMax
  /\ MaxWindow \in Nat
  /\ ShortestTried <= 2        \* a core and the byte after it are as long
  /\ Nothing \notin Nat \cup (Nat \X Nat)

VARIABLES
  input, chunks,
  planning, targets, index, boundaries,
  cursor,       \* where the walk, or the search for the core, goes on
  floor,        \* the position this round's search starts at
  barren,       \* no occurrence of the core begins at or after it
  latest,       \* the position past the last occurrence of this round
  occurrence,   \* the occurrence read and not yet taken up
  heap,         \* the windows to try, <<start, length>>
  last          \* the window tried last

simulator == <<sim, core>>
deriving == <<candidates, tried, proposal, seen, pending, node, byte, derivation>>
given == <<simulator, deriving, input, chunks>>
plan == <<planning, targets, index, boundaries>>
search == <<cursor, latest, occurrence, heap, last>>
vars == <<given, plan, search, floor, barren>>

Plan == INSTANCE ChunkPlan WITH split_points <- sim.split_points

size == Len(input)
usable == Plan!usable
back == boundaries[Len(boundaries)]

planVars == <<input, chunks, plan, search, floor, barren>>

NoPlan ==
  /\ planning = "unasked"
  /\ input = << >> /\ chunks = 0
  /\ targets = Plan!DivisionTargets(0, 0)
  /\ index = 1
  /\ boundaries = <<0>>
  /\ cursor = 0 /\ floor = 0 /\ latest = 0
  /\ barren = SizeMax
  /\ occurrence = Nothing
  /\ heap = EmptyBag
  /\ last = Nothing

Init == DeriveInit /\ NoPlan

Derive == DeriveNext /\ UNCHANGED planVars

(* A call on a lexer whose simulator has been constructed.                 *)
PlanStarts ==
  /\ derivation = "done" /\ planning = "unasked"
  /\ \E D \in Planned : sim = Simulator(D, {})
  /\ input' \in Inputs
  /\ chunks' \in 0 .. MaxChunks
  /\ planning' = "start"
  /\ targets' = Plan!DivisionTargets(size, usable)'
  /\ UNCHANGED <<simulator, deriving, index, boundaries, search, floor, barren>>

(* A token set that certifies bytes is planned with them alone.            *)
PlanWithBytes ==
  /\ planning # "unasked"
  /\ sim.split_points # {}
  /\ UNCHANGED <<given, floor, barren, latest, occurrence, heap, last>>
  /\ Plan!Next

DivideForWindows ==
  /\ planning = "start"
  /\ sim.split_points = {}
  /\ planning' = "floor"
  /\ UNCHANGED <<given, targets, index, boundaries, search, floor, barren>>

NextFloor ==
  /\ planning = "floor"
  /\ index < usable
  /\ targets' = Plan!NextTarget(targets)
  /\ floor' = Plan!MaxOf(targets'.target, Plan!Plus(back, 1))
  /\ planning' = "cut"
  /\ UNCHANGED <<given, index, boundaries, search, barren>>

Close ==
  /\ planning = "floor"
  /\ index >= usable
  /\ boundaries' = Append(boundaries, size)
  /\ planning' = "planned"
  /\ UNCHANGED <<given, targets, index, search, floor, barren>>

(* The search's locals end with it.                                        *)
EndRound(bounds) ==
  /\ boundaries' = bounds
  /\ index' = index + 1
  /\ planning' = "floor"
  /\ cursor' = 0
  /\ latest' = 0
  /\ occurrence' = Nothing
  /\ heap' = EmptyBag
  /\ last' = Nothing
  /\ UNCHANGED <<given, targets, floor, barren>>

(* No window can begin at the floor, or none that can hold the core, or    *)
(* no occurrence of the core is left there.                                *)
RefuseAtOnce ==
  /\ planning = "cut"
  /\ \/ floor >= size
     \/ core # << >> /\ Len(core) + 1 > LongestTried
     \/ core # << >> /\ floor >= barren
  /\ EndRound(boundaries)

----------------------------------------------------------------------------
(* The exhaustive walk: every position, lengths ascending.                 *)
StartExhaustive ==
  /\ planning = "cut"
  /\ floor < size
  /\ core = << >>
  /\ cursor' = floor
  /\ planning' = "exhaustive"
  /\ UNCHANGED <<given, targets, index, boundaries, latest, occurrence, heap, last,
                 floor, barren>>

CutExhaustive ==
  /\ planning = "exhaustive"
  /\ cursor + ShortestTried <= size
  /\ \E n \in LengthsAt(sim, input, cursor) :
       /\ \A m \in LengthsAt(sim, input, cursor) : n <= m
       /\ EndRound(Append(boundaries, cursor + OriginAt(sim, input, cursor, n)))

WalkExhaustive ==
  /\ planning = "exhaustive"
  /\ cursor + ShortestTried <= size
  /\ LengthsAt(sim, input, cursor) = {}
  /\ cursor' = cursor + 1
  /\ UNCHANGED <<given, plan, latest, occurrence, heap, last, floor, barren>>

NoneExhaustive ==
  /\ planning = "exhaustive"
  /\ cursor + ShortestTried > size
  /\ EndRound(boundaries)

----------------------------------------------------------------------------
(* The search at the core's occurrences.                                   *)
OccurrencesFrom(from) ==
  { at \in from .. size - Len(core) : SubSeq(input, at + 1, at + Len(core)) = core }

(* The barren offset set where this round's search began.                  *)
NextOccurrenceBarrenFloor(from, past) ==
  IF OccurrencesFrom(from) = {}
  THEN /\ occurrence' = Nothing
       /\ barren' = IF floor < barren THEN floor ELSE barren
       /\ latest' = past
       /\ cursor' = Plan!MaxOf(from, size - Len(core) + 1)
  ELSE \E at \in OccurrencesFrom(from) :
         /\ \A other \in OccurrencesFrom(from) : at <= other
         /\ occurrence' = at
         /\ latest' = at + 1
         /\ cursor' = at + 1
         /\ UNCHANGED barren

(* Reads up to the next occurrence; when none is left the barren offset is *)
(* lowered to the position past the last one of this round.                *)
NextOccurrence(from, past) ==
  IF OccurrencesFrom(from) = {}
  THEN /\ occurrence' = Nothing
       /\ barren' = IF past < barren THEN past ELSE barren
       /\ latest' = past
       /\ cursor' = Plan!MaxOf(from, size - Len(core) + 1)
  ELSE \E at \in OccurrencesFrom(from) :
         /\ \A other \in OccurrencesFrom(from) : at <= other
         /\ occurrence' = at
         /\ latest' = at + 1
         /\ cursor' = at + 1
         /\ UNCHANGED barren

StartAtCore ==
  /\ planning = "cut"
  /\ floor < size
  /\ core # << >>
  /\ Len(core) + 1 <= LongestTried
  /\ floor < barren
  /\ NextOccurrence(floor, floor)
  /\ heap' = EmptyBag
  /\ last' = Nothing
  /\ planning' = "core"
  /\ UNCHANGED <<given, targets, index, boundaries, floor>>

(* The windows that hold the core's occurrence with a byte after it.       *)
Around(at) ==
  { w \in (floor .. at) \X (Len(core) + 1 .. LongestTried) :
      /\ at + Len(core) + 1 <= w[1] + w[2]
      /\ w[1] + w[2] <= size }

Precedes(v, w) ==
  \/ v[1] < w[1]
  \/ v[1] = w[1] /\ v[2] < w[2]

Top(w) == w \in BagToSet(heap) /\ \A v \in BagToSet(heap) \ {w} : Precedes(w, v)

(* Whether the occurrence read can hold a window before the heap's top.    *)
Contributes ==
  \/ heap = EmptyBag
  \/ \E w \in BagToSet(heap) :
       Top(w) /\ occurrence <= w[1] + LongestTried - Len(core) - 1

Ingest ==
  /\ planning = "core"
  /\ occurrence # Nothing
  /\ Contributes
  /\ heap' = heap (+) SetToBag(Around(occurrence))
  /\ NextOccurrence(cursor, latest)
  /\ UNCHANGED <<given, plan, last, floor>>

NoneAtCore ==
  /\ planning = "core"
  /\ occurrence = Nothing
  /\ heap = EmptyBag
  /\ EndRound(boundaries)

Popped(w) ==
  /\ planning = "core"
  /\ ~ (occurrence # Nothing /\ Contributes)
  /\ Top(w)

(* A duplicate, proposed by two occurrences, or a window that is refused.  *)
Skip(w) ==
  /\ Popped(w)
  /\ w = last \/ OriginAt(sim, input, w[1], w[2]) = BeforeWindow
  /\ heap' = heap (-) SetToBag({w})
  /\ last' = w
  /\ UNCHANGED <<given, plan, cursor, latest, occurrence, floor, barren>>

CutAtCore(w) ==
  /\ Popped(w)
  /\ w # last
  /\ OriginAt(sim, input, w[1], w[2]) # BeforeWindow
  /\ EndRound(Append(boundaries, w[1] + OriginAt(sim, input, w[1], w[2])))

PlanNext ==
  \/ PlanWithBytes
  \/ DivideForWindows \/ NextFloor \/ Close \/ RefuseAtOnce
  \/ StartExhaustive \/ CutExhaustive \/ WalkExhaustive \/ NoneExhaustive
  \/ StartAtCore \/ Ingest \/ NoneAtCore
  \/ \E w \in BagToSet(heap) : Skip(w) \/ CutAtCore(w)

Next == Derive \/ PlanStarts \/ PlanNext

(* The constructor and the planner run on until they are done; no call     *)
(* need ever come.                                                         *)
Spec == Init /\ [][Next]_vars /\ WF_vars(Derive) /\ WF_vars(PlanNext)

----------------------------------------------------------------------------
(* Every search ends.  The derivation's, over one buffer that is never     *)
(* cleared, answer as searches of their own would: no mark of an earlier   *)
(* one hides a state from a later one (simulator.cpp 594-611).  A plan     *)
(* that is begun is finished: the heap is emptied though occurrences that  *)
(* overlap propose a window twice, and the walk comes to the input's end.  *)
SearchesAnswer ==
  /\ <>(planning = "unasked" /\ derivation = "done" /\ core = MandatoryCore(sim))
  /\ planning = "start" ~> planning = "planned"

(* Every window that is_split_window() certifies contains the core with a  *)
(* byte after it (simulator.hpp 220-229).                                  *)
CoreIsMandatory ==
  planning = "unasked" /\ derivation = "done" =>
    \A n \in 1 .. MaxWindow : \A w \in [1 .. n -> Symbols] :
      SplitOrigin(sim, w) # BeforeWindow => Carries(w, core)

(* The windows that license a cut for a round, and the cuts.               *)
Licensed(i, previous) ==
  { w \in (Plan!MaxOf((size * i) \div usable, previous + 1) .. size)
            \X (ShortestTried .. LongestTried) :
      /\ w[1] + w[2] <= size
      /\ OriginAt(sim, input, w[1], w[2]) # BeforeWindow }

Exhaustive ==
  LET cuts == Len(boundaries) - 2
  IN /\ \A i \in 1 .. cuts :
          \E w \in Licensed(i, boundaries[i]) :
            /\ \A v \in Licensed(i, boundaries[i]) \ {w} : Precedes(w, v)
            /\ boundaries[i + 1] = w[1] + OriginAt(sim, input, w[1], w[2])
     /\ cuts < usable - 1 => Licensed(cuts + 1, boundaries[cuts + 1]) = {}

(* The plan made at the core's occurrences is that of the exhaustive walk: *)
(* every cut is the one of the first licensed window, in the order of      *)
(* positions and then of lengths, and a round without a cut has no         *)
(* licensed window (window_planner.hpp 191-194).                           *)
PlanIsExhaustive ==
  planning = "planned" /\ sim.split_points = {} => Exhaustive

(* Every cut begins a token of the serial scan, when the input is          *)
(* completely tokenizable (lexer.hpp 497-503).                             *)
CutsBeginTokens ==
  LET serial == Serial(sim, input)
  IN planning = "planned" /\ serial.consumed = size =>
       \A i \in 2 .. Len(boundaries) - 1 :
         \E j \in 1 .. Len(serial.stream) : serial.stream[j].begin = boundaries[i]
=============================================================================
