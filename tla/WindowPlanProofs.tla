--------------------------- MODULE WindowPlanProofs ---------------------------
(***************************************************************************)
(* The plan of every input of every automaton, whichever way the planner   *)
(* goes about it: each of its cuts begins a token of the serial scan.  And *)
(* the core it goes by is one that every certified window carries.         *)
(***************************************************************************)
EXTENDS WindowPlan, DfaTheorems

(* A position a cut is right at.                                           *)
BeginsToken(p) ==
  Serial(sim, input).consumed = Len(input) =>
    \E j \in 1 .. Len(Serial(sim, input).stream) : Serial(sim, input).stream[j].begin = p

Compiled == IsSimulator(sim) /\ sim.split_points = SplitPoints(sim, {})

(* The cuts so far; the end of the input, added when the plan is closed,   *)
(* is none.                                                                *)
CutsSoFar ==
  /\ boundaries \in Seq(Nat) /\ boundaries # << >>
  /\ \A i \in 2 .. Len(boundaries) :
       (planning = "planned" => i < Len(boundaries)) => BeginsToken(boundaries[i])

(* The windows waiting in the heap lie in the input.                       *)
HeapInInput ==
  \A w \in BagToSet(heap) :
    w[1] \in Nat /\ w[2] \in Int /\ w[1] + w[2] <= Len(input)

Unasked == boundaries = <<0>> /\ BagToSet(heap) = {}

Division == [step : Nat, remainder : Nat, parts : Nat, target : Nat, carry : Nat]

(* The search's cursor is read again only when it has met an occurrence.   *)
Cursors ==
  /\ cursor \in Nat \/ (planning = "core" /\ occurrence = Nothing)
  /\ floor \in Nat
  /\ occurrence \in Nat \cup {Nothing}
  /\ chunks \in Nat
  /\ targets \in Division

PlanInv ==
  /\ planning # "unasked" => Compiled
  /\ planning = "unasked" => Unasked
  /\ input \in Seq(Symbols)
  /\ CutsSoFar
  /\ HeapInInput
  /\ Cursors

----------------------------------------------------------------------------
(* The origin of a certified window in the input begins a token.           *)
LEMMA WindowBegins ==
  ASSUME Compiled, input \in Seq(Symbols), NEW at \in Nat, NEW n \in Int, at + n <= Len(input),
         OriginAt(sim, input, at, n) # BeforeWindow
  PROVE  /\ BeginsToken(at + OriginAt(sim, input, at, n))
         /\ at + OriginAt(sim, input, at, n) \in Nat
<1> DEFINE origin == OriginAt(sim, input, at, n)
<1>1. /\ IsSimulator(sim) /\ origin # BeforeWindow
      /\ origin = SplitOrigin(sim, SubSeq(input, at + 1, at + n))
  BY DEF Compiled, OriginAt
<1> HIDE DEF origin
<1>2. n >= 1 /\ origin \in 0 .. n - 1
  BY <1>1, CertifiedOriginIsInside
<1>3. BeginsToken(at + origin)
  BY <1>1, CertifiedWindowBegins DEF BeginsToken
<1>4. QED
  BY <1>2, <1>3 DEF origin

(* A certified byte of the input begins a token.                           *)
LEMMA ByteBegins ==
  ASSUME Compiled, input \in Seq(Symbols), NEW at \in 0 .. Len(input) - 1,
         input[at + 1] \in sim.split_points
  PROVE  BeginsToken(at)
  BY CertifiedByteBegins DEF Compiled, BeginsToken

----------------------------------------------------------------------------
LEMMA InitPlan == Init => PlanInv
<1> SUFFICES ASSUME Init PROVE PlanInv
  OBVIOUS
<1>1. /\ planning = "unasked" /\ input = << >> /\ chunks = 0 /\ boundaries = <<0>>
      /\ cursor = 0 /\ floor = 0 /\ occurrence = Nothing /\ heap = EmptyBag
  BY DEF Init, NoPlan
<1>2. targets = [step |-> 0, remainder |-> 0, parts |-> 0, target |-> 0, carry |-> 0]
  BY DEF Init, NoPlan, Plan!DivisionTargets
<1>3. BagToSet(heap) = {}
  BY <1>1 DEF BagToSet, EmptyBag, SetToBag
<1>4. /\ <<0>> \in Seq(Nat) /\ Len(<<0>>) = 1 /\ << >> \in Seq(Symbols)
      /\ <<0>> # << >>
  OBVIOUS
<1>5. CutsSoFar
  <2>1. /\ boundaries \in Seq(Nat) /\ boundaries # << >>
        /\ Len(boundaries) = 1
    BY <1>1, <1>4, Zenon
  <2>2. 2 .. Len(boundaries) = {}
    BY <2>1
  <2>3. QED
    BY <2>1, <2>2, Zenon DEF CutsSoFar
<1>6. Cursors
  BY <1>1, <1>2 DEF Cursors, Division
<1>7. QED
  BY <1>1, <1>3, <1>4, <1>5, <1>6 DEF PlanInv, Unasked, HeapInInput

(* The derivation changes nothing of the plan and leaves the simulator.    *)
LEMMA DerivePlan == PlanInv /\ Derive => PlanInv'
<1> SUFFICES ASSUME PlanInv, Derive PROVE PlanInv'
  OBVIOUS
<1>1. UNCHANGED sim
  BY DEF Derive, DeriveNext, Propose, NoneProved, Pop,
         Proved, Refuted, Step, Explored
<1>2. UNCHANGED <<input, chunks, planning, targets, boundaries, cursor, floor, occurrence, heap>>
  BY DEF Derive, planVars, plan, search
<1>3. QED
  BY <1>1, <1>2 DEF PlanInv, Compiled, Unasked, CutsSoFar, BeginsToken, HeapInInput, Cursors


LEMMA StartPlan == PlanInv /\ PlanStarts => PlanInv'
<1> SUFFICES ASSUME PlanInv, PlanStarts PROVE PlanInv'
  OBVIOUS
<1> USE DEF simulator, deriving, search
<1>1. PICK D \in Planned : sim = Simulator(D, {})
  BY DEF PlanStarts
<1>2. sim' = sim /\ Compiled
  BY <1>1, WindowPlanAssumption, SimulatorIsOne, SimulatorTables DEF Compiled, PlanStarts
<1>3. input' \in Seq(Symbols) /\ Len(input') \in Nat /\ chunks' \in Nat
  <2>1. input' \in Inputs /\ chunks' \in 0 .. MaxChunks
    BY DEF PlanStarts
  <2>2. \A n \in 0 .. MaxChunks : n \in Nat
    BY WindowPlanAssumption
  <2>3. QED
    BY <2>1, <2>2, WindowPlanAssumption
<1>4. planning = "unasked" /\ planning' = "start" /\ UNCHANGED <<boundaries, heap, cursor, floor, occurrence>>
  BY DEF PlanStarts
<1>5. targets' \in Division
  <2>1. \E parts \in Nat :
          targets' = [ step      |-> IF parts = 0 THEN 0 ELSE Len(input') \div parts,
                       remainder |-> IF parts = 0 THEN 0 ELSE Len(input') % parts,
                       parts     |-> parts, target |-> 0, carry |-> 0 ]
    BY <1>3 DEF PlanStarts, Plan!DivisionTargets, usable, Plan!usable, size, Plan!size
  <2>2. PICK parts \in Nat :
          targets' = [ step      |-> IF parts = 0 THEN 0 ELSE Len(input') \div parts,
                       remainder |-> IF parts = 0 THEN 0 ELSE Len(input') % parts,
                       parts     |-> parts, target |-> 0, carry |-> 0 ]
    BY <2>1
  <2>3. parts # 0 => Len(input') \div parts \in Nat /\ Len(input') % parts \in Nat
    BY <1>3
  <2>4. QED
    BY <2>2, <2>3 DEF Division
<1>6. CutsSoFar'
  <2>1. boundaries' = <<0>>
    BY <1>4 DEF PlanInv, Unasked
  <2>2. Len(boundaries') = 1 /\ boundaries' \in Seq(Nat)
    BY <2>1
  <2>3. QED
    BY <2>1, <2>2 DEF CutsSoFar
<1>7. HeapInInput'
  BY <1>4 DEF PlanInv, Unasked, HeapInInput
<1>8. Cursors'
  BY <1>3, <1>4, <1>5 DEF PlanInv, Cursors
<1>9. QED
  BY <1>2, <1>3, <1>4, <1>6, <1>7, <1>8 DEF PlanInv, Compiled

LEMMA CompiledStays ==
  ASSUME PlanInv, planning # "unasked", UNCHANGED given
  PROVE  /\ Compiled /\ Compiled' /\ sim' = sim /\ input' = input /\ chunks' = chunks
         /\ \A p : BeginsToken(p) <=> BeginsToken(p)'
  BY DEF PlanInv, given, simulator, Compiled, BeginsToken

(* How a step may change the cuts.                                         *)
LEMMA CutsKept ==
  ASSUME PlanInv, planning # "unasked", planning # "planned", UNCHANGED <<given, boundaries>>
  PROVE  CutsSoFar'
  BY CompiledStays DEF PlanInv, CutsSoFar

LEMMA CutAdded ==
  ASSUME PlanInv, planning # "unasked", planning # "planned", UNCHANGED given,
         NEW p \in Nat, BeginsToken(p), boundaries' = Append(boundaries, p)
  PROVE  CutsSoFar'
<1>1. /\ boundaries' \in Seq(Nat) /\ Len(boundaries') = Len(boundaries) + 1
      /\ \A i \in 1 .. Len(boundaries) : boundaries'[i] = boundaries[i]
      /\ boundaries'[Len(boundaries) + 1] = p /\ Len(boundaries) \in Nat
  BY DEF PlanInv, CutsSoFar
<1>2. \A i \in 2 .. Len(boundaries') : BeginsToken(boundaries'[i])
  BY <1>1 DEF PlanInv, CutsSoFar
<1>3. \A i \in 2 .. Len(boundaries') : BeginsToken(boundaries[i])' 
  BY <1>2, CompiledStays
<1>4. QED
  BY <1>1, <1>3 DEF CutsSoFar

LEMMA PlanClosed ==
  ASSUME PlanInv, planning # "unasked", planning # "planned", UNCHANGED given,
         boundaries' = Append(boundaries, Len(input)), planning' = "planned"
  PROVE  CutsSoFar'
<1>1. /\ boundaries' \in Seq(Nat) /\ Len(boundaries') = Len(boundaries) + 1
      /\ \A i \in 1 .. Len(boundaries) : boundaries'[i] = boundaries[i]
      /\ Len(boundaries) \in Nat
  BY DEF PlanInv, CutsSoFar
<1>2. \A i \in 2 .. Len(boundaries') : i < Len(boundaries') => BeginsToken(boundaries'[i])
  BY <1>1 DEF PlanInv, CutsSoFar
<1>3. \A i \in 2 .. Len(boundaries') : i < Len(boundaries') => BeginsToken(boundaries[i])'
  BY <1>2, CompiledStays
<1>4. QED
  BY <1>1, <1>3 DEF CutsSoFar

(* A target and the position past a cut are numbers, whether or not a sum  *)
(* wraps around.                                                           *)
LEMMA SumsAreNumbers ==
  ASSUME NEW x \in Nat, NEW y \in Nat
  PROVE  Plan!Plus(x, y) \in Nat /\ Plan!MaxOf(x, y) \in Nat
  BY WindowPlanAssumption DEF Plan!Plus, Plan!MaxOf

LEMMA NextTargetIsNumber ==
  ASSUME PlanInv
  PROVE  Plan!NextTarget(targets) \in Division
<1> DEFINE target == Plan!Plus(targets.target, targets.step)
           carry == Plan!Plus(targets.carry, targets.remainder)
           next == Plan!NextTarget(targets)
<1>1. target \in Nat /\ carry \in Nat /\ Plan!Plus(target, 1) \in Nat
  BY SumsAreNumbers DEF PlanInv, Cursors, Division
<1>2. carry >= targets.parts => carry - targets.parts \in Nat
  BY <1>1 DEF PlanInv, Cursors, Division
<1>3. targets \in Division
  BY DEF PlanInv, Cursors
<1> HIDE DEF target, carry
<1>4. next = [targets EXCEPT !.target = IF carry >= targets.parts THEN Plan!Plus(target, 1) ELSE target,
                             !.carry = IF carry >= targets.parts THEN carry - targets.parts ELSE carry]
  BY DEF Plan!NextTarget, target, carry
<1>5. QED
  BY <1>1, <1>2, <1>3, <1>4 DEF Division


(* A round ends with its search's locals, one cut the richer or none.      *)
LEMMA RoundEnds ==
  ASSUME PlanInv, planning # "unasked", planning # "planned", NEW bounds, EndRound(bounds),
         \/ bounds = boundaries
         \/ \E p \in Nat : BeginsToken(p) /\ bounds = Append(boundaries, p)
  PROVE  PlanInv'
<1>1. /\ UNCHANGED <<given, targets, floor>> /\ boundaries' = bounds
      /\ planning' = "floor" /\ cursor' = 0 /\ occurrence' = Nothing /\ heap' = EmptyBag
  BY DEF EndRound
<1>2. CutsSoFar'
  BY <1>1, CutsKept, CutAdded
<1>3. BagToSet(heap') = {}
  BY <1>1 DEF BagToSet, EmptyBag, SetToBag
<1>4. Compiled' /\ UNCHANGED <<sim, input, chunks>>
  BY <1>1, CompiledStays
<1>5. Cursors'
  BY <1>1, <1>4 DEF PlanInv, Cursors
<1>6. QED
  BY <1>1, <1>2, <1>3, <1>4, <1>5 DEF PlanInv, HeapInInput

LEMMA ByteSteps == PlanInv /\ PlanWithBytes => PlanInv'
<1> SUFFICES ASSUME PlanInv, PlanWithBytes PROVE PlanInv'
  OBVIOUS
<1> USE DEF Plan!given
<1>1. /\ planning # "unasked" /\ UNCHANGED <<given, floor, occurrence, heap>>
      /\ Compiled /\ Compiled' /\ UNCHANGED <<sim, input, chunks>>
  BY CompiledStays DEF PlanWithBytes
<1>2. HeapInInput'
  BY <1>1 DEF PlanInv, HeapInInput
<1>3. CASE Plan!WholeInput
  <2>1. /\ planning' = "planned" /\ UNCHANGED <<targets, cursor>>
        /\ boundaries' = <<0, Len(input)>> /\ planning = "start"
    BY <1>3 DEF Plan!WholeInput, Plan!size
  <2>2. /\ <<0, Len(input)>> \in Seq(Nat) /\ Len(<<0, Len(input)>>) = 2
        /\ <<0, Len(input)>> # << >>
    BY DEF PlanInv
  <2>3. CutsSoFar'
    BY <2>1, <2>2 DEF CutsSoFar
  <2>4. QED
    BY <1>1, <1>2, <2>1, <2>3 DEF PlanInv, Cursors
<1>4. CASE Plan!Divide
  <2>1. /\ planning = "start" /\ planning' = "target" /\ UNCHANGED <<targets, cursor, boundaries>>
    BY <1>4 DEF Plan!Divide
  <2>2. CutsSoFar'
    BY <1>1, <2>1, CutsKept
  <2>3. QED
    BY <1>1, <1>2, <2>1, <2>2 DEF PlanInv, Cursors
<1>5. CASE Plan!Target
  <2>1. /\ planning = "target" /\ planning' = "walk" /\ UNCHANGED boundaries
        /\ targets' = Plan!NextTarget(targets)
        /\ cursor' = Plan!MaxOf(targets'.target, Plan!Plus(Plan!back, 1))
    BY <1>5 DEF Plan!Target
  <2>2. targets' \in Division
    BY <2>1, NextTargetIsNumber
  <2>3. Plan!back \in Nat
    BY DEF Plan!back, PlanInv, CutsSoFar
  <2>4. cursor' \in Nat
    BY <2>1, <2>2, <2>3, SumsAreNumbers DEF Division
  <2>5. CutsSoFar'
    BY <1>1, <2>1, CutsKept
  <2>6. QED
    BY <1>1, <1>2, <2>1, <2>2, <2>4, <2>5 DEF PlanInv, Cursors
<1>6. CASE Plan!Walk
  <2>1. /\ planning = "walk" /\ UNCHANGED <<planning, targets, boundaries>>
        /\ cursor' = Plan!Plus(cursor, 1)
    BY <1>6 DEF Plan!Walk
  <2>2. cursor' \in Nat
    BY <2>1, SumsAreNumbers DEF PlanInv, Cursors
  <2>3. CutsSoFar'
    BY <1>1, <2>1, CutsKept
  <2>4. QED
    BY <1>1, <1>2, <2>1, <2>2, <2>3 DEF PlanInv, Cursors
<1>7. CASE Plan!Cut
  <2>1. /\ planning = "walk" /\ planning' = "target" /\ UNCHANGED <<targets, cursor>>
        /\ boundaries' = Append(boundaries, cursor)
        /\ cursor < Len(input) /\ input[cursor + 1] \in sim.split_points
    BY <1>7 DEF Plan!Cut, Plan!size, Plan!Certified
  <2>2. cursor \in 0 .. Len(input) - 1
    BY <2>1 DEF PlanInv, Cursors
  <2>3. BeginsToken(cursor)
    BY <1>1, <2>1, <2>2, ByteBegins DEF PlanInv
  <2>4. CutsSoFar'
    BY <1>1, <2>1, <2>2, <2>3, CutAdded
  <2>5. QED
    BY <1>1, <1>2, <2>1, <2>4 DEF PlanInv, Cursors
<1>8. CASE Plan!NoCut
  <2>1. /\ planning = "walk" /\ planning' = "target" /\ UNCHANGED <<targets, cursor, boundaries>>
    BY <1>8 DEF Plan!NoCut
  <2>2. CutsSoFar'
    BY <1>1, <2>1, CutsKept
  <2>3. QED
    BY <1>1, <1>2, <2>1, <2>2 DEF PlanInv, Cursors
<1>9. CASE Plan!Close
  <2>1. /\ planning = "target" /\ planning' = "planned" /\ UNCHANGED <<targets, cursor>>
        /\ boundaries' = Append(boundaries, Len(input))
    BY <1>9 DEF Plan!Close, Plan!size
  <2>2. CutsSoFar'
    BY <1>1, <2>1, PlanClosed
  <2>3. QED
    BY <1>1, <1>2, <2>1, <2>2 DEF PlanInv, Cursors
<1>10. QED
  BY <1>3, <1>4, <1>5, <1>6, <1>7, <1>8, <1>9 DEF PlanWithBytes, Plan!Next

----------------------------------------------------------------------------
(* The rounds of a plan with windows.                                      *)
LEMMA RoundSteps ==
  ASSUME PlanInv,
         DivideForWindows \/ NextFloor \/ Close \/ RefuseAtOnce \/ StartExhaustive
  PROVE  PlanInv'
<1>1. CASE DivideForWindows
  <2>1. /\ planning = "start" /\ planning' = "floor"
        /\ UNCHANGED <<given, targets, boundaries, cursor, occurrence, heap, floor>>
    BY <1>1 DEF DivideForWindows, search
  <2>2. CutsSoFar' /\ Compiled' /\ UNCHANGED <<sim, input, chunks>>
    BY <2>1, CutsKept, CompiledStays
  <2>3. QED
    BY <2>1, <2>2 DEF PlanInv, HeapInInput, Cursors
<1>2. CASE NextFloor
  <2>1. /\ planning = "floor" /\ planning' = "cut"
        /\ targets' = Plan!NextTarget(targets)
        /\ floor' = Plan!MaxOf(targets'.target, Plan!Plus(back, 1))
        /\ UNCHANGED <<given, boundaries, cursor, occurrence, heap>>
    BY <1>2 DEF NextFloor, search
  <2>2. CutsSoFar' /\ Compiled' /\ UNCHANGED <<sim, input, chunks>>
    BY <2>1, CutsKept, CompiledStays
  <2>3. targets' \in Division
    BY <2>1, NextTargetIsNumber
  <2>4. back \in Nat
    BY DEF back, PlanInv, CutsSoFar
  <2>5. floor' \in Nat
    BY <2>1, <2>3, <2>4, SumsAreNumbers DEF Division
  <2>6. QED
    BY <2>1, <2>2, <2>3, <2>5 DEF PlanInv, HeapInInput, Cursors
<1>3. CASE Close
  <2>1. /\ planning = "floor" /\ planning' = "planned"
        /\ boundaries' = Append(boundaries, Len(input))
        /\ UNCHANGED <<given, targets, cursor, occurrence, heap, floor>>
    BY <1>3 DEF Close, search, size
  <2>2. CutsSoFar' /\ Compiled' /\ UNCHANGED <<sim, input, chunks>>
    BY <2>1, PlanClosed, CompiledStays
  <2>3. QED
    BY <2>1, <2>2 DEF PlanInv, HeapInInput, Cursors
<1>4. CASE RefuseAtOnce
  <2>1. planning = "cut" /\ EndRound(boundaries)
    BY <1>4 DEF RefuseAtOnce
  <2>2. QED
    BY <2>1, RoundEnds
<1>5. CASE StartExhaustive
  <2>1. /\ planning = "cut" /\ planning' = "exhaustive" /\ cursor' = floor
        /\ UNCHANGED <<given, targets, boundaries, occurrence, heap, floor>>
    BY <1>5 DEF StartExhaustive
  <2>2. CutsSoFar' /\ Compiled' /\ UNCHANGED <<sim, input, chunks>>
    BY <2>1, CutsKept, CompiledStays
  <2>3. QED
    BY <2>1, <2>2 DEF PlanInv, HeapInInput, Cursors
<1>6. QED
  BY <1>1, <1>2, <1>3, <1>4, <1>5

LEMMA ExhaustiveSteps ==
  ASSUME PlanInv, CutExhaustive \/ WalkExhaustive \/ NoneExhaustive
  PROVE  PlanInv'
<1>0. planning = "exhaustive"
  BY DEF CutExhaustive, WalkExhaustive, NoneExhaustive
<1>1. Compiled /\ cursor \in Nat /\ input \in Seq(Symbols)
  BY <1>0 DEF PlanInv, Cursors
<1>2. CASE CutExhaustive
  <2>1. PICK n \in LengthsAt(sim, input, cursor) :
          EndRound(Append(boundaries, cursor + OriginAt(sim, input, cursor, n)))
    BY <1>2 DEF CutExhaustive
  <2>2. /\ n \in Int /\ cursor + n <= Len(input)
        /\ OriginAt(sim, input, cursor, n) # BeforeWindow
    BY CertificateWalkAssumption DEF LengthsAt
  <2>3. /\ BeginsToken(cursor + OriginAt(sim, input, cursor, n))
        /\ cursor + OriginAt(sim, input, cursor, n) \in Nat
    BY <1>1, <2>2, WindowBegins
  <2>4. QED
    BY <1>0, <2>1, <2>3, RoundEnds
<1>3. CASE WalkExhaustive
  <2>1. cursor' = cursor + 1 /\ UNCHANGED <<given, plan, occurrence, heap, floor>>
    BY <1>3 DEF WalkExhaustive
  <2>2. UNCHANGED <<planning, targets, boundaries>>
    BY <2>1 DEF plan
  <2>3. CutsSoFar' /\ Compiled' /\ UNCHANGED <<sim, input, chunks>>
    BY <1>0, <2>1, <2>2, CutsKept, CompiledStays
  <2>4. QED
    BY <1>0, <1>1, <2>1, <2>2, <2>3 DEF PlanInv, HeapInInput, Cursors
<1>4. CASE NoneExhaustive
  BY <1>0, <1>4, RoundEnds DEF NoneExhaustive
<1>5. QED
  BY <1>2, <1>3, <1>4

(* The search for the core's next occurrence goes on from an offset.       *)
LEMMA OccurrenceIsOffset ==
  ASSUME NEW from \in Nat, NEW past, NextOccurrence(from, past)
  PROVE  occurrence' = Nothing \/ (occurrence' \in Nat /\ cursor' \in Nat)
<1>1. CASE OccurrencesFrom(from) = {}
  BY <1>1 DEF NextOccurrence
<1>2. CASE OccurrencesFrom(from) # {}
  <2>1. PICK at \in OccurrencesFrom(from) : occurrence' = at /\ cursor' = at + 1
    BY <1>2 DEF NextOccurrence
  <2>2. at \in Nat
    BY DEF OccurrencesFrom
  <2>3. QED
    BY <2>1, <2>2
<1>3. QED
  BY <1>1, <1>2

LEMMA CoreSteps ==
  ASSUME PlanInv, StartAtCore \/ Ingest \/ NoneAtCore
  PROVE  PlanInv'
<1>1. CASE StartAtCore
  <2>1. /\ planning = "cut" /\ planning' = "core" /\ heap' = EmptyBag
        /\ NextOccurrence(floor, floor)
        /\ UNCHANGED <<given, targets, boundaries, floor>>
    BY <1>1 DEF StartAtCore
  <2>2. occurrence' = Nothing \/ (occurrence' \in Nat /\ cursor' \in Nat)
    BY <2>1, OccurrenceIsOffset DEF PlanInv, Cursors
  <2>3. CutsSoFar' /\ Compiled' /\ UNCHANGED <<sim, input, chunks>>
    BY <2>1, CutsKept, CompiledStays
  <2>4. BagToSet(heap') = {}
    BY <2>1 DEF BagToSet, EmptyBag, SetToBag
  <2>5. Cursors'
    BY <2>1, <2>2, <2>3 DEF PlanInv, Cursors
  <2>6. QED
    BY <2>1, <2>3, <2>4, <2>5 DEF PlanInv, HeapInInput
<1>2. CASE Ingest
  <2>1. /\ planning = "core" /\ occurrence # Nothing
        /\ heap' = heap (+) SetToBag(Around(occurrence))
        /\ NextOccurrence(cursor, latest)
        /\ UNCHANGED <<given, planning, targets, boundaries, floor>>
    BY <1>2 DEF Ingest, plan
  <2>2. cursor \in Nat /\ occurrence \in Nat /\ floor \in Nat /\ input \in Seq(Symbols)
    BY <2>1 DEF PlanInv, Cursors
  <2>3. occurrence' = Nothing \/ (occurrence' \in Nat /\ cursor' \in Nat)
    BY <2>1, <2>2, OccurrenceIsOffset
  <2>4. CutsSoFar' /\ Compiled' /\ UNCHANGED <<sim, input, chunks>>
    BY <2>1, CutsKept, CompiledStays
  <2>5. BagToSet(heap') = BagToSet(heap) \cup Around(occurrence)
    BY <2>1 DEF BagToSet, SetToBag, (+)
  <2>6. \A w \in Around(occurrence) : w[1] \in Nat /\ w[2] \in Int /\ w[1] + w[2] <= Len(input)
    BY <2>2 DEF Around, size
  <2>7. HeapInInput'
    BY <2>4, <2>5, <2>6 DEF PlanInv, HeapInInput
  <2>8. Cursors'
    BY <2>1, <2>2, <2>3, <2>4 DEF PlanInv, Cursors
  <2>9. QED
    BY <2>1, <2>4, <2>7, <2>8 DEF PlanInv
<1>3. CASE NoneAtCore
  BY <1>3, RoundEnds DEF NoneAtCore
<1>4. QED
  BY <1>1, <1>2, <1>3

LEMMA HeapSteps ==
  ASSUME PlanInv, NEW w \in BagToSet(heap), Skip(w) \/ CutAtCore(w)
  PROVE  PlanInv'
<1>1. /\ planning = "core" /\ Compiled /\ input \in Seq(Symbols)
      /\ w[1] \in Nat /\ w[2] \in Int /\ w[1] + w[2] <= Len(input)
  BY DEF Skip, CutAtCore, Popped, PlanInv, HeapInInput
<1>2. CASE Skip(w)
  <2>1. /\ heap' = heap (-) SetToBag({w})
        /\ UNCHANGED <<given, planning, targets, boundaries, cursor, occurrence, floor>>
    BY <1>2 DEF Skip, plan
  <2>2. CutsSoFar' /\ Compiled' /\ UNCHANGED <<sim, input, chunks>>
    BY <1>1, <2>1, CutsKept, CompiledStays
  <2>3. BagToSet(heap') \subseteq BagToSet(heap)
    BY <2>1 DEF BagToSet, SetToBag, (-)
  <2>4. HeapInInput'
    BY <2>2, <2>3 DEF PlanInv, HeapInInput
  <2>5. QED
    BY <1>1, <2>1, <2>2, <2>4 DEF PlanInv, Cursors
<1>3. CASE CutAtCore(w)
  <2>1. /\ OriginAt(sim, input, w[1], w[2]) # BeforeWindow
        /\ EndRound(Append(boundaries, w[1] + OriginAt(sim, input, w[1], w[2])))
    BY <1>3 DEF CutAtCore
  <2>2. /\ BeginsToken(w[1] + OriginAt(sim, input, w[1], w[2]))
        /\ w[1] + OriginAt(sim, input, w[1], w[2]) \in Nat
    BY <1>1, <2>1, WindowBegins
  <2>3. QED
    BY <1>1, <2>1, <2>2, RoundEnds
<1>4. QED
  BY <1>2, <1>3

LEMMA PlanInvInvariant == Spec => []PlanInv
<1>1. PlanInv /\ PlanNext => PlanInv'
  BY ByteSteps, RoundSteps, ExhaustiveSteps, CoreSteps, HeapSteps DEF PlanNext
<1>2. PlanInv /\ UNCHANGED vars => PlanInv'
  BY DEF vars, given, simulator, plan, search, PlanInv, Compiled, Unasked, CutsSoFar,
         BeginsToken, HeapInInput, Cursors
<1>3. PlanInv /\ [Next]_vars => PlanInv'
  BY <1>1, <1>2, DerivePlan, StartPlan DEF Next
<1>4. QED
  BY <1>3, InitPlan, PTL DEF Spec

----------------------------------------------------------------------------
(* Every cut of a finished plan begins a token of the serial scan of a     *)
(* completely tokenizable input, whether a byte licenses it, a window met  *)
(* by the exhaustive walk, or one tried around the mandatory core.         *)
THEOREM PlanCutsAtTokens == Spec => []CutsBeginTokens
<1>1. PlanInv => CutsBeginTokens
  <2> SUFFICES ASSUME PlanInv, planning = "planned",
                      NEW i \in 2 .. Len(boundaries) - 1
               PROVE  BeginsToken(boundaries[i])
    BY DEF CutsBeginTokens, BeginsToken, size
  <2>1. i \in 2 .. Len(boundaries) /\ i < Len(boundaries)
    BY DEF PlanInv, CutsSoFar
  <2>2. QED
    BY <2>1 DEF PlanInv, CutsSoFar
<1>2. QED
  BY <1>1, PlanInvInvariant, PTL

----------------------------------------------------------------------------
(* The mandatory core: the tables of the search first.                     *)

LEMMA Stretch ==
  ASSUME NEW T, NEW q \in Seq(T), NEW at \in Nat, NEW n \in Nat, at + n <= Len(q)
  PROVE  SubSeq(q, at + 1, at + n) = [i \in 1 .. n |-> q[at + i]]
<1>1. at + 1 \in Nat /\ at + n \in Nat /\ 1 + (at + n) - (at + 1) = n
  OBVIOUS
<1>2. SubSeq(q, at + 1, at + n) = [i \in 1 .. n |-> q[i + (at + 1) - 1]]
  BY <1>1
<1>3. \A i \in 1 .. n : i + (at + 1) - 1 = at + i
  OBVIOUS
<1>4. [i \in 1 .. n |-> q[i + (at + 1) - 1]] = [i \in 1 .. n |-> q[at + i]]
  BY <1>3
<1>5. QED
  BY <1>2, <1>4

LEMMA ButLast ==
  ASSUME NEW T, NEW q \in Seq(T), q # << >>
  PROVE  /\ Len(q) \in Nat \ {0} /\ q[Len(q)] \in T
         /\ SubSeq(q, 1, Len(q) - 1) \in Seq(T)
         /\ Len(SubSeq(q, 1, Len(q) - 1)) = Len(q) - 1
         /\ \A i \in 1 .. Len(q) - 1 : SubSeq(q, 1, Len(q) - 1)[i] = q[i]
<1>1. /\ Len(q) \in Nat \ {0} /\ q[Len(q)] \in T /\ Len(q) - 1 \in Nat
      /\ \A i \in 1 .. Len(q) : q[i] \in T
  OBVIOUS
<1>2. 0 \in Nat /\ 0 + (Len(q) - 1) <= Len(q) /\ 0 + 1 = 1 /\ 0 + (Len(q) - 1) = Len(q) - 1
  BY <1>1
<1>3. SubSeq(q, 1, Len(q) - 1) = [i \in 1 .. Len(q) - 1 |-> q[0 + i]]
  BY <1>1, <1>2, Stretch
<1> DEFINE K == Len(q) - 1
           front == [i \in 1 .. K |-> q[0 + i]]
<1>4. \A i \in 1 .. K : 0 + i = i /\ q[0 + i] \in T
  BY <1>1
<1>5. K \in Nat
  BY <1>1
<1> HIDE DEF K
<1>6. front \in Seq(T) /\ Len(front) = K /\ \A i \in 1 .. K : front[i] = q[i]
  BY <1>4, <1>5
<1> HIDE DEF front
<1>7. QED
  BY <1>1, <1>3, <1>6 DEF K, front

(* m bytes are a border of the first k: they begin and end them.           *)
Border(text, m, k) ==
  m \in 0 .. k - 1 /\ \A i \in 1 .. m : text[i] = text[k - m + i]

(* The loop from border to border, as a recursion.                         *)
Climbs(text, links, n, e) ==
  \A m \in 0 .. n - 1 : e[m] = IF m = 0 \/ text[n] = text[m + 1] THEN m ELSE e[links[m]]

LEMMA FallbackSteps ==
  ASSUME NEW text, NEW n \in Nat \ {0}, NEW links,
         \A m \in 1 .. n - 1 : links[m] \in 0 .. m - 1
  PROVE  \E e : Climbs(text, links, n, e) /\ Fallback(text, links, n) = e[links[n - 1]]
<1> DEFINE N == n - 1
           Body(f, m) == IF m = 0 \/ text[n] = text[m + 1] THEN m ELSE f[links[m]]
           Is(f, k) == f = [ m \in 0 .. k |-> Body(f, m) ]
           S == { k \in 0 .. N : \E f : Is(f, k) }
<1>0. N \in Nat
  OBVIOUS
<1>1. 0 \in S
  <2>1. [ m \in 0 .. 0 |-> 0 ] = [ m \in 0 .. 0 |-> Body([ l \in 0 .. 0 |-> 0 ], m) ]
    OBVIOUS
  <2>2. Is([ m \in 0 .. 0 |-> 0 ], 0)
    BY <2>1
  <2> HIDE DEF Is
  <2>3. QED
    BY <1>0, <2>2
<1>2. ASSUME NEW k \in 0 .. N - 1, k \in S PROVE k + 1 \in S
  <2>0. k + 1 \in 0 .. N /\ k \in Nat
    BY <1>0
  <2>1. PICK f : Is(f, k)
    BY <1>2
  <2> DEFINE g == [ m \in 0 .. k + 1 |-> IF m = k + 1 THEN Body(f, k + 1) ELSE f[m] ]
  <2>2. \A m \in 0 .. k : g[m] = f[m]
    BY <2>0
  <2>3. ASSUME NEW m \in 0 .. k + 1 PROVE g[m] = Body(g, m)
    <3>1. m = 0 \/ (m \in 1 .. n - 1 /\ links[m] \in 0 .. k /\ g[links[m]] = f[links[m]])
      <4>1. m # 0 => m \in 1 .. n - 1 /\ links[m] \in 0 .. m - 1
        BY <2>0
      <4>2. m # 0 => links[m] \in 0 .. k
        BY <2>0, <4>1
      <4>3. QED
        BY <2>2, <4>1, <4>2
    <3>2. Body(g, m) = Body(f, m)
      BY <3>1
    <3>3. CASE m = k + 1
      BY <3>2, <3>3
    <3>4. CASE m \in 0 .. k
      <4>1. f[m] = Body(f, m)
        BY <2>1, <3>4
      <4>2. QED
        BY <2>2, <3>2, <3>4, <4>1
    <3>5. QED
      BY <2>0, <3>3, <3>4
  <2>4. g = [ m \in 0 .. k + 1 |-> g[m] ]
    OBVIOUS
  <2> HIDE DEF g, Body
  <2>5. Is(g, k + 1)
    BY <2>3, <2>4
  <2> HIDE DEF Is
  <2>6. \E h : Is(h, k + 1)
    BY <2>5
  <2>7. QED
    BY <2>0, <2>6
<1> HIDE DEF S
<1>3. N \in S
  <2> HIDE DEF N
  <2>1. 0 .. N \subseteq S
    BY <1>0, <1>1, <1>2, UpTo
  <2>2. QED
    BY <1>0, <2>1
<1>4. \E f : Is(f, N)
  BY <1>3 DEF S
<1> DEFINE e == CHOOSE f : Is(f, N)
<1>5. Is(e, N)
  <2> HIDE DEF Is
  <2> QED
    BY <1>4
<1>6. Fallback(text, links, n) = e[links[n - 1]]
  BY DEF Fallback
<1> HIDE DEF e
<1>7. \A m \in 0 .. n - 1 : e[m] = Body(e, m)
  <2> HIDE DEF Body
  <2>1. e = [ m \in 0 .. n - 1 |-> Body(e, m) ]
    BY <1>5
  <2>2. QED
    BY <2>1
<1>8. Climbs(text, links, n, e)
  BY <1>7 DEF Climbs
<1>9. QED
  BY <1>6, <1>8

(* The loop keeps to borders, and stops at one that the byte extends.      *)
LEMMA FallbackSound ==
  ASSUME NEW text, NEW n \in Nat, n >= 2, NEW links,
         \A m \in 1 .. n - 1 : Border(text, links[m], m)
  PROVE  LET m == Fallback(text, links, n)
         IN /\ Border(text, m, n - 1)
            /\ m = 0 \/ text[n] = text[m + 1]
<1>1. \A m \in 1 .. n - 1 : links[m] \in 0 .. m - 1
  BY DEF Border
<1>0. n \in Nat \ {0}
  OBVIOUS
<1>2. PICK e : Climbs(text, links, n, e) /\ Fallback(text, links, n) = e[links[n - 1]]
  BY <1>0, <1>1, FallbackSteps
<1> DEFINE Good(m) == /\ e[m] \in 0 .. m
                      /\ \A i \in 1 .. e[m] : text[i] = text[m - e[m] + i]
                      /\ e[m] = 0 \/ text[n] = text[e[m] + 1]
           Bad == { m \in 0 .. n - 1 : ~ Good(m) }
<1>3. Bad = {}
  <2>1. SUFFICES ASSUME Bad # {} PROVE FALSE
    OBVIOUS
  <2>2. Bad \in SUBSET Nat
    OBVIOUS
  <2>3. PICK m \in Bad : \A l \in Bad : m <= l
    <3> HIDE DEF Bad
    <3> QED
      BY <2>1, <2>2, LeastNatural
  <2>4. m \in 0 .. n - 1 /\ ~ Good(m)
    BY <2>3
  <2>5. CASE m = 0 \/ text[n] = text[m + 1]
    <3>1. e[m] = m
      BY <1>2, <2>4, <2>5 DEF Climbs
    <3>2. Good(m)
      BY <2>4, <2>5, <3>1
    <3>3. QED
      BY <2>4, <3>2
  <2>6. CASE m # 0 /\ text[n] # text[m + 1]
    <3> DEFINE l == links[m]
    <3>1. /\ e[m] = e[l] /\ l \in 0 .. m - 1 /\ m \in 1 .. n - 1
          /\ \A i \in 1 .. l : text[i] = text[m - l + i]
      BY <1>2, <2>4, <2>6 DEF Border, Climbs
    <3>2. Good(l)
      <4>1. l \in 0 .. n - 1 /\ ~ (m <= l)
        BY <3>1
      <4>2. l \notin Bad
        BY <2>3, <4>1
      <4> HIDE DEF Good
      <4>3. QED
        BY <4>1, <4>2
    <3>3. ASSUME NEW i \in 1 .. e[m] PROVE text[i] = text[m - e[m] + i]
      <4>1. e[l] \in 0 .. l /\ i \in 1 .. e[l]
        BY <3>1, <3>2
      <4>2. text[i] = text[l - e[l] + i]
        BY <3>2, <4>1
      <4>3. l - e[l] + i \in 1 .. l /\ m - l + (l - e[l] + i) = m - e[l] + i
        BY <3>1, <4>1
      <4>4. QED
        BY <3>1, <4>2, <4>3
    <3>4. e[m] \in 0 .. m /\ (e[m] = 0 \/ text[n] = text[e[m] + 1])
      BY <3>1, <3>2
    <3>5. QED
      BY <2>4, <3>3, <3>4
  <2>7. QED
    BY <2>5, <2>6
<1> DEFINE l == links[n - 1]
<1>4. /\ l \in 0 .. n - 2 /\ \A i \in 1 .. l : text[i] = text[n - 1 - l + i]
  <2>1. n - 1 \in 1 .. n - 1
    OBVIOUS
  <2>2. QED
    BY <2>1 DEF Border
<1>5. Good(l)
  <2>1. l \in 0 .. n - 1
    BY <1>4
  <2> HIDE DEF Good, l
  <2>2. QED
    BY <1>3, <2>1
<1> DEFINE r == e[l]
<1>6. r \in 0 .. l /\ (r = 0 \/ text[n] = text[r + 1])
  BY <1>5
<1>7. ASSUME NEW i \in 1 .. r PROVE text[i] = text[n - 1 - r + i]
  <2>1. text[i] = text[l - r + i]
    BY <1>5, <1>7
  <2>2. l - r + i \in 1 .. l /\ n - 1 - l + (l - r + i) = n - 1 - r + i
    BY <1>4, <1>6
  <2>3. QED
    BY <1>4, <2>1, <2>2
<1>8. Fallback(text, links, n) = r
  BY <1>2
<1> HIDE DEF r, l
<1>9. r \in 0 .. (n - 1) - 1
  BY <1>4, <1>6
<1>10. QED
  BY <1>6, <1>7, <1>8, <1>9 DEF Border

LEMMA FallSteps ==
  ASSUME NEW text, Len(text) \in Nat
  PROVE  \A n \in 1 .. Len(text) :
           Fall(text)[n] =
             IF n = 1 THEN 0
             ELSE LET m == Fallback(text, [i \in 1 .. n - 1 |-> Fall(text)[i]], n)
                  IN IF text[n] = text[m + 1] THEN m + 1 ELSE m
<1> DEFINE N == Len(text)
           Extended(m, n) == IF text[n] = text[m + 1] THEN m + 1 ELSE m
           Body(f, n) == IF n = 1 THEN 0
                         ELSE Extended(Fallback(text, [i \in 1 .. n - 1 |-> f[i]], n), n)
           Is(f, k) == f = [ n \in 1 .. k |-> Body(f, n) ]
           S == { k \in 0 .. N : \E f : Is(f, k) }
<1>0. N \in Nat
  OBVIOUS
<1>1. 0 \in S
  <2>1. Is([ n \in 1 .. 0 |-> 0 ], 0)
    OBVIOUS
  <2> HIDE DEF Is
  <2>2. QED
    BY <1>0, <2>1
<1>2. ASSUME NEW k \in 0 .. N - 1, k \in S PROVE k + 1 \in S
  <2>0. k + 1 \in 0 .. N /\ k \in Nat
    BY <1>0
  <2>1. PICK f : Is(f, k)
    BY <1>2
  <2> DEFINE g == [ n \in 1 .. k + 1 |-> IF n = k + 1 THEN Body(f, k + 1) ELSE f[n] ]
  <2>2. \A n \in 1 .. k : g[n] = f[n]
    BY <2>0
  <2>3. ASSUME NEW n \in 1 .. k + 1 PROVE g[n] = Body(g, n)
    <3>1. [i \in 1 .. n - 1 |-> g[i]] = [i \in 1 .. n - 1 |-> f[i]]
      <4>1. \A i \in 1 .. n - 1 : g[i] = f[i]
        BY <2>0, <2>2
      <4> HIDE DEF g
      <4>2. QED
        BY <4>1
    <3>2. Body(g, n) = Body(f, n)
      <4> HIDE DEF Extended, g
      <4> QED
        BY <3>1
    <3>3. CASE n = k + 1
      <4>1. g[k + 1] = Body(f, k + 1)
        <5> HIDE DEF Body
        <5> QED
          BY <2>0
      <4> HIDE DEF Body, g
      <4>2. QED
        BY <3>2, <3>3, <4>1
    <3>4. CASE n \in 1 .. k
      <4>1. f[n] = Body(f, n)
        <5> HIDE DEF Body
        <5> QED
          BY <2>1, <3>4
      <4> HIDE DEF Body, g
      <4>2. QED
        BY <2>2, <3>2, <3>4, <4>1
    <3>5. QED
      BY <2>0, <3>3, <3>4
  <2> HIDE DEF Body
  <2>4. g = [ n \in 1 .. k + 1 |-> g[n] ]
    OBVIOUS
  <2> HIDE DEF g
  <2>5. Is(g, k + 1)
    BY <2>3, <2>4
  <2> HIDE DEF Is
  <2>6. \E h : Is(h, k + 1)
    BY <2>5
  <2>7. QED
    BY <2>0, <2>6
<1> HIDE DEF S
<1>3. N \in S
  <2> HIDE DEF N
  <2>1. 0 .. N \subseteq S
    BY <1>0, <1>1, <1>2, UpTo
  <2>2. QED
    BY <1>0, <2>1
<1>4. \E f : Is(f, N)
  BY <1>3 DEF S
<1>5. Fall(text) = CHOOSE f : Is(f, N)
  BY DEF Fall
<1>6. Is(Fall(text), N)
  <2> HIDE DEF Is
  <2> QED
    BY <1>4, <1>5
<1>7. \A n \in 1 .. N : Fall(text)[n] = Body(Fall(text), n)
  <2> HIDE DEF Body
  <2> QED
    BY <1>6
<1>8. QED
  BY <1>7

LEMMA FallSound ==
  ASSUME NEW text, Len(text) \in Nat
  PROVE  \A n \in 1 .. Len(text) : Border(text, Fall(text)[n], n)
<1> DEFINE fall == Fall(text)
           Bad == { n \in 1 .. Len(text) : ~ Border(text, fall[n], n) }
<1> HIDE DEF fall
<1>1. SUFFICES ASSUME Bad # {} PROVE FALSE
  BY DEF fall
<1>2. Bad \in SUBSET Nat
  OBVIOUS
<1>3. PICK n \in Bad : \A l \in Bad : n <= l
  <2> HIDE DEF Bad
  <2> QED
    BY <1>1, <1>2, LeastNatural
<1>4. n \in 1 .. Len(text) /\ ~ Border(text, fall[n], n)
  BY <1>3
<1>5. CASE n = 1
  <2>1. fall[n] = 0
    BY <1>4, <1>5, FallSteps DEF fall
  <2>2. QED
    BY <1>4, <1>5, <2>1 DEF Border
<1>6. CASE n >= 2
  <2> DEFINE links == [i \in 1 .. n - 1 |-> fall[i]]
             m == Fallback(text, links, n)
  <2>1. \A l \in 1 .. n - 1 : Border(text, links[l], l)
    <3>1. ASSUME NEW l \in 1 .. n - 1 PROVE Border(text, fall[l], l)
      <4>1. l \in 1 .. Len(text) /\ ~ (n <= l)
        BY <1>4
      <4>2. l \notin Bad
        BY <1>3, <4>1
      <4>3. QED
        BY <4>1, <4>2
    <3>2. QED
      BY <3>1
  <2>2. fall[n] = IF text[n] = text[m + 1] THEN m + 1 ELSE m
    BY <1>4, <1>6, FallSteps DEF fall
  <2>3. Border(text, m, n - 1) /\ (m = 0 \/ text[n] = text[m + 1])
    <3>1. n \in Nat /\ n >= 2
      BY <1>4, <1>6
    <3> HIDE DEF links
    <3>2. QED
      BY <2>1, <3>1, FallbackSound, Zenon
  <2> HIDE DEF m
  <2>4. m \in 0 .. n - 2 /\ \A i \in 1 .. m : text[i] = text[n - 1 - m + i]
    BY <2>3 DEF Border
  <2>5. CASE text[n] = text[m + 1]
    <3>1. fall[n] = m + 1
      BY <2>2, <2>5
    <3>2. ASSUME NEW i \in 1 .. m + 1 PROVE text[i] = text[n - (m + 1) + i]
      <4>1. CASE i = m + 1
        <5>1. n - (m + 1) + i = n
          BY <1>4, <2>4, <4>1
        <5>2. QED
          BY <2>5, <4>1, <5>1
      <4>2. CASE i \in 1 .. m
        <5>1. n - (m + 1) + i = n - 1 - m + i
          BY <1>4, <2>4, <4>2
        <5>2. QED
          BY <2>4, <4>2, <5>1
      <4>3. QED
        BY <2>4, <4>1, <4>2
    <3>3. m + 1 \in 0 .. n - 1
      BY <1>4, <2>4
    <3>4. QED
      BY <1>4, <3>1, <3>2, <3>3 DEF Border
  <2>6. CASE text[n] # text[m + 1]
    <3>1. fall[n] = 0
      BY <2>2, <2>3, <2>6
    <3>2. QED
      BY <1>4, <3>1 DEF Border
  <2>7. QED
    BY <2>5, <2>6
<1>7. QED
  BY <1>4, <1>5, <1>6

LEMMA MatcherSteps ==
  ASSUME NEW text, Len(text) \in Nat, Len(text) # 0
  PROVE  \A k \in 0 .. Len(text) - 1 : \A b \in Symbols :
           Matcher(text)[k][b] =
             IF text[k + 1] = b THEN k + 1
             ELSE IF k > 0 THEN Matcher(text)[Fall(text)[k]][b] ELSE 0
<1> DEFINE N == Len(text) - 1
           fall == Fall(text)
           Body(f, n) == [b \in Symbols |-> IF text[n + 1] = b THEN n + 1
                                            ELSE IF n > 0 THEN f[fall[n]][b] ELSE 0]
           Is(f, k) == f = [ n \in 0 .. k |-> Body(f, n) ]
           S == { k \in 0 .. N : \E f : Is(f, k) }
<1>0. N \in Nat
  OBVIOUS
<1>9. \A n \in 1 .. N : fall[n] \in 0 .. n - 1
  <2>1. \A n \in 1 .. N : n \in 1 .. Len(text)
    OBVIOUS
  <2>2. QED
    BY <2>1, FallSound DEF Border
<1> HIDE DEF fall
<1>1. 0 \in S
  <2> DEFINE first == [b \in Symbols |-> IF text[1] = b THEN 1 ELSE 0]
  <2>1. \A f : Body(f, 0) = first
    OBVIOUS
  <2>2. [n \in 0 .. 0 |-> first] = [n \in 0 .. 0 |-> Body([l \in 0 .. 0 |-> first], n)]
    <3> HIDE DEF first, Body
    <3> QED
      BY <2>1
  <2> HIDE DEF first, Body
  <2>3. Is([n \in 0 .. 0 |-> first], 0)
    BY <2>2
  <2> HIDE DEF Is
  <2>4. QED
    BY <1>0, <2>3
<1>2. ASSUME NEW k \in 0 .. N - 1, k \in S PROVE k + 1 \in S
  <2>0. k + 1 \in 0 .. N /\ k \in Nat
    BY <1>0
  <2>1. PICK f : Is(f, k)
    BY <1>2
  <2> DEFINE g == [ n \in 0 .. k + 1 |-> IF n = k + 1 THEN Body(f, k + 1) ELSE f[n] ]
  <2>2. \A n \in 0 .. k : g[n] = f[n]
    <3> HIDE DEF Body
    <3> QED
      BY <2>0
  <2>3. ASSUME NEW n \in 0 .. k + 1 PROVE g[n] = Body(g, n)
    <3>1. n > 0 => g[fall[n]] = f[fall[n]]
      <4>1. n > 0 => n \in 1 .. N
        BY <2>0
      <4>2. n > 0 => fall[n] \in 0 .. k
        BY <1>9, <2>0, <4>1
      <4> HIDE DEF g
      <4>3. QED
        BY <2>2, <4>2
    <3>2. Body(g, n) = Body(f, n)
      <4> HIDE DEF g
      <4> QED
        BY <3>1
    <3>3. CASE n = k + 1
      <4>1. g[k + 1] = Body(f, k + 1)
        <5> HIDE DEF Body
        <5> QED
          BY <2>0
      <4> HIDE DEF Body, g
      <4>2. QED
        BY <3>2, <3>3, <4>1
    <3>4. CASE n \in 0 .. k
      <4>1. f[n] = Body(f, n)
        <5> HIDE DEF Body
        <5> QED
          BY <2>1, <3>4
      <4> HIDE DEF Body, g
      <4>2. QED
        BY <2>2, <3>2, <3>4, <4>1
    <3> HIDE DEF Body, g
    <3>5. QED
      BY <2>0, <3>3, <3>4
  <2> HIDE DEF Body
  <2>4. g = [ n \in 0 .. k + 1 |-> g[n] ]
    OBVIOUS
  <2> HIDE DEF g
  <2>5. Is(g, k + 1)
    BY <2>3, <2>4
  <2> HIDE DEF Is
  <2>6. \E h : Is(h, k + 1)
    BY <2>5
  <2>7. QED
    BY <2>0, <2>6
<1> HIDE DEF S
<1>3. N \in S
  <2> HIDE DEF N
  <2>1. 0 .. N \subseteq S
    BY <1>0, <1>1, <1>2, UpTo
  <2>2. QED
    BY <1>0, <2>1
<1>4. \E f : Is(f, N)
  BY <1>3 DEF S
<1>5. Matcher(text) = CHOOSE f : Is(f, N)
  BY DEF Matcher, fall
<1>6. Is(Matcher(text), N)
  <2> HIDE DEF Is
  <2> QED
    BY <1>4, <1>5
<1>7. \A n \in 0 .. N : Matcher(text)[n] = Body(Matcher(text), n)
  <2> HIDE DEF Body
  <2> QED
    BY <1>6
<1> HIDE DEF N
<1>8. ASSUME NEW k \in 0 .. N, NEW b \in Symbols
      PROVE  Matcher(text)[k][b] = IF text[k + 1] = b THEN k + 1
                                   ELSE IF k > 0 THEN Matcher(text)[fall[k]][b] ELSE 0
  BY <1>7, ZenonT(30)
<1>10. QED
  BY <1>8 DEF N, fall

(* The first m bytes of the text end its first k and the byte b.           *)
Matched(text, k, b, m) ==
  m \in 0 .. k + 1 /\ \A i \in 1 .. m : text[i] = IF i = m THEN b ELSE text[k + 1 - m + i]

(* The bytes the matcher counts are the last ones read.                    *)
LEMMA MatcherSound ==
  ASSUME NEW text, Len(text) \in Nat, Len(text) # 0,
         NEW k \in 0 .. Len(text) - 1, NEW b \in Symbols
  PROVE  Matched(text, k, b, Matcher(text)[k][b])
<1> DEFINE M(n) == Matcher(text)[n][b]
           Good(n) == /\ M(n) \in 0 .. n + 1
                      /\ \A i \in 1 .. M(n) : text[i] = IF i = M(n) THEN b ELSE text[n + 1 - M(n) + i]
           Bad == { n \in 0 .. Len(text) - 1 : ~ Good(n) }
<1>1. Bad = {}
  <2>1. SUFFICES ASSUME Bad # {} PROVE FALSE
    OBVIOUS
  <2>2. Bad \in SUBSET Nat
    OBVIOUS
  <2>3. PICK n \in Bad : \A l \in Bad : n <= l
    <3> HIDE DEF Bad
    <3> QED
      BY <2>1, <2>2, LeastNatural
  <2>4. n \in 0 .. Len(text) - 1 /\ ~ Good(n)
    BY <2>3
  <2>5. M(n) = IF text[n + 1] = b THEN n + 1
               ELSE IF n > 0 THEN M(Fall(text)[n]) ELSE 0
    BY <2>4, MatcherSteps
  <2>6. CASE text[n + 1] = b
    <3>1. M(n) = n + 1
      BY <2>5, <2>6
    <3>2. ASSUME NEW i \in 1 .. n + 1 PROVE text[i] = IF i = n + 1 THEN b ELSE text[n + 1 - (n + 1) + i]
      <4>1. n + 1 - (n + 1) + i = i
        BY <2>4
      <4>2. QED
        BY <2>6, <4>1
    <3> HIDE DEF M
    <3>3. QED
      BY <2>4, <3>1, <3>2
  <2>7. CASE text[n + 1] # b /\ n > 0
    <3> DEFINE l == Fall(text)[n]
    <3>1. l \in 0 .. n - 1 /\ \A i \in 1 .. l : text[i] = text[n - l + i]
      <4>1. n \in 1 .. Len(text)
        BY <2>4, <2>7
      <4>2. QED
        BY <4>1, FallSound DEF Border
    <3>2. M(n) = M(l)
      BY <2>5, <2>7
    <3>3. Good(l)
      <4>1. l \in 0 .. Len(text) - 1 /\ ~ (n <= l)
        BY <2>4, <3>1
      <4> HIDE DEF Good, l
      <4>2. QED
        BY <2>3, <4>1
    <3> HIDE DEF M, l
    <3>4. ASSUME NEW i \in 1 .. M(n) PROVE text[i] = IF i = M(n) THEN b ELSE text[n + 1 - M(n) + i]
      <4>1. CASE i = M(n)
        BY <3>2, <3>3, <4>1
      <4>2. CASE i # M(n)
        <5>1. text[i] = text[l + 1 - M(l) + i]
          BY <3>2, <3>3, <4>2
        <5>2. l + 1 - M(l) + i \in 1 .. l /\ n - l + (l + 1 - M(l) + i) = n + 1 - M(n) + i
          <6>1. n \in Nat /\ l \in 0 .. n - 1
            BY <2>4, <3>1
          <6>2. M(l) \in 0 .. l + 1
            BY <3>3
          <6>3. i \in 1 .. M(l) /\ i # M(l)
            BY <3>2, <4>2
          <6> HIDE DEF Good, Bad
          <6>4. QED
            BY <3>2, <6>1, <6>2, <6>3
        <5>3. QED
          BY <3>1, <4>2, <5>1, <5>2
      <4>3. QED
        BY <4>1, <4>2
    <3>5. M(n) \in 0 .. n + 1
      BY <2>4, <3>1, <3>2, <3>3
    <3>6. QED
      BY <2>4, <3>4, <3>5
  <2>8. CASE text[n + 1] # b /\ ~ (n > 0)
    <3>1. M(n) = 0
      BY <2>5, <2>8
    <3> HIDE DEF M
    <3>2. QED
      BY <2>4, <3>1
  <2>9. QED
    BY <2>6, <2>7, <2>8
<1> HIDE DEF Good
<1>2. Good(k)
  BY <1>1
<1>3. QED
  BY <1>2 DEF Good, Matched

----------------------------------------------------------------------------
(* What the search proves when it ends: states and bytes matched in them,  *)
(* M, that no byte leads out of but by completing the text.                *)
Onwards(D, text, M, p, b) ==
  /\ LiveStep(D, p[1], b) # {}
  /\ \A t \in LiveStep(D, p[1], b) :
       \/ Matcher(text)[p[2]][b] = Len(text)
       \/ <<t, Matcher(text)[p[2]][b]>> \in M

CoreNodes(D, text) == { s \in D.live : ~ Begins(D, s) } \X (0 .. Len(text) - 1)

Closed(D, text, M) ==
  /\ M \subseteq CoreNodes(D, text)
  /\ \E s : <<s, 0>> \in M
  /\ \A p \in M : \A b \in Symbols : Onwards(D, text, M, p, b)

(* A hypothesis in a state of the closed set outlives every window in      *)
(* which the text does not occur with a byte after it: the window is       *)
(* refused.                                                                *)
LEMMA ClosedOutlives ==
  ASSUME NEW D, IsSimulator(D), NEW text, Len(text) \in Nat, Len(text) # 0,
         text = [i \in 1 .. Len(text) |-> text[i]],
         NEW M, Closed(D, text, M),
         NEW window \in Seq(Symbols), SplitOrigin(D, window) # BeforeWindow
  PROVE  Carries(window, text)
<1> DEFINE N == Len(window)
           L == Len(text)
           cloud == CloudAt(D, window)
           Read(n, s, k) == /\ <<s, k>> \in M
                            /\ k <= n
                            /\ \A i \in 1 .. k : text[i] = window[n - k + i]
           Alive(n) == \E s : /\ <<s, BeforeWindow>> \in cloud[n]
                              /\ n < N => \E k : Read(n, s, k)
           S == { n \in 0 .. N : Alive(n) }
<1>1. SUFFICES ASSUME ~ Carries(window, text) PROVE FALSE
  OBVIOUS
<1>2. N \in Nat /\ L \in Nat /\ L # 0 /\ \A n \in 1 .. N : window[n] \in Symbols
  OBVIOUS
<1>3. /\ cloud[0] = InitialCloud(D)
      /\ \A n \in 1 .. N : cloud[n] = Advance(D, cloud[n - 1], window[n], n - 1)
  BY CloudAtSteps
<1>4. 0 \in S
  <2>1. PICK s : <<s, 0>> \in M
    BY DEF Closed
  <2>2. s \in D.live
    BY <2>1 DEF Closed, CoreNodes
  <2>3. <<s, BeforeWindow>> \in cloud[0]
    BY <1>3, <2>2 DEF InitialCloud
  <2>4. Read(0, s, 0)
    BY <2>1
  <2> HIDE DEF Read, cloud
  <2>5. Alive(0)
    BY <2>3, <2>4
  <2> HIDE DEF Alive, N
  <2>6. QED
    BY <1>2, <2>5
<1>5. ASSUME NEW n \in 0 .. N - 1, n \in S PROVE n + 1 \in S
  <2>1. PICK s : <<s, BeforeWindow>> \in cloud[n] /\ \E k : Read(n, s, k)
    <3> HIDE DEF Read, cloud, N
    <3> QED
      BY <1>2, <1>5
  <2>2. PICK k : Read(n, s, k)
    BY <2>1
  <2> DEFINE b == window[n + 1]
             m == Matcher(text)[k][b]
  <2>3. b \in Symbols /\ n + 1 \in 1 .. N /\ n + 1 \in 0 .. N
    BY <1>2
  <2>4. s \in D.live /\ ~ Begins(D, s) /\ k \in 0 .. L - 1
    BY <2>2 DEF Closed, CoreNodes
  <2>5. /\ LiveStep(D, s, b) # {}
        /\ \A t \in LiveStep(D, s, b) : m = L \/ <<t, m>> \in M
    <3>1. Onwards(D, text, M, <<s, k>>, b)
      BY <2>2, <2>3 DEF Closed
    <3>2. QED
      BY <3>1 DEF Onwards
  <2>6. PICK t : t \in LiveStep(D, s, b)
    BY <2>5
  <2>7. <<t, BeforeWindow>> \in cloud[n + 1]
    <3>1. <<t, BeforeWindow>> \in Stepped(D, <<s, BeforeWindow>>, b, n)
      BY <2>4, <2>6 DEF Stepped
    <3>2. cloud[n + 1] = Advance(D, cloud[n], b, n)
      BY <1>2, <1>3, <2>3
    <3> HIDE DEF cloud, b
    <3>3. QED
      BY <2>1, <3>1, <3>2 DEF Advance
  <2>8. /\ m \in 0 .. k + 1
        /\ \A i \in 1 .. m : text[i] = IF i = m THEN b ELSE text[k + 1 - m + i]
    <3>1. Matched(text, k, b, m)
      <4> HIDE DEF b
      <4> QED
        BY <1>2, <2>3, <2>4, MatcherSound
    <3> HIDE DEF b, m
    <3>2. QED
      BY <3>1 DEF Matched
  <2> HIDE DEF b, m
  <2>9. ASSUME NEW i \in 1 .. m PROVE text[i] = window[n + 1 - m + i]
    <3>1. CASE i = m
      <4>1. n + 1 - m + i = n + 1
        BY <2>8, <3>1
      <4>2. QED
        BY <2>8, <3>1, <4>1 DEF b
    <3>2. CASE i # m
      <4>1. text[i] = text[k + 1 - m + i]
        BY <2>8, <3>2
      <4>2. k + 1 - m + i \in 1 .. k /\ n - k + (k + 1 - m + i) = n + 1 - m + i
        <5>1. m \in 0 .. k + 1 /\ k \in Nat /\ n \in Nat
          BY <2>4, <2>8
        <5>2. i \in Nat /\ 1 <= i /\ i <= m /\ i # m
          BY <3>2, <5>1
        <5> HIDE DEF L, N
        <5>3. i < m /\ k + 1 - m \in Nat
          BY <5>1, <5>2
        <5>4. k + 1 - m + i \in 1 .. k
          BY <5>1, <5>2, <5>3
        <5>5. n - k + (k + 1 - m + i) = n + 1 - m + i
          BY <5>1, <5>2
        <5>6. QED
          BY <5>4, <5>5
      <4>3. text[k + 1 - m + i] = window[n - k + (k + 1 - m + i)]
        BY <2>2, <4>2
      <4>4. QED
        BY <4>1, <4>2, <4>3
    <3>3. QED
      BY <3>1, <3>2
  <2>10. ASSUME n + 1 < N PROVE \E j : Read(n + 1, t, j)
    <3>1. m # L
      <4>1. SUFFICES ASSUME m = L PROVE FALSE
        OBVIOUS
      <4> DEFINE at == n + 1 - L
      <4>2. at \in 0 .. N - L - 1
        <5>1. m \in 0 .. k + 1 /\ k \in 0 .. L - 1 /\ k <= n
          BY <2>2, <2>4, <2>8
        <5>2. N \in Nat /\ L \in Nat \ {0} /\ n \in Nat /\ n + 1 < N
          BY <1>2, <2>10
        <5>3. L <= n + 1
          BY <4>1, <5>1, <5>2
        <5> HIDE DEF L, N
        <5>4. QED
          BY <5>2, <5>3
      <4>3. at + L = n + 1 /\ at \in Nat
        BY <1>2, <4>2
      <4>4. SubSeq(window, at + 1, at + L) = [i \in 1 .. L |-> window[at + i]]
        <5>1. at \in Nat /\ at + L <= Len(window) /\ L \in Nat
          BY <1>2, <2>3, <4>3
        <5> HIDE DEF at, L
        <5>2. QED
          BY <5>1, Stretch, SMTT(20)
      <4>5. \A i \in 1 .. L : text[i] = window[at + i]
        BY <2>9, <4>1
      <4>6. [i \in 1 .. L |-> window[at + i]] = [i \in 1 .. L |-> text[i]]
        BY <4>5
      <4>7. SubSeq(window, at + 1, at + L) = text
        BY <4>4, <4>6
      <4>8. QED
        BY <1>1, <4>2, <4>7 DEF Carries
    <3>2. <<t, m>> \in M
      BY <2>5, <2>6, <3>1
    <3>3. m <= n + 1
      BY <2>2, <2>4, <2>8
    <3>4. Read(n + 1, t, m)
      BY <2>8, <2>9, <3>2, <3>3
    <3> HIDE DEF Read
    <3>5. QED
      BY <3>4
  <2> HIDE DEF Read, cloud
  <2>11. Alive(n + 1)
    BY <2>7, <2>10
  <2>12. QED
    BY <2>3, <2>11
<1>6. N \in S
  <2> HIDE DEF N, S
  <2>1. 0 .. N \subseteq S
    BY <1>2, <1>4, <1>5, UpTo
  <2>2. QED
    BY <1>2, <2>1
<1>7. PICK s : <<s, BeforeWindow>> \in cloud[N]
  <2> HIDE DEF Read, cloud, N
  <2> QED
    BY <1>6
<1>8. Verdict(cloud[N]) # BeforeWindow
  BY SplitOriginIsVerdict
<1> HIDE DEF cloud, N
<1>9. QED
  BY <1>7, <1>8, VerdictIsShared

----------------------------------------------------------------------------
(* The buffer: a cell for every state and number of bytes of every core.   *)
LEMMA Products ==
  /\ \A x, y, z \in Nat : x <= y => x * z <= y * z /\ z * x <= z * y
  /\ \A x, z \in Nat : (x + 1) * z = x * z + z
  /\ \A x, z \in Nat : x * z \in Nat
  BY SMT

LEMMA CellInBuffer ==
  ASSUME NEW count \in Nat, NEW longest \in Nat, NEW length \in 1 .. longest,
         NEW s \in 0 .. count - 1, NEW k \in 0 .. length - 1
  PROVE  Cell(s, k, length) \in 0 .. count * longest - 1
<1>1. /\ (s + 1) * length = s * length + length
      /\ (s + 1) * length <= count * length
      /\ count * length <= count * longest
      /\ s * length \in Nat /\ count * length \in Nat /\ count * longest \in Nat
  BY Products
<1> DEFINE a == s * length
           c == count * longest
<1>2. a \in Nat /\ c \in Nat /\ a + length <= c
  BY <1>1
<1> HIDE DEF a, c
<1>3. a + k \in 0 .. c - 1
  BY <1>2
<1>4. QED
  BY <1>3 DEF a, c, Cell

LEMMA CellsDiffer ==
  ASSUME NEW length \in Nat \ {0}
  PROVE  \A s, t \in Nat : \A k, m \in 0 .. length - 1 :
           Cell(s, k, length) = Cell(t, m, length) => s = t /\ k = m
<1>1. ASSUME NEW x \in Nat, NEW y \in Nat, NEW i \in 0 .. length - 1, NEW j \in 0 .. length - 1,
             x < y
      PROVE  x * length + i < y * length + j
  <2>1. /\ (x + 1) * length = x * length + length /\ (x + 1) * length <= y * length
        /\ x * length \in Nat /\ y * length \in Nat
    BY <1>1, Products
  <2> DEFINE a == x * length
             c == y * length
  <2>2. a \in Nat /\ c \in Nat /\ a + length <= c
    BY <2>1
  <2> HIDE DEF a, c
  <2>3. a + i < c + j
    BY <2>2
  <2>4. QED
    BY <2>3 DEF a, c
<1> SUFFICES ASSUME NEW s \in Nat, NEW t \in Nat,
                    NEW k \in 0 .. length - 1, NEW m \in 0 .. length - 1,
                    Cell(s, k, length) = Cell(t, m, length)
             PROVE  s = t /\ k = m
  OBVIOUS
<1>2. s * length \in Nat /\ t * length \in Nat
  BY Products
<1>3. s = t
  <2>1. s < t => FALSE
    BY <1>1, <1>2 DEF Cell
  <2>2. t < s => FALSE
    BY <1>1, <1>2 DEF Cell
  <2>3. QED
    BY <2>1, <2>2
<1>4. QED
  BY <1>2, <1>3 DEF Cell

(* A death word is no longer than there are states.                        *)
LEMMA DepthBounded ==
  ASSUME NEW D, D.count \in Nat, NEW s
  PROVE  Depth(D, s) \in 0 .. D.count
<1> DEFINE predecessors(r) == { q \in D.live : \E b \in Symbols : r \in LiveStep(D, q, b) }
           dying[n \in 1 .. D.count] ==
             IF n = 1 THEN { r \in D.live : \E b \in Symbols : LiveStep(D, r, b) = {} }
             ELSE UNION { predecessors(r) : r \in dying[n - 1] }
           lengths == { n \in 1 .. D.count : s \in dying[n] }
<1>1. Depth(D, s) = IF lengths = {} THEN 0
                    ELSE CHOOSE n \in lengths : \A m \in lengths : n <= m
  BY DEF Depth, NoDeathWord
<1>2. lengths \subseteq 1 .. D.count
  OBVIOUS
<1> HIDE DEF lengths
<1>3. lengths # {} => \E n \in lengths : \A m \in lengths : n <= m
  <2>1. lengths \in SUBSET Nat
    BY <1>2
  <2>2. QED
    BY <2>1, LeastNatural
<1>4. CASE lengths = {}
  BY <1>1, <1>4
<1>5. CASE lengths # {}
  <2>1. Depth(D, s) \in lengths
    BY <1>1, <1>3, <1>5
  <2>2. \A n \in 1 .. D.count : n \in 0 .. D.count
    OBVIOUS
  <2>3. QED
    BY <1>2, <2>1, <2>2, Zenon
<1>6. QED
  BY <1>4, <1>5

LEMMA CoreLength ==
  ASSUME NEW D, D.count \in Nat, NEW s, HasChain(D, s)
  PROVE  /\ Len(Core(D, s)) = Depth(D, s) - 1
         /\ Depth(D, s) - 1 \in Nat \ {0}
         /\ Core(D, s) = [i \in 1 .. Len(Core(D, s)) |-> Core(D, s)[i]]
<1>1. Depth(D, s) - 1 \in Nat \ {0}
  BY DepthBounded DEF HasChain
<1> DEFINE visited[n \in 0 .. Depth(D, s) - 2] ==
             IF n = 0 THEN s ELSE Onward(D)[visited[n - 1]]
           L == Depth(D, s) - 1
           text == [n \in 1 .. L |-> EnteredBy(D)[visited[n - 1]]]
<1>2. Core(D, s) = text
  BY DEF Core
<1> HIDE DEF visited
<1>3. L \in Nat
  BY <1>1
<1> HIDE DEF L
<1>4. Len(text) = L /\ text = [i \in 1 .. L |-> text[i]]
  BY <1>3
<1> HIDE DEF text
<1>5. QED
  BY <1>1, <1>2, <1>4 DEF L

(* The candidate tried first proposes the longest core.                    *)
LEMMA LongestIsLongest ==
  ASSUME IsDfa(sim), sim.live \subseteq States(sim)
  PROVE  /\ Longest \in Nat
         /\ \A s \in Candidates(sim) : Depth(sim, s) - 1 \in 1 .. Longest
<1> DEFINE C == Candidates(sim)
           depth(s) == Depth(sim, s)
<1>0. sim.count \in Nat
  BY DEF IsDfa
<1>1. C \subseteq 0 .. sim.count - 1 /\ C \subseteq Nat
  BY <1>0 DEF Candidates, States
<1>2. \A s : depth(s) \in 0 .. sim.count
  BY <1>0, DepthBounded
<1>3. \A s \in C : depth(s) > 1
  BY DEF Candidates, HasChain
<1> HIDE DEF C, depth
<1>4. CASE C = {}
  BY <1>4 DEF Longest, C
<1>5. CASE C # {}
  <2> DEFINE depths == { depth(s) : s \in C }
  <2>1. PICK d \in depths : \A e \in depths : e <= d
    <3>1. depths \in SUBSET (0 .. sim.count) /\ depths # {}
      BY <1>2, <1>5
    <3> HIDE DEF depths
    <3>2. QED
      BY <1>0, <3>1, GreatestUpTo
  <2> DEFINE deepest == { s \in C : depth(s) = d }
  <2>2. PICK s \in deepest : \A r \in deepest : s <= r
    <3>1. deepest \in SUBSET Nat /\ deepest # {}
      BY <1>1, <2>1
    <3> HIDE DEF deepest
    <3>2. QED
      BY <3>1, LeastNatural
  <2>3. ASSUME NEW r \in C \ {s} PROVE Before(sim, s, r)
    <3>1. depth(r) \in depths /\ depth(r) <= d /\ depth(s) = d
      BY <2>1, <2>2
    <3>2. CASE depth(r) = d
      <4>1. s <= r /\ s # r
        BY <2>2, <3>2
      <4>2. s < r
        BY <1>1, <2>2, <4>1
      <4>3. QED
        BY <3>1, <3>2, <4>2 DEF Before, depth
    <3>3. CASE depth(r) # d
      <4>1. depth(s) > depth(r)
        BY <1>2, <3>1, <3>3
      <4>2. QED
        BY <4>1 DEF Before, depth
    <3>4. QED
      BY <3>2, <3>3
  <2>4. Leads(s, C)
    BY <2>2, <2>3 DEF Leads
  <2> DEFINE first == CHOOSE c \in C : Leads(c, C)
  <2>5. first \in C /\ Leads(first, C)
    BY <2>2, <2>4
  <2>6. Longest = depth(first) - 1
    BY <1>5 DEF Longest, C, depth
  <2> HIDE DEF first
  <2>7. ASSUME NEW r \in C PROVE depth(r) <= depth(first)
    <3>1. CASE r = first
      BY <1>2, <3>1
    <3>2. CASE r # first
      <4>1. Before(sim, first, r)
        BY <2>5, <3>2 DEF Leads
      <4>2. depth(first) > depth(r) \/ depth(first) = depth(r)
        BY <4>1 DEF Before, depth
      <4>3. QED
        BY <1>2, <4>2
    <3>3. QED
      BY <3>1, <3>2
  <2>8. depth(first) \in Nat /\ depth(first) > 1
    BY <1>0, <1>2, <1>3, <2>5
  <2>9. \A r \in C : depth(r) - 1 \in 1 .. Longest
    BY <1>0, <1>2, <1>3, <2>6, <2>7, <2>8
  <2>10. Longest \in Nat
    BY <2>6, <2>8
  <2>11. QED
    BY <2>9, <2>10 DEF C, depth
<1>6. QED
  BY <1>4, <1>5

----------------------------------------------------------------------------
(* The nodes of a text's search that bear a stamp; those that the search   *)
(* which runs has marked.                                                  *)
Bearing(text, buffer, stamp) ==
  { p \in CoreNodes(sim, text) : buffer[Cell(p[1], p[2], Len(text))] = stamp }

Marked == Bearing(proposal, seen, tried)

(* Nothing else is marked than before, but under the stamp.                *)
Stamped(marked, stamp) ==
  /\ marked \in [0 .. sim.count * Longest - 1 -> Nat]
  /\ \A c \in DOMAIN marked : marked[c] = stamp \/ (c \in DOMAIN seen /\ marked[c] = seen[c])

(* No mark of an earlier search is read as one of this one's.              *)
Buffer ==
  /\ seen \in [0 .. sim.count * Longest - 1 -> Nat]
  /\ tried \in Nat \ {0}
  /\ \A c \in DOMAIN seen : /\ seen[c] <= tried
                            /\ derivation = "propose" => seen[c] < tried

InPending(p) == \E i \in 1 .. Len(pending) : pending[i] = p

Searched(p) == \A b \in Symbols : Onwards(sim, proposal, Marked, p, b)

(* Of the node that is explored the bytes up to this one.                  *)
SearchedSoFar(p) ==
  /\ derivation = "explore"
  /\ p = node
  /\ \A i \in 1 .. byte - 1 : Onwards(sim, proposal, Marked, p, Bytes[i])

SearchRuns ==
  /\ Len(proposal) \in 1 .. Longest
  /\ proposal = [i \in 1 .. Len(proposal) |-> proposal[i]]
  /\ \E s : <<s, 0>> \in Marked
  /\ pending \in Seq(Marked)
  /\ derivation = "explore" => node \in Marked /\ byte \in 1 .. Len(Bytes) + 1
  /\ \A p \in Marked : InPending(p) \/ SearchedSoFar(p) \/ Searched(p)

CoreProved ==
  /\ Len(core) \in Nat \ {0}
  /\ core = [i \in 1 .. Len(core) |-> core[i]]
  /\ \E M : Closed(sim, core, M)

DerivationInv ==
  /\ IsSimulator(sim)
  /\ candidates \subseteq Candidates(sim)
  /\ derivation \in {"propose", "pop", "explore", "done"}
  /\ Buffer
  /\ derivation # "done" => core = << >>
  /\ derivation \in {"pop", "explore"} => SearchRuns
  /\ derivation = "done" => core = << >> \/ CoreProved

LEMMA SimulatorStates ==
  ASSUME IsSimulator(sim)
  PROVE  /\ IsDfa(sim) /\ sim.count \in Nat
         /\ sim.live \subseteq 0 .. sim.count - 1 /\ sim.live \subseteq Nat
         /\ Longest \in Nat
         /\ \A s \in Candidates(sim) :
              /\ s \in sim.live /\ ~ Begins(sim, s)
              /\ Len(Core(sim, s)) \in 1 .. Longest
              /\ Core(sim, s) = [i \in 1 .. Len(Core(sim, s)) |-> Core(sim, s)[i]]
<1>1. IsDfa(sim) /\ sim.count \in Nat
  BY DEF IsSimulator, IsDfa
<1>2. sim.live \subseteq States(sim)
  BY LiveStates
<1>3. /\ Longest \in Nat
      /\ \A s \in Candidates(sim) : Depth(sim, s) - 1 \in 1 .. Longest
  BY <1>1, <1>2, LongestIsLongest
<1>4. sim.live \subseteq 0 .. sim.count - 1 /\ sim.live \subseteq Nat
  BY <1>1, <1>2 DEF States
<1>5. ASSUME NEW s \in Candidates(sim)
      PROVE  /\ s \in sim.live /\ ~ Begins(sim, s)
             /\ Len(Core(sim, s)) \in 1 .. Longest
             /\ Core(sim, s) = [i \in 1 .. Len(Core(sim, s)) |-> Core(sim, s)[i]]
  <2>1. s \in sim.live /\ HasChain(sim, s) /\ (s = sim.init => sim.init_reentrant)
    BY DEF Candidates
  <2>2. ~ Begins(sim, s)
    BY <2>1 DEF Begins
  <2>3. /\ Len(Core(sim, s)) = Depth(sim, s) - 1
        /\ Core(sim, s) = [i \in 1 .. Len(Core(sim, s)) |-> Core(sim, s)[i]]
    BY <1>1, <2>1, CoreLength
  <2>4. QED
    BY <1>3, <2>1, <2>2, <2>3
<1>6. QED
  BY <1>1, <1>3, <1>4, <1>5

(* The buffer with the node (s, k) stamped.                                *)
MarkAt(text, s, k, stamp) == [seen EXCEPT ![Cell(s, k, Len(text))] = stamp]

(* A mark is one more marked node, and no other.                           *)
LEMMA MarkOne ==
  ASSUME IsSimulator(sim), seen \in [0 .. sim.count * Longest - 1 -> Nat],
         NEW text, Len(text) \in 1 .. Longest,
         NEW stamp \in Nat, NEW s, NEW k, <<s, k>> \in CoreNodes(sim, text)
  PROVE  /\ Stamped(MarkAt(text, s, k, stamp), stamp)
         /\ Bearing(text, MarkAt(text, s, k, stamp), stamp) = Bearing(text, seen, stamp) \cup {<<s, k>>}
<1> DEFINE L == Len(text)
           marked == MarkAt(text, s, k, stamp)
           Dom == 0 .. sim.count * Longest - 1
<1>1. /\ sim.count \in Nat /\ Longest \in Nat /\ L \in Nat \ {0} /\ L \in 1 .. Longest
      /\ \A t \in sim.live : t \in 0 .. sim.count - 1 /\ t \in Nat
  BY SimulatorStates
<1>2. ASSUME NEW p \in CoreNodes(sim, text)
      PROVE  /\ p = <<p[1], p[2]>> /\ p[1] \in Nat /\ p[2] \in 0 .. L - 1
             /\ Cell(p[1], p[2], L) \in Dom
  <2>1. p = <<p[1], p[2]>> /\ p[1] \in sim.live /\ p[2] \in 0 .. L - 1
    BY DEF CoreNodes
  <2>2. p[1] \in 0 .. sim.count - 1 /\ p[1] \in Nat
    BY <1>1, <2>1
  <2> HIDE DEF L
  <2>3. Cell(p[1], p[2], L) \in 0 .. sim.count * Longest - 1
    BY <1>1, <2>1, <2>2, CellInBuffer
  <2>4. QED
    BY <2>1, <2>2, <2>3
<1> HIDE DEF Dom
<1>3. seen \in [Dom -> Nat] /\ marked = [seen EXCEPT ![Cell(s, k, L)] = stamp]
  BY DEF Dom, MarkAt
<1> HIDE DEF marked
<1>4. /\ s \in Nat /\ k \in 0 .. L - 1 /\ Cell(s, k, L) \in Dom
  BY <1>2
<1>5. /\ marked \in [Dom -> Nat]
      /\ \A c \in Dom : marked[c] = IF c = Cell(s, k, L) THEN stamp ELSE seen[c]
  BY <1>3, <1>4
<1>6. ASSUME NEW p \in CoreNodes(sim, text)
      PROVE  marked[Cell(p[1], p[2], L)] = stamp
               <=> seen[Cell(p[1], p[2], L)] = stamp \/ p = <<s, k>>
  <2>1. CASE Cell(p[1], p[2], L) = Cell(s, k, L)
    <3>1. p[1] = s /\ p[2] = k
      <4>1. p[1] \in Nat /\ p[2] \in 0 .. L - 1
        BY <1>2
      <4>2. \A x, y \in Nat : \A i, j \in 0 .. L - 1 : Cell(x, i, L) = Cell(y, j, L) => x = y /\ i = j
        BY <1>1, CellsDiffer
      <4> HIDE DEF L
      <4>3. QED
        BY <1>4, <2>1, <4>1, <4>2
    <3>2. p = <<s, k>>
      BY <1>2, <3>1
    <3>3. marked[Cell(p[1], p[2], L)] = stamp
      BY <1>2, <1>5, <2>1
    <3>4. QED
      BY <3>2, <3>3
  <2>2. CASE Cell(p[1], p[2], L) # Cell(s, k, L)
    <3>1. p # <<s, k>>
      BY <2>2
    <3>2. marked[Cell(p[1], p[2], L)] = seen[Cell(p[1], p[2], L)]
      BY <1>2, <1>5, <2>2
    <3>3. QED
      BY <3>1, <3>2
  <2>3. QED
    BY <2>1, <2>2
<1>7. Bearing(text, marked, stamp) = Bearing(text, seen, stamp) \cup {<<s, k>>}
  BY <1>6 DEF Bearing
<1>8. QED
  BY <1>3, <1>5, <1>7 DEF Dom, Stamped, marked

LEMMA InitDerivation == Init => DerivationInv
<1> SUFFICES ASSUME Init PROVE DerivationInv
  OBVIOUS
<1>1. PICK D \in Dfas : sim = Simulator(D, {})
  BY DEF Init, DeriveInit
<1>2. IsSimulator(sim)
  BY <1>1, WindowPlanAssumption, SimulatorIsOne
<1>3. /\ candidates = Candidates(sim) /\ tried = 1 /\ derivation = "propose" /\ core = << >>
      /\ seen = [c \in 0 .. sim.count * Longest - 1 |-> 0]
  BY DEF Init, DeriveInit
<1>4. Buffer
  BY <1>3 DEF Buffer
<1>5. QED
  BY <1>2, <1>3, <1>4 DEF DerivationInv

LEMMA ProposeDerivation == DerivationInv /\ Propose => DerivationInv'
<1> SUFFICES ASSUME DerivationInv, Propose PROVE DerivationInv'
  OBVIOUS
<1>1. PICK s \in candidates : /\ candidates' = candidates \ {s}
                              /\ proposal' = Core(sim, s)
                              /\ seen' = [seen EXCEPT ![Cell(s, 0, Len(proposal'))] = Stamp]
                              /\ pending' = <<<<s, 0>>>>
  BY DEF Propose
<1>2. /\ derivation = "propose" /\ derivation' = "pop"
      /\ sim' = sim /\ tried' = tried /\ core' = core /\ core = << >>
  BY DEF Propose, DerivationInv
<1>3. IsSimulator(sim) /\ Buffer /\ s \in Candidates(sim)
  BY DEF DerivationInv
<1>4. /\ sim.count \in Nat /\ Longest \in Nat
      /\ s \in sim.live /\ ~ Begins(sim, s)
      /\ Len(proposal') \in 1 .. Longest
      /\ proposal' = [i \in 1 .. Len(proposal') |-> proposal'[i]]
  BY <1>1, <1>3, SimulatorStates
<1>5. Longest' = Longest
  BY <1>2 DEF Longest, Leads
<1>6. <<s, 0>> \in CoreNodes(sim, proposal')
  BY <1>4 DEF CoreNodes
<1>7. /\ seen \in [0 .. sim.count * Longest - 1 -> Nat] /\ tried \in Nat \ {0} /\ tried \in Nat
      /\ \A c \in DOMAIN seen : seen[c] < tried
  BY <1>2, <1>3 DEF Buffer
<1>8. seen' = [seen EXCEPT ![Cell(s, 0, Len(proposal'))] = tried]
  BY <1>1 DEF Stamp
<1>9. /\ seen' \in [0 .. sim.count * Longest - 1 -> Nat]
      /\ \A c \in DOMAIN seen' : seen'[c] = tried \/ (c \in DOMAIN seen /\ seen'[c] = seen[c])
      /\ Bearing(proposal', seen', tried) = Bearing(proposal', seen, tried) \cup {<<s, 0>>}
  <2>1. /\ Stamped(seen', tried)
        /\ Bearing(proposal', seen', tried) = Bearing(proposal', seen, tried) \cup {<<s, 0>>}
    <3>1. seen' = MarkAt(proposal', s, 0, tried)
      BY <1>8 DEF MarkAt
    <3>2. /\ Stamped(MarkAt(proposal', s, 0, tried), tried)
          /\ Bearing(proposal', MarkAt(proposal', s, 0, tried), tried)
               = Bearing(proposal', seen, tried) \cup {<<s, 0>>}
      BY <1>3, <1>4, <1>6, <1>7, MarkOne
    <3>3. QED
      BY <3>1, <3>2
  <2>2. QED
    BY <2>1 DEF Stamped
<1>10. Buffer'
  <2>1. \A c \in DOMAIN seen' : seen'[c] <= tried
    <3>1. \A c \in DOMAIN seen : seen[c] \in Nat
      BY <1>7
    <3>2. QED
      BY <1>7, <1>9, <3>1
  <2>2. QED
    BY <1>2, <1>5, <1>7, <1>9, <2>1 DEF Buffer
<1>11. Marked' = {<<s, 0>>}
  <2>1. \A p \in CoreNodes(sim, proposal') : seen[Cell(p[1], p[2], Len(proposal'))] # tried
    <3>1. ASSUME NEW p \in CoreNodes(sim, proposal')
          PROVE  Cell(p[1], p[2], Len(proposal')) \in 0 .. sim.count * Longest - 1
      <4>1. p[1] \in 0 .. sim.count - 1 /\ p[2] \in 0 .. Len(proposal') - 1
        BY <1>3, SimulatorStates DEF CoreNodes
      <4>2. QED
        BY <1>4, <4>1, CellInBuffer
    <3>2. QED
      BY <1>7, <3>1
  <2>2. Marked' = Bearing(proposal', seen', tried)
    BY <1>2 DEF Marked, Bearing
  <2>3. Bearing(proposal', seen, tried) = {}
    BY <2>1 DEF Bearing
  <2>4. QED
    BY <1>9, <2>2, <2>3
<1>12. SearchRuns'
  <2>1. /\ Len(pending') = 1 /\ pending'[1] = <<s, 0>> /\ pending' \in Seq(Marked')
    BY <1>1, <1>11
  <2>2. \A p \in Marked' : InPending(p)'
    BY <1>11, <2>1 DEF InPending
  <2>3. \E t : <<t, 0>> \in Marked'
    BY <1>11
  <2>4. QED
    BY <1>2, <1>4, <1>5, <2>1, <2>2, <2>3 DEF SearchRuns
<1>13. candidates' \subseteq Candidates(sim)
  BY <1>1 DEF DerivationInv
<1>14. QED
  BY <1>2, <1>3, <1>10, <1>12, <1>13 DEF DerivationInv

(* The steps that leave the buffer: what is marked stays, and what leads   *)
(* on.                                                                     *)
LEMMA SameMarks ==
  ASSUME DerivationInv, UNCHANGED <<sim, proposal, seen, tried>>
  PROVE  /\ Marked' = Marked /\ Longest' = Longest
         /\ derivation' # "propose" => Buffer'
         /\ \A p, b : Onwards(sim, proposal, Marked, p, b)' <=> Onwards(sim, proposal, Marked, p, b)
<1>1. Marked' = Marked
  BY DEF Marked, Bearing
<1>2. Longest' = Longest
  BY DEF Longest, Leads
<1>3. derivation' # "propose" => Buffer'
  BY <1>2 DEF Buffer, DerivationInv
<1>4. QED
  BY <1>1, <1>2, <1>3

LEMMA PopDerivation == DerivationInv /\ Pop => DerivationInv'
<1> SUFFICES ASSUME DerivationInv, Pop PROVE DerivationInv'
  OBVIOUS
<1>1. /\ derivation = "pop" /\ derivation' = "explore" /\ pending # << >>
      /\ node' = pending[Len(pending)]
      /\ pending' = SubSeq(pending, 1, Len(pending) - 1)
      /\ byte' = 1
      /\ UNCHANGED <<sim, candidates, tried, proposal, seen, core>>
  BY DEF Pop
<1>2. SearchRuns /\ core = << >>
  BY <1>1 DEF DerivationInv
<1>3. /\ Marked' = Marked /\ Longest' = Longest /\ Buffer'
      /\ \A p, b : Onwards(sim, proposal, Marked, p, b)' <=> Onwards(sim, proposal, Marked, p, b)
  BY <1>1, SameMarks
<1>4. /\ pending \in Seq(Marked) /\ Len(pending) \in Nat \ {0}
      /\ node' \in Marked
      /\ pending' \in Seq(Marked) /\ Len(pending') = Len(pending) - 1
      /\ \A i \in 1 .. Len(pending) - 1 : pending'[i] = pending[i]
  <2>1. pending \in Seq(Marked)
    BY <1>2 DEF SearchRuns
  <2> HIDE DEF Marked
  <2>2. QED
    BY <1>1, <2>1, ButLast
<1>5. byte' \in 1 .. Len(Bytes) + 1
  BY <1>1, BytesAssumption
<1>6. ASSUME NEW p \in Marked
      PROVE  InPending(p)' \/ SearchedSoFar(p)' \/ Searched(p)'
  <2>1. CASE InPending(p)
    <3>1. PICK i \in 1 .. Len(pending) : pending[i] = p
      BY <2>1 DEF InPending
    <3>2. CASE i = Len(pending)
      <4>1. p = node' /\ 1 .. byte' - 1 = {}
        BY <1>1, <3>1, <3>2
      <4>2. QED
        BY <1>1, <4>1 DEF SearchedSoFar
    <3>3. CASE i # Len(pending)
      <4>1. i \in 1 .. Len(pending') /\ pending'[i] = p
        BY <1>4, <3>1, <3>3
      <4>2. QED
        BY <4>1 DEF InPending
    <3>4. QED
      BY <3>2, <3>3
  <2>2. CASE Searched(p)
    BY <1>3, <2>2 DEF Searched
  <2>3. QED
    BY <1>1, <1>2, <2>1, <2>2 DEF SearchRuns, SearchedSoFar
<1>7. SearchRuns'
  BY <1>1, <1>2, <1>3, <1>4, <1>5, <1>6 DEF SearchRuns
<1>8. QED
  BY <1>1, <1>2, <1>3, <1>7 DEF DerivationInv

LEMMA ProvedDerivation == DerivationInv /\ Proved => DerivationInv'
<1> SUFFICES ASSUME DerivationInv, Proved PROVE DerivationInv'
  OBVIOUS
<1>1. /\ derivation = "pop" /\ derivation' = "done" /\ pending = << >>
      /\ core' = proposal
      /\ UNCHANGED <<sim, candidates, tried, proposal, seen, pending>>
  BY DEF Proved, buffers
<1>2. SearchRuns
  BY <1>1 DEF DerivationInv
<1>3. Buffer'
  BY <1>1, SameMarks
<1>4. \A p \in Marked : Searched(p)
  BY <1>1, <1>2 DEF SearchRuns, InPending, SearchedSoFar
<1>5. Closed(sim, proposal, Marked)
  <2>1. Marked \subseteq CoreNodes(sim, proposal)
    BY DEF Marked, Bearing
  <2>2. QED
    BY <1>2, <1>4, <2>1 DEF Closed, SearchRuns, Searched
<1>6. Len(proposal) \in Nat \ {0}
  <2>1. Longest \in Nat
    BY SimulatorStates DEF DerivationInv
  <2>2. QED
    BY <1>2, <2>1 DEF SearchRuns
<1>7. CoreProved'
  <2>1. \E M : Closed(sim', core', M)
    BY <1>1, <1>5
  <2>2. core' = [i \in 1 .. Len(core') |-> core'[i]]
    BY <1>1, <1>2 DEF SearchRuns
  <2>3. QED
    BY <1>1, <1>6, <2>1, <2>2 DEF CoreProved
<1>8. QED
  BY <1>1, <1>3, <1>7 DEF DerivationInv

LEMMA RefutedDerivation == DerivationInv /\ Refuted => DerivationInv'
<1> SUFFICES ASSUME DerivationInv, Refuted PROVE DerivationInv'
  OBVIOUS
<1>1. /\ derivation = "explore" /\ derivation' = "propose" /\ tried' = tried + 1
      /\ UNCHANGED <<sim, candidates, proposal, seen, core>>
  BY DEF Refuted, buffers
<1>2. Longest' = Longest
  BY <1>1 DEF Longest, Leads
<1>3. Buffer'
  <2>1. /\ seen \in [0 .. sim.count * Longest - 1 -> Nat] /\ tried \in Nat \ {0}
        /\ \A c \in DOMAIN seen : seen[c] <= tried /\ seen[c] \in Nat
    BY DEF DerivationInv, Buffer
  <2>2. tried + 1 \in Nat \ {0} /\ \A c \in DOMAIN seen : seen[c] <= tried + 1 /\ seen[c] < tried + 1
    BY <2>1
  <2>3. QED
    BY <1>1, <1>2, <2>1, <2>2 DEF Buffer
<1>4. QED
  BY <1>1, <1>3 DEF DerivationInv

LEMMA ExploredDerivation == DerivationInv /\ Explored => DerivationInv'
<1> SUFFICES ASSUME DerivationInv, Explored PROVE DerivationInv'
  OBVIOUS
<1>1. /\ derivation = "explore" /\ derivation' = "pop" /\ byte > Len(Bytes)
      /\ UNCHANGED <<sim, candidates, tried, proposal, seen, pending, node, byte, core>>
  BY DEF Explored, buffers, exploring
<1>2. SearchRuns /\ core = << >>
  BY <1>1 DEF DerivationInv
<1>3. /\ Marked' = Marked /\ Longest' = Longest /\ Buffer'
      /\ \A p, b : Onwards(sim, proposal, Marked, p, b)' <=> Onwards(sim, proposal, Marked, p, b)
  BY <1>1, SameMarks
<1>4. ASSUME NEW p \in Marked PROVE InPending(p)' \/ Searched(p)'
  <2>1. CASE InPending(p)
    BY <1>1, <2>1 DEF InPending
  <2>2. CASE SearchedSoFar(p)
    <3>1. ASSUME NEW b \in Symbols PROVE Onwards(sim, proposal, Marked, p, b)
      <4>1. PICK i \in 1 .. Len(Bytes) : Bytes[i] = b
        BY BytesAssumption
      <4>2. Len(Bytes) \in Nat /\ byte \in 1 .. Len(Bytes) + 1
        BY <1>1, <1>2, BytesAssumption DEF SearchRuns
      <4>3. i \in 1 .. byte - 1
        BY <1>1, <4>2
      <4>4. QED
        BY <2>2, <4>1, <4>3 DEF SearchedSoFar
    <3>2. QED
      BY <1>3, <3>1 DEF Searched
  <2>3. CASE Searched(p)
    BY <1>3, <2>3 DEF Searched
  <2>4. QED
    BY <1>2, <2>1, <2>2, <2>3 DEF SearchRuns
<1>5. SearchRuns'
  BY <1>1, <1>2, <1>3, <1>4 DEF SearchRuns
<1>6. QED
  BY <1>1, <1>2, <1>3, <1>5 DEF DerivationInv

LEMMA StepDerivation == DerivationInv /\ Step => DerivationInv'
<1> SUFFICES ASSUME DerivationInv, Step PROVE DerivationInv'
  OBVIOUS
<1> DEFINE L == Len(proposal)
           b == Bytes[byte]
           s == node[1]
           k == node[2]
           m == Matcher(proposal)[k][b]
<1>1. /\ derivation = "explore" /\ derivation' = "explore" /\ byte <= Len(Bytes) /\ byte' = byte + 1
      /\ UNCHANGED <<sim, candidates, tried, proposal, node, core>>
  BY DEF Step
<1>2. SearchRuns /\ core = << >> /\ IsSimulator(sim) /\ Buffer
  BY <1>1 DEF DerivationInv
<1>3. /\ L \in 1 .. Longest /\ Longest \in Nat /\ L \in Nat \ {0}
      /\ node \in Marked /\ byte \in 1 .. Len(Bytes) /\ Len(Bytes) \in Nat /\ b \in Symbols
      /\ pending \in Seq(Marked)
  <2>1. Longest \in Nat
    BY <1>2, SimulatorStates
  <2>2. Len(Bytes) \in Nat /\ byte \in 1 .. Len(Bytes) + 1 /\ byte \in 1 .. Len(Bytes)
    BY <1>1, <1>2, BytesAssumption DEF SearchRuns
  <2>3. b \in Symbols
    BY <2>2, BytesAssumption
  <2>4. QED
    BY <1>1, <1>2, <2>1, <2>2, <2>3 DEF SearchRuns
<1>4. node = <<s, k>> /\ s \in sim.live /\ k \in 0 .. L - 1
  BY <1>3 DEF Marked, Bearing, CoreNodes
<1>5. PICK t \in LiveStep(sim, s, b) :
        IF m = L \/ seen[Cell(t, m, L)] = tried
        THEN seen' = seen /\ pending' = pending
        ELSE /\ seen' = [seen EXCEPT ![Cell(t, m, L)] = tried]
             /\ pending' = Append(pending, <<t, m>>)
  BY DEF Step, buffers, Stamp
<1>6. LiveStep(sim, s, b) = {t} /\ t \in sim.live /\ ~ Begins(sim, t)
  <2>1. LiveStep(sim, s, b) \subseteq {sim.next[s][b]} /\ LiveStep(sim, s, b) \subseteq sim.live
    BY DEF LiveStep
  <2>2. t = sim.next[s][b]
    BY <2>1
  <2>3. ~ Begins(sim, sim.next[s][b])
    BY <1>2, <1>3, <1>4, LeavesInit
  <2> HIDE DEF b, s
  <2>4. QED
    BY <2>1, <2>2, <2>3
<1>7. m \in 0 .. L
  <2>1. m \in 0 .. k + 1
    <3>1. Matched(proposal, k, b, m)
      <4> HIDE DEF b, k
      <4> QED
        BY <1>3, <1>4, MatcherSound
    <3>2. QED
      BY <3>1 DEF Matched
  <2>2. QED
    BY <1>3, <1>4, <2>1
<1>8. m # L => <<t, m>> \in CoreNodes(sim, proposal)
  BY <1>3, <1>6, <1>7 DEF CoreNodes
<1> HIDE DEF m, b, s, k
<1>9. /\ seen \in [0 .. sim.count * Longest - 1 -> Nat] /\ tried \in Nat \ {0} /\ tried \in Nat
      /\ \A c \in DOMAIN seen : seen[c] <= tried
  BY <1>2 DEF Buffer
<1>10. Longest' = Longest
  BY <1>1 DEF Longest, Leads
<1>11. /\ Buffer'
       /\ Marked' = Marked \/ (Marked' = Marked \cup {<<t, m>>} /\ pending' = Append(pending, <<t, m>>))
       /\ Marked' = Marked => pending' = pending \/ pending' = Append(pending, <<t, m>>)
       /\ m = L \/ <<t, m>> \in Marked'
       /\ pending' = pending \/ (pending' = Append(pending, <<t, m>>) /\ <<t, m>> \in Marked')
  <2>1. CASE m = L \/ seen[Cell(t, m, L)] = tried
    <3>1. seen' = seen /\ pending' = pending
      BY <1>5, <2>1
    <3>2. Marked' = Marked
      BY <1>1, <3>1 DEF Marked, Bearing
    <3>3. m = L \/ <<t, m>> \in Marked
      BY <1>8, <2>1 DEF Marked, Bearing
    <3>4. Buffer'
      BY <1>1, <1>2, <1>10, <3>1 DEF Buffer
    <3>5. QED
      BY <3>1, <3>2, <3>3, <3>4
  <2>2. CASE ~ (m = L \/ seen[Cell(t, m, L)] = tried)
    <3>1. seen' = [seen EXCEPT ![Cell(t, m, L)] = tried] /\ pending' = Append(pending, <<t, m>>)
      BY <1>5, <2>2
    <3>2. /\ seen' \in [0 .. sim.count * Longest - 1 -> Nat]
          /\ \A c \in DOMAIN seen' : seen'[c] = tried \/ (c \in DOMAIN seen /\ seen'[c] = seen[c])
          /\ Bearing(proposal, seen', tried) = Bearing(proposal, seen, tried) \cup {<<t, m>>}
      <4>1. /\ Stamped(seen', tried)
            /\ Bearing(proposal, seen', tried) = Bearing(proposal, seen, tried) \cup {<<t, m>>}
        <5>1. seen' = MarkAt(proposal, t, m, tried)
          BY <3>1 DEF MarkAt, L
        <5>2. /\ Stamped(MarkAt(proposal, t, m, tried), tried)
              /\ Bearing(proposal, MarkAt(proposal, t, m, tried), tried)
                   = Bearing(proposal, seen, tried) \cup {<<t, m>>}
          BY <1>2, <1>3, <1>8, <1>9, <2>2, MarkOne DEF L
        <5>3. QED
          BY <5>1, <5>2
      <4>2. QED
        BY <4>1 DEF Stamped
    <3>3. Marked' = Marked \cup {<<t, m>>}
      <4>1. Marked' = Bearing(proposal, seen', tried)
        BY <1>1 DEF Marked, Bearing
      <4>2. QED
        BY <3>2, <4>1 DEF Marked
    <3>4. \A c \in DOMAIN seen' : seen'[c] <= tried
      BY <1>9, <3>2
    <3>5. Buffer'
      BY <1>1, <1>9, <1>10, <3>2, <3>4 DEF Buffer
    <3>6. QED
      BY <3>1, <3>3, <3>5
  <2>3. QED
    BY <2>1, <2>2
<1>12. Marked \subseteq Marked'
  BY <1>11
<1>13. ASSUME NEW p, NEW c, Onwards(sim, proposal, Marked, p, c)
       PROVE  Onwards(sim, proposal, Marked, p, c)'
  BY <1>1, <1>12, <1>13 DEF Onwards
<1>14. Onwards(sim', proposal', Marked', node', b)
  <2>1. LiveStep(sim, node[1], b) = {t} /\ (m = L \/ <<t, m>> \in Marked')
    BY <1>6, <1>11 DEF s
  <2>2. Onwards(sim, proposal, Marked', node, b)
    BY <2>1 DEF Onwards, m, k, s
  <2>3. QED
    BY <1>1, <2>2
<1>15. pending' \in Seq(Marked')
  <2>1. pending \in Seq(Marked')
    <3>1. \A A, B : A \subseteq B => Seq(A) \subseteq Seq(B)
      OBVIOUS
    <3>2. QED
      BY <1>3, <1>12, <3>1
  <2> HIDE DEF Marked
  <2>2. QED
    BY <1>11, <2>1
<1>16. ASSUME NEW p, InPending(p) PROVE InPending(p)'
  <2>1. PICK i \in 1 .. Len(pending) : pending[i] = p
    BY <1>16 DEF InPending
  <2>2. i \in 1 .. Len(pending') /\ pending'[i] = p
    <3>1. pending \in Seq(Marked)
      BY <1>3
    <3> HIDE DEF Marked
    <3>2. QED
      BY <1>11, <2>1, <3>1
  <2>3. QED
    BY <2>2 DEF InPending
<1>17. ASSUME NEW p \in Marked' PROVE InPending(p)' \/ SearchedSoFar(p)' \/ Searched(p)'
  <2>1. CASE p \in Marked
    <3>1. CASE InPending(p)
      BY <1>16, <3>1
    <3>2. CASE SearchedSoFar(p)
      <4>1. ASSUME NEW i \in 1 .. byte' - 1 PROVE Onwards(sim, proposal, Marked, p, Bytes[i])'
        <5>1. CASE i = byte
          <6>1. p = node /\ Bytes[i] = b
            BY <3>2, <5>1 DEF SearchedSoFar, b
          <6>2. QED
            BY <1>1, <1>14, <6>1
        <5>2. CASE i # byte
          <6>1. i \in 1 .. byte - 1
            BY <1>1, <1>3, <5>2
          <6>2. QED
            BY <1>13, <3>2, <6>1 DEF SearchedSoFar
        <5>3. QED
          BY <5>1, <5>2
      <4>2. p = node'
        BY <1>1, <3>2 DEF SearchedSoFar
      <4>3. QED
        BY <1>1, <4>1, <4>2 DEF SearchedSoFar
    <3>3. CASE Searched(p)
      BY <1>13, <3>3 DEF Searched
    <3>4. QED
      BY <1>2, <2>1, <3>1, <3>2, <3>3 DEF SearchRuns
  <2>2. CASE p \notin Marked
    <3>1. p = <<t, m>> /\ pending' = Append(pending, <<t, m>>)
      BY <1>11, <1>17, <2>2
    <3>2. Len(pending') = Len(pending) + 1 /\ pending'[Len(pending) + 1] = p /\ Len(pending) \in Nat
      <4>1. pending \in Seq(Marked)
        BY <1>3
      <4> HIDE DEF Marked
      <4>2. QED
        BY <3>1, <4>1
    <3>3. InPending(p)'
      BY <3>2 DEF InPending
    <3>4. QED
      BY <3>3
  <2>3. QED
    BY <2>1, <2>2
<1>18. SearchRuns'
  <2>1. /\ Len(proposal') \in 1 .. Longest'
        /\ proposal' = [i \in 1 .. Len(proposal') |-> proposal'[i]]
        /\ \E u : <<u, 0>> \in Marked'
        /\ node' \in Marked' /\ byte' \in 1 .. Len(Bytes) + 1
    <3>1. L \in 1 .. Longest /\ proposal = [i \in 1 .. L |-> proposal[i]] /\ \E u : <<u, 0>> \in Marked
      BY <1>2 DEF SearchRuns
    <3>2. byte + 1 \in 1 .. Len(Bytes) + 1
      BY <1>3
    <3>3. \E u : <<u, 0>> \in Marked'
      BY <1>12, <3>1
    <3>4. Len(proposal') \in 1 .. Longest' /\ proposal' = [i \in 1 .. Len(proposal') |-> proposal'[i]]
      BY <1>1, <1>10, <3>1
    <3>5. node' \in Marked' /\ byte' \in 1 .. Len(Bytes) + 1
      BY <1>1, <1>3, <1>12, <3>2
    <3>6. QED
      BY <3>3, <3>4, <3>5
  <2>2. QED
    BY <1>15, <1>17, <2>1 DEF SearchRuns
<1>19. QED
  BY <1>1, <1>2, <1>11, <1>18 DEF DerivationInv

LEMMA NoneProvedDerivation == DerivationInv /\ NoneProved => DerivationInv'
<1> SUFFICES ASSUME DerivationInv, NoneProved PROVE DerivationInv'
  OBVIOUS
<1>1. /\ derivation = "propose" /\ derivation' = "done"
      /\ UNCHANGED <<sim, candidates, tried, proposal, seen, core>>
  BY DEF NoneProved, buffers
<1>2. Buffer'
  BY <1>1, SameMarks
<1>3. QED
  BY <1>1, <1>2 DEF DerivationInv

(* What comes after the derivation leaves it.                              *)
LEMMA PlanningLeaves ==
  ASSUME PlanStarts \/ PlanNext \/ UNCHANGED vars
  PROVE  UNCHANGED <<sim, core, candidates, tried, proposal, seen, pending, node, byte, derivation>>
<1> USE DEF given, simulator, deriving
<1>1. CASE PlanStarts
  BY <1>1 DEF PlanStarts
<1>2. CASE UNCHANGED vars
  BY <1>2 DEF vars
<1>3. CASE PlanNext
  BY <1>3 DEF PlanNext, PlanWithBytes, DivideForWindows, NextFloor, Close, RefuseAtOnce,
              StartExhaustive, CutExhaustive, WalkExhaustive, NoneExhaustive, StartAtCore,
              Ingest, NoneAtCore, Skip, CutAtCore, EndRound
<1>4. QED
  BY <1>1, <1>2, <1>3

LEMMA NextDerivation == DerivationInv /\ [Next]_vars => DerivationInv'
<1> SUFFICES ASSUME DerivationInv, [Next]_vars PROVE DerivationInv'
  OBVIOUS
<1>1. CASE Derive
  BY <1>1, ProposeDerivation, NoneProvedDerivation, PopDerivation, ProvedDerivation,
     RefutedDerivation, StepDerivation, ExploredDerivation DEF Derive, DeriveNext
<1>2. CASE PlanStarts \/ PlanNext \/ UNCHANGED vars
  <2>1. UNCHANGED <<sim, core, candidates, tried, proposal, seen, pending, node, byte, derivation>>
    BY <1>2, PlanningLeaves
  <2>2. /\ Marked' = Marked /\ Longest' = Longest
        /\ \A p, b : Onwards(sim, proposal, Marked, p, b)' <=> Onwards(sim, proposal, Marked, p, b)
    BY <2>1, SameMarks
  <2>3. Buffer'
    BY <2>1, <2>2 DEF Buffer, DerivationInv
  <2>4. SearchRuns => SearchRuns'
    BY <2>1, <2>2 DEF SearchRuns, InPending, SearchedSoFar, Searched
  <2>5. CoreProved => CoreProved'
    BY <2>1 DEF CoreProved
  <2>6. QED
    BY <2>1, <2>3, <2>4, <2>5 DEF DerivationInv
<1>3. QED
  BY <1>1, <1>2 DEF Next

(* Whatever the automaton, every window that is_split_window() certifies   *)
(* contains the core that the constructor derived, with a byte after it:   *)
(* trying only the windows around its occurrences misses none.             *)
THEOREM CoreMandatory == Spec => []CoreIsMandatory
<1>1. DerivationInv => CoreIsMandatory
  <2> SUFFICES ASSUME DerivationInv, derivation = "done",
                      NEW n \in 1 .. MaxWindow, NEW w \in [1 .. n -> Symbols],
                      SplitOrigin(sim, w) # BeforeWindow
               PROVE  Carries(w, core)
    BY DEF CoreIsMandatory
  <2>1. n \in Nat \ {0} /\ w \in Seq(Symbols) /\ Len(w) = n
    <3>1. n \in Nat \ {0}
      BY WindowPlanAssumption
    <3>2. QED
      BY <3>1
  <2>2. CASE core = << >>
    <3>1. Len(core) = 0 /\ SubSeq(w, 0 + 1, 0 + Len(core)) = core /\ 0 \in 0 .. Len(w) - Len(core) - 1
      BY <2>1, <2>2
    <3>2. QED
      BY <3>1 DEF Carries
  <2>3. CASE CoreProved
    <3>1. PICK M : Closed(sim, core, M)
      BY <2>3 DEF CoreProved
    <3>2. Len(core) \in Nat /\ Len(core) # 0 /\ core = [i \in 1 .. Len(core) |-> core[i]]
      BY <2>3 DEF CoreProved
    <3>3. IsSimulator(sim)
      BY DEF DerivationInv
    <3>4. QED
      BY <2>1, <3>1, <3>2, <3>3, ClosedOutlives
  <2>4. QED
    BY <2>2, <2>3 DEF DerivationInv
<1>2. QED
  BY <1>1, InitDerivation, NextDerivation, PTL DEF Spec

----------------------------------------------------------------------------
(* The plan made at the core's occurrences is that of the exhaustive walk. *)

Planner == INSTANCE ChunkPlanProofs WITH split_points <- sim.split_points

WithWindows == planning # "unasked" /\ sim.split_points = {}

InRound == planning \in {"cut", "exhaustive", "core"}

Refused(w) == OriginAt(sim, input, w[1], w[2]) = BeforeWindow

(* The windows that license a cut at or after an offset.                   *)
LicensedFrom(from) ==
  { w \in (from .. size) \X (ShortestTried .. LongestTried) : w[1] + w[2] <= size /\ ~ Refused(w) }

FloorOf(i, previous) == Plan!MaxOf((size * i) \div usable, previous + 1)

CutAfter(w) == w[1] + OriginAt(sim, input, w[1], w[2])

FirstOf(licensed, w) == w \in licensed /\ \A v \in licensed \ {w} : Precedes(w, v)

(* So many cuts of so many rounds are those of the walk: once a round is   *)
(* without a licensed window, so are all that follow.                      *)
CutsAreWalked(cuts, rounds) ==
  /\ cuts \in 0 .. rounds
  /\ \A i \in 1 .. cuts :
       \E w : FirstOf(LicensedFrom(FloorOf(i, boundaries[i])), w) /\ boundaries[i + 1] = CutAfter(w)
  /\ cuts < rounds => LicensedFrom(FloorOf(cuts + 1, boundaries[cuts + 1])) = {}

(* The target drawn last is the k-th.                                       *)
Drawn(k) == Planner!DrawnFor(targets, size, usable, k)

RoundInv ==
  /\ size \in 0 .. SizeMax
  /\ index \in Nat \ {0}
  /\ planning \in {"start", "floor", "cut", "exhaustive", "core", "planned"}
  /\ InRound => index < usable /\ floor = FloorOf(index, back)
  /\ planning = "planned" => index >= usable /\ CutsAreWalked(Len(boundaries) - 2, index - 1)
  /\ planning # "planned" =>
       /\ CutsAreWalked(Len(boundaries) - 1, index - 1)
       /\ usable > 0 => back < size /\ Drawn(IF InRound THEN index ELSE index - 1)

(* The windows around an occurrence have been proposed: those that are not *)
(* in the heap were tried.                                                 *)
Tried(at) == \A w \in Around(at) : w \in BagToSet(heap) \/ Refused(w)

Awaited(at) == occurrence # Nothing /\ occurrence <= at

SearchInv ==
  /\ barren \in Nat
  /\ core # << >> => OccurrencesFrom(barren) = {}
  /\ planning = "exhaustive" =>
       /\ floor <= cursor
       /\ \A at \in floor .. cursor - 1 : LengthsAt(sim, input, at) = {}
  /\ planning = "core" =>
       /\ core # << >>
       /\ \A w \in DOMAIN heap : /\ w \in (floor .. size) \X (Len(core) + 1 .. LongestTried)
                                 /\ w[1] + w[2] <= size
                                 /\ heap[w] \in Nat \ {0}
       /\ last # Nothing => Refused(last)
       /\ occurrence # Nothing => cursor = occurrence + 1 /\ latest = cursor /\ floor <= occurrence
       /\ \A at \in OccurrencesFrom(floor) : Awaited(at) \/ Tried(at)

WalkInv ==
  /\ planning = "unasked" => barren = SizeMax /\ index = 1
  /\ planning # "unasked" => derivation = "done"
  /\ WithWindows => RoundInv /\ SearchInv

LEMMA PlannerAssumptions == Planner!SizeAssumption /\ Planner!PlanAssumption
  BY WindowPlanAssumption DEF Planner!SizeAssumption, Planner!PlanAssumption, Planner!SizeT

LEMMA LicensedIsFrom ==
  \A i, previous : Licensed(i, previous) = LicensedFrom(FloorOf(i, previous))
  BY DEF Licensed, LicensedFrom, FloorOf, Refused

LEMMA InputStays ==
  ASSUME UNCHANGED <<sim, core, input, chunks>>
  PROVE  /\ size' = size /\ usable' = usable
         /\ \A w : (Refused(w)' <=> Refused(w)) /\ CutAfter(w)' = CutAfter(w)
         /\ \A from : LicensedFrom(from)' = LicensedFrom(from)
         /\ \A from : OccurrencesFrom(from)' = OccurrencesFrom(from)
         /\ \A i, previous : FloorOf(i, previous)' = FloorOf(i, previous)
         /\ \A at : LengthsAt(sim, input, at)' = LengthsAt(sim, input, at)
  BY DEF size, usable, Plan!usable, Plan!size, Refused, CutAfter, LicensedFrom, OccurrencesFrom,
         FloorOf, Plan!MaxOf, LengthsAt

LEMMA PlanSizes ==
  ASSUME PlanInv
  PROVE  /\ size \in Nat /\ chunks \in Nat /\ usable \in 0 .. size
         /\ Len(boundaries) \in Nat \ {0} /\ back \in Nat
         /\ \A i \in 1 .. Len(boundaries) : boundaries[i] \in Nat
<1>1. /\ input \in Seq(Symbols) /\ chunks \in Nat
      /\ boundaries \in Seq(Nat) /\ boundaries # << >>
  BY DEF PlanInv, Cursors, CutsSoFar
<1>2. size \in Nat
  BY <1>1 DEF size
<1>3. usable \in 0 .. size
  BY <1>1, <1>2 DEF size, usable, Plan!usable, Plan!size
<1>4. /\ Len(boundaries) \in Nat \ {0} /\ boundaries[Len(boundaries)] \in Nat
      /\ \A i \in 1 .. Len(boundaries) : boundaries[i] \in Nat
  BY <1>1
<1>5. QED
  BY <1>1, <1>2, <1>3, <1>4 DEF back

(* Later rounds start no earlier.                                          *)
LEMMA FloorsRise ==
  ASSUME PlanInv, usable > 0, NEW i \in Nat, NEW j \in Nat, i <= j, NEW previous \in Nat
  PROVE  /\ FloorOf(i, previous) \in Nat /\ FloorOf(j, previous) \in Nat
         /\ FloorOf(i, previous) <= FloorOf(j, previous)
<1>1. size \in Nat /\ usable \in Nat \ {0}
  BY PlanSizes
<1>2. /\ (size * i) \div usable \in Nat /\ (size * j) \div usable \in Nat
      /\ (size * i) \div usable <= (size * j) \div usable
  BY <1>1, PlannerAssumptions, Planner!QuotientsRise
<1> DEFINE p == (size * i) \div usable
           q == (size * j) \div usable
<1>3. p \in Nat /\ q \in Nat /\ p <= q
  BY <1>2
<1> HIDE DEF p, q
<1>4. /\ Plan!MaxOf(p, previous + 1) \in Nat /\ Plan!MaxOf(q, previous + 1) \in Nat
      /\ Plan!MaxOf(p, previous + 1) <= Plan!MaxOf(q, previous + 1)
  BY <1>3 DEF Plan!MaxOf
<1>5. QED
  BY <1>4 DEF FloorOf, p, q

LEMMA FewerFromLater ==
  ASSUME NEW from \in Nat, NEW later \in Nat, from <= later, size \in Nat
  PROVE  LicensedFrom(later) \subseteq LicensedFrom(from)
<1>1. later .. size \subseteq from .. size
  OBVIOUS
<1>2. QED
  BY <1>1 DEF LicensedFrom

(* A licensed window begins in the input and its origin lies within.       *)
LEMMA LicensedLies ==
  ASSUME PlanInv, planning # "unasked", NEW from \in Nat, NEW w \in LicensedFrom(from)
  PROVE  /\ w[1] \in Nat /\ w[2] \in Nat /\ w = <<w[1], w[2]>> /\ from <= w[1]
         /\ w[1] + w[2] <= size
         /\ ShortestTried <= w[2] /\ w[2] <= LongestTried
         /\ ~ Refused(w)
         /\ w[1] < size /\ CutAfter(w) \in Nat /\ CutAfter(w) < size
<1>1. size \in Nat /\ input \in Seq(Symbols) /\ IsSimulator(sim)
  BY PlanSizes DEF PlanInv, Compiled
<1>2. /\ w[1] \in from .. size /\ w[2] \in ShortestTried .. LongestTried
      /\ w = <<w[1], w[2]>> /\ w[1] + w[2] <= size /\ ~ Refused(w)
  BY DEF LicensedFrom
<1>3. /\ w[1] \in Nat /\ w[2] \in Nat /\ from <= w[1]
      /\ ShortestTried <= w[2] /\ w[2] <= LongestTried
  BY <1>1, <1>2, CertificateWalkAssumption
<1>4. OriginAt(sim, input, w[1], w[2]) \in 0 .. w[2] - 1
  BY <1>1, <1>2, <1>3, CertifiedOriginIsInside DEF OriginAt, Refused, size
<1>5. w[1] < size /\ CutAfter(w) \in Nat /\ CutAfter(w) < size
  BY <1>1, <1>2, <1>3, <1>4 DEF CutAfter
<1>6. QED
  BY <1>2, <1>3, <1>5

LEMMA CertifiedCarries ==
  ASSUME DerivationInv, derivation = "done", core # << >>,
         NEW window \in Seq(Symbols), SplitOrigin(sim, window) # BeforeWindow
  PROVE  /\ Len(core) \in Nat \ {0}
         /\ core = [i \in 1 .. Len(core) |-> core[i]]
         /\ Carries(window, core)
<1>1. CoreProved /\ IsSimulator(sim)
  BY DEF DerivationInv
<1>2. PICK M : Closed(sim, core, M)
  BY <1>1 DEF CoreProved
<1>3. Len(core) \in Nat /\ Len(core) # 0 /\ core = [i \in 1 .. Len(core) |-> core[i]]
  BY <1>1 DEF CoreProved
<1>4. Carries(window, core)
  BY <1>1, <1>2, <1>3, ClosedOutlives
<1>5. QED
  BY <1>3, <1>4

(* An occurrence in a part of a sequence is one in the whole.              *)
LEMMA OccurrenceInPart ==
  ASSUME NEW T, NEW q \in Seq(T), NEW at \in Nat, NEW n \in Nat, at + n <= Len(q),
         NEW i \in Nat, NEW m \in Nat, i + m <= n
  PROVE  SubSeq(SubSeq(q, at + 1, at + n), i + 1, i + m) = SubSeq(q, at + i + 1, at + i + m)
<1> DEFINE part == SubSeq(q, at + 1, at + n)
<1>1. part = [k \in 1 .. n |-> q[at + k]]
  BY Stretch
<1>2. \A k \in 1 .. n : q[at + k] \in T
  OBVIOUS
<1> HIDE DEF part
<1>3. part \in Seq(T) /\ Len(part) = n
  BY <1>1, <1>2
<1>4. SubSeq(part, i + 1, i + m) = [k \in 1 .. m |-> part[i + k]]
  BY <1>3, Stretch
<1>5. at + i \in Nat /\ (at + i) + m <= Len(q)
  OBVIOUS
<1>6. SubSeq(q, at + i + 1, at + i + m) = [k \in 1 .. m |-> q[at + i + k]]
  BY <1>5, Stretch
<1>7. ASSUME NEW k \in 1 .. m PROVE part[i + k] = q[at + i + k]
  <2>1. i + k \in 1 .. n /\ at + (i + k) = at + i + k
    OBVIOUS
  <2>2. part[i + k] = q[at + (i + k)]
    BY <1>1, <2>1
  <2>3. QED
    BY <2>1, <2>2
<1>8. [k \in 1 .. m |-> part[i + k]] = [k \in 1 .. m |-> q[at + i + k]]
  BY <1>7
<1>9. QED
  BY <1>4, <1>6, <1>8 DEF part

(* Every window that licenses a cut is among those around some occurrence. *)
LEMMA LicensedIsAround ==
  ASSUME PlanInv, planning # "unasked", DerivationInv, derivation = "done", core # << >>,
         NEW w \in LicensedFrom(floor)
  PROVE  /\ Len(core) \in Nat \ {0} /\ Len(core) + 1 <= w[2]
         /\ \E at \in OccurrencesFrom(floor) : w \in Around(at)
<1> DEFINE s == w[1]
           n == w[2]
           L == Len(core)
           window == SubSeq(input, s + 1, s + n)
<1>1. /\ floor \in Nat /\ input \in Seq(Symbols) /\ size \in Nat
  BY PlanSizes DEF PlanInv, Cursors
<1>2. /\ s \in Nat /\ n \in Nat /\ w = <<s, n>> /\ floor <= s /\ s + n <= size
      /\ n <= LongestTried /\ ~ Refused(w)
  BY <1>1, LicensedLies
<1>3. window \in Seq(Symbols) /\ Len(window) = n
  BY <1>1, <1>2 DEF size
<1>4. SplitOrigin(sim, window) # BeforeWindow
  BY <1>2 DEF Refused, OriginAt
<1> HIDE DEF window
<1>5. L \in Nat \ {0} /\ Carries(window, core)
  BY <1>3, <1>4, CertifiedCarries
<1> HIDE DEF s, n, L
<1>6. PICK i \in 0 .. n - L - 1 : SubSeq(window, i + 1, i + L) = core
  BY <1>3, <1>5 DEF Carries, L
<1>7. i \in Nat /\ i + L + 1 <= n
  BY <1>2, <1>5, <1>6
<1>8. SubSeq(input, s + i + 1, s + i + L) = core
  <2>1. s + n <= Len(input) /\ i + L <= n
    BY <1>2, <1>5, <1>7 DEF size
  <2>2. SubSeq(window, i + 1, i + L) = SubSeq(input, s + i + 1, s + i + L)
    BY <1>1, <1>2, <1>5, <1>7, <2>1, OccurrenceInPart DEF window
  <2>3. QED
    BY <1>6, <2>2
<1>9. s + i \in floor .. size - L /\ s \in floor .. s + i
  BY <1>1, <1>2, <1>5, <1>7
<1>10. s + i \in OccurrencesFrom(floor)
  BY <1>8, <1>9 DEF OccurrencesFrom, L
<1>11. n \in L + 1 .. LongestTried /\ s + i + L + 1 <= s + n
  BY <1>2, <1>5, <1>7, CertificateWalkAssumption
<1>12. w \in Around(s + i)
  BY <1>2, <1>9, <1>11 DEF Around, L
<1>13. QED
  BY <1>5, <1>10, <1>11, <1>12 DEF n, L

----------------------------------------------------------------------------
(* How a round may end, and how its search may leave the rest.             *)
LEMMA RoundStands ==
  ASSUME PlanInv, WalkInv, WithWindows, InRound
  PROVE  /\ planning # "unasked" /\ planning # "planned" /\ derivation = "done"
         /\ usable \in Nat \ {0} /\ index \in Nat \ {0} /\ index < usable
         /\ floor = FloorOf(index, back) /\ floor \in Nat
         /\ CutsAreWalked(Len(boundaries) - 1, index - 1)
         /\ back < size /\ Drawn(index)
         /\ RoundInv /\ SearchInv
<1>1. RoundInv /\ SearchInv /\ planning # "unasked" /\ planning # "planned" /\ derivation = "done"
  BY DEF WalkInv, InRound, WithWindows
<1>2. index \in Nat \ {0} /\ index < usable /\ usable \in Nat
  BY <1>1, PlanSizes DEF RoundInv
<1>3. usable \in Nat \ {0} /\ usable > 0
  BY <1>2
<1>4. floor \in Nat
  BY DEF PlanInv, Cursors
<1>5. QED
  BY <1>1, <1>2, <1>3, <1>4 DEF RoundInv

(* An earlier round without a licensed window leaves none for this one.    *)
LEMMA CutsUpToNow ==
  ASSUME PlanInv, WalkInv, WithWindows, InRound, NEW w \in LicensedFrom(floor)
  PROVE  Len(boundaries) = index
<1> DEFINE n == Len(boundaries)
<1>1. /\ index \in Nat \ {0} /\ floor = FloorOf(index, back) /\ usable > 0
      /\ CutsAreWalked(n - 1, index - 1)
  BY RoundStands
<1>2. n \in Nat \ {0} /\ back \in Nat /\ size \in Nat
  BY PlanSizes
<1>3. n - 1 \in 0 .. index - 1
  BY <1>1 DEF CutsAreWalked
<1>4. CASE n - 1 < index - 1
  <2>1. LicensedFrom(FloorOf(n - 1 + 1, boundaries[n - 1 + 1])) = {}
    BY <1>1, <1>4 DEF CutsAreWalked
  <2>2. n - 1 + 1 = n /\ n <= index
    BY <1>1, <1>2, <1>4
  <2>3. LicensedFrom(FloorOf(n, back)) = {}
    BY <2>1, <2>2 DEF back
  <2>4. FloorOf(n, back) \in Nat /\ floor \in Nat /\ FloorOf(n, back) <= floor
    BY <1>1, <1>2, <2>2, FloorsRise
  <2>5. LicensedFrom(floor) \subseteq LicensedFrom(FloorOf(n, back))
    BY <1>2, <2>4, FewerFromLater
  <2>6. QED
    BY <2>3, <2>5
<1>5. CASE ~ (n - 1 < index - 1)
  BY <1>1, <1>2, <1>3, <1>5
<1>6. QED
  BY <1>4, <1>5

LEMMA SearchEnds ==
  ASSUME PlanInv, WalkInv, WithWindows, InRound, NEW bounds, EndRound(bounds)
  PROVE  /\ boundaries' = bounds /\ index' = index + 1 /\ planning' = "floor"
         /\ UNCHANGED <<sim, core, input, chunks, targets, derivation>>
         /\ WithWindows' /\ SearchInv' /\ ~ InRound'
<1>1. /\ boundaries' = bounds /\ index' = index + 1 /\ planning' = "floor"
      /\ UNCHANGED <<sim, core, input, chunks, targets, derivation, barren>>
  BY DEF EndRound, given, simulator, deriving
<1>2. SearchInv
  BY RoundStands
<1>3. SearchInv'
  BY <1>1, <1>2, InputStays DEF SearchInv
<1>4. QED
  BY <1>1, <1>3 DEF WithWindows, InRound

LEMMA WalkedStays ==
  ASSUME UNCHANGED <<sim, core, input, chunks>>, NEW cuts,
         \A i \in 1 .. cuts :
           \E v : /\ FirstOf(LicensedFrom(FloorOf(i, boundaries'[i])), v)
                  /\ boundaries'[i + 1] = CutAfter(v)
  PROVE  \A i \in 1 .. cuts :
           \E v : /\ FirstOf(LicensedFrom(FloorOf(i, boundaries[i])), v)'
                  /\ (boundaries[i + 1] = CutAfter(v))'
  BY InputStays DEF FirstOf

LEMMA RoundRefused ==
  ASSUME PlanInv, WalkInv, WithWindows, InRound, LicensedFrom(floor) = {}, EndRound(boundaries)
  PROVE  WalkInv'
<1> DEFINE n == Len(boundaries)
<1>1. /\ boundaries' = boundaries /\ index' = index + 1 /\ planning' = "floor"
      /\ UNCHANGED <<sim, core, input, chunks, targets, derivation>>
      /\ WithWindows' /\ SearchInv' /\ ~ InRound'
  BY SearchEnds
<1>2. /\ derivation = "done" /\ index \in Nat \ {0} /\ floor = FloorOf(index, back)
      /\ CutsAreWalked(n - 1, index - 1) /\ back < size /\ Drawn(index)
      /\ size \in 0 .. SizeMax
  BY RoundStands DEF RoundInv
<1>3. n \in Nat \ {0} /\ n' = n
  BY <1>1, PlanSizes
<1>4. CutsAreWalked(n - 1, index)
  <2>1. n - 1 \in 0 .. index
    BY <1>2, <1>3 DEF CutsAreWalked
  <2>2. ASSUME n - 1 < index
        PROVE  LicensedFrom(FloorOf(n - 1 + 1, boundaries[n - 1 + 1])) = {}
    <3>1. CASE n - 1 < index - 1
      BY <1>2, <3>1 DEF CutsAreWalked
    <3>2. CASE ~ (n - 1 < index - 1)
      <4>1. n - 1 + 1 = index /\ n = index
        BY <1>2, <1>3, <2>2, <3>2
      <4>2. QED
        BY <1>2, <4>1 DEF back
    <3>3. QED
      BY <3>1, <3>2
  <2>3. QED
    BY <1>2, <2>1, <2>2 DEF CutsAreWalked
<1>5. index' \in Nat \ {0} /\ index' - 1 = index
  BY <1>1, <1>2
<1>6. CutsAreWalked(Len(boundaries) - 1, index - 1)'
  <2>1. \A i \in 1 .. n - 1 :
          \E v : /\ FirstOf(LicensedFrom(FloorOf(i, boundaries[i])), v)'
                 /\ (boundaries[i + 1] = CutAfter(v))'
    <3>1. \A i \in 1 .. n - 1 :
            \E v : /\ FirstOf(LicensedFrom(FloorOf(i, boundaries'[i])), v)
                   /\ boundaries'[i + 1] = CutAfter(v)
      BY <1>1, <1>4, Zenon DEF CutsAreWalked
    <3>2. QED
      BY <1>1, <3>1, WalkedStays, Zenon
  <2>2. n - 1 < index => LicensedFrom(FloorOf(n - 1 + 1, boundaries[n - 1 + 1]))' = {}
    BY <1>1, <1>4, InputStays DEF CutsAreWalked
  <2>3. n - 1 \in 0 .. index /\ Len(boundaries') = n
    BY <1>1, <1>4 DEF CutsAreWalked
  <2>4. QED
    BY <1>5, <2>1, <2>2, <2>3 DEF CutsAreWalked
<1>7. Drawn(IF InRound THEN index ELSE index - 1)'
  <2>1. (IF InRound THEN index ELSE index - 1)' = index
    BY <1>1, <1>5
  <2>2. QED
    BY <1>1, <1>2, <2>1, InputStays DEF Drawn
<1>8. RoundInv'
  BY <1>1, <1>2, <1>5, <1>6, <1>7, InputStays DEF RoundInv, back
<1>9. QED
  BY <1>1, <1>2, <1>8 DEF WalkInv

LEMMA RoundCut ==
  ASSUME PlanInv, WalkInv, WithWindows, InRound,
         NEW w, FirstOf(LicensedFrom(floor), w), EndRound(Append(boundaries, CutAfter(w)))
  PROVE  WalkInv'
<1> DEFINE n == Len(boundaries)
<1>1. /\ boundaries' = Append(boundaries, CutAfter(w)) /\ index' = index + 1 /\ planning' = "floor"
      /\ UNCHANGED <<sim, core, input, chunks, targets, derivation>>
      /\ WithWindows' /\ SearchInv' /\ ~ InRound'
  BY SearchEnds
<1>2. /\ derivation = "done" /\ index \in Nat \ {0} /\ floor = FloorOf(index, back)
      /\ CutsAreWalked(n - 1, index - 1) /\ Drawn(index)
      /\ size \in 0 .. SizeMax /\ floor \in Nat /\ planning # "unasked"
  BY RoundStands DEF RoundInv
<1>3. w \in LicensedFrom(floor)
  BY DEF FirstOf
<1>4. n = index
  BY <1>3, CutsUpToNow
<1>5. CutAfter(w) \in Nat /\ CutAfter(w) < size
  BY <1>2, <1>3, LicensedLies
<1>6. /\ Len(boundaries') = n + 1 /\ boundaries'[n + 1] = CutAfter(w)
      /\ \A i \in 1 .. n : boundaries'[i] = boundaries[i]
  BY <1>1, <1>5 DEF PlanInv, CutsSoFar
<1>7. back' = CutAfter(w)
  BY <1>6 DEF back
<1>8. ASSUME NEW i \in 1 .. index
      PROVE  \E v : /\ FirstOf(LicensedFrom(FloorOf(i, boundaries'[i])), v)
                    /\ boundaries'[i + 1] = CutAfter(v)
  <2>1. CASE i = index
    <3>1. boundaries'[i] = back /\ boundaries'[i + 1] = CutAfter(w)
      BY <1>2, <1>4, <1>6, <2>1 DEF back
    <3>2. QED
      BY <1>2, <2>1, <3>1
  <2>2. CASE i # index
    <3>1. i \in 1 .. n - 1 /\ i \in 1 .. n /\ i + 1 \in 1 .. n
      BY <1>2, <1>4, <2>2
    <3>2. boundaries'[i] = boundaries[i] /\ boundaries'[i + 1] = boundaries[i + 1]
      BY <1>6, <3>1
    <3>3. QED
      BY <1>2, <3>1, <3>2 DEF CutsAreWalked
  <2>3. QED
    BY <2>1, <2>2
<1>9. /\ index' \in Nat \ {0} /\ index' - 1 = index /\ Len(boundaries') - 1 = index
      /\ index \in 0 .. index
  BY <1>1, <1>2, <1>4, <1>6
<1>10. CutsAreWalked(Len(boundaries) - 1, index - 1)'
  <2>1. \A i \in 1 .. index :
          \E v : /\ FirstOf(LicensedFrom(FloorOf(i, boundaries[i])), v)'
                 /\ (boundaries[i + 1] = CutAfter(v))'
    BY <1>1, <1>8, WalkedStays, Zenon
  <2>2. ~ (index < index)
    BY <1>2
  <2>3. QED
    BY <1>9, <2>1, <2>2 DEF CutsAreWalked
<1>11. Drawn(IF InRound THEN index ELSE index - 1)'
  <2>1. (IF InRound THEN index ELSE index - 1)' = index
    BY <1>1, <1>9
  <2>2. QED
    BY <1>1, <1>2, <2>1, InputStays DEF Drawn
<1>12. back' < size'
  BY <1>1, <1>5, <1>7, InputStays
<1>13. size' \in 0 .. SizeMax
  BY <1>1, <1>2, InputStays
<1>14. RoundInv'
  BY <1>1, <1>9, <1>10, <1>11, <1>12, <1>13 DEF RoundInv
<1>15. QED
  BY <1>1, <1>2, <1>14 DEF WalkInv

----------------------------------------------------------------------------
(* The division: its first target, and each next one.                      *)
LEMMA FirstDrawn ==
  ASSUME NEW length \in Nat, NEW parts \in 1 .. length
  PROVE  Planner!DrawnFor(Plan!DivisionTargets(length, parts), length, parts, 0)
<1>1. Planner!DrawnFor(Planner!DivisionTargets(length, parts), length, parts, 0)
  BY PlannerAssumptions, Planner!FirstDrawn
<1>2. Plan!DivisionTargets(length, parts) = Planner!DivisionTargets(length, parts)
  BY Zenon DEF Plan!DivisionTargets, Planner!DivisionTargets
<1>3. QED
  BY <1>1, <1>2

LEMMA NextDrawn ==
  ASSUME NEW length \in 0 .. SizeMax, NEW parts \in 1 .. length, NEW k \in 0 .. parts - 1,
         NEW d, Planner!DrawnFor(d, length, parts, k)
  PROVE  /\ Planner!DrawnFor(Plan!NextTarget(d), length, parts, k + 1)
         /\ Plan!NextTarget(d).target = (length * (k + 1)) \div parts
<1>1. length \in Planner!SizeT
  BY DEF Planner!SizeT
<1>2. /\ Planner!DrawnFor(Planner!NextTarget(d), length, parts, k + 1)
      /\ Planner!NextTarget(d).target = (length * (k + 1)) \div parts
  BY <1>1, PlannerAssumptions, Planner!NextDrawn
<1>3. Plan!NextTarget(d) = Planner!NextTarget(d)
  BY DEF Plan!NextTarget, Planner!NextTarget, Plan!Plus, Planner!Plus
<1>4. QED
  BY <1>2, <1>3

(* No search runs: what is left of it is the barren offset.                *)
LEMMA NoSearch ==
  ASSUME SearchInv, UNCHANGED <<sim, core, input, chunks, barren>>,
         planning' \notin {"exhaustive", "core"}
  PROVE  SearchInv'
  BY InputStays DEF SearchInv

LEMMA StartWalk == PlanInv /\ DerivationInv /\ WalkInv /\ PlanStarts => WalkInv'
<1> SUFFICES ASSUME PlanInv, DerivationInv, WalkInv, PlanStarts PROVE WalkInv'
  OBVIOUS
<1>1. /\ planning = "unasked" /\ planning' = "start" /\ derivation = "done"
      /\ input' \in Inputs /\ chunks' \in 0 .. MaxChunks
      /\ targets' = Plan!DivisionTargets(size', usable')
      /\ UNCHANGED <<sim, core, derivation, index, boundaries, barren>>
  BY DEF PlanStarts, simulator, deriving, Plan!DivisionTargets
<1>2. boundaries = <<0>> /\ barren = SizeMax /\ index = 1
  BY <1>1 DEF PlanInv, Unasked, WalkInv
<1>3. /\ size' \in 0 .. SizeMax /\ size' \in Nat /\ chunks' \in Nat /\ SizeMax \in Nat
      /\ usable' \in 0 .. size'
  <2>1. size' \in 0 .. SizeMax /\ size' \in Nat /\ SizeMax \in Nat
    BY <1>1, WindowPlanAssumption DEF size
  <2>2. chunks' \in Nat
    BY <1>1, WindowPlanAssumption
  <2>3. usable' \in 0 .. size'
    BY <2>1, <2>2 DEF usable, size, Plan!usable, Plan!size
  <2>4. QED
    BY <2>1, <2>2, <2>3
<1>4. /\ Len(boundaries') = 1 /\ back' = 0 /\ index' = 1
  BY <1>1, <1>2 DEF back
<1>5. CutsAreWalked(Len(boundaries) - 1, index - 1)'
  BY <1>4 DEF CutsAreWalked
<1>6. ASSUME usable' > 0 PROVE back' < size' /\ Drawn(IF InRound THEN index ELSE index - 1)'
  <2>1. usable' \in 1 .. size'
    BY <1>3, <1>6
  <2>2. (IF InRound THEN index ELSE index - 1)' = 0
    BY <1>1, <1>4 DEF InRound
  <2>3. Planner!DrawnFor(targets', size', usable', 0)
    BY <1>1, <1>3, <2>1, FirstDrawn
  <2>4. Drawn(IF InRound THEN index ELSE index - 1)'
    BY <2>2, <2>3 DEF Drawn
  <2>5. QED
    BY <1>3, <1>4, <2>1, <2>4
<1>7. RoundInv'
  BY <1>1, <1>3, <1>4, <1>5, <1>6 DEF RoundInv, InRound
<1>8. core # << >> => OccurrencesFrom(barren)' = {}
  <2>1. SUFFICES ASSUME core # << >> PROVE OccurrencesFrom(barren)' = {}
    OBVIOUS
  <2>2. Len(core) \in Nat \ {0}
    BY <1>1, <2>1 DEF DerivationInv, CoreProved
  <2>3. barren' .. size' - Len(core') = {}
    BY <1>1, <1>2, <1>3, <2>2
  <2>4. QED
    BY <2>3 DEF OccurrencesFrom
<1>9. SearchInv'
  BY <1>1, <1>2, <1>3, <1>8 DEF SearchInv
<1>10. QED
  BY <1>1, <1>7, <1>9 DEF WalkInv

----------------------------------------------------------------------------
(* The steps of a round, and of its exhaustive walk.                       *)
LEMMA WalkedCutsStay ==
  ASSUME UNCHANGED <<sim, core, input, chunks, boundaries>>, NEW cuts, NEW rounds,
         CutsAreWalked(cuts, rounds)
  PROVE  CutsAreWalked(cuts, rounds)'
<1>1. \A i \in 1 .. cuts :
        \E v : /\ FirstOf(LicensedFrom(FloorOf(i, boundaries[i])), v)'
               /\ (boundaries[i + 1] = CutAfter(v))'
  <2>1. \A i \in 1 .. cuts :
          \E v : /\ FirstOf(LicensedFrom(FloorOf(i, boundaries'[i])), v)
                 /\ boundaries'[i + 1] = CutAfter(v)
    BY Zenon DEF CutsAreWalked
  <2>2. QED
    BY <2>1, WalkedStays, Zenon
<1>2. cuts < rounds => LicensedFrom(FloorOf(cuts + 1, boundaries[cuts + 1]))' = {}
  BY InputStays DEF CutsAreWalked
<1>3. QED
  BY <1>1, <1>2 DEF CutsAreWalked

LEMMA CutsStay ==
  ASSUME UNCHANGED <<sim, core, input, chunks, boundaries, index>>
  PROVE  /\ CutsAreWalked(Len(boundaries) - 1, index - 1)
              => CutsAreWalked(Len(boundaries) - 1, index - 1)'
         /\ CutsAreWalked(Len(boundaries) - 2, index - 1)
              => CutsAreWalked(Len(boundaries) - 2, index - 1)'
<1>1. PICK kept, closed, rounds :
        kept = Len(boundaries) - 1 /\ closed = Len(boundaries) - 2 /\ rounds = index - 1
  OBVIOUS
<1>2. /\ CutsAreWalked(kept, rounds) => CutsAreWalked(kept, rounds)'
      /\ CutsAreWalked(closed, rounds) => CutsAreWalked(closed, rounds)'
  BY WalkedCutsStay
<1>3. /\ (Len(boundaries) - 1)' = kept /\ (Len(boundaries) - 2)' = closed
      /\ (index - 1)' = rounds
  BY <1>1
<1>4. QED
  BY <1>1, <1>2, <1>3, Zenon DEF CutsAreWalked

(* Within a round only its search goes on.                                 *)
LEMMA RoundGoesOn ==
  ASSUME PlanInv, WalkInv, WithWindows, InRound, planning' \in {"cut", "exhaustive", "core"},
         UNCHANGED <<sim, core, input, chunks, derivation, targets, index, boundaries, floor>>,
         SearchInv'
  PROVE  WalkInv'
<1>1. /\ derivation = "done" /\ index \in Nat \ {0} /\ index < usable /\ floor = FloorOf(index, back)
      /\ CutsAreWalked(Len(boundaries) - 1, index - 1) /\ back < size /\ Drawn(index)
      /\ size \in 0 .. SizeMax
  BY RoundStands DEF RoundInv
<1>2. CutsAreWalked(Len(boundaries) - 1, index - 1)'
  BY <1>1, CutsStay
<1>3. back' = back /\ size' = size /\ usable' = usable /\ InRound' /\ planning' # "planned"
  BY InputStays DEF back, InRound
<1>4. floor' = FloorOf(index, back)'
  BY <1>1, <1>3, InputStays DEF FloorOf, Plan!MaxOf
<1>5. Drawn(IF InRound THEN index ELSE index - 1)'
  <2>1. (IF InRound THEN index ELSE index - 1)' = index
    BY <1>3
  <2>2. QED
    BY <1>1, <1>3, <2>1 DEF Drawn
<1>6. RoundInv'
  BY <1>1, <1>2, <1>3, <1>4, <1>5 DEF RoundInv
<1>7. QED
  BY <1>1, <1>6 DEF WalkInv

LEMMA DivideWalk == PlanInv /\ WalkInv /\ DivideForWindows => WalkInv'
<1> SUFFICES ASSUME PlanInv, WalkInv, DivideForWindows PROVE WalkInv'
  OBVIOUS
<1>1. /\ planning = "start" /\ planning' = "floor" /\ WithWindows
      /\ UNCHANGED <<sim, core, input, chunks, derivation, targets, index, boundaries, barren>>
  BY DEF DivideForWindows, WithWindows, given, simulator, deriving
<1>2. /\ RoundInv /\ SearchInv /\ derivation = "done" /\ ~ InRound /\ ~ InRound'
  BY <1>1 DEF WalkInv, InRound
<1>3. SearchInv'
  BY <1>1, <1>2, NoSearch
<1>4. /\ index \in Nat \ {0} /\ CutsAreWalked(Len(boundaries) - 1, index - 1)
      /\ size \in 0 .. SizeMax /\ (usable > 0 => back < size /\ Drawn(index - 1))
  BY <1>1, <1>2 DEF RoundInv
<1>5. CutsAreWalked(Len(boundaries) - 1, index - 1)'
  BY <1>1, <1>4, CutsStay
<1>6. back' = back /\ size' = size /\ usable' = usable
  BY <1>1, InputStays DEF back
<1>7. ASSUME usable' > 0 PROVE Drawn(IF InRound THEN index ELSE index - 1)'
  <2>1. (IF InRound THEN index ELSE index - 1)' = index - 1
    BY <1>1, <1>2
  <2>2. QED
    BY <1>1, <1>4, <1>6, <1>7, <2>1 DEF Drawn
<1>8. RoundInv'
  BY <1>1, <1>2, <1>4, <1>5, <1>6, <1>7 DEF RoundInv
<1>9. QED
  BY <1>1, <1>2, <1>3, <1>8 DEF WalkInv

LEMMA FloorWalk == PlanInv /\ WalkInv /\ NextFloor /\ WithWindows => WalkInv'
<1> SUFFICES ASSUME PlanInv, WalkInv, NextFloor, WithWindows PROVE WalkInv'
  OBVIOUS
<1>1. /\ planning = "floor" /\ planning' = "cut" /\ index < usable
      /\ targets' = Plan!NextTarget(targets)
      /\ floor' = Plan!MaxOf(targets'.target, Plan!Plus(back, 1))
      /\ UNCHANGED <<sim, core, input, chunks, derivation, index, boundaries, barren>>
  BY DEF NextFloor, given, simulator, deriving
<1>2. RoundInv /\ SearchInv /\ derivation = "done" /\ ~ InRound
  BY <1>1 DEF WalkInv, InRound
<1>3. index \in Nat \ {0} /\ size \in 0 .. SizeMax /\ usable \in 0 .. size /\ back \in Nat
  BY <1>2, PlanSizes DEF RoundInv
<1>4. /\ usable \in 1 .. size /\ usable > 0 /\ index - 1 \in 0 .. usable - 1
      /\ index - 1 + 1 = index
  BY <1>1, <1>3, WindowPlanAssumption
<1>5. /\ CutsAreWalked(Len(boundaries) - 1, index - 1) /\ back < size /\ Drawn(index - 1)
  BY <1>1, <1>2, <1>4 DEF RoundInv
<1>6. /\ Planner!DrawnFor(targets', size, usable, index)
      /\ targets'.target = (size * index) \div usable
  <2>1. Planner!DrawnFor(targets, size, usable, index - 1)
    BY <1>5 DEF Drawn
  <2>2. /\ Planner!DrawnFor(Plan!NextTarget(targets), size, usable, index - 1 + 1)
        /\ Plan!NextTarget(targets).target = (size * (index - 1 + 1)) \div usable
    BY <1>3, <1>4, <2>1, NextDrawn
  <2>3. QED
    BY <1>1, <1>4, <2>2
<1>7. Plan!Plus(back, 1) = back + 1
  BY <1>3, <1>5, WindowPlanAssumption DEF Plan!Plus
<1>8. floor' = FloorOf(index, back)
  BY <1>1, <1>6, <1>7, Zenon DEF FloorOf
<1>9. /\ back' = back /\ size' = size /\ usable' = usable /\ InRound'
      /\ FloorOf(index, back)' = FloorOf(index, back)
  BY <1>1, InputStays DEF back, InRound, FloorOf, Plan!MaxOf
<1>10. CutsAreWalked(Len(boundaries) - 1, index - 1)'
  BY <1>1, <1>5, CutsStay
<1>11. Drawn(IF InRound THEN index ELSE index - 1)'
  <2>1. (IF InRound THEN index ELSE index - 1)' = index
    BY <1>1, <1>9
  <2>2. QED
    BY <1>6, <1>9, <2>1 DEF Drawn
<1>12. RoundInv'
  BY <1>1, <1>3, <1>5, <1>8, <1>9, <1>10, <1>11 DEF RoundInv
<1>13. SearchInv'
  BY <1>1, <1>2, NoSearch
<1>14. QED
  BY <1>1, <1>2, <1>12, <1>13 DEF WalkInv

LEMMA CloseWalk == PlanInv /\ WalkInv /\ Close /\ WithWindows => WalkInv'
<1> SUFFICES ASSUME PlanInv, WalkInv, Close, WithWindows PROVE WalkInv'
  OBVIOUS
<1>0. PICK n : n = Len(boundaries)
  OBVIOUS
<1>1. /\ planning = "floor" /\ planning' = "planned" /\ index >= usable
      /\ boundaries' = Append(boundaries, size)
      /\ UNCHANGED <<sim, core, input, chunks, derivation, index, barren>>
  BY DEF Close, given, simulator, deriving
<1>2. RoundInv /\ SearchInv /\ derivation = "done"
  BY <1>1 DEF WalkInv
<1>3. /\ index \in Nat \ {0} /\ size \in 0 .. SizeMax /\ CutsAreWalked(n - 1, index - 1)
  BY <1>0, <1>1, <1>2 DEF RoundInv
<1>4. /\ n \in Nat \ {0} /\ n - 1 \in 0 .. index - 1
  BY <1>0, <1>3, PlanSizes DEF CutsAreWalked
<1>5. Len(boundaries') = n + 1 /\ \A i \in 1 .. n : boundaries'[i] = boundaries[i]
  BY <1>0, <1>1, <1>3 DEF PlanInv, CutsSoFar
<1>6. \A i \in 1 .. n - 1 :
        \E v : /\ FirstOf(LicensedFrom(FloorOf(i, boundaries[i])), v)'
               /\ (boundaries[i + 1] = CutAfter(v))'
  <2>1. ASSUME NEW i \in 1 .. n - 1
        PROVE  \E v : /\ FirstOf(LicensedFrom(FloorOf(i, boundaries'[i])), v)
                      /\ boundaries'[i + 1] = CutAfter(v)
    <3>1. i \in 1 .. n /\ i + 1 \in 1 .. n
      BY <1>4
    <3>2. boundaries'[i] = boundaries[i] /\ boundaries'[i + 1] = boundaries[i + 1]
      BY <1>5, <3>1
    <3>3. QED
      BY <1>3, <3>2 DEF CutsAreWalked
  <2>2. QED
    BY <1>1, <2>1, WalkedStays, Zenon
<1>7. n - 1 < index - 1 => LicensedFrom(FloorOf(n - 1 + 1, boundaries[n - 1 + 1]))' = {}
  <2>1. SUFFICES ASSUME n - 1 < index - 1
                 PROVE  LicensedFrom(FloorOf(n - 1 + 1, boundaries[n - 1 + 1]))' = {}
    OBVIOUS
  <2>2. LicensedFrom(FloorOf(n - 1 + 1, boundaries[n - 1 + 1])) = {}
    BY <1>3, <2>1 DEF CutsAreWalked
  <2>3. boundaries'[n] = boundaries[n]
    BY <1>4, <1>5
  <2>4. n - 1 + 1 = n
    BY <1>4
  <2>5. QED
    BY <1>1, <2>2, <2>3, <2>4, InputStays
<1>8. CutsAreWalked(Len(boundaries) - 2, index - 1)'
  <2>1. (Len(boundaries) - 2)' = n - 1 /\ (index - 1)' = index - 1
    BY <1>1, <1>4, <1>5
  <2>2. QED
    BY <1>4, <1>6, <1>7, <2>1 DEF CutsAreWalked
<1>9. RoundInv'
  BY <1>1, <1>3, <1>8, InputStays DEF RoundInv, InRound
<1>10. SearchInv'
  BY <1>1, <1>2, NoSearch
<1>11. QED
  BY <1>1, <1>2, <1>9, <1>10 DEF WalkInv

LEMMA RefuseWalk ==
  PlanInv /\ DerivationInv /\ WalkInv /\ RefuseAtOnce /\ WithWindows => WalkInv'
<1> SUFFICES ASSUME PlanInv, DerivationInv, WalkInv, RefuseAtOnce, WithWindows PROVE WalkInv'
  OBVIOUS
<1>1. /\ planning = "cut" /\ EndRound(boundaries)
      /\ \/ floor >= size
         \/ core # << >> /\ Len(core) + 1 > LongestTried
         \/ core # << >> /\ floor >= barren
  BY DEF RefuseAtOnce
<1>2. InRound /\ planning # "unasked" /\ derivation = "done" /\ SearchInv /\ floor \in Nat
  BY <1>1, RoundStands DEF InRound
<1>3. ASSUME NEW w \in LicensedFrom(floor) PROVE FALSE
  <2>1. /\ w[1] \in Nat /\ w[2] \in Nat /\ floor <= w[1] /\ w[1] < size
        /\ w[2] <= LongestTried /\ size \in Nat
    BY <1>2, <1>3, LicensedLies, PlanSizes
  <2>2. CASE floor >= size
    BY <1>2, <2>1, <2>2
  <2>3. CASE core # << >>
    <3>1. /\ Len(core) \in Nat \ {0} /\ Len(core) + 1 <= w[2]
          /\ OccurrencesFrom(floor) # {}
      BY <1>2, <1>3, <2>3, LicensedIsAround
    <3>2. floor < barren
      <4>1. SUFFICES ASSUME floor >= barren PROVE FALSE
        BY <1>2 DEF SearchInv
      <4>2. OccurrencesFrom(floor) \subseteq OccurrencesFrom(barren)
        BY <1>2, <4>1 DEF SearchInv, OccurrencesFrom
      <4>3. QED
        BY <1>2, <2>3, <3>1, <4>2 DEF SearchInv
    <3>3. Len(core) + 1 <= LongestTried
      BY <2>1, <3>1, CertificateWalkAssumption
    <3>4. QED
      BY <1>1, <1>2, <2>1, <3>1, <3>2, <3>3, CertificateWalkAssumption DEF SearchInv
  <2>4. QED
    BY <1>1, <2>2, <2>3
<1>4. QED
  BY <1>1, <1>2, <1>3, RoundRefused

LEMMA StartExhaustiveWalk == PlanInv /\ WalkInv /\ StartExhaustive /\ WithWindows => WalkInv'
<1> SUFFICES ASSUME PlanInv, WalkInv, StartExhaustive, WithWindows PROVE WalkInv'
  OBVIOUS
<1>1. /\ planning = "cut" /\ planning' = "exhaustive" /\ core = << >> /\ cursor' = floor
      /\ UNCHANGED <<sim, core, input, chunks, derivation, targets, index, boundaries, floor, barren>>
  BY DEF StartExhaustive, given, simulator, deriving
<1>2. InRound /\ SearchInv /\ floor \in Nat
  BY <1>1, RoundStands DEF InRound
<1>3. floor' .. cursor' - 1 = {} /\ floor' <= cursor'
  BY <1>1, <1>2
<1>4. SearchInv'
  BY <1>1, <1>2, <1>3 DEF SearchInv
<1>5. QED
  BY <1>1, <1>2, <1>4, RoundGoesOn

(* A window that licenses a cut is one of the lengths at its start.        *)
LEMMA LicensedAt ==
  ASSUME PlanInv, planning # "unasked", NEW from \in Nat, NEW w \in LicensedFrom(from)
  PROVE  w[2] \in LengthsAt(sim, input, w[1])
<1>1. /\ w[2] \in ShortestTried .. LongestTried /\ w[1] + w[2] <= size /\ ~ Refused(w)
  BY DEF LicensedFrom
<1>2. QED
  BY <1>1 DEF LengthsAt, size, Refused

LEMMA ExhaustiveWalk ==
  PlanInv /\ WalkInv /\ WithWindows /\ (CutExhaustive \/ WalkExhaustive \/ NoneExhaustive)
    => WalkInv'
<1> SUFFICES ASSUME PlanInv, WalkInv, WithWindows,
                    CutExhaustive \/ WalkExhaustive \/ NoneExhaustive
             PROVE  WalkInv'
  OBVIOUS
<1>1. planning = "exhaustive"
  BY DEF CutExhaustive, WalkExhaustive, NoneExhaustive
<1>2. /\ InRound /\ planning # "unasked" /\ SearchInv /\ floor \in Nat
      /\ cursor \in Nat /\ floor <= cursor /\ size \in Nat
  BY <1>1, RoundStands, PlanSizes DEF InRound, PlanInv, Cursors, SearchInv
<1>3. \A at \in floor .. cursor - 1 : LengthsAt(sim, input, at) = {}
  BY <1>1, <1>2 DEF SearchInv
<1>4. ASSUME NEW w \in LicensedFrom(floor)
      PROVE  /\ w[1] \in Nat /\ w[2] \in Nat /\ w = <<w[1], w[2]>> /\ cursor <= w[1]
             /\ w[1] + w[2] <= size /\ ShortestTried <= w[2]
             /\ w[2] \in LengthsAt(sim, input, w[1])
  <2>1. /\ w[1] \in Nat /\ w[2] \in Nat /\ w = <<w[1], w[2]>> /\ floor <= w[1]
        /\ w[1] + w[2] <= size /\ ShortestTried <= w[2]
        /\ w[2] \in LengthsAt(sim, input, w[1])
    BY <1>2, <1>4, LicensedLies, LicensedAt
  <2>2. w[1] \notin floor .. cursor - 1
    BY <1>3, <2>1
  <2>3. QED
    BY <1>2, <2>1, <2>2
<1>5. CASE CutExhaustive
  <2>1. PICK n \in LengthsAt(sim, input, cursor) :
          /\ \A m \in LengthsAt(sim, input, cursor) : n <= m
          /\ EndRound(Append(boundaries, cursor + OriginAt(sim, input, cursor, n)))
    BY <1>5 DEF CutExhaustive
  <2> DEFINE w == <<cursor, n>>
  <2>2. /\ n \in ShortestTried .. LongestTried /\ n \in Nat /\ cursor + n <= size
        /\ OriginAt(sim, input, cursor, n) # BeforeWindow
    BY CertificateWalkAssumption DEF LengthsAt, size
  <2>3. w[1] = cursor /\ w[2] = n
    OBVIOUS
  <2>4. CutAfter(w) = cursor + OriginAt(sim, input, cursor, n) /\ ~ Refused(w)
    BY <2>2, <2>3 DEF CutAfter, Refused
  <2>5. w \in LicensedFrom(floor)
    <3>1. cursor \in floor .. size
      BY <1>2, <2>2
    <3>2. QED
      BY <2>2, <2>3, <2>4, <3>1 DEF LicensedFrom
  <2> HIDE DEF w
  <2>6. ASSUME NEW v \in LicensedFrom(floor) \ {w} PROVE Precedes(w, v)
    <3>1. /\ v[1] \in Nat /\ v[2] \in Nat /\ v = <<v[1], v[2]>> /\ cursor <= v[1]
          /\ v[2] \in LengthsAt(sim, input, v[1])
      BY <1>4, <2>6
    <3>2. CASE v[1] = cursor
      <4>1. n <= v[2]
        BY <2>1, <3>1, <3>2
      <4>2. n # v[2]
        BY <2>6, <3>1, <3>2 DEF w
      <4>3. n < v[2]
        BY <2>2, <3>1, <4>1, <4>2
      <4>4. QED
        BY <2>3, <3>2, <4>3 DEF Precedes
    <3>3. CASE v[1] # cursor
      BY <1>2, <2>3, <3>1, <3>3 DEF Precedes
    <3>4. QED
      BY <3>2, <3>3
  <2>7. FirstOf(LicensedFrom(floor), w)
    BY <2>5, <2>6 DEF FirstOf
  <2>8. QED
    BY <1>2, <2>1, <2>4, <2>7, RoundCut
<1>6. CASE WalkExhaustive
  <2>1. /\ cursor' = cursor + 1 /\ LengthsAt(sim, input, cursor) = {} /\ planning' = planning
        /\ UNCHANGED <<sim, core, input, chunks, derivation, targets, index, boundaries, floor,
                       barren>>
    BY <1>6 DEF WalkExhaustive, given, simulator, deriving, plan
  <2>2. ASSUME NEW at \in floor .. cursor PROVE LengthsAt(sim, input, at)' = {}
    <3>1. at \in floor .. cursor - 1 \/ at = cursor
      BY <1>2
    <3>2. LengthsAt(sim, input, at) = {}
      BY <1>3, <2>1, <3>1
    <3>3. QED
      BY <2>1, <3>2, InputStays
  <2>3. cursor' - 1 = cursor /\ floor' <= cursor' /\ floor' = floor
    BY <1>2, <2>1
  <2>4. SearchInv'
    BY <1>1, <1>2, <2>1, <2>2, <2>3, InputStays DEF SearchInv
  <2>5. QED
    BY <1>1, <1>2, <2>1, <2>4, RoundGoesOn
<1>7. CASE NoneExhaustive
  <2>1. cursor + ShortestTried > size /\ EndRound(boundaries)
    BY <1>7 DEF NoneExhaustive
  <2>2. LicensedFrom(floor) = {}
    BY <1>2, <1>4, <2>1, CertificateWalkAssumption
  <2>3. QED
    BY <1>2, <2>1, <2>2, RoundRefused
<1>8. QED
  BY <1>5, <1>6, <1>7

----------------------------------------------------------------------------
(* The steps of the search at the core's occurrences.                      *)
LEMMA OccurrenceRead ==
  ASSUME size \in Nat, core # << >>, barren \in Nat, OccurrencesFrom(barren) = {},
         NEW from \in Nat, NextOccurrence(from, from), UNCHANGED <<sim, core, input, chunks>>
  PROVE  /\ barren' \in Nat /\ OccurrencesFrom(barren)' = {}
         /\ occurrence' # Nothing =>
              /\ occurrence' \in Nat /\ from <= occurrence'
              /\ cursor' = occurrence' + 1 /\ latest' = cursor'
         /\ \A at \in OccurrencesFrom(from) : occurrence' # Nothing /\ occurrence' <= at
<1>1. CASE OccurrencesFrom(from) = {}
  <2>1. occurrence' = Nothing /\ barren' = (IF from < barren THEN from ELSE barren)
    BY <1>1 DEF NextOccurrence
  <2>2. /\ barren' \in Nat
        /\ barren' = from \/ barren' = barren
    BY <2>1
  <2>3. OccurrencesFrom(barren') = {}
    BY <1>1, <2>2
  <2>4. OccurrencesFrom(barren)' = OccurrencesFrom(barren')
    BY DEF OccurrencesFrom, size
  <2>5. QED
    BY <1>1, <2>1, <2>2, <2>3, <2>4
<1>2. CASE OccurrencesFrom(from) # {}
  <2>1. PICK at \in OccurrencesFrom(from) :
          /\ \A other \in OccurrencesFrom(from) : at <= other
          /\ occurrence' = at /\ latest' = at + 1 /\ cursor' = at + 1 /\ barren' = barren
    BY <1>2 DEF NextOccurrence
  <2>2. at \in Nat /\ from <= at
    BY DEF OccurrencesFrom
  <2>3. occurrence' # Nothing
    BY <2>1, <2>2, WindowPlanAssumption
  <2>4. OccurrencesFrom(barren)' = {}
    BY <2>1 DEF OccurrencesFrom, size
  <2>5. QED
    BY <2>1, <2>2, <2>3, <2>4
<1>3. QED
  BY <1>1, <1>2

LEMMA StartAtCoreWalk == PlanInv /\ WalkInv /\ StartAtCore /\ WithWindows => WalkInv'
<1> SUFFICES ASSUME PlanInv, WalkInv, StartAtCore, WithWindows PROVE WalkInv'
  OBVIOUS
<1>1. /\ planning = "cut" /\ planning' = "core" /\ core # << >> /\ heap' = EmptyBag
      /\ last' = Nothing /\ NextOccurrence(floor, floor)
      /\ UNCHANGED <<sim, core, input, chunks, derivation, targets, index, boundaries, floor>>
  BY DEF StartAtCore, given, simulator, deriving
<1>2. InRound /\ SearchInv /\ floor \in Nat /\ size \in Nat
  BY <1>1, RoundStands, PlanSizes DEF InRound
<1>3. barren \in Nat /\ OccurrencesFrom(barren) = {}
  BY <1>1, <1>2 DEF SearchInv
<1>4. /\ barren' \in Nat /\ OccurrencesFrom(barren)' = {}
      /\ occurrence' # Nothing =>
           /\ occurrence' \in Nat /\ floor <= occurrence'
           /\ cursor' = occurrence' + 1 /\ latest' = cursor'
      /\ \A at \in OccurrencesFrom(floor) : occurrence' # Nothing /\ occurrence' <= at
  BY <1>1, <1>2, <1>3, OccurrenceRead
<1>5. DOMAIN heap' = {}
  BY <1>1 DEF EmptyBag, SetToBag
<1>6. OccurrencesFrom(floor)' = OccurrencesFrom(floor)
  BY <1>1 DEF OccurrencesFrom, size
<1>7. \A at \in OccurrencesFrom(floor)' : Awaited(at)'
  BY <1>4, <1>6 DEF Awaited
<1>8. SearchInv'
  BY <1>1, <1>4, <1>5, <1>7 DEF SearchInv
<1>9. QED
  BY <1>1, <1>2, <1>8, RoundGoesOn

LEMMA IngestWalk == PlanInv /\ DerivationInv /\ WalkInv /\ Ingest /\ WithWindows => WalkInv'
<1> SUFFICES ASSUME PlanInv, DerivationInv, WalkInv, Ingest, WithWindows PROVE WalkInv'
  OBVIOUS
<1>1. /\ planning = "core" /\ planning' = "core" /\ occurrence # Nothing
      /\ heap' = heap (+) SetToBag(Around(occurrence))
      /\ NextOccurrence(cursor, latest) /\ last' = last
      /\ UNCHANGED <<sim, core, input, chunks, derivation, targets, index, boundaries, floor>>
  BY DEF Ingest, given, simulator, deriving, plan
<1>2. InRound /\ SearchInv /\ floor \in Nat /\ size \in Nat /\ occurrence \in Nat
  BY <1>1, RoundStands, PlanSizes DEF InRound, PlanInv, Cursors
<1>3. /\ barren \in Nat /\ core # << >> /\ OccurrencesFrom(barren) = {}
      /\ cursor = occurrence + 1 /\ latest = cursor /\ floor <= occurrence
      /\ last # Nothing => Refused(last)
  BY <1>1, <1>2 DEF SearchInv
<1>4. /\ barren' \in Nat /\ OccurrencesFrom(barren)' = {}
      /\ occurrence' # Nothing =>
           /\ occurrence' \in Nat /\ cursor <= occurrence'
           /\ cursor' = occurrence' + 1 /\ latest' = cursor'
      /\ \A at \in OccurrencesFrom(cursor) : occurrence' # Nothing /\ occurrence' <= at
  BY <1>1, <1>2, <1>3, OccurrenceRead
<1>5. /\ DOMAIN heap' = DOMAIN heap \cup Around(occurrence)
      /\ \A w \in DOMAIN heap' :
           heap'[w] = (IF w \in DOMAIN heap THEN heap[w] ELSE 0)
                        + (IF w \in Around(occurrence) THEN 1 ELSE 0)
  BY <1>1 DEF SetToBag, (+)
<1>6. \A w \in DOMAIN heap : /\ w \in (floor .. size) \X (Len(core) + 1 .. LongestTried)
                             /\ w[1] + w[2] <= size /\ heap[w] \in Nat \ {0}
  BY <1>1, <1>2 DEF SearchInv
<1>7. ASSUME NEW w \in Around(occurrence)
      PROVE  /\ w \in (floor .. size) \X (Len(core) + 1 .. LongestTried)
             /\ w[1] + w[2] <= size
  <2>1. /\ w \in (floor .. occurrence) \X (Len(core) + 1 .. LongestTried)
        /\ w[1] + w[2] <= size
    BY DEF Around
  <2>2. Len(core) \in Nat \ {0}
    BY <1>2, <1>3 DEF DerivationInv, CoreProved
  <2>3. /\ w[1] \in floor .. occurrence /\ w[2] \in Len(core) + 1 .. LongestTried
        /\ w = <<w[1], w[2]>>
    BY <2>1
  <2>4. w[1] \in floor .. size
    BY <1>2, <2>1, <2>2, <2>3, CertificateWalkAssumption
  <2>5. QED
    BY <2>1, <2>3, <2>4
<1>8. \A w \in DOMAIN heap' : /\ w \in (floor .. size) \X (Len(core) + 1 .. LongestTried)
                              /\ w[1] + w[2] <= size /\ heap'[w] \in Nat \ {0}
  BY <1>5, <1>6, <1>7
<1>9. /\ OccurrencesFrom(floor)' = OccurrencesFrom(floor)
      /\ size' = size
      /\ \A at : Around(at)' = Around(at)
      /\ \A w : Refused(w)' <=> Refused(w)
  BY <1>1 DEF OccurrencesFrom, size, Around, Refused
<1>10. ASSUME NEW at \in OccurrencesFrom(floor), Tried(at) PROVE Tried(at)'
  BY <1>5, <1>9, <1>10 DEF Tried, BagToSet
<1>11. \A at \in OccurrencesFrom(floor)' : Awaited(at)' \/ Tried(at)'
  <2>1. SUFFICES ASSUME NEW at \in OccurrencesFrom(floor) PROVE Awaited(at)' \/ Tried(at)'
    BY <1>9
  <2>2. at \in Nat /\ at \in floor .. size - Len(core)
        /\ SubSeq(input, at + 1, at + Len(core)) = core
    BY <1>2, <2>1 DEF OccurrencesFrom
  <2>3. Awaited(at) \/ Tried(at)
    BY <1>1, <1>2 DEF SearchInv
  <2>4. CASE Tried(at)
    BY <1>10, <2>4
  <2>5. CASE Awaited(at) /\ occurrence = at
    <3>1. Tried(at)'
      BY <1>5, <1>9, <2>5 DEF Tried, BagToSet
    <3>2. QED
      BY <3>1
  <2>6. CASE Awaited(at) /\ occurrence # at
    <3>1. cursor <= at
      BY <1>2, <1>3, <2>2, <2>6 DEF Awaited
    <3>2. at \in OccurrencesFrom(cursor)
      BY <1>2, <1>3, <2>2, <3>1 DEF OccurrencesFrom
    <3>3. Awaited(at)'
      BY <1>4, <3>2 DEF Awaited
    <3>4. QED
      BY <3>3
  <2>7. QED
    BY <2>3, <2>4, <2>5, <2>6
<1>12. occurrence' # Nothing =>
         cursor' = occurrence' + 1 /\ latest' = cursor' /\ floor <= occurrence'
  BY <1>2, <1>3, <1>4
<1>13. last' # Nothing => Refused(last)'
  BY <1>1, <1>3, <1>9
<1>14. SearchInv'
  BY <1>1, <1>3, <1>4, <1>8, <1>9, <1>11, <1>12, <1>13 DEF SearchInv
<1>15. QED
  BY <1>1, <1>2, <1>14, RoundGoesOn

LEMMA NoneAtCoreWalk ==
  PlanInv /\ DerivationInv /\ WalkInv /\ NoneAtCore /\ WithWindows => WalkInv'
<1> SUFFICES ASSUME PlanInv, DerivationInv, WalkInv, NoneAtCore, WithWindows PROVE WalkInv'
  OBVIOUS
<1>1. planning = "core" /\ occurrence = Nothing /\ heap = EmptyBag /\ EndRound(boundaries)
  BY DEF NoneAtCore
<1>2. /\ InRound /\ planning # "unasked" /\ derivation = "done" /\ SearchInv
      /\ core # << >>
  BY <1>1, RoundStands DEF InRound, SearchInv
<1>3. BagToSet(heap) = {}
  BY <1>1 DEF BagToSet, EmptyBag, SetToBag
<1>4. ASSUME NEW w \in LicensedFrom(floor) PROVE FALSE
  <2>1. PICK at \in OccurrencesFrom(floor) : w \in Around(at)
    BY <1>2, LicensedIsAround
  <2>2. Tried(at)
    BY <1>1, <1>2 DEF SearchInv, Awaited
  <2>3. Refused(w)
    BY <1>3, <2>1, <2>2 DEF Tried
  <2>4. QED
    BY <2>3 DEF LicensedFrom
<1>5. QED
  BY <1>1, <1>2, <1>4, RoundRefused

LEMMA SkipWalk ==
  ASSUME PlanInv, WalkInv, WithWindows, NEW w \in BagToSet(heap), Skip(w)
  PROVE  WalkInv'
<1>1. /\ planning = "core" /\ planning' = "core"
      /\ w = last \/ Refused(w)
      /\ heap' = heap (-) SetToBag({w}) /\ last' = w
      /\ UNCHANGED <<sim, core, input, chunks, derivation, targets, index, boundaries, floor,
                     barren, cursor, latest, occurrence>>
  BY DEF Skip, Popped, Refused, given, simulator, deriving, plan
<1>2. InRound /\ SearchInv
  BY <1>1, RoundStands DEF InRound
<1>3. \A v \in DOMAIN heap : /\ v \in (floor .. size) \X (Len(core) + 1 .. LongestTried)
                             /\ v[1] + v[2] <= size /\ heap[v] \in Nat \ {0}
  BY <1>1, <1>2 DEF SearchInv
<1>4. /\ DOMAIN heap' \subseteq DOMAIN heap
      /\ \A v \in DOMAIN heap \ {w} : v \in DOMAIN heap' /\ heap'[v] = heap[v]
      /\ w \in DOMAIN heap' => heap'[w] \in Nat \ {0}
  BY <1>1, <1>3 DEF SetToBag, (-), BagToSet
<1>5. Refused(w)
  <2>1. w # Nothing
    <3>1. w \in (floor .. size) \X (Len(core) + 1 .. LongestTried)
      BY <1>3 DEF BagToSet
    <3>2. floor \in Nat /\ size \in Nat
      BY PlanSizes DEF PlanInv, Cursors
    <3>3. w \in Nat \X Nat
      BY <3>1, <3>2
    <3>4. QED
      BY <3>3, WindowPlanAssumption
  <2>2. QED
    BY <1>1, <1>2, <2>1 DEF SearchInv
<1>6. /\ OccurrencesFrom(floor)' = OccurrencesFrom(floor)
      /\ OccurrencesFrom(barren)' = OccurrencesFrom(barren)
      /\ size' = size
      /\ \A at : Around(at)' = Around(at)
      /\ \A v : Refused(v)' <=> Refused(v)
  BY <1>1 DEF OccurrencesFrom, size, Around, Refused
<1>7. ASSUME NEW at, Tried(at) PROVE Tried(at)'
  BY <1>4, <1>5, <1>6, <1>7 DEF Tried, BagToSet
<1>8. \A at \in OccurrencesFrom(floor)' : Awaited(at)' \/ Tried(at)'
  <2>1. \A at : Awaited(at)' <=> Awaited(at)
    BY <1>1 DEF Awaited
  <2>2. QED
    BY <1>1, <1>2, <1>6, <1>7, <2>1 DEF SearchInv
<1>9. \A v \in DOMAIN heap' : /\ v \in (floor .. size) \X (Len(core) + 1 .. LongestTried)
                              /\ v[1] + v[2] <= size /\ heap'[v] \in Nat \ {0}
  BY <1>3, <1>4
<1>10. SearchInv'
  BY <1>1, <1>2, <1>5, <1>6, <1>8, <1>9 DEF SearchInv
<1>11. QED
  BY <1>1, <1>2, <1>10, RoundGoesOn

LEMMA CutAtCoreWalk ==
  ASSUME PlanInv, DerivationInv, WalkInv, WithWindows, NEW w \in BagToSet(heap), CutAtCore(w)
  PROVE  WalkInv'
<1>1. /\ planning = "core" /\ Top(w) /\ ~ Refused(w)
      /\ occurrence # Nothing => ~ Contributes
      /\ EndRound(Append(boundaries, CutAfter(w)))
  BY DEF CutAtCore, Popped, Refused, CutAfter
<1>2. /\ InRound /\ planning # "unasked" /\ derivation = "done" /\ SearchInv
      /\ core # << >> /\ floor \in Nat /\ size \in Nat /\ occurrence \in Nat \cup {Nothing}
  BY <1>1, RoundStands, PlanSizes DEF InRound, SearchInv, PlanInv, Cursors
<1>3. Len(core) \in Nat \ {0}
  BY <1>2 DEF DerivationInv, CoreProved
<1>4. /\ w[1] \in floor .. size /\ w[2] \in Len(core) + 1 .. LongestTried
      /\ w = <<w[1], w[2]>> /\ w[1] + w[2] <= size
  BY <1>1, <1>2 DEF SearchInv, BagToSet
<1>5. w \in LicensedFrom(floor)
  <2>1. w[2] \in ShortestTried .. LongestTried
    BY <1>3, <1>4, WindowPlanAssumption, CertificateWalkAssumption
  <2>2. QED
    BY <1>1, <1>4, <2>1 DEF LicensedFrom
<1>6. ASSUME NEW v \in LicensedFrom(floor) \ {w} PROVE Precedes(w, v)
  <2>1. PICK at \in OccurrencesFrom(floor) : v \in Around(at)
    BY <1>2, <1>6, LicensedIsAround
  <2>2. ~ Refused(v)
    BY <1>6 DEF LicensedFrom
  <2>3. CASE Tried(at)
    <3>1. v \in BagToSet(heap) \ {w}
      BY <1>6, <2>1, <2>2, <2>3 DEF Tried
    <3>2. QED
      BY <1>1, <3>1 DEF Top
  <2>4. CASE Awaited(at)
    <3>1. occurrence \in Nat /\ occurrence <= at /\ ~ Contributes
      BY <1>1, <1>2, <2>4 DEF Awaited
    <3>2. ~ (occurrence <= w[1] + LongestTried - Len(core) - 1)
      BY <1>1, <3>1 DEF Contributes
    <3>3. /\ at \in Nat /\ at + Len(core) + 1 <= v[1] + v[2]
          /\ v[1] \in Nat /\ v[2] \in Nat /\ v[2] <= LongestTried
      <4>1. at \in Nat
        BY <1>2 DEF OccurrencesFrom
      <4>2. /\ v \in (floor .. at) \X (Len(core) + 1 .. LongestTried)
            /\ at + Len(core) + 1 <= v[1] + v[2]
        BY <2>1 DEF Around
      <4>3. QED
        BY <1>2, <1>3, <4>1, <4>2
    <3>4. w[1] < v[1]
      <4>1. PICK x, y, n, c : x = w[1] /\ y = v[1] /\ n = v[2] /\ c = Len(core)
        OBVIOUS
      <4>2. x \in Int /\ y \in Nat /\ n \in Nat /\ c \in Nat /\ LongestTried \in Nat
        BY <1>2, <1>3, <1>4, <3>3, <4>1, CertificateWalkAssumption
      <4>3. ~ (occurrence <= x + LongestTried - c - 1)
        BY <3>2, <4>1
      <4>4. at \in Nat /\ at + c + 1 <= y + n /\ n <= LongestTried
        BY <3>3, <4>1
      <4>5. x < y
        BY <3>1, <4>2, <4>3, <4>4
      <4>6. QED
        BY <4>1, <4>5
    <3>5. QED
      BY <3>4 DEF Precedes
  <2>5. QED
    BY <1>1, <1>2, <2>1, <2>3, <2>4 DEF SearchInv
<1>7. FirstOf(LicensedFrom(floor), w)
  BY <1>5, <1>6 DEF FirstOf
<1>8. QED
  BY <1>1, <1>2, <1>7, RoundCut

----------------------------------------------------------------------------
(* The walk's invariant stands: no search runs while the core is derived,  *)
(* or where bytes are certified.                                           *)
LEMMA InitWalk == Init => WalkInv
  BY DEF Init, NoPlan, WalkInv, WithWindows

LEMMA DeriveWalk == WalkInv /\ Derive => WalkInv'
<1> SUFFICES ASSUME WalkInv, Derive PROVE WalkInv'
  OBVIOUS
<1>1. UNCHANGED <<planning, index, barren>>
  BY DEF Derive, planVars, plan
<1>2. derivation # "done"
  BY DEF Derive, DeriveNext, Propose, NoneProved, Pop, Proved, Refuted, Step, Explored
<1>3. planning = "unasked"
  BY <1>2 DEF WalkInv
<1>4. QED
  BY <1>1, <1>3 DEF WalkInv, WithWindows

LEMMA BytesWalk ==
  ASSUME WalkInv, ~ WithWindows, planning # "unasked", planning' # "unasked",
         UNCHANGED <<sim, derivation>>
  PROVE  WalkInv'
  BY DEF WalkInv, WithWindows

LEMMA PlanWithBytesWalk == WalkInv /\ PlanWithBytes => WalkInv'
<1> SUFFICES ASSUME WalkInv, PlanWithBytes PROVE WalkInv'
  OBVIOUS
<1>1. /\ planning # "unasked" /\ ~ WithWindows /\ UNCHANGED <<sim, derivation>>
      /\ Plan!Next
  BY DEF PlanWithBytes, WithWindows, given, simulator, deriving
<1>2. planning' # "unasked"
  BY <1>1 DEF Plan!Next, Plan!WholeInput, Plan!Divide, Plan!Target, Plan!Walk, Plan!Cut,
              Plan!NoCut, Plan!Close
<1>3. QED
  BY <1>1, <1>2, BytesWalk

LEMMA PlanNextWalk == PlanInv /\ DerivationInv /\ WalkInv /\ PlanNext => WalkInv'
<1> SUFFICES ASSUME PlanInv, DerivationInv, WalkInv, PlanNext PROVE WalkInv'
  OBVIOUS
<1>1. CASE PlanWithBytes
  BY <1>1, PlanWithBytesWalk
<1>2. CASE WithWindows /\ ~ PlanWithBytes
  BY <1>2, DivideWalk, FloorWalk, CloseWalk, RefuseWalk, StartExhaustiveWalk, ExhaustiveWalk,
     StartAtCoreWalk, IngestWalk, NoneAtCoreWalk, SkipWalk, CutAtCoreWalk DEF PlanNext
<1>3. CASE ~ WithWindows /\ ~ PlanWithBytes
  <2>1. /\ planning # "unasked" /\ planning' # "unasked" /\ UNCHANGED <<sim, derivation>>
    BY <1>3 DEF PlanNext, DivideForWindows, NextFloor, Close, RefuseAtOnce, StartExhaustive,
                CutExhaustive, WalkExhaustive, NoneExhaustive, StartAtCore, Ingest, NoneAtCore,
                Skip, CutAtCore, Popped, EndRound, given, simulator, deriving, plan
  <2>2. QED
    BY <1>3, <2>1, BytesWalk
<1>4. QED
  BY <1>1, <1>2, <1>3

LEMMA NextWalk == PlanInv /\ DerivationInv /\ WalkInv /\ [Next]_vars => WalkInv'
<1> SUFFICES ASSUME PlanInv, DerivationInv, WalkInv, [Next]_vars PROVE WalkInv'
  OBVIOUS
<1>1. CASE UNCHANGED vars
  <2>1. UNCHANGED <<sim, core, input, chunks, derivation, planning, targets, index, boundaries,
                    cursor, latest, occurrence, heap, last, floor, barren>>
    BY <1>1 DEF vars, given, simulator, deriving, plan, search
  <2>2. CASE ~ WithWindows
    BY <2>1, <2>2 DEF WalkInv, WithWindows
  <2>3. CASE WithWindows
    <3>1. RoundInv /\ SearchInv
      BY <2>3 DEF WalkInv
    <3>2. RoundInv'
      <4>1. /\ CutsAreWalked(Len(boundaries) - 1, index - 1)
                 => CutsAreWalked(Len(boundaries) - 1, index - 1)'
            /\ CutsAreWalked(Len(boundaries) - 2, index - 1)
                 => CutsAreWalked(Len(boundaries) - 2, index - 1)'
        BY <2>1, CutsStay
      <4>2. /\ size' = size /\ usable' = usable /\ back' = back /\ (InRound' <=> InRound)
            /\ FloorOf(index, back)' = FloorOf(index, back)
            /\ \A k : Drawn(k)' <=> Drawn(k)
        BY <2>1 DEF size, usable, Plan!usable, Plan!size, back, InRound, FloorOf, Plan!MaxOf, Drawn
      <4>3. (Drawn(IF InRound THEN index ELSE index - 1))'
              <=> Drawn(IF InRound THEN index ELSE index - 1)
        BY <2>1, <4>2 DEF Drawn
      <4>4. QED
        BY <2>1, <3>1, <4>1, <4>2, <4>3 DEF RoundInv
    <3>3. SearchInv'
      BY <2>1, <3>1 DEF SearchInv, OccurrencesFrom, LengthsAt, size, Refused, Awaited, Tried,
                        Around
    <3>4. QED
      BY <2>1, <2>3, <3>2, <3>3 DEF WalkInv, WithWindows
  <2>4. QED
    BY <2>2, <2>3
<1>2. QED
  BY <1>1, DeriveWalk, StartWalk, PlanNextWalk DEF Next

(* Whatever the automaton, the input and the number of chunks: the plan    *)
(* made around the core's occurrences is the one of the exhaustive walk.   *)
(* Every cut is the cut of the first window of its round that licenses     *)
(* one, in the order of positions and then of lengths, and the rounds      *)
(* without a cut have none.                                                *)
THEOREM PlanAsWalked == Spec => []PlanIsExhaustive
<1>1. PlanInv /\ WalkInv => PlanIsExhaustive
  <2> SUFFICES ASSUME PlanInv, WalkInv, planning = "planned", sim.split_points = {}
               PROVE  Exhaustive
    BY DEF PlanIsExhaustive
  <2> DEFINE cuts == Len(boundaries) - 2
  <2>1. /\ index \in Nat \ {0} /\ index >= usable
        /\ CutsAreWalked(cuts, index - 1)
    BY DEF WalkInv, WithWindows, RoundInv
  <2>2. \A i : Licensed(i, boundaries[i]) = LicensedFrom(FloorOf(i, boundaries[i]))
    BY LicensedIsFrom
  <2>3. ASSUME NEW i \in 1 .. cuts
        PROVE  \E w \in Licensed(i, boundaries[i]) :
                 /\ \A v \in Licensed(i, boundaries[i]) \ {w} : Precedes(w, v)
                 /\ boundaries[i + 1] = w[1] + OriginAt(sim, input, w[1], w[2])
    BY <2>1, <2>2, <2>3 DEF CutsAreWalked, FirstOf, CutAfter
  <2>4. cuts < usable - 1 => Licensed(cuts + 1, boundaries[cuts + 1]) = {}
    <3>1. SUFFICES ASSUME cuts < usable - 1
                   PROVE  Licensed(cuts + 1, boundaries[cuts + 1]) = {}
      OBVIOUS
    <3>2. cuts < index - 1
      BY <2>1, <3>1, PlanSizes DEF CutsAreWalked
    <3>3. QED
      BY <2>1, <3>2, LicensedIsFrom DEF CutsAreWalked
  <2>5. QED
    BY <2>3, <2>4 DEF Exhaustive
<1>2. QED
  BY <1>1, PlanInvInvariant, InitWalk, InitDerivation, NextWalk, NextDerivation, PTL DEF Spec

(* The searches may begin with windows of two bytes: where no byte is      *)
(* certified no window of one byte is (window_planner.hpp 90-95), so that  *)
(* the walk over the lengths from one would cut where this one does.       *)
OneByteRefused ==
  planning # "unasked" /\ sim.split_points = {} =>
    \A b \in Symbols : SplitOrigin(sim, <<b>>) = BeforeWindow

THEOREM ShortestIsInert == Spec => []OneByteRefused
<1>1. PlanInv => OneByteRefused
  <2> SUFFICES ASSUME PlanInv, planning # "unasked", sim.split_points = {}, NEW b \in Symbols
               PROVE  SplitOrigin(sim, <<b>>) = BeforeWindow
    BY DEF OneByteRefused
  <2>1. IsSimulator(sim) /\ SplitPoints(sim, {}) = {}
    BY DEF PlanInv, Compiled
  <2> DEFINE window == <<b>>
  <2>2. window \in Seq(Symbols) /\ Len(window) = 1 /\ window[1] = b
    OBVIOUS
  <2> HIDE DEF window
  <2>3. CloudAt(sim, window)[1] = Advance(sim, InitialCloud(sim), b, 0)
    BY <2>2, CloudAtSteps
  <2>4. Verdict(Advance(sim, InitialCloud(sim), b, 0)) = BeforeWindow
    BY <2>1, SingleByte
  <2>5. SplitOrigin(sim, window) = BeforeWindow
    BY <2>2, <2>3, <2>4, SplitOriginIsVerdict
  <2>6. QED
    BY <2>5 DEF window
<1>2. QED
  BY <1>1, PlanInvInvariant, PTL
=============================================================================
