----------------------------- MODULE ChunkPlan -----------------------------
(***************************************************************************)
(* Lexer::chunk_boundaries(): one cut at the first certified byte at or    *)
(* after each equal-division target, and past the cut before it.           *)
(***************************************************************************)
EXTENDS Integers, Sequences

CONSTANTS Symbols,
          Inputs,       \* the inputs planned for
          MaxChunks,    \* the most chunks a caller asks for
          SizeMax       \* std::numeric_limits<std::size_t>::max()

ASSUME SizeAssumption == SizeMax \in Nat \ {0}

SizeT == 0 .. SizeMax

Plus(x, y) == (x + y) % (SizeMax + 1)

ASSUME PlanAssumption ==
  /\ Inputs \subseteq Seq(Symbols)
  /\ \A w \in Inputs : Len(w) \in SizeT
  /\ MaxChunks \in SizeT

(* Lexer::Division_targets: the offsets length * index / parts, one after  *)
(* the other, without a multiplication.                                    *)
DivisionTargets(length, parts) ==
  [ step      |-> IF parts = 0 THEN 0 ELSE length \div parts,
    remainder |-> IF parts = 0 THEN 0 ELSE length % parts,
    parts     |-> parts,
    target    |-> 0,
    carry     |-> 0 ]

(* A carry that fills a divisor only once it exceeds it.                   *)
NextTargetLateCarry(d) ==
  LET target == Plus(d.target, d.step)
      carry  == Plus(d.carry, d.remainder)
  IN IF carry > d.parts
     THEN [d EXCEPT !.target = Plus(target, 1), !.carry = carry - d.parts]
     ELSE [d EXCEPT !.target = target, !.carry = carry]

(* next(): the new target is the walk's own state, and what it returns.    *)
NextTarget(d) ==
  LET target == Plus(d.target, d.step)
      carry  == Plus(d.carry, d.remainder)
      full   == carry >= d.parts
  IN [d EXCEPT !.target = IF full THEN Plus(target, 1) ELSE target,
               !.carry  = IF full THEN carry - d.parts ELSE carry]

----------------------------------------------------------------------------
VARIABLES
  split_points,     \* the symbols is_split_point() certifies
  input,
  chunks,           \* the number of chunks asked for
  planning,         \* where the planner is
  targets,          \* the Division_targets walk
  index,            \* the loop's index
  cursor,           \* the loop's offset
  boundaries

given == <<split_points, input, chunks>>
planner == <<planning, targets, index, cursor, boundaries>>
planVars == <<given, planner>>

size == Len(input)

(* A chunk needs at least one byte.                                        *)
usable == IF chunks < size THEN chunks ELSE size

MaxOf(x, y) == IF x < y THEN y ELSE x

back == boundaries[Len(boundaries)]

PlannerInit ==
  /\ planning = "start"
  /\ targets = DivisionTargets(size, usable)
  /\ index = 1
  /\ cursor = 0
  /\ boundaries = <<0>>

Init ==
  /\ split_points \in SUBSET Symbols
  /\ input \in Inputs
  /\ chunks \in 0 .. MaxChunks
  /\ PlannerInit

(* No certified symbol: the whole input is one chunk, planned unscanned.   *)
WholeInput ==
  /\ planning = "start"
  /\ split_points = {}
  /\ boundaries' = <<0, size>>
  /\ planning' = "planned"
  /\ UNCHANGED <<given, targets, index, cursor>>

Divide ==
  /\ planning = "start"
  /\ split_points # {}
  /\ planning' = "target"
  /\ UNCHANGED <<given, targets, index, cursor, boundaries>>

(* Adjacent certified bytes not told apart: the search starts again at the *)
(* cut before.                                                             *)
TargetFromBack ==
  /\ planning = "target"
  /\ index < usable
  /\ targets' = NextTarget(targets)
  /\ cursor' = MaxOf(targets'.target, back)
  /\ planning' = "walk"
  /\ UNCHANGED <<given, index, boundaries>>

Target ==
  /\ planning = "target"
  /\ index < usable
  /\ targets' = NextTarget(targets)
  /\ cursor' = MaxOf(targets'.target, Plus(back, 1))
  /\ planning' = "walk"
  /\ UNCHANGED <<given, index, boundaries>>

Certified(at) == input[at + 1] \in split_points

(* A walk that steps over a byte.                                          *)
WalkByTwo ==
  /\ planning = "walk"
  /\ cursor < size
  /\ ~ Certified(cursor)
  /\ cursor' = Plus(cursor, 2)
  /\ UNCHANGED <<given, planning, targets, index, boundaries>>

Walk ==
  /\ planning = "walk"
  /\ cursor < size
  /\ ~ Certified(cursor)
  /\ cursor' = Plus(cursor, 1)
  /\ UNCHANGED <<given, planning, targets, index, boundaries>>

Cut ==
  /\ planning = "walk"
  /\ cursor < size
  /\ Certified(cursor)
  /\ boundaries' = Append(boundaries, cursor)
  /\ index' = index + 1
  /\ planning' = "target"
  /\ UNCHANGED <<given, targets, cursor>>

NoCut ==
  /\ planning = "walk"
  /\ cursor >= size
  /\ index' = index + 1
  /\ planning' = "target"
  /\ UNCHANGED <<given, targets, cursor, boundaries>>

Close ==
  /\ planning = "target"
  /\ index >= usable
  /\ boundaries' = Append(boundaries, size)
  /\ planning' = "planned"
  /\ UNCHANGED <<given, targets, index, cursor>>

Next == WholeInput \/ Divide \/ Target \/ Walk \/ Cut \/ NoCut \/ Close

Spec == Init /\ [][Next]_planVars

----------------------------------------------------------------------------
TypeOK ==
  /\ split_points \in SUBSET Symbols
  /\ input \in Inputs
  /\ chunks \in 0 .. MaxChunks
  /\ planning \in {"start", "target", "walk", "planned"}
  /\ targets \in [step      : {DivisionTargets(size, usable).step},
                  remainder : {DivisionTargets(size, usable).remainder},
                  parts     : {usable},
                  target    : 0 .. size,
                  carry     : 0 .. MaxOf(1, usable) - 1]
  /\ index \in 1 .. MaxOf(1, usable)
  /\ planning = "walk" => index < usable
  /\ cursor \in 0 .. size
  /\ boundaries \in Seq(0 .. size) /\ boundaries # << >>

(* The targets drawn so far: next() runs once per round of the loop.       *)
drawn == IF planning = "walk" THEN index ELSE index - 1

(* The accumulated target and carry are the quotient and the remainder of  *)
(* size * index by the parts, a product the code never forms: no rounding  *)
(* drift and no wrap-around, however the size and the number of parts fall *)
(* (lexer.hpp 844-850).                                                    *)
TargetsExact ==
  usable > 0 => /\ targets.target = (size * drawn) \div usable
                /\ targets.carry = (size * drawn) % usable

(* The boundaries rise strictly from 0 to the size, so no chunk is empty   *)
(* or scanned twice, and there are never more chunks than were asked for.  *)
BoundariesPartition ==
  /\ boundaries[1] = 0
  /\ size > 0 => \A i \in 1 .. Len(boundaries) - 1 :
                   boundaries[i] < boundaries[i + 1]
  /\ IF planning = "planned"
     THEN /\ Len(boundaries) \in 2 .. MaxOf(1, chunks) + 1
          /\ back = size
     ELSE /\ Len(boundaries) <= index
          /\ size > 0 => back < size
          /\ planning = "walk" => back < cursor

(* Every interior boundary is a certified byte.                            *)
InteriorCertified ==
  \A i \in 2 .. Len(boundaries) :
    boundaries[i] < size => Certified(boundaries[i])

(* The candidates of the i-th cut: the certified bytes at or after the     *)
(* i-th target, as a product and a quotient, and past the previous cut.    *)
Candidates(i, previous) ==
  { at \in MaxOf((size * i) \div usable, previous + 1) .. size - 1 : Certified(at) }

(* The finished plan is the greedy one: every cut the first candidate of   *)
(* its round, and no candidate left when there are fewer cuts than rounds. *)
PlanIsGreedy ==
  planning = "planned" /\ split_points # {} =>
    LET cuts == Len(boundaries) - 2
    IN /\ \A i \in 1 .. cuts :
            /\ boundaries[i + 1] \in Candidates(i, boundaries[i])
            /\ \A at \in Candidates(i, boundaries[i]) : boundaries[i + 1] <= at
       /\ cuts < usable - 1 => Candidates(cuts + 1, boundaries[cuts + 1]) = {}
=============================================================================
