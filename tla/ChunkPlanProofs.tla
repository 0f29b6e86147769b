-------------------------- MODULE ChunkPlanProofs --------------------------
(***************************************************************************)
(* What the planner promises, for inputs of every length, every number of  *)
(* chunks and every width of std::size_t: the targets are exact, the       *)
(* boundaries partition the input, every cut is certified, and the plan is *)
(* the greedy one.                                                         *)
(***************************************************************************)
EXTENDS ChunkPlan, TLAPS

(* Products of sums, as the provers do not multiply out by themselves.     *)
LEMMA Distributes ==
  \A x, y, z \in Int : /\ (x + y) * z = x * z + y * z
                       /\ z * (x + y) = z * x + z * y
  BY SMT

LEMMA ProductBound ==
  ASSUME NEW x \in Int, NEW y \in Int, NEW z \in Int, z > 0, x * z <= y * z
  PROVE  x <= y
  BY SMT

LEMMA DivMod ==
  ASSUME NEW x \in Nat, NEW n \in Nat \ {0}
  PROVE  /\ x \div n \in Nat
         /\ x % n \in 0 .. n - 1
         /\ (x \div n) * n + (x % n) = x
  BY SMT

LEMMA QuotientUnique ==
  ASSUME NEW x \in Nat, NEW n \in Nat \ {0}, NEW q \in Nat, NEW r \in 0 .. n - 1,
         q * n + r = x
  PROVE  q = x \div n /\ r = x % n
<1>1. /\ x \div n \in Nat /\ x % n \in 0 .. n - 1
      /\ (x \div n) * n + (x % n) = x
  BY DivMod
<1>2. (q - x \div n) * n = (x % n) - r
  <2>1. (q - x \div n) * n = q * n - (x \div n) * n
    BY <1>1, SMT
  <2>2. QED
    BY <1>1, <2>1
<1>3. \A d \in Int : d * n < n /\ d * n > -n => d = 0
  BY SMT
<1>4. q - x \div n = 0
  <2>1. (q - x \div n) * n < n /\ (q - x \div n) * n > -n
    BY <1>1, <1>2
  <2>2. QED
    BY <1>1, <1>3, <2>1
<1>5. QED
  BY <1>1, <1>2, <1>4

(* One round of Division_targets over the integers: the sum of target and  *)
(* quotient stays within the size, and so does the carry before it is      *)
(* reduced.                                                                *)
LEMMA DivisionStep ==
  ASSUME NEW s \in Nat, NEW parts \in 1 .. s, NEW k \in 0 .. parts - 1,
         NEW q \in Nat, NEW r \in 0 .. parts - 1, q * parts + r = s,
         NEW t \in Nat, NEW c \in 0 .. parts - 1, t * parts + c = s * k
  PROVE  /\ t + q <= s
         /\ c + r <= s
         /\ (t + q) * parts + (c + r) = s * (k + 1)
         /\ c + r >= parts =>
              /\ t + q + 1 <= s
              /\ (t + q + 1) * parts + (c + r - parts) = s * (k + 1)
<1>1. (t + q) * parts + (c + r) = s * (k + 1)
  <2>1. (t + q) * parts = t * parts + q * parts
    BY Distributes
  <2>2. s * (k + 1) = s * k + s * 1
    BY Distributes
  <2>3. QED
    BY <2>1, <2>2
<1>2. s * (k + 1) <= s * parts
  <2>1. s * (k + 1) + s * (parts - (k + 1)) = s * parts
    BY Distributes
  <2>2. s * (parts - (k + 1)) >= 0
    BY SMT
  <2>3. QED
    BY <2>1, <2>2
<1>3. t + q <= s
  <2>1. (t + q) * parts <= s * parts
    BY <1>1, <1>2
  <2>2. QED
    BY <2>1, ProductBound
<1>4. c + r <= s
  <2>1. q # 0
    BY SMT
  <2>2. q * parts = (q - 1) * parts + 1 * parts
    BY Distributes
  <2>3. (q - 1) * parts >= 0
    BY <2>1, SMT
  <2>4. QED
    BY <2>2, <2>3
<1>5. ASSUME c + r >= parts
      PROVE  /\ t + q + 1 <= s
             /\ (t + q + 1) * parts + (c + r - parts) = s * (k + 1)
  <2>1. (t + q + 1) * parts = (t + q) * parts + 1 * parts
    BY Distributes
  <2>2. (t + q + 1) * parts + (c + r - parts) = s * (k + 1)
    BY <2>1, <1>1
  <2>3. (t + q + 1) * parts <= s * parts
    BY <2>2, <1>2, <1>5
  <2>4. t + q + 1 <= s
    BY <2>3, ProductBound
  <2>5. QED
    BY <2>2, <2>4
<1>6. QED
  BY <1>1, <1>3, <1>4, <1>5

LEMMA PlusInRange ==
  ASSUME NEW x \in Nat, NEW y \in Nat, NEW s \in SizeT, x + y <= s
  PROVE  Plus(x, y) = x + y
  BY SizeAssumption DEF Plus, SizeT

(* next(), field by field, from the two sums it forms.                     *)
LEMMA NextTargetFields ==
  ASSUME NEW d, NEW q, NEW r, NEW parts, NEW t, NEW c, NEW sum, NEW carry,
         d = [step |-> q, remainder |-> r, parts |-> parts,
              target |-> t, carry |-> c],
         Plus(t, q) = sum, Plus(c, r) = carry
  PROVE  NextTarget(d) =
           [step |-> q, remainder |-> r, parts |-> parts,
            target |-> IF carry >= parts THEN Plus(sum, 1) ELSE sum,
            carry |-> IF carry >= parts THEN carry - parts ELSE carry]
<1>1. /\ d.step = q /\ d.remainder = r /\ d.parts = parts
      /\ d.target = t /\ d.carry = c
  OBVIOUS
<1>2. NextTarget(d) =
        [d EXCEPT !.target = IF carry >= parts THEN Plus(sum, 1) ELSE sum,
                  !.carry  = IF carry >= parts THEN carry - parts ELSE carry]
  BY <1>1, Zenon DEF NextTarget
<1>3. QED
  BY <1>2

(* next() keeps the walk exact and its state within the size.              *)
DrawnAs(d, s, parts, k, q, r, t, c) ==
  /\ d = [step |-> q, remainder |-> r, parts |-> parts, target |-> t, carry |-> c]
  /\ q * parts + r = s
  /\ t * parts + c = s * k

LEMMA NextTargetExact ==
  ASSUME NEW s \in SizeT, NEW parts \in 1 .. s, NEW k \in 0 .. parts - 1,
         NEW q \in Nat, NEW r \in 0 .. parts - 1, NEW t \in Nat, NEW c \in 0 .. parts - 1,
         NEW d, DrawnAs(d, s, parts, k, q, r, t, c)
  PROVE  \E u \in 0 .. s, v \in 0 .. parts - 1 :
           /\ NextTarget(d) = [step |-> q, remainder |-> r, parts |-> parts,
                               target |-> u, carry |-> v]
           /\ u * parts + v = s * (k + 1)
<1>0. /\ d = [step |-> q, remainder |-> r, parts |-> parts, target |-> t, carry |-> c]
      /\ q * parts + r = s
      /\ t * parts + c = s * k
  BY DEF DrawnAs
<1>1. s \in Nat /\ parts \in Nat \ {0}
  BY DEF SizeT
<1>2. /\ t + q <= s
      /\ c + r <= s
      /\ (t + q) * parts + (c + r) = s * (k + 1)
      /\ c + r >= parts =>
           /\ t + q + 1 <= s
           /\ (t + q + 1) * parts + (c + r - parts) = s * (k + 1)
  BY <1>0, <1>1, DivisionStep
<1>3. Plus(t, q) = t + q /\ Plus(c, r) = c + r
  BY <1>1, <1>2, PlusInRange
<1>4. PICK sum, carry : sum = t + q /\ carry = c + r
  OBVIOUS
<1>5. NextTarget(d) =
        [step |-> q, remainder |-> r, parts |-> parts,
         target |-> IF carry >= parts THEN Plus(sum, 1) ELSE sum,
         carry |-> IF carry >= parts THEN carry - parts ELSE carry]
  BY <1>0, <1>3, <1>4, NextTargetFields
<1>6. CASE carry >= parts
  <2>1. sum + 1 \in 0 .. s /\ Plus(sum, 1) = sum + 1
    BY <1>1, <1>2, <1>4, <1>6, PlusInRange
  <2>2. NextTarget(d) = [step |-> q, remainder |-> r, parts |-> parts,
                         target |-> sum + 1, carry |-> carry - parts]
    BY <1>5, <1>6, <2>1, Zenon
  <2>3. carry - parts \in 0 .. parts - 1
    BY <1>1, <1>4, <1>6
  <2>4. (sum + 1) * parts + (carry - parts) = s * (k + 1)
    BY <1>2, <1>4, <1>6
  <2>5. QED
    BY <2>1, <2>2, <2>3, <2>4
<1>7. CASE ~ (carry >= parts)
  <2>1. NextTarget(d) = [step |-> q, remainder |-> r, parts |-> parts,
                         target |-> sum, carry |-> carry]
    BY <1>5, <1>7, Zenon
  <2>2. carry \in 0 .. parts - 1 /\ sum \in 0 .. s
    BY <1>1, <1>2, <1>4, <1>7
  <2>3. sum * parts + carry = s * (k + 1)
    BY <1>2, <1>4
  <2>4. QED
    BY <2>1, <2>2, <2>3
<1>8. QED
  BY <1>6, <1>7

(* The target drawn last is the k-th of so many, for that size.            *)
DrawnFor(division, length, parts, k) ==
  \E q \in Nat, r \in 0 .. parts - 1, t \in Nat, c \in 0 .. parts - 1 :
    DrawnAs(division, length, parts, k, q, r, t, c)

(* The division: its first target, and each next one.                      *)
LEMMA FirstDrawn ==
  ASSUME NEW length \in Nat, NEW parts \in 1 .. length
  PROVE  DrawnFor(DivisionTargets(length, parts), length, parts, 0)
<1>1. parts \in Nat \ {0}
  OBVIOUS
<1>2. /\ length \div parts \in Nat /\ length % parts \in 0 .. parts - 1
      /\ (length \div parts) * parts + (length % parts) = length
  BY <1>1, DivMod
<1> DEFINE q == length \div parts
           r == length % parts
<1>3. DivisionTargets(length, parts)
        = [step |-> q, remainder |-> r, parts |-> parts, target |-> 0, carry |-> 0]
  BY <1>1 DEF DivisionTargets
<1>4. q \in Nat /\ r \in 0 .. parts - 1 /\ q * parts + r = length
  BY <1>2
<1> HIDE DEF q, r
<1>5. 0 * parts + 0 = length * 0 /\ 0 \in 0 .. parts - 1 /\ 0 \in Nat
  BY <1>1
<1>6. DrawnAs(DivisionTargets(length, parts), length, parts, 0, q, r, 0, 0)
  BY <1>3, <1>4, <1>5 DEF DrawnAs
<1>7. QED
  BY <1>4, <1>5, <1>6 DEF DrawnFor

LEMMA NextDrawn ==
  ASSUME NEW length \in SizeT, NEW parts \in 1 .. length, NEW k \in 0 .. parts - 1,
         NEW d, DrawnFor(d, length, parts, k)
  PROVE  /\ DrawnFor(NextTarget(d), length, parts, k + 1)
         /\ NextTarget(d).target = (length * (k + 1)) \div parts
<1>1. PICK q \in Nat, r \in 0 .. parts - 1, t \in Nat, c \in 0 .. parts - 1 :
        DrawnAs(d, length, parts, k, q, r, t, c)
  BY DEF DrawnFor
<1>2. PICK u \in 0 .. length, v \in 0 .. parts - 1 :
        /\ NextTarget(d) = [step |-> q, remainder |-> r, parts |-> parts,
                            target |-> u, carry |-> v]
        /\ u * parts + v = length * (k + 1)
  BY <1>1, NextTargetExact
<1>3. u \in Nat /\ parts \in Nat \ {0}
  BY DEF SizeT
<1> DEFINE x == length * (k + 1)
<1>4. x = u * parts + v /\ x \in Nat
  BY <1>2, <1>3
<1> HIDE DEF x
<1>5. u = x \div parts
  BY <1>3, <1>4, QuotientUnique
<1>6. DrawnFor(NextTarget(d), length, parts, k + 1)
  <2>1. DrawnAs(NextTarget(d), length, parts, k + 1, q, r, u, v)
    BY <1>1, <1>2 DEF DrawnAs
  <2>2. QED
    BY <1>3, <2>1 DEF DrawnFor
<1>7. NextTarget(d).target = u
  BY <1>2
<1>8. QED
  BY <1>5, <1>6, <1>7 DEF x

----------------------------------------------------------------------------
(* The planner's invariants are inductive only together: the cut past the  *)
(* one before needs the walk's start, which needs the exact target.        *)
(* The quotient and the remainder, multiplied out.                         *)
DivisionIdentity == targets.target * usable + targets.carry = size * drawn

IInv == TypeOK /\ DivisionIdentity /\ BoundariesPartition /\ InteriorCertified

LEMMA Sizes ==
  ASSUME input \in Inputs, chunks \in 0 .. MaxChunks
  PROVE  /\ size \in SizeT /\ size \in Nat
         /\ usable \in 0 .. size /\ usable <= chunks
         /\ input \in Seq(Symbols)
  BY PlanAssumption, SizeAssumption DEF size, usable, SizeT

LEMMA LastInRange ==
  ASSUME NEW S, NEW s \in Seq(S), s # << >>
  PROVE  s[Len(s)] \in S
  OBVIOUS

LEMMA BackInRange ==
  ASSUME TypeOK
  PROVE  back \in 0 .. size
<1>1. boundaries \in Seq(0 .. size) /\ boundaries # << >>
  BY DEF TypeOK
<1>2. QED
  BY <1>1, LastInRange DEF back

LEMMA AppendFacts ==
  ASSUME NEW S, NEW s \in Seq(S), NEW e \in S
  PROVE  /\ Append(s, e) \in Seq(S) /\ Append(s, e) # << >>
         /\ Len(Append(s, e)) = Len(s) + 1
         /\ \A i \in 1 .. Len(s) : Append(s, e)[i] = s[i]
         /\ Append(s, e)[Len(s) + 1] = e
  OBVIOUS

LEMMA InitIInv == Init => IInv
<1> SUFFICES ASSUME Init PROVE IInv
  OBVIOUS
<1> USE DEF Init, PlannerInit
<1>1. /\ size \in Nat /\ usable \in 0 .. size /\ planning = "start" /\ index = 1
  BY Sizes
<1>2. TypeOK
  BY <1>1, Zenon, SMT DEF TypeOK, DivisionTargets, MaxOf
<1>3. DivisionIdentity
  BY <1>1 DEF DivisionIdentity, DivisionTargets, drawn
<1>4. BoundariesPartition
  BY <1>1 DEF BoundariesPartition, back
<1>5. InteriorCertified
  BY DEF InteriorCertified
<1>6. QED
  BY <1>2, <1>3, <1>4, <1>5 DEF IInv

LEMMA NextIInv == IInv /\ [Next]_planVars => IInv'
<1> SUFFICES ASSUME IInv, [Next]_planVars PROVE IInv'
  OBVIOUS
<1> USE DEF IInv
<1>0. /\ size \in SizeT /\ size \in Nat
      /\ usable \in 0 .. size /\ usable <= chunks
      /\ input \in Seq(Symbols)
  BY Sizes DEF TypeOK
<1>given. ASSUME UNCHANGED given
          PROVE  /\ size' = size /\ usable' = usable
                 /\ \A at : Certified(at)' <=> Certified(at)
  BY <1>given DEF given, size, usable, Certified
<1>1. CASE WholeInput
  <2>1. /\ UNCHANGED <<given, targets, index, cursor>>
        /\ planning = "start" /\ planning' = "planned"
        /\ boundaries' = <<0, size>>
    BY <1>1 DEF WholeInput
  <2>2. size' = size /\ usable' = usable
    BY <2>1, <1>given
  <2>3. /\ boundaries' \in Seq(0 .. size) /\ Len(boundaries') = 2
        /\ boundaries'[1] = 0 /\ boundaries'[2] = size
    BY <1>0, <2>1
  <2>4. TypeOK'
    BY <2>1, <2>2, <2>3 DEF TypeOK, given
  <2>5. DivisionIdentity'
    BY <2>1, <2>2 DEF DivisionIdentity, drawn
  <2>6. BoundariesPartition'
    BY <1>0, <2>1, <2>2, <2>3 DEF BoundariesPartition, back, MaxOf, TypeOK, given
  <2>7. InteriorCertified'
    BY <2>1, <2>2, <2>3 DEF InteriorCertified
  <2>8. QED
    BY <2>4, <2>5, <2>6, <2>7
<1>2. CASE Divide
  <2>1. /\ UNCHANGED <<given, targets, index, cursor, boundaries>>
        /\ planning = "start" /\ planning' = "target"
    BY <1>2 DEF Divide
  <2>2. size' = size /\ usable' = usable
    BY <2>1, <1>given
  <2>3. TypeOK'
    BY <2>1, <2>2 DEF TypeOK, given
  <2>4. DivisionIdentity'
    BY <2>1, <2>2 DEF DivisionIdentity, drawn
  <2>5. BoundariesPartition'
    BY <2>1, <2>2 DEF BoundariesPartition, back
  <2>6. InteriorCertified'
    BY <2>1, <2>2, <1>given DEF InteriorCertified
  <2>7. QED
    BY <2>3, <2>4, <2>5, <2>6
<1>3. CASE Target
  <2>1. /\ UNCHANGED <<given, index, boundaries>>
        /\ planning = "target" /\ planning' = "walk"
        /\ index < usable
        /\ targets' = NextTarget(targets)
        /\ cursor' = MaxOf(targets'.target, Plus(back, 1))
    BY <1>3 DEF Target
  <2>2. size' = size /\ usable' = usable
    BY <2>1, <1>given
  <2>3. /\ usable \in 1 .. size /\ index \in 1 .. usable - 1
        /\ back \in 0 .. size - 1
    BY <1>0, <2>1 DEF TypeOK, MaxOf, BoundariesPartition, back
  <2>4. \E q \in Nat, r \in 0 .. usable - 1 :
          /\ DivisionTargets(size, usable).step = q
          /\ DivisionTargets(size, usable).remainder = r
          /\ q * usable + r = size
    <3>1. /\ DivisionTargets(size, usable).step = size \div usable
          /\ DivisionTargets(size, usable).remainder = size % usable
      BY <2>3 DEF DivisionTargets
    <3>2. /\ size \div usable \in Nat /\ size % usable \in 0 .. usable - 1
          /\ (size \div usable) * usable + (size % usable) = size
      BY <1>0, <2>3, DivMod
    <3>3. QED
      BY <3>1, <3>2
  <2>5. PICK q \in Nat, r \in 0 .. usable - 1 :
          /\ DivisionTargets(size, usable).step = q
          /\ DivisionTargets(size, usable).remainder = r
          /\ q * usable + r = size
    BY <2>4
  <2>6. PICK t \in Nat, c \in 0 .. usable - 1 :
          /\ targets = [step |-> q, remainder |-> r, parts |-> usable,
                        target |-> t, carry |-> c]
          /\ t * usable + c = size * (index - 1)
    BY <2>1, <2>3, <2>5 DEF TypeOK, MaxOf, DivisionIdentity, drawn
  <2>k. PICK k \in 0 .. usable - 1 : k = index - 1
    BY <2>3
  <2>7. PICK u \in 0 .. size, v \in 0 .. usable - 1 :
          /\ targets' = [step |-> q, remainder |-> r, parts |-> usable,
                         target |-> u, carry |-> v]
          /\ u * usable + v = size * (k + 1)
    <3>1. t * usable + c = size * k
      BY <2>6, <2>k
    <3>2. size \in SizeT /\ usable \in 1 .. size /\ q * usable + r = size
      BY <1>0, <2>3, <2>5
    <3>3. targets = [step |-> q, remainder |-> r, parts |-> usable,
                     target |-> t, carry |-> c]
      BY <2>6
    <3>4. \E u \in 0 .. size, v \in 0 .. usable - 1 :
            /\ NextTarget(targets) = [step |-> q, remainder |-> r, parts |-> usable,
                                      target |-> u, carry |-> v]
            /\ u * usable + v = size * (k + 1)
      <4>1. DrawnAs(targets, size, usable, k, q, r, t, c)
        BY <3>1, <3>2, <3>3, Zenon DEF DrawnAs
      <4>2. QED
        BY <3>2, <4>1, NextTargetExact
    <3>5. QED
      BY <3>4, <2>1
  <2>8. cursor' \in 0 .. size /\ back < cursor'
    <3>1. Plus(back, 1) = back + 1
      BY <1>0, <2>3, PlusInRange
    <3>2. targets'.target = u
      BY <2>7
    <3>3. cursor' = MaxOf(u, back + 1)
      BY <3>1, <3>2, <2>1
    <3>4. QED
      BY <3>3, <1>0, <2>3 DEF MaxOf
  <2>9. TypeOK'
    <3>1. targets' \in [step      : {DivisionTargets(size, usable).step},
                        remainder : {DivisionTargets(size, usable).remainder},
                        parts     : {usable},
                        target    : 0 .. size,
                        carry     : 0 .. MaxOf(1, usable) - 1]
      BY <2>3, <2>5, <2>7 DEF MaxOf
    <3>2. QED
      BY <3>1, <2>1, <2>2, <2>8 DEF TypeOK, given
  <2>10. DivisionIdentity'
    BY <2>1, <2>2, <2>3, <2>7, <2>k DEF DivisionIdentity, drawn
  <2>11. BoundariesPartition'
    BY <2>1, <2>2, <2>8 DEF BoundariesPartition, back
  <2>12. InteriorCertified'
    BY <2>1, <2>2, <1>given DEF InteriorCertified
  <2>13. QED
    BY <2>9, <2>10, <2>11, <2>12
<1>4. CASE Walk
  <2>1. /\ UNCHANGED <<given, planning, targets, index, boundaries>>
        /\ planning = "walk" /\ cursor < size
        /\ cursor' = Plus(cursor, 1)
    BY <1>4 DEF Walk
  <2>2. size' = size /\ usable' = usable
    BY <2>1, <1>given
  <2>3. cursor \in 0 .. size - 1 /\ cursor' = cursor + 1
    BY <1>0, <2>1, PlusInRange DEF TypeOK
  <2>4. TypeOK'
    BY <1>0, <2>1, <2>2, <2>3 DEF TypeOK, given
  <2>5. DivisionIdentity'
    BY <2>1, <2>2 DEF DivisionIdentity, drawn
  <2>6. BoundariesPartition'
    <3>1. back \in 0 .. size
      BY BackInRange
    <3>2. QED
      BY <3>1, <2>1, <2>2, <2>3 DEF BoundariesPartition, back
  <2>7. InteriorCertified'
    BY <2>1, <2>2, <1>given DEF InteriorCertified
  <2>8. QED
    BY <2>4, <2>5, <2>6, <2>7
<1>5. CASE Cut
  <2>1. /\ UNCHANGED <<given, targets, cursor>>
        /\ planning = "walk" /\ planning' = "target"
        /\ cursor < size /\ Certified(cursor)
        /\ boundaries' = Append(boundaries, cursor)
        /\ index' = index + 1
    BY <1>5 DEF Cut
  <2>2. size' = size /\ usable' = usable
    BY <2>1, <1>given
  <2>3. /\ cursor \in 0 .. size - 1
        /\ index \in 1 .. usable - 1
        /\ boundaries \in Seq(0 .. size) /\ boundaries # << >>
    BY <1>0, <2>1 DEF TypeOK, MaxOf
  <2>4. /\ boundaries' \in Seq(0 .. size) /\ boundaries' # << >>
        /\ Len(boundaries') = Len(boundaries) + 1
        /\ \A i \in 1 .. Len(boundaries) : boundaries'[i] = boundaries[i]
        /\ boundaries'[Len(boundaries) + 1] = cursor
    BY <1>0, <2>1, <2>3, AppendFacts, SMTT(20)
  <2>5. TypeOK'
    BY <1>0, <2>1, <2>2, <2>3, <2>4 DEF TypeOK, MaxOf, given
  <2>6. DivisionIdentity'
    BY <2>1, <2>2, <2>3 DEF DivisionIdentity, drawn
  <2>7. BoundariesPartition'
    BY <1>0, <2>1, <2>2, <2>3, <2>4 DEF BoundariesPartition, back
  <2>8. InteriorCertified'
    BY <2>1, <2>2, <2>3, <2>4, <1>given DEF InteriorCertified
  <2>9. QED
    BY <2>5, <2>6, <2>7, <2>8
<1>6. CASE NoCut
  <2>1. /\ UNCHANGED <<given, targets, cursor, boundaries>>
        /\ planning = "walk" /\ planning' = "target"
        /\ index' = index + 1
    BY <1>6 DEF NoCut
  <2>2. size' = size /\ usable' = usable
    BY <2>1, <1>given
  <2>3. index \in 1 .. usable - 1
    BY <1>0, <2>1 DEF TypeOK, MaxOf
  <2>4. TypeOK'
    BY <1>0, <2>1, <2>2, <2>3 DEF TypeOK, MaxOf, given
  <2>5. DivisionIdentity'
    BY <2>1, <2>2, <2>3 DEF DivisionIdentity, drawn
  <2>6. BoundariesPartition'
    BY <2>1, <2>2, <2>3 DEF BoundariesPartition, back, TypeOK
  <2>7. InteriorCertified'
    BY <2>1, <2>2, <1>given DEF InteriorCertified
  <2>8. QED
    BY <2>4, <2>5, <2>6, <2>7
<1>7. CASE Close
  <2>1. /\ UNCHANGED <<given, targets, index, cursor>>
        /\ planning = "target" /\ planning' = "planned"
        /\ boundaries' = Append(boundaries, size)
    BY <1>7 DEF Close
  <2>2. size' = size /\ usable' = usable
    BY <2>1, <1>given
  <2>3. /\ boundaries \in Seq(0 .. size) /\ boundaries # << >>
        /\ Len(boundaries) \in 1 .. MaxOf(1, usable)
    BY <1>0, <2>1 DEF TypeOK, BoundariesPartition, MaxOf
  <2>4. /\ boundaries' \in Seq(0 .. size) /\ boundaries' # << >>
        /\ Len(boundaries') = Len(boundaries) + 1
        /\ \A i \in 1 .. Len(boundaries) : boundaries'[i] = boundaries[i]
        /\ boundaries'[Len(boundaries) + 1] = size
    BY <1>0, <2>1, <2>3, AppendFacts
  <2>5. TypeOK'
    BY <1>0, <2>1, <2>2, <2>4 DEF TypeOK, given
  <2>6. DivisionIdentity'
    BY <2>1, <2>2 DEF DivisionIdentity, drawn
  <2>7. BoundariesPartition'
    <3>1. chunks \in Nat /\ chunks' = chunks
      BY <2>1, PlanAssumption DEF TypeOK, given, SizeT
    <3>2. Len(boundaries') \in 2 .. MaxOf(1, chunks') + 1
      BY <1>0, <2>3, <2>4, <3>1 DEF MaxOf
    <3>3. QED
      BY <1>0, <2>1, <2>2, <2>3, <2>4, <3>2 DEF BoundariesPartition, back
  <2>8. InteriorCertified'
    BY <2>1, <2>2, <2>3, <2>4, <1>given DEF InteriorCertified
  <2>9. QED
    BY <2>5, <2>6, <2>7, <2>8
<1>8. CASE UNCHANGED planVars
  BY <1>8 DEF planVars, given, planner, TypeOK, DivisionIdentity, BoundariesPartition,
              InteriorCertified, size, usable, drawn, back, Certified
<1>9. QED
  BY <1>1, <1>2, <1>3, <1>4, <1>5, <1>6, <1>7, <1>8 DEF Next

LEMMA ExactTargets == IInv => TargetsExact
<1> SUFFICES ASSUME IInv, usable > 0
             PROVE  /\ targets.target = (size * drawn) \div usable
                    /\ targets.carry = (size * drawn) % usable
  BY DEF TargetsExact
<1>1. /\ size \in Nat /\ usable \in 1 .. size /\ drawn \in Nat
      /\ targets.target \in Nat /\ targets.carry \in 0 .. usable - 1
  BY Sizes DEF IInv, TypeOK, MaxOf, drawn
<1>2. targets.target * usable + targets.carry = size * drawn
  BY DEF IInv, DivisionIdentity
<1>3. /\ size * drawn \in Nat
      /\ usable \in Nat \ {0}
  BY <1>1
<1>4. \A x \in Nat, n \in Nat \ {0}, q \in Nat : \A r \in 0 .. n - 1 :
        q * n + r = x => q = x \div n /\ r = x % n
  BY QuotientUnique
<1>5. QED
  BY <1>1, <1>2, <1>3, <1>4, Zenon

LEMMA IInvInvariant == Spec => []IInv
<1>1. Init => IInv
  BY InitIInv
<1>2. IInv /\ [Next]_planVars => IInv'
  BY NextIInv
<1>3. QED
  BY <1>1, <1>2, PTL DEF Spec

----------------------------------------------------------------------------
(* The planner's state has its type: no index, offset or target leaves the *)
(* range of the input, whatever std::size_t holds.                         *)
THEOREM TypeCorrect == Spec => []TypeOK
  BY IInvInvariant, PTL DEF IInv

(* Division_targets yields the equal-division targets exactly, with no     *)
(* sum that wraps around, for every size and every number of parts.        *)
THEOREM DivisionExact == Spec => []TargetsExact
  BY ExactTargets, IInvInvariant, PTL

(* chunk_boundaries() partitions the input into at most as many chunks as  *)
(* asked for, none of them empty unless the input is.                      *)
THEOREM PlanPartitions == Spec => []BoundariesPartition
  BY IInvInvariant, PTL DEF IInv

(* Every interior boundary is a byte is_split_point() certifies.           *)
THEOREM PlanCertified == Spec => []InteriorCertified
  BY IInvInvariant, PTL DEF IInv

----------------------------------------------------------------------------
(* The greedy plan.  Every round before this one has cut at its first      *)
(* candidate, or some round found none and no later one will; and a walk   *)
(* has passed no candidate of its round.                                   *)
FirstCandidate(i) ==
  /\ boundaries[i + 1] \in Candidates(i, boundaries[i])
  /\ \A at \in Candidates(i, boundaries[i]) : boundaries[i + 1] <= at

GreedySoFar ==
  /\ planning = "start" => index = 1
  /\ planning \in {"target", "walk"} =>
       /\ \A i \in 1 .. Len(boundaries) - 1 : FirstCandidate(i)
       /\ Len(boundaries) < index => Candidates(Len(boundaries), back) = {}
  /\ planning = "walk" =>
       /\ cursor >= MaxOf((size * index) \div usable, back + 1)
       /\ \A at \in MaxOf((size * index) \div usable, back + 1) .. cursor - 1 :
            ~ Certified(at)

GreedyInv == IInv /\ GreedySoFar /\ PlanIsGreedy

(* The targets rise.                                                       *)
LEMMA QuotientsRise ==
  ASSUME NEW s \in Nat, NEW n \in Nat \ {0}
  PROVE  \A i, j \in Nat : i <= j =>
           /\ (s * i) \div n \in Nat /\ (s * j) \div n \in Nat
           /\ (s * i) \div n <= (s * j) \div n
<1> SUFFICES ASSUME NEW i \in Nat, NEW j \in Nat, i <= j
             PROVE  /\ (s * i) \div n \in Nat /\ (s * j) \div n \in Nat
                    /\ (s * i) \div n <= (s * j) \div n
  OBVIOUS
<1>1. s * i \in Nat /\ s * j \in Nat /\ s * i <= s * j
  <2>1. s * i + s * (j - i) = s * j
    BY Distributes
  <2>2. s * (j - i) >= 0
    BY SMT
  <2>3. QED
    BY <2>1, <2>2
<1>2. PICK p, q : p = (s * i) \div n /\ q = (s * j) \div n
  OBVIOUS
<1>3. /\ p \in Nat /\ q \in Nat
      /\ p * n <= s * i /\ s * j < q * n + n
  <2>1. /\ (s * i) \div n \in Nat /\ (s * i) % n \in 0 .. n - 1
        /\ ((s * i) \div n) * n + ((s * i) % n) = s * i
    BY <1>1, DivMod
  <2>2. /\ (s * j) \div n \in Nat /\ (s * j) % n \in 0 .. n - 1
        /\ ((s * j) \div n) * n + ((s * j) % n) = s * j
    BY <1>1, DivMod
  <2>3. PICK u, v : u = (s * i) % n /\ v = (s * j) % n
    OBVIOUS
  <2>4. /\ p \in Nat /\ q \in Nat /\ u \in 0 .. n - 1 /\ v \in 0 .. n - 1
        /\ p * n + u = s * i /\ q * n + v = s * j
    BY <1>2, <2>1, <2>2, <2>3
  <2>5. p * n \in Int /\ q * n \in Int
    BY <2>4
  <2>6. QED
    BY <1>1, <2>4, <2>5
<1>4. (q + 1) * n = q * n + 1 * n
  BY <1>3, Distributes
<1>5. p * n <= (q + 1) * n /\ p * n # (q + 1) * n
  BY <1>1, <1>3, <1>4
<1>6. p <= q + 1
  BY <1>3, <1>5, ProductBound
<1>7. p # q + 1
  BY <1>5
<1>8. QED
  BY <1>2, <1>3, <1>6, <1>7

LEMMA GivenStays ==
  ASSUME UNCHANGED given
  PROVE  /\ size' = size /\ usable' = usable
         /\ \A at : Certified(at)' = Certified(at)
         /\ \A i, previous : Candidates(i, previous)' = Candidates(i, previous)
  BY DEF given, size, usable, Certified, Candidates, MaxOf

LEMMA PlanningSizes ==
  ASSUME IInv
  PROVE  /\ size \in SizeT /\ size \in Nat /\ usable \in 0 .. size
         /\ index \in Nat \ {0} /\ cursor \in 0 .. size /\ back \in 0 .. size
         /\ boundaries \in Seq(0 .. size) /\ Len(boundaries) \in Nat \ {0}
         /\ planning = "walk" => usable \in Nat \ {0} /\ index \in 1 .. usable - 1
         /\ planning \in {"target", "walk"} => Len(boundaries) <= index
  BY Sizes, BackInRange, SMTT(20) DEF IInv, TypeOK, BoundariesPartition, MaxOf

(* A cut that is put behind the others leaves them what they are.          *)
LEMMA CutsStay ==
  ASSUME NEW S, boundaries \in Seq(S), NEW e \in S, boundaries' = Append(boundaries, e),
         UNCHANGED given
  PROVE  \A i \in 1 .. Len(boundaries) - 1 : FirstCandidate(i) => FirstCandidate(i)'
<1>1. \A i \in 1 .. Len(boundaries) : boundaries'[i] = boundaries[i]
  BY AppendFacts
<1>2. \A i \in 1 .. Len(boundaries) - 1 :
        boundaries'[i] = boundaries[i] /\ boundaries'[i + 1] = boundaries[i + 1]
  BY <1>1
<1>3. \A i, previous : Candidates(i, previous)' = Candidates(i, previous)
  BY GivenStays
<1>4. \A i, p, q, u : p = q => Candidates(i, p) = Candidates(i, q)
  OBVIOUS
<1>5. QED
  BY <1>2, <1>3, <1>4 DEF FirstCandidate

LEMMA ExactTargetsNext == IInv' => TargetsExact'
  BY ExactTargets, PTL

LEMMA NextGreedy == GreedyInv /\ [Next]_planVars => GreedySoFar'
<1> SUFFICES ASSUME GreedyInv, [Next]_planVars PROVE GreedySoFar'
  OBVIOUS
<1>0. /\ IInv /\ IInv' /\ GreedySoFar
      /\ size \in SizeT /\ size \in Nat /\ usable \in 0 .. size
      /\ index \in Nat \ {0} /\ cursor \in 0 .. size /\ back \in 0 .. size
      /\ boundaries \in Seq(0 .. size) /\ Len(boundaries) \in Nat \ {0}
      /\ planning = "walk" => usable \in Nat \ {0} /\ index \in 1 .. usable - 1
      /\ planning \in {"target", "walk"} => Len(boundaries) <= index
  BY NextIInv, PlanningSizes DEF GreedyInv
<1>1. CASE WholeInput \/ Close
  BY <1>1 DEF WholeInput, Close, GreedySoFar
<1>2. CASE Divide
  <2>1. /\ planning = "start" /\ planning' = "target"
        /\ boundaries' = boundaries /\ index' = 1
    BY <1>0, <1>2 DEF Divide, GreedySoFar
  <2>2. Len(boundaries') <= 1
    BY <1>0, <2>1 DEF IInv, BoundariesPartition
  <2>3. Len(boundaries') = 1
    <3>1. Len(boundaries') = Len(boundaries)
      BY <2>1
    <3>2. QED
      BY <1>0, <2>2, <3>1
  <2>4. QED
    BY <2>1, <2>3 DEF GreedySoFar
<1>3. CASE Target
  <2>1. /\ planning = "target" /\ planning' = "walk" /\ index < usable
        /\ cursor' = MaxOf(targets'.target, Plus(back, 1))
        /\ UNCHANGED <<boundaries, index, given>>
    BY <1>3 DEF Target
  <2>2. targets'.target = (size * index) \div usable
    <3>1. size' = size /\ usable' = usable /\ drawn' = index
      BY <2>1, GivenStays DEF drawn
    <3>2. usable > 0
      BY <1>0, <2>1
    <3>3. QED
      BY <1>0, <3>1, <3>2, ExactTargetsNext DEF TargetsExact
  <2>3. Plus(back, 1) = back + 1
    BY <1>0, <2>1, PlusInRange DEF IInv, BoundariesPartition
  <2> DEFINE start == MaxOf((size * index) \div usable, back + 1)
  <2>4. cursor' = start
    BY <2>1, <2>2, <2>3
  <2>5. /\ start' = start /\ start \in Int
        /\ back' = back /\ \A at : Certified(at)' = Certified(at)
        /\ \A i, previous : Candidates(i, previous)' = Candidates(i, previous)
    <3>1. /\ size' = size /\ usable' = usable /\ \A at : Certified(at)' = Certified(at)
          /\ \A i, previous : Candidates(i, previous)' = Candidates(i, previous)
      BY <2>1, GivenStays
    <3>2. back' = back
      BY <2>1 DEF back
    <3>3. start \in Int
      BY <1>0, <2>1, <2>4 DEF IInv, TypeOK
    <3>4. QED
      BY <2>1, <3>1, <3>2, <3>3 DEF MaxOf
  <2> HIDE DEF start
  <2>6. \A i \in 1 .. Len(boundaries') - 1 : FirstCandidate(i)'
    BY <1>0, <2>1, <2>5 DEF GreedySoFar, FirstCandidate
  <2>7. Len(boundaries') < index' => Candidates(Len(boundaries), back)' = {}
    BY <1>0, <2>1, <2>5 DEF GreedySoFar
  <2>8. cursor' >= start' /\ \A at \in start' .. cursor' - 1 : ~ Certified(at)'
    BY <2>4, <2>5
  <2>9. QED
    BY <2>1, <2>6, <2>7, <2>8 DEF GreedySoFar, start
<1>4. CASE Walk
  <2>1. /\ planning = "walk" /\ planning' = "walk" /\ ~ Certified(cursor)
        /\ cursor < size /\ cursor' = Plus(cursor, 1)
        /\ UNCHANGED <<boundaries, index, given>>
    BY <1>4 DEF Walk
  <2>2. cursor' = cursor + 1
    BY <1>0, <2>1, PlusInRange
  <2> DEFINE start == MaxOf((size * index) \div usable, back + 1)
  <2>3. /\ start' = start /\ back' = back /\ \A at : Certified(at)' = Certified(at)
        /\ \A i, previous : Candidates(i, previous)' = Candidates(i, previous)
    <3>1. /\ size' = size /\ usable' = usable /\ \A at : Certified(at)' = Certified(at)
          /\ \A i, previous : Candidates(i, previous)' = Candidates(i, previous)
      BY <2>1, GivenStays
    <3>2. back' = back
      BY <2>1 DEF back
    <3>3. QED
      BY <2>1, <3>1, <3>2 DEF MaxOf
  <2>4. start \in Int
    BY <1>0, <2>1, QuotientsRise DEF MaxOf
  <2>5. cursor >= start /\ \A at \in start .. cursor - 1 : ~ Certified(at)
    BY <1>0, <2>1 DEF GreedySoFar
  <2> HIDE DEF start
  <2>6. \A i \in 1 .. Len(boundaries') - 1 : FirstCandidate(i)'
    BY <1>0, <2>1, <2>3 DEF GreedySoFar, FirstCandidate
  <2>7. Len(boundaries') < index' => Candidates(Len(boundaries), back)' = {}
    BY <1>0, <2>1, <2>3 DEF GreedySoFar
  <2>8. \A at \in start .. cursor + 1 - 1 : at = cursor \/ at \in start .. cursor - 1
    BY <1>0, <2>4
  <2>9. cursor' >= start' /\ \A at \in start' .. cursor' - 1 : ~ Certified(at)'
    BY <1>0, <2>1, <2>2, <2>3, <2>4, <2>5, <2>8
  <2>10. QED
    BY <2>1, <2>6, <2>7, <2>9 DEF GreedySoFar, start
<1>5. CASE Cut \/ NoCut
  <2>0. /\ planning = "walk" /\ planning' = "target" /\ index' = index + 1
        /\ UNCHANGED given
    BY <1>5 DEF Cut, NoCut
  <2>count. PICK count \in Nat \ {0} : count = Len(boundaries)
    BY <1>0
  <2> DEFINE Start(i) == MaxOf((size * i) \div usable, back + 1)
  <2>1. /\ Start(count) \in Int /\ Start(index) \in Int
        /\ Start(count) <= Start(index)
    <3>1. count <= index /\ usable \in Nat \ {0}
      BY <1>0, <2>count, <2>0
    <3>2. PICK p, q : p = (size * count) \div usable /\ q = (size * index) \div usable
      OBVIOUS
    <3>3. p \in Nat /\ q \in Nat /\ p <= q
      BY <1>0, <3>1, <3>2, QuotientsRise
    <3>4. QED
      BY <1>0, <3>2, <3>3 DEF MaxOf
  <2>2. /\ cursor >= Start(index)
        /\ \A at \in Start(index) .. cursor - 1 : ~ Certified(at)
        /\ \A i \in 1 .. count - 1 : FirstCandidate(i)
        /\ count < index => Candidates(count, back) = {}
    BY <1>0, <2>count, <2>0 DEF GreedySoFar
  <2>3. \A at \in Int : at \in Candidates(count, back) <=>
                         Start(count) <= at /\ at < size /\ Certified(at)
    BY <1>0, <2>1 DEF Candidates
  <2>4. count <= index
    BY <1>0, <2>count, <2>0
  <2>5. \A at \in Candidates(count, back) : at \in Int /\ cursor <= at
    <3>1. Candidates(count, back) \subseteq Int
      BY <1>0, <2>1 DEF Candidates
    <3> HIDE DEF Start
    <3>2. QED
      BY <1>0, <2>1, <2>2, <2>3, <2>4, <3>1
  <2>6. CASE NoCut
    <3>1. cursor >= size /\ UNCHANGED boundaries
      BY <2>6 DEF NoCut
    <3>2. Candidates(count, back) = {}
      <4> HIDE DEF Start
      <4> QED
        BY <1>0, <2>3, <2>5, <3>1
    <3>3. /\ back' = back
          /\ \A i, previous : Candidates(i, previous)' = Candidates(i, previous)
      BY <2>0, <3>1, GivenStays DEF back
    <3>4. QED
      BY <2>0, <2>count, <2>2, <3>1, <3>2, <3>3 DEF GreedySoFar, FirstCandidate
  <2>7. CASE Cut
    <3>1. cursor < size /\ Certified(cursor) /\ boundaries' = Append(boundaries, cursor)
      BY <2>7 DEF Cut
    <3>2. cursor \in Candidates(count, back)
      <4> HIDE DEF Start
      <4> QED
        BY <1>0, <2>1, <2>2, <2>3, <3>1
    <3>3. count = index
      <4>1. ~ (count < index)
        BY <2>2, <3>2
      <4>2. QED
        BY <1>0, <2>4, <4>1
    <3>4. /\ Len(boundaries') = count + 1
          /\ \A i \in 1 .. count : boundaries'[i] = boundaries[i]
          /\ boundaries'[count + 1] = cursor
      BY <1>0, <2>count, <3>1, AppendFacts
    <3>5. \A i \in 1 .. count - 1 : FirstCandidate(i)'
      BY <1>0, <2>0, <2>count, <2>2, <3>1, CutsStay
    <3>6. FirstCandidate(count)'
      <4>1. boundaries'[count] = back /\ boundaries'[count + 1] = cursor
        BY <2>count, <3>4 DEF back
      <4>2. \A i, previous : Candidates(i, previous)' = Candidates(i, previous)
        BY <2>0, GivenStays
      <4>3. /\ cursor \in Candidates(count, back)
            /\ \A at \in Candidates(count, back) : cursor <= at
        BY <2>5, <3>2
      <4>4. \A p : p = back => Candidates(count, p) = Candidates(count, back)
        OBVIOUS
      <4>5. /\ boundaries'[count + 1] \in Candidates(count, boundaries'[count])
            /\ \A at \in Candidates(count, boundaries'[count]) :
                 boundaries'[count + 1] <= at
        BY <4>1, <4>3, <4>4
      <4>6. QED
        BY <4>2, <4>5 DEF FirstCandidate
    <3>7. \A i \in 1 .. Len(boundaries') - 1 : i = count \/ i \in 1 .. count - 1
      BY <3>4
    <3>8. \A i \in 1 .. Len(boundaries') - 1 : FirstCandidate(i)'
      BY <3>5, <3>6, <3>7
    <3>9. ~ (Len(boundaries') < index')
      BY <2>0, <2>4, <3>3, <3>4
    <3>10. QED
      BY <2>0, <3>8, <3>9 DEF GreedySoFar
  <2>8. QED
    BY <1>5, <2>6, <2>7
<1>6. CASE UNCHANGED planVars
  <2>1. UNCHANGED <<given, planning, index, cursor, boundaries>>
    BY <1>6 DEF planVars, planner
  <2>2. /\ size' = size /\ usable' = usable /\ back' = back
        /\ \A at : Certified(at)' = Certified(at)
        /\ \A i, previous : Candidates(i, previous)' = Candidates(i, previous)
    BY <2>1, GivenStays DEF back
  <2>3. QED
    BY <1>0, <2>1, <2>2 DEF GreedySoFar, FirstCandidate, MaxOf
<1>7. QED
  BY <1>1, <1>2, <1>3, <1>4, <1>5, <1>6 DEF Next

(* The plan with this many cuts, apart from the state it is finished in.    *)
GreedyWith(cuts) ==
  /\ \A i \in 1 .. cuts : FirstCandidate(i)
  /\ cuts < usable - 1 => Candidates(cuts + 1, boundaries[cuts + 1]) = {}

LEMMA PlanIsGreedyWith ==
  PlanIsGreedy <=>
    (planning = "planned" /\ split_points # {} =>
       \A cuts : cuts = Len(boundaries) - 2 => GreedyWith(cuts))
  BY DEF PlanIsGreedy, GreedyWith, FirstCandidate

LEMMA PlanWillBeGreedyWith ==
  PlanIsGreedy' <=>
    (planning = "planned" /\ split_points # {} =>
       \A cuts : cuts = Len(boundaries) - 2 => GreedyWith(cuts))'
  BY PlanIsGreedyWith, PTL

LEMMA NextPlanIsGreedy == GreedyInv /\ [Next]_planVars => PlanIsGreedy'
<1> SUFFICES ASSUME GreedyInv, [Next]_planVars, planning' = "planned", split_points' # {},
                    NEW cuts, cuts = Len(boundaries') - 2
             PROVE  GreedyWith(cuts)'
  BY PlanWillBeGreedyWith
<1>1. CASE Close
  <2>1. /\ planning = "target" /\ index >= usable /\ UNCHANGED given
        /\ boundaries' = Append(boundaries, size)
    BY <1>1 DEF Close
  <2>2. PICK n : n = Len(boundaries)
    OBVIOUS
  <2>3. /\ size \in Nat /\ usable \in Int /\ index \in Int
        /\ boundaries \in Seq(0 .. size) /\ n \in Nat \ {0}
    BY <2>2, PlanningSizes DEF GreedyInv
  <2>4. cuts = n - 1 /\ cuts + 1 = n /\ boundaries'[n] = back
    BY <2>1, <2>2, <2>3, AppendFacts DEF back
  <2>5. /\ \A i \in 1 .. n - 1 : FirstCandidate(i)
        /\ n < index => Candidates(n, back) = {}
    BY <2>1, <2>2 DEF GreedyInv, GreedySoFar
  <2>6. \A i \in 1 .. n - 1 : FirstCandidate(i)'
    <3>1. size \in 0 .. size
      BY <2>3
    <3>2. \A i \in 1 .. Len(boundaries) - 1 : FirstCandidate(i) => FirstCandidate(i)'
      BY <2>1, <2>3, <3>1, CutsStay
    <3>3. QED
      BY <2>2, <2>5, <3>2
  <2>7. /\ usable' = usable
        /\ \A i, previous : Candidates(i, previous)' = Candidates(i, previous)
    BY <2>1, GivenStays
  <2>8. cuts < usable - 1 => n < index
    BY <2>1, <2>3, <2>4
  <2>9. \A p : p = back => Candidates(n, p) = Candidates(n, back)
    OBVIOUS
  <2>10. cuts < usable - 1 => Candidates(n, boundaries'[n]) = {}
    BY <2>4, <2>5, <2>8, <2>9
  <2>11. QED
    BY <2>4, <2>6, <2>7, <2>10 DEF GreedyWith
<1>2. CASE WholeInput
  BY <1>2 DEF WholeInput, given
<1>3. CASE UNCHANGED planVars
  <2>1. UNCHANGED <<given, planning, boundaries>>
    BY <1>3 DEF planVars, planner
  <2>2. /\ usable' = usable /\ planning = "planned" /\ split_points # {}
        /\ \A i, previous : Candidates(i, previous)' = Candidates(i, previous)
    BY <2>1, GivenStays DEF given
  <2>3. GreedyWith(cuts)
    BY <2>1, <2>2, PlanIsGreedyWith DEF GreedyInv
  <2>4. QED
    BY <2>1, <2>2, <2>3 DEF GreedyWith, FirstCandidate
<1>4. CASE Divide \/ Target \/ Walk \/ Cut \/ NoCut
  BY <1>4 DEF Divide, Target, Walk, Cut, NoCut
<1>5. QED
  BY <1>1, <1>2, <1>3, <1>4 DEF Next

(* The finished plan cuts at the first certified byte of every round, and  *)
(* stops cutting only when none is left.                                   *)
THEOREM PlanGreedy == Spec => []PlanIsGreedy
<1>1. Init => GreedySoFar /\ PlanIsGreedy
  BY DEF Init, PlannerInit, GreedySoFar, PlanIsGreedy
<1>2. GreedyInv /\ [Next]_planVars => (GreedySoFar /\ PlanIsGreedy)'
  BY NextGreedy, NextPlanIsGreedy
<1>3. Spec => []GreedyInv
  BY <1>1, <1>2, IInvInvariant, PTL DEF Spec, GreedyInv
<1>4. QED
  BY <1>3, PTL DEF GreedyInv
=============================================================================
