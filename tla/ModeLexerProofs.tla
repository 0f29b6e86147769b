--------------------------- MODULE ModeLexerProofs --------------------------
(***************************************************************************)
(* The batch driver of every mode lexer the builder makes: it does what    *)
(* the per-token driver does, and stays in the modes, with the frames,     *)
(* that the diagnosis of the grammar allows.                               *)
(***************************************************************************)
EXTENDS ModeBuilder, ModeScan, DfaTheorems

----------------------------------------------------------------------------
(* What one sweep adds.                                                    *)
Enters(acts, from, to) == \E act \in acts[from] : TargetsAMode(act) /\ act.target = to

(* An action from one mode to another that hands the frame on.             *)
Hands(acts, closure, from, to, frame) ==
  \E act \in acts[from] :
    /\ TargetsAMode(act) /\ act.target = to
    /\ frame \in closure.framed[from] \/ (act.kind = "push" /\ frame = from)

Closures(M) == [entered : SUBSET M, framed : [M -> SUBSET M]]

LEMMA SweepAdds ==
  ASSUME NEW M, NEW acts, DOMAIN acts = M, NEW closure \in Closures(M)
  PROVE  LET swept == Sweep(acts, closure)
         IN /\ swept \in Closures(M)
            /\ \A m \in M :
                 m \in swept.entered <=>
                   m \in closure.entered \/ \E k \in closure.entered : Enters(acts, k, m)
            /\ \A m \in M : \A frame :
                 frame \in swept.framed[m] <=>
                   frame \in closure.framed[m]
                     \/ \E k \in closure.entered : Hands(acts, closure, k, m, frame)
<1> DEFINE entering(target) ==
             { e \in closure.entered \X UNION { acts[m] : m \in DOMAIN acts } :
                 e[2] \in acts[e[1]] /\ TargetsAMode(e[2]) /\ e[2].target = target }
           swept == Sweep(acts, closure)
<1>1. swept = [ entered |-> closure.entered \cup { m \in M : entering(m) # {} },
                framed  |-> [ m \in M |->
                       closure.framed[m]
                         \cup UNION { Carried(closure, e[1], e[2]) : e \in entering(m) } ] ]
  BY DEF Sweep
<1>2. \A m, k, act : <<k, act>> \in entering(m) <=>
        k \in closure.entered /\ act \in acts[k] /\ TargetsAMode(act) /\ act.target = m
  <2>1. closure.entered \subseteq M
    BY DEF Closures
  <2>2. ASSUME NEW m, NEW k, NEW act
        PROVE  <<k, act>> \in entering(m) <=>
                 k \in closure.entered /\ act \in acts[k] /\ TargetsAMode(act) /\ act.target = m
    <3>1. k \in closure.entered /\ act \in acts[k] => act \in UNION { acts[n] : n \in DOMAIN acts }
      BY <2>1
    <3>2. QED
      BY <3>1
  <2>3. QED
    BY <2>2
<1>3. \A m, e : e \in entering(m) => e = <<e[1], e[2]>>
  OBVIOUS
<1> HIDE DEF entering, swept
<1>4. ASSUME NEW m PROVE entering(m) # {} <=> \E k \in closure.entered : Enters(acts, k, m)
  <2>1. ASSUME NEW e \in entering(m) PROVE \E k \in closure.entered : Enters(acts, k, m)
    <3>1. <<e[1], e[2]>> \in entering(m)
      BY <1>3
    <3>2. e[1] \in closure.entered /\ e[2] \in acts[e[1]] /\ TargetsAMode(e[2]) /\ e[2].target = m
      BY <1>2, <3>1
    <3>3. QED
      BY <3>2 DEF Enters
  <2>2. ASSUME NEW k \in closure.entered, NEW act \in acts[k], TargetsAMode(act), act.target = m
        PROVE  <<k, act>> \in entering(m)
    BY <1>2, <2>2
  <2>3. QED
    BY <2>1, <2>2 DEF Enters
<1>5. \A m, frame : frame \in UNION { Carried(closure, e[1], e[2]) : e \in entering(m) }
                    <=> \E k \in closure.entered : Hands(acts, closure, k, m, frame)
  <2> SUFFICES ASSUME NEW m, NEW frame
               PROVE  frame \in UNION { Carried(closure, e[1], e[2]) : e \in entering(m) }
                      <=> \E k \in closure.entered : Hands(acts, closure, k, m, frame)
    OBVIOUS
  <2>1. frame \in UNION { Carried(closure, e[1], e[2]) : e \in entering(m) }
        <=> \E e \in entering(m) : frame \in Carried(closure, e[1], e[2])
    OBVIOUS
  <2>2. (\E e \in entering(m) : frame \in Carried(closure, e[1], e[2]))
        <=> \E k, act : <<k, act>> \in entering(m) /\ frame \in Carried(closure, k, act)
    BY <1>3
  <2>3. \A k, act : frame \in Carried(closure, k, act) <=>
          frame \in closure.framed[k] \/ (act.kind = "push" /\ frame = k)
    BY DEF Carried
  <2>4. (\E k, act : <<k, act>> \in entering(m) /\ frame \in Carried(closure, k, act))
        <=> \E k \in closure.entered : \E act \in acts[k] :
              TargetsAMode(act) /\ act.target = m /\ frame \in Carried(closure, k, act)
    BY <1>2
  <2>5. QED
    BY <2>1, <2>2, <2>3, <2>4 DEF Hands
<1>6. \A m \in M : \A frame : (\E k \in closure.entered : Hands(acts, closure, k, m, frame)) => frame \in M
  BY DEF Hands, Closures
<1>7. swept.entered \subseteq M /\ swept.framed = [ m \in M |->
                       closure.framed[m]
                         \cup UNION { Carried(closure, e[1], e[2]) : e \in entering(m) } ]
  BY <1>1 DEF Closures
<1>8. \A m \in M : \A frame : frame \in swept.framed[m] <=> frame \in closure.framed[m]
                     \/ \E k \in closure.entered : Hands(acts, closure, k, m, frame)
  BY <1>5, <1>7
<1>9. swept.framed \in [M -> SUBSET M]
  <2>1. \A m \in M : swept.framed[m] \subseteq M
    BY <1>6, <1>8 DEF Closures
  <2>2. QED
    BY <1>7, <2>1
<1>10. swept \in Closures(M)
  BY <1>1, <1>7, <1>9 DEF Closures
<1>11. \A m \in M : m \in swept.entered <=>
         m \in closure.entered \/ \E k \in closure.entered : Enters(acts, k, m)
  BY <1>1, <1>4
<1>12. QED
  BY <1>8, <1>10, <1>11 DEF swept

(* The sweeps as a recursion.                                              *)
NothingEntered(M) == [entered |-> {0}, framed |-> [m \in M |-> {}]]

LEMMA SweepSteps ==
  ASSUME NEW M, NEW acts, DOMAIN acts = M, Cardinality(M) \in Nat
  PROVE  \E f : /\ f[0] = NothingEntered(M)
                /\ \A n \in 1 .. 2 * Cardinality(M) : f[n] = Sweep(acts, f[n - 1])
                /\ FrameClosure(acts) = f[2 * Cardinality(M)]
<1> DEFINE N == 2 * Cardinality(M)
           First == NothingEntered(M)
           Step(c) == Sweep(acts, c)
           Is(f, k) == f = [ n \in 0 .. k |-> IF n = 0 THEN First ELSE Step(f[n - 1]) ]
           S == { k \in 0 .. N : \E f : Is(f, k) }
<1>0. N \in Nat
  OBVIOUS
<1>1. 0 \in S
  <2>1. Is([n \in 0 .. 0 |-> First], 0)
    OBVIOUS
  <2> HIDE DEF Is
  <2>2. QED
    BY <1>0, <2>1
<1>2. ASSUME NEW k \in 0 .. N - 1, k \in S PROVE k + 1 \in S
  <2>0. k + 1 \in 0 .. N /\ k \in Nat
    BY <1>0
  <2>1. PICK f : Is(f, k)
    BY <1>2
  <2> DEFINE g == [ n \in 0 .. k + 1 |-> IF n = k + 1 THEN Step(f[k]) ELSE f[n] ]
  <2>2. \A n \in 0 .. k : g[n] = f[n]
    BY <2>0
  <2>3. ASSUME NEW n \in 0 .. k + 1
        PROVE  g[n] = IF n = 0 THEN First ELSE Step(g[n - 1])
    <3>1. CASE n = k + 1
      <4>1. g[n] = Step(f[k]) /\ n # 0 /\ g[n - 1] = f[k]
        BY <3>1, <2>0, <2>2
      <4> HIDE DEF g
      <4> QED
        BY <4>1, <3>1
    <3>2. CASE n \in 0 .. k
      <4>1. g[n] = f[n] /\ (n # 0 => n - 1 \in 0 .. k /\ g[n - 1] = f[n - 1])
        BY <3>2, <2>2, <2>0
      <4>2. f[n] = IF n = 0 THEN First ELSE Step(f[n - 1])
        <5> HIDE DEF First, Step
        <5> QED
          BY <2>1, <3>2
      <4> HIDE DEF g, First, Step
      <4> QED
        BY <4>1, <4>2
    <3>3. QED
      BY <3>1, <3>2, <2>0
  <2>4. g = [ n \in 0 .. k + 1 |-> g[n] ]
    OBVIOUS
  <2> HIDE DEF g
  <2>5. Is(g, k + 1)
    BY <2>3, <2>4
  <2> HIDE DEF Is
  <2>6. \E h : Is(h, k + 1)
    BY <2>5
  <2>7. QED
    BY <2>6, <2>0
<1> HIDE DEF S
<1>3. N \in S
  <2> HIDE DEF N
  <2>1. 0 .. N \subseteq S
    BY <1>0, <1>1, <1>2, UpTo
  <2>2. QED
    BY <1>0, <2>1
<1>4. \E f : Is(f, N)
  BY <1>3 DEF S
<1> DEFINE sweeps == CHOOSE f : Is(f, N)
<1>5. FrameClosure(acts) = sweeps[N]
  BY DEF FrameClosure, NothingEntered
<1>6. Is(sweeps, N)
  <2> HIDE DEF Is
  <2> QED
    BY <1>4
<1>7. ASSUME NEW f, Is(f, N)
      PROVE  f[0] = First /\ \A n \in 1 .. N : f[n] = Step(f[n - 1])
  <2> HIDE DEF N, First, Step
  <2> QED
    BY <1>0, <1>7
<1>8. QED
  <2> HIDE DEF Is, sweeps
  <2> QED
    BY <1>5, <1>6, <1>7

----------------------------------------------------------------------------
(* Swept as often as the code sweeps at most, the closure is closed: after *)
(* as many sweeps as there are modes no mode is entered any more, and      *)
(* after as many again no frame is carried any further.                    *)
LEMMA FrameClosureCloses ==
  ASSUME NEW M, NEW acts, DOMAIN acts = M, IsFiniteSet(M), 0 \in M
  PROVE  LET closure == FrameClosure(acts)
         IN /\ closure \in Closures(M)
            /\ 0 \in closure.entered
            /\ \A k \in closure.entered, m \in M : Enters(acts, k, m) => m \in closure.entered
            /\ \A k \in closure.entered, m \in M : \A frame :
                 Hands(acts, closure, k, m, frame) => frame \in closure.framed[m]
<1> DEFINE C == Cardinality(M)
           N == 2 * C
<1>0. C \in Nat /\ N \in Nat /\ C + C = N
  BY FS_CardinalityType
<1>1. PICK f : /\ f[0] = NothingEntered(M)
               /\ \A n \in 1 .. N : f[n] = Sweep(acts, f[n - 1])
               /\ FrameClosure(acts) = f[N]
  BY <1>0, SweepSteps
<1> HIDE DEF C, N
<1> DEFINE g == [ n \in 0 .. N + 1 |-> IF n = N + 1 THEN Sweep(acts, f[N]) ELSE f[n] ]
<1>2. g[0] = NothingEntered(M) /\ g[N] = FrameClosure(acts)
  BY <1>0, <1>1
<1>3. \A n \in 0 .. N : g[n + 1] = Sweep(acts, g[n])
  <2> SUFFICES ASSUME NEW n \in 0 .. N PROVE g[n + 1] = Sweep(acts, g[n])
    OBVIOUS
  <2>1. n # N + 1 /\ n + 1 \in 0 .. N + 1 /\ n \in 0 .. N + 1 /\ g[n] = f[n]
    BY <1>0
  <2>2. CASE n = N
    BY <2>1, <2>2
  <2>3. CASE n # N
    <3>1. n + 1 \in 1 .. N /\ n + 1 # N + 1 /\ (n + 1) - 1 = n
      BY <1>0, <2>3
    <3>2. g[n + 1] = f[n + 1]
      BY <2>1, <3>1
    <3>3. f[n + 1] = Sweep(acts, f[n])
      BY <1>1, <3>1
    <3> HIDE DEF g
    <3> QED
      BY <2>1, <3>2, <3>3
  <2>4. QED
    BY <2>2, <2>3
<1> HIDE DEF g
<1>4. \A n \in 0 .. N + 1 : g[n] \in Closures(M) /\ 0 \in g[n].entered
  <2> DEFINE S == { n \in 0 .. N + 1 : g[n] \in Closures(M) /\ 0 \in g[n].entered }
  <2>1. 0 \in S
    BY <1>0, <1>2 DEF NothingEntered, Closures
  <2>2. ASSUME NEW n \in 0 .. (N + 1) - 1, n \in S PROVE n + 1 \in S
    <3>1. n \in 0 .. N /\ n + 1 \in 0 .. N + 1
      BY <1>0
    <3>2. g[n + 1] \in Closures(M) /\ 0 \in g[n + 1].entered
      BY <1>3, <2>2, <3>1, SweepAdds
    <3>3. QED
      BY <3>1, <3>2
  <2> HIDE DEF S
  <2>3. 0 .. N + 1 \subseteq S
    BY <1>0, <2>1, <2>2, UpTo
  <2>4. QED
    BY <2>3 DEF S
<1>5. ASSUME NEW n \in 0 .. N
      PROVE  /\ \A m \in M :
                  m \in g[n + 1].entered <=>
                    m \in g[n].entered \/ \E k \in g[n].entered : Enters(acts, k, m)
             /\ \A m \in M : \A frame :
                  frame \in g[n + 1].framed[m] <=>
                    frame \in g[n].framed[m]
                      \/ \E k \in g[n].entered : Hands(acts, g[n], k, m, frame)
  <2>1. n \in 0 .. N + 1
    BY <1>0
  <2>2. QED
    BY <1>3, <1>4, <2>1, SweepAdds
<1>6. \A n \in 0 .. N + 1 : g[n].entered \subseteq M
  BY <1>4 DEF Closures
<1>7. g[C + 1].entered = g[C].entered
  <2> DEFINE e == [ n \in 0 .. N + 1 |-> g[n].entered ]
  <2>1. \A n \in 0 .. N + 1 : e[n] = g[n].entered
    OBVIOUS
  <2> HIDE DEF e
  <2>2. \A n \in 0 .. C + 1 : n \in 0 .. N + 1
    BY <1>0
  <2>3. \A n \in 0 .. C + 1 : e[n] \subseteq M
    BY <1>6, <2>1, <2>2
  <2>4. ASSUME NEW n \in 0 .. C PROVE e[n] \subseteq e[n + 1]
    <3>1. n \in 0 .. C + 1 /\ n + 1 \in 0 .. C + 1 /\ C <= N
      BY <1>0
    <3>2. n \in 0 .. N
      BY <1>0, <3>1
    <3>3. g[n].entered \subseteq g[n + 1].entered
      BY <1>5, <1>6, <2>2, <3>1, <3>2
    <3>4. QED
      BY <2>1, <2>2, <3>1, <3>3
  <2>5. ASSUME NEW n \in 0 .. C - 1, e[n + 1] = e[n] PROVE e[n + 2] = e[n + 1]
    <3>1. /\ n \in 0 .. N /\ n + 1 \in 0 .. N /\ n + 2 \in 0 .. N + 1 /\ n + 1 \in 0 .. N + 1
          /\ n \in 0 .. N + 1 /\ (n + 1) + 1 = n + 2
      BY <1>0
    <3>2. g[n + 1].entered = g[n].entered
      BY <2>1, <2>5, <3>1
    <3>3. \A m \in M : m \in g[n + 2].entered <=> m \in g[n + 1].entered
      BY <1>5, <3>1, <3>2
    <3>4. g[n + 2].entered = g[n + 1].entered
      BY <1>6, <3>1, <3>3
    <3>5. QED
      BY <2>1, <3>1, <3>4
  <2>6. e[C + 1] = e[C]
    BY <1>0, <2>3, <2>4, <2>5, Settles DEF C
  <2>7. C + 1 \in 0 .. N + 1 /\ C \in 0 .. N + 1
    BY <1>0
  <2>8. QED
    BY <2>1, <2>6, <2>7
<1>8. \A i \in 0 .. C + 1 : g[C + i].entered = g[C].entered
  <2> DEFINE S == { i \in 0 .. C + 1 : g[C + i].entered = g[C].entered }
  <2>1. 0 \in S
    BY <1>0
  <2>2. ASSUME NEW i \in 0 .. (C + 1) - 1, i \in S PROVE i + 1 \in S
    <3>1. /\ i + 1 \in 0 .. C + 1 /\ C + i \in 0 .. N /\ C \in 0 .. N
          /\ (C + i) + 1 = C + (i + 1) /\ (C + i) + 1 \in 0 .. N + 1 /\ C + 1 \in 0 .. N + 1
      BY <1>0
    <3>2. g[C + i].entered = g[C].entered
      BY <2>2
    <3>3. \A m \in M : m \in g[(C + i) + 1].entered <=> m \in g[C + 1].entered
      BY <1>5, <3>1, <3>2
    <3>4. g[(C + i) + 1].entered = g[C + 1].entered
      BY <1>6, <3>1, <3>3
    <3>5. QED
      BY <1>7, <3>1, <3>4
  <2> HIDE DEF S
  <2>3. 0 .. C + 1 \subseteq S
    BY <1>0, <2>1, <2>2, UpTo
  <2>4. QED
    BY <2>3 DEF S
<1>9. ASSUME NEW frame, NEW m \in M
      PROVE  frame \in g[N + 1].framed[m] <=> frame \in g[N].framed[m]
  <2> DEFINE h == [ i \in 0 .. C + 1 |-> { k \in M : frame \in g[C + i].framed[k] } ]
  <2>1. \A i \in 0 .. C + 1 : h[i] = { k \in M : frame \in g[C + i].framed[k] }
    OBVIOUS
  <2> HIDE DEF h
  <2>2. \A i \in 0 .. C + 1 : h[i] \subseteq M
    BY <2>1
  <2>3. ASSUME NEW i \in 0 .. C
        PROVE  \A n \in M : n \in h[i + 1] <=>
                 n \in h[i] \/ \E k \in g[C].entered : \E act \in acts[k] :
                   /\ TargetsAMode(act) /\ act.target = n
                   /\ k \in h[i] \/ (act.kind = "push" /\ frame = k)
    <3>1. /\ C + i \in 0 .. N /\ (C + i) + 1 = C + (i + 1) /\ i \in 0 .. C + 1
          /\ i + 1 \in 0 .. C + 1 /\ C \in 0 .. N + 1
      BY <1>0
    <3>2. g[C + i].entered = g[C].entered /\ g[C].entered \subseteq M
      BY <1>6, <1>8, <3>1
    <3>3. \A k \in M : k \in h[i] <=> frame \in g[C + i].framed[k]
      BY <2>1, <3>1
    <3>4. \A k \in M : k \in h[i + 1] <=> frame \in g[(C + i) + 1].framed[k]
      BY <2>1, <3>1
    <3>5. \A n \in M : frame \in g[(C + i) + 1].framed[n] <=>
            frame \in g[C + i].framed[n]
              \/ \E k \in g[C + i].entered : Hands(acts, g[C + i], k, n, frame)
      BY <1>5, <3>1
    <3>6. ASSUME NEW n \in M
          PROVE  (\E k \in g[C + i].entered : Hands(acts, g[C + i], k, n, frame)) <=>
                 \E k \in g[C].entered : \E act \in acts[k] :
                   /\ TargetsAMode(act) /\ act.target = n
                   /\ k \in h[i] \/ (act.kind = "push" /\ frame = k)
      BY <3>2, <3>3 DEF Hands
    <3>7. QED
      BY <3>3, <3>4, <3>5, <3>6
  <2>4. ASSUME NEW i \in 0 .. C PROVE h[i] \subseteq h[i + 1]
    <3>1. i \in 0 .. C + 1
      BY <1>0
    <3>2. QED
      BY <2>2, <2>3, <3>1
  <2>5. ASSUME NEW i \in 0 .. C - 1, h[i + 1] = h[i] PROVE h[i + 2] = h[i + 1]
    <3>1. /\ i \in 0 .. C /\ i + 1 \in 0 .. C /\ i + 2 \in 0 .. C + 1 /\ i + 1 \in 0 .. C + 1
          /\ (i + 1) + 1 = i + 2
      BY <1>0
    <3>2. \A n \in M : n \in h[i + 2] <=> n \in h[i + 1]
      BY <2>3, <2>5, <3>1
    <3>3. QED
      BY <2>2, <3>1, <3>2
  <2>6. h[C + 1] = h[C]
    BY <1>0, <2>2, <2>4, <2>5, Settles DEF C
  <2>7. C + 1 \in 0 .. C + 1 /\ C \in 0 .. C + 1 /\ C + (C + 1) = N + 1
    BY <1>0
  <2>8. QED
    BY <1>0, <2>1, <2>6, <2>7
<1>10. N \in 0 .. N /\ N \in 0 .. N + 1 /\ N + 1 \in 0 .. N + 1
  BY <1>0
<1>11. g[N + 1].entered = g[N].entered
  <2>1. C \in 0 .. C + 1 /\ C + 1 \in 0 .. C + 1 /\ C + (C + 1) = N + 1
    BY <1>0
  <2>2. QED
    BY <1>0, <1>8, <2>1
<1>12. \A k \in g[N].entered, m \in M : Enters(acts, k, m) => m \in g[N].entered
  BY <1>5, <1>10, <1>11
<1>13. \A k \in g[N].entered, m \in M : \A frame :
         Hands(acts, g[N], k, m, frame) => frame \in g[N].framed[m]
  BY <1>5, <1>9, <1>10
<1>14. QED
  BY <1>2, <1>4, <1>10, <1>12, <1>13

----------------------------------------------------------------------------
(* The words and the actions they stand for.                               *)
LEMMA ZeroIsStay == Unpack(0) = Stay
<1>1. 0 % 4 = 0 /\ 0 \div 4 = 0
  OBVIOUS
<1>2. KindOf[1] = "stay"
  BY DEF KindOf
<1>3. QED
  BY <1>1, <1>2 DEF Unpack, Stay

LEMMA UnpackKinds ==
  ASSUME NEW word \in Nat
  PROVE  Unpack(word).kind \in {"stay", "go_to", "push", "pop"}
<1>1. (word % 4) + 1 \in 1 .. 4
  OBVIOUS
<1>2. \A i \in 1 .. 4 : KindOf[i] \in {"stay", "go_to", "push", "pop"}
  BY DEF KindOf
<1>3. QED
  BY <1>1, <1>2 DEF Unpack, Action

(* The word a token is listed with is its payload.                         *)
LEMMA ListedIsPayload ==
  ASSUME NEW made, ListsItsPayloads(made), NEW m \in ModesOf(made), NEW t \in TokenIds
  PROVE  /\ ActionOf(made, m, t) = Unpack(made.payload[m][t])
         /\ PayloadAction(made, m, t) = Unpack(made.payload[m][t])
<1> DEFINE listed == { i \in DOMAIN made.actions :
                         made.actions[i].mode = m /\ made.actions[i].token = t }
           first == CHOOSE i \in listed : \A j \in listed : i <= j
<1>1. IF listed = {} THEN made.payload[m][t] = 0
      ELSE \A i \in listed : made.actions[i].action = made.payload[m][t]
  BY DEF ListsItsPayloads, ModesOf
<1>2. ActionOf(made, m, t) = IF listed = {} THEN Stay ELSE Unpack(made.actions[first].action)
  BY DEF ActionOf
<1>3. listed # {} => first \in listed
  <2>1. listed \in SUBSET Nat
    BY DEF ListsItsPayloads
  <2> HIDE DEF listed
  <2>2. QED
    BY <2>1, LeastNatural
<1> HIDE DEF listed, first
<1>4. ActionOf(made, m, t) = Unpack(made.payload[m][t])
  BY <1>1, <1>2, <1>3, ZeroIsStay
<1>5. QED
  BY <1>4, ZeroIsStay DEF PayloadAction

(* The two routes to an action lead to the same one.                       *)
LEMMA RoutesAgree ==
  ASSUME NEW made, ListsItsPayloads(made), NEW m \in ModesOf(made), NEW t \in TokenIds
  PROVE  Unpack(IF Acting(made, m) THEN made.payload[m][t] ELSE 0) =
           IF Acting(made, m) THEN ActionOf(made, m, t) ELSE Stay
BY ListedIsPayload, ZeroIsStay

----------------------------------------------------------------------------
(* Where the frames of a stack came from: each was pushed in the mode it   *)
(* names while the ones below it were saved.                               *)
NestedIn(closure, s) ==
  /\ s.current \in closure.entered
  /\ \A i \in 1 .. Len(s.saved) :
       /\ s.saved[i] \in closure.entered
       /\ s.saved[i] \in closure.framed[s.current]
       /\ \A j \in 1 .. i - 1 : s.saved[j] \in closure.framed[s.saved[i]]

ActsOf(made) == [m \in ModesOf(made) |-> LiveActions(made, m)]

ScanInv ==
  /\ lexer \in Lexers
  /\ diagnosis = Diagnose(lexer)
  /\ input \in Seq(Symbols)
  /\ stack \in [current : Nat, saved : Seq(Nat)]
  /\ pc \in {"called", "loop", "pass", "returned", "threw"}
  /\ offset \in 0 .. Len(input)
  /\ scanned \in Nat
  /\ pc = "called" => offset = 0 /\ scanned = 0
  /\ pc \in {"loop", "pass"} => stack.current \in ModesOf(lexer)
  /\ pc = "pass" => mode = stack.current /\ at <= Len(input)
  /\ start = FreshStack => NestedIn(FrameClosure(ActsOf(lexer)), stack)

LEMMA GivenLexer ==
  ASSUME lexer \in Lexers
  PROVE  /\ IsModeLexer(lexer)
         /\ ListsItsPayloads(lexer)
         /\ \A m \in ModesOf(lexer), t \in TokenIds : EntersItsModes(lexer, lexer.payload[m][t])
         /\ DOMAIN lexer.dfa = ModesOf(lexer)
         /\ IsFiniteSet(ModesOf(lexer)) /\ 0 \in ModesOf(lexer) /\ ModesOf(lexer) \subseteq Nat
<1>1. /\ IsModeLexer(lexer)
      /\ ListsItsPayloads(lexer)
      /\ \A m \in ModesOf(lexer), t \in TokenIds : EntersItsModes(lexer, lexer.payload[m][t])
  BY ModeScanAssumption
<1>2. lexer.modes \in Nat \ {0} /\ DOMAIN lexer.dfa = ModesOf(lexer)
  BY <1>1 DEF IsModeLexer, ModesOf
<1>3. IsFiniteSet(ModesOf(lexer))
  BY <1>2, FS_Interval DEF ModesOf
<1>4. QED
  BY <1>1, <1>2, <1>3 DEF ModesOf

LEMMA ClosureOfLexer ==
  ASSUME lexer \in Lexers
  PROVE  LET acts == ActsOf(lexer)
             closure == FrameClosure(acts)
         IN /\ closure \in Closures(ModesOf(lexer))
            /\ 0 \in closure.entered
            /\ \A k \in closure.entered, m \in ModesOf(lexer) :
                 Enters(acts, k, m) => m \in closure.entered
            /\ \A k \in closure.entered, m \in ModesOf(lexer) : \A frame :
                 Hands(acts, closure, k, m, frame) => frame \in closure.framed[m]
<1>1. DOMAIN ActsOf(lexer) = ModesOf(lexer)
  BY DEF ActsOf
<1>2. QED
  BY <1>1, GivenLexer, FrameClosureCloses

(* What the pass comes to: a token that a reachable state awards, and an   *)
(* action that both routes agree upon.                                     *)
LEMMA Matched ==
  ASSUME ScanInv, pc = "pass", Matches # {}
  PROVE  /\ Match.length \in Nat \ {0} /\ at + Match.length \in 0 .. Len(input)
         /\ at \in Nat /\ at < Len(input)
         /\ packed \in Nat
         /\ action = IF Acting(lexer, mode) THEN ActionOf(lexer, mode, Match.token) ELSE Stay
         /\ action.kind \in {"stay", "go_to", "push", "pop"}
         /\ TargetsAMode(action) => action.target \in ModesOf(lexer)
         /\ packed # 0 => action \in LiveActions(lexer, mode)
<1> DEFINE D == lexer.dfa[mode]
           n == LongestMatch(D, input, at)
           s == StateAfter(D, input, at)[n]
<1>1. /\ lexer \in Lexers /\ mode \in ModesOf(lexer) /\ input \in Seq(Symbols)
      /\ at \in 0 .. Len(input) /\ at \in Nat /\ Len(input) \in Nat
  BY DEF ScanInv, at
<1>2. IsDfa(D)
  BY <1>1, GivenLexer DEF IsModeLexer
<1> HIDE DEF D
<1>3. n \in MatchLengths(D, input, at)
  BY <1>1, <1>2, LongestMatchIsLongest DEF Matches, D
<1>4. n \in 1 .. Len(input) - at /\ s # NoState /\ D.accept[s] # NoToken
  BY <1>3 DEF MatchLengths
<1>5. s \in Reachable(D)
  <2>1. n \in 0 .. Len(input) - at
    BY <1>1, <1>4
  <2>2. QED
    BY <1>1, <1>2, <1>4, <2>1, StateAfterReachable
<1>6. D.accept[s] \in TokenIds
  <2>1. s \in States(D)
    BY <1>5 DEF Reachable
  <2>2. QED
    BY <1>2, <1>4, <2>1 DEF IsDfa
<1>7. Match.length = n /\ Match.token = D.accept[s]
  BY DEF Match, D
<1> DEFINE t == Match.token
<1>8. t \in TokenIds /\ IsLive(lexer, mode, t)
  BY <1>5, <1>6, <1>7 DEF IsLive, D
<1> HIDE DEF t, n, s
<1>9. packed = IF Acting(lexer, mode) THEN lexer.payload[mode][t] ELSE 0
  BY DEF packed, t
<1>10. action = IF Acting(lexer, mode) THEN ActionOf(lexer, mode, t) ELSE Stay
  BY <1>1, <1>8, <1>9, GivenLexer, RoutesAgree DEF action
<1>11. EntersItsModes(lexer, lexer.payload[mode][t])
  BY <1>1, <1>8, GivenLexer
<1>12. packed \in Nat /\ (TargetsAMode(action) => action.target \in ModesOf(lexer))
  <2>1. ~ TargetsAMode(Stay)
    BY DEF TargetsAMode, Stay, Action
  <2>2. packed = 0 => ~ TargetsAMode(action)
    BY <2>1, ZeroIsStay DEF action
  <2>3. packed # 0 => packed = lexer.payload[mode][t]
    BY <1>9
  <2>4. QED
    BY <1>1, <1>11, <2>2, <2>3, GivenLexer DEF EntersItsModes, action
<1>13. action.kind \in {"stay", "go_to", "push", "pop"}
  BY <1>12, UnpackKinds DEF action
<1>14. packed # 0 => action \in LiveActions(lexer, mode)
  <2>1. packed # 0 => action = PayloadAction(lexer, mode, t)
    BY <1>9 DEF action, PayloadAction
  <2>2. PayloadAction(lexer, mode, t) \in LiveActions(lexer, mode)
    BY <1>8 DEF LiveActions
  <2>3. QED
    BY <2>1, <2>2
<1>15. /\ Match.length \in Nat \ {0} /\ at + Match.length \in 0 .. Len(input)
       /\ at < Len(input)
  BY <1>1, <1>4, <1>7
<1>16. QED
  BY <1>1, <1>10, <1>12, <1>13, <1>14, <1>15 DEF t

----------------------------------------------------------------------------
LEMMA FrontOfSequence ==
  ASSUME NEW q \in Seq(Nat), NEW n \in 0 .. Len(q)
  PROVE  /\ Len(SubSeq(q, 1, n)) = n
         /\ \A i \in 1 .. n : SubSeq(q, 1, n)[i] = q[i]
  OBVIOUS

LEMMA ApplyIsStack ==
  ASSUME NEW s \in [current : Nat, saved : Seq(Nat)],
         NEW act, act.kind \in {"stay", "go_to", "push", "pop"},
         TargetsAMode(act) => act.target \in Nat, Legal(s, act)
  PROVE  Apply(s, act) \in [current : Nat, saved : Seq(Nat)]
<1>1. CASE act.kind = "stay"
  BY <1>1 DEF Apply
<1>2. CASE act.kind = "go_to"
  BY <1>2 DEF Apply, TargetsAMode
<1>3. CASE act.kind = "push"
  <2>1. act.target \in Nat /\ Append(s.saved, s.current) \in Seq(Nat)
    BY <1>3 DEF TargetsAMode
  <2>2. Apply(s, act) = [current |-> act.target, saved |-> Append(s.saved, s.current)]
    BY <1>3 DEF Apply
  <2>3. QED
    BY <2>1, <2>2
<1>4. CASE act.kind = "pop"
  <2>1. s.saved # << >> /\ s.saved \in Seq(Nat)
    BY <1>4 DEF Legal
  <2>2. Len(s.saved) \in 1 .. Len(s.saved)
    BY <2>1
  <2>3. Top(s) \in Nat /\ SubSeq(s.saved, 1, Len(s.saved) - 1) \in Seq(Nat)
    BY <2>1, <2>2 DEF Top
  <2>4. Apply(s, act) = [current |-> Top(s), saved |-> SubSeq(s.saved, 1, Len(s.saved) - 1)]
    BY <1>4 DEF Apply
  <2>5. QED
    BY <2>3, <2>4
<1>5. QED
  BY <1>1, <1>2, <1>3, <1>4

(* A live action keeps the frames those the closure found.                 *)
LEMMA ApplyNests ==
  ASSUME lexer \in Lexers, NEW s \in [current : Nat, saved : Seq(Nat)],
         NestedIn(FrameClosure(ActsOf(lexer)), s),
         NEW act \in LiveActions(lexer, s.current),
         act.kind \in {"stay", "go_to", "push", "pop"},
         TargetsAMode(act) => act.target \in ModesOf(lexer), Legal(s, act)
  PROVE  NestedIn(FrameClosure(ActsOf(lexer)), Apply(s, act))
<1> DEFINE M == ModesOf(lexer)
           acts == ActsOf(lexer)
           closure == FrameClosure(acts)
           k == s.current
           r == Apply(s, act)
<1>1. /\ closure \in Closures(M)
      /\ \A from \in closure.entered, m \in M : Enters(acts, from, m) => m \in closure.entered
      /\ \A from \in closure.entered, m \in M : \A frame :
           Hands(acts, closure, from, m, frame) => frame \in closure.framed[m]
  BY ClosureOfLexer
<1>2. /\ k \in closure.entered /\ k \in M
      /\ \A i \in 1 .. Len(s.saved) :
           /\ s.saved[i] \in closure.entered
           /\ s.saved[i] \in closure.framed[k]
           /\ \A j \in 1 .. i - 1 : s.saved[j] \in closure.framed[s.saved[i]]
  BY <1>1 DEF NestedIn, Closures
<1>3. act \in acts[k]
  BY <1>2 DEF ActsOf
<1> HIDE DEF closure, acts
<1>4. ASSUME TargetsAMode(act)
      PROVE  /\ act.target \in closure.entered
             /\ \A frame \in closure.framed[k] : frame \in closure.framed[act.target]
             /\ act.kind = "push" => k \in closure.framed[act.target]
  <2>1. act.target \in M
    BY <1>4
  <2>2. Enters(acts, k, act.target)
    BY <1>3, <1>4 DEF Enters
  <2>3. \A frame \in closure.framed[k] : Hands(acts, closure, k, act.target, frame)
    BY <1>3, <1>4 DEF Hands
  <2>4. act.kind = "push" => Hands(acts, closure, k, act.target, k)
    BY <1>3, <1>4 DEF Hands
  <2>5. QED
    BY <1>1, <1>2, <2>1, <2>2, <2>3, <2>4
<1>5. CASE act.kind = "stay"
  <2>1. r = s
    BY <1>5 DEF Apply
  <2>2. QED
    BY <1>2, <2>1 DEF NestedIn, closure, acts
<1>6. CASE act.kind = "go_to"
  <2>1. r.current = act.target /\ r.saved = s.saved
    BY <1>6 DEF Apply
  <2>2. TargetsAMode(act)
    BY <1>6 DEF TargetsAMode
  <2>3. NestedIn(closure, r)
    BY <1>2, <1>4, <2>1, <2>2 DEF NestedIn
  <2>4. QED
    BY <2>3 DEF closure, acts
<1>7. CASE act.kind = "push"
  <2>1. r.current = act.target /\ r.saved = Append(s.saved, k)
    BY <1>7 DEF Apply
  <2>2. TargetsAMode(act)
    BY <1>7 DEF TargetsAMode
  <2>3. /\ Len(r.saved) = Len(s.saved) + 1
        /\ r.saved[Len(s.saved) + 1] = k
        /\ \A i \in 1 .. Len(s.saved) : r.saved[i] = s.saved[i]
    BY <2>1
  <2>4. Len(s.saved) \in Nat
    OBVIOUS
  <2>5. ASSUME NEW i \in 1 .. Len(r.saved)
        PROVE  /\ r.saved[i] \in closure.entered
               /\ r.saved[i] \in closure.framed[r.current]
               /\ \A j \in 1 .. i - 1 : r.saved[j] \in closure.framed[r.saved[i]]
    <3>1. CASE i = Len(s.saved) + 1
      <4>1. \A j \in 1 .. i - 1 : j \in 1 .. Len(s.saved)
        BY <2>4, <3>1
      <4>2. r.saved[i] = k
        BY <2>3, <3>1
      <4> HIDE DEF r, k
      <4>3. QED
        BY <1>2, <1>4, <1>7, <2>1, <2>2, <2>3, <4>1, <4>2
    <3>2. CASE i \in 1 .. Len(s.saved)
      <4>1. \A j \in 1 .. i - 1 : j \in 1 .. Len(s.saved)
        BY <2>4, <3>2
      <4> HIDE DEF r, k
      <4>2. QED
        BY <1>2, <1>4, <2>1, <2>2, <2>3, <3>2, <4>1
    <3>3. QED
      BY <2>3, <2>4, <3>1, <3>2
  <2>6. NestedIn(closure, r)
    BY <1>4, <2>1, <2>2, <2>5 DEF NestedIn
  <2>7. QED
    BY <2>6 DEF closure, acts
<1>8. CASE act.kind = "pop"
  <2>1. s.saved # << >> /\ s.saved \in Seq(Nat)
    BY <1>8 DEF Legal
  <2>2. Len(s.saved) \in 1 .. Len(s.saved) /\ Len(s.saved) \in Nat
    BY <2>1
  <2>3. r.current = s.saved[Len(s.saved)] /\ r.saved = SubSeq(s.saved, 1, Len(s.saved) - 1)
    BY <1>8 DEF Apply, Top
  <2>4. /\ Len(r.saved) = Len(s.saved) - 1
        /\ \A i \in 1 .. Len(s.saved) - 1 : r.saved[i] = s.saved[i]
    <3>1. Len(s.saved) - 1 \in 0 .. Len(s.saved)
      BY <2>2
    <3>2. PICK n \in 0 .. Len(s.saved) : n = Len(s.saved) - 1
      BY <3>1
    <3>3. /\ Len(SubSeq(s.saved, 1, n)) = n
          /\ \A i \in 1 .. n : SubSeq(s.saved, 1, n)[i] = s.saved[i]
      BY <2>1, FrontOfSequence
    <3> HIDE DEF r
    <3>4. QED
      BY <2>3, <3>2, <3>3
  <2>5. \A i \in 1 .. Len(s.saved) - 1 : i \in 1 .. Len(s.saved)
    BY <2>2
  <2>6. \A i \in 1 .. Len(s.saved) - 1 : \A j \in 1 .. i - 1 : j \in 1 .. Len(s.saved) - 1
    BY <2>2
  <2> HIDE DEF r
  <2>7. NestedIn(closure, r)
    BY <1>2, <2>2, <2>3, <2>4, <2>5, <2>6 DEF NestedIn
  <2>8. QED
    BY <2>7 DEF closure, acts, r
<1>9. QED
  BY <1>5, <1>6, <1>7, <1>8

----------------------------------------------------------------------------
LEMMA InitScan == Init => ScanInv
<1> SUFFICES ASSUME Init PROVE ScanInv
  OBVIOUS
<1>1. /\ lexer \in Lexers /\ diagnosis = Diagnose(lexer) /\ input \in Seq(Symbols)
      /\ start \in [current : Nat, saved : Seq(Nat)] /\ stack = start
      /\ pc = "called" /\ offset = 0 /\ scanned = 0
  BY ModeScanAssumption DEF Init
<1>2. start = FreshStack => NestedIn(FrameClosure(ActsOf(lexer)), stack)
  <2>1. 0 \in FrameClosure(ActsOf(lexer)).entered
    BY <1>1, ClosureOfLexer
  <2>2. FreshStack.current = 0 /\ Len(FreshStack.saved) = 0
    BY DEF FreshStack
  <2>3. NestedIn(FrameClosure(ActsOf(lexer)), FreshStack)
    BY <2>1, <2>2 DEF NestedIn
  <2>4. QED
    BY <1>1, <2>3
<1>3. offset \in 0 .. Len(input)
  BY <1>1
<1>4. QED
  BY <1>1, <1>2, <1>3 DEF ScanInv

LEMMA NextScan == ScanInv /\ [Next]_vars => ScanInv'
<1> SUFFICES ASSUME ScanInv, [Next]_vars PROVE ScanInv'
  OBVIOUS
<1> USE DEF given
<1>1. CASE Enter
  <2>1. UNCHANGED <<given, stack, offset, mode, scanned>> /\ pc = "called"
        /\ pc' = IF HasMode(stack.current) THEN "loop" ELSE "threw"
    BY <1>1 DEF Enter
  <2>2. HasMode(stack.current) => stack.current \in ModesOf(lexer)
    <3>1. stack.current \in Nat /\ lexer.modes \in Nat
      BY GivenLexer DEF ScanInv, IsModeLexer
    <3>2. QED
      BY <3>1 DEF HasMode, ModesOf
  <2>3. QED
    BY <2>1, <2>2 DEF ScanInv
<1>2. CASE BeginPass
  <2>1. UNCHANGED <<given, stack, offset>> /\ pc = "loop" /\ pc' = "pass"
        /\ mode' = stack.current /\ scanned' = 0
    BY <1>2 DEF BeginPass
  <2>2. at' <= Len(input')
    BY <2>1 DEF ScanInv, at
  <2>3. QED
    BY <2>1, <2>2 DEF ScanInv
<1>3. CASE Exhausted
  BY <1>3 DEF Exhausted, ScanInv
<1>4. CASE Emit
  <2>1. UNCHANGED <<given, stack, pc, offset, mode>> /\ pc = "pass" /\ Matches # {}
        /\ scanned' = scanned + Match.length
    BY <1>4 DEF Emit
  <2>2. Match.length \in Nat \ {0} /\ at + Match.length \in 0 .. Len(input)
    BY <2>1, Matched
  <2>3. scanned' \in Nat /\ at' <= Len(input')
    BY <2>1, <2>2 DEF at, ScanInv
  <2>4. QED
    BY <2>1, <2>3 DEF ScanInv
<1>5. CASE Act
  <2>1. UNCHANGED <<given, mode, scanned>> /\ pc = "pass" /\ Matches # {} /\ packed # 0
        /\ Legal(stack, action) /\ ~ ExposesForeign /\ pc' = "loop"
        /\ stack' = Apply(stack, action) /\ offset' = at + Match.length
    BY <1>5 DEF Act
  <2>2. /\ at + Match.length \in 0 .. Len(input)
        /\ action.kind \in {"stay", "go_to", "push", "pop"}
        /\ TargetsAMode(action) => action.target \in ModesOf(lexer)
        /\ action \in LiveActions(lexer, mode)
    BY <2>1, Matched
  <2>3. /\ lexer \in Lexers /\ stack \in [current : Nat, saved : Seq(Nat)]
        /\ mode = stack.current /\ stack.current \in ModesOf(lexer)
        /\ ModesOf(lexer) \subseteq Nat
    BY <2>1, GivenLexer DEF ScanInv
  <2>4. stack' \in [current : Nat, saved : Seq(Nat)]
    BY <2>1, <2>2, <2>3, ApplyIsStack
  <2>5. stack'.current \in ModesOf(lexer)
    <3>1. CASE action.kind = "pop"
      <4>1. stack'.current = Top(stack) /\ HasMode(Top(stack))
        BY <2>1, <3>1 DEF Apply, ExposesForeign
      <4>2. stack'.current \in Nat /\ lexer.modes \in Nat
        BY <2>3, <2>4, GivenLexer DEF IsModeLexer
      <4>3. QED
        BY <4>1, <4>2 DEF HasMode, ModesOf
    <3>2. CASE action.kind = "stay"
      BY <2>1, <2>3, <3>2 DEF Apply
    <3>3. CASE action.kind \in {"go_to", "push"}
      <4>1. action.target \in ModesOf(lexer)
        BY <2>2, <3>3 DEF TargetsAMode
      <4>2. stack'.current = action.target
        BY <2>1, <2>3, <3>3 DEF Apply
      <4>3. QED
        BY <4>1, <4>2
    <3>4. QED
      BY <2>2, <3>1, <3>2, <3>3
  <2>6. start' = FreshStack => NestedIn(FrameClosure(ActsOf(lexer)), stack')
    BY <2>1, <2>2, <2>3, ApplyNests DEF ScanInv
  <2>7. QED
    BY <2>1, <2>2, <2>4, <2>5, <2>6 DEF ScanInv
<1>6. CASE Throw
  BY <1>6 DEF Throw, ScanInv
<1>7. CASE Refuse
  <2>1. UNCHANGED <<given, stack, mode, scanned>> /\ pc = "pass" /\ Matches # {}
        /\ offset' = (at + Match.length) - Match.length /\ pc' = "returned"
    BY <1>7 DEF Refuse
  <2>2. Match.length \in Nat /\ at \in Nat /\ at < Len(input)
    BY <2>1, Matched
  <2>3. offset' \in 0 .. Len(input)
    BY <2>1, <2>2 DEF ScanInv
  <2>4. QED
    BY <2>1, <2>3 DEF ScanInv
<1>8. CASE EndPass
  <2>1. UNCHANGED <<given, stack, mode, scanned>> /\ pc = "pass"
        /\ offset' = at /\ pc' \in {"loop", "returned"}
    BY <1>8 DEF EndPass
  <2>2. offset' \in 0 .. Len(input)
    BY <2>1 DEF ScanInv, at
  <2>3. QED
    BY <2>1, <2>2 DEF ScanInv
<1>9. CASE UNCHANGED vars
  BY <1>9 DEF vars, ScanInv, at
<1>10. QED
  BY <1>1, <1>2, <1>3, <1>4, <1>5, <1>6, <1>7, <1>8, <1>9 DEF Next

LEMMA ScanInvInvariant == Spec => []ScanInv
<1>1. Init => ScanInv
  BY InitScan
<1>2. ScanInv /\ [Next]_vars => ScanInv'
  BY NextScan
<1>3. QED
  BY <1>1, <1>2, PTL DEF Spec

----------------------------------------------------------------------------
(* What diagnose() reports of a mode lexer's grammar holds of every scan   *)
(* of every input from the default stack: a mode reported unreachable is   *)
(* never the current one, and the frames name only modes the closure       *)
(* found (mode_builder.cpp, close_frames).                                 *)
THEOREM DiagnosisIsTrue == Spec => []DiagnosisHolds
<1>1. ScanInv => DiagnosisHolds
  <2> SUFFICES ASSUME ScanInv, start = FreshStack
               PROVE  /\ stack.current \notin diagnosis.unreachable
                      /\ \A i \in DOMAIN stack.saved :
                           stack.saved[i] \in diagnosis.framed[stack.current]
    BY DEF DiagnosisHolds
  <2> DEFINE closure == FrameClosure(ActsOf(lexer))
  <2>1. /\ diagnosis.framed = closure.framed
        /\ diagnosis.unreachable = ModesOf(lexer) \ ({0} \cup closure.entered)
    BY DEF ScanInv, Diagnose, ActsOf
  <2>2. NestedIn(closure, stack)
    BY DEF ScanInv
  <2> HIDE DEF closure
  <2>3. DOMAIN stack.saved = 1 .. Len(stack.saved)
    BY DEF ScanInv
  <2>4. QED
    BY <2>1, <2>2, <2>3 DEF NestedIn
<1>2. QED
  BY <1>1, ScanInvInvariant, PTL

(* A scan from the default stack never leaves a mode that diagnose()       *)
(* reports inescapable, by a target or by a pop.                           *)
THEOREM InescapableIsTrue == Spec => InescapableHolds
<1>1. ScanInv /\ [Next]_vars =>
        [start = FreshStack /\ stack.current \in diagnosis.inescapable
           => stack'.current = stack.current]_vars
  <2> SUFFICES ASSUME ScanInv, Next, start = FreshStack,
                      stack.current \in diagnosis.inescapable
               PROVE  stack'.current = stack.current
    BY DEF vars
  <2>1. stack' = stack \/ Act
    BY DEF Next, Enter, BeginPass, Exhausted, Emit, Throw, Refuse, EndPass
  <2>2. CASE stack' = stack
    BY <2>2
  <2>3. CASE Act
    <3> DEFINE acts == ActsOf(lexer)
               closure == FrameClosure(acts)
    <3>1. /\ pc = "pass" /\ Matches # {} /\ packed # 0 /\ Legal(stack, action)
          /\ stack' = Apply(stack, action)
      BY <2>3 DEF Act
    <3>2. /\ action.kind \in {"stay", "go_to", "push", "pop"}
          /\ action \in LiveActions(lexer, mode)
      BY <3>1, Matched
    <3>3. mode = stack.current /\ mode \in ModesOf(lexer)
      BY <3>1 DEF ScanInv
    <3>4. ~ Leaves(acts, closure, mode)
      BY <3>3 DEF ScanInv, Diagnose, ActsOf
    <3>5. action \in acts[mode]
      BY <3>2, <3>3 DEF ActsOf
    <3>6. NestedIn(closure, stack)
      BY DEF ScanInv
    <3> HIDE DEF acts, closure
    <3>7. CASE action.kind = "stay"
      BY <3>1, <3>7 DEF Apply
    <3>8. CASE action.kind \in {"go_to", "push"}
      <4>1. action.target = mode
        BY <3>4, <3>5, <3>8 DEF Leaves, TargetsAMode
      <4>2. stack'.current = action.target
        BY <3>1, <3>8 DEF Apply, ScanInv
      <4>3. QED
        BY <3>3, <4>1, <4>2
    <3>9. CASE action.kind = "pop"
      <4>1. stack.saved # << >> /\ stack.saved \in Seq(Nat)
        BY <3>1, <3>9 DEF Legal, ScanInv
      <4>2. Len(stack.saved) \in 1 .. Len(stack.saved)
        BY <4>1
      <4>3. Top(stack) \in closure.framed[mode]
        BY <3>3, <3>6, <4>2 DEF NestedIn, Top
      <4>4. Top(stack) = mode
        BY <3>4, <3>5, <3>9, <4>3 DEF Leaves
      <4>5. stack'.current = Top(stack)
        BY <3>1, <3>9 DEF Apply
      <4>6. QED
        BY <3>3, <4>4, <4>5
    <3>10. QED
      BY <3>2, <3>7, <3>8, <3>9
  <2>4. QED
    BY <2>1, <2>2, <2>3
<1>2. QED
  BY <1>1, ScanInvInvariant, PTL DEF Spec, InescapableHolds

----------------------------------------------------------------------------
(* The per-token driver's reading of the tables is that of the batch one.  *)
LEMMA SameReading ==
  ASSUME NEW D, NEW w, NEW from, NEW made, NEW m, NEW t, NEW s, NEW act
  PROVE  /\ PerToken!MatchLengths(D, w, from) = MatchLengths(D, w, from)
         /\ PerToken!LongestMatch(D, w, from) = LongestMatch(D, w, from)
         /\ PerToken!StateAfter(D, w, from) = StateAfter(D, w, from)
         /\ PerToken!Acting(made, m) = Acting(made, m)
         /\ PerToken!ActionOf(made, m, t) = ActionOf(made, m, t)
         /\ PerToken!Stay = Stay
         /\ PerToken!Legal(s, act) = Legal(s, act)
         /\ PerToken!Top(s) = Top(s)
         /\ PerToken!Apply(s, act) = Apply(s, act)
         /\ PerToken!IsModeLexer(made) = IsModeLexer(made)
         /\ PerToken!IsStack(s) = IsStack(s)
<1>1. PerToken!StateAfter(D, w, from) = StateAfter(D, w, from)
  BY DEF PerToken!StateAfter, StateAfter
<1>2. PerToken!MatchLengths(D, w, from) = MatchLengths(D, w, from)
  BY <1>1 DEF PerToken!MatchLengths, MatchLengths
<1>3. PerToken!LongestMatch(D, w, from) = LongestMatch(D, w, from)
  BY <1>2 DEF PerToken!LongestMatch, LongestMatch
<1>4. PerToken!Acting(made, m) = Acting(made, m)
  BY DEF PerToken!Acting, Acting
<1>5. PerToken!Stay = Stay
  BY DEF PerToken!Stay, Stay, PerToken!Action, Action
<1>6. \A word : PerToken!Unpack(word) = Unpack(word)
  BY DEF PerToken!Unpack, Unpack, PerToken!Action, Action, PerToken!KindOf, KindOf
<1>7. PerToken!ActionOf(made, m, t) = ActionOf(made, m, t)
  BY <1>5, <1>6 DEF PerToken!ActionOf, ActionOf
<1>8. PerToken!Legal(s, act) = Legal(s, act) /\ PerToken!Top(s) = Top(s)
  BY DEF PerToken!Legal, Legal, PerToken!Top, Top
<1>9. PerToken!Apply(s, act) = Apply(s, act)
  BY <1>8 DEF PerToken!Apply, Apply
<1>10. \A X : PerToken!IsDfa(X) = IsDfa(X)
  BY DEF PerToken!IsDfa, IsDfa, PerToken!States, States
<1>11. PerToken!IsModeLexer(made) = IsModeLexer(made)
  BY <1>10 DEF PerToken!IsModeLexer, IsModeLexer
<1>12. PerToken!IsStack(s) = IsStack(s)
  BY DEF PerToken!IsStack, IsStack
<1>13. QED
  BY <1>1, <1>2, <1>3, <1>4, <1>5, <1>7, <1>8, <1>9, <1>11, <1>12

(* In a pass the per-token driver is at the same match with the same action. *)
LEMMA PassReading ==
  ASSUME ScanInv, pc = "pass"
  PROVE  /\ reached = at /\ status = "running"
         /\ PerToken!Matches = Matches
         /\ PerToken!Match = Match
         /\ Matches # {} => PerToken!MatchAction = action
         /\ Matches # {} => PerToken!ExposesForeign = ExposesForeign
<1>1. reached = at /\ status = "running" /\ mode = stack.current
  BY DEF reached, status, ScanInv
<1>2. PerToken!current = lexer.dfa[mode]
  BY <1>1 DEF PerToken!current
<1>3. PerToken!Matches = Matches
  BY <1>1, <1>2, SameReading DEF PerToken!Matches, Matches
<1>4. PerToken!Match = Match
  BY <1>1, <1>2, SameReading DEF PerToken!Match, Match
<1>5. Matches # {} => PerToken!MatchAction = action
  BY <1>1, <1>4, Matched, SameReading DEF PerToken!MatchAction
<1>6. Matches # {} => PerToken!ExposesForeign = ExposesForeign
  BY <1>5, SameReading DEF PerToken!ExposesForeign, ExposesForeign, PerToken!HasMode, HasMode
<1>7. QED
  BY <1>1, <1>3, <1>4, <1>5, <1>6

LEMMA InitRefines == Init => PerToken!Init
<1> SUFFICES ASSUME Init PROVE PerToken!Init
  OBVIOUS
<1>1. /\ lexer \in Lexers /\ input \in Seq(Symbols)
      /\ stack \in [current : Nat, saved : Seq(Nat)]
      /\ pc = "called" /\ offset = 0 /\ stream = << >>
  BY ModeScanAssumption DEF Init
<1>2. reached = 0 /\ status = "called"
  BY <1>1 DEF reached, status
<1>3. IsModeLexer(lexer) /\ IsStack(stack)
  BY <1>1, GivenLexer DEF IsStack
<1>4. QED
  BY <1>1, <1>2, <1>3, SameReading DEF PerToken!Init

LEMMA NextRefines ==
  ASSUME ScanInv, [Next]_vars
  PROVE  [PerToken!Next]_(PerToken!streamVars)
<1> USE DEF given, PerToken!given
<1>0. offset \in Nat /\ scanned \in Nat /\ Len(input) \in Nat /\ offset <= Len(input)
  BY DEF ScanInv
<1>1. CASE Enter
  <2>1. /\ UNCHANGED <<given, stack, offset, scanned, stream>> /\ pc = "called"
        /\ pc' = IF HasMode(stack.current) THEN "loop" ELSE "threw"
        /\ offset = 0 /\ scanned = 0
    BY <1>1 DEF Enter, ScanInv
  <2>2. reached = 0 /\ reached' = 0
    BY <2>1 DEF reached, at
  <2>3. status = "called" /\ status' = IF HasMode(stack.current) THEN "running" ELSE "threw"
    BY <2>1 DEF status
  <2>4. PerToken!Enter
    BY <2>1, <2>2, <2>3 DEF PerToken!Enter, PerToken!HasMode, HasMode
  <2>5. QED
    BY <2>4 DEF PerToken!Next
<1>2. CASE BeginPass
  <2>1. UNCHANGED <<given, stack, offset, stream>> /\ pc = "loop" /\ pc' = "pass" /\ scanned' = 0
    BY <1>2 DEF BeginPass
  <2>2. reached' = reached /\ status' = status
    BY <1>0, <2>1 DEF reached, status, at
  <2>3. QED
    BY <2>1, <2>2 DEF PerToken!streamVars
<1>3. CASE Exhausted
  <2>1. /\ UNCHANGED <<given, stack, offset, stream>> /\ pc = "loop" /\ pc' = "returned"
        /\ offset = Len(input)
    BY <1>3 DEF Exhausted
  <2>2. reached = offset /\ reached' = offset /\ status = "running" /\ status' = "exhausted"
    BY <2>1 DEF reached, status
  <2>3. PerToken!Exhausted
    BY <2>1, <2>2 DEF PerToken!Exhausted
  <2>4. QED
    BY <2>3 DEF PerToken!Next
<1>4. CASE Emit
  <2>1. /\ UNCHANGED <<given, stack, pc, offset, mode>> /\ pc = "pass" /\ Matches # {}
        /\ packed = 0 /\ stream' = Append(stream, Match)
        /\ scanned' = scanned + Match.length
    BY <1>4 DEF Emit
  <2>2. action = Stay
    BY <2>1, ZeroIsStay DEF action
  <2>3. Match.length \in Nat /\ at \in Nat
    BY <2>1, Matched
  <2>4. reached' = at + Match.length /\ status' = "running"
    BY <1>0, <2>1, <2>3 DEF reached, status, at
  <2>5. Legal(stack, action) /\ ~ ExposesForeign /\ Apply(stack, action) = stack
    BY <2>2 DEF Stay, Action, Legal, ExposesForeign, Apply
  <2>6. PerToken!Emit
    BY <2>1, <2>4, <2>5, PassReading, SameReading DEF PerToken!Emit
  <2>7. QED
    BY <2>6 DEF PerToken!Next
<1>5. CASE Act
  <2>1. /\ UNCHANGED <<given, mode, scanned>> /\ pc = "pass" /\ Matches # {}
        /\ Legal(stack, action) /\ ~ ExposesForeign /\ pc' = "loop"
        /\ stream' = Append(stream, Match)
        /\ stack' = Apply(stack, action) /\ offset' = at + Match.length
    BY <1>5 DEF Act
  <2>2. reached' = at + Match.length /\ status' = "running"
    BY <2>1 DEF reached, status
  <2>3. PerToken!Emit
    BY <2>1, <2>2, PassReading, SameReading DEF PerToken!Emit
  <2>4. QED
    BY <2>3 DEF PerToken!Next
<1>6. CASE Throw
  <2>1. /\ UNCHANGED <<given, stack, offset, mode, scanned, stream>> /\ pc = "pass"
        /\ Matches # {} /\ Legal(stack, action) /\ ExposesForeign /\ pc' = "threw"
    BY <1>6 DEF Throw
  <2>2. reached' = at /\ status' = "threw"
    BY <2>1 DEF reached, status, at
  <2>3. PerToken!Throw
    BY <2>1, <2>2, PassReading, SameReading DEF PerToken!Throw
  <2>4. QED
    BY <2>3 DEF PerToken!Next
<1>7. CASE Refuse
  <2>1. /\ UNCHANGED <<given, stack, mode, scanned, stream>> /\ pc = "pass"
        /\ Matches # {} /\ ~ Legal(stack, action)
        /\ offset' = (at + Match.length) - Match.length /\ pc' = "returned"
    BY <1>7 DEF Refuse
  <2>2. Match.length \in Nat /\ at \in Nat /\ at < Len(input)
    BY <2>1, Matched
  <2>3. offset' = at
    BY <2>1, <2>2
  <2>4. reached' = at /\ status' = "stopped"
    BY <2>1, <2>2, <2>3 DEF reached, status
  <2>5. PerToken!Refuse
    BY <2>1, <2>4, PassReading, SameReading DEF PerToken!Refuse
  <2>6. QED
    BY <2>5 DEF PerToken!Next
<1>8. CASE EndPass
  <2>1. /\ UNCHANGED <<given, stack, mode, scanned, stream>> /\ pc = "pass"
        /\ Matches = {} /\ offset' = at /\ pc' \in {"loop", "returned"}
    BY <1>8 DEF EndPass
  <2>2. reached' = at
    BY <2>1 DEF reached
  <2>3. CASE pc' = "loop"
    <3>1. status' = "running"
      BY <2>3 DEF status
    <3>2. QED
      BY <2>1, <2>2, <3>1, PassReading DEF PerToken!streamVars
  <2>4. CASE pc' = "returned"
    <3>1. CASE at = Len(input)
      <4>1. status' = "exhausted"
        BY <2>1, <2>4, <3>1 DEF status
      <4>2. PerToken!Exhausted
        BY <2>1, <2>2, <3>1, <4>1, PassReading DEF PerToken!Exhausted
      <4>3. QED
        BY <4>2 DEF PerToken!Next
    <3>2. CASE at # Len(input)
      <4>1. status' = "stopped"
        BY <2>1, <2>4, <3>2 DEF status
      <4>2. at < Len(input)
        BY <1>0, <2>1, <3>2 DEF ScanInv, at
      <4>3. PerToken!Stop
        BY <2>1, <2>2, <4>1, <4>2, PassReading DEF PerToken!Stop
      <4>4. QED
        BY <4>3 DEF PerToken!Next
    <3>3. QED
      BY <3>1, <3>2
  <2>5. QED
    BY <2>1, <2>3, <2>4
<1>9. CASE UNCHANGED vars
  <2>1. reached' = reached /\ status' = status
    BY <1>9 DEF vars, reached, status, at
  <2>2. QED
    BY <1>9, <2>1 DEF vars, PerToken!streamVars
<1>10. QED
  BY <1>1, <1>2, <1>3, <1>4, <1>5, <1>6, <1>7, <1>8, <1>9 DEF Next

(* The batch driver, which learns a token's action from the accept table,  *)
(* stops its pass and looks again, delivers the tokens, moves the stack,   *)
(* throws and ends as the per-token driver does, which searches the list:  *)
(* for every mode lexer, input and stack of the caller's.                  *)
THEOREM BatchIsPerToken == Spec => ImplementsPerToken
<1>1. Init => PerToken!Init
  BY InitRefines
<1>2. ScanInv /\ [Next]_vars => [PerToken!Next]_(PerToken!streamVars)
  BY NextRefines
<1>3. QED
  BY <1>1, <1>2, ScanInvInvariant, PTL DEF Spec, ImplementsPerToken, PerToken!Spec

----------------------------------------------------------------------------
(* The builder.  An entry of its lists is normalized, so that equal words  *)
(* are equal actions.                                                      *)
Kinds == {"stay", "go_to", "push", "pop"}

NormalActions == { act \in [kind : Kinds, target : Nat] : TargetsAMode(act) \/ act.target = 0 }

Entries == [token : TokenIds, action : NormalActions]

Listings == [mode : Nat, token : TokenIds, action : Nat]

(* What a registration that returned relies on: its token's one entry.     *)
IsKept(d) ==
  /\ d.mode \in 0 .. Len(registered) - 1
  /\ d.token \in TokenIds
  /\ \E j \in DOMAIN registered[d.mode + 1] :
       registered[d.mode + 1][j] = [token |-> d.token, action |-> Normalized(d.mode, d.action)]

OneEntryEach ==
  \A i \in DOMAIN registered : \A j, k \in DOMAIN registered[i] :
    registered[i][j].token = registered[i][k].token => j = k

BuilderInv ==
  /\ modes \in Seq(SUBSET Patterns)
  /\ registered \in Seq(Seq(Entries))
  /\ Len(registered) = Len(modes)
  /\ modes # << >> => \E m \in Modes : Len(modes) = m + 1
  /\ OneEntryEach
  /\ \A d \in declared : IsKept(d)
  /\ DeclaredActionsApply
  /\ BuiltActionsAreSafe

LEMMA NormalizedIsNormal ==
  ASSUME NEW m, NEW act \in [kind : Kinds, target : Nat]
  PROVE  Normalized(m, act) \in NormalActions
BY DEF Normalized, NormalActions, Kinds, TargetsAMode, Action, Stay

(* The word of an action loses nothing of it.                              *)
LEMMA PackIsUndone ==
  ASSUME NEW act \in NormalActions, act.kind # "stay", 4 * act.target + 3 <= WordMax
  PROVE  /\ Pack(act) \in Nat \ {0}
         /\ Unpack(Pack(act)) = act
<1> DEFINE index == CHOOSE i \in DOMAIN KindOf : KindOf[i] = act.kind
<1>1. /\ DOMAIN KindOf = 1 .. 4
      /\ KindOf[1] = "stay" /\ KindOf[2] = "go_to" /\ KindOf[3] = "push" /\ KindOf[4] = "pop"
  BY DEF KindOf
<1>2. \E i \in DOMAIN KindOf : KindOf[i] = act.kind
  BY <1>1 DEF NormalActions, Kinds
<1>3. index \in 1 .. 4 /\ KindOf[index] = act.kind /\ index # 1
  <2>1. index \in DOMAIN KindOf /\ KindOf[index] = act.kind
    BY <1>2
  <2> HIDE DEF index
  <2>2. QED
    BY <1>1, <2>1
<1>4. Pack(act) = (index - 1 + 4 * act.target) % (WordMax + 1)
  BY DEF Pack
<1> HIDE DEF index
<1>5. act.target \in Nat /\ WordMax \in Nat
  BY WordAssumption DEF NormalActions
<1>6. /\ index - 1 + 4 * act.target \in 1 .. WordMax
  BY <1>3, <1>5
<1>7. Pack(act) = index - 1 + 4 * act.target
  BY <1>4, <1>5, <1>6
<1>8. Pack(act) % 4 = index - 1 /\ Pack(act) \div 4 = act.target
  BY <1>3, <1>5, <1>7
<1>9. Unpack(Pack(act)) = [kind |-> act.kind, target |-> act.target]
  BY <1>3, <1>8 DEF Unpack, Action
<1>10. act = [kind |-> act.kind, target |-> act.target]
  BY DEF NormalActions
<1>11. QED
  BY <1>6, <1>7, <1>9, <1>10

(* The list of one mode, and of all of them, as recursions.                *)
LEMMA ActionsOfSteps ==
  ASSUME NEW i, Len(registered[i]) \in Nat
  PROVE  \E f : /\ f[0] = << >>
                /\ \A n \in 1 .. Len(registered[i]) : f[n] = IF registered[i][n].action.kind = "stay" THEN f[n - 1]
                             ELSE Append(f[n - 1], Listing(i, registered[i][n]))
                /\ ActionsOf(i) = f[Len(registered[i])]
<1> DEFINE N == Len(registered[i])
           Step(s, n) == IF registered[i][n].action.kind = "stay" THEN s ELSE Append(s, Listing(i, registered[i][n]))
           Is(f, k) == f = [ n \in 0 .. k |-> IF n = 0 THEN << >> ELSE Step(f[n - 1], n) ]
           S == { k \in 0 .. N : \E f : Is(f, k) }
<1>0. N \in Nat
  OBVIOUS
<1>1. 0 \in S
  <2>1. Is([n \in 0 .. 0 |-> << >>], 0)
    OBVIOUS
  <2> HIDE DEF Is
  <2>2. QED
    BY <1>0, <2>1
<1>2. ASSUME NEW k \in 0 .. N - 1, k \in S PROVE k + 1 \in S
  <2>0. k + 1 \in 0 .. N /\ k \in Nat
    BY <1>0
  <2>1. PICK f : Is(f, k)
    BY <1>2
  <2> DEFINE g == [ n \in 0 .. k + 1 |-> IF n = k + 1 THEN Step(f[k], n) ELSE f[n] ]
  <2>2. \A n \in 0 .. k : g[n] = f[n]
    BY <2>0
  <2>3. ASSUME NEW n \in 0 .. k + 1
        PROVE  g[n] = IF n = 0 THEN << >> ELSE Step(g[n - 1], n)
    <3>1. CASE n = k + 1
      <4>1. g[n] = Step(f[k], n) /\ n # 0 /\ g[n - 1] = f[k]
        BY <3>1, <2>0, <2>2
      <4> HIDE DEF g
      <4> QED
        BY <4>1, <3>1
    <3>2. CASE n \in 0 .. k
      <4>1. g[n] = f[n] /\ (n # 0 => n - 1 \in 0 .. k /\ g[n - 1] = f[n - 1])
        BY <3>2, <2>2, <2>0
      <4>2. f[n] = IF n = 0 THEN << >> ELSE Step(f[n - 1], n)
        <5> HIDE DEF Step
        <5> QED
          BY <2>1, <3>2
      <4> HIDE DEF g, Step
      <4> QED
        BY <4>1, <4>2
    <3>3. QED
      BY <3>1, <3>2, <2>0
  <2>4. g = [ n \in 0 .. k + 1 |-> g[n] ]
    OBVIOUS
  <2> HIDE DEF g
  <2>5. Is(g, k + 1)
    BY <2>3, <2>4
  <2> HIDE DEF Is
  <2>6. \E h : Is(h, k + 1)
    BY <2>5
  <2>7. QED
    BY <2>6, <2>0
<1> HIDE DEF S
<1>3. N \in S
  <2> HIDE DEF N
  <2>1. 0 .. N \subseteq S
    BY <1>0, <1>1, <1>2, UpTo
  <2>2. QED
    BY <1>0, <2>1
<1>4. \E f : Is(f, N)
  BY <1>3 DEF S
<1> DEFINE of == CHOOSE f : Is(f, N)
<1>5. ActionsOf(i) = of[N]
  BY DEF ActionsOf
<1>6. Is(of, N)
  <2> HIDE DEF Is
  <2> QED
    BY <1>4
<1>7. ASSUME NEW f, Is(f, N)
      PROVE  f[0] = << >> /\ \A n \in 1 .. N : f[n] = Step(f[n - 1], n)
  <2> HIDE DEF N, Step
  <2> QED
    BY <1>0, <1>7
<1>8. of[0] = << >> /\ \A n \in 1 .. N : of[n] = Step(of[n - 1], n)
  <2> HIDE DEF Is, of
  <2> QED
    BY <1>6, <1>7
<1>9. QED
  <2> HIDE DEF Is, of
  <2> QED
    BY <1>5, <1>8

LEMMA ModeActionsSteps ==
  ASSUME Len(registered) \in Nat
  PROVE  \E f : /\ f[0] = << >>
                /\ \A n \in 1 .. Len(registered) : f[n] = f[n - 1] \o ActionsOf(n)
                /\ ModeActions = f[Len(registered)]
<1> DEFINE N == Len(registered)
           Step(s, n) == s \o ActionsOf(n)
           Is(f, k) == f = [ n \in 0 .. k |-> IF n = 0 THEN << >> ELSE Step(f[n - 1], n) ]
           S == { k \in 0 .. N : \E f : Is(f, k) }
<1>0. N \in Nat
  OBVIOUS
<1>1. 0 \in S
  <2>1. Is([n \in 0 .. 0 |-> << >>], 0)
    OBVIOUS
  <2> HIDE DEF Is
  <2>2. QED
    BY <1>0, <2>1
<1>2. ASSUME NEW k \in 0 .. N - 1, k \in S PROVE k + 1 \in S
  <2>0. k + 1 \in 0 .. N /\ k \in Nat
    BY <1>0
  <2>1. PICK f : Is(f, k)
    BY <1>2
  <2> DEFINE g == [ n \in 0 .. k + 1 |-> IF n = k + 1 THEN Step(f[k], n) ELSE f[n] ]
  <2>2. \A n \in 0 .. k : g[n] = f[n]
    BY <2>0
  <2>3. ASSUME NEW n \in 0 .. k + 1
        PROVE  g[n] = IF n = 0 THEN << >> ELSE Step(g[n - 1], n)
    <3>1. CASE n = k + 1
      <4>1. n - 1 = k /\ n # 0 /\ k \in 0 .. k /\ n \in 0 .. k + 1
        BY <3>1, <2>0
      <4>2. g[n] = Step(f[k], n)
        BY <3>1, <4>1
      <4>3. g[n - 1] = f[k]
        BY <2>2, <4>1
      <4> HIDE DEF g
      <4> QED
        BY <4>1, <4>2, <4>3, <3>1
    <3>2. CASE n \in 0 .. k
      <4>1. g[n] = f[n] /\ (n # 0 => n - 1 \in 0 .. k /\ g[n - 1] = f[n - 1])
        BY <3>2, <2>2, <2>0
      <4>2. f[n] = IF n = 0 THEN << >> ELSE Step(f[n - 1], n)
        <5> HIDE DEF Step
        <5> QED
          BY <2>1, <3>2
      <4> HIDE DEF g, Step
      <4> QED
        BY <4>1, <4>2
    <3>3. QED
      BY <3>1, <3>2, <2>0
  <2>4. g = [ n \in 0 .. k + 1 |-> g[n] ]
    OBVIOUS
  <2> HIDE DEF g
  <2>5. Is(g, k + 1)
    BY <2>3, <2>4
  <2> HIDE DEF Is
  <2>6. \E h : Is(h, k + 1)
    BY <2>5
  <2>7. QED
    BY <2>6, <2>0
<1> HIDE DEF S
<1>3. N \in S
  <2> HIDE DEF N
  <2>1. 0 .. N \subseteq S
    BY <1>0, <1>1, <1>2, UpTo
  <2>2. QED
    BY <1>0, <2>1
<1>4. \E f : Is(f, N)
  BY <1>3 DEF S
<1> DEFINE of == CHOOSE f : Is(f, N)
<1>5. ModeActions = of[N]
  BY DEF ModeActions
<1>6. Is(of, N)
  <2> HIDE DEF Is
  <2> QED
    BY <1>4
<1>7. ASSUME NEW f, Is(f, N)
      PROVE  f[0] = << >> /\ \A n \in 1 .. N : f[n] = Step(f[n - 1], n)
  <2> HIDE DEF N, Step
  <2> QED
    BY <1>0, <1>7
<1>8. of[0] = << >> /\ \A n \in 1 .. N : of[n] = Step(of[n - 1], n)
  <2> HIDE DEF Is, of
  <2> QED
    BY <1>6, <1>7
<1>9. QED
  <2> HIDE DEF Is, of
  <2> QED
    BY <1>5, <1>8

----------------------------------------------------------------------------
(* What a sequence holds, wherever it holds it.                            *)
Held(s, e) == \E x \in DOMAIN s : s[x] = e

LEMMA HeldAppend ==
  ASSUME NEW T, NEW s \in Seq(T), NEW v \in T
  PROVE  /\ Append(s, v) \in Seq(T)
         /\ \A e : Held(Append(s, v), e) <=> Held(s, e) \/ e = v
<1> DEFINE longer == Append(s, v)
<1>1. /\ longer \in Seq(T) /\ Len(s) \in Nat /\ Len(longer) = Len(s) + 1
      /\ DOMAIN s = 1 .. Len(s) /\ DOMAIN longer = 1 .. Len(longer)
      /\ \A x \in 1 .. Len(s) : longer[x] = s[x]
      /\ longer[Len(s) + 1] = v
  OBVIOUS
<1> HIDE DEF longer
<1>2. \A x : x \in 1 .. Len(longer) <=> x \in 1 .. Len(s) \/ x = Len(s) + 1
  BY <1>1
<1>3. QED
  BY <1>1, <1>2 DEF Held, longer

LEMMA HeldConcat ==
  ASSUME NEW T, NEW s \in Seq(T), NEW t \in Seq(T)
  PROVE  /\ s \o t \in Seq(T)
         /\ \A e : Held(s \o t, e) <=> Held(s, e) \/ Held(t, e)
<1> DEFINE both == s \o t
<1>1. /\ both \in Seq(T) /\ Len(s) \in Nat /\ Len(t) \in Nat /\ Len(both) = Len(s) + Len(t)
      /\ DOMAIN s = 1 .. Len(s) /\ DOMAIN t = 1 .. Len(t) /\ DOMAIN both = 1 .. Len(both)
      /\ \A x \in 1 .. Len(s) : both[x] = s[x]
      /\ \A x \in 1 .. Len(t) : both[Len(s) + x] = t[x]
  OBVIOUS
<1> HIDE DEF both
<1>2. \A x \in 1 .. Len(both) : x \in 1 .. Len(s) \/ (x - Len(s) \in 1 .. Len(t) /\ x = Len(s) + (x - Len(s)))
  BY <1>1
<1>3. \A x \in 1 .. Len(s) : x \in 1 .. Len(both)
  BY <1>1
<1>4. \A x \in 1 .. Len(t) : Len(s) + x \in 1 .. Len(both)
  BY <1>1
<1>5. ASSUME NEW e PROVE Held(both, e) <=> Held(s, e) \/ Held(t, e)
  <2>1. ASSUME NEW x \in DOMAIN both, both[x] = e PROVE Held(s, e) \/ Held(t, e)
    <3>1. CASE x \in 1 .. Len(s)
      BY <1>1, <2>1, <3>1 DEF Held
    <3>2. CASE x - Len(s) \in 1 .. Len(t) /\ x = Len(s) + (x - Len(s))
      <4> DEFINE y == x - Len(s)
      <4>1. y \in DOMAIN t /\ t[y] = both[Len(s) + y]
        BY <1>1, <3>2
      <4>2. both[Len(s) + y] = e
        BY <2>1, <3>2
      <4>3. QED
        BY <4>1, <4>2 DEF Held
    <3>3. QED
      BY <1>1, <1>2, <2>1, <3>1, <3>2
  <2>2. ASSUME NEW x \in DOMAIN s, s[x] = e PROVE Held(both, e)
    BY <1>1, <1>3, <2>2 DEF Held
  <2>3. ASSUME NEW x \in DOMAIN t, t[x] = e PROVE Held(both, e)
    <3>1. Len(s) + x \in DOMAIN both /\ both[Len(s) + x] = e
      BY <1>1, <1>4, <2>3
    <3>2. QED
      BY <3>1 DEF Held
  <2>4. QED
    BY <2>1, <2>2, <2>3 DEF Held
<1>6. QED
  BY <1>1, <1>5 DEF both

LEMMA PackIsWord ==
  ASSUME NEW act \in NormalActions
  PROVE  Pack(act) \in Nat
<1> DEFINE index == CHOOSE i \in DOMAIN KindOf : KindOf[i] = act.kind
<1>1. /\ DOMAIN KindOf = 1 .. 4
      /\ KindOf[1] = "stay" /\ KindOf[2] = "go_to" /\ KindOf[3] = "push" /\ KindOf[4] = "pop"
  BY DEF KindOf
<1>2. \E i \in DOMAIN KindOf : KindOf[i] = act.kind
  BY <1>1 DEF NormalActions, Kinds
<1>3. index \in 1 .. 4
  BY <1>1, <1>2
<1>4. Pack(act) = IF act.kind = "stay" THEN 0 ELSE (index - 1 + 4 * act.target) % (WordMax + 1)
  BY DEF Pack
<1> HIDE DEF index
<1>5. act.target \in Nat /\ WordMax \in Nat
  BY WordAssumption DEF NormalActions
<1>6. (index - 1 + 4 * act.target) % (WordMax + 1) \in Nat
  BY <1>3, <1>5
<1>7. QED
  BY <1>4, <1>6

LEMMA ListingIsListed ==
  ASSUME NEW i \in Nat \ {0}, NEW entry \in Entries
  PROVE  Listing(i, entry) \in Listings
<1>1. Pack(entry.action) \in Nat
  BY PackIsWord DEF Entries
<1>2. i - 1 \in Nat /\ entry.token \in TokenIds
  BY DEF Entries
<1>3. QED
  BY <1>1, <1>2 DEF Listing, Listings

(* The lists hold the tokens that act, and nothing else.                   *)
Acts(entry) == entry.action.kind # "stay"

LEMMA ActionsOfHeld ==
  ASSUME NEW i \in Nat \ {0}, registered[i] \in Seq(Entries)
  PROVE  /\ ActionsOf(i) \in Seq(Listings)
         /\ \A e : Held(ActionsOf(i), e) <=>
              \E j \in DOMAIN registered[i] :
                Acts(registered[i][j]) /\ e = Listing(i, registered[i][j])
<1> DEFINE row == registered[i]
           N == Len(row)
<1>1. N \in Nat /\ DOMAIN row = 1 .. N /\ \A j \in 1 .. N : row[j] \in Entries
  OBVIOUS
<1>2. PICK f : /\ f[0] = << >>
               /\ \A n \in 1 .. N : f[n] = IF row[n].action.kind = "stay" THEN f[n - 1]
                                           ELSE Append(f[n - 1], Listing(i, row[n]))
               /\ ActionsOf(i) = f[N]
  BY <1>1, ActionsOfSteps
<1> DEFINE Lists(n) == /\ f[n] \in Seq(Listings)
                       /\ \A e : Held(f[n], e) <=> \E j \in 1 .. n : Acts(row[j]) /\ e = Listing(i, row[j])
           S == { n \in 0 .. N : Lists(n) }
<1> HIDE DEF row
<1>3. 0 \in S
  <2>1. << >> \in Seq(Listings) /\ \A e : ~ Held(<< >>, e)
    BY DEF Held
  <2>2. 1 .. 0 = {} /\ 0 \in 0 .. N
    BY <1>1
  <2>3. Lists(0)
    BY <1>2, <2>1, <2>2
  <2> HIDE DEF Lists
  <2>4. QED
    BY <2>2, <2>3
<1>4. ASSUME NEW n \in 0 .. N - 1, n \in S PROVE n + 1 \in S
  <2>0. /\ n + 1 \in 1 .. N /\ n + 1 \in 0 .. N /\ (n + 1) - 1 = n
        /\ \A j : j \in 1 .. n + 1 <=> j \in 1 .. n \/ j = n + 1
    BY <1>1
  <2>1. Lists(n)
    BY <1>4
  <2>2. f[n + 1] = IF Acts(row[n + 1]) THEN Append(f[n], Listing(i, row[n + 1])) ELSE f[n]
    BY <1>2, <2>0 DEF Acts
  <2>3. CASE ~ Acts(row[n + 1])
    <3>1. Lists(n + 1)
      BY <2>0, <2>1, <2>2, <2>3
    <3> HIDE DEF Lists
    <3>2. QED
      BY <2>0, <3>1
  <2>4. CASE Acts(row[n + 1])
    <3>1. Listing(i, row[n + 1]) \in Listings
      BY <1>1, <2>0, ListingIsListed
    <3>2. /\ f[n + 1] \in Seq(Listings)
          /\ \A e : Held(f[n + 1], e) <=> Held(f[n], e) \/ e = Listing(i, row[n + 1])
      BY <2>1, <2>2, <2>4, <3>1, HeldAppend
    <3>3. ASSUME NEW e
          PROVE  Held(f[n + 1], e) <=> \E j \in 1 .. n + 1 : Acts(row[j]) /\ e = Listing(i, row[j])
      BY <2>0, <2>1, <2>4, <3>2
    <3>4. Lists(n + 1)
      BY <3>2, <3>3
    <3> HIDE DEF Lists
    <3>5. QED
      BY <2>0, <3>4
  <2>5. QED
    BY <2>3, <2>4
<1>5. Lists(N)
  <2>1. N \in S
    <3> HIDE DEF S, N
    <3>1. 0 .. N \subseteq S
      BY <1>1, <1>3, <1>4, UpTo
    <3>2. QED
      BY <1>1, <3>1
  <2>2. QED
    BY <2>1
<1>6. QED
  BY <1>1, <1>2, <1>5 DEF row

LEMMA ModeActionsHeld ==
  ASSUME registered \in Seq(Seq(Entries))
  PROVE  /\ ModeActions \in Seq(Listings)
         /\ \A e : Held(ModeActions, e) <=>
              \E i \in DOMAIN registered : \E j \in DOMAIN registered[i] :
                Acts(registered[i][j]) /\ e = Listing(i, registered[i][j])
<1> DEFINE N == Len(registered)
           Has(i, e) == \E j \in DOMAIN registered[i] :
                          Acts(registered[i][j]) /\ e = Listing(i, registered[i][j])
<1>1. N \in Nat /\ DOMAIN registered = 1 .. N /\ \A i \in 1 .. N : registered[i] \in Seq(Entries)
  OBVIOUS
<1>2. PICK f : /\ f[0] = << >>
               /\ \A n \in 1 .. N : f[n] = f[n - 1] \o ActionsOf(n)
               /\ ModeActions = f[N]
  BY <1>1, ModeActionsSteps
<1>3. \A n \in 1 .. N : /\ ActionsOf(n) \in Seq(Listings)
                        /\ \A e : Held(ActionsOf(n), e) <=> Has(n, e)
  <2> SUFFICES ASSUME NEW n \in 1 .. N
               PROVE  /\ ActionsOf(n) \in Seq(Listings)
                      /\ \A e : Held(ActionsOf(n), e) <=> Has(n, e)
    OBVIOUS
  <2>1. n \in Nat \ {0} /\ registered[n] \in Seq(Entries)
    BY <1>1
  <2>2. QED
    BY <2>1, ActionsOfHeld
<1> DEFINE Lists(n) == /\ f[n] \in Seq(Listings)
                       /\ \A e : Held(f[n], e) <=> \E i \in 1 .. n : Has(i, e)
           S == { n \in 0 .. N : Lists(n) }
<1> HIDE DEF Has
<1>4. 0 \in S
  <2>1. << >> \in Seq(Listings) /\ \A e : ~ Held(<< >>, e)
    BY DEF Held
  <2>2. 1 .. 0 = {} /\ 0 \in 0 .. N
    BY <1>1
  <2>3. Lists(0)
    BY <1>2, <2>1, <2>2
  <2> HIDE DEF Lists
  <2>4. QED
    BY <2>2, <2>3
<1>5. ASSUME NEW n \in 0 .. N - 1, n \in S PROVE n + 1 \in S
  <2>0. /\ n + 1 \in 1 .. N /\ n + 1 \in 0 .. N /\ (n + 1) - 1 = n
        /\ \A i : i \in 1 .. n + 1 <=> i \in 1 .. n \/ i = n + 1
    BY <1>1
  <2>1. Lists(n)
    BY <1>5
  <2>2. f[n + 1] = f[n] \o ActionsOf(n + 1)
    BY <1>2, <2>0
  <2>3. /\ ActionsOf(n + 1) \in Seq(Listings)
        /\ \A e : Held(ActionsOf(n + 1), e) <=> Has(n + 1, e)
    BY <1>3, <2>0
  <2>4. /\ f[n + 1] \in Seq(Listings)
        /\ \A e : Held(f[n + 1], e) <=> Held(f[n], e) \/ Held(ActionsOf(n + 1), e)
    BY <2>1, <2>2, <2>3, HeldConcat
  <2>5. ASSUME NEW e PROVE Held(f[n + 1], e) <=> \E i \in 1 .. n + 1 : Has(i, e)
    BY <2>0, <2>1, <2>3, <2>4
  <2>6. Lists(n + 1)
    BY <2>4, <2>5
  <2> HIDE DEF Lists
  <2>7. QED
    BY <2>0, <2>6
<1>6. Lists(N)
  <2>1. N \in S
    <3> HIDE DEF S, N
    <3>1. 0 .. N \subseteq S
      BY <1>1, <1>4, <1>5, UpTo
    <3>2. QED
      BY <1>1, <3>1
  <2>2. QED
    BY <2>1
<1>7. QED
  BY <1>1, <1>2, <1>6 DEF Has

----------------------------------------------------------------------------
(* The payload of a token is the word of its one acting entry.             *)
LEMMA RowPayload ==
  ASSUME OneEntryEach, registered \in Seq(Seq(Entries)),
         NEW i \in DOMAIN registered, NEW j \in DOMAIN registered[i], Acts(registered[i][j])
  PROVE  PayloadOf(i, registered[i][j].token) = Pack(registered[i][j].action)
<1> DEFINE t == registered[i][j].token
           acting == { k \in DOMAIN registered[i] :
                         registered[i][k].token = t /\ registered[i][k].action.kind # "stay" }
           last == CHOOSE k \in acting : \A l \in acting : l <= k
<1>1. acting = {j}
  BY DEF OneEntryEach, Acts
<1>2. j \in Nat
  OBVIOUS
<1>3. PayloadOf(i, t) = IF acting = {} THEN 0 ELSE Pack(registered[i][last].action)
  BY DEF PayloadOf
<1>4. last = j
  <2> HIDE DEF acting
  <2>1. \E k \in acting : \A l \in acting : l <= k
    BY <1>1, <1>2
  <2>2. last \in acting
    BY <2>1
  <2>3. QED
    BY <1>1, <2>2
<1> HIDE DEF acting, last
<1>5. QED
  BY <1>1, <1>3, <1>4

LEMMA NoPayload ==
  ASSUME NEW i, NEW t, \A j \in DOMAIN registered[i] : Acts(registered[i][j]) => registered[i][j].token # t
  PROVE  PayloadOf(i, t) = 0
BY DEF PayloadOf, Acts

(* The token an empty input matches is one of the mode's.                  *)
LEMMA EmptyMatchIsToken ==
  ASSUME NEW patterns \in SUBSET Patterns
  PROVE  EmptyMatch(patterns) \in TokenIds \cup {NoToken}
<1> DEFINE empty == { p \in patterns : p.empty }
           Before(p, q) == p.priority < q.priority \/ (p.priority = q.priority /\ p.token <= q.token)
           first == CHOOSE p \in empty : \A q \in empty : Before(p, q)
<1>1. EmptyMatch(patterns) = IF empty = {} THEN NoToken ELSE first.token
  BY DEF EmptyMatch
<1>2. \A p \in empty : p.priority \in Nat /\ p.token \in Nat /\ p.token \in TokenIds
  BY BuilderAssumption
<1>3. ASSUME empty # {} PROVE first \in empty
  <2> DEFINE priorities == { p.priority : p \in empty }
  <2>1. priorities \in SUBSET Nat /\ priorities # {}
    <3> HIDE DEF empty
    <3> QED
      BY <1>2, <1>3
  <2>2. PICK least \in priorities : \A n \in priorities : least <= n
    <3> HIDE DEF priorities
    <3> QED
      BY <2>1, LeastNatural
  <2> DEFINE tied == { p \in empty : p.priority = least }
             ids == { p.token : p \in tied }
  <2>3. ids \in SUBSET Nat /\ ids # {}
    <3> HIDE DEF empty
    <3> QED
      BY <1>2, <2>2
  <2>4. PICK id \in ids : \A n \in ids : id <= n
    <3> HIDE DEF ids
    <3> QED
      BY <2>3, LeastNatural
  <2>5. PICK p \in empty : p.priority = least /\ p.token = id
    <3> HIDE DEF empty
    <3> QED
      BY <2>4
  <2>6. ASSUME NEW q \in empty PROVE Before(p, q)
    <3>1. least <= q.priority /\ (q.priority = least => id <= q.token)
      <4> HIDE DEF empty
      <4> QED
        BY <2>2, <2>4
    <3>2. least \in Nat /\ q.priority \in Nat
      BY <1>2, <2>5
    <3>3. QED
      BY <2>5, <3>1, <3>2
  <2> HIDE DEF empty, Before
  <2>7. QED
    BY <2>5, <2>6
<1> HIDE DEF empty, first
<1>4. QED
  BY <1>1, <1>2, <1>3

(* What build() makes of the registrations.                                *)
Lexed ==
  [ modes   |-> Len(modes),
    payload |-> [ m \in 0 .. Len(modes) - 1 |-> [ t \in TokenIds |-> PayloadOf(m + 1, t) ] ],
    actions |-> ModeActions,
    empty   |-> [ m \in 0 .. Len(modes) - 1 |-> EmptyMatch(modes[m + 1]) ] ]

(* Every target fits the word: a mode with its index was registered.       *)
LEMMA TargetsFit ==
  ASSUME BuilderInv, Buildable, NEW i \in DOMAIN registered, NEW j \in DOMAIN registered[i]
  PROVE  /\ registered[i][j] \in Entries
         /\ TargetsAMode(registered[i][j].action) => registered[i][j].action.target \in 0 .. Len(modes) - 1
         /\ 4 * registered[i][j].action.target + 3 <= WordMax
<1> DEFINE act == registered[i][j].action
<1>1. registered[i][j] \in Entries
  BY DEF BuilderInv
<1>2. act \in NormalActions
  BY <1>1 DEF Entries
<1>3. act.target \in Nat /\ (~ TargetsAMode(act) => act.target = 0)
  BY <1>2 DEF NormalActions
<1>4. Len(modes) \in Nat
  BY DEF BuilderInv
<1>5. PICK m \in Modes : Len(modes) = m + 1
  BY DEF BuilderInv, Buildable
<1>6. TargetsAMode(act) => act.target < Len(modes)
  BY DEF Buildable, TargetsExist
<1> HIDE DEF act
<1>7. m \in Nat /\ 4 * m + 3 <= WordMax /\ WordMax \in Nat
  BY BuilderAssumption, WordAssumption
<1>8. act.target <= m
  BY <1>3, <1>4, <1>5, <1>6, <1>7
<1>9. 4 * act.target + 3 <= WordMax
  BY <1>3, <1>7, <1>8
<1>10. QED
  BY <1>1, <1>3, <1>4, <1>6, <1>9 DEF act

(* A word that is listed for a token of a mode is that of its entry there, *)
(* and so is the payload.                                                  *)
LEMMA LexedTables ==
  ASSUME BuilderInv, Buildable, NEW m \in 0 .. Len(modes) - 1, NEW t \in TokenIds
  PROVE  LET entry == registered[m + 1]
         IN /\ m + 1 \in DOMAIN registered
            /\ Lexed.payload[m][t] = PayloadOf(m + 1, t)
            /\ \A j \in DOMAIN entry :
                 entry[j].token = t /\ Acts(entry[j]) =>
                   /\ PayloadOf(m + 1, t) = Pack(entry[j].action)
                   /\ Pack(entry[j].action) # 0
                   /\ Unpack(Pack(entry[j].action)) = entry[j].action
            /\ (\A j \in DOMAIN entry : Acts(entry[j]) => entry[j].token # t) => PayloadOf(m + 1, t) = 0
<1> DEFINE i == m + 1
<1>1. /\ registered \in Seq(Seq(Entries)) /\ Len(modes) \in Nat /\ Len(registered) = Len(modes)
      /\ OneEntryEach
  BY DEF BuilderInv
<1>2. i \in DOMAIN registered
  BY <1>1
<1>3. Lexed.payload[m][t] = PayloadOf(i, t)
  BY DEF Lexed
<1> HIDE DEF i
<1>4. ASSUME NEW j \in DOMAIN registered[i], registered[i][j].token = t, Acts(registered[i][j])
      PROVE  /\ PayloadOf(i, t) = Pack(registered[i][j].action)
             /\ Pack(registered[i][j].action) # 0
             /\ Unpack(Pack(registered[i][j].action)) = registered[i][j].action
  <2>1. PayloadOf(i, t) = Pack(registered[i][j].action)
    BY <1>1, <1>2, <1>4, RowPayload
  <2>2. registered[i][j].action \in NormalActions /\ 4 * registered[i][j].action.target + 3 <= WordMax
    BY <1>2, TargetsFit DEF Entries
  <2>3. registered[i][j].action.kind # "stay"
    BY <1>4 DEF Acts
  <2>4. QED
    BY <2>1, <2>2, <2>3, PackIsUndone
<1>5. (\A j \in DOMAIN registered[i] : Acts(registered[i][j]) => registered[i][j].token # t) => PayloadOf(i, t) = 0
  BY NoPayload
<1>6. QED
  BY <1>2, <1>3, <1>4, <1>5 DEF i

LEMMA LexedLists ==
  ASSUME BuilderInv, Buildable
  PROVE  ListsItsPayloads(Lexed)
<1>1. /\ registered \in Seq(Seq(Entries)) /\ Len(modes) \in Nat /\ Len(registered) = Len(modes)
      /\ DOMAIN registered = 1 .. Len(modes)
  BY DEF BuilderInv
<1>2. Lexed.actions = ModeActions /\ Lexed.modes = Len(modes)
  BY DEF Lexed
<1>3. /\ ModeActions \in Seq(Listings)
      /\ \A e : Held(ModeActions, e) <=>
           \E i \in DOMAIN registered : \E j \in DOMAIN registered[i] :
             Acts(registered[i][j]) /\ e = Listing(i, registered[i][j])
  BY <1>1, ModeActionsHeld
<1>4. DOMAIN ModeActions \subseteq Nat
  BY <1>3
<1>5. ASSUME NEW m \in 0 .. Len(modes) - 1, NEW t \in TokenIds
      PROVE  LET listed == { x \in DOMAIN ModeActions :
                               ModeActions[x].mode = m /\ ModeActions[x].token = t }
             IN IF listed = {} THEN Lexed.payload[m][t] = 0
                ELSE \A x \in listed : ModeActions[x].action = Lexed.payload[m][t]
  <2> DEFINE row == registered[m + 1]
             listed == { x \in DOMAIN ModeActions : ModeActions[x].mode = m /\ ModeActions[x].token = t }
  <2>1. /\ m + 1 \in DOMAIN registered /\ (m + 1) - 1 = m
        /\ Lexed.payload[m][t] = PayloadOf(m + 1, t)
        /\ \A j \in DOMAIN row :
             row[j].token = t /\ Acts(row[j]) => PayloadOf(m + 1, t) = Pack(row[j].action)
        /\ (\A j \in DOMAIN row : Acts(row[j]) => row[j].token # t) => PayloadOf(m + 1, t) = 0
    <3>1. (m + 1) - 1 = m
      BY <1>1
    <3>2. QED
      BY <3>1, LexedTables
  <2>2. ASSUME NEW x \in listed PROVE ModeActions[x].action = Lexed.payload[m][t]
    <3>1. Held(ModeActions, ModeActions[x])
      BY DEF Held
    <3>2. PICK i \in DOMAIN registered : \E j \in DOMAIN registered[i] :
            Acts(registered[i][j]) /\ ModeActions[x] = Listing(i, registered[i][j])
      BY <1>3, <3>1
    <3>3. PICK j \in DOMAIN registered[i] :
            Acts(registered[i][j]) /\ ModeActions[x] = Listing(i, registered[i][j])
      BY <3>2
    <3>4. i - 1 = m /\ registered[i][j].token = t /\ ModeActions[x].action = Pack(registered[i][j].action)
      BY <3>3 DEF Listing
    <3>5. i = m + 1
      BY <1>1, <3>4
    <3>6. QED
      BY <2>1, <3>3, <3>4, <3>5
  <2>3. ASSUME listed = {} PROVE Lexed.payload[m][t] = 0
    <3>1. ASSUME NEW j \in DOMAIN row, Acts(row[j]), row[j].token = t PROVE FALSE
      <4>1. Held(ModeActions, Listing(m + 1, row[j]))
        BY <1>3, <2>1, <3>1
      <4>2. PICK x \in DOMAIN ModeActions : ModeActions[x] = Listing(m + 1, row[j])
        BY <4>1 DEF Held
      <4>3. ModeActions[x].mode = m /\ ModeActions[x].token = t
        BY <2>1, <3>1, <4>2 DEF Listing
      <4>4. QED
        BY <2>3, <4>3
    <3>2. QED
      BY <2>1, <3>1
  <2>4. QED
    BY <2>2, <2>3
<1>6. QED
  BY <1>2, <1>4, <1>5 DEF ListsItsPayloads

LEMMA LexedActions ==
  ASSUME BuilderInv, Buildable, NEW m \in 0 .. Len(modes) - 1
  PROVE  LET row == registered[m + 1]
         IN /\ m + 1 \in DOMAIN registered
            /\ \A t \in TokenIds :
                 /\ PayloadAction(Lexed, m, t) = ActionOf(Lexed, m, t)
                 /\ \A j \in DOMAIN row :
                      row[j].token = t => PayloadAction(Lexed, m, t) = row[j].action
                 /\ (\A j \in DOMAIN row : Acts(row[j]) => row[j].token # t) =>
                      PayloadAction(Lexed, m, t) = Stay
<1> DEFINE row == registered[m + 1]
<1>1. ListsItsPayloads(Lexed) /\ ModesOf(Lexed) = 0 .. Len(modes) - 1
  BY LexedLists DEF Lexed, ModesOf
<1>2. SUFFICES ASSUME NEW t \in TokenIds
               PROVE  /\ PayloadAction(Lexed, m, t) = ActionOf(Lexed, m, t)
                      /\ \A j \in DOMAIN row :
                           row[j].token = t => PayloadAction(Lexed, m, t) = row[j].action
                      /\ (\A j \in DOMAIN row : Acts(row[j]) => row[j].token # t) =>
                           PayloadAction(Lexed, m, t) = Stay
  <2>1. m + 1 \in DOMAIN registered
    BY DEF BuilderInv
  <2>2. QED
    BY <2>1
<1>3. /\ PayloadAction(Lexed, m, t) = Unpack(PayloadOf(m + 1, t))
      /\ ActionOf(Lexed, m, t) = Unpack(PayloadOf(m + 1, t))
  <2>1. Lexed.payload[m][t] = PayloadOf(m + 1, t)
    BY LexedTables
  <2>2. QED
    BY <1>1, <2>1, ListedIsPayload
<1>4. (\A j \in DOMAIN row : Acts(row[j]) => row[j].token # t) => PayloadAction(Lexed, m, t) = Stay
  <2>1. (\A j \in DOMAIN row : Acts(row[j]) => row[j].token # t) => PayloadOf(m + 1, t) = 0
    BY LexedTables
  <2>2. QED
    BY <1>3, <2>1, ZeroIsStay
<1>5. ASSUME NEW j \in DOMAIN row, row[j].token = t PROVE PayloadAction(Lexed, m, t) = row[j].action
  <2>1. CASE Acts(row[j])
    <3>1. PayloadOf(m + 1, t) = Pack(row[j].action) /\ Unpack(Pack(row[j].action)) = row[j].action
      BY <1>5, <2>1, LexedTables
    <3>2. QED
      BY <1>3, <3>1
  <2>2. CASE ~ Acts(row[j])
    <3>1. m + 1 \in DOMAIN registered /\ row[j] \in Entries
      BY DEF BuilderInv
    <3>2. \A k \in DOMAIN row : row[k].token = t => k = j
      BY <1>5, <3>1 DEF BuilderInv, OneEntryEach
    <3>3. PayloadAction(Lexed, m, t) = Stay
      BY <1>4, <2>2, <3>2
    <3>4. row[j].action \in NormalActions /\ row[j].action.kind = "stay"
      BY <2>2, <3>1 DEF Acts, Entries
    <3>5. row[j].action = Stay
      BY <3>4 DEF NormalActions, TargetsAMode, Stay, Action
    <3>6. QED
      BY <3>3, <3>5
  <2>3. QED
    BY <2>1, <2>2
<1>6. QED
  BY <1>3, <1>4, <1>5

(* The lexer of registrations that may be built is as the two properties   *)
(* ask.                                                                    *)
LEMMA LexedApplies ==
  ASSUME BuilderInv, Buildable, NEW d \in declared
  PROVE  /\ PayloadAction(Lexed, d.mode, d.token) = Normalized(d.mode, d.action)
         /\ ActionOf(Lexed, d.mode, d.token) = Normalized(d.mode, d.action)
<1>1. IsKept(d) /\ Len(registered) = Len(modes)
  BY DEF BuilderInv
<1>2. d.mode \in 0 .. Len(modes) - 1 /\ d.token \in TokenIds
  BY <1>1 DEF IsKept
<1>3. PICK j \in DOMAIN registered[d.mode + 1] :
        registered[d.mode + 1][j] = [token |-> d.token, action |-> Normalized(d.mode, d.action)]
  BY <1>1 DEF IsKept
<1>4. /\ registered[d.mode + 1][j].token = d.token
      /\ registered[d.mode + 1][j].action = Normalized(d.mode, d.action)
  BY <1>3
<1>5. QED
  BY <1>2, <1>4, LexedActions

LEMMA LexedIsSafe ==
  ASSUME BuilderInv, Buildable, NEW m \in 0 .. Len(modes) - 1
  PROVE  /\ \A t \in TokenIds :
              TargetsAMode(PayloadAction(Lexed, m, t)) =>
                PayloadAction(Lexed, m, t).target \in 0 .. Len(modes) - 1
         /\ EmptyMatch(modes[m + 1]) # NoToken =>
              PayloadAction(Lexed, m, EmptyMatch(modes[m + 1])) = Stay
<1> DEFINE row == registered[m + 1]
<1>1. /\ m + 1 \in DOMAIN registered
      /\ m + 1 \in DOMAIN modes
      /\ modes[m + 1] \in SUBSET Patterns
  BY DEF BuilderInv
<1>2. ASSUME NEW t \in TokenIds, TargetsAMode(PayloadAction(Lexed, m, t))
      PROVE  PayloadAction(Lexed, m, t).target \in 0 .. Len(modes) - 1
  <2>1. ~ TargetsAMode(Stay)
    BY DEF TargetsAMode, Stay, Action
  <2>2. PICK j \in DOMAIN row : Acts(row[j]) /\ row[j].token = t
    BY <1>2, <2>1, LexedActions
  <2>3. PayloadAction(Lexed, m, t) = row[j].action
    BY <2>2, LexedActions
  <2>4. QED
    BY <1>1, <1>2, <2>3, TargetsFit
<1>3. ASSUME EmptyMatch(modes[m + 1]) # NoToken
      PROVE  PayloadAction(Lexed, m, EmptyMatch(modes[m + 1])) = Stay
  <2> DEFINE t == EmptyMatch(modes[m + 1])
  <2>1. t \in TokenIds
    BY <1>1, <1>3, EmptyMatchIsToken
  <2>2. \A j \in DOMAIN row : Acts(row[j]) => row[j].token # t
    BY <1>1 DEF Buildable, NullableStays, Acts
  <2> HIDE DEF t
  <2>3. PayloadAction(Lexed, m, t) = Stay
    BY <2>1, <2>2, LexedActions
  <2>4. QED
    BY <2>3 DEF t
<1>4. QED
  BY <1>2, <1>3

----------------------------------------------------------------------------
LEMMA InitBuilder == BuilderInit => BuilderInv
<1> SUFFICES ASSUME BuilderInit PROVE BuilderInv
  OBVIOUS
<1>1. modes = << >> /\ registered = << >> /\ declared = {} /\ promised = {} /\ built = NoLexer
  BY DEF BuilderInit
<1>2. modes \in Seq(SUBSET Patterns) /\ registered \in Seq(Seq(Entries)) /\ Len(registered) = Len(modes)
  BY <1>1
<1>3. OneEntryEach
  BY <1>1 DEF OneEntryEach
<1>4. DeclaredActionsApply /\ BuiltActionsAreSafe
  BY <1>1 DEF DeclaredActionsApply, BuiltActionsAreSafe, IsBuilt
<1>5. QED
  BY <1>1, <1>2, <1>3, <1>4 DEF BuilderInv

(* Growing rows to a mode that is registered.                              *)
Grown(T, rows, m, none, grown) ==
  /\ grown \in Seq(T)
  /\ Len(grown) = IF Len(rows) < m + 1 THEN m + 1 ELSE Len(rows)
  /\ Len(rows) <= Len(grown)
  /\ m + 1 \in 1 .. Len(grown)
  /\ \A i \in 1 .. Len(grown) : grown[i] = IF i <= Len(rows) THEN rows[i] ELSE none

LEMMA ResizeGrows ==
  ASSUME NEW T, NEW rows \in Seq(T), NEW m \in Nat, NEW none \in T
  PROVE  Grown(T, rows, m, none, ResizeTo(rows, m + 1, none))
<1> DEFINE size == IF Len(rows) < m + 1 THEN m + 1 ELSE Len(rows)
           grown == ResizeTo(rows, m + 1, none)
<1>1. size \in Nat /\ Len(rows) <= size /\ m + 1 \in 1 .. size
  OBVIOUS
<1>2. grown = [ i \in 1 .. size |-> IF i <= Len(rows) THEN rows[i] ELSE none ]
  BY DEF ResizeTo
<1> HIDE DEF size, grown
<1>3. \A i \in 1 .. size : (IF i <= Len(rows) THEN rows[i] ELSE none) \in T
  BY <1>1
<1>4. grown \in Seq(T) /\ Len(grown) = size
  BY <1>1, <1>2, <1>3
<1>5. QED
  BY <1>1, <1>2, <1>4 DEF grown, size, Grown

(* Registering keeps every entry where it is.                              *)
KeepsEntries ==
  \A i \in DOMAIN registered :
    /\ i \in DOMAIN registered'
    /\ \A j \in DOMAIN registered[i] :
         j \in DOMAIN registered'[i] /\ registered'[i][j] = registered[i][j]

LEMMA KeptStays ==
  ASSUME registered \in Seq(Seq(Entries)), registered' \in Seq(Seq(Entries)), KeepsEntries,
         NEW d, IsKept(d)
  PROVE  IsKept(d)'
<1>1. d.mode \in 0 .. Len(registered) - 1 /\ d.token \in TokenIds
  BY DEF IsKept
<1>2. PICK j \in DOMAIN registered[d.mode + 1] :
        registered[d.mode + 1][j] = [token |-> d.token, action |-> Normalized(d.mode, d.action)]
  BY DEF IsKept
<1>3. d.mode + 1 \in DOMAIN registered
  BY <1>1
<1>4. /\ d.mode + 1 \in DOMAIN registered'
      /\ j \in DOMAIN registered'[d.mode + 1]
      /\ registered'[d.mode + 1][j] = registered[d.mode + 1][j]
  BY <1>3 DEF KeepsEntries
<1>5. d.mode \in 0 .. Len(registered') - 1
  BY <1>1, <1>4
<1>6. QED
  BY <1>1, <1>2, <1>4, <1>5 DEF IsKept

(* The rows a registration in mode m finds once they are long enough.      *)
LEMMA GrownRows ==
  ASSUME BuilderInv, NEW m \in Modes
  PROVE  LET rows == ResizeTo(registered, m + 1, << >>)
             sets == ResizeTo(modes, m + 1, {})
         IN /\ rows \in Seq(Seq(Entries)) /\ sets \in Seq(SUBSET Patterns)
            /\ Len(rows) = Len(sets) /\ m + 1 \in 1 .. Len(rows)
            /\ Len(registered) <= Len(rows)
            /\ \E k \in Modes : Len(rows) = k + 1
            /\ \A i \in 1 .. Len(rows) :
                 rows[i] = IF i <= Len(registered) THEN registered[i] ELSE << >>
<1> DEFINE rows == ResizeTo(registered, m + 1, << >>)
           sets == ResizeTo(modes, m + 1, {})
<1>1. m \in Nat /\ << >> \in Seq(Entries) /\ {} \in SUBSET Patterns
  BY BuilderAssumption
<1>2. registered \in Seq(Seq(Entries)) /\ modes \in Seq(SUBSET Patterns) /\ Len(registered) = Len(modes)
      /\ (modes # << >> => \E k \in Modes : Len(modes) = k + 1)
  BY DEF BuilderInv
<1>3. /\ rows \in Seq(Seq(Entries))
      /\ Len(rows) = IF Len(registered) < m + 1 THEN m + 1 ELSE Len(registered)
      /\ Len(registered) <= Len(rows)
      /\ m + 1 \in 1 .. Len(rows)
      /\ \A i \in 1 .. Len(rows) : rows[i] = IF i <= Len(registered) THEN registered[i] ELSE << >>
  <2>1. Grown(Seq(Entries), registered, m, << >>, rows)
    BY <1>1, <1>2, ResizeGrows
  <2> HIDE DEF rows
  <2>2. QED
    BY <2>1 DEF Grown
<1>4. sets \in Seq(SUBSET Patterns) /\ Len(sets) = IF Len(modes) < m + 1 THEN m + 1 ELSE Len(modes)
  <2>1. Grown(SUBSET Patterns, modes, m, {}, sets)
    BY <1>1, <1>2, ResizeGrows
  <2> HIDE DEF sets
  <2>2. QED
    BY <2>1 DEF Grown
<1> HIDE DEF rows, sets
<1>5. \E k \in Modes : Len(rows) = k + 1
  <2>1. CASE Len(registered) < m + 1
    BY <1>3, <2>1
  <2>2. CASE ~ (Len(registered) < m + 1)
    <3>1. Len(modes) \in Nat /\ Len(modes) > 0 /\ modes # << >>
      BY <1>1, <1>2, <2>2
    <3>2. QED
      BY <1>2, <1>3, <2>2, <3>1
  <2>3. QED
    BY <2>1, <2>2
<1>6. QED
  BY <1>2, <1>3, <1>4, <1>5 DEF rows, sets

(* Both properties speak of what was built last, which no registration     *)
(* touches.                                                                *)
LEMMA BuiltStays ==
  ASSUME DeclaredActionsApply, BuiltActionsAreSafe, UNCHANGED <<built, promised>>
  PROVE  DeclaredActionsApply' /\ BuiltActionsAreSafe'
BY DEF DeclaredActionsApply, BuiltActionsAreSafe, IsBuilt

LEMMA GrownKeeps ==
  ASSUME BuilderInv, NEW m \in Modes, registered' = ResizeTo(registered, m + 1, << >>)
  PROVE  KeepsEntries /\ OneEntryEach'
<1>1. /\ registered \in Seq(Seq(Entries)) /\ registered' \in Seq(Seq(Entries))
      /\ Len(registered) <= Len(registered')
      /\ \A i \in 1 .. Len(registered') :
           registered'[i] = IF i <= Len(registered) THEN registered[i] ELSE << >>
  BY GrownRows DEF BuilderInv
<1>2. DOMAIN registered = 1 .. Len(registered) /\ DOMAIN registered' = 1 .. Len(registered')
      /\ Len(registered) \in Nat /\ Len(registered') \in Nat
  BY <1>1
<1>3. ASSUME NEW i \in DOMAIN registered
      PROVE  i \in DOMAIN registered' /\ registered'[i] = registered[i]
  <2>1. i \in 1 .. Len(registered)
    BY <1>2
  <2>2. i <= Len(registered) /\ i \in 1 .. Len(registered')
    BY <1>1, <1>2, <2>1
  <2>3. QED
    BY <1>1, <1>2, <2>2
<1>4. KeepsEntries
  BY <1>3 DEF KeepsEntries
<1>5. ASSUME NEW i \in DOMAIN registered',
             NEW j \in DOMAIN registered'[i], NEW k \in DOMAIN registered'[i],
             registered'[i][j].token = registered'[i][k].token
      PROVE  j = k
  <2>1. i <= Len(registered)
    <3>1. SUFFICES ASSUME ~ (i <= Len(registered)) PROVE FALSE
      OBVIOUS
    <3>2. registered'[i] = << >>
      BY <1>1, <1>2, <3>1
    <3>3. DOMAIN registered'[i] = {}
      BY <3>2
    <3>4. QED
      BY <3>3
  <2>2. i \in DOMAIN registered /\ registered'[i] = registered[i]
    BY <1>1, <1>2, <2>1
  <2>3. QED
    BY <1>5, <2>2 DEF BuilderInv, OneEntryEach
<1>6. QED
  BY <1>4, <1>5 DEF OneEntryEach

LEMMA AddConflictingKeeps ==
  ASSUME BuilderInv, UNCHANGED <<modes, registered, built, declared, promised>>
  PROVE  BuilderInv'
<1>1. DeclaredActionsApply' /\ BuiltActionsAreSafe'
  BY BuiltStays DEF BuilderInv
<1>2. QED
  BY <1>1 DEF BuilderInv, OneEntryEach, IsKept

LEMMA AddThrowsKeeps ==
  ASSUME BuilderInv, NEW m \in Modes, NEW t, NEW act, AddThrows(m, t, act)
  PROVE  BuilderInv'
<1>1. /\ modes' = ResizeTo(modes, m + 1, {})
      /\ registered' = ResizeTo(registered, m + 1, << >>)
      /\ UNCHANGED <<built, declared, promised>>
  BY DEF AddThrows
<1>2. /\ modes' \in Seq(SUBSET Patterns) /\ registered' \in Seq(Seq(Entries))
      /\ Len(registered') = Len(modes')
      /\ \E k \in Modes : Len(modes') = k + 1
  BY <1>1, GrownRows
<1>3. KeepsEntries /\ OneEntryEach'
  BY <1>1, GrownKeeps
<1>4. \A d \in declared' : IsKept(d)'
  BY <1>1, <1>2, <1>3, KeptStays DEF BuilderInv
<1>5. DeclaredActionsApply' /\ BuiltActionsAreSafe'
  BY <1>1, BuiltStays DEF BuilderInv
<1>6. QED
  BY <1>2, <1>3, <1>4, <1>5 DEF BuilderInv

(* A registration that does not conflict: the token's entry is the one it  *)
(* had, or is the last of its row.                                         *)
LEMMA AddTokenKeeps ==
  ASSUME BuilderInv, NEW m \in Modes, NEW p \in Patterns, NEW act \in Actions, AddToken(m, p, act)
  PROVE  BuilderInv'
<1> DEFINE rows == ResizeTo(registered, m + 1, << >>)
           sets == ResizeTo(modes, m + 1, {})
           entry == [token |-> p.token, action |-> Normalized(m, act)]
           d == [mode |-> m, token |-> p.token, action |-> act]
<1>1. /\ modes' = [sets EXCEPT ![m + 1] = @ \cup {p}]
      /\ registered' = IF Known(m, p.token) THEN rows ELSE [rows EXCEPT ![m + 1] = Append(@, entry)]
      /\ declared' = declared \cup {d}
      /\ UNCHANGED <<built, promised>>
      /\ ~ Conflicts(m, p.token, act)
  BY DEF AddToken
<1>2. /\ rows \in Seq(Seq(Entries)) /\ sets \in Seq(SUBSET Patterns)
      /\ Len(rows) = Len(sets) /\ m + 1 \in 1 .. Len(rows)
      /\ Len(registered) <= Len(rows)
      /\ \E k \in Modes : Len(rows) = k + 1
      /\ \A i \in 1 .. Len(rows) : rows[i] = IF i <= Len(registered) THEN registered[i] ELSE << >>
  BY GrownRows
<1>3. m \in Nat /\ p.token \in TokenIds /\ entry \in Entries
  <2>1. act \in [kind : Kinds, target : Nat] /\ m \in Nat /\ p.token \in TokenIds
    BY BuilderAssumption DEF Kinds
  <2>2. QED
    BY <2>1, NormalizedIsNormal DEF Entries
<1>4. registered \in Seq(Seq(Entries)) /\ OneEntryEach /\ \A e \in declared : IsKept(e)
  BY DEF BuilderInv
<1>5. /\ modes' \in Seq(SUBSET Patterns) /\ Len(modes') = Len(rows)
      /\ \E k \in Modes : Len(modes') = k + 1
  <2>1. [sets EXCEPT ![m + 1] = @ \cup {p}] \in Seq(SUBSET Patterns)
        /\ Len([sets EXCEPT ![m + 1] = @ \cup {p}]) = Len(sets)
    <3>1. sets[m + 1] \cup {p} \in SUBSET Patterns
      BY <1>2
    <3> HIDE DEF sets, rows
    <3>2. QED
      BY <1>2, <3>1
  <2>2. QED
    BY <1>1, <1>2, <2>1
<1>6. DeclaredActionsApply' /\ BuiltActionsAreSafe'
  BY <1>1, BuiltStays DEF BuilderInv
<1>7. /\ registered' \in Seq(Seq(Entries)) /\ Len(registered') = Len(rows)
      /\ KeepsEntries /\ OneEntryEach' /\ IsKept(d)'
  <2>1. CASE Known(m, p.token)
    <3>1. registered' = rows
      BY <1>1, <2>1
    <3>2. KeepsEntries /\ OneEntryEach'
      BY <3>1, GrownKeeps
    <3>3. PICK j \in DOMAIN registered[m + 1] : registered[m + 1][j].token = p.token
      BY <2>1 DEF Known
    <3>4. m + 1 \in DOMAIN registered
      BY <1>3, <1>4, <2>1 DEF Known
    <3>5. registered[m + 1][j].action = Normalized(m, act) /\ registered[m + 1][j] \in Entries
      BY <1>1, <1>4, <2>1, <3>3, <3>4 DEF Conflicts, Known
    <3>6. registered[m + 1][j] = entry
      BY <3>3, <3>5 DEF Entries
    <3>7. IsKept(d)
      <4>1. d.mode = m /\ d.token = p.token /\ d.action = act
        OBVIOUS
      <4>2. m \in 0 .. Len(registered) - 1
        BY <1>3, <1>4, <3>4
      <4> HIDE DEF d
      <4>3. QED
        BY <1>3, <3>3, <3>6, <4>1, <4>2 DEF IsKept
    <3>8. IsKept(d)'
      <4> HIDE DEF d
      <4> QED
        BY <1>2, <1>4, <3>1, <3>2, <3>7, KeptStays
    <3>9. QED
      BY <1>2, <3>1, <3>2, <3>8
  <2>2. CASE ~ Known(m, p.token)
    <3> DEFINE row == rows[m + 1]
               longer == Append(row, entry)
    <3>1. row \in Seq(Entries)
      BY <1>2
    <3>2. /\ longer \in Seq(Entries) /\ Len(row) \in Nat /\ Len(longer) = Len(row) + 1
          /\ DOMAIN row = 1 .. Len(row) /\ DOMAIN longer = 1 .. Len(longer)
          /\ \A j \in 1 .. Len(row) : longer[j] = row[j]
          /\ longer[Len(row) + 1] = entry
      <4> HIDE DEF row, entry
      <4> QED
        BY <1>3, <3>1
    <3>3. registered' = [rows EXCEPT ![m + 1] = longer]
      BY <1>1, <2>2
    <3>4. \A j \in DOMAIN row : row[j].token # p.token
      <4>1. CASE m + 1 <= Len(registered)
        <5>1. row = registered[m + 1]
          BY <1>2, <4>1
        <5>2. m < Len(registered)
          BY <1>3, <1>4, <4>1
        <5>3. QED
          BY <2>2, <5>1, <5>2 DEF Known
      <4>2. CASE ~ (m + 1 <= Len(registered))
        <5>1. row = << >>
          BY <1>2, <4>2
        <5>2. QED
          BY <5>1
      <4>3. QED
        BY <4>1, <4>2
    <3> HIDE DEF longer, entry, rows, row
    <3>5. /\ registered' \in Seq(Seq(Entries)) /\ Len(registered') = Len(rows)
          /\ DOMAIN registered' = 1 .. Len(rows)
          /\ \A i \in 1 .. Len(rows) : registered'[i] = IF i = m + 1 THEN longer ELSE rows[i]
      BY <1>2, <3>2, <3>3
    <3>6. row = rows[m + 1]
      BY DEF row
    <3>7. KeepsEntries
      <4>1. ASSUME NEW i \in DOMAIN registered, NEW j \in DOMAIN registered[i]
            PROVE  /\ i \in 1 .. Len(rows)
                   /\ j \in DOMAIN rows[i] /\ rows[i][j] = registered[i][j]
        <5>1. i \in 1 .. Len(registered) /\ Len(registered) \in Nat /\ Len(rows) \in Nat
          BY <1>2, <1>4
        <5>2. i <= Len(registered) /\ i \in 1 .. Len(rows)
          BY <1>2, <5>1
        <5>3. rows[i] = registered[i]
          BY <1>2, <5>2
        <5>4. QED
          BY <5>2, <5>3
      <4>2. ASSUME NEW i \in 1 .. Len(rows), NEW j \in DOMAIN rows[i]
            PROVE  j \in DOMAIN registered'[i] /\ registered'[i][j] = rows[i][j]
        <5>1. CASE i = m + 1
          <6>1. registered'[i] = longer /\ rows[i] = row
            BY <3>5, <3>6, <5>1
          <6>2. j \in 1 .. Len(row) /\ j \in 1 .. Len(longer)
            BY <3>2, <6>1
          <6>3. QED
            BY <3>2, <6>1, <6>2
        <5>2. CASE i # m + 1
          BY <3>5, <5>2
        <5>3. QED
          BY <5>1, <5>2
      <4>3. \A i \in DOMAIN registered : i \in DOMAIN registered'
        <5>1. Len(registered) \in Nat /\ Len(rows) \in Nat /\ DOMAIN registered = 1 .. Len(registered)
          BY <1>2, <1>4
        <5>2. QED
          BY <1>2, <3>5, <5>1
      <4>4. QED
        BY <4>1, <4>2, <4>3 DEF KeepsEntries
    <3>8. \A i \in 1 .. Len(rows) : \A j, k \in DOMAIN rows[i] : rows[i][j].token = rows[i][k].token => j = k
      <4> SUFFICES ASSUME NEW i \in 1 .. Len(rows), NEW j \in DOMAIN rows[i], NEW k \in DOMAIN rows[i],
                          rows[i][j].token = rows[i][k].token
                   PROVE  j = k
        OBVIOUS
      <4>1. CASE i <= Len(registered)
        <5>1. i \in DOMAIN registered /\ rows[i] = registered[i]
          BY <1>2, <1>4, <4>1
        <5>2. QED
          BY <1>4, <5>1 DEF OneEntryEach
      <4>2. CASE ~ (i <= Len(registered))
        <5>1. rows[i] = << >>
          BY <1>2, <4>2
        <5>2. QED
          BY <5>1
      <4>3. QED
        BY <4>1, <4>2
    <3>9. \A j, k \in DOMAIN longer : longer[j].token = longer[k].token => j = k
      <4>1. entry.token = p.token
        BY DEF entry
      <4>2. \A j \in DOMAIN longer : j \in DOMAIN row \/ j = Len(row) + 1
        BY <3>2
      <4>3. \A j \in DOMAIN row : longer[j] = row[j] /\ longer[j].token # p.token
        BY <3>2, <3>4
      <4>4. \A j, k \in DOMAIN row : row[j].token = row[k].token => j = k
        BY <1>2, <3>6, <3>8
      <4>5. QED
        BY <3>2, <4>1, <4>2, <4>3, <4>4
    <3>10. OneEntryEach'
      <4>1. ASSUME NEW i \in DOMAIN registered', NEW j \in DOMAIN registered'[i],
                   NEW k \in DOMAIN registered'[i], registered'[i][j].token = registered'[i][k].token
            PROVE  j = k
        <5>1. i \in 1 .. Len(rows) /\ registered'[i] = IF i = m + 1 THEN longer ELSE rows[i]
          BY <3>5
        <5>2. QED
          BY <3>8, <3>9, <4>1, <5>1
      <4>2. QED
        BY <4>1 DEF OneEntryEach
    <3>11. IsKept(d)'
      <4>1. d.mode = m /\ d.token = p.token /\ d.action = act
        OBVIOUS
      <4>2. m \in 0 .. Len(registered') - 1 /\ registered'[m + 1] = longer
        BY <1>2, <1>3, <3>5
      <4>3. Len(row) + 1 \in DOMAIN longer
        BY <3>2
      <4>4. longer[Len(row) + 1] = [token |-> p.token, action |-> Normalized(m, act)]
        BY <3>2 DEF entry
      <4> HIDE DEF d
      <4>5. QED
        BY <1>3, <4>1, <4>2, <4>3, <4>4 DEF IsKept
    <3>12. QED
      BY <3>5, <3>7, <3>10, <3>11
  <2>3. QED
    BY <2>1, <2>2
<1>8. \A e \in declared' : IsKept(e)'
  <2>1. \A e \in declared : IsKept(e)'
    BY <1>4, <1>7, KeptStays
  <2>2. QED
    BY <1>1, <1>7, <2>1
<1>9. QED
  BY <1>5, <1>6, <1>7, <1>8 DEF BuilderInv

LEMMA BuildKeeps ==
  ASSUME BuilderInv, Build
  PROVE  BuilderInv'
<1>1. UNCHANGED <<modes, registered, declared>>
  BY DEF Build
<1>2. DeclaredActionsApply' /\ BuiltActionsAreSafe'
  <2>1. CASE Buildable
    <3>1. built' = Lexed /\ promised' = declared
      BY <2>1 DEF Build, Lexed
    <3>2. ListsItsPayloads(Lexed)
      BY <2>1, LexedLists
    <3>3. DeclaredActionsApply'
      <4>1. \A d \in declared :
              /\ PayloadAction(Lexed, d.mode, d.token) = Normalized(d.mode, d.action)
              /\ ActionOf(Lexed, d.mode, d.token) = Normalized(d.mode, d.action)
        BY <2>1, LexedApplies
      <4> HIDE DEF Lexed
      <4>2. QED
        BY <3>1, <3>2, <4>1 DEF DeclaredActionsApply
    <3>4. BuiltActionsAreSafe'
      <4>1. /\ Lexed.modes = Len(modes)
            /\ \A m \in 0 .. Len(modes) - 1 : Lexed.empty[m] = EmptyMatch(modes[m + 1])
        BY DEF Lexed
      <4>2. \A m \in 0 .. Len(modes) - 1 :
              /\ \A t \in TokenIds :
                   TargetsAMode(PayloadAction(Lexed, m, t)) =>
                     PayloadAction(Lexed, m, t).target \in 0 .. Len(modes) - 1
              /\ EmptyMatch(modes[m + 1]) # NoToken =>
                   PayloadAction(Lexed, m, EmptyMatch(modes[m + 1])) = Stay
        BY <2>1, LexedIsSafe
      <4> HIDE DEF Lexed
      <4>3. QED
        BY <3>1, <4>1, <4>2 DEF BuiltActionsAreSafe
    <3>5. QED
      BY <3>3, <3>4
  <2>2. CASE ~ Buildable
    <3>1. built' = NoLexer /\ promised' = {}
      BY <2>2 DEF Build
    <3>2. QED
      BY <3>1 DEF DeclaredActionsApply, BuiltActionsAreSafe, IsBuilt
  <2>3. QED
    BY <2>1, <2>2
<1>3. QED
  BY <1>1, <1>2 DEF BuilderInv, OneEntryEach, IsKept

LEMMA NextBuilder == BuilderInv /\ [BuilderNext]_builderVars => BuilderInv'
<1> SUFFICES ASSUME BuilderInv, [BuilderNext]_builderVars PROVE BuilderInv'
  OBVIOUS
<1>1. ASSUME NEW m \in Modes, NEW act \in Actions, NEW p \in Patterns, AddToken(m, p, act)
      PROVE  BuilderInv'
  BY <1>1, AddTokenKeeps
<1>2. ASSUME NEW m \in Modes, NEW act \in Actions, NEW p \in Patterns, AddConflicting(m, p.token, act)
      PROVE  BuilderInv'
  BY <1>2, AddConflictingKeeps DEF AddConflicting
<1>3. ASSUME NEW m \in Modes, NEW act \in Actions, NEW p \in Patterns, AddThrows(m, p.token, act)
      PROVE  BuilderInv'
  BY <1>3, AddThrowsKeeps
<1>4. CASE Build
  BY <1>4, BuildKeeps
<1>5. CASE UNCHANGED builderVars
  BY <1>5, AddConflictingKeeps DEF builderVars
<1>6. QED
  BY <1>1, <1>2, <1>3, <1>4, <1>5 DEF BuilderNext

LEMMA BuilderInvInvariant == BuilderSpec => []BuilderInv
<1>1. QED
  BY InitBuilder, NextBuilder, PTL DEF BuilderSpec

(* Whatever is registered, refused or thrown at, in whatever order: the    *)
(* lexer a build makes gives to both of its drivers, for a token of a      *)
(* mode, the action that every registration of it asked for.               *)
THEOREM DeclaredActionsAreBuilt == BuilderSpec => []DeclaredActionsApply
<1>1. BuilderInv => DeclaredActionsApply
  BY DEF BuilderInv
<1>2. QED
  BY <1>1, BuilderInvInvariant, PTL

(* And no action of it enters a mode it does not have, nor does a token    *)
(* that matches the empty string act.                                      *)
THEOREM BuiltLexersAreSafe == BuilderSpec => []BuiltActionsAreSafe
<1>1. BuilderInv => BuiltActionsAreSafe
  BY DEF BuilderInv
<1>2. QED
  BY <1>1, BuilderInvInvariant, PTL
=============================================================================
