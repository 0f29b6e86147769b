-------------------------- MODULE FoundWindowProofs --------------------------
(***************************************************************************)
(* The window decisions of every automaton over every input: the walk over *)
(* a window never loses the truth and certifies only what is true of the   *)
(* serial scan; the search finds a shortest certified window, and says     *)
(* that there is none only when no window of any length is certified.      *)
(***************************************************************************)
EXTENDS FoundWindow, DfaTheorems

(* The simulator asked, whichever caller asks it.                          *)
Asked == IsSimulator(sim) /\ sim.split_points = SplitPoints(sim, {})

LEMMA CompiledIsAsked ==
  ASSUME NEW D, IsDfa(D), sim = Simulator(D, {})
  PROVE  Asked
  BY SimulatorTables, SimulatorIsOne DEF Asked

----------------------------------------------------------------------------
(* The walk over a window.                                                 *)
WalkGiven ==
  /\ input \in Seq(Symbols)
  /\ occurrence \in 0 .. Len(input)
  /\ length \in 0 .. Len(input) - occurrence
  /\ at \in 0 .. length

WalkIsCloud == cloud = CloudAt(sim, window)[at]

WalkEnds ==
  /\ walk = "certified" => length > 0 /\ at = length /\ Verdict(cloud) # BeforeWindow
  /\ walk = "refused" =>
       \/ length = 0
       \/ at < length /\ Advance(sim, cloud, window[at + 1], at) = {}
       \/ at = length /\ Verdict(cloud) = BeforeWindow

WalkInv ==
  /\ walk \in {"unasked", "walking", "certified", "refused"}
  /\ walk = "unasked" => at = 0 /\ length = 0
  /\ walk # "unasked" => Asked /\ WalkGiven /\ WalkIsCloud /\ WalkEnds

LEMMA WindowIsWord ==
  ASSUME WalkGiven
  PROVE  /\ window \in Seq(Symbols) /\ Len(window) = length
         /\ \A n \in 1 .. length : window[n] = input[occurrence + n]
  BY DEF WalkGiven, window

LEMMA InitWalk ==
  ASSUME Init PROVE WalkInv
<1>1. Asked
  BY CompiledIsAsked, SplitWindowAssumption DEF Init
<1>2. WalkGiven
  BY SplitWindowAssumption DEF Init, WalkGiven
<1>3. WalkIsCloud
  BY <1>2, WindowIsWord, CloudAtSteps DEF Init, WalkIsCloud
<1>4. QED
  BY <1>1, <1>2, <1>3 DEF Init, WalkInv, WalkEnds

LEMMA NextWalk ==
  ASSUME WalkInv, Next
  PROVE  WalkInv'
<1> USE DEF given
<1>1. walk = "walking" /\ sim' = sim /\ window' = window
  BY DEF Next, RefuseEmpty, ReadByte, Decide, window
<1>2. Asked /\ WalkGiven /\ WalkIsCloud /\ Asked'
  BY <1>1 DEF WalkInv, Asked
<1>3. CASE RefuseEmpty
  BY <1>1, <1>2, <1>3 DEF RefuseEmpty, WalkInv, WalkGiven, WalkIsCloud, WalkEnds
<1>4. CASE ReadByte
  <2> DEFINE next == Advance(sim, cloud, window[at + 1], at)
  <2>1. /\ at < length
        /\ at + 1 \in 0 .. length /\ at + 1 \in 1 .. length /\ (at + 1) - 1 = at
    BY <1>2, <1>4 DEF ReadByte, WalkGiven
  <2>2. CloudAt(sim, window)[at + 1] = next
    BY <1>2, <2>1, WindowIsWord, CloudAtSteps DEF WalkIsCloud
  <2>3. CASE next = {}
    BY <1>1, <1>2, <1>4, <2>1, <2>3 DEF ReadByte, WalkInv, WalkGiven, WalkIsCloud, WalkEnds
  <2>4. CASE next # {}
    <3>1. cloud' = next /\ at' = at + 1 /\ walk' = walk
          /\ UNCHANGED <<sim, input, occurrence, length>>
      BY <1>4, <2>4 DEF ReadByte
    <3> HIDE DEF next
    <3>2. WalkGiven' /\ WalkIsCloud'
      BY <1>1, <1>2, <2>1, <2>2, <3>1 DEF WalkGiven, WalkIsCloud
    <3>3. QED
      BY <1>1, <1>2, <3>1, <3>2 DEF WalkInv, WalkEnds
  <2>5. QED
    BY <2>3, <2>4
<1>5. CASE Decide
  BY <1>1, <1>2, <1>5 DEF Decide, WalkInv, WalkGiven, WalkIsCloud, WalkEnds
<1>6. QED
  BY <1>3, <1>4, <1>5 DEF Next

(* Whatever asks for it, a walk in progress stands.                        *)
LEMMA WalkStays ==
  ASSUME WalkInv, UNCHANGED <<sim, walkVars>>
  PROVE  WalkInv'
<1>1. UNCHANGED <<sim, input, occurrence, length, at, cloud, walk>>
  BY DEF walkVars
<1>2. window' = window
  BY <1>1 DEF window
<1>3. QED
  BY <1>1, <1>2 DEF WalkInv, Asked, WalkGiven, WalkIsCloud, WalkEnds

----------------------------------------------------------------------------
(* The nodes of the search are a tree: each but the first was reached from *)
(* an earlier one.                                                         *)
LEMMA TreeInduction ==
  ASSUME NEW N \in Nat, NEW par \in [2 .. N -> Nat],
         \A n \in 2 .. N : par[n] \in 1 .. n - 1,
         NEW S, 1 \in S, \A n \in 2 .. N : par[n] \in S => n \in S
  PROVE  1 .. N \subseteq S
<1> DEFINE T == { n \in 1 .. N : n \notin S }
<1>1. SUFFICES ASSUME T # {} PROVE FALSE
  OBVIOUS
<1>2. T \in SUBSET Nat
  OBVIOUS
<1>3. PICK n \in T : \A m \in T : n <= m
  <2> HIDE DEF T
  <2> QED
    BY <1>1, <1>2, LeastNatural
<1>4. n \in 2 .. N
  BY <1>3
<1>5. par[n] \in 1 .. n - 1
  BY <1>4
<1>6. par[n] \notin T
  <2> HIDE DEF T
  <2> QED
    BY <1>3, <1>4, <1>5
<1>7. par[n] \in S
  BY <1>4, <1>5, <1>6
<1>8. QED
  BY <1>3, <1>4, <1>7

Follows(f, N, par, start, step) ==
  \A n \in 1 .. N : f[n] = IF n = 1 THEN start ELSE step[<<n, f[par[n]]>>]

LEMMA TreeRecursion ==
  ASSUME NEW N \in Nat, NEW par \in [2 .. N -> Nat],
         \A n \in 2 .. N : par[n] \in 1 .. n - 1,
         NEW V, NEW start \in V, NEW step \in [(1 .. N) \X V -> V]
  PROVE  \E f \in [1 .. N -> V] : Follows(f, N, par, start, step)
<1> USE DEF Follows
<1> DEFINE Is(f, k) == f \in [1 .. k -> V] /\ Follows(f, k, par, start, step)
           S == { k \in 0 .. N : \E f : Is(f, k) }
<1>1. 0 \in S
  <2>1. Is([n \in 1 .. 0 |-> start], 0)
    OBVIOUS
  <2> HIDE DEF Is
  <2>2. QED
    BY <2>1
<1>2. ASSUME NEW k \in 0 .. N - 1, k \in S PROVE k + 1 \in S
  <2>1. PICK f : Is(f, k)
    BY <1>2
  <2>2. k + 1 \in 0 .. N /\ k + 1 \in 1 .. N /\ k \in Nat
    OBVIOUS
  <2> DEFINE new == IF k + 1 = 1 THEN start ELSE step[<<k + 1, f[par[k + 1]]>>]
             g == [ n \in 1 .. k + 1 |-> IF n = k + 1 THEN new ELSE f[n] ]
  <2>3. new \in V
    <3>1. CASE k + 1 = 1
      BY <3>1
    <3>2. CASE k + 1 # 1
      <4>1. par[k + 1] \in 1 .. k
        BY <2>2, <3>2
      <4>2. f[par[k + 1]] \in V
        BY <2>1, <4>1
      <4>3. QED
        BY <2>2, <3>2, <4>2
    <3>3. QED
      BY <3>1, <3>2
  <2> HIDE DEF new
  <2>4. /\ \A n \in 1 .. k : g[n] = f[n]
        /\ g[k + 1] = new
        /\ g \in [1 .. k + 1 -> V]
    BY <2>1, <2>2, <2>3
  <2> HIDE DEF g
  <2>5. ASSUME NEW n \in 1 .. k + 1
        PROVE  g[n] = IF n = 1 THEN start ELSE step[<<n, g[par[n]]>>]
    <3>1. n # 1 => g[par[n]] = f[par[n]]
      <4>1. n # 1 => par[n] \in 1 .. n - 1
        BY <2>2
      <4>2. QED
        BY <2>2, <2>4, <4>1
    <3>2. CASE n = k + 1
      BY <2>4, <3>1, <3>2 DEF new
    <3>3. CASE n \in 1 .. k
      <4>1. f[n] = IF n = 1 THEN start ELSE step[<<n, f[par[n]]>>]
        BY <2>1, <3>3
      <4>2. QED
        BY <2>4, <3>1, <3>3, <4>1
    <3>4. QED
      BY <2>2, <3>2, <3>3
  <2>6. Is(g, k + 1)
    BY <2>4, <2>5
  <2> HIDE DEF Is
  <2>7. QED
    BY <2>2, <2>6
<1> HIDE DEF S
<1>3. 0 .. N \subseteq S
  BY <1>1, <1>2, UpTo
<1>4. N \in S
  BY <1>3
<1>5. \E f : Is(f, N)
  <2> HIDE DEF Is
  <2> QED
    BY <1>4 DEF S
<1> HIDE DEF Follows
<1>6. QED
  BY <1>5

(* The window to each node, as far as the first N are concerned.           *)
PathTo(r, N) ==
  LET path[n \in 1 .. N] ==
        IF n = 1 THEN << >> ELSE Append(path[r[n].parent], r[n].byte)
  IN path

IsTree(r, N) ==
  \A n \in 2 .. N : r[n].parent \in 1 .. n - 1 /\ r[n].byte \in Symbols

LEMMA PathSteps ==
  ASSUME NEW N \in Nat, NEW r, IsTree(r, N)
  PROVE  /\ PathTo(r, N) \in [1 .. N -> Seq(Symbols)]
         /\ \A n \in 1 .. N :
              PathTo(r, N)[n] =
                IF n = 1 THEN << >> ELSE Append(PathTo(r, N)[r[n].parent], r[n].byte)
<1> DEFINE V == Seq(Symbols)
           par == [ n \in 2 .. N |-> r[n].parent ]
           step == [ p \in (1 .. N) \X V |->
                       IF p[1] = 1 THEN << >> ELSE Append(p[2], r[p[1]].byte) ]
           Is(f) == f = [ n \in 1 .. N |-> IF n = 1 THEN << >>
                                           ELSE Append(f[r[n].parent], r[n].byte) ]
<1>1. step \in [(1 .. N) \X V -> V]
  <2>1. ASSUME NEW p \in (1 .. N) \X V
        PROVE  (IF p[1] = 1 THEN << >> ELSE Append(p[2], r[p[1]].byte)) \in V
    <3>1. p[1] # 1 => r[p[1]].byte \in Symbols
      BY DEF IsTree
    <3>2. p[2] \in Seq(Symbols)
      OBVIOUS
    <3>3. QED
      BY <3>1, <3>2
  <2> HIDE DEF V
  <2>2. QED
    BY <2>1
<1>2. par \in [2 .. N -> Nat] /\ \A n \in 2 .. N : par[n] \in 1 .. n - 1
  BY DEF IsTree
<1>3. << >> \in V
  OBVIOUS
<1>4. PICK f \in [1 .. N -> V] : Follows(f, N, par, << >>, step)
  <2> HIDE DEF V, par, step
  <2> QED
    BY <1>1, <1>2, <1>3, TreeRecursion
<1>5. \A n \in 1 .. N : f[n] = IF n = 1 THEN << >> ELSE Append(f[r[n].parent], r[n].byte)
  <2> TAKE n \in 1 .. N
  <2>1. CASE n = 1
    BY <1>4, <2>1 DEF Follows
  <2>2. CASE n # 1
    <3>1. /\ n \in 2 .. N /\ par[n] = r[n].parent /\ r[n].parent \in 1 .. n - 1
      BY <2>2 DEF IsTree
    <3>2. r[n].parent \in 1 .. N
      BY <3>1
    <3>3. f[par[n]] \in V /\ <<n, f[par[n]]>> \in (1 .. N) \X V
      BY <3>1, <3>2
    <3>4. step[<<n, f[par[n]]>>] = Append(f[par[n]], r[n].byte)
      <4> HIDE DEF V, par
      <4> QED
        BY <2>2, <3>3
    <3>5. f[n] = step[<<n, f[par[n]]>>]
      <4> HIDE DEF step
      <4> QED
        BY <1>4, <2>2 DEF Follows
    <3> HIDE DEF step, par
    <3>6. QED
      BY <2>2, <3>1, <3>4, <3>5
  <2>3. QED
    BY <2>1, <2>2
<1> HIDE DEF V
<1>6. Is(f)
  <2>1. f = [ n \in 1 .. N |-> f[n] ]
    OBVIOUS
  <2>2. QED
    BY <1>5, <2>1
<1>7. PathTo(r, N) = CHOOSE g : Is(g)
  BY DEF PathTo
<1>8. Is(PathTo(r, N))
  <2> HIDE DEF Is
  <2> QED
    BY <1>6, <1>7
<1>9. ASSUME NEW g, Is(g)
      PROVE  \A n \in 1 .. N :
               g[n] = IF n = 1 THEN << >> ELSE Append(g[r[n].parent], r[n].byte)
  BY <1>9
<1>10. /\ DOMAIN PathTo(r, N) = 1 .. N
       /\ PathTo(r, N) = [ n \in 1 .. N |-> PathTo(r, N)[n] ]
  <2>1. ASSUME NEW g, Is(g) PROVE DOMAIN g = 1 .. N /\ g = [ n \in 1 .. N |-> g[n] ]
    BY <2>1
  <2> HIDE DEF Is
  <2>2. QED
    BY <1>8, <2>1
<1>11. \A n \in 1 .. N :
         PathTo(r, N)[n] = IF n = 1 THEN << >>
                           ELSE Append(PathTo(r, N)[r[n].parent], r[n].byte)
  <2> HIDE DEF Is
  <2> QED
    BY <1>8, <1>9
<1>12. \A n \in 1 .. N : PathTo(r, N)[n] \in V
  <2> DEFINE S == { n \in 1 .. N : PathTo(r, N)[n] \in V }
  <2>1. CASE N = 0
    BY <2>1
  <2>2. CASE N # 0
    <3>1. 1 \in S
      BY <1>3, <1>11, <2>2
    <3>2. ASSUME NEW n \in 2 .. N, par[n] \in S PROVE n \in S
      <4>1. par[n] = r[n].parent /\ r[n].byte \in Symbols /\ n \in 1 .. N /\ n # 1
        BY DEF IsTree
      <4>2. PathTo(r, N)[n] = Append(PathTo(r, N)[r[n].parent], r[n].byte)
        BY <1>11, <4>1
      <4>3. PathTo(r, N)[r[n].parent] \in Seq(Symbols)
        BY <3>2, <4>1 DEF V
      <4>4. Append(PathTo(r, N)[r[n].parent], r[n].byte) \in Seq(Symbols)
        BY <4>1, <4>3
      <4>5. QED
        BY <4>1, <4>2, <4>4 DEF V
    <3> HIDE DEF S, par
    <3>3. 1 .. N \subseteq S
      BY <1>2, <3>1, <3>2, TreeInduction
    <3>4. QED
      BY <3>3 DEF S
  <2>3. QED
    BY <2>1, <2>2
<1>13. QED
  BY <1>10, <1>11, <1>12 DEF V

(* The origins the search chose on the way to each node.                   *)
OriginsOf(r, N) ==
  LET before[n \in 1 .. N] ==
        IF n = 1 THEN 0
        ELSE IF r[n].chose THEN Len(PathTo(r, N)[r[n].parent])
        ELSE before[r[n].parent]
  IN before

LEMMA OriginSteps ==
  ASSUME NEW N \in Nat, NEW r, IsTree(r, N)
  PROVE  \A n \in 1 .. N :
           OriginsOf(r, N)[n] =
             IF n = 1 THEN 0
             ELSE IF r[n].chose THEN Len(PathTo(r, N)[r[n].parent])
             ELSE OriginsOf(r, N)[r[n].parent]
<1> DEFINE path == PathTo(r, N)
           par == [ n \in 2 .. N |-> r[n].parent ]
           step == [ p \in (1 .. N) \X Nat |->
                       IF p[1] = 1 THEN 0
                       ELSE IF r[p[1]].chose THEN Len(path[r[p[1]].parent])
                       ELSE p[2] ]
           Is(f) == f = [ n \in 1 .. N |-> IF n = 1 THEN 0
                                           ELSE IF r[n].chose THEN Len(path[r[n].parent])
                                           ELSE f[r[n].parent] ]
<1>1. \A n \in 2 .. N : r[n].parent \in 1 .. N /\ Len(path[r[n].parent]) \in Nat
  <2> TAKE n \in 2 .. N
  <2>1. r[n].parent \in 1 .. N
    BY DEF IsTree
  <2>2. path[r[n].parent] \in Seq(Symbols)
    BY <2>1, PathSteps
  <2> HIDE DEF path
  <2>3. QED
    BY <2>1, <2>2
<1> HIDE DEF path
<1>2. step \in [(1 .. N) \X Nat -> Nat]
  <2>1. ASSUME NEW p \in (1 .. N) \X Nat
        PROVE  (IF p[1] = 1 THEN 0
                ELSE IF r[p[1]].chose THEN Len(path[r[p[1]].parent])
                ELSE p[2]) \in Nat
    <3>1. p[1] # 1 => p[1] \in 2 .. N
      OBVIOUS
    <3>2. p[2] \in Nat
      OBVIOUS
    <3>3. QED
      BY <1>1, <3>1, <3>2
  <2>2. QED
    BY <2>1
<1>3. par \in [2 .. N -> Nat] /\ \A n \in 2 .. N : par[n] \in 1 .. n - 1
  BY DEF IsTree
<1>4. PICK f \in [1 .. N -> Nat] : Follows(f, N, par, 0, step)
  <2> HIDE DEF par, step
  <2> QED
    BY <1>2, <1>3, TreeRecursion
<1>5. \A n \in 1 .. N :
        f[n] = IF n = 1 THEN 0
               ELSE IF r[n].chose THEN Len(path[r[n].parent])
               ELSE f[r[n].parent]
  <2> TAKE n \in 1 .. N
  <2>1. CASE n = 1
    BY <1>4, <2>1 DEF Follows
  <2>2. CASE n # 1
    <3>1. n \in 2 .. N /\ par[n] = r[n].parent /\ r[n].parent \in 1 .. N
      BY <1>1, <2>2
    <3>2. f[par[n]] \in Nat /\ <<n, f[par[n]]>> \in (1 .. N) \X Nat
      BY <3>1
    <3>3. step[<<n, f[par[n]]>>] =
            IF r[n].chose THEN Len(path[r[n].parent]) ELSE f[par[n]]
      <4> HIDE DEF par
      <4> QED
        BY <2>2, <3>2
    <3>4. f[n] = step[<<n, f[par[n]]>>]
      <4> HIDE DEF step
      <4> QED
        BY <1>4, <2>2 DEF Follows
    <3> HIDE DEF step, par
    <3>5. QED
      BY <2>2, <3>1, <3>3, <3>4
  <2>3. QED
    BY <2>1, <2>2
<1>6. Is(f)
  <2>1. f = [ n \in 1 .. N |-> f[n] ]
    OBVIOUS
  <2>2. QED
    BY <1>5, <2>1
<1>7. OriginsOf(r, N) = CHOOSE g : Is(g)
  BY DEF OriginsOf, path
<1>8. Is(OriginsOf(r, N))
  <2> HIDE DEF Is
  <2> QED
    BY <1>6, <1>7
<1>9. ASSUME NEW g, Is(g)
      PROVE  \A n \in 1 .. N :
               g[n] = IF n = 1 THEN 0
                      ELSE IF r[n].chose THEN Len(path[r[n].parent])
                      ELSE g[r[n].parent]
  BY <1>9
<1> HIDE DEF Is
<1>10. QED
  BY <1>8, <1>9 DEF path

(* A node added to the tree changes the way to none of the others.         *)
LEMMA PathsStay ==
  ASSUME NEW N \in Nat, NEW r, NEW s, IsTree(r, N), IsTree(s, N + 1),
         \A n \in 1 .. N : r[n] = s[n]
  PROVE  \A n \in 1 .. N : /\ PathTo(s, N + 1)[n] = PathTo(r, N)[n]
                           /\ OriginsOf(s, N + 1)[n] = OriginsOf(r, N)[n]
<1> DEFINE par == [ n \in 2 .. N |-> r[n].parent ]
           S == { n \in 1 .. N : PathTo(s, N + 1)[n] = PathTo(r, N)[n] }
           T == { n \in 1 .. N : OriginsOf(s, N + 1)[n] = OriginsOf(r, N)[n] }
<1>1. par \in [2 .. N -> Nat] /\ \A n \in 2 .. N : par[n] \in 1 .. n - 1
  BY DEF IsTree
<1>2. N + 1 \in Nat /\ \A n \in 1 .. N : n \in 1 .. N + 1
  OBVIOUS
<1>3. \A n \in 1 .. N :
        /\ PathTo(r, N)[n] = IF n = 1 THEN << >>
                             ELSE Append(PathTo(r, N)[r[n].parent], r[n].byte)
        /\ PathTo(s, N + 1)[n] = IF n = 1 THEN << >>
                                 ELSE Append(PathTo(s, N + 1)[s[n].parent], s[n].byte)
  BY <1>2, PathSteps
<1>4. \A n \in 1 .. N :
        /\ OriginsOf(r, N)[n] = IF n = 1 THEN 0
                                ELSE IF r[n].chose THEN Len(PathTo(r, N)[r[n].parent])
                                ELSE OriginsOf(r, N)[r[n].parent]
        /\ OriginsOf(s, N + 1)[n] = IF n = 1 THEN 0
                                    ELSE IF s[n].chose
                                         THEN Len(PathTo(s, N + 1)[s[n].parent])
                                    ELSE OriginsOf(s, N + 1)[s[n].parent]
  BY <1>2, OriginSteps
<1>5. CASE N = 0
  BY <1>5
<1>6. CASE N # 0
  <2>1. 1 .. N \subseteq S
    <3>1. 1 \in S
      BY <1>3, <1>6
    <3>2. ASSUME NEW n \in 2 .. N, par[n] \in S PROVE n \in S
      <4>1. n \in 1 .. N /\ n # 1 /\ par[n] = r[n].parent
        OBVIOUS
      <4>2. QED
        BY <1>3, <3>2, <4>1
    <3> HIDE DEF S, par
    <3>3. QED
      BY <1>1, <3>1, <3>2, TreeInduction
  <2>2. 1 .. N \subseteq T
    <3>1. 1 \in T
      BY <1>4, <1>6
    <3>2. ASSUME NEW n \in 2 .. N, par[n] \in T PROVE n \in T
      <4>1. n \in 1 .. N /\ n # 1 /\ par[n] = r[n].parent /\ par[n] \in 1 .. N
        BY <1>1
      <4>2. PathTo(s, N + 1)[r[n].parent] = PathTo(r, N)[r[n].parent]
        BY <2>1, <4>1
      <4>3. QED
        BY <1>4, <3>2, <4>1, <4>2
    <3> HIDE DEF T, par
    <3>3. QED
      BY <1>1, <3>1, <3>2, TreeInduction
  <2>3. QED
    BY <2>1, <2>2
<1>7. QED
  BY <1>5, <1>6

----------------------------------------------------------------------------
(* A node is a cloud with its origins forgotten: before the choice the     *)
(* states of all the hypotheses, afterwards the state of the one of the    *)
(* origin chosen, and the states of the others, which it is not among.     *)
StatesOf(hypotheses) == { h[1] : h \in hypotheses }

Others(hypotheses, o) == { h \in hypotheses : h[2] # o }

Represents(node, hypotheses, o) ==
  IF node.chosen = NoState
  THEN node.others = StatesOf(hypotheses)
  ELSE /\ <<node.chosen, o>> \in hypotheses
       /\ node.others = StatesOf(Others(hypotheses, o))
       /\ node.chosen \notin node.others

(* What a byte leads to before the choice: the fresh origin is what tells  *)
(* the hypotheses apart.                                                   *)
LEMMA BeforeChoice ==
  ASSUME Asked, NEW hypotheses, NEW b \in Symbols, NEW n \in Nat,
         Sound(sim, hypotheses, n),
         NEW node, node.chosen = NoState, node.others = StatesOf(hypotheses)
  PROVE  /\ Search!Moved(node, b) = StatesOf(Others(Advance(sim, hypotheses, b, n), n))
         /\ \A s : s \in Search!FreshState(node, b)
                     <=> <<s, n>> \in Advance(sim, hypotheses, b, n)
         /\ Search!Moved(node, b) \cup Search!FreshState(node, b)
              = StatesOf(Advance(sim, hypotheses, b, n))
<1> DEFINE next == Advance(sim, hypotheses, b, n)
           kept == { h \in hypotheses : ~ Begins(sim, h[1]) }
<1>1. \A h \in hypotheses :
        /\ h = <<h[1], h[2]>> /\ h[1] \in sim.live
        /\ h[2] # n
  <2>1. n \notin 0 .. n - 1 /\ n # BeforeWindow
    BY WindowAssumption
  <2>2. QED
    BY <2>1 DEF Sound
<1>2. /\ NoState \notin sim.live /\ NoState \notin States(sim)
      /\ sim.live \subseteq States(sim)
  BY LiveStates, DfaAssumption DEF Asked, States, IsSimulator, IsDfa
<1>3. \A e : e \in next <=>
        \E h \in hypotheses :
          \/ /\ sim.next[h[1]][b] \in sim.live
             /\ e = <<sim.next[h[1]][b], IF Begins(sim, h[1]) THEN n ELSE h[2]>>
          \/ /\ Accepting(sim, h[1]) /\ sim.next[sim.init][b] \in sim.live
             /\ e = <<sim.next[sim.init][b], n>>
  BY AdvanceElements
<1> HIDE DEF next
<1>4. Search!Renamed(node) <=> \E h \in hypotheses : Begins(sim, h[1])
  BY DEF Search!Renamed, Begins, StatesOf
<1>5. (IF Search!Renamed(node) THEN node.others \ {sim.init} ELSE node.others)
        = StatesOf(kept)
  BY <1>4 DEF Search!Renamed, Begins, StatesOf
<1>6. Search!Moved(node, b) = { s \in sim.live : \E h \in kept : s = sim.next[h[1]][b] }
  <2>1. Search!Moved(node, b) = UNION { LiveStep(sim, s, b) : s \in StatesOf(kept) }
    BY <1>5 DEF Search!Moved, Search!LiveStep, LiveStep
  <2> HIDE DEF kept
  <2>2. QED
    BY <2>1 DEF LiveStep, StatesOf
<1>7. StatesOf(Others(next, n)) = { s \in sim.live : \E h \in kept : s = sim.next[h[1]][b] }
  <2>1. ASSUME NEW h \in kept, sim.next[h[1]][b] \in sim.live
        PROVE  <<sim.next[h[1]][b], h[2]>> \in Others(next, n)
    BY <1>1, <1>3, <2>1 DEF Others
  <2>2. ASSUME NEW e \in Others(next, n)
        PROVE  e[1] \in sim.live /\ \E h \in kept : e[1] = sim.next[h[1]][b]
    <3>1. e \in next /\ e[2] # n
      BY <2>2 DEF Others
    <3>2. PICK h \in hypotheses :
            /\ sim.next[h[1]][b] \in sim.live
            /\ e = <<sim.next[h[1]][b], IF Begins(sim, h[1]) THEN n ELSE h[2]>>
      BY <1>3, <3>1
    <3>3. ~ Begins(sim, h[1])
      BY <3>1, <3>2
    <3>4. QED
      BY <3>2, <3>3
  <2> HIDE DEF kept
  <2>3. ASSUME NEW s \in sim.live, NEW h \in kept, s = sim.next[h[1]][b]
        PROVE  s \in StatesOf(Others(next, n))
    <3>1. <<s, h[2]>> \in Others(next, n) /\ <<s, h[2]>>[1] = s
      BY <2>1, <2>3
    <3>2. QED
      BY <3>1 DEF StatesOf
  <2>4. QED
    BY <2>2, <2>3 DEF StatesOf
<1>8. /\ \/ Search!Renamed(node)
         \/ \E s \in node.others \cup ({node.chosen} \cap States(sim)) : Accepting(sim, s)
      <=> \E h \in hypotheses : Begins(sim, h[1]) \/ Accepting(sim, h[1])
  BY <1>2, <1>4 DEF StatesOf
<1>9. Search!FreshState(node, b) =
        { s \in sim.live : /\ s = sim.next[sim.init][b]
                           /\ \E h \in hypotheses : Begins(sim, h[1]) \/ Accepting(sim, h[1]) }
  BY <1>8 DEF Search!FreshState, Search!LiveStep, LiveStep,
              Search!States, States, Search!Accepting, Accepting
<1>10. \A s : <<s, n>> \in next <=>
         /\ s \in sim.live /\ s = sim.next[sim.init][b]
         /\ \E h \in hypotheses : Begins(sim, h[1]) \/ Accepting(sim, h[1])
  <2> TAKE s
  <2>1. ASSUME <<s, n>> \in next
        PROVE  /\ s \in sim.live /\ s = sim.next[sim.init][b]
               /\ \E h \in hypotheses : Begins(sim, h[1]) \/ Accepting(sim, h[1])
    <3>1. PICK h \in hypotheses :
            \/ /\ sim.next[h[1]][b] \in sim.live
               /\ <<s, n>> = <<sim.next[h[1]][b], IF Begins(sim, h[1]) THEN n ELSE h[2]>>
            \/ /\ Accepting(sim, h[1]) /\ sim.next[sim.init][b] \in sim.live
               /\ <<s, n>> = <<sim.next[sim.init][b], n>>
      BY <1>3, <2>1
    <3>2. h[2] # n /\ (Begins(sim, h[1]) => h[1] = sim.init)
      BY <1>1 DEF Begins
    <3>3. QED
      BY <3>1, <3>2
  <2>2. ASSUME s \in sim.live, s = sim.next[sim.init][b], NEW h \in hypotheses,
               Begins(sim, h[1]) \/ Accepting(sim, h[1])
        PROVE  <<s, n>> \in next
    <3>1. Begins(sim, h[1]) => h[1] = sim.init
      BY DEF Begins
    <3>2. QED
      BY <1>3, <2>2, <3>1
  <2>3. QED
    BY <2>1, <2>2
<1>11. Search!Moved(node, b) = StatesOf(Others(next, n))
  BY <1>6, <1>7
<1>12. \A s : s \in Search!FreshState(node, b) <=> <<s, n>> \in next
  BY <1>9, <1>10
<1>13. StatesOf(Others(next, n)) \cup Search!FreshState(node, b) = StatesOf(next)
  <2>1. \A e \in next : e = <<e[1], e[2]>>
    BY <1>3
  <2>2. \A e \in next : e[2] = n => e[1] \in Search!FreshState(node, b)
    BY <1>12, <2>1
  <2>3. \A s \in Search!FreshState(node, b) : \E e \in next : e[1] = s
    <3> TAKE s \in Search!FreshState(node, b)
    <3>1. <<s, n>> \in next /\ <<s, n>>[1] = s
      BY <1>12
    <3>2. QED
      BY <3>1
  <2>4. QED
    BY <2>2, <2>3 DEF StatesOf, Others
<1>14. QED
  BY <1>11, <1>12, <1>13 DEF next

(* After the choice a fresh token is one more of the others.               *)
LEMMA AfterChoice ==
  ASSUME Asked, NEW hypotheses, NEW b \in Symbols, NEW n \in Nat,
         Sound(sim, hypotheses, n), NEW o \in 0 .. n - 1,
         NEW node, node.chosen # NoState, Represents(node, hypotheses, o)
  PROVE  /\ \A s : s \in Search!LiveStep(sim, node.chosen, b)
                     <=> <<s, o>> \in Advance(sim, hypotheses, b, n)
         /\ Search!Moved(node, b) \cup Search!FreshState(node, b)
              = StatesOf(Others(Advance(sim, hypotheses, b, n), o))
<1> DEFINE next == Advance(sim, hypotheses, b, n)
           c == node.chosen
<1>1. \A h \in hypotheses :
        /\ h = <<h[1], h[2]>> /\ h[1] \in sim.live
        /\ ~ Begins(sim, h[1])
        /\ h[2] = o => h[1] = c
  <2>1. <<c, o>> \in hypotheses /\ o # BeforeWindow /\ n > 0
    BY WindowAssumption DEF Represents
  <2>2. QED
    BY <2>1 DEF Sound
<1>2. c \in sim.live /\ o # n /\ c \in States(sim)
      /\ <<c, o>> \in hypotheses /\ node.others = StatesOf(Others(hypotheses, o))
  <2>1. <<c, o>> \in hypotheses /\ node.others = StatesOf(Others(hypotheses, o))
    BY DEF Represents
  <2>2. QED
    BY <1>1, <2>1, LiveStates DEF Asked
<1>3. \A e : e \in next <=>
        \E h \in hypotheses :
          \/ /\ sim.next[h[1]][b] \in sim.live
             /\ e = <<sim.next[h[1]][b], h[2]>>
          \/ /\ Accepting(sim, h[1]) /\ sim.next[sim.init][b] \in sim.live
             /\ e = <<sim.next[sim.init][b], n>>
  BY <1>1, AdvanceElements
<1> HIDE DEF next, c
<1>4. \A s : s \in Search!LiveStep(sim, c, b) <=> <<s, o>> \in next
  <2> TAKE s
  <2>1. s \in Search!LiveStep(sim, c, b) <=> s \in sim.live /\ s = sim.next[c][b]
    BY DEF Search!LiveStep
  <2>2. ASSUME s \in sim.live, s = sim.next[c][b] PROVE <<s, o>> \in next
    BY <1>2, <1>3, <2>2
  <2>3. ASSUME <<s, o>> \in next PROVE s \in sim.live /\ s = sim.next[c][b]
    <3>1. PICK h \in hypotheses :
             \/ /\ sim.next[h[1]][b] \in sim.live
                /\ <<s, o>> = <<sim.next[h[1]][b], h[2]>>
             \/ /\ Accepting(sim, h[1]) /\ sim.next[sim.init][b] \in sim.live
                /\ <<s, o>> = <<sim.next[sim.init][b], n>>
      BY <1>3, <2>3
    <3>2. h[2] = o /\ s = sim.next[h[1]][b] /\ s \in sim.live
      BY <1>2, <3>1
    <3>3. QED
      BY <1>1, <3>2
  <2>4. QED
    BY <2>1, <2>2, <2>3
<1>5. Search!Moved(node, b) =
        { s \in sim.live : \E h \in Others(hypotheses, o) : s = sim.next[h[1]][b] }
  BY <1>2 DEF Search!Moved, Search!Renamed, Search!LiveStep, StatesOf, c
<1>6. Search!FreshState(node, b) =
        { s \in sim.live : /\ s = sim.next[sim.init][b]
                           /\ \E h \in hypotheses : Accepting(sim, h[1]) }
  <2>1. (\E s \in node.others \cup ({c} \cap States(sim)) : Accepting(sim, s))
          <=> \E h \in hypotheses : Accepting(sim, h[1])
    BY <1>1, <1>2 DEF StatesOf, Others
  <2>2. ~ Search!Renamed(node)
    BY DEF Search!Renamed
  <2>3. QED
    BY <2>1, <2>2 DEF Search!FreshState, Search!LiveStep, Search!States, States,
                      Search!Accepting, Accepting, c
<1>7. \A s : s \in StatesOf(Others(next, o)) <=>
         \/ s \in sim.live /\ \E h \in Others(hypotheses, o) : s = sim.next[h[1]][b]
         \/ /\ s \in sim.live /\ s = sim.next[sim.init][b]
            /\ \E h \in hypotheses : Accepting(sim, h[1])
  <2> TAKE s
  <2>1. ASSUME NEW e \in next, e[2] # o, s = e[1]
        PROVE  \/ s \in sim.live /\ \E h \in Others(hypotheses, o) : s = sim.next[h[1]][b]
               \/ /\ s \in sim.live /\ s = sim.next[sim.init][b]
                  /\ \E h \in hypotheses : Accepting(sim, h[1])
    <3>1. PICK h \in hypotheses :
             \/ /\ sim.next[h[1]][b] \in sim.live
                /\ e = <<sim.next[h[1]][b], h[2]>>
             \/ /\ Accepting(sim, h[1]) /\ sim.next[sim.init][b] \in sim.live
                /\ e = <<sim.next[sim.init][b], n>>
      BY <1>3
    <3>2. QED
      BY <2>1, <3>1 DEF Others
  <2>2. ASSUME NEW h \in Others(hypotheses, o), s \in sim.live, s = sim.next[h[1]][b]
        PROVE  s \in StatesOf(Others(next, o))
    <3>1. h \in hypotheses /\ h[2] # o
      BY DEF Others
    <3>2. <<s, h[2]>> \in next
      BY <1>3, <2>2, <3>1
    <3>3. <<s, h[2]>> \in Others(next, o) /\ <<s, h[2]>>[1] = s
      BY <3>1, <3>2 DEF Others
    <3>4. QED
      BY <3>3 DEF StatesOf
  <2>3. ASSUME NEW h \in hypotheses, s \in sim.live, s = sim.next[sim.init][b],
               Accepting(sim, h[1])
        PROVE  s \in StatesOf(Others(next, o))
    <3>1. <<s, n>> \in next
      BY <1>3, <2>3
    <3>2. <<s, n>> \in Others(next, o) /\ <<s, n>>[1] = s
      BY <1>2, <3>1 DEF Others
    <3>3. QED
      BY <3>2 DEF StatesOf
  <2>4. s \in StatesOf(Others(next, o)) <=> \E e \in next : e[2] # o /\ s = e[1]
    BY DEF StatesOf, Others
  <2>5. QED
    BY <2>1, <2>2, <2>3, <2>4
<1>8. QED
  BY <1>4, <1>5, <1>6, <1>7 DEF next, c

(* What a byte makes of a node represents what it makes of the cloud.      *)
LEMMA NodesAfterBeforeChoice ==
  ASSUME Asked, NEW hypotheses, NEW b \in Symbols, NEW n \in Nat,
         Sound(sim, hypotheses, n), NEW o,
         NEW node, node.chosen = NoState, Represents(node, hypotheses, o),
         NEW e \in Search!NodesAfter(node, b)
  PROVE  /\ Represents(e.node, Advance(sim, hypotheses, b, n),
                       IF e.chose THEN n ELSE o)
         /\ e.node.chosen # NoState => e.chose
<1> DEFINE next == Advance(sim, hypotheses, b, n)
           moved == Search!Moved(node, b)
           fresh == Search!FreshState(node, b)
<1>1. node.others = StatesOf(hypotheses)
  BY DEF Represents
<1>2. /\ moved = StatesOf(Others(next, n))
      /\ \A s : s \in fresh <=> <<s, n>> \in next
      /\ moved \cup fresh = StatesOf(next)
  BY <1>1, BeforeChoice
<1>3. \/ \E s \in fresh \ moved : e = Search!Node(s, moved, TRUE)
      \/ e = Search!Node(NoState, moved \cup fresh, FALSE)
  BY DEF Search!NodesAfter
<1>4. fresh \subseteq sim.live
  BY DEF Search!FreshState, Search!LiveStep
<1> HIDE DEF next, moved, fresh
<1>5. CASE e = Search!Node(NoState, moved \cup fresh, FALSE)
  <2>1. e.node.chosen = NoState /\ e.node.others = moved \cup fresh /\ ~ e.chose
    BY <1>5 DEF Search!Node
  <2>2. QED
    BY <1>2, <2>1 DEF Represents, next
<1>6. CASE \E s \in fresh \ moved : e = Search!Node(s, moved, TRUE)
  <2>1. PICK s \in fresh \ moved : e = Search!Node(s, moved, TRUE)
    BY <1>6
  <2>2. e.node.chosen = s /\ e.node.others = moved /\ e.chose
    BY <2>1 DEF Search!Node
  <2>3. s # NoState /\ s \notin moved /\ <<s, n>> \in next
    BY <1>2, <1>4, <2>1, LiveStates DEF Asked
  <2>4. QED
    BY <1>2, <2>2, <2>3 DEF Represents, next
<1>7. QED
  BY <1>3, <1>5, <1>6

LEMMA NodesAfterChoice ==
  ASSUME Asked, NEW hypotheses, NEW b \in Symbols, NEW n \in Nat,
         Sound(sim, hypotheses, n), NEW o, NEW node,
         Represents(node, hypotheses, o), node.chosen # NoState, o \in 0 .. n - 1
  PROVE  \A e \in Search!NodesAfter(node, b) :
           /\ Represents(e.node, Advance(sim, hypotheses, b, n), o)
           /\ ~ e.chose
<1> DEFINE next == Advance(sim, hypotheses, b, n)
           moved == Search!Moved(node, b)
           fresh == Search!FreshState(node, b)
<1>1. /\ \A s : s \in Search!LiveStep(sim, node.chosen, b) <=> <<s, o>> \in next
      /\ moved \cup fresh = StatesOf(Others(next, o))
  BY AfterChoice
<1> TAKE e \in Search!NodesAfter(node, b)
<1>2. PICK s \in Search!LiveStep(sim, node.chosen, b) \ (moved \cup fresh) :
        e = Search!Node(s, moved \cup fresh, FALSE)
  BY DEF Search!NodesAfter
<1>3. s # NoState
  BY <1>2, LiveStates DEF Search!LiveStep, Asked
<1> HIDE DEF next, moved, fresh
<1>4. <<s, o>> \in next /\ s \notin moved \cup fresh
  BY <1>1, <1>2
<1>5. e.node.chosen = s /\ e.node.others = moved \cup fresh /\ ~ e.chose
  BY <1>2 DEF Search!Node
<1>6. Represents(e.node, next, o)
  BY <1>1, <1>3, <1>4, <1>5 DEF Represents
<1>7. QED
  BY <1>5, <1>6 DEF next

(* And every cloud but one without the origin chosen, or with that origin  *)
(* in a state that another shares, is represented by one of them.          *)
LEMMA NodesAfterComplete ==
  ASSUME Asked, NEW hypotheses, NEW b \in Symbols, NEW n \in Nat,
         Sound(sim, hypotheses, n), NEW o, NEW node,
         Represents(node, hypotheses, o)
  PROVE  /\ node.chosen = NoState /\ Advance(sim, hypotheses, b, n) # {} =>
              \E e \in Search!NodesAfter(node, b) :
                /\ e.node.chosen = NoState
                /\ Represents(e.node, Advance(sim, hypotheses, b, n), o)
         /\ node.chosen = NoState /\ Lone(Advance(sim, hypotheses, b, n), n) =>
              \E e \in Search!NodesAfter(node, b) :
                /\ e.node.chosen # NoState
                /\ Represents(e.node, Advance(sim, hypotheses, b, n), n)
         /\ /\ node.chosen # NoState /\ o \in 0 .. n - 1
            /\ Lone(Advance(sim, hypotheses, b, n), o)
            => \E e \in Search!NodesAfter(node, b) :
                 /\ e.node.chosen # NoState
                 /\ Represents(e.node, Advance(sim, hypotheses, b, n), o)
<1> DEFINE next == Advance(sim, hypotheses, b, n)
           moved == Search!Moved(node, b)
           fresh == Search!FreshState(node, b)
<1>1. Sound(sim, next, n + 1)
  BY AdvanceSound DEF Asked
<1>2. \A h \in next : h = <<h[1], h[2]>> /\ h[1] \in sim.live /\ h[1] # NoState
  BY <1>1, LiveStates DEF Sound, Asked
<1>3. ASSUME NEW p, Lone(next, p)
      PROVE  \E s : /\ <<s, p>> \in next /\ s # NoState
                    /\ s \notin StatesOf(Others(next, p))
  <2> HIDE DEF next
  <2>1. PICK h \in next : h[2] = p
    BY <1>3 DEF Lone
  <2>2. h[1] \notin StatesOf(Others(next, p))
    BY <1>3, <2>1 DEF Lone, StatesOf, Others
  <2>3. QED
    BY <1>2, <2>1, <2>2
<1>4. CASE node.chosen = NoState
  <2>1. node.others = StatesOf(hypotheses)
    BY <1>4 DEF Represents
  <2>2. /\ moved = StatesOf(Others(next, n))
        /\ \A s : s \in fresh <=> <<s, n>> \in next
        /\ moved \cup fresh = StatesOf(next)
    BY <1>4, <2>1, BeforeChoice
  <2>3. \A e : e \in Search!NodesAfter(node, b) <=>
          \/ \E s \in fresh \ moved : e = Search!Node(s, moved, TRUE)
          \/ moved \cup fresh # {} /\ e = Search!Node(NoState, moved \cup fresh, FALSE)
    BY <1>4 DEF Search!NodesAfter
  <2> HIDE DEF next, moved, fresh
  <2>4. ASSUME next # {}
        PROVE  \E e \in Search!NodesAfter(node, b) :
                 e.node.chosen = NoState /\ Represents(e.node, next, o)
    <3> DEFINE e == Search!Node(NoState, moved \cup fresh, FALSE)
    <3>1. moved \cup fresh # {}
      BY <2>2, <2>4 DEF StatesOf
    <3>2. e \in Search!NodesAfter(node, b)
      BY <2>3, <3>1
    <3>3. e.node.chosen = NoState /\ e.node.others = moved \cup fresh
      BY DEF Search!Node
    <3>4. Represents(e.node, next, o)
      BY <2>2, <3>3 DEF Represents
    <3>5. QED
      BY <3>2, <3>3, <3>4
  <2>5. ASSUME Lone(next, n)
        PROVE  \E e \in Search!NodesAfter(node, b) :
                 e.node.chosen # NoState /\ Represents(e.node, next, n)
    <3>1. PICK s : /\ <<s, n>> \in next /\ s # NoState
                   /\ s \notin StatesOf(Others(next, n))
      BY <1>3, <2>5
    <3> DEFINE e == Search!Node(s, moved, TRUE)
    <3>2. s \in fresh \ moved
      BY <2>2, <3>1
    <3>3. e \in Search!NodesAfter(node, b)
      BY <2>3, <3>2
    <3>4. e.node.chosen = s /\ e.node.others = moved
      BY DEF Search!Node
    <3>5. Represents(e.node, next, n)
      BY <2>2, <3>1, <3>4 DEF Represents
    <3>6. QED
      BY <3>1, <3>3, <3>4, <3>5
  <2>6. QED
    BY <1>4, <2>4, <2>5 DEF next
<1>5. CASE node.chosen # NoState
  <2>1. ASSUME o \in 0 .. n - 1, Lone(next, o)
        PROVE  \E e \in Search!NodesAfter(node, b) :
                 e.node.chosen # NoState /\ Represents(e.node, next, o)
    <3>1. /\ \A s : s \in Search!LiveStep(sim, node.chosen, b) <=> <<s, o>> \in next
          /\ moved \cup fresh = StatesOf(Others(next, o))
      BY <1>5, <2>1, AfterChoice
    <3>2. \A s \in Search!LiveStep(sim, node.chosen, b) \ (moved \cup fresh) :
            Search!Node(s, moved \cup fresh, FALSE) \in Search!NodesAfter(node, b)
      BY <1>5 DEF Search!NodesAfter
    <3>3. PICK s : /\ <<s, o>> \in next /\ s # NoState
                   /\ s \notin StatesOf(Others(next, o))
      BY <1>3, <2>1
    <3> HIDE DEF next, moved, fresh
    <3> DEFINE e == Search!Node(s, moved \cup fresh, FALSE)
    <3>4. e \in Search!NodesAfter(node, b)
      BY <3>1, <3>2, <3>3
    <3>5. e.node.chosen = s /\ e.node.others = moved \cup fresh
      BY DEF Search!Node
    <3>6. Represents(e.node, next, o)
      BY <3>1, <3>3, <3>5 DEF Represents
    <3>7. QED
      BY <3>3, <3>4, <3>5, <3>6
  <2>2. QED
    BY <1>5, <2>1 DEF next
<1>6. QED
  BY <1>4, <1>5

----------------------------------------------------------------------------
(* The search.  Its nodes are typed by the automaton asked.                *)
SearchNodes == [chosen : sim.live \cup {NoState}, others : SUBSET sim.live]
Arcs == [parent : Nat, byte : Symbols \cup {0}, chose : BOOLEAN]

Path == PathTo(reached, Len(nodes))
Origin == OriginsOf(reached, Len(nodes))
Level(i) == Len(Path[i])

Queue ==
  /\ nodes \in Seq(SearchNodes) /\ reached \in Seq(Arcs)
  /\ Len(reached) = Len(nodes) /\ Len(nodes) > 0
  /\ IsTree(reached, Len(nodes))

Cursor ==
  /\ expanded \in 1 .. Len(nodes) + 1
  /\ byte \in 1 .. Len(Bytes) + 1
  /\ pending # {} => expanded <= Len(nodes) /\ byte > 1

(* Each node stands for the cloud over the way to it.                      *)
NodesAreClouds ==
  \A i \in 1 .. Len(nodes) :
    /\ Represents(nodes[i], Cloud(sim, Path[i]), Origin[i])
    /\ nodes[i].chosen # NoState => Origin[i] \in 0 .. Level(i) - 1

(* The nodes are queued by their level, over at most two levels.           *)
LevelsRise ==
  /\ \A i, j \in 1 .. Len(nodes) : i <= j => Level(i) <= Level(j)
  /\ expanded <= Len(nodes) =>
       \A i \in 1 .. Len(nodes) : Level(i) <= Level(expanded) + 1

(* Nothing that a byte read leads to is forgotten.                         *)
Read(i, k) == i < expanded \/ (i = expanded /\ k < byte)

Awaits(i, k, e) == i = expanded /\ k = byte - 1 /\ e \in pending

NothingForgotten ==
  /\ \A e \in pending : e \in Search!NodesAfter(nodes[expanded], Bytes[byte - 1])
  /\ \A i \in 1 .. Len(nodes), k \in 1 .. Len(Bytes) : Read(i, k) =>
       \A e \in Search!NodesAfter(nodes[i], Bytes[k]) :
         \/ Awaits(i, k, e)
         \/ \E j \in 1 .. Len(nodes) : nodes[j] = e.node /\ Level(j) <= Level(i) + 1

Answers ==
  /\ outcome \in {"searching", "none", "budget", "found"}
  /\ \A i \in 1 .. Len(nodes) : Search!Certifies(nodes[i]) => outcome = "found" /\ i = last
  /\ outcome = "found" =>
       /\ expanded <= Len(nodes) /\ last = Len(nodes)
       /\ Search!Certifies(nodes[last]) /\ Level(last) = Level(expanded) + 1
  /\ outcome = "none" => sim.live = {} \/ expanded > Len(nodes)

SearchInv ==
  /\ Asked
  /\ Queue /\ Cursor /\ NodesAreClouds /\ LevelsRise /\ NothingForgotten /\ Answers

LEMMA PathsAreWords ==
  ASSUME Queue
  PROVE  \A i \in 1 .. Len(nodes) :
           /\ Path[i] \in Seq(Symbols) /\ Level(i) \in Nat
           /\ Path[i] = IF i = 1 THEN << >>
                        ELSE Append(Path[reached[i].parent], reached[i].byte)
           /\ Origin[i] = IF i = 1 THEN 0
                          ELSE IF reached[i].chose THEN Level(reached[i].parent)
                          ELSE Origin[reached[i].parent]
<1>1. Len(nodes) \in Nat /\ IsTree(reached, Len(nodes))
  BY DEF Queue
<1>2. \A i \in 1 .. Len(nodes) : Path[i] \in Seq(Symbols)
  BY <1>1, PathSteps DEF Path
<1>3. \A i \in 1 .. Len(nodes) :
        Path[i] = IF i = 1 THEN << >> ELSE Append(Path[reached[i].parent], reached[i].byte)
  BY <1>1, PathSteps DEF Path
<1>4. \A i \in 1 .. Len(nodes) :
        Origin[i] = IF i = 1 THEN 0
                    ELSE IF reached[i].chose THEN Level(reached[i].parent)
                    ELSE Origin[reached[i].parent]
  BY <1>1, OriginSteps DEF Path, Origin, Level
<1>5. QED
  BY <1>2, <1>3, <1>4 DEF Level


LEMMA NodesAfterTyped ==
  ASSUME NEW node, NEW b, NEW e \in Search!NodesAfter(node, b)
  PROVE  e.node \in SearchNodes /\ e.chose \in BOOLEAN
<1> DEFINE moved == Search!Moved(node, b)
           fresh == Search!FreshState(node, b)
<1>1. moved \subseteq sim.live /\ fresh \subseteq sim.live
      /\ Search!LiveStep(sim, node.chosen, b) \subseteq sim.live
  BY DEF Search!Moved, Search!FreshState, Search!LiveStep
<1>2. \E s \in sim.live \cup {NoState}, others \in SUBSET sim.live, chose \in BOOLEAN :
        e = Search!Node(s, others, chose)
  <2> HIDE DEF moved, fresh
  <2>1. CASE node.chosen # NoState
    <3>1. PICK s \in Search!LiveStep(sim, node.chosen, b) \ (moved \cup fresh) :
            e = Search!Node(s, moved \cup fresh, FALSE)
      BY <2>1 DEF Search!NodesAfter, moved, fresh
    <3>2. s \in sim.live \cup {NoState} /\ moved \cup fresh \in SUBSET sim.live
      BY <1>1
    <3>3. QED
      BY <3>1, <3>2
  <2>2. CASE node.chosen = NoState
    <3>1. \/ \E s \in fresh \ moved : e = Search!Node(s, moved, TRUE)
          \/ e = Search!Node(NoState, moved \cup fresh, FALSE)
      BY <2>2 DEF Search!NodesAfter, moved, fresh
    <3>2. moved \in SUBSET sim.live /\ moved \cup fresh \in SUBSET sim.live
          /\ \A s \in fresh : s \in sim.live \cup {NoState}
      BY <1>1
    <3>3. QED
      BY <3>1, <3>2
  <2>3. QED
    BY <2>1, <2>2
<1>3. QED
  BY <1>2 DEF Search!Node, SearchNodes

(* The search is given the same automaton as the walk.                     *)
LEMMA SameSimulator ==
  ASSUME NEW D
  PROVE  Search!Simulator(D, {}) = Simulator(D, {})
<1>1. \A C, s : Search!States(C) = States(C) /\ (Search!Accepting(C, s) <=> Accepting(C, s))
  BY DEF Search!States, States, Search!Accepting, Accepting
<1>2. \A C : Search!UnrollStart(C) = UnrollStart(C)
  BY <1>1 DEF Search!UnrollStart, UnrollStart
<1>3. \A C, seeds : Search!ClosedBackward(C, seeds) = ClosedBackward(C, seeds)
  BY DEF Search!ClosedBackward, ClosedBackward, Search!States, States
<1>4. \A C : Search!Reachable(C) = Reachable(C)
  BY DEF Search!Reachable, Reachable, Search!States, States
<1>5. \A C : Search!CoAccessible(C) = CoAccessible(C)
  BY <1>1, <1>3 DEF Search!CoAccessible, CoAccessible
<1>6. \A C : Search!Live(C) = Live(C) /\ (Search!InitReentrant(C) <=> InitReentrant(C))
  BY <1>4, <1>5 DEF Search!Live, Live, Search!InitReentrant, InitReentrant
<1>7. \A C : Search!Exempt(C) = Exempt(C)
  BY <1>6 DEF Search!Exempt, Exempt
<1>8. \A C, d : Search!ObservedClasses(C, d) = ObservedClasses(C, d)
  BY DEF Search!ObservedClasses, ObservedClasses, Search!ObservedColour, ObservedColour,
         Search!States, States, Search!Accepting, Accepting
<1>9. \A C : Search!SplitPoints(C, {}) = SplitPoints(C, {})
  BY <1>1, <1>3, <1>4, <1>5, <1>7, <1>8 DEF Search!SplitPoints, SplitPoints
<1>10. QED
  BY <1>1, <1>2, <1>6, <1>9 DEF Search!Simulator, Simulator

LEMMA InitSearch ==
  ASSUME Search!Init
  PROVE  SearchInv
<1>1. Asked
  <2>1. PICK D \in SearchDfas : sim = Simulator(D, {})
    BY SameSimulator DEF Search!Init
  <2>2. QED
    BY <2>1, CompiledIsAsked, FoundWindowAssumption
<1>2. /\ nodes = <<[chosen |-> NoState, others |-> sim.live]>>
      /\ reached = <<[parent |-> 0, byte |-> 0, chose |-> FALSE]>>
      /\ expanded = 1 /\ byte = 1 /\ pending = {} /\ last = 0
      /\ outcome = IF sim.live = {} THEN "none" ELSE IF budget = 0 THEN "budget" ELSE "searching"
  BY DEF Search!Init
<1>3. Len(nodes) = 1 /\ nodes[1] = [chosen |-> NoState, others |-> sim.live]
  BY <1>2
<1>4. Queue
  <2>1. nodes \in Seq(SearchNodes) /\ reached \in Seq(Arcs) /\ Len(reached) = 1
    BY <1>2 DEF SearchNodes, Arcs
  <2>2. QED
    BY <1>3, <2>1 DEF Queue, IsTree
<1>5. Path[1] = << >> /\ Level(1) = 0
  BY <1>3, <1>4, PathsAreWords DEF Level
<1>6. Cursor
  BY <1>2, <1>3, FoundWindowAssumption DEF Cursor
<1>7. NodesAreClouds
  <2>1. Cloud(sim, << >>) = sim.live \X {BeforeWindow}
    BY CloudOfNothing DEF InitialCloud
  <2>2. StatesOf(sim.live \X {BeforeWindow}) = sim.live
    <3>1. \A s \in sim.live : s \in StatesOf(sim.live \X {BeforeWindow})
      <4> TAKE s \in sim.live
      <4>1. <<s, BeforeWindow>> \in sim.live \X {BeforeWindow}
            /\ s = <<s, BeforeWindow>>[1]
        OBVIOUS
      <4>2. QED
        BY <4>1, Zenon DEF StatesOf
    <3>2. \A h \in sim.live \X {BeforeWindow} : h[1] \in sim.live
      OBVIOUS
    <3>3. QED
      BY <3>1, <3>2 DEF StatesOf
  <2>3. nodes[1].chosen = NoState /\ nodes[1].others = sim.live
    BY <1>3
  <2>4. Represents(nodes[1], Cloud(sim, Path[1]), Origin[1])
    BY <1>5, <2>1, <2>2, <2>3 DEF Represents
  <2>5. \A i \in 1 .. Len(nodes) : i = 1
    BY <1>3
  <2>6. QED
    BY <2>3, <2>4, <2>5 DEF NodesAreClouds
<1>8. LevelsRise
  BY <1>2, <1>3, <1>5 DEF LevelsRise
<1>9. NothingForgotten
  BY <1>2, <1>3, FoundWindowAssumption DEF NothingForgotten, Read
<1>10. Answers
  BY <1>2, <1>3 DEF Answers, Search!Certifies
<1>11. QED
  BY <1>1, <1>4, <1>6, <1>7, <1>8, <1>9, <1>10 DEF SearchInv

(* A node reached is added behind the others, and disturbs none of them.   *)
LEMMA ReachGrows ==
  ASSUME Queue, Cursor, NothingForgotten, NEW e \in pending, Search!Reach(e)
  PROVE  /\ Queue'
         /\ Len(nodes') = Len(nodes) + 1
         /\ \A i \in 1 .. Len(nodes) :
              nodes'[i] = nodes[i] /\ Path'[i] = Path[i] /\ Origin'[i] = Origin[i]
         /\ nodes'[Len(nodes) + 1] = e.node
         /\ Path'[Len(nodes) + 1] = Append(Path[expanded], Bytes[byte - 1])
         /\ Origin'[Len(nodes) + 1] =
              IF e.chose THEN Level(expanded) ELSE Origin[expanded]
<1> DEFINE N == Len(nodes)
           arc == [parent |-> expanded, byte |-> Bytes[byte - 1], chose |-> e.chose]
<1>1. /\ nodes' = Append(nodes, e.node) /\ reached' = Append(reached, arc)
      /\ UNCHANGED sim
  BY DEF Search!Reach, Search!given
<1>2. expanded \in 1 .. N /\ byte - 1 \in 1 .. Len(Bytes) /\ Bytes[byte - 1] \in Symbols
  BY FoundWindowAssumption DEF Cursor
<1>3. e.node \in SearchNodes /\ e.chose \in BOOLEAN
  BY NodesAfterTyped DEF NothingForgotten
<1>4. arc \in Arcs /\ arc.parent = expanded /\ arc.byte = Bytes[byte - 1] /\ arc.chose = e.chose
  BY <1>2, <1>3 DEF Arcs, Queue
<1> HIDE DEF arc
<1>5. /\ nodes \in Seq(SearchNodes) /\ reached \in Seq(Arcs)
      /\ Len(reached) = N /\ N \in Nat \ {0} /\ IsTree(reached, N)
  BY DEF Queue
<1>6. /\ nodes' \in Seq(SearchNodes) /\ Len(nodes') = N + 1 /\ nodes'[N + 1] = e.node
      /\ \A i \in 1 .. N : nodes'[i] = nodes[i]
  BY <1>1, <1>3, <1>5
<1>7. /\ reached' \in Seq(Arcs) /\ Len(reached') = N + 1 /\ reached'[N + 1] = arc
      /\ \A i \in 1 .. N : reached'[i] = reached[i]
  BY <1>1, <1>4, <1>5
<1>8. IsTree(reached', N + 1)
  <2>1. ASSUME NEW n \in 2 .. N + 1
        PROVE  reached'[n].parent \in 1 .. n - 1 /\ reached'[n].byte \in Symbols
    <3>1. CASE n = N + 1
      BY <1>2, <1>4, <1>5, <1>7, <3>1
    <3>2. CASE n \in 2 .. N
      BY <1>5, <1>7, <3>2 DEF IsTree
    <3>3. QED
      BY <1>5, <3>1, <3>2
  <2>2. QED
    BY <2>1 DEF IsTree
<1>9. Queue'
  <2>1. SearchNodes' = SearchNodes
    BY <1>1 DEF SearchNodes
  <2>2. Arcs' = Arcs
    BY DEF Arcs
  <2>3. QED
    BY <1>5, <1>6, <1>7, <1>8, <2>1, <2>2 DEF Queue
<1>10. Path' = PathTo(reached', N + 1) /\ Origin' = OriginsOf(reached', N + 1)
  BY <1>6 DEF Path, Origin
<1>11. \A i \in 1 .. N : Path'[i] = Path[i] /\ Origin'[i] = Origin[i]
  <2>1. \A i \in 1 .. N : /\ PathTo(reached', N + 1)[i] = PathTo(reached, N)[i]
                          /\ OriginsOf(reached', N + 1)[i] = OriginsOf(reached, N)[i]
    BY <1>5, <1>7, <1>8, PathsStay, SMTT(20)
  <2>2. QED
    BY <1>10, <2>1 DEF Path, Origin
<1>12. /\ Path'[N + 1] = Append(Path'[expanded], Bytes[byte - 1])
       /\ Origin'[N + 1] = IF e.chose THEN Len(Path'[expanded]) ELSE Origin'[expanded]
  <2>1. N + 1 \in 1 .. N + 1 /\ N + 1 # 1 /\ N + 1 \in Nat
    BY <1>5
  <2>2. PathTo(reached', N + 1)[N + 1] =
          Append(PathTo(reached', N + 1)[reached'[N + 1].parent], reached'[N + 1].byte)
    BY <1>8, <2>1, PathSteps
  <2>3. OriginsOf(reached', N + 1)[N + 1] =
          IF reached'[N + 1].chose THEN Len(PathTo(reached', N + 1)[reached'[N + 1].parent])
          ELSE OriginsOf(reached', N + 1)[reached'[N + 1].parent]
    BY <1>8, <2>1, OriginSteps
  <2>4. QED
    BY <1>4, <1>7, <1>10, <2>2, <2>3
<1>13. QED
  BY <1>2, <1>6, <1>9, <1>11, <1>12 DEF Level

(* And its level is one more than that of the node expanded.               *)
LEMMA ReachLevels ==
  ASSUME Queue, Cursor, NothingForgotten, NEW e \in pending, Search!Reach(e)
  PROVE  /\ \A i \in 1 .. Len(nodes) : Level(i)' = Level(i) /\ Level(i) \in Nat
         /\ \A i : i = Len(nodes) + 1 => Level(i)' = Level(expanded) + 1
         /\ expanded \in 1 .. Len(nodes)
<1>1. expanded \in 1 .. Len(nodes) /\ Bytes[byte - 1] \in Symbols
  BY FoundWindowAssumption DEF Cursor
<1>2. Path[expanded] \in Seq(Symbols)
  BY <1>1, PathsAreWords
<1>3. Len(Append(Path[expanded], Bytes[byte - 1])) = Len(Path[expanded]) + 1
  BY <1>1, <1>2
<1>4. Path'[Len(nodes) + 1] = Append(Path[expanded], Bytes[byte - 1])
      /\ \A i \in 1 .. Len(nodes) : Path'[i] = Path[i]
  BY ReachGrows
<1>5. \A i \in 1 .. Len(nodes) : Level(i) \in Nat
  BY PathsAreWords
<1>6. QED
  BY <1>1, <1>3, <1>4, <1>5 DEF Level

LEMMA SimStays ==
  ASSUME UNCHANGED sim
  PROVE  /\ \A node, b : Search!NodesAfter(node, b)' = Search!NodesAfter(node, b)
         /\ Asked => Asked'
<1>1. \A s, b : Search!LiveStep(sim, s, b)' = Search!LiveStep(sim, s, b)
  BY DEF Search!LiveStep
<1>2. \A node : Search!Renamed(node)' = Search!Renamed(node)
  BY DEF Search!Renamed
<1>3. \A node, b : Search!Moved(node, b)' = Search!Moved(node, b)
  BY <1>2 DEF Search!Moved, Search!LiveStep
<1>4. \A node, b : Search!FreshState(node, b)' = Search!FreshState(node, b)
  BY <1>2 DEF Search!FreshState, Search!LiveStep, Search!States, Search!Accepting
<1>5. \A node, b : Search!NodesAfter(node, b)' = Search!NodesAfter(node, b)
  <2> TAKE node, b
  <2>1. /\ Search!Moved(node, b)' = Search!Moved(node, b)
        /\ Search!FreshState(node, b)' = Search!FreshState(node, b)
        /\ Search!LiveStep(sim, node.chosen, b)' = Search!LiveStep(sim, node.chosen, b)
    BY <1>1, <1>3, <1>4
  <2>2. QED
    BY <2>1 DEF Search!NodesAfter
<1>6. Asked => Asked'
  BY DEF Asked
<1>7. QED
  BY <1>5, <1>6

(* Where no node is reached the nodes and their clouds stand.              *)
LEMMA QueueStays ==
  ASSUME UNCHANGED <<sim, nodes, reached>>
  PROVE  /\ Queue => Queue'
         /\ NodesAreClouds => NodesAreClouds'
         /\ \A i : Level(i)' = Level(i)
<1>1. UNCHANGED <<Path, Origin, SearchNodes, Arcs>>
  BY DEF Path, Origin, SearchNodes, Arcs
<1>2. \A i : Level(i)' = Level(i)
  BY <1>1 DEF Level
<1>3. QED
  BY <1>1, <1>2 DEF Queue, NodesAreClouds

LEMMA SearchStays ==
  ASSUME SearchInv, UNCHANGED <<sim, searchVars>>
  PROVE  SearchInv'
<1>1. UNCHANGED <<sim, budget, nodes, reached, expanded, byte, pending, outcome, last>>
  BY DEF searchVars
<1>2. /\ Asked' /\ Queue' /\ NodesAreClouds'
      /\ \A i : Level(i)' = Level(i)
      /\ \A node, b : Search!NodesAfter(node, b)' = Search!NodesAfter(node, b)
  BY <1>1, QueueStays, SimStays DEF SearchInv
<1>3. Cursor' /\ LevelsRise'
  BY <1>1, <1>2 DEF SearchInv, Cursor, LevelsRise
<1>4. NothingForgotten'
  BY <1>1, <1>2 DEF SearchInv, NothingForgotten, Read, Awaits
<1>5. Answers'
  BY <1>1, <1>2 DEF SearchInv, Answers
<1>6. QED
  BY <1>2, <1>3, <1>4, <1>5 DEF SearchInv

(* Reading a byte, and going on to the next node.                          *)
LEMMA CursorMoves ==
  ASSUME SearchInv, Search!ReadByte \/ Search!NextNode
  PROVE  SearchInv'
<1>1. /\ UNCHANGED <<sim, nodes, reached, outcome, last>>
      /\ outcome = "searching" /\ pending = {} /\ expanded <= Len(nodes)
  BY DEF Search!ReadByte, Search!NextNode, Search!given, Search!queue
<1>2. /\ Asked' /\ Queue' /\ NodesAreClouds'
      /\ \A i : Level(i)' = Level(i)
      /\ \A node, b : Search!NodesAfter(node, b)' = Search!NodesAfter(node, b)
  BY <1>1, QueueStays, SimStays DEF SearchInv
<1>3. /\ Len(nodes) \in Nat /\ expanded \in 1 .. Len(nodes)
      /\ byte \in 1 .. Len(Bytes) + 1 /\ Len(Bytes) \in Nat
      /\ \A i \in 1 .. Len(nodes) : Level(i) \in Nat
  BY <1>1, PathsAreWords, FoundWindowAssumption DEF SearchInv, Queue, Cursor
<1>4. Answers'
  BY <1>1, <1>2 DEF SearchInv, Answers
<1>5. CASE Search!ReadByte
  <2>1. /\ expanded' = expanded /\ byte <= Len(Bytes) /\ byte' = byte + 1
        /\ pending' = Search!NodesAfter(nodes[expanded], Bytes[byte])
    BY <1>5 DEF Search!ReadByte
  <2>2. Cursor' /\ LevelsRise'
    BY <1>1, <1>2, <1>3, <2>1 DEF SearchInv, Cursor, LevelsRise
  <2>3. byte' - 1 = byte
    BY <1>3, <2>1
  <2>4. \A i \in 1 .. Len(nodes), k \in 1 .. Len(Bytes) :
          Read(i, k)' => Read(i, k) \/ (i = expanded /\ k = byte)
    BY <1>3, <2>1 DEF Read
  <2>5. NothingForgotten'
    <3>1. \A e \in pending' : e \in Search!NodesAfter(nodes[expanded], Bytes[byte])
      BY <2>1
    <3>2. ASSUME NEW i \in 1 .. Len(nodes), NEW k \in 1 .. Len(Bytes), Read(i, k)',
                 NEW e \in Search!NodesAfter(nodes[i], Bytes[k])
          PROVE  \/ Awaits(i, k, e)'
                 \/ \E j \in 1 .. Len(nodes) : nodes[j] = e.node /\ Level(j) <= Level(i) + 1
      <4>1. CASE Read(i, k)
        BY <1>1, <3>2, <4>1 DEF SearchInv, NothingForgotten, Awaits
      <4>2. CASE i = expanded /\ k = byte
        BY <2>1, <2>3, <3>2, <4>2 DEF Awaits
      <4>3. QED
        BY <2>4, <3>2, <4>1, <4>2
    <3>3. QED
      BY <1>1, <1>2, <2>1, <2>3, <3>1, <3>2 DEF NothingForgotten
  <2>6. QED
    BY <1>2, <1>4, <2>2, <2>5 DEF SearchInv
<1>6. CASE Search!NextNode
  <2>1. /\ expanded' = expanded + 1 /\ byte > Len(Bytes) /\ byte' = 1 /\ pending' = {}
    BY <1>6 DEF Search!NextNode
  <2>2. Cursor'
    BY <1>1, <1>3, <2>1 DEF Cursor
  <2>3. LevelsRise'
    <3>1. ASSUME expanded + 1 <= Len(nodes), NEW i \in 1 .. Len(nodes)
          PROVE  Level(i) <= Level(expanded + 1) + 1
      <4>1. Level(i) <= Level(expanded) + 1 /\ Level(expanded) <= Level(expanded + 1)
        BY <1>1, <1>3, <3>1 DEF SearchInv, LevelsRise
      <4>2. QED
        BY <1>3, <3>1, <4>1
    <3>2. \A j : j = expanded' => Level(j)' = Level(expanded + 1)
      BY <1>2, <2>1
    <3>3. QED
      BY <1>1, <1>2, <2>1, <3>1, <3>2 DEF SearchInv, LevelsRise
  <2>4. \A i \in 1 .. Len(nodes), k \in 1 .. Len(Bytes) : Read(i, k)' => Read(i, k)
    BY <1>3, <2>1 DEF Read
  <2>5. NothingForgotten'
    <3>1. ASSUME NEW i \in 1 .. Len(nodes), NEW k \in 1 .. Len(Bytes), Read(i, k)',
                 NEW e \in Search!NodesAfter(nodes[i], Bytes[k])
          PROVE  \E j \in 1 .. Len(nodes) : nodes[j] = e.node /\ Level(j) <= Level(i) + 1
      BY <1>1, <2>4, <3>1 DEF SearchInv, NothingForgotten, Awaits
    <3>2. QED
      BY <1>1, <1>2, <2>1, <3>1 DEF NothingForgotten
  <2>6. QED
    BY <1>2, <1>4, <2>2, <2>3, <2>5 DEF SearchInv
<1>7. QED
  BY <1>5, <1>6

(* A node known is not queued again: it is at a level low enough.          *)
LEMMA DropKeeps ==
  ASSUME SearchInv, NEW e \in pending, Search!Drop(e)
  PROVE  SearchInv'
<1>1. /\ UNCHANGED <<sim, nodes, reached, expanded, byte, outcome, last>>
      /\ outcome = "searching" /\ pending' = pending \ {e}
  BY DEF Search!Drop, Search!given, Search!queue, Search!cursor
<1>2. /\ Asked' /\ Queue' /\ NodesAreClouds'
      /\ \A i : Level(i)' = Level(i)
      /\ \A node, b : Search!NodesAfter(node, b)' = Search!NodesAfter(node, b)
  BY <1>1, QueueStays, SimStays DEF SearchInv
<1>3. Cursor' /\ LevelsRise' /\ Answers'
  BY <1>1, <1>2 DEF SearchInv, Cursor, LevelsRise, Answers
<1>4. PICK known \in 1 .. Len(nodes) : nodes[known] = e.node
  BY DEF Search!Drop, Search!Known
<1>5. Level(known) <= Level(expanded) + 1
  BY DEF SearchInv, LevelsRise, Cursor
<1>6. ASSUME NEW i \in 1 .. Len(nodes), NEW k \in 1 .. Len(Bytes), Read(i, k),
             NEW f \in Search!NodesAfter(nodes[i], Bytes[k])
      PROVE  \/ Awaits(i, k, f)'
             \/ \E j \in 1 .. Len(nodes) : nodes[j] = f.node /\ Level(j) <= Level(i) + 1
  <2>1. CASE Awaits(i, k, f) /\ f = e
    BY <1>4, <1>5, <2>1 DEF Awaits
  <2>2. CASE Awaits(i, k, f) /\ f # e
    BY <1>1, <2>2 DEF Awaits
  <2>3. CASE ~ Awaits(i, k, f)
    BY <1>6, <2>3 DEF SearchInv, NothingForgotten
  <2>4. QED
    BY <2>1, <2>2, <2>3
<1>7. \A f \in pending' : f \in Search!NodesAfter(nodes[expanded], Bytes[byte - 1])
  BY <1>1 DEF SearchInv, NothingForgotten
<1>8. \A i, k : Read(i, k)' <=> Read(i, k)
  BY <1>1 DEF Read
<1>9. NothingForgotten'
  BY <1>1, <1>2, <1>6, <1>7, <1>8 DEF NothingForgotten
<1>10. QED
  BY <1>2, <1>3, <1>9 DEF SearchInv

LEMMA SearchEnds ==
  ASSUME SearchInv,
         Search!Exhausted \/ \E e \in pending : Search!GiveUp(e)
  PROVE  SearchInv'
<1>1. /\ UNCHANGED <<sim, nodes, reached, expanded, byte, pending, last>>
      /\ outcome = "searching"
      /\ \/ outcome' = "budget"
         \/ outcome' = "none" /\ expanded > Len(nodes)
  BY DEF Search!Exhausted, Search!GiveUp, Search!given, Search!queue, Search!cursor
<1>2. /\ Asked' /\ Queue' /\ NodesAreClouds'
      /\ \A i : Level(i)' = Level(i)
      /\ \A node, b : Search!NodesAfter(node, b)' = Search!NodesAfter(node, b)
  BY <1>1, QueueStays, SimStays DEF SearchInv
<1>3. Cursor' /\ LevelsRise'
  BY <1>1, <1>2 DEF SearchInv, Cursor, LevelsRise
<1>4. NothingForgotten'
  BY <1>1, <1>2 DEF SearchInv, NothingForgotten, Read, Awaits
<1>5. Answers'
  BY <1>1, <1>2 DEF SearchInv, Answers
<1>6. QED
  BY <1>2, <1>3, <1>4, <1>5 DEF SearchInv

(* The node reached stands for the cloud one byte on.                      *)
LEMMA ReachRepresents ==
  ASSUME SearchInv, NEW e \in pending, Search!Reach(e)
  PROVE  NodesAreClouds'
<1> DEFINE N == Len(nodes)
           b == Bytes[byte - 1]
           p == Path[expanded]
           n == Level(expanded)
           o == Origin[expanded]
           node == nodes[expanded]
<1>1. /\ sim' = sim
      /\ Asked /\ Queue /\ Cursor /\ NodesAreClouds /\ NothingForgotten
  BY DEF SearchInv, Search!Reach, Search!given
<1>2. expanded \in 1 .. N /\ b \in Symbols /\ e \in Search!NodesAfter(node, b)
  <2>1. e \in Search!NodesAfter(node, b)
    BY <1>1 DEF NothingForgotten
  <2>2. expanded \in 1 .. N /\ byte - 1 \in 1 .. Len(Bytes)
    BY <1>1 DEF Cursor
  <2>3. b \in Symbols
    BY <2>2, FoundWindowAssumption
  <2>4. QED
    BY <2>1, <2>2, <2>3
<1>3. p \in Seq(Symbols) /\ n = Len(p) /\ n \in Nat
  BY <1>1, <1>2, PathsAreWords DEF Level
<1>4. Cloud(sim, Append(p, b)) = Advance(sim, Cloud(sim, p), b, n)
  BY <1>2, <1>3, CloudOfAppend
<1>5. Sound(sim, Cloud(sim, p), n)
  BY <1>1, <1>3, CloudSound DEF Cloud, Asked
<1>6. /\ Represents(node, Cloud(sim, p), o)
      /\ node.chosen # NoState => o \in 0 .. n - 1
  BY <1>1, <1>2 DEF NodesAreClouds
<1> HIDE DEF b, p, n, o, node
<1>7. /\ Represents(e.node, Cloud(sim, Append(p, b)), IF e.chose THEN n ELSE o)
      /\ e.node.chosen # NoState => (IF e.chose THEN n ELSE o) \in 0 .. n
  <2> DEFINE hypotheses == Cloud(sim, p)
  <2> HIDE DEF hypotheses
  <2>1. CASE node.chosen = NoState
    <3>1. /\ Represents(e.node, Advance(sim, hypotheses, b, n), IF e.chose THEN n ELSE o)
          /\ e.node.chosen # NoState => e.chose
      BY <1>1, <1>2, <1>3, <1>5, <1>6, <2>1, NodesAfterBeforeChoice DEF hypotheses
    <3>2. QED
      BY <1>3, <1>4, <3>1 DEF hypotheses
  <2>2. CASE node.chosen # NoState
    <3>1. /\ Represents(e.node, Advance(sim, hypotheses, b, n), o)
          /\ ~ e.chose
      BY <1>1, <1>2, <1>3, <1>5, <1>6, <2>2, NodesAfterChoice DEF hypotheses
    <3>2. QED
      BY <1>3, <1>4, <1>6, <2>2, <3>1 DEF hypotheses
  <2>3. QED
    BY <2>1, <2>2
<1>8. /\ Len(nodes') = N + 1 /\ N \in Nat
      /\ \A i \in 1 .. N :
           nodes'[i] = nodes[i] /\ Path'[i] = Path[i] /\ Origin'[i] = Origin[i]
      /\ nodes'[N + 1] = e.node
      /\ Path'[N + 1] = Append(p, b)
      /\ Origin'[N + 1] = IF e.chose THEN n ELSE o
  BY <1>1, ReachGrows DEF Queue, b, p, n, o
<1>9. /\ \A i \in 1 .. N : Level(i)' = Level(i)
      /\ \A i : i = N + 1 => Level(i)' = n + 1
  BY <1>1, ReachLevels DEF n
<1>10. ASSUME NEW i \in 1 .. N + 1
       PROVE  /\ Represents(nodes'[i], Cloud(sim, Path'[i]), Origin'[i])
              /\ nodes'[i].chosen # NoState => Origin'[i] \in 0 .. Level(i)' - 1
  <2>1. CASE i \in 1 .. N
    BY <1>1, <1>8, <1>9, <2>1 DEF NodesAreClouds
  <2>2. CASE i = N + 1
    <3>1. Level(i)' - 1 = n
      BY <1>3, <1>9, <2>2
    <3>2. QED
      BY <1>7, <1>8, <2>2, <3>1
  <2>3. QED
    BY <1>8, <2>1, <2>2
<1>11. QED
  BY <1>1, <1>8, <1>10 DEF NodesAreClouds

LEMMA ReachKeeps ==
  ASSUME SearchInv, NEW e \in pending, Search!Reach(e)
  PROVE  SearchInv'
<1> DEFINE N == Len(nodes)
<1>1. /\ UNCHANGED <<sim, expanded, byte>>
      /\ outcome = "searching" /\ pending' = pending \ {e}
      /\ outcome' = IF Search!Certifies(e.node) THEN "found" ELSE outcome
      /\ last' = IF Search!Certifies(e.node) THEN N + 1 ELSE last
      /\ Asked /\ Queue /\ Cursor /\ NodesAreClouds /\ LevelsRise /\ NothingForgotten
      /\ Answers
  BY DEF SearchInv, Search!Reach, Search!given, Search!cursor
<1>2. /\ Asked' /\ \A node, b : Search!NodesAfter(node, b)' = Search!NodesAfter(node, b)
  BY <1>1, SimStays
<1>3. NodesAreClouds'
  BY ReachRepresents
<1>4. /\ Queue' /\ Len(nodes') = N + 1 /\ N \in Nat
      /\ \A i \in 1 .. N : nodes'[i] = nodes[i]
      /\ nodes'[N + 1] = e.node
  BY <1>1, ReachGrows DEF Queue
<1>5. /\ \A i \in 1 .. N : Level(i)' = Level(i) /\ Level(i) \in Nat
      /\ \A i : i = N + 1 => Level(i)' = Level(expanded) + 1
      /\ expanded \in 1 .. N
  BY <1>1, ReachLevels
<1>6. Cursor'
  BY <1>1, <1>4, <1>5 DEF Cursor
<1>7. LevelsRise'
  <2>1. \A i \in 1 .. N + 1 : Level(i)' <= Level(expanded) + 1
    BY <1>1, <1>4, <1>5 DEF LevelsRise
  <2>2. ASSUME NEW i \in 1 .. N + 1, NEW j \in 1 .. N + 1, i <= j
        PROVE  Level(i)' <= Level(j)'
    <3>1. CASE j = N + 1
      BY <1>5, <2>1, <3>1
    <3>2. CASE j # N + 1
      <4>1. i \in 1 .. N /\ j \in 1 .. N
        BY <1>4, <2>2, <3>2
      <4>2. Level(i) <= Level(j)
        BY <1>1, <2>2, <4>1 DEF LevelsRise
      <4>3. QED
        BY <1>5, <4>1, <4>2
    <3>3. QED
      BY <3>1, <3>2
  <2>3. \A i : i = expanded' => Level(i)' = Level(expanded)
    BY <1>1, <1>5
  <2>4. QED
    BY <1>1, <1>4, <2>1, <2>2, <2>3 DEF LevelsRise
<1>8. NothingForgotten'
  <2>1. \A f \in pending' : f \in Search!NodesAfter(nodes'[expanded], Bytes[byte - 1])
    BY <1>1, <1>4, <1>5 DEF NothingForgotten
  <2>2. ASSUME NEW i \in 1 .. N + 1, NEW k \in 1 .. Len(Bytes), Read(i, k),
               NEW f \in Search!NodesAfter(nodes'[i], Bytes[k])
        PROVE  \/ Awaits(i, k, f)'
               \/ \E j \in 1 .. N + 1 : nodes'[j] = f.node /\ Level(j)' <= Level(i)' + 1
    <3>1. i \in 1 .. N /\ nodes'[i] = nodes[i]
      BY <1>4, <1>5, <2>2 DEF Read
    <3>2. CASE Awaits(i, k, f) /\ f = e
      <4>1. i = expanded
        BY <3>2 DEF Awaits
      <4>2. Level(i)' = Level(expanded)
        BY <1>5, <3>1, <4>1
      <4>3. \A j : j = N + 1 => nodes'[j] = f.node /\ Level(j)' <= Level(i)' + 1
        BY <1>4, <1>5, <3>2, <4>2
      <4>4. QED
        BY <1>4, <4>3
    <3>3. CASE Awaits(i, k, f) /\ f # e
      BY <1>1, <3>3 DEF Awaits
    <3>4. CASE ~ Awaits(i, k, f)
      <4>1. PICK j \in 1 .. N : nodes[j] = f.node /\ Level(j) <= Level(i) + 1
        BY <1>1, <2>2, <3>1, <3>4 DEF NothingForgotten
      <4>2. QED
        BY <1>4, <1>5, <3>1, <4>1
    <3>5. QED
      BY <3>2, <3>3, <3>4
  <2>3. \A i, k : Read(i, k)' <=> Read(i, k)
    BY <1>1 DEF Read
  <2>4. QED
    BY <1>1, <1>2, <1>4, <2>1, <2>2, <2>3 DEF NothingForgotten
<1>9. Answers'
  <2>1. \A i \in 1 .. N : ~ Search!Certifies(nodes'[i])
    BY <1>1, <1>4 DEF Answers
  <2>2. CASE Search!Certifies(e.node)
    <3>1. outcome' = "found" /\ last' = N + 1
      BY <1>1, <2>2
    <3>2. \A i \in 1 .. N + 1 : Search!Certifies(nodes'[i]) => i = N + 1
      BY <1>4, <2>1
    <3>3. \A i : i = last' => Level(i)' = Level(expanded) + 1
      BY <1>5, <3>1
    <3>4. \A i : i = expanded' => Level(i)' = Level(expanded)
      BY <1>1, <1>5
    <3>5. QED
      BY <1>1, <1>4, <1>5, <2>2, <3>1, <3>2, <3>3, <3>4 DEF Answers
  <2>3. CASE ~ Search!Certifies(e.node)
    <3>1. outcome' = "searching"
      BY <1>1, <2>3
    <3>2. \A i \in 1 .. N + 1 : ~ Search!Certifies(nodes'[i])
      BY <1>4, <2>1, <2>3
    <3>3. QED
      BY <1>4, <3>1, <3>2 DEF Answers
  <2>4. QED
    BY <2>2, <2>3
<1>10. QED
  BY <1>2, <1>3, <1>4, <1>6, <1>7, <1>8, <1>9 DEF SearchInv

LEMMA NextSearch ==
  ASSUME SearchInv, Search!Next
  PROVE  SearchInv'
<1>1. CASE Search!ReadByte \/ Search!NextNode
  BY <1>1, CursorMoves
<1>2. CASE Search!Exhausted \/ \E e \in pending : Search!GiveUp(e)
  BY <1>2, SearchEnds
<1>3. CASE \E e \in pending : Search!Drop(e)
  BY <1>3, DropKeeps
<1>4. CASE \E e \in pending : Search!Reach(e)
  BY <1>4, ReachKeeps
<1>5. QED
  BY <1>1, <1>2, <1>3, <1>4 DEF Search!Next

----------------------------------------------------------------------------
(* What the search has read is enough: as far as every node is expanded,   *)
(* each cloud of a certified window is represented by a node no deeper     *)
(* than its bytes, before its origin by one that has not chosen, and after *)
(* it by one that has chosen it.                                           *)
Reached(w, o, n) ==
  \E i \in 1 .. Len(nodes) :
    /\ Level(i) <= n
    /\ Represents(nodes[i], CloudAt(sim, w)[n], o)
    /\ nodes[i].chosen = NoState <=> n <= o

LEMMA NodeExpanded ==
  ASSUME SearchInv, NEW i \in 1 .. Len(nodes), i < expanded,
         NEW b \in Symbols, NEW e \in Search!NodesAfter(nodes[i], b)
  PROVE  \E j \in 1 .. Len(nodes) : nodes[j] = e.node /\ Level(j) <= Level(i) + 1
<1>1. PICK k \in 1 .. Len(Bytes) : Bytes[k] = b
  BY FoundWindowAssumption
<1>2. Read(i, k) /\ ~ Awaits(i, k, e)
  BY DEF Read, Awaits
<1>3. QED
  BY <1>1, <1>2 DEF SearchInv, NothingForgotten

LEMMA CertifiedIsReached ==
  ASSUME SearchInv, NEW w \in Seq(Symbols),
         SplitOrigin(sim, w) # BeforeWindow,
         \A i \in 1 .. Len(nodes) : Level(i) < Len(w) => i < expanded
  PROVE  \E i \in 1 .. Len(nodes) :
           Search!Certifies(nodes[i]) /\ Level(i) <= Len(w)
<1> DEFINE o == SplitOrigin(sim, w)
           m == Len(w)
           c == CloudAt(sim, w)
<1>1. /\ Asked /\ Queue /\ NodesAreClouds /\ IsSimulator(sim) /\ m \in Nat
      /\ Len(nodes) \in Nat
  BY DEF SearchInv, Asked, Queue
<1>2. /\ o \in 0 .. m - 1
      /\ \A h \in c[m] : h[2] = o
      /\ \A n \in o + 1 .. m : Lone(c[n], o)
  BY <1>1, CertifiedIsLone DEF Cloud
<1>3. /\ \A n \in 0 .. m : Sound(sim, c[n], n)
      /\ c[0] = InitialCloud(sim)
      /\ \A n \in 1 .. m : c[n] = Advance(sim, c[n - 1], w[n], n - 1)
  BY <1>1, CloudSound, CloudAtSteps
<1>4. \A n \in 0 .. m : c[n] # {}
  <2>1. c[m] # {}
    BY <1>1, <1>2 DEF Lone
  <2>2. QED
    BY <1>1, <2>1, EmptyCloudStays
<1> HIDE DEF o, c
<1>5. Reached(w, o, 0)
  <2>1. Path[1] = << >> /\ Level(1) = 0 /\ 1 \in 1 .. Len(nodes)
    BY <1>1, PathsAreWords DEF Level, Queue
  <2>2. Cloud(sim, << >>) = c[0]
    BY <1>3, CloudOfNothing
  <2>3. nodes[1].chosen = NoState
    BY <1>1, <2>1 DEF NodesAreClouds
  <2>4. nodes[1].others = StatesOf(c[0])
    BY <1>1, <2>1, <2>2, <2>3 DEF NodesAreClouds, Represents
  <2>5. Represents(nodes[1], c[0], o)
    BY <2>3, <2>4 DEF Represents
  <2>6. QED
    BY <1>2, <2>1, <2>3, <2>5 DEF Reached, c
<1>6. ASSUME NEW n \in 0 .. m - 1, Reached(w, o, n)
      PROVE  Reached(w, o, n + 1)
  <2>1. PICK i \in 1 .. Len(nodes) :
          /\ Level(i) <= n
          /\ Represents(nodes[i], c[n], o)
          /\ nodes[i].chosen = NoState <=> n <= o
    BY <1>6 DEF Reached, c
  <2>2. n \in Nat /\ Level(i) \in Nat /\ n + 1 \in 1 .. m /\ n \in 0 .. m
    BY <1>1, PathsAreWords
  <2>3. i < expanded
    BY <1>1, <2>1, <2>2
  <2> DEFINE b == w[n + 1]
             next == Advance(sim, c[n], b, n)
  <2>4. b \in Symbols
    BY <2>2
  <2>5. c[n + 1] = next /\ Sound(sim, c[n], n) /\ next # {}
    BY <1>3, <1>4, <2>2
  <2> HIDE DEF b
  <2>6. \E e \in Search!NodesAfter(nodes[i], b) :
          /\ Represents(e.node, next, o)
          /\ e.node.chosen = NoState <=> n + 1 <= o
    <3>1. CASE n + 1 <= o
      <4>1. nodes[i].chosen = NoState
        BY <1>2, <2>1, <2>2, <3>1
      <4>2. \E e \in Search!NodesAfter(nodes[i], b) :
              e.node.chosen = NoState /\ Represents(e.node, next, o)
        BY <1>1, <2>1, <2>2, <2>4, <2>5, <4>1, NodesAfterComplete
      <4>3. QED
        BY <3>1, <4>2
    <3>2. CASE n = o
      <4>1. nodes[i].chosen = NoState
        BY <1>2, <2>1, <2>2, <3>2
      <4>2. Lone(next, n)
        BY <1>2, <2>2, <2>5, <3>2
      <4>3. \E e \in Search!NodesAfter(nodes[i], b) :
              e.node.chosen # NoState /\ Represents(e.node, next, n)
        BY <1>1, <2>1, <2>2, <2>4, <2>5, <4>1, <4>2, NodesAfterComplete
      <4>4. QED
        BY <1>2, <3>2, <4>3
    <3>3. CASE n > o
      <4>1. nodes[i].chosen # NoState /\ o \in 0 .. n - 1
        BY <1>2, <2>1, <2>2, <3>3
      <4>2. Lone(next, o)
        BY <1>2, <2>2, <2>5, <3>3
      <4>3. \E e \in Search!NodesAfter(nodes[i], b) :
              e.node.chosen # NoState /\ Represents(e.node, next, o)
        BY <1>1, <2>1, <2>2, <2>4, <2>5, <4>1, <4>2, NodesAfterComplete
      <4>4. QED
        BY <1>2, <3>3, <4>3
    <3>4. QED
      BY <1>2, <2>2, <3>1, <3>2, <3>3
  <2> HIDE DEF next
  <2>7. PICK e \in Search!NodesAfter(nodes[i], b) :
          /\ Represents(e.node, next, o)
          /\ e.node.chosen = NoState <=> n + 1 <= o
    BY <2>6
  <2>8. PICK j \in 1 .. Len(nodes) : nodes[j] = e.node /\ Level(j) <= Level(i) + 1
    BY <2>3, <2>4, NodeExpanded
  <2>9. Level(j) <= n + 1
    BY <1>1, <2>1, <2>2, <2>8, PathsAreWords
  <2>10. QED
    BY <2>5, <2>7, <2>8, <2>9 DEF Reached, c
<1>7. Reached(w, o, m)
  <2> DEFINE S == { n \in 0 .. m : Reached(w, o, n) }
  <2>1. 0 \in S
    BY <1>1, <1>5
  <2>2. \A n \in 0 .. m - 1 : n \in S => n + 1 \in S
    BY <1>1, <1>6
  <2> HIDE DEF S
  <2>3. 0 .. m \subseteq S
    BY <1>1, <2>1, <2>2, UpTo
  <2>4. QED
    BY <1>1, <2>3 DEF S
<1>8. PICK i \in 1 .. Len(nodes) :
        Level(i) <= m /\ Represents(nodes[i], c[m], o) /\ nodes[i].chosen # NoState
  BY <1>1, <1>2, <1>7 DEF Reached, c
<1>9. Others(c[m], o) = {}
  BY <1>2 DEF Others
<1>10. nodes[i].others = {}
  BY <1>8, <1>9 DEF Represents, StatesOf
<1>11. QED
  BY <1>8, <1>10 DEF Search!Certifies

(* The answer the search has come to is right (split_window.hpp 89-105).   *)
LEMMA AnswerIsRight ==
  ASSUME SearchInv
  PROVE  FoundIsShortest
<1>1. /\ Asked /\ Queue /\ Cursor /\ NodesAreClouds /\ LevelsRise /\ Answers
      /\ IsSimulator(sim) /\ Len(nodes) \in Nat
  BY DEF SearchInv, Asked, Queue
<1>2. \A i \in 1 .. Len(nodes) :
        /\ Path[i] \in Seq(Symbols) /\ Level(i) \in Nat /\ Level(i) = Len(Path[i])
        /\ Search!WindowTo(i) = Path[i] /\ Search!OriginTo(i) = Origin[i]
  BY <1>1, PathsAreWords DEF Level, Path, Origin, PathTo, OriginsOf,
       Search!WindowTo, Search!OriginTo
<1>3. \A n \in Nat : \A w \in Search!Windows(n) : w \in Seq(Symbols) /\ Len(w) = n
  BY DEF Search!Windows
<1>4. ASSUME outcome = "found"
      PROVE  /\ SplitOrigin(sim, Path[last]) = Origin[last]
             /\ \A n \in 1 .. Level(last) - 1 : \A w \in Search!Windows(n) :
                  SplitOrigin(sim, w) = BeforeWindow
  <2>1. /\ last \in 1 .. Len(nodes) /\ expanded \in 1 .. Len(nodes)
        /\ Search!Certifies(nodes[last]) /\ Level(last) = Level(expanded) + 1
        /\ \A i \in 1 .. Len(nodes) : Search!Certifies(nodes[i]) => i = last
    BY <1>1, <1>4 DEF Answers, Cursor
  <2>2. SplitOrigin(sim, Path[last]) = Origin[last]
    <3> DEFINE hypotheses == Cloud(sim, Path[last])
    <3>1. /\ <<nodes[last].chosen, Origin[last]>> \in hypotheses
          /\ StatesOf(Others(hypotheses, Origin[last])) = {}
      BY <1>1, <2>1 DEF NodesAreClouds, Represents, Search!Certifies
    <3>2. \A h \in hypotheses : h[2] = Origin[last]
      BY <3>1 DEF StatesOf, Others
    <3> HIDE DEF hypotheses
    <3>3. Verdict(hypotheses) = Origin[last]
      BY <3>1, <3>2, SharedIsVerdict
    <3>4. QED
      BY <3>3, SplitOriginIsVerdict DEF hypotheses, Cloud
  <2>3. ASSUME NEW n \in 1 .. Level(last) - 1, NEW w \in Search!Windows(n),
               SplitOrigin(sim, w) # BeforeWindow
        PROVE  FALSE
    <3>1. n \in Nat /\ n <= Level(expanded)
      BY <1>2, <2>1
    <3>2. w \in Seq(Symbols) /\ Len(w) = n
      BY <1>3, <3>1
    <3>3. ASSUME NEW i \in 1 .. Len(nodes), Level(i) < Len(w) PROVE i < expanded
      <4>1. expanded <= i => Level(expanded) <= Level(i)
        BY <1>1, <2>1 DEF LevelsRise
      <4>2. QED
        BY <1>2, <2>1, <3>1, <3>2, <3>3, <4>1
    <3>4. PICK i \in 1 .. Len(nodes) : Search!Certifies(nodes[i]) /\ Level(i) <= Len(w)
      BY <2>3, <3>2, <3>3, CertifiedIsReached
    <3>5. Level(last) <= n
      BY <2>1, <3>2, <3>4
    <3>6. QED
      BY <1>2, <2>1, <3>1, <3>5
  <2>4. QED
    BY <2>2, <2>3
<1>5. ASSUME outcome = "none", NEW n \in 1 .. MaxWindow, NEW w \in Search!Windows(n),
             SplitOrigin(sim, w) # BeforeWindow
      PROVE  FALSE
  <2>1. n \in Nat
    OBVIOUS
  <2>2. w \in Seq(Symbols) /\ Len(w) = n
    BY <1>3, <2>1
  <2>3. CASE sim.live = {}
    <3>1. CloudAt(sim, w)[0] = {}
      BY <2>2, <2>3, CloudAtSteps DEF InitialCloud
    <3>2. CloudAt(sim, w)[Len(w)] = {}
      BY <2>1, <2>2, <3>1, EmptyCloudStays
    <3>3. QED
      BY <1>5, <3>2, SplitOriginIsVerdict, VerdictOfNone
  <2>4. CASE expanded > Len(nodes)
    <3>1. \A i \in 1 .. Len(nodes) : i < expanded
      BY <1>1, <2>4 DEF Cursor
    <3>2. PICK i \in 1 .. Len(nodes) : Search!Certifies(nodes[i])
      BY <1>5, <2>2, <3>1, CertifiedIsReached
    <3>3. QED
      BY <1>1, <1>5, <3>2 DEF Answers
  <2>5. QED
    BY <1>1, <1>5, <2>3, <2>4 DEF Answers
<1>6. outcome = "found" => last \in 1 .. Len(nodes)
  BY <1>1 DEF Answers, Cursor
<1>7. \A w : Search!SplitOrigin(sim, w) = SplitOrigin(sim, w)
  BY DEF Search!SplitOrigin, SplitOrigin, Search!Verdict, Verdict,
         Search!InitialCloud, InitialCloud, Search!Advance, Advance,
         Search!Stepped, Stepped, Search!Fresh, Fresh, Search!LiveStep, LiveStep,
         Search!Begins, Begins, Search!Accepting, Accepting
<1>8. QED
  BY <1>2, <1>4, <1>5, <1>6, <1>7 DEF FoundIsShortest, Search!FoundIsShortest

----------------------------------------------------------------------------
(* The two decisions together.                                             *)
UseInv == WalkInv /\ (outcome = "unasked" \/ SearchInv)

LEMMA UseInitial ==
  ASSUME UseInit PROVE UseInv
<1>1. CASE Init /\ NoSearch
  BY <1>1, InitWalk DEF UseInv, NoSearch
<1>2. CASE Search!Init /\ NoWindow
  BY <1>2, InitSearch DEF UseInv, NoWindow, WalkInv
<1>3. QED
  BY <1>1, <1>2 DEF UseInit

(* A caller looks for the window found where it occurs.                    *)
LEMMA UseWalks ==
  ASSUME UseInv, Use
  PROVE  WalkInv'
<1>1. /\ outcome = "found" /\ SearchInv
      /\ cloud' = InitialCloud(sim) /\ at' = 0 /\ walk' = "walking" /\ sim' = sim
  BY DEF Use, UseInv, searchVars
<1> DEFINE found == Search!WindowTo(last)
<1>2. found \in Seq(Symbols)
  <2>1. last \in 1 .. Len(nodes) /\ Queue
    BY <1>1 DEF SearchInv, Answers, Cursor, Queue
  <2>2. found = Path[last]
    BY DEF Search!WindowTo, Path, PathTo
  <2>3. QED
    BY <2>1, <2>2, PathsAreWords
<1> HIDE DEF found
<1>3. PICK text \in Texts : \E o \in Occurrences(text, found) :
        input' = text /\ occurrence' = o /\ length' = Len(found)
  BY DEF Use, found
<1>4. PICK o \in Occurrences(text, found) :
        input' = text /\ occurrence' = o /\ length' = Len(found)
  BY <1>3
<1>5. WalkGiven'
  <2>1. text \in Seq(Symbols) /\ o \in 0 .. Len(text) - Len(found)
    BY <1>3, FoundWindowAssumption DEF Occurrences
  <2>2. Len(found) \in Nat /\ Len(text) \in Nat
    BY <1>2, <2>1
  <2>3. QED
    BY <1>1, <1>4, <2>1, <2>2 DEF WalkGiven
<1>6. WalkIsCloud'
  <2>1. (window \in Seq(Symbols))'
    BY <1>5, WindowIsWord, PTL
  <2>2. QED
    BY <1>1, <2>1, CloudAtSteps DEF WalkIsCloud
<1>7. QED
  BY <1>1, <1>5, <1>6 DEF WalkInv, WalkEnds, SearchInv, Asked

LEMMA UseSteps ==
  ASSUME UseInv, [UseNext]_useVars
  PROVE  UseInv'
<1>1. CASE Next /\ UNCHANGED searchVars
  <2>1. UNCHANGED <<sim, searchVars>> /\ WalkInv'
    BY <1>1, NextWalk DEF UseInv, Next, RefuseEmpty, ReadByte, Decide, given
  <2>2. outcome' = outcome
    BY <2>1 DEF searchVars
  <2>3. QED
    BY <2>1, <2>2, SearchStays DEF UseInv
<1>2. CASE Search!Next /\ UNCHANGED walkVars
  <2>1. sim' = sim /\ outcome = "searching"
    BY <1>2 DEF Search!Next, Search!ReadByte, Search!NextNode, Search!Exhausted,
                Search!Drop, Search!GiveUp, Search!Reach, Search!given
  <2>2. QED
    BY <1>2, <2>1, NextSearch, WalkStays DEF UseInv
<1>3. CASE Use
  <2>1. UNCHANGED <<sim, searchVars>> /\ outcome' = outcome
    BY <1>3 DEF Use, searchVars
  <2>2. QED
    BY <1>3, <2>1, UseWalks, SearchStays DEF UseInv
<1>4. CASE UNCHANGED useVars
  <2>1. UNCHANGED <<sim, searchVars>> /\ UNCHANGED <<sim, walkVars>> /\ outcome' = outcome
    BY <1>4 DEF useVars, searchVars
  <2>2. QED
    BY <2>1, WalkStays, SearchStays DEF UseInv
<1>5. QED
  BY <1>1, <1>2, <1>3, <1>4 DEF UseNext

LEMMA UseSound == UseSpec => []UseInv
<1>1. UseInit => UseInv
  BY UseInitial
<1>2. UseInv /\ [UseNext]_useVars => UseInv'
  BY UseSteps
<1>3. QED
  BY <1>1, <1>2, PTL DEF UseSpec

(* Whatever the automaton, the input and the window, what the serial scan  *)
(* of a tokenizable input is doing is always among the hypotheses of       *)
(* is_split_window().                                                      *)
THEOREM CloudKeepsScan == UseSpec => []CloudCoversScan
<1>1. UseInv => CloudCoversScan
  <2> SUFFICES ASSUME UseInv, Tokenizable, at > 0
               PROVE  History(occurrence + at - 1) \in cloud
    BY DEF CloudCoversScan
  <2>1. /\ WalkGiven /\ WalkIsCloud /\ IsSimulator(sim) /\ at \in 1 .. length
        /\ Serial(sim, input).consumed = Len(input)
    BY DEF UseInv, WalkInv, Asked, WalkGiven, Tokenizable, serial
  <2>2. HistoryAt(sim, input, occurrence, occurrence + at - 1) \in CloudAt(sim, window)[at]
    BY <2>1, CloudAtKeepsTruth DEF WalkGiven, window
  <2>3. \A offset : History(offset) = HistoryAt(sim, input, occurrence, offset)
    BY DEF History, HistoryAt, Covering, CoveringAt, serial
  <2>4. QED
    BY <2>1, <2>2, <2>3 DEF WalkIsCloud
<1>2. QED
  BY <1>1, UseSound, PTL

(* The walk decides what the search means by certified.                    *)
LEMMA WalkDecides ==
  ASSUME WalkInv
  PROVE  /\ walk = "certified" =>
              Verdict(cloud) # BeforeWindow /\ SplitOrigin(sim, window) = Verdict(cloud)
         /\ walk = "refused" => SplitOrigin(sim, window) = BeforeWindow
<1>1. ASSUME walk # "unasked"
      PROVE  /\ WalkGiven /\ WalkIsCloud /\ WalkEnds /\ IsSimulator(sim)
             /\ window \in Seq(Symbols) /\ Len(window) = length
             /\ SplitOrigin(sim, window) = Verdict(CloudAt(sim, window)[length])
  BY <1>1, WindowIsWord, SplitOriginIsVerdict DEF WalkInv, Asked
<1>2. ASSUME walk = "refused"
      PROVE  SplitOrigin(sim, window) = BeforeWindow
  <2>1. CASE length = 0
    <3>1. ASSUME SplitOrigin(sim, window) # BeforeWindow PROVE FALSE
      <4>1. SplitOrigin(sim, window) \in 0 .. Len(window) - 1
        BY <1>1, <1>2, <3>1, CertifiedIsLone
      <4>2. 0 .. Len(window) - 1 = {}
        BY <1>1, <1>2, <2>1
      <4>3. QED
        BY <4>1, <4>2
    <3>2. QED
      BY <3>1
  <2>2. CASE at < length /\ Advance(sim, cloud, window[at + 1], at) = {}
    <3>1. at + 1 \in 1 .. length /\ (at + 1) - 1 = at
      BY <1>1, <1>2, <2>2 DEF WalkGiven
    <3>2. CloudAt(sim, window)[at + 1] = {}
      BY <1>1, <1>2, <2>2, <3>1, CloudAtSteps DEF WalkIsCloud
    <3>3. length \in at + 1 .. length /\ at + 1 \in 0 .. length
      BY <1>1, <1>2, <3>1 DEF WalkGiven
    <3>4. CloudAt(sim, window)[length] = {}
      BY <1>1, <1>2, <3>2, <3>3, EmptyCloudStays
    <3>5. QED
      BY <1>1, <1>2, <3>4, VerdictOfNone
  <2>3. CASE at = length /\ Verdict(cloud) = BeforeWindow
    BY <1>1, <1>2, <2>3 DEF WalkIsCloud
  <2>4. QED
    BY <1>1, <1>2, <2>1, <2>2, <2>3 DEF WalkEnds
<1>3. QED
  BY <1>1, <1>2 DEF WalkEnds, WalkIsCloud

(* A certified origin is where the serial scan's token around the window's *)
(* last byte begins, in every tokenizable input; and one byte is certified *)
(* exactly when it is a split point.                                       *)
THEOREM CertifiedOriginIsToken == UseSpec => []OriginBeginsToken
<1>1. UseInv => OriginBeginsToken
  <2> SUFFICES ASSUME UseInv PROVE OriginBeginsToken
    OBVIOUS
  <2>1. ASSUME walk # "unasked"
        PROVE  /\ WalkGiven /\ WalkIsCloud /\ WalkEnds /\ IsSimulator(sim)
               /\ window \in Seq(Symbols) /\ Len(window) = length
               /\ sim.split_points = SplitPoints(sim, {})
    BY <2>1, WindowIsWord DEF UseInv, WalkInv, Asked
  <2>2. WalkInv
    BY DEF UseInv
  <2>3. ASSUME walk = "certified", Tokenizable
        PROVE  occurrence + Verdict(cloud) = Covering(occurrence + length - 1)
    <3>1. /\ SplitOrigin(sim, window) # BeforeWindow
          /\ SplitOrigin(sim, window) = Verdict(cloud)
          /\ length > 0
      BY <2>1, <2>2, <2>3, WalkDecides DEF WalkEnds
    <3>2. /\ Serial(sim, input).consumed = Len(input)
          /\ input \in Seq(Symbols) /\ occurrence \in 0 .. Len(input)
          /\ length \in 1 .. Len(input) - occurrence
      BY <2>1, <2>3, <3>1 DEF WalkGiven, Tokenizable, serial
    <3>3. occurrence + SplitOrigin(sim, window)
            = CoveringAt(sim, input, occurrence + length - 1)
      BY <2>1, <2>3, <3>1, <3>2, CertifiedOrigin DEF window
    <3>4. Covering(occurrence + length - 1) = CoveringAt(sim, input, occurrence + length - 1)
      BY DEF Covering, CoveringAt, serial
    <3>5. QED
      BY <3>1, <3>3, <3>4
  <2>4. ASSUME length = 1, walk # "walking"
        PROVE  walk = "certified" <=> input[occurrence + 1] \in sim.split_points
    <3>1. walk \in {"certified", "refused"} /\ walk # "unasked"
      BY <2>2, <2>4 DEF WalkInv
    <3>2. window[1] = input[occurrence + 1] /\ window[1] \in Symbols /\ length \in 1 .. length
      BY <2>1, <2>4, <3>1, WindowIsWord
    <3>3. SplitOrigin(sim, window) = Verdict(Advance(sim, InitialCloud(sim), window[1], 0))
      <4>1. 1 \in 1 .. Len(window) /\ 1 - 1 = 0
        BY <2>1, <2>4, <3>1
      <4>2. CloudAt(sim, window)[1] = Advance(sim, InitialCloud(sim), window[1], 0)
        BY <2>1, <3>1, <4>1, CloudAtSteps
      <4>3. QED
        BY <2>1, <2>4, <3>1, <4>2, SplitOriginIsVerdict
    <3>4. SplitOrigin(sim, window) # BeforeWindow <=> window[1] \in SplitPoints(sim, {})
      BY <2>1, <3>1, <3>2, <3>3, SingleByte
    <3>5. walk = "certified" <=> SplitOrigin(sim, window) # BeforeWindow
      BY <2>2, <3>1, WalkDecides
    <3>6. QED
      BY <2>1, <3>1, <3>2, <3>4, <3>5
  <2>5. QED
    BY <2>3, <2>4 DEF OriginBeginsToken
<1>2. QED
  BY <1>1, UseSound, PTL

(* The window the search finds is certified, at the origin it names, and   *)
(* no shorter one is; "none" it says only when no window is certified.     *)
THEOREM FoundWindowIsShortest == UseSpec => []FoundIsShortest
<1>1. UseInv => FoundIsShortest
  BY AnswerIsRight DEF UseInv, FoundIsShortest, Search!FoundIsShortest
<1>2. QED
  BY <1>1, UseSound, PTL
=============================================================================
