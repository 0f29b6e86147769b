---------------------------- MODULE DfaTheorems ----------------------------
(***************************************************************************)
(* Facts about every automaton and every input that the proofs of the      *)
(* components rest on: the tables the simulator derives, the states of a   *)
(* scan, its longest matches, and the serial scan as a whole; then the     *)
(* cloud of every window: the walk as a recursion, the truth it never      *)
(* loses, the origin it certifies, and its coincidence with the split      *)
(* points at length one; then what a caller that discards tokens cannot    *)
(* tell apart, and the bytes it may cut a token at; at last the markings   *)
(* of an input, of which the searches keep track, and what is read behind  *)
(* a text.                                                                 *)
(*                                                                         *)
(* Recursive functions are choices: that one satisfies its own equation is *)
(* shown by induction, in the form of a set that holds 0 and, with each    *)
(* number, the next.                                                       *)
(***************************************************************************)
EXTENDS WindowCloud, FiniteSetTheorems, WellFoundedInduction, TLAPS

LEMMA LeastNatural ==
  ASSUME NEW S \in SUBSET Nat, S # {}
  PROVE  \E n \in S : \A m \in S : n <= m
<1>1. PICK n \in S : \A m \in S : <<m, n>> \notin OpToRel(<, Nat)
  BY NatLessThanWellFounded, WFMin
<1>2. \A m \in S : ~ (m < n)
  BY <1>1 DEF OpToRel
<1>3. QED
  BY <1>2

LEMMA GreatestUpTo ==
  ASSUME NEW N \in Nat, NEW S \in SUBSET (0 .. N), S # {}
  PROVE  \E n \in S : \A m \in S : m <= n
<1> DEFINE T == { N - n : n \in S }
<1>0. \A n \in S : N - n \in Nat
  OBVIOUS
<1>1. T \in SUBSET Nat /\ T # {}
  BY <1>0
<1>2. PICK t \in T : \A u \in T : t <= u
  <2> HIDE DEF T
  <2> QED
    BY <1>1, LeastNatural
<1>3. PICK n \in S : t = N - n
  BY <1>2
<1>4. ASSUME NEW m \in S PROVE m <= n
  <2>1. N - m \in T
    OBVIOUS
  <2>2. N - n <= N - m
    BY <1>2, <1>3, <2>1
  <2>3. QED
    BY <2>2
<1>5. QED
  BY <1>3, <1>4

(* Induction up to a bound.                                                *)
LEMMA UpTo ==
  ASSUME NEW N \in Nat, NEW S, 0 \in S, \A n \in 0 .. N - 1 : n \in S => n + 1 \in S
  PROVE  0 .. N \subseteq S
<1> DEFINE T == { n \in 0 .. N : n \notin S }
<1>1. SUFFICES ASSUME T # {} PROVE FALSE
  OBVIOUS
<1>2. T \in SUBSET Nat
  OBVIOUS
<1>3. PICK n \in T : \A m \in T : n <= m
  <2> HIDE DEF T
  <2> QED
    BY <1>1, <1>2, LeastNatural
<1>4. n # 0 /\ n \in 0 .. N
  BY <1>3
<1>5. n - 1 \in 0 .. N - 1 /\ n - 1 \notin T
  BY <1>3, <1>4
<1>6. n - 1 \in S
  BY <1>5
<1>7. (n - 1) + 1 \in S
  BY <1>5, <1>6
<1>8. QED
  BY <1>3, <1>4, <1>7

(* Subsets of a finite set that only grow, and stop growing once they did  *)
(* not grow for one step, have stopped after as many steps as it has       *)
(* members.                                                                *)
LEMMA Settles ==
  ASSUME NEW X, IsFiniteSet(X), NEW N \in Nat, Cardinality(X) = N, NEW f,
         \A n \in 0 .. N + 1 : f[n] \subseteq X,
         \A n \in 0 .. N : f[n] \subseteq f[n + 1],
         \A n \in 0 .. N - 1 : f[n + 1] = f[n] => f[n + 2] = f[n + 1]
  PROVE  f[N + 1] = f[N]
<1> DEFINE S == { n \in 0 .. N : f[n + 1] = f[n] \/ Cardinality(f[n + 1]) >= n + 1 }
<1>1. \A n \in 0 .. N + 1 : IsFiniteSet(f[n]) /\ Cardinality(f[n]) \in Nat
                            /\ Cardinality(f[n]) <= N
  BY FS_Subset, FS_CardinalityType
<1>2. ASSUME NEW n \in 0 .. N, f[n + 1] # f[n]
      PROVE  Cardinality(f[n + 1]) >= Cardinality(f[n]) + 1
  <2>1. n \in 0 .. N + 1 /\ n + 1 \in 0 .. N + 1 /\ f[n] \subseteq f[n + 1]
    OBVIOUS
  <2>2. /\ IsFiniteSet(f[n + 1]) /\ Cardinality(f[n + 1]) \in Nat
        /\ Cardinality(f[n]) \in Nat
    BY <1>1, <2>1
  <2>3. Cardinality(f[n]) <= Cardinality(f[n + 1]) /\ Cardinality(f[n]) # Cardinality(f[n + 1])
    BY <1>2, <2>1, <2>2, FS_Subset
  <2>4. QED
    BY <2>2, <2>3
<1>3. 0 \in S
  <2>1. 0 \in 0 .. N + 1 /\ 0 \in 0 .. N
    OBVIOUS
  <2>2. f[0 + 1] # f[0] => Cardinality(f[0 + 1]) >= 0 + 1
    <3>1. Cardinality(f[0]) \in Nat /\ Cardinality(f[0 + 1]) \in Nat
      BY <1>1
    <3>2. QED
      BY <1>2, <2>1, <3>1
  <2>3. QED
    BY <2>1, <2>2
<1>4. ASSUME NEW n \in 0 .. N - 1, n \in S PROVE n + 1 \in S
  <2>1. n + 1 \in 0 .. N /\ (n + 1) + 1 = n + 2 /\ n + 1 \in 0 .. N + 1 /\ n + 2 \in 0 .. N + 1
    OBVIOUS
  <2>2. CASE f[n + 1] = f[n]
    BY <2>1, <2>2
  <2>3. CASE Cardinality(f[n + 1]) >= n + 1
    <3>1. CASE f[n + 2] = f[n + 1]
      BY <2>1, <3>1
    <3>2. CASE f[n + 2] # f[n + 1]
      <4>1. Cardinality(f[n + 2]) >= Cardinality(f[n + 1]) + 1
        BY <1>2, <2>1, <3>2
      <4>2. Cardinality(f[n + 2]) \in Nat /\ Cardinality(f[n + 1]) \in Nat
        BY <1>1, <2>1
      <4>3. Cardinality(f[n + 2]) >= n + 2
        BY <2>3, <4>1, <4>2
      <4>4. QED
        BY <2>1, <4>3
    <3>3. QED
      BY <3>1, <3>2
  <2>4. QED
    BY <1>4, <2>2, <2>3
<1>5. N \in S
  <2> HIDE DEF S
  <2>1. 0 .. N \subseteq S
    BY <1>3, <1>4, UpTo
  <2>2. QED
    BY <2>1
<1>6. Cardinality(f[N + 1]) \in Nat /\ Cardinality(f[N + 1]) <= N
  BY <1>1
<1>7. QED
  BY <1>5, <1>6

----------------------------------------------------------------------------
(* What the analyses of the simulator's constructor establish, for every    *)
(* automaton.                                                              *)
LEMMA UnrollStartIsDfa ==
  ASSUME NEW D, IsDfa(D)
  PROVE  IsDfa(UnrollStart(D))
<1>1. CASE ~ Accepting(D, D.init)
  BY <1>1 DEF UnrollStart
<1>2. CASE Accepting(D, D.init)
  <2> DEFINE next == [ s \in 0 .. D.count |->
                         D.next[IF s = D.count THEN D.init ELSE s] ]
             accept == [ s \in 0 .. D.count |->
                           IF s = D.count THEN NoToken ELSE D.accept[s] ]
             C == [ count |-> D.count + 1, init |-> D.count,
                    next |-> next, accept |-> accept ]
  <2>1. UnrollStart(D) = C
    BY <1>2 DEF UnrollStart
  <2>2. D.count \in Nat \ {0} /\ D.init \in 0 .. D.count - 1
    BY DEF IsDfa, States
  <2>3. States(C) = 0 .. D.count
    BY <2>2 DEF States
  <2>4. next \in [0 .. D.count -> [Symbols -> (0 .. D.count) \cup {NoState}]]
    <3>1. ASSUME NEW s \in 0 .. D.count
          PROVE  next[s] \in [Symbols -> (0 .. D.count) \cup {NoState}]
      <4>1. PICK t \in 0 .. D.count - 1 : next[s] = D.next[t]
        BY <2>2
      <4>2. D.next[t] \in [Symbols -> (0 .. D.count - 1) \cup {NoState}]
        BY <2>2 DEF IsDfa, States
      <4>3. QED
        BY <4>1, <4>2, <2>2
    <3>2. QED
      BY <3>1
  <2>5. accept \in [0 .. D.count -> TokenIds \cup {NoToken}]
    BY <2>2 DEF IsDfa, States
  <2> HIDE DEF next, accept
  <2>6. C.count \in Nat \ {0} /\ C.init \in States(C)
    BY <2>2, <2>3
  <2>7. C.next = next /\ C.accept = accept
    OBVIOUS
  <2> HIDE DEF C
  <2>8. QED
    BY <2>1, <2>3, <2>4, <2>5, <2>6, <2>7 DEF IsDfa
<1>3. QED
  BY <1>1, <1>2

(* The initial state the simulator scans from accepts nothing.             *)
LEMMA UnrolledInitRejects ==
  ASSUME NEW D, IsDfa(D)
  PROVE  ~ Accepting(UnrollStart(D), UnrollStart(D).init)
  BY DEF UnrollStart, Accepting, IsDfa

(* A state with a step into the backward closure is in it.                 *)
LEMMA ClosedBackwardClosed ==
  ASSUME NEW D, IsDfa(D), NEW seeds \in SUBSET States(D),
         NEW s \in States(D), NEW a \in Symbols,
         D.next[s][a] \in ClosedBackward(D, seeds)
  PROVE  s \in ClosedBackward(D, seeds)
<1> SUFFICES ASSUME NEW C \in SUBSET States(D),
                    seeds \subseteq C,
                    \A r \in States(D), b \in Symbols :
                      D.next[r][b] \in C => r \in C
             PROVE  s \in C
  BY DEF ClosedBackward
<1>1. D.next[s][a] \in C
  BY DEF ClosedBackward
<1>2. QED
  BY <1>1

LEMMA ClosedBackwardSeeds ==
  ASSUME NEW D, NEW seeds \in SUBSET States(D)
  PROVE  /\ seeds \subseteq ClosedBackward(D, seeds)
         /\ ClosedBackward(D, seeds) \subseteq States(D)
  BY DEF ClosedBackward

LEMMA CoAccessibleClosed ==
  ASSUME NEW D, IsDfa(D)
  PROVE  /\ \A s \in States(D) : Accepting(D, s) => s \in CoAccessible(D)
         /\ \A s \in States(D), a \in Symbols :
              D.next[s][a] \in CoAccessible(D) => s \in CoAccessible(D)
  BY ClosedBackwardClosed, ClosedBackwardSeeds DEF CoAccessible

LEMMA ReachableClosed ==
  ASSUME NEW D, IsDfa(D)
  PROVE  /\ D.init \in Reachable(D)
         /\ Reachable(D) \subseteq States(D)
         /\ \A s \in Reachable(D), a \in Symbols :
              D.next[s][a] # NoState => D.next[s][a] \in Reachable(D)
<1>1. D.init \in Reachable(D) /\ Reachable(D) \subseteq States(D)
  BY DEF Reachable, IsDfa
<1>2. ASSUME NEW s \in Reachable(D), NEW a \in Symbols, D.next[s][a] # NoState
      PROVE  D.next[s][a] \in Reachable(D)
  <2>1. s \in States(D) /\ D.next[s][a] \in States(D)
    BY <1>1, <1>2 DEF IsDfa
  <2>2. SUFFICES ASSUME NEW C \in SUBSET States(D), D.init \in C,
                        \A r \in C, b \in Symbols :
                          D.next[r][b] # NoState => D.next[r][b] \in C
                 PROVE  D.next[s][a] \in C
    BY <2>1 DEF Reachable
  <2>3. s \in C
    BY <2>2 DEF Reachable
  <2>4. QED
    BY <1>2, <2>1, <2>2, <2>3
<1>3. QED
  BY <1>1, <1>2

(* The exact certificate: out of every reachable state but an initial one  *)
(* that is never re-entered, a certified byte leads where no token ends.   *)
LEMMA SplitPointKills ==
  ASSUME NEW D, IsDfa(D), NEW a \in SplitPoints(D, {}),
         NEW s \in Reachable(D), s = D.init => InitReentrant(D)
  PROVE  D.next[s][a] \notin CoAccessible(D)
<1>1. \A t \in States(D) : t \notin { u \in States(D) : D.accept[u] \in {} }
  OBVIOUS
<1>2. QED
  BY <1>1 DEF SplitPoints, Exempt

(* With no token discarded, the certificate as it is defined: of the states *)
(* where the byte can still lead to an accept, only the exempt one.         *)
LEMMA SplitPointsExact ==
  ASSUME NEW D
  PROVE  SplitPoints(D, {}) =
           { a \in Symbols :
               /\ D.init \in Reachable(D) /\ D.next[D.init][a] \in CoAccessible(D)
               /\ \A s \in Reachable(D) \ Exempt(D) :
                    D.next[s][a] \notin CoAccessible(D) }
<1>1. { t \in States(D) : D.accept[t] \in {} } = {}
  OBVIOUS
<1>2. QED
  BY <1>1 DEF SplitPoints

(* The simulator has the tables of the unrolled automaton, and what is     *)
(* derived from a table does not depend on what else the record holds.     *)
SameTables(D, C) ==
  D.count = C.count /\ D.init = C.init /\ D.next = C.next /\ D.accept = C.accept

LEMMA SimulatorKeepsTables ==
  ASSUME NEW D, NEW ignored
  PROVE  SameTables(Simulator(D, ignored), UnrollStart(D))
  BY DEF Simulator, SameTables

LEMMA SameTablesSameSets ==
  ASSUME NEW D, NEW C, SameTables(D, C)
  PROVE  /\ States(D) = States(C)
         /\ \A s : Accepting(D, s) <=> Accepting(C, s)
         /\ IsDfa(D) <=> IsDfa(C)
         /\ Reachable(D) = Reachable(C)
         /\ \A seeds : ClosedBackward(D, seeds) = ClosedBackward(C, seeds)
         /\ CoAccessible(D) = CoAccessible(C)
         /\ InitReentrant(D) = InitReentrant(C)
         /\ Exempt(D) = Exempt(C)
<1> USE DEF SameTables
<1>1. States(D) = States(C) /\ \A s : Accepting(D, s) <=> Accepting(C, s)
  BY DEF States, Accepting
<1>2. IsDfa(D) <=> IsDfa(C)
  BY <1>1 DEF IsDfa
<1>3. Reachable(D) = Reachable(C)
  BY <1>1 DEF Reachable
<1>4. \A seeds : ClosedBackward(D, seeds) = ClosedBackward(C, seeds)
  BY <1>1 DEF ClosedBackward
<1>5. CoAccessible(D) = CoAccessible(C)
  <2>1. { s \in States(D) : Accepting(D, s) } = { s \in States(C) : Accepting(C, s) }
    BY <1>1
  <2>2. QED
    BY <1>4, <2>1 DEF CoAccessible
<1>6. InitReentrant(D) = InitReentrant(C)
  BY <1>3 DEF InitReentrant
<1>7. QED
  BY <1>1, <1>2, <1>3, <1>4, <1>5, <1>6 DEF Exempt

(* The simulator's tables are those of the unrolled automaton, so what the *)
(* constructor derived from it is true of the tables themselves.           *)
LEMMA SimulatorTables ==
  ASSUME NEW D, IsDfa(D), NEW ignored
  PROVE  /\ IsDfa(Simulator(D, ignored))
         /\ ~ Accepting(Simulator(D, ignored), Simulator(D, ignored).init)
         /\ Simulator(D, ignored).live = Live(Simulator(D, ignored))
         /\ Simulator(D, ignored).init_reentrant = InitReentrant(Simulator(D, ignored))
         /\ Simulator(D, ignored).split_points = SplitPoints(Simulator(D, ignored), {})
<1> DEFINE C == UnrollStart(D)
           sim == Simulator(D, ignored)
<1>1. IsDfa(C) /\ ~ Accepting(C, C.init)
  BY UnrollStartIsDfa, UnrolledInitRejects
<1>2. /\ sim.live = Live(C) /\ sim.init_reentrant = InitReentrant(C)
      /\ sim.split_points = SplitPoints(C, {})
  BY DEF Simulator
<1>3. SameTables(sim, C)
  BY SimulatorKeepsTables
<1> HIDE DEF C, sim
<1>4. /\ sim.init = C.init /\ sim.next = C.next
      /\ \A s : Accepting(sim, s) <=> Accepting(C, s)
      /\ IsDfa(sim) <=> IsDfa(C)
      /\ Reachable(sim) = Reachable(C) /\ CoAccessible(sim) = CoAccessible(C)
      /\ InitReentrant(sim) = InitReentrant(C) /\ Exempt(sim) = Exempt(C)
  BY <1>3, SameTablesSameSets DEF SameTables
<1>5. IsDfa(sim) /\ ~ Accepting(sim, sim.init)
  BY <1>1, <1>4
<1>6. SplitPoints(sim, {}) = SplitPoints(C, {})
  <2> DEFINE Exactly(E) ==
        { a \in Symbols :
            /\ E.init \in Reachable(E) /\ E.next[E.init][a] \in CoAccessible(E)
            /\ \A s \in Reachable(E) \ Exempt(E) : E.next[s][a] \notin CoAccessible(E) }
  <2>1. SplitPoints(sim, {}) = Exactly(sim) /\ SplitPoints(C, {}) = Exactly(C)
    BY SplitPointsExact, Zenon
  <2>2. Exactly(sim) = Exactly(C)
    BY <1>4
  <2>3. QED
    BY <2>1, <2>2
<1>7. Live(sim) = Live(C)
  BY <1>4 DEF Live
<1>8. QED
  BY <1>2, <1>4, <1>5, <1>6, <1>7 DEF sim

----------------------------------------------------------------------------
(* The states of a scan.                                                   *)
NextState(D, s, a) == IF s = NoState THEN NoState ELSE D.next[s][a]

LEMMA StateAfterSteps ==
  ASSUME NEW D, NEW w \in Seq(Symbols), NEW from \in 0 .. Len(w)
  PROVE  /\ StateAfter(D, w, from)[0] = D.init
         /\ \A n \in 1 .. Len(w) - from :
              StateAfter(D, w, from)[n] =
                NextState(D, StateAfter(D, w, from)[n - 1], w[from + n])
<1> DEFINE N == Len(w) - from
           Step(s, n) == NextState(D, s, w[from + n])
           Is(f, k) == f = [ n \in 0 .. k |-> IF n = 0 THEN D.init ELSE Step(f[n - 1], n) ]
           S == { k \in 0 .. N : \E f : Is(f, k) }
<1>0. N \in Nat
  OBVIOUS
<1>1. 0 \in S
  <2>1. Is([n \in 0 .. 0 |-> D.init], 0)
    OBVIOUS
  <2> HIDE DEF Is
  <2>2. QED
    BY <1>0, <2>1
<1>2. ASSUME NEW k \in 0 .. N - 1, k \in S PROVE k + 1 \in S
  <2>0. k + 1 \in 0 .. N /\ k \in Nat
    BY <1>0
  <2>1. PICK f : Is(f, k)
    BY <1>2
  <2> DEFINE nxt == Step(f[k], k + 1)
             g == [ n \in 0 .. k + 1 |-> IF n = k + 1 THEN nxt ELSE f[n] ]
  <2>2. Is(g, k + 1)
    <3>1. \A n \in 0 .. k : g[n] = f[n]
      BY <2>0
    <3>2. ASSUME NEW n \in 0 .. k + 1
          PROVE  g[n] = IF n = 0 THEN D.init ELSE Step(g[n - 1], n)
      <4>1. CASE n = k + 1
        <5>1. g[n] = nxt /\ n # 0 /\ g[n - 1] = f[k]
          BY <4>1, <2>0, <3>1
        <5> HIDE DEF g, Step
        <5> QED
          BY <5>1, <4>1
      <4>2. CASE n \in 0 .. k
        <5>1. g[n] = f[n] /\ (n # 0 => n - 1 \in 0 .. k /\ g[n - 1] = f[n - 1])
          BY <4>2, <3>1, <2>0
        <5>2. f[n] = IF n = 0 THEN D.init ELSE Step(f[n - 1], n)
          <6> HIDE DEF Step
          <6> QED
            BY <2>1, <4>2
        <5> HIDE DEF g, Step
        <5> QED
          BY <5>1, <5>2
      <4>3. QED
        BY <4>1, <4>2, <2>0
    <3> HIDE DEF Step
    <3>3. g = [ n \in 0 .. k + 1 |-> g[n] ]
      OBVIOUS
    <3> HIDE DEF g
    <3>4. QED
      BY <3>2, <3>3
  <2> HIDE DEF g, Is
  <2>3. \E h : Is(h, k + 1)
    BY <2>2
  <2>4. QED
    BY <2>3, <2>0
<1> HIDE DEF S
<1>3. N \in S
  <2> HIDE DEF N
  <2>1. 0 .. N \subseteq S
    BY <1>0, <1>1, <1>2, UpTo
  <2>2. QED
    BY <1>0, <2>1
<1>4. \E f : Is(f, N)
  BY <1>3 DEF S
<1>5. StateAfter(D, w, from) = CHOOSE f : Is(f, N)
  BY DEF StateAfter, NextState
<1>6. Is(StateAfter(D, w, from), N)
  <2> HIDE DEF Is
  <2> QED
    BY <1>4, <1>5
<1>7. ASSUME NEW f, Is(f, N)
      PROVE  f[0] = D.init /\ \A n \in 1 .. N : f[n] = Step(f[n - 1], n)
  <2> HIDE DEF Step, N
  <2> QED
    BY <1>0, <1>7
<1>8. QED
  <2> HIDE DEF Is
  <2> QED
    BY <1>6, <1>7

(* A scan is in a reachable state or in none, and in none from then on.    *)
LEMMA StateAfterReachable ==
  ASSUME NEW D, IsDfa(D), NEW w \in Seq(Symbols), NEW from \in 0 .. Len(w)
  PROVE  \A n \in 0 .. Len(w) - from :
           StateAfter(D, w, from)[n] \in Reachable(D) \cup {NoState}
<1> DEFINE after == StateAfter(D, w, from)
           N == Len(w) - from
           S == { n \in 0 .. N : after[n] \in Reachable(D) \cup {NoState} }
<1>1. N \in Nat
  OBVIOUS
<1>2. /\ after[0] = D.init
      /\ \A n \in 1 .. N : after[n] = NextState(D, after[n - 1], w[from + n])
  BY StateAfterSteps
<1>3. \A n \in 1 .. N : w[from + n] \in Symbols
  OBVIOUS
<1> HIDE DEF N, after
<1>4. 0 \in S
  BY <1>1, <1>2, ReachableClosed
<1>5. ASSUME NEW n \in 0 .. N - 1, n \in S PROVE n + 1 \in S
  <2>1. n + 1 \in 1 .. N /\ n + 1 \in 0 .. N /\ (n + 1) - 1 = n
    BY <1>1
  <2>2. after[n + 1] = NextState(D, after[n], w[from + (n + 1)])
        /\ w[from + (n + 1)] \in Symbols
    BY <1>2, <1>3, <2>1
  <2>3. after[n] \in Reachable(D) \cup {NoState}
    BY <1>5
  <2>4. after[n + 1] \in Reachable(D) \cup {NoState}
    BY <2>2, <2>3, ReachableClosed DEF NextState
  <2>5. QED
    BY <2>1, <2>4
<1> HIDE DEF S
<1>6. 0 .. N \subseteq S
  BY <1>1, <1>4, <1>5, UpTo
<1>7. QED
  BY <1>6 DEF S, N, after

(* A chunk's scan is the input's, up to the chunk's end.                   *)
LEMMA StateAfterInPrefix ==
  ASSUME NEW D, NEW w \in Seq(Symbols), NEW end \in 0 .. Len(w),
         NEW from \in 0 .. end
  PROVE  \A n \in 0 .. end - from :
           StateAfter(D, SubSeq(w, 1, end), from)[n] = StateAfter(D, w, from)[n]
<1> DEFINE prefix == SubSeq(w, 1, end)
           inner == StateAfter(D, prefix, from)
           outer == StateAfter(D, w, from)
           N == end - from
           S == { n \in 0 .. N : inner[n] = outer[n] }
<1>1. N \in Nat
  OBVIOUS
<1>2. prefix \in Seq(Symbols) /\ Len(prefix) = end /\ from \in 0 .. Len(prefix)
  OBVIOUS
<1>3. \A n \in 1 .. N : prefix[from + n] = w[from + n]
  OBVIOUS
<1>4. /\ inner[0] = D.init
      /\ \A n \in 1 .. N : inner[n] = NextState(D, inner[n - 1], prefix[from + n])
  <2> HIDE DEF prefix
  <2> QED
    BY <1>2, StateAfterSteps
<1>5. /\ outer[0] = D.init
      /\ \A n \in 1 .. N : outer[n] = NextState(D, outer[n - 1], w[from + n])
  <2>1. from \in 0 .. Len(w) /\ 1 .. N \subseteq 1 .. Len(w) - from
    OBVIOUS
  <2>2. QED
    BY <2>1, StateAfterSteps
<1> HIDE DEF prefix, inner, outer, N
<1>6. 0 \in S
  BY <1>1, <1>4, <1>5
<1>7. ASSUME NEW n \in 0 .. N - 1, n \in S PROVE n + 1 \in S
  <2>1. n + 1 \in 1 .. N /\ n + 1 \in 0 .. N /\ (n + 1) - 1 = n
    BY <1>1
  <2>2. QED
    BY <1>3, <1>4, <1>5, <1>7, <2>1
<1> HIDE DEF S
<1>8. 0 .. N \subseteq S
  BY <1>1, <1>6, <1>7, UpTo
<1>9. QED
  BY <1>8 DEF S, N, inner, outer, prefix

(* Out of the states from which no accept can be reached there is no way   *)
(* back.                                                                   *)
LEMMA DoomedStays ==
  ASSUME NEW D, IsDfa(D), NEW w \in Seq(Symbols), NEW from \in 0 .. Len(w),
         NEW m \in 0 .. Len(w) - from,
         StateAfter(D, w, from)[m] \notin CoAccessible(D)
  PROVE  \A n \in m .. Len(w) - from :
           StateAfter(D, w, from)[n] \notin CoAccessible(D)
<1> DEFINE after == StateAfter(D, w, from)
           N == Len(w) - from - m
           S == { n \in 0 .. N : after[m + n] \notin CoAccessible(D) }
<1>1. N \in Nat
  OBVIOUS
<1>2. \A n \in 1 .. m + N : /\ after[n] = NextState(D, after[n - 1], w[from + n])
                            /\ after[n - 1] \in Reachable(D) \cup {NoState}
                            /\ w[from + n] \in Symbols
  <2>1. ASSUME NEW n \in 1 .. m + N
        PROVE  n \in 1 .. Len(w) - from /\ n - 1 \in 0 .. Len(w) - from
    OBVIOUS
  <2>2. \A n \in 1 .. Len(w) - from : w[from + n] \in Symbols
    OBVIOUS
  <2>3. \A n \in 1 .. Len(w) - from : after[n] = NextState(D, after[n - 1], w[from + n])
    BY StateAfterSteps
  <2>4. \A n \in 0 .. Len(w) - from : after[n] \in Reachable(D) \cup {NoState}
    BY StateAfterReachable
  <2> HIDE DEF after
  <2>5. QED
    BY <2>1, <2>2, <2>3, <2>4
<1>3. CoAccessible(D) \subseteq States(D) /\ NoState \notin States(D)
  BY DfaAssumption DEF CoAccessible, ClosedBackward, States, IsDfa
<1>4. m + 0 = m /\ after[m] \notin CoAccessible(D)
  OBVIOUS
<1>5. m \in Nat
  OBVIOUS
<1> HIDE DEF N, after
<1>6. 0 \in S
  BY <1>1, <1>4
<1>7. ASSUME NEW n \in 0 .. N - 1, n \in S PROVE n + 1 \in S
  <2>1. n + 1 \in 0 .. N /\ m + (n + 1) \in 1 .. m + N /\ (m + (n + 1)) - 1 = m + n
    BY <1>1, <1>5
  <2>2. /\ after[m + (n + 1)] = NextState(D, after[m + n], w[from + (m + (n + 1))])
        /\ after[m + n] \in Reachable(D) \cup {NoState}
        /\ w[from + (m + (n + 1))] \in Symbols
    BY <1>2, <2>1
  <2>3. after[m + n] \notin CoAccessible(D)
    BY <1>7
  <2>4. after[m + (n + 1)] \notin CoAccessible(D)
    BY <1>3, <2>2, <2>3, CoAccessibleClosed, ReachableClosed DEF NextState
  <2>5. QED
    BY <2>1, <2>4
<1> HIDE DEF S
<1>8. 0 .. N \subseteq S
  BY <1>1, <1>6, <1>7, UpTo
<1>9. ASSUME NEW n \in m .. Len(w) - from
      PROVE  n - m \in 0 .. N /\ m + (n - m) = n
  BY DEF N
<1>10. QED
  BY <1>8, <1>9 DEF S, after

----------------------------------------------------------------------------
(* The matches of a scan.                                                  *)
LEMMA LongestMatchIsLongest ==
  ASSUME NEW D, NEW w \in Seq(Symbols), NEW from \in 0 .. Len(w),
         MatchLengths(D, w, from) # {}
  PROVE  /\ LongestMatch(D, w, from) \in MatchLengths(D, w, from)
         /\ LongestMatch(D, w, from) \in 1 .. Len(w) - from
         /\ from + LongestMatch(D, w, from) \in from + 1 .. Len(w)
         /\ \A m \in MatchLengths(D, w, from) : m <= LongestMatch(D, w, from)
<1> DEFINE lengths == MatchLengths(D, w, from)
<1>1. lengths \subseteq 1 .. Len(w) - from
  BY DEF MatchLengths
<1>2. Len(w) - from \in Nat /\ lengths \in SUBSET (0 .. Len(w) - from)
  BY <1>1
<1> HIDE DEF lengths
<1>3. \E n \in lengths : \A m \in lengths : m <= n
  BY <1>2, GreatestUpTo DEF lengths
<1>4. LongestMatch(D, w, from) = CHOOSE n \in lengths : \A m \in lengths : m <= n
  BY DEF LongestMatch, lengths
<1>5. /\ LongestMatch(D, w, from) \in lengths
      /\ \A m \in lengths : m <= LongestMatch(D, w, from)
  BY <1>3, <1>4
<1>6. QED
  BY <1>1, <1>5 DEF lengths

LEMMA MatchLengthsInPrefix ==
  ASSUME NEW D, NEW w \in Seq(Symbols), NEW end \in 0 .. Len(w),
         NEW from \in 0 .. end
  PROVE  MatchLengths(D, SubSeq(w, 1, end), from) =
           { n \in MatchLengths(D, w, from) : from + n <= end }
<1> DEFINE inner == StateAfter(D, SubSeq(w, 1, end), from)
           outer == StateAfter(D, w, from)
<1>1. Len(SubSeq(w, 1, end)) = end
  OBVIOUS
<1>2. \A n \in 0 .. end - from : inner[n] = outer[n]
  BY StateAfterInPrefix
<1>3. MatchLengths(D, SubSeq(w, 1, end), from) =
        { n \in 1 .. end - from : inner[n] # NoState /\ D.accept[inner[n]] # NoToken }
  BY <1>1 DEF MatchLengths
<1>4. MatchLengths(D, w, from) =
        { n \in 1 .. Len(w) - from : outer[n] # NoState /\ D.accept[outer[n]] # NoToken }
  BY DEF MatchLengths
<1> HIDE DEF inner, outer
<1>5. QED
  BY <1>2, <1>3, <1>4

(* No match of a scan ends in or behind a state no accept can be reached   *)
(* from.                                                                   *)
LEMMA NoMatchWhenDoomed ==
  ASSUME NEW D, IsDfa(D), NEW w \in Seq(Symbols), NEW from \in 0 .. Len(w),
         NEW m \in 0 .. Len(w) - from,
         StateAfter(D, w, from)[m] \notin CoAccessible(D)
  PROVE  \A n \in MatchLengths(D, w, from) : n < m
<1> DEFINE after == StateAfter(D, w, from)
<1>1. \A n \in m .. Len(w) - from : after[n] \notin CoAccessible(D)
  BY DoomedStays
<1>2. \A n \in 0 .. Len(w) - from : after[n] \in States(D) \cup {NoState}
  BY StateAfterReachable, ReachableClosed
<1>3. SUFFICES ASSUME NEW n \in MatchLengths(D, w, from), n >= m PROVE FALSE
  BY DEF MatchLengths
<1>4. /\ n \in m .. Len(w) - from /\ n \in 0 .. Len(w) - from
      /\ after[n] # NoState /\ Accepting(D, after[n])
  BY <1>3 DEF MatchLengths, Accepting
<1>5. after[n] \in CoAccessible(D)
  BY <1>2, <1>4, CoAccessibleClosed
<1>6. QED
  BY <1>1, <1>4, <1>5

(* No match of a scan reads over a certified byte: what is behind every    *)
(* certificate.                                                            *)
LEMMA NoMatchOverCertified ==
  ASSUME NEW D, IsDfa(D), NEW w \in Seq(Symbols), NEW from \in 0 .. Len(w),
         NEW k \in 1 .. Len(w) - from - 1,
         w[from + k + 1] \in SplitPoints(D, {})
  PROVE  \A n \in MatchLengths(D, w, from) : n <= k
<1> DEFINE after == StateAfter(D, w, from)
<1>1. /\ k - 1 \in 0 .. Len(w) - from /\ k \in 1 .. Len(w) - from
      /\ k \in 0 .. Len(w) - from
      /\ k + 1 \in 1 .. Len(w) - from /\ k + 1 \in 0 .. Len(w) - from
      /\ (k + 1) - 1 = k /\ from + (k + 1) = from + k + 1
      /\ w[from + k] \in Symbols
  OBVIOUS
<1>2. /\ after[k] = NextState(D, after[k - 1], w[from + k])
      /\ after[k + 1] = NextState(D, after[k], w[from + k + 1])
  <2>1. \A n \in 1 .. Len(w) - from : after[n] = NextState(D, after[n - 1], w[from + n])
    BY StateAfterSteps
  <2> HIDE DEF after
  <2>2. after[k + 1] = NextState(D, after[(k + 1) - 1], w[from + (k + 1)])
    BY <1>1, <2>1
  <2>3. QED
    BY <1>1, <2>1, <2>2
<1>3. /\ after[k - 1] \in Reachable(D) \cup {NoState}
      /\ after[k] \in Reachable(D) \cup {NoState}
  BY <1>1, StateAfterReachable
<1>4. CoAccessible(D) \subseteq States(D) /\ NoState \notin States(D)
  BY DfaAssumption DEF CoAccessible, ClosedBackward, States, IsDfa
<1>5. after[k] # NoState /\ after[k] = D.init => InitReentrant(D)
  BY <1>1, <1>2, <1>3 DEF NextState, InitReentrant
<1>6. after[k + 1] \notin CoAccessible(D)
  BY <1>2, <1>3, <1>4, <1>5, SplitPointKills DEF NextState
<1>7. \A n \in MatchLengths(D, w, from) : n < k + 1
  BY <1>1, <1>6, NoMatchWhenDoomed
<1>8. QED
  BY <1>7 DEF MatchLengths

----------------------------------------------------------------------------
(* The serial scan.                                                        *)
TokenAt(D, w, from) ==
  [ begin  |-> from,
    length |-> LongestMatch(D, w, from),
    token  |-> D.accept[StateAfter(D, w, from)[LongestMatch(D, w, from)]] ]

AfterTokenAt(D, w, from) == from + LongestMatch(D, w, from)

LEMMA SerialSteps ==
  ASSUME NEW D, NEW w \in Seq(Symbols), NEW from \in 0 .. Len(w)
  PROVE  SerialFrom(D, w)[from] =
           IF MatchLengths(D, w, from) = {}
           THEN [stream |-> << >>, consumed |-> from]
           ELSE [ stream   |-> <<TokenAt(D, w, from)>>
                                 \o SerialFrom(D, w)[AfterTokenAt(D, w, from)].stream,
                  consumed |-> SerialFrom(D, w)[AfterTokenAt(D, w, from)].consumed ]
<1> DEFINE N == Len(w)
           Round(x, rest) ==
             IF MatchLengths(D, w, x) = {}
             THEN [stream |-> << >>, consumed |-> x]
             ELSE [ stream |-> <<TokenAt(D, w, x)>> \o rest.stream,
                    consumed |-> rest.consumed ]
           Is(f, k) == f = [ x \in N - k .. N |-> Round(x, f[AfterTokenAt(D, w, x)]) ]
           S == { k \in 0 .. N : \E f : Is(f, k) }
<1>0. N \in Nat
  OBVIOUS
<1>1. \A x \in 0 .. N : MatchLengths(D, w, x) # {} =>
                          AfterTokenAt(D, w, x) \in x + 1 .. N
  BY LongestMatchIsLongest DEF AfterTokenAt
<1>2. \A x, r1, r2 : (MatchLengths(D, w, x) # {} => r1 = r2) => Round(x, r1) = Round(x, r2)
  OBVIOUS
<1> HIDE DEF Round, N
<1>3. 0 \in S
  <2>1. MatchLengths(D, w, N) = {}
    BY <1>0, <1>1
  <2> DEFINE f == [ x \in N - 0 .. N |-> Round(x, 0) ]
  <2>2. \A x \in N - 0 .. N : Round(x, 0) = Round(x, f[AfterTokenAt(D, w, x)])
    BY <1>0, <1>2, <2>1
  <2>3. Is(f, 0)
    BY <2>2
  <2> HIDE DEF Is, f
  <2>4. QED
    BY <1>0, <2>3
<1>4. ASSUME NEW k \in 0 .. N - 1, k \in S PROVE k + 1 \in S
  <2>0. /\ k + 1 \in 0 .. N /\ k \in Nat /\ N - (k + 1) \in 0 .. N
        /\ \A x \in N - (k + 1) .. N : x \in 0 .. N
                                      /\ (x = N - (k + 1) \/ x \in N - k .. N)
        /\ \A x \in N - (k + 1) .. N : \A y \in x + 1 .. N : y \in N - k .. N
        /\ \A x \in N - k .. N : x \in N - (k + 1) .. N /\ x # N - (k + 1)
    BY <1>0
  <2>1. PICK f : Is(f, k)
    BY <1>4
  <2> DEFINE low == N - (k + 1)
             g == [ x \in low .. N |->
                      IF x = low THEN Round(low, f[AfterTokenAt(D, w, low)]) ELSE f[x] ]
  <2>2. \A x \in N - k .. N : g[x] = f[x] /\ f[x] = Round(x, f[AfterTokenAt(D, w, x)])
    BY <2>0, <2>1
  <2>3. ASSUME NEW x \in low .. N
        PROVE  g[x] = Round(x, g[AfterTokenAt(D, w, x)])
    <3>1. g[x] = Round(x, f[AfterTokenAt(D, w, x)])
      BY <2>0, <2>2
    <3>2. MatchLengths(D, w, x) # {} => g[AfterTokenAt(D, w, x)] = f[AfterTokenAt(D, w, x)]
      BY <1>1, <2>0, <2>2
    <3>3. QED
      BY <1>2, <3>1, <3>2
  <2>4. g = [ x \in low .. N |-> g[x] ]
    OBVIOUS
  <2>5. Is(g, k + 1)
    <3> HIDE DEF g
    <3> QED
      BY <2>3, <2>4
  <2> HIDE DEF g, Is
  <2>6. \E h : Is(h, k + 1)
    BY <2>5
  <2>7. QED
    BY <2>0, <2>6
<1> HIDE DEF S
<1>5. N \in S
  <2>1. 0 .. N \subseteq S
    BY <1>0, <1>3, <1>4, UpTo
  <2>2. QED
    BY <1>0, <2>1
<1>6. \E f : Is(f, N)
  BY <1>5 DEF S
<1>7. SerialFrom(D, w) =
        CHOOSE f : f = [ x \in 0 .. N |-> Round(x, f[AfterTokenAt(D, w, x)]) ]
  BY DEF SerialFrom, Round, TokenAt, AfterTokenAt, N
<1>8. N - N = 0
  BY <1>0
<1>9. Is(SerialFrom(D, w), N)
  <2>1. SerialFrom(D, w) = CHOOSE f : Is(f, N)
    BY <1>7, <1>8
  <2> HIDE DEF Is
  <2>2. QED
    BY <1>6, <2>1
<1>10. ASSUME NEW f, Is(f, N)
       PROVE  f[from] = Round(from, f[AfterTokenAt(D, w, from)])
  <2>1. from \in 0 .. N
    BY DEF N
  <2>2. QED
    BY <1>8, <1>10, <2>1
<1>11. QED
  <2> HIDE DEF Is
  <2>1. SerialFrom(D, w)[from] = Round(from, SerialFrom(D, w)[AfterTokenAt(D, w, from)])
    BY <1>9, <1>10
  <2>2. QED
    BY <2>1 DEF Round

LEMMA Associative ==
  \A S : \A s, t, u \in Seq(S) : (s \o t) \o u = s \o (t \o u)
  OBVIOUS

LEMMA AppendConcat ==
  \A S : \A e \in S, s, t \in Seq(S) : s \o (<<e>> \o t) = Append(s, e) \o t
<1> TAKE S
<1> TAKE e \in S, s \in Seq(S), t \in Seq(S)
<1>1. <<e>> \in Seq(S) /\ Append(s, e) = s \o <<e>>
  OBVIOUS
<1>2. QED
  BY <1>1, Associative

Lexemes(w) == [begin : 0 .. Len(w), length : 1 .. Len(w), token : TokenIds]

LEMMA TokenAtIsLexeme ==
  ASSUME NEW D, IsDfa(D), NEW w \in Seq(Symbols), NEW from \in 0 .. Len(w),
         MatchLengths(D, w, from) # {}
  PROVE  /\ TokenAt(D, w, from) \in Lexemes(w)
         /\ AfterTokenAt(D, w, from) \in from + 1 .. Len(w)
<1> DEFINE n == LongestMatch(D, w, from)
           s == StateAfter(D, w, from)[n]
<1>1. /\ n \in MatchLengths(D, w, from) /\ n \in 1 .. Len(w) - from
      /\ from + n \in from + 1 .. Len(w)
  BY LongestMatchIsLongest
<1>2. s # NoState /\ D.accept[s] # NoToken
  BY <1>1 DEF MatchLengths
<1>3. n \in 0 .. Len(w) - from
  BY <1>1
<1>4. s \in States(D)
  BY <1>2, <1>3, StateAfterReachable, ReachableClosed
<1>5. D.accept[s] \in TokenIds
  BY <1>2, <1>4 DEF IsDfa
<1>6. n \in 1 .. Len(w)
  BY <1>1
<1>7. TokenAt(D, w, from) = [begin |-> from, length |-> n, token |-> D.accept[s]]
  BY DEF TokenAt
<1> HIDE DEF n, s
<1>8. QED
  BY <1>1, <1>5, <1>6, <1>7 DEF Lexemes, AfterTokenAt, n

(* What the simulator scans is what the automaton as given would: unrolling *)
(* the start moves no match and changes no token.                          *)
LEMMA UnrolledScans ==
  ASSUME NEW D, IsDfa(D), NEW ignored,
         NEW w \in Seq(Symbols), NEW from \in 0 .. Len(w)
  PROVE  /\ MatchLengths(Simulator(D, ignored), w, from) = MatchLengths(D, w, from)
         /\ MatchLengths(D, w, from) # {} =>
              TokenAt(Simulator(D, ignored), w, from) = TokenAt(D, w, from)
<1> DEFINE sim == Simulator(D, ignored)
           outer == StateAfter(D, w, from)
           inner == StateAfter(sim, w, from)
           N == Len(w) - from
<1>1. /\ sim.next[sim.init] = D.next[D.init]
      /\ \A s \in States(D) : sim.next[s] = D.next[s] /\ sim.accept[s] = D.accept[s]
  <2>1. sim.next = UnrollStart(D).next /\ sim.accept = UnrollStart(D).accept
        /\ sim.init = UnrollStart(D).init
    BY DEF Simulator
  <2> HIDE DEF sim
  <2>2. D.count \in Nat /\ States(D) = 0 .. D.count - 1
    BY DEF IsDfa, States
  <2>3. QED
    BY <2>1, <2>2 DEF UnrollStart
<1>2. N \in Nat
  OBVIOUS
<1>3. /\ outer[0] = D.init
      /\ \A n \in 1 .. N : outer[n] = NextState(D, outer[n - 1], w[from + n])
  BY StateAfterSteps
<1>4. /\ inner[0] = sim.init
      /\ \A n \in 1 .. N : inner[n] = NextState(sim, inner[n - 1], w[from + n])
  <2> HIDE DEF sim
  <2> QED
    BY StateAfterSteps
<1>5. \A n \in 0 .. N : outer[n] \in States(D) \cup {NoState}
  BY StateAfterReachable, ReachableClosed
<1>6. D.init # NoState /\ sim.init # NoState
  BY DfaAssumption, SimulatorTables DEF IsDfa, States
<1> HIDE DEF sim, inner, outer, N
<1> DEFINE S == { n \in 0 .. N : n # 0 => inner[n] = outer[n] }
<1>7. 0 \in S
  BY <1>2
<1>8. ASSUME NEW n \in 0 .. N - 1, n \in S PROVE n + 1 \in S
  <2>1. n + 1 \in 0 .. N /\ n + 1 \in 1 .. N /\ (n + 1) - 1 = n /\ n \in 0 .. N
    BY <1>2
  <2>2. /\ outer[n + 1] = NextState(D, outer[n], w[from + (n + 1)])
        /\ inner[n + 1] = NextState(sim, inner[n], w[from + (n + 1)])
    BY <1>3, <1>4, <2>1
  <2>3. CASE n = 0
    BY <1>1, <1>3, <1>4, <1>6, <2>1, <2>2, <2>3 DEF NextState
  <2>4. CASE n # 0
    <3>1. inner[n] = outer[n] /\ outer[n] \in States(D) \cup {NoState}
      BY <1>5, <1>8, <2>1, <2>4
    <3>2. QED
      BY <1>1, <2>1, <2>2, <3>1 DEF NextState
  <2>5. QED
    BY <2>3, <2>4
<1> HIDE DEF S
<1>9. 0 .. N \subseteq S
  BY <1>2, <1>7, <1>8, UpTo
<1>10. \A n \in 1 .. N : /\ inner[n] = outer[n]
                         /\ outer[n] # NoState => sim.accept[outer[n]] = D.accept[outer[n]]
  <2>1. \A n \in 1 .. N : n \in 0 .. N /\ n # 0
    BY <1>2
  <2>2. QED
    BY <1>1, <1>5, <1>9, <2>1 DEF S
<1>11. /\ MatchLengths(D, w, from) =
             { n \in 1 .. N : outer[n] # NoState /\ D.accept[outer[n]] # NoToken }
       /\ MatchLengths(sim, w, from) =
             { n \in 1 .. N : inner[n] # NoState /\ sim.accept[inner[n]] # NoToken }
  BY DEF MatchLengths, inner, outer, N
<1>12. MatchLengths(sim, w, from) = MatchLengths(D, w, from)
  BY <1>10, <1>11
<1>13. ASSUME MatchLengths(D, w, from) # {} PROVE TokenAt(sim, w, from) = TokenAt(D, w, from)
  <2> DEFINE m == LongestMatch(D, w, from)
  <2>1. LongestMatch(sim, w, from) = m
    BY <1>12 DEF LongestMatch
  <2>2. m \in MatchLengths(D, w, from)
    BY <1>13, LongestMatchIsLongest
  <2> HIDE DEF m
  <2>3. m \in 1 .. N /\ outer[m] # NoState
    BY <1>11, <2>2
  <2>4. inner[m] = outer[m] /\ sim.accept[outer[m]] = D.accept[outer[m]]
    BY <1>10, <2>3
  <2>5. /\ TokenAt(sim, w, from) = [begin |-> from, length |-> m,
                                    token |-> sim.accept[inner[m]]]
        /\ TokenAt(D, w, from) = [begin |-> from, length |-> m,
                                  token |-> D.accept[outer[m]]]
    BY <2>1 DEF TokenAt, inner, outer, m
  <2>6. QED
    BY <2>4, <2>5
<1>14. QED
  BY <1>12, <1>13 DEF sim

(* Strong induction from the end of an input down.                         *)
LEMMA DownFrom ==
  ASSUME NEW N \in Nat, NEW S,
         \A x \in 0 .. N : (\A y \in x + 1 .. N : y \in S) => x \in S
  PROVE  0 .. N \subseteq S
<1> DEFINE T == { N - x : x \in { x \in 0 .. N : x \notin S } }
<1>1. SUFFICES ASSUME ~ (0 .. N \subseteq S) PROVE FALSE
  OBVIOUS
<1>2. T \in SUBSET Nat /\ T # {}
  <2>1. \A x \in 0 .. N : N - x \in Nat
    OBVIOUS
  <2>2. QED
    BY <1>1, <2>1
<1>3. PICK t \in T : \A u \in T : t <= u
  <2> HIDE DEF T
  <2> QED
    BY <1>2, LeastNatural
<1>4. PICK x \in 0 .. N : x \notin S /\ t = N - x
  BY <1>3
<1>5. ASSUME NEW y \in x + 1 .. N PROVE y \in S
  <2>1. y \in 0 .. N /\ N - y < N - x
    BY <1>4
  <2>2. y \notin S => N - y \in T
    BY <2>1
  <2> HIDE DEF T
  <2>3. N - y \in T => t <= N - y
    BY <1>3
  <2>4. QED
    BY <1>4, <2>1, <2>2, <2>3
<1>6. QED
  BY <1>4, <1>5

(* The serial scan emits tokens and ends within the input, where nothing   *)
(* matches any more.                                                       *)
LEMMA SerialType ==
  ASSUME NEW D, IsDfa(D), NEW w \in Seq(Symbols)
  PROVE  \A from \in 0 .. Len(w) :
           /\ SerialFrom(D, w)[from].stream \in Seq(Lexemes(w))
           /\ SerialFrom(D, w)[from].consumed \in from .. Len(w)
           /\ MatchLengths(D, w, SerialFrom(D, w)[from].consumed) = {}
<1> DEFINE tail == SerialFrom(D, w)
           Typed(from) == /\ tail[from].stream \in Seq(Lexemes(w))
                          /\ tail[from].consumed \in from .. Len(w)
                          /\ MatchLengths(D, w, tail[from].consumed) = {}
           S == { from \in 0 .. Len(w) : Typed(from) }
<1>0. Len(w) \in Nat
  OBVIOUS
<1>1. ASSUME NEW x \in 0 .. Len(w), \A y \in x + 1 .. Len(w) : y \in S
      PROVE  x \in S
  <2>1. CASE MatchLengths(D, w, x) = {}
    <3>1. tail[x] = [stream |-> << >>, consumed |-> x]
      BY <2>1, SerialSteps
    <3> HIDE DEF tail
    <3>2. Typed(x)
      BY <2>1, <3>1
    <3>3. QED
      BY <3>2
  <2>2. CASE MatchLengths(D, w, x) # {}
    <3> DEFINE t == TokenAt(D, w, x)
               y == AfterTokenAt(D, w, x)
    <3>1. tail[x] = [stream |-> <<t>> \o tail[y].stream, consumed |-> tail[y].consumed]
      BY <2>2, SerialSteps
    <3>2. t \in Lexemes(w) /\ y \in x + 1 .. Len(w)
      BY <2>2, TokenAtIsLexeme
    <3>3. Typed(y)
      BY <1>1, <3>2
    <3>4. <<t>> \in Seq(Lexemes(w))
      BY <3>2
    <3>5. tail[x].stream = <<t>> \o tail[y].stream /\ tail[x].consumed = tail[y].consumed
      BY <3>1
    <3> HIDE DEF tail, t, y
    <3>6. tail[x].stream \in Seq(Lexemes(w))
      BY <3>3, <3>4, <3>5
    <3>7. Typed(x)
      BY <3>2, <3>3, <3>5, <3>6
    <3>8. QED
      BY <3>7
  <2>3. QED
    BY <2>1, <2>2
<1> HIDE DEF S
<1>2. 0 .. Len(w) \subseteq S
  BY <1>0, <1>1, DownFrom
<1>3. QED
  BY <1>2 DEF S

(* A boundary that is the end of the input or a certified byte.            *)
CertifiedAt(D, w, at) ==
  at = Len(w) \/ (at < Len(w) /\ w[at + 1] \in SplitPoints(D, {}))

(* What a scan may read up to a certified boundary is what it may read at  *)
(* all, unless it begins there.                                            *)
LEMMA MatchesEndAtCertified ==
  ASSUME NEW D, IsDfa(D), NEW w \in Seq(Symbols), NEW end \in 0 .. Len(w),
         CertifiedAt(D, w, end), NEW from \in 0 .. end - 1
  PROVE  \A n \in MatchLengths(D, w, from) : from + n <= end
<1>1. from \in 0 .. Len(w)
  OBVIOUS
<1>2. CASE end = Len(w)
  BY <1>1, <1>2 DEF MatchLengths
<1>3. CASE end < Len(w)
  <2>1. w[end + 1] \in SplitPoints(D, {})
    BY <1>3 DEF CertifiedAt
  <2>2. end - from \in 1 .. Len(w) - from - 1 /\ from + (end - from) + 1 = end + 1
    BY <1>3
  <2>3. \A n \in MatchLengths(D, w, from) : n <= end - from
    <3>1. w[from + (end - from) + 1] \in SplitPoints(D, {})
      BY <2>1, <2>2
    <3>2. QED
      BY <1>1, <2>2, <3>1, NoMatchOverCertified
  <2>4. MatchLengths(D, w, from) \subseteq Int
    BY DEF MatchLengths
  <2>5. QED
    BY <2>3, <2>4
<1>4. QED
  BY <1>2, <1>3

(* A serial scan that comes as far as a certified boundary has a token     *)
(* begin there, or ends there.                                             *)
LEMMA SerialPasses ==
  ASSUME NEW D, IsDfa(D), NEW w \in Seq(Symbols), NEW at \in 0 .. Len(w),
         CertifiedAt(D, w, at)
  PROVE  \A from \in 0 .. at :
           SerialFrom(D, w)[from].consumed >= at =>
             \E front \in Seq(Lexemes(w)) :
               /\ SerialFrom(D, w)[from].stream = front \o SerialFrom(D, w)[at].stream
               /\ SerialFrom(D, w)[from].consumed = SerialFrom(D, w)[at].consumed
<1> DEFINE tail == SerialFrom(D, w)
           Passes(from) ==
             tail[from].consumed >= at =>
               \E front \in Seq(Lexemes(w)) :
                 /\ tail[from].stream = front \o tail[at].stream
                 /\ tail[from].consumed = tail[at].consumed
           S == { from \in 0 .. at : Passes(from) }
<1>0. at \in Nat /\ at \in 0 .. Len(w)
  OBVIOUS
<1>1. \A x \in 0 .. Len(w) : tail[x].stream \in Seq(Lexemes(w))
  BY SerialType
<1>2. ASSUME NEW x \in 0 .. at, \A y \in x + 1 .. at : y \in S
      PROVE  x \in S
  <2>1. CASE x = at
    <3>1. tail[x].stream = << >> \o tail[at].stream /\ << >> \in Seq(Lexemes(w))
      <4> HIDE DEF tail
      <4> QED
        BY <1>0, <1>1, <2>1
    <3> HIDE DEF tail
    <3>2. Passes(x)
      BY <2>1, <3>1
    <3>3. QED
      BY <3>2
  <2>2. CASE x < at /\ MatchLengths(D, w, x) = {}
    <3>1. x \in 0 .. Len(w)
      OBVIOUS
    <3>2. tail[x] = [stream |-> << >>, consumed |-> x]
      BY <2>2, <3>1, SerialSteps
    <3>3. ~ (tail[x].consumed >= at)
      BY <2>2, <3>2
    <3> HIDE DEF tail
    <3>4. QED
      BY <3>3
  <2>3. CASE x < at /\ MatchLengths(D, w, x) # {}
    <3> DEFINE t == TokenAt(D, w, x)
               y == AfterTokenAt(D, w, x)
    <3>1. x \in 0 .. Len(w) /\ x \in 0 .. at - 1
      BY <2>3
    <3>2. tail[x] = [stream |-> <<t>> \o tail[y].stream, consumed |-> tail[y].consumed]
      BY <2>3, <3>1, SerialSteps
    <3>3. t \in Lexemes(w) /\ y \in x + 1 .. Len(w)
      BY <2>3, <3>1, TokenAtIsLexeme
    <3>4. y <= at
      BY <2>3, <3>1, MatchesEndAtCertified, LongestMatchIsLongest DEF AfterTokenAt
    <3>5. Passes(y)
      <4>1. y \in x + 1 .. at
        BY <3>3, <3>4
      <4>2. y \in S
        <5> HIDE DEF y, S
        <5> QED
          BY <1>2, <4>1
      <4>3. QED
        BY <4>2
    <3>6. tail[x].stream = <<t>> \o tail[y].stream /\ tail[x].consumed = tail[y].consumed
      BY <3>2
    <3> HIDE DEF tail, t, y
    <3>7. ASSUME tail[x].consumed >= at
          PROVE  \E front \in Seq(Lexemes(w)) :
                   /\ tail[x].stream = front \o tail[at].stream
                   /\ tail[x].consumed = tail[at].consumed
      <4>1. PICK front \in Seq(Lexemes(w)) :
              /\ tail[y].stream = front \o tail[at].stream
              /\ tail[y].consumed = tail[at].consumed
        BY <3>5, <3>6, <3>7
      <4>2. <<t>> \o front \in Seq(Lexemes(w))
        BY <3>3
      <4>3. <<t>> \o (front \o tail[at].stream) = (<<t>> \o front) \o tail[at].stream
        <5>1. <<t>> \in Seq(Lexemes(w)) /\ tail[at].stream \in Seq(Lexemes(w))
          BY <1>0, <1>1, <3>3
        <5>2. \A a, b, c \in Seq(Lexemes(w)) : (a \o b) \o c = a \o (b \o c)
          BY SMTT(20)
        <5>3. (<<t>> \o front) \o tail[at].stream = <<t>> \o (front \o tail[at].stream)
          BY <5>1, <5>2
        <5>4. QED
          BY <5>3, Zenon
      <4>4. QED
        BY <3>6, <4>1, <4>2, <4>3
    <3>8. QED
      BY <3>7
  <2>4. QED
    BY <2>1, <2>2, <2>3
<1> HIDE DEF S
<1>3. 0 .. at \subseteq S
  BY <1>0, <1>2, DownFrom
<1>4. QED
  BY <1>3 DEF S

(* A scan that sees nothing past a certified boundary does what the scan   *)
(* of the whole input does, up to there.                                   *)
LEMMA ScanUpToCertified ==
  ASSUME NEW D, IsDfa(D), NEW w \in Seq(Symbols), NEW end \in 0 .. Len(w),
         CertifiedAt(D, w, end), NEW from \in 0 .. end
  PROVE  /\ from = end => MatchLengths(D, SubSeq(w, 1, end), from) = {}
         /\ from < end => MatchLengths(D, SubSeq(w, 1, end), from) = MatchLengths(D, w, from)
         /\ MatchLengths(D, SubSeq(w, 1, end), from) # {} =>
              /\ from < end
              /\ TokenAt(D, SubSeq(w, 1, end), from) = TokenAt(D, w, from)
              /\ AfterTokenAt(D, SubSeq(w, 1, end), from) = AfterTokenAt(D, w, from)
              /\ AfterTokenAt(D, w, from) \in from + 1 .. end
<1> DEFINE prefix == SubSeq(w, 1, end)
<1>1. MatchLengths(D, prefix, from) = { n \in MatchLengths(D, w, from) : from + n <= end }
  BY MatchLengthsInPrefix
<1>2. from \in 0 .. Len(w) /\ (from < end => from \in 0 .. end - 1)
  OBVIOUS
<1>3. MatchLengths(D, w, from) \subseteq Nat \ {0}
  BY DEF MatchLengths
<1>4. \A n \in 0 .. end - from : StateAfter(D, prefix, from)[n] = StateAfter(D, w, from)[n]
  BY StateAfterInPrefix
<1> HIDE DEF prefix
<1>5. from = end => MatchLengths(D, prefix, from) = {}
  BY <1>1, <1>3
<1>6. from < end => MatchLengths(D, prefix, from) = MatchLengths(D, w, from)
  BY <1>1, <1>2, MatchesEndAtCertified
<1>7. ASSUME MatchLengths(D, prefix, from) # {}
      PROVE  /\ from < end
             /\ TokenAt(D, prefix, from) = TokenAt(D, w, from)
             /\ AfterTokenAt(D, prefix, from) = AfterTokenAt(D, w, from)
             /\ AfterTokenAt(D, w, from) \in from + 1 .. end
  <2>1. from < end
    BY <1>5, <1>7
  <2>2. MatchLengths(D, prefix, from) = MatchLengths(D, w, from)
    BY <1>6, <2>1
  <2>3. LongestMatch(D, prefix, from) = LongestMatch(D, w, from)
    BY <2>2 DEF LongestMatch
  <2>4. /\ LongestMatch(D, w, from) \in MatchLengths(D, w, from)
        /\ LongestMatch(D, w, from) \in 1 .. Len(w) - from
    BY <1>2, <1>7, <2>2, LongestMatchIsLongest
  <2>5. from + LongestMatch(D, w, from) <= end
    BY <1>1, <2>2, <2>4
  <2>6. LongestMatch(D, w, from) \in 0 .. end - from
    BY <2>4, <2>5
  <2>7. StateAfter(D, prefix, from)[LongestMatch(D, w, from)]
          = StateAfter(D, w, from)[LongestMatch(D, w, from)]
    BY <1>4, <2>6
  <2>8. QED
    BY <2>1, <2>3, <2>4, <2>5, <2>7 DEF TokenAt, AfterTokenAt
<1>8. QED
  BY <1>5, <1>6, <1>7 DEF prefix

(* The tokens of the serial scan from an offset on.                        *)
TokensFrom(D, w, from) ==
  { SerialFrom(D, w)[from].stream[i] : i \in 1 .. Len(SerialFrom(D, w)[from].stream) }

LEMMA TokensFromSteps ==
  ASSUME NEW D, IsDfa(D), NEW w \in Seq(Symbols), NEW from \in 0 .. Len(w)
  PROVE  TokensFrom(D, w, from) =
           IF MatchLengths(D, w, from) = {} THEN {}
           ELSE {TokenAt(D, w, from)} \cup TokensFrom(D, w, AfterTokenAt(D, w, from))
<1>1. CASE MatchLengths(D, w, from) = {}
  <2>1. SerialFrom(D, w)[from] = [stream |-> << >>, consumed |-> from]
    BY <1>1, SerialSteps
  <2>2. SerialFrom(D, w)[from].stream = << >>
    BY <2>1
  <2>3. QED
    BY <1>1, <2>2 DEF TokensFrom
<1>2. CASE MatchLengths(D, w, from) # {}
  <2> DEFINE t == TokenAt(D, w, from)
             rest == SerialFrom(D, w)[AfterTokenAt(D, w, from)].stream
             all == SerialFrom(D, w)[from].stream
  <2>1. all = <<t>> \o rest
    <3>1. SerialFrom(D, w)[from] =
            [ stream   |-> <<t>> \o rest,
              consumed |-> SerialFrom(D, w)[AfterTokenAt(D, w, from)].consumed ]
      BY <1>2, SerialSteps
    <3> HIDE DEF t, rest
    <3>2. QED
      BY <3>1
  <2>2. AfterTokenAt(D, w, from) \in 0 .. Len(w) /\ t \in Lexemes(w)
    BY <1>2, TokenAtIsLexeme
  <2>3. rest \in Seq(Lexemes(w))
    BY <2>2, SerialType
  <2>4. /\ TokensFrom(D, w, from) = { all[i] : i \in 1 .. Len(all) }
        /\ TokensFrom(D, w, AfterTokenAt(D, w, from)) = { rest[i] : i \in 1 .. Len(rest) }
    BY DEF TokensFrom
  <2> HIDE DEF t, rest, all
  <2>5. /\ Len(all) = Len(rest) + 1 /\ Len(rest) \in Nat
        /\ all[1] = t
        /\ \A i \in 1 .. Len(rest) : all[i + 1] = rest[i]
    BY <2>1, <2>2, <2>3
  <2>6. { all[i] : i \in 1 .. Len(all) } = {t} \cup { rest[i] : i \in 1 .. Len(rest) }
    <3>1. \A i \in 1 .. Len(all) : i = 1 \/ (i - 1 \in 1 .. Len(rest) /\ all[i] = rest[i - 1])
      <4>1. \A i \in 1 .. Len(all) :
              i = 1 \/ (i - 1 \in 1 .. Len(rest) /\ (i - 1) + 1 = i)
        BY <2>5
      <4>2. QED
        BY <2>5, <4>1
    <3>2. 1 \in 1 .. Len(all) /\ \A i \in 1 .. Len(rest) : i + 1 \in 1 .. Len(all)
      BY <2>5
    <3>3. \A i \in 1 .. Len(all) :
            all[i] = t \/ \E j \in 1 .. Len(rest) : all[i] = rest[j]
      BY <2>5, <3>1
    <3>4. \A j \in 1 .. Len(rest) : \E i \in 1 .. Len(all) : rest[j] = all[i]
      BY <2>5, <3>2
    <3>5. \E i \in 1 .. Len(all) : all[i] = t
      BY <2>5, <3>2
    <3> HIDE DEF all, rest, t
    <3>6. QED
      BY <3>3, <3>4, <3>5, SMTT(20)
  <2>7. QED
    BY <1>2, <2>4, <2>6 DEF t
<1>3. QED
  BY <1>1, <1>2

(* The tokens of the serial scan partition what it consumes.               *)
LEMMA SerialTiles ==
  ASSUME NEW D, IsDfa(D), NEW w \in Seq(Symbols)
  PROVE  \A from \in 0 .. Len(w) :
           /\ \A t \in TokensFrom(D, w, from) :
                /\ t.begin \in from .. Len(w)
                /\ MatchLengths(D, w, t.begin) # {}
                /\ t = TokenAt(D, w, t.begin)
           /\ \A t, u \in TokensFrom(D, w, from) :
                t.begin < u.begin => AfterTokenAt(D, w, t.begin) <= u.begin
           /\ \A o \in from .. SerialFrom(D, w)[from].consumed - 1 :
                \E t \in TokensFrom(D, w, from) :
                  t.begin <= o /\ o < AfterTokenAt(D, w, t.begin)
<1> DEFINE Typed(x) == \A t \in TokensFrom(D, w, x) :
                         /\ t.begin \in x .. Len(w)
                         /\ MatchLengths(D, w, t.begin) # {}
                         /\ t = TokenAt(D, w, t.begin)
           Apart(x) == \A t, u \in TokensFrom(D, w, x) :
                         t.begin < u.begin => AfterTokenAt(D, w, t.begin) <= u.begin
           Covered(x) == \A o \in x .. SerialFrom(D, w)[x].consumed - 1 :
                           \E t \in TokensFrom(D, w, x) :
                             t.begin <= o /\ o < AfterTokenAt(D, w, t.begin)
           S == { x \in 0 .. Len(w) : Typed(x) /\ Apart(x) /\ Covered(x) }
<1>0. Len(w) \in Nat
  OBVIOUS
<1>1. ASSUME NEW x \in 0 .. Len(w), \A y \in x + 1 .. Len(w) : y \in S
      PROVE  x \in S
  <2>1. CASE MatchLengths(D, w, x) = {}
    <3>1. TokensFrom(D, w, x) = {}
      BY <2>1, TokensFromSteps
    <3>2. SerialFrom(D, w)[x] = [stream |-> << >>, consumed |-> x]
      BY <2>1, SerialSteps
    <3>3. SerialFrom(D, w)[x].consumed = x
      BY <3>2
    <3>4. QED
      BY <3>1, <3>3
  <2>2. CASE MatchLengths(D, w, x) # {}
    <3> DEFINE t == TokenAt(D, w, x)
               y == AfterTokenAt(D, w, x)
    <3>1. TokensFrom(D, w, x) = {t} \cup TokensFrom(D, w, y)
      BY <2>2, TokensFromSteps
    <3>2. y \in x + 1 .. Len(w) /\ y \in 0 .. Len(w)
      BY <2>2, TokenAtIsLexeme
    <3>3. Typed(y) /\ Apart(y) /\ Covered(y)
      BY <1>1, <3>2
    <3>4. SerialFrom(D, w)[x].consumed = SerialFrom(D, w)[y].consumed
      <4>1. SerialFrom(D, w)[x] = [ stream   |-> <<t>> \o SerialFrom(D, w)[y].stream,
                                    consumed |-> SerialFrom(D, w)[y].consumed ]
        BY <2>2, SerialSteps
      <4> HIDE DEF t, y
      <4>2. QED
        BY <4>1
    <3>5. t.begin = x /\ AfterTokenAt(D, w, t.begin) = y /\ t = TokenAt(D, w, t.begin)
      BY DEF TokenAt
    <3>6. \A u \in TokensFrom(D, w, y) : u.begin \in y .. Len(w) /\ u.begin \in x .. Len(w)
      BY <3>2, <3>3
    <3> HIDE DEF t, y
    <3>7. Typed(x)
      BY <2>2, <3>1, <3>3, <3>5, <3>6
    <3>8. Apart(x)
      <4> SUFFICES ASSUME NEW a \in TokensFrom(D, w, x), NEW b \in TokensFrom(D, w, x),
                          a.begin < b.begin
                   PROVE  AfterTokenAt(D, w, a.begin) <= b.begin
        OBVIOUS
      <4>1. CASE a = t
        <5>1. b # t
          BY <4>1, <3>5
        <5>2. QED
          BY <3>1, <3>2, <3>5, <3>6, <4>1, <5>1
      <4>2. CASE a # t /\ b = t
        BY <3>1, <3>2, <3>5, <3>6, <4>2
      <4>3. CASE a # t /\ b # t
        BY <3>1, <3>3, <4>3
      <4>4. QED
        BY <4>1, <4>2, <4>3
    <3>9. Covered(x)
      <4> SUFFICES ASSUME NEW o \in x .. SerialFrom(D, w)[x].consumed - 1
                   PROVE  \E u \in TokensFrom(D, w, x) :
                            u.begin <= o /\ o < AfterTokenAt(D, w, u.begin)
        OBVIOUS
      <4>1. CASE o < y
        <5>1. t \in TokensFrom(D, w, x) /\ t.begin <= o /\ o < AfterTokenAt(D, w, t.begin)
          BY <3>1, <3>5, <4>1
        <5>2. QED
          BY <5>1
      <4>2. CASE ~ (o < y)
        <5>1. SerialFrom(D, w)[y].consumed \in Int
          BY <3>2, SerialType
        <5>2. o \in y .. SerialFrom(D, w)[y].consumed - 1
          BY <3>2, <3>4, <4>2, <5>1
        <5>3. QED
          BY <3>1, <3>3, <5>2
      <4>3. QED
        BY <4>1, <4>2
    <3>10. QED
      BY <3>7, <3>8, <3>9
  <2>3. QED
    BY <2>1, <2>2
<1> HIDE DEF S
<1>2. 0 .. Len(w) \subseteq S
  BY <1>0, <1>1, DownFrom
<1>3. QED
  BY <1>2 DEF S

----------------------------------------------------------------------------

(* The tables of a simulator that the cloud is computed over.              *)
IsSimulator(D) ==
  /\ IsDfa(D)
  /\ D.live = Live(D)
  /\ D.init_reentrant = InitReentrant(D)

LEMMA SimulatorIsOne ==
  ASSUME NEW D, IsDfa(D), NEW ignored
  PROVE  IsSimulator(Simulator(D, ignored))
  BY SimulatorTables DEF IsSimulator

LEMMA LiveStates ==
  ASSUME NEW D, IsSimulator(D)
  PROVE  /\ D.live = Reachable(D) \cap CoAccessible(D)
         /\ D.live \subseteq States(D) /\ NoState \notin D.live
  BY DfaAssumption, ReachableClosed DEF IsSimulator, Live, States, IsDfa

----------------------------------------------------------------------------
(* The clouds of a walk.                                                   *)
CloudAt(D, window) ==
  LET cloudAt[n \in 0 .. Len(window)] ==
        IF n = 0 THEN InitialCloud(D)
        ELSE Advance(D, cloudAt[n - 1], window[n], n - 1)
  IN cloudAt

LEMMA SplitOriginIsVerdict ==
  ASSUME NEW D, NEW window
  PROVE  SplitOrigin(D, window) = Verdict(CloudAt(D, window)[Len(window)])
  BY DEF SplitOrigin, CloudAt

LEMMA CloudAtSteps ==
  ASSUME NEW D, NEW window \in Seq(Symbols)
  PROVE  /\ CloudAt(D, window)[0] = InitialCloud(D)
         /\ \A n \in 1 .. Len(window) :
              CloudAt(D, window)[n] =
                Advance(D, CloudAt(D, window)[n - 1], window[n], n - 1)
<1> DEFINE N == Len(window)
           Step(c, n) == Advance(D, c, window[n], n - 1)
           Is(f, k) == f = [ n \in 0 .. k |-> IF n = 0 THEN InitialCloud(D)
                                              ELSE Step(f[n - 1], n) ]
           S == { k \in 0 .. N : \E f : Is(f, k) }
<1>0. N \in Nat
  OBVIOUS
<1>1. 0 \in S
  <2>1. Is([n \in 0 .. 0 |-> InitialCloud(D)], 0)
    OBVIOUS
  <2> HIDE DEF Is
  <2>2. QED
    BY <1>0, <2>1
<1>2. ASSUME NEW k \in 0 .. N - 1, k \in S PROVE k + 1 \in S
  <2>0. k + 1 \in 0 .. N /\ k \in Nat
    BY <1>0
  <2>1. PICK f : Is(f, k)
    BY <1>2
  <2> DEFINE nxt == Step(f[k], k + 1)
             g == [ n \in 0 .. k + 1 |-> IF n = k + 1 THEN nxt ELSE f[n] ]
  <2>2. \A n \in 0 .. k : g[n] = f[n]
    BY <2>0
  <2>3. ASSUME NEW n \in 0 .. k + 1
        PROVE  g[n] = IF n = 0 THEN InitialCloud(D) ELSE Step(g[n - 1], n)
    <3>1. CASE n = k + 1
      <4>1. g[n] = nxt /\ n # 0 /\ g[n - 1] = f[k]
        BY <3>1, <2>0, <2>2
      <4> HIDE DEF g, Step
      <4> QED
        BY <4>1, <3>1
    <3>2. CASE n \in 0 .. k
      <4>1. g[n] = f[n] /\ (n # 0 => n - 1 \in 0 .. k /\ g[n - 1] = f[n - 1])
        BY <3>2, <2>2, <2>0
      <4>2. f[n] = IF n = 0 THEN InitialCloud(D) ELSE Step(f[n - 1], n)
        <5> HIDE DEF Step
        <5> QED
          BY <2>1, <3>2
      <4> HIDE DEF g, Step
      <4> QED
        BY <4>1, <4>2
    <3>3. QED
      BY <3>1, <3>2, <2>0
  <2> HIDE DEF Step
  <2>4. g = [ n \in 0 .. k + 1 |-> g[n] ]
    OBVIOUS
  <2> HIDE DEF g
  <2>5. Is(g, k + 1)
    BY <2>3, <2>4
  <2> HIDE DEF Is
  <2>6. \E h : Is(h, k + 1)
    BY <2>5
  <2>7. QED
    BY <2>6, <2>0
<1> HIDE DEF S
<1>3. N \in S
  <2> HIDE DEF N
  <2>1. 0 .. N \subseteq S
    BY <1>0, <1>1, <1>2, UpTo
  <2>2. QED
    BY <1>0, <2>1
<1>4. \E f : Is(f, N)
  BY <1>3 DEF S
<1>5. CloudAt(D, window) = CHOOSE f : Is(f, N)
  BY DEF CloudAt
<1>6. Is(CloudAt(D, window), N)
  <2> HIDE DEF Is
  <2> QED
    BY <1>4, <1>5
<1>7. ASSUME NEW f, Is(f, N)
      PROVE  f[0] = InitialCloud(D) /\ \A n \in 1 .. N : f[n] = Step(f[n - 1], n)
  <2> HIDE DEF Step, N
  <2> QED
    BY <1>0, <1>7
<1>8. QED
  <2> HIDE DEF Is
  <2> QED
    BY <1>6, <1>7

(* What a verdict says of the cloud.                                       *)
LEMMA VerdictIsShared ==
  ASSUME NEW cloud, Verdict(cloud) # BeforeWindow
  PROVE  \A h \in cloud : h[2] = Verdict(cloud)
<1> DEFINE origins == { h[2] : h \in cloud }
<1>1. \E o \in origins : origins = {o}
  BY DEF Verdict
<1>2. Verdict(cloud) = CHOOSE o \in origins : TRUE
  BY <1>1 DEF Verdict
<1>3. QED
  BY <1>1, <1>2

LEMMA SharedIsVerdict ==
  ASSUME NEW cloud, NEW o, \A h \in cloud : h[2] = o, cloud # {}
  PROVE  Verdict(cloud) = o
<1> DEFINE origins == { h[2] : h \in cloud }
<1>1. origins = {o}
  OBVIOUS
<1>2. Verdict(cloud) = CHOOSE p \in origins : TRUE
  BY <1>1 DEF Verdict
<1>3. QED
  BY <1>1, <1>2

LEMMA VerdictOfNone ==
  Verdict({}) = BeforeWindow
  BY DEF Verdict

----------------------------------------------------------------------------
(* The truth about a scan: the offset where the token around a byte of a   *)
(* completely tokenizable input begins, and the scan's history there in    *)
(* the terms of a hypothesis about a window.                               *)
CoveringAt(D, w, offset) ==
  LET stream == Serial(D, w).stream
      i == CHOOSE i \in 1 .. Len(stream) :
             /\ stream[i].begin <= offset
             /\ offset < stream[i].begin + stream[i].length
  IN stream[i].begin

HistoryAt(D, w, occurrence, offset) ==
  LET begin == CoveringAt(D, w, offset)
  IN << StateAfter(D, w, begin)[offset + 1 - begin],
        IF begin >= occurrence THEN begin - occurrence ELSE BeforeWindow >>

(* The choice of the token around an offset is one of a kind.              *)
LEMMA CoveringIsToken ==
  ASSUME NEW D, IsDfa(D), NEW w \in Seq(Symbols),
         Serial(D, w).consumed = Len(w), NEW o \in 0 .. Len(w) - 1
  PROVE  /\ CoveringAt(D, w, o) \in 0 .. o
         /\ MatchLengths(D, w, CoveringAt(D, w, o)) # {}
         /\ o < AfterTokenAt(D, w, CoveringAt(D, w, o))
         /\ \E t \in TokensFrom(D, w, 0) : t.begin = CoveringAt(D, w, o)
<1> DEFINE stream == Serial(D, w).stream
           P(i) == stream[i].begin <= o /\ o < stream[i].begin + stream[i].length
<1>0. 0 \in 0 .. Len(w) /\ SerialFrom(D, w)[0].consumed = Len(w)
  BY DEF Serial
<1>1. \A i \in 1 .. Len(stream) :
        /\ stream[i] \in TokensFrom(D, w, 0)
        /\ stream[i].begin \in 0 .. Len(w)
        /\ MatchLengths(D, w, stream[i].begin) # {}
        /\ stream[i].begin + stream[i].length = AfterTokenAt(D, w, stream[i].begin)
  <2>1. \A i \in 1 .. Len(stream) : stream[i] \in TokensFrom(D, w, 0)
    BY DEF TokensFrom, Serial
  <2>2. \A t \in TokensFrom(D, w, 0) :
          /\ t.begin \in 0 .. Len(w)
          /\ MatchLengths(D, w, t.begin) # {}
          /\ t = TokenAt(D, w, t.begin)
    BY <1>0, SerialTiles
  <2>3. \A b : TokenAt(D, w, b).length = LongestMatch(D, w, b)
    BY DEF TokenAt
  <2>4. \A t \in TokensFrom(D, w, 0) : t.begin + t.length = AfterTokenAt(D, w, t.begin)
    <3> TAKE t \in TokensFrom(D, w, 0)
    <3>1. t.length = TokenAt(D, w, t.begin).length
      BY <2>2
    <3>2. QED
      BY <3>1, <2>3 DEF AfterTokenAt
  <2> HIDE DEF stream
  <2>5. QED
    BY <2>1, <2>2, <2>4
<1>2. \E i \in 1 .. Len(stream) : P(i)
  <2>1. PICK t \in TokensFrom(D, w, 0) : t.begin <= o /\ o < AfterTokenAt(D, w, t.begin)
    BY <1>0, SerialTiles
  <2>2. PICK i \in 1 .. Len(stream) : stream[i] = t
    BY DEF TokensFrom, Serial
  <2> HIDE DEF stream
  <2>3. P(i)
    BY <1>1, <2>1, <2>2
  <2>4. QED
    BY <2>3
<1>3. CoveringAt(D, w, o) = stream[CHOOSE i \in 1 .. Len(stream) : P(i)].begin
  BY DEF CoveringAt
<1>4. PICK i \in 1 .. Len(stream) : P(i) /\ CoveringAt(D, w, o) = stream[i].begin
  <2> HIDE DEF stream, P
  <2>1. QED
    BY <1>2, <1>3
<1> HIDE DEF stream
<1>5. QED
  BY <1>1, <1>4

LEMMA CoveringIsUnique ==
  ASSUME NEW D, IsDfa(D), NEW w \in Seq(Symbols),
         Serial(D, w).consumed = Len(w), NEW o \in 0 .. Len(w) - 1,
         NEW t \in TokensFrom(D, w, 0), t.begin <= o, o < AfterTokenAt(D, w, t.begin)
  PROVE  CoveringAt(D, w, o) = t.begin
<1>1. PICK u \in TokensFrom(D, w, 0) : u.begin = CoveringAt(D, w, o)
  BY CoveringIsToken
<1>2. u.begin <= o /\ o < AfterTokenAt(D, w, u.begin)
  BY <1>1, CoveringIsToken
<1>3. t.begin \in Int /\ u.begin \in Int
      /\ MatchLengths(D, w, t.begin) # {} /\ MatchLengths(D, w, u.begin) # {}
      /\ t.begin \in 0 .. Len(w) /\ u.begin \in 0 .. Len(w)
  <2>1. 0 \in 0 .. Len(w)
    OBVIOUS
  <2>2. QED
    BY <2>1, SerialTiles
<1>4. AfterTokenAt(D, w, t.begin) \in Int /\ AfterTokenAt(D, w, u.begin) \in Int
  BY <1>3, TokenAtIsLexeme
<1>5. /\ t.begin < u.begin => AfterTokenAt(D, w, t.begin) <= u.begin
      /\ u.begin < t.begin => AfterTokenAt(D, w, u.begin) <= t.begin
  <2>1. 0 \in 0 .. Len(w)
    OBVIOUS
  <2>2. QED
    BY <2>1, SerialTiles
<1>6. QED
  BY <1>1, <1>2, <1>3, <1>4, <1>5

(* The states of a token are live from its first byte to its last, and the *)
(* token ends in one that accepts.                                         *)
LEMMA TokenStatesLive ==
  ASSUME NEW D, IsSimulator(D), NEW w \in Seq(Symbols), NEW b \in 0 .. Len(w),
         MatchLengths(D, w, b) # {}
  PROVE  /\ \A n \in 0 .. LongestMatch(D, w, b) : StateAfter(D, w, b)[n] \in D.live
         /\ Accepting(D, StateAfter(D, w, b)[LongestMatch(D, w, b)])
<1> DEFINE after == StateAfter(D, w, b)
           m == LongestMatch(D, w, b)
<1>1. IsDfa(D)
  BY DEF IsSimulator
<1>2. m \in MatchLengths(D, w, b) /\ m \in 1 .. Len(w) - b
  BY LongestMatchIsLongest
<1>3. Accepting(D, after[m])
  BY <1>2 DEF MatchLengths, Accepting
<1>4. ASSUME NEW n \in 0 .. m PROVE after[n] \in D.live
  <2>1. n \in 0 .. Len(w) - b /\ ~ (m < n)
    BY <1>2
  <2>2. after[n] \in CoAccessible(D)
    BY <1>1, <1>2, <2>1, NoMatchWhenDoomed
  <2>3. after[n] \in Reachable(D) \cup {NoState}
    BY <1>1, <2>1, StateAfterReachable
  <2>4. NoState \notin CoAccessible(D)
    BY <1>1, DfaAssumption DEF CoAccessible, ClosedBackward, States, IsDfa
  <2>5. QED
    BY <2>2, <2>3, <2>4, LiveStates
<1>5. QED
  BY <1>3, <1>4

(* One byte of the walk: the truth is a hypothesis again.                  *)
LEMMA CloudKeepsTruth ==
  ASSUME NEW D, IsSimulator(D), NEW w \in Seq(Symbols),
         Serial(D, w).consumed = Len(w),
         NEW occurrence \in 0 .. Len(w), NEW at \in Nat, occurrence + at < Len(w),
         NEW cloud,
         at = 0 => cloud = InitialCloud(D),
         at > 0 => HistoryAt(D, w, occurrence, occurrence + at - 1) \in cloud
  PROVE  HistoryAt(D, w, occurrence, occurrence + at)
           \in Advance(D, cloud, w[occurrence + at + 1], at)
<1> DEFINE o == occurrence + at
           byte == w[o + 1]
           c == CoveringAt(D, w, o)
           after == StateAfter(D, w, c)
           m == LongestMatch(D, w, c)
           origin == IF c >= occurrence THEN c - occurrence ELSE BeforeWindow
<1>1. IsDfa(D)
  BY DEF IsSimulator
<1>2. o \in 0 .. Len(w) - 1 /\ byte \in Symbols
  OBVIOUS
<1>3. /\ c \in 0 .. o /\ MatchLengths(D, w, c) # {} /\ o < AfterTokenAt(D, w, c)
      /\ \E t \in TokensFrom(D, w, 0) : t.begin = c
  <2> HIDE DEF o
  <2> QED
    BY <1>1, <1>2, CoveringIsToken
<1>4. /\ m \in 1 .. Len(w) - c /\ AfterTokenAt(D, w, c) = c + m
      /\ c \in 0 .. Len(w)
  <2>1. c \in 0 .. Len(w)
    BY <1>2, <1>3
  <2> HIDE DEF c
  <2>2. QED
    BY <1>3, <2>1, LongestMatchIsLongest DEF AfterTokenAt
<1>5. o - c \in 0 .. m - 1 /\ o + 1 - c \in 1 .. m
      /\ (o + 1 - c) - 1 = o - c /\ c + (o + 1 - c) = o + 1
  BY <1>2, <1>3, <1>4, SMTT(20)
<1>6. /\ after[0] = D.init
      /\ \A n \in 1 .. Len(w) - c : after[n] = NextState(D, after[n - 1], w[c + n])
  <2> HIDE DEF c
  <2> QED
    BY <1>4, StateAfterSteps
<1>7. /\ \A n \in 0 .. m : after[n] \in D.live
      /\ Accepting(D, after[m])
  <2> HIDE DEF c
  <2> QED
    BY <1>3, <1>4, TokenStatesLive
<1>8. HistoryAt(D, w, occurrence, o) = <<after[o + 1 - c], origin>>
  BY DEF HistoryAt
<1> HIDE DEF o, c, after, m
<1>9. /\ after[o - c] \in D.live /\ after[o - c] # NoState
      /\ after[o + 1 - c] = D.next[after[o - c]][byte]
      /\ after[o + 1 - c] \in D.live
  <2>1. /\ o - c \in 0 .. m /\ o + 1 - c \in 0 .. m
        /\ o + 1 - c \in 1 .. Len(w) - c
    BY <1>2, <1>3, <1>4, <1>5
  <2>2. after[o - c] \in D.live /\ after[o + 1 - c] \in D.live
    BY <1>7, <2>1
  <2>3. after[o + 1 - c] = NextState(D, after[(o + 1 - c) - 1], w[c + (o + 1 - c)])
    BY <1>6, <2>1
  <2>4. after[o - c] # NoState
    BY <2>2, LiveStates
  <2>5. QED
    BY <1>5, <2>2, <2>3, <2>4 DEF NextState
<1>10. after[o + 1 - c] \in LiveStep(D, after[o - c], byte)
  BY <1>9 DEF LiveStep
<1> SUFFICES <<after[o + 1 - c], origin>> \in Advance(D, cloud, byte, at)
  <2>1. occurrence + at = o
    BY DEF o
  <2> HIDE DEF byte, origin
  <2>2. HistoryAt(D, w, occurrence, occurrence + at) = <<after[o + 1 - c], origin>>
        /\ byte = w[occurrence + at + 1]
    BY <1>8, <2>1 DEF byte
  <2>3. QED
    BY <2>2
<1>11. CASE c = o
  <2>1. o - c = 0 /\ after[o - c] = D.init /\ origin = at
    <3>1. o - c = 0
      BY <1>2, <1>11
    <3>2. c >= occurrence /\ c - occurrence = at
      BY <1>11 DEF o
    <3>3. QED
      BY <1>6, <3>1, <3>2
  <2>2. \E h \in cloud : Accepting(D, h[1])
    <3>1. CASE at = 0
      <4>1. m \in 0 .. m
        BY <1>4
      <4>2. <<after[m], BeforeWindow>> \in cloud
        BY <1>7, <3>1, <4>1 DEF InitialCloud
      <4>3. QED
        BY <1>7, <4>2
    <3>2. CASE at > 0
      <4> DEFINE b == CoveringAt(D, w, o - 1)
                 k == LongestMatch(D, w, b)
      <4>1. o - 1 \in 0 .. Len(w) - 1
        BY <1>2, <3>2 DEF o
      <4>2. /\ b \in 0 .. o - 1 /\ MatchLengths(D, w, b) # {}
            /\ o - 1 < AfterTokenAt(D, w, b)
            /\ \E t \in TokensFrom(D, w, 0) : t.begin = b
        BY <1>1, <4>1, CoveringIsToken
      <4>3. HistoryAt(D, w, occurrence, o - 1)[1] = StateAfter(D, w, b)[(o - 1) + 1 - b]
        BY DEF HistoryAt
      <4>4. HistoryAt(D, w, occurrence, o - 1) \in cloud
        BY <3>2 DEF o
      <4> HIDE DEF b
      <4>5. b \in 0 .. Len(w) /\ b < c
        BY <1>2, <1>11, <4>1, <4>2
      <4>6. AfterTokenAt(D, w, b) <= c
        <5>1. 0 \in 0 .. Len(w)
          OBVIOUS
        <5>2. QED
          BY <1>1, <1>3, <4>2, <4>5, <5>1, SerialTiles
      <4>7. k \in 1 .. Len(w) - b /\ AfterTokenAt(D, w, b) = b + k
        BY <4>2, <4>5, LongestMatchIsLongest DEF AfterTokenAt
      <4>8. (o - 1) + 1 - b = k
        <5> HIDE DEF k
        <5>1. o \in Int /\ b \in Int /\ k \in Int
          BY <1>2, <4>2, <4>7
        <5>2. o - 1 < b + k /\ b + k <= o
          BY <1>11, <4>2, <4>6, <4>7
        <5>3. QED
          BY <5>1, <5>2
      <4>9. Accepting(D, StateAfter(D, w, b)[k])
        BY <4>2, <4>5, TokenStatesLive
      <4>10. QED
        BY <4>3, <4>4, <4>8, <4>9
    <3>3. QED
      BY <3>1, <3>2
  <2>3. PICK h \in cloud : Accepting(D, h[1])
    BY <2>2
  <2>4. <<after[o + 1 - c], at>> \in Fresh(D, h, byte, at)
    BY <1>10, <2>1, <2>3 DEF Fresh
  <2>5. QED
    BY <2>1, <2>3, <2>4 DEF Advance
<1>12. CASE c < o
  <2>1. <<after[o - c], origin>> \in cloud
    <3>1. CASE at = 0
      <4>1. origin = BeforeWindow
        BY <1>2, <1>3, <1>12, <3>1 DEF o
      <4>2. QED
        BY <1>9, <3>1, <4>1 DEF InitialCloud
    <3>2. CASE at > 0
      <4>1. o - 1 \in 0 .. Len(w) - 1 /\ c <= o - 1 /\ o - 1 < AfterTokenAt(D, w, c)
        BY <1>2, <1>3, <1>4, <1>12, <3>2 DEF o
      <4>2. CoveringAt(D, w, o - 1) = c
        BY <1>1, <1>3, <4>1, CoveringIsUnique
      <4>3. HistoryAt(D, w, occurrence, o - 1) =
              <<StateAfter(D, w, c)[(o - 1) + 1 - c], origin>>
        BY <4>2 DEF HistoryAt
      <4>4. (o - 1) + 1 - c = o - c
        BY <1>2, <1>3
      <4>5. HistoryAt(D, w, occurrence, o - 1) \in cloud
        BY <3>2 DEF o
      <4>6. QED
        BY <4>3, <4>4, <4>5 DEF after
    <3>3. QED
      BY <3>1, <3>2
  <2>2. ~ Begins(D, after[o - c])
    <3>1. /\ o - c \in 1 .. Len(w) - c /\ (o - c) - 1 \in 0 .. m
          /\ c + (o - c) \in 1 .. Len(w)
      BY <1>2, <1>3, <1>4, <1>5, <1>12
    <3>2. after[o - c] = NextState(D, after[(o - c) - 1], w[c + (o - c)])
      BY <1>6, <3>1
    <3>3. after[(o - c) - 1] \in D.live /\ w[c + (o - c)] \in Symbols
      BY <1>7, <3>1
    <3>4. after[(o - c) - 1] \in Reachable(D) /\ after[(o - c) - 1] # NoState
      BY <3>3, LiveStates
    <3>5. after[o - c] = D.init => InitReentrant(D)
      BY <3>2, <3>3, <3>4 DEF InitReentrant, NextState
    <3>6. QED
      BY <3>5 DEF Begins, IsSimulator
  <2>3. <<after[o + 1 - c], origin>> \in Stepped(D, <<after[o - c], origin>>, byte, at)
    BY <1>10, <2>2 DEF Stepped
  <2>4. QED
    BY <2>1, <2>3 DEF Advance
<1>13. c = o \/ c < o
  BY <1>3, <1>2
<1>14. QED
  BY <1>11, <1>12, <1>13

(* A verdict on a cloud that holds the truth is where the token begins.    *)
LEMMA VerdictIsTruth ==
  ASSUME NEW D, IsSimulator(D), NEW w \in Seq(Symbols),
         Serial(D, w).consumed = Len(w),
         NEW occurrence \in 0 .. Len(w), NEW offset \in occurrence .. Len(w) - 1,
         NEW cloud, HistoryAt(D, w, occurrence, offset) \in cloud,
         Verdict(cloud) # BeforeWindow
  PROVE  occurrence + Verdict(cloud) = CoveringAt(D, w, offset)
<1> DEFINE c == CoveringAt(D, w, offset)
<1>1. HistoryAt(D, w, occurrence, offset)[2] =
        IF c >= occurrence THEN c - occurrence ELSE BeforeWindow
  BY DEF HistoryAt
<1>2. Verdict(cloud) = IF c >= occurrence THEN c - occurrence ELSE BeforeWindow
  BY <1>1, VerdictIsShared
<1>3. c \in Int
  <2>1. offset \in 0 .. Len(w) - 1
    OBVIOUS
  <2>2. QED
    BY <2>1, CoveringIsToken DEF IsSimulator
<1> HIDE DEF c
<1>4. QED
  BY <1>2, <1>3 DEF c

(* The walk as a whole never loses the truth.                              *)
LEMMA CloudAtKeepsTruth ==
  ASSUME NEW D, IsSimulator(D), NEW w \in Seq(Symbols),
         Serial(D, w).consumed = Len(w),
         NEW occurrence \in 0 .. Len(w), NEW length \in 0 .. Len(w) - occurrence
  PROVE  \A n \in 1 .. length :
           HistoryAt(D, w, occurrence, occurrence + n - 1)
             \in CloudAt(D, SubSeq(w, occurrence + 1, occurrence + length))[n]
<1> DEFINE window == SubSeq(w, occurrence + 1, occurrence + length)
           cloudAt == CloudAt(D, window)
           S == { n \in 0 .. length :
                    n > 0 => HistoryAt(D, w, occurrence, occurrence + n - 1) \in cloudAt[n] }
<1>1. /\ window \in Seq(Symbols) /\ Len(window) = length
      /\ \A n \in 1 .. length : window[n] = w[occurrence + n]
  OBVIOUS
<1>2. /\ cloudAt[0] = InitialCloud(D)
      /\ \A n \in 1 .. length : cloudAt[n] = Advance(D, cloudAt[n - 1], window[n], n - 1)
  <2> HIDE DEF window
  <2> QED
    BY <1>1, CloudAtSteps
<1> HIDE DEF window, cloudAt
<1>3. 0 \in S
  OBVIOUS
<1>4. ASSUME NEW n \in 0 .. length - 1, n \in S PROVE n + 1 \in S
  <2>1. /\ n \in Nat /\ n + 1 \in 1 .. length /\ n + 1 \in 0 .. length /\ (n + 1) - 1 = n
        /\ occurrence + n < Len(w) /\ occurrence + (n + 1) - 1 = occurrence + n
        /\ occurrence + (n + 1) = occurrence + n + 1
    OBVIOUS
  <2>2. cloudAt[n + 1] = Advance(D, cloudAt[n], w[occurrence + n + 1], n)
    BY <1>1, <1>2, <2>1
  <2>3. /\ n = 0 => cloudAt[n] = InitialCloud(D)
        /\ n > 0 => HistoryAt(D, w, occurrence, occurrence + n - 1) \in cloudAt[n]
    BY <1>2, <1>4
  <2>4. HistoryAt(D, w, occurrence, occurrence + n) \in cloudAt[n + 1]
    <3>1. HistoryAt(D, w, occurrence, occurrence + n)
            \in Advance(D, cloudAt[n], w[occurrence + n + 1], n)
      BY <2>1, <2>3, CloudKeepsTruth
    <3>2. QED
      BY <2>2, <3>1
  <2>5. QED
    BY <2>1, <2>4
<1> HIDE DEF S
<1>5. 0 .. length \subseteq S
  <2>1. length \in Nat
    OBVIOUS
  <2>2. QED
    BY <1>3, <1>4, <2>1, UpTo
<1>6. ASSUME NEW n \in 1 .. length
      PROVE  HistoryAt(D, w, occurrence, occurrence + n - 1) \in cloudAt[n]
  <2>1. n \in 0 .. length /\ n > 0
    OBVIOUS
  <2>2. QED
    BY <1>5, <2>1 DEF S
<1>7. QED
  BY <1>6 DEF window, cloudAt

(* The origin of a certified window is where the token around the window's *)
(* last byte begins, wherever the window occurs.                           *)
LEMMA CertifiedOrigin ==
  ASSUME NEW D, IsSimulator(D), NEW w \in Seq(Symbols),
         Serial(D, w).consumed = Len(w),
         NEW occurrence \in 0 .. Len(w), NEW length \in 1 .. Len(w) - occurrence,
         SplitOrigin(D, SubSeq(w, occurrence + 1, occurrence + length)) # BeforeWindow
  PROVE  occurrence + SplitOrigin(D, SubSeq(w, occurrence + 1, occurrence + length))
           = CoveringAt(D, w, occurrence + length - 1)
<1> DEFINE window == SubSeq(w, occurrence + 1, occurrence + length)
<1>1. length \in 0 .. Len(w) - occurrence /\ length \in 1 .. length
      /\ occurrence + length - 1 \in occurrence .. Len(w) - 1
      /\ Len(window) = length
  OBVIOUS
<1>2. HistoryAt(D, w, occurrence, occurrence + length - 1) \in CloudAt(D, window)[length]
  BY <1>1, CloudAtKeepsTruth
<1>3. SplitOrigin(D, window) = Verdict(CloudAt(D, window)[length])
  <2> HIDE DEF window
  <2> QED
    BY <1>1, SplitOriginIsVerdict
<1> DEFINE cloud == CloudAt(D, window)[length]
<1>4. Verdict(cloud) # BeforeWindow /\ SplitOrigin(D, window) = Verdict(cloud)
  BY <1>3
<1> HIDE DEF cloud
<1>5. occurrence + Verdict(cloud) = CoveringAt(D, w, occurrence + length - 1)
  BY <1>1, <1>2, <1>4, VerdictIsTruth DEF cloud
<1>6. QED
  BY <1>4, <1>5

(* Once no hypothesis is left none comes back.                             *)
LEMMA EmptyCloudStays ==
  ASSUME NEW D, NEW window \in Seq(Symbols), NEW k \in 0 .. Len(window),
         CloudAt(D, window)[k] = {}
  PROVE  \A n \in k .. Len(window) : CloudAt(D, window)[n] = {}
<1> DEFINE cloudAt == CloudAt(D, window)
           N == Len(window) - k
           S == { n \in 0 .. N : cloudAt[k + n] = {} }
<1>1. N \in Nat /\ k \in Nat /\ k + N = Len(window)
  OBVIOUS
<1>2. \A n \in 1 .. k + N : cloudAt[n] = Advance(D, cloudAt[n - 1], window[n], n - 1)
  BY CloudAtSteps
<1> HIDE DEF cloudAt, N
<1>3. 0 \in S
  BY <1>1 DEF cloudAt
<1>4. ASSUME NEW n \in 0 .. N - 1, n \in S PROVE n + 1 \in S
  <2>1. /\ n + 1 \in 0 .. N /\ k + (n + 1) \in 1 .. k + N
        /\ (k + (n + 1)) - 1 = k + n
    BY <1>1
  <2>2. cloudAt[k + (n + 1)] = Advance(D, cloudAt[k + n], window[k + (n + 1)], k + n)
    BY <1>2, <2>1
  <2>3. cloudAt[k + n] = {}
    BY <1>4
  <2>4. QED
    BY <2>1, <2>2, <2>3 DEF Advance
<1> HIDE DEF S
<1>5. 0 .. N \subseteq S
  BY <1>1, <1>3, <1>4, UpTo
<1>6. ASSUME NEW n \in k .. Len(window) PROVE n - k \in 0 .. N /\ k + (n - k) = n
  BY <1>1
<1>7. QED
  BY <1>5, <1>6 DEF S, cloudAt

(* At length one the walk certifies exactly the split points, at origin 0. *)
LEMMA SingleByte ==
  ASSUME NEW D, IsSimulator(D), NEW byte \in Symbols
  PROVE  /\ Verdict(Advance(D, InitialCloud(D), byte, 0)) # BeforeWindow
              <=> byte \in SplitPoints(D, {})
         /\ byte \in SplitPoints(D, {}) => Verdict(Advance(D, InitialCloud(D), byte, 0)) = 0
<1> DEFINE cloud == Advance(D, InitialCloud(D), byte, 0)
<1>1. /\ IsDfa(D) /\ D.live = Reachable(D) \cap CoAccessible(D)
      /\ D.live \subseteq States(D) /\ NoState \notin D.live
      /\ D.init \in Reachable(D) /\ Reachable(D) \subseteq States(D)
      /\ 0 # BeforeWindow
  BY LiveStates, ReachableClosed, WindowAssumption DEF IsSimulator
<1>2. \A s \in Reachable(D) :
        D.next[s][byte] \in CoAccessible(D) => s \in D.live /\ D.next[s][byte] \in D.live
  <2>1. NoState \notin CoAccessible(D)
    BY <1>1, DfaAssumption DEF CoAccessible, ClosedBackward, States, IsDfa
  <2>2. QED
    BY <1>1, <2>1, CoAccessibleClosed, ReachableClosed
<1>3. \A s : s \in D.live =>
        /\ s \in Reachable(D)
        /\ Begins(D, s) <=> s \in Exempt(D)
  BY <1>1 DEF Begins, Exempt, IsSimulator
<1>4. \A e \in cloud :
        \E s \in D.live :
          \/ /\ D.next[s][byte] \in D.live
             /\ e = <<D.next[s][byte], IF Begins(D, s) THEN 0 ELSE BeforeWindow>>
          \/ /\ D.next[D.init][byte] \in D.live
             /\ e = <<D.next[D.init][byte], 0>>
  BY DEF Advance, InitialCloud, Stepped, Fresh, LiveStep
<1>5. \A s \in D.live : D.next[s][byte] \in D.live =>
        <<D.next[s][byte], IF Begins(D, s) THEN 0 ELSE BeforeWindow>> \in cloud
  <2> SUFFICES ASSUME NEW s \in D.live, D.next[s][byte] \in D.live
               PROVE  <<D.next[s][byte], IF Begins(D, s) THEN 0 ELSE BeforeWindow>> \in cloud
    OBVIOUS
  <2>1. <<s, BeforeWindow>> \in InitialCloud(D)
    BY DEF InitialCloud
  <2>2. <<D.next[s][byte], IF Begins(D, s) THEN 0 ELSE BeforeWindow>>
          \in Stepped(D, <<s, BeforeWindow>>, byte, 0)
    BY DEF Stepped, LiveStep
  <2>3. QED
    BY <2>1, <2>2 DEF Advance
<1> HIDE DEF cloud
<1>6. ASSUME byte \in SplitPoints(D, {}) PROVE Verdict(cloud) = 0
  <2>1. /\ D.next[D.init][byte] \in CoAccessible(D)
        /\ \A s \in Reachable(D) \ Exempt(D) : D.next[s][byte] \notin CoAccessible(D)
    BY <1>6, SplitPointsExact
  <2>2. \A s \in D.live : D.next[s][byte] \in D.live => Begins(D, s)
    BY <1>1, <1>3, <2>1
  <2>3. \A e \in cloud : e[2] = 0
    BY <1>4, <2>2
  <2>4. D.init \in D.live /\ D.next[D.init][byte] \in D.live
    BY <1>1, <1>2, <2>1
  <2>5. cloud # {}
    BY <1>5, <2>4
  <2>6. QED
    BY <2>3, <2>5, SharedIsVerdict
<1>7. ASSUME Verdict(cloud) # BeforeWindow PROVE byte \in SplitPoints(D, {})
  <2>1. PICK e \in cloud : TRUE
    BY <1>7, VerdictOfNone
  <2>2. \A f \in cloud : f[2] = e[2] /\ e[2] # BeforeWindow
    BY <1>7, VerdictIsShared
  <2>3. \A s \in D.live : D.next[s][byte] \in D.live => Begins(D, s)
    BY <1>5, <2>2
  <2>4. D.next[D.init][byte] \in D.live
    BY <1>4, <2>1, <2>3 DEF Begins
  <2>5. \A s \in Reachable(D) \ Exempt(D) : D.next[s][byte] \notin CoAccessible(D)
    BY <1>2, <1>3, <2>3
  <2>6. QED
    BY <1>1, <2>4, <2>5, SplitPointsExact
<1>8. QED
  BY <1>1, <1>6, <1>7 DEF cloud

----------------------------------------------------------------------------
(* A cloud as the outcome of a window.                                     *)
Cloud(D, window) == CloudAt(D, window)[Len(window)]

LEMMA CloudOfPrefix ==
  ASSUME NEW D, NEW window \in Seq(Symbols), NEW k \in 0 .. Len(window)
  PROVE  \A n \in 0 .. k :
           CloudAt(D, SubSeq(window, 1, k))[n] = CloudAt(D, window)[n]
<1> DEFINE prefix == SubSeq(window, 1, k)
           inner == CloudAt(D, prefix)
           outer == CloudAt(D, window)
           S == { n \in 0 .. k : inner[n] = outer[n] }
<1>1. /\ prefix \in Seq(Symbols) /\ Len(prefix) = k /\ k \in Nat
      /\ \A n \in 1 .. k : prefix[n] = window[n] /\ n \in 1 .. Len(window)
  OBVIOUS
<1>2. /\ inner[0] = InitialCloud(D)
      /\ \A n \in 1 .. k : inner[n] = Advance(D, inner[n - 1], prefix[n], n - 1)
  <2> HIDE DEF prefix
  <2> QED
    BY <1>1, CloudAtSteps
<1>3. /\ outer[0] = InitialCloud(D)
      /\ \A n \in 1 .. k : outer[n] = Advance(D, outer[n - 1], window[n], n - 1)
  BY <1>1, CloudAtSteps
<1> HIDE DEF prefix, inner, outer
<1>4. 0 \in S
  BY <1>1, <1>2, <1>3
<1>5. ASSUME NEW n \in 0 .. k - 1, n \in S PROVE n + 1 \in S
  <2>1. n + 1 \in 0 .. k /\ n + 1 \in 1 .. k /\ (n + 1) - 1 = n
    BY <1>1
  <2>2. /\ inner[n + 1] = Advance(D, inner[n], prefix[n + 1], n)
        /\ outer[n + 1] = Advance(D, outer[n], window[n + 1], n)
    BY <1>2, <1>3, <2>1
  <2>3. QED
    BY <1>1, <1>5, <2>1, <2>2
<1> HIDE DEF S
<1>6. 0 .. k \subseteq S
  BY <1>1, <1>4, <1>5, UpTo
<1>7. QED
  BY <1>6 DEF S, inner, outer, prefix

LEMMA CloudOfAppend ==
  ASSUME NEW D, NEW window \in Seq(Symbols), NEW byte \in Symbols
  PROVE  Cloud(D, Append(window, byte)) = Advance(D, Cloud(D, window), byte, Len(window))
<1> DEFINE longer == Append(window, byte)
           n == Len(window)
<1>1. /\ longer \in Seq(Symbols) /\ Len(longer) = n + 1 /\ longer[n + 1] = byte
      /\ SubSeq(longer, 1, n) = window /\ n \in Nat
      /\ n + 1 \in 1 .. n + 1 /\ (n + 1) - 1 = n /\ n \in 0 .. n + 1 /\ n \in 0 .. n
  OBVIOUS
<1> HIDE DEF longer, n
<1>2. CloudAt(D, longer)[n + 1] = Advance(D, CloudAt(D, longer)[n], byte, n)
  BY <1>1, CloudAtSteps
<1>3. CloudAt(D, window)[n] = CloudAt(D, longer)[n]
  <2>1. n \in 0 .. Len(longer)
    BY <1>1
  <2>2. CloudAt(D, SubSeq(longer, 1, n))[n] = CloudAt(D, longer)[n]
    BY <1>1, <2>1, CloudOfPrefix
  <2>3. QED
    BY <1>1, <2>2
<1>4. QED
  BY <1>1, <1>2, <1>3 DEF Cloud, longer, n

LEMMA CloudOfNothing ==
  ASSUME NEW D
  PROVE  Cloud(D, << >>) = InitialCloud(D)
<1>1. << >> \in Seq(Symbols) /\ Len(<< >>) = 0
  OBVIOUS
<1>2. QED
  BY <1>1, CloudAtSteps DEF Cloud

(* What is true of the cloud after n bytes: its states are live, an origin *)
(* in the window is one of the bytes read, of one origin there is only one *)
(* hypothesis, and none is about to begin a token in the initial state.    *)
Sound(D, cloud, n) ==
  /\ \A h \in cloud : /\ h = <<h[1], h[2]>>
                      /\ h[1] \in D.live
                      /\ h[2] \in 0 .. n - 1 \/ h[2] = BeforeWindow
  /\ \A g, h \in cloud : g[2] = h[2] /\ g[2] # BeforeWindow => g[1] = h[1]
  /\ n > 0 => \A h \in cloud : ~ Begins(D, h[1])

(* One byte, hypothesis by hypothesis.                                     *)
LEMMA AdvanceElements ==
  ASSUME NEW D, NEW cloud, NEW byte, NEW at, NEW e
  PROVE  e \in Advance(D, cloud, byte, at) <=>
           \E h \in cloud :
             \/ /\ D.next[h[1]][byte] \in D.live
                /\ e = <<D.next[h[1]][byte], IF Begins(D, h[1]) THEN at ELSE h[2]>>
             \/ /\ Accepting(D, h[1]) /\ D.next[D.init][byte] \in D.live
                /\ e = <<D.next[D.init][byte], at>>
  BY DEF Advance, Stepped, Fresh, LiveStep

LEMMA LeavesInit ==
  ASSUME NEW D, IsSimulator(D), NEW s \in D.live \cup {D.init}, NEW byte \in Symbols
  PROVE  ~ Begins(D, D.next[s][byte])
<1>1. s \in Reachable(D)
  BY LiveStates, ReachableClosed DEF IsSimulator
<1>2. QED
  BY <1>1 DEF Begins, IsSimulator, InitReentrant

LEMMA AdvanceSound ==
  ASSUME NEW D, IsSimulator(D), NEW cloud, NEW byte \in Symbols, NEW n \in Nat,
         Sound(D, cloud, n)
  PROVE  Sound(D, Advance(D, cloud, byte, n), n + 1)
<1> DEFINE next == Advance(D, cloud, byte, n)
<1>1. \A e \in next :
        \E h \in cloud :
          \/ /\ D.next[h[1]][byte] \in D.live /\ ~ Begins(D, h[1])
             /\ e = <<D.next[h[1]][byte], h[2]>>
          \/ /\ D.next[D.init][byte] \in D.live
             /\ e = <<D.next[D.init][byte], n>>
  <2> TAKE e \in next
  <2>1. PICK h \in cloud :
             \/ /\ D.next[h[1]][byte] \in D.live
                /\ e = <<D.next[h[1]][byte], IF Begins(D, h[1]) THEN n ELSE h[2]>>
             \/ /\ Accepting(D, h[1]) /\ D.next[D.init][byte] \in D.live
                /\ e = <<D.next[D.init][byte], n>>
    BY AdvanceElements
  <2>2. Begins(D, h[1]) => h[1] = D.init
    BY DEF Begins
  <2>3. QED
    BY <2>1, <2>2
<1>2. n \notin 0 .. n - 1 /\ n # BeforeWindow /\ 0 .. n - 1 \subseteq 0 .. (n + 1) - 1
      /\ n \in 0 .. (n + 1) - 1 /\ BeforeWindow \notin 0 .. n - 1
  BY WindowAssumption
<1> HIDE DEF next
<1>3. \A e \in next : /\ e = <<e[1], e[2]>>
                      /\ e[1] \in D.live
                      /\ e[2] \in 0 .. (n + 1) - 1 \/ e[2] = BeforeWindow
  <2> TAKE e \in next
  <2>1. PICK h \in cloud :
          \/ /\ D.next[h[1]][byte] \in D.live /\ ~ Begins(D, h[1])
             /\ e = <<D.next[h[1]][byte], h[2]>>
          \/ /\ D.next[D.init][byte] \in D.live
             /\ e = <<D.next[D.init][byte], n>>
    BY <1>1
  <2>2. h[2] \in 0 .. n - 1 \/ h[2] = BeforeWindow
    BY DEF Sound
  <2>3. QED
    BY <1>2, <2>1, <2>2
<1>4. \A e, f \in next : e[2] = f[2] /\ e[2] # BeforeWindow => e[1] = f[1]
  <2> TAKE e, f \in next
  <2>1. PICK h \in cloud :
          \/ /\ D.next[h[1]][byte] \in D.live /\ ~ Begins(D, h[1])
             /\ e = <<D.next[h[1]][byte], h[2]>>
          \/ /\ D.next[D.init][byte] \in D.live
             /\ e = <<D.next[D.init][byte], n>>
    BY <1>1
  <2>2. PICK g \in cloud :
          \/ /\ D.next[g[1]][byte] \in D.live /\ ~ Begins(D, g[1])
             /\ f = <<D.next[g[1]][byte], g[2]>>
          \/ /\ D.next[D.init][byte] \in D.live
             /\ f = <<D.next[D.init][byte], n>>
    BY <1>1
  <2>3. /\ h[2] \in 0 .. n - 1 \/ h[2] = BeforeWindow
        /\ g[2] \in 0 .. n - 1 \/ g[2] = BeforeWindow
        /\ h[2] = g[2] /\ h[2] # BeforeWindow => h[1] = g[1]
    BY DEF Sound
  <2>4. QED
    BY <1>2, <2>1, <2>2, <2>3
<1>5. \A e \in next : ~ Begins(D, e[1])
  <2> TAKE e \in next
  <2>1. PICK h \in cloud :
          \/ /\ D.next[h[1]][byte] \in D.live /\ ~ Begins(D, h[1])
             /\ e = <<D.next[h[1]][byte], h[2]>>
          \/ /\ D.next[D.init][byte] \in D.live
             /\ e = <<D.next[D.init][byte], n>>
    BY <1>1
  <2>2. h[1] \in D.live
    BY DEF Sound
  <2>3. QED
    BY <2>1, <2>2, LeavesInit
<1>6. QED
  BY <1>3, <1>4, <1>5 DEF Sound, next

LEMMA CloudSound ==
  ASSUME NEW D, IsSimulator(D), NEW window \in Seq(Symbols)
  PROVE  \A n \in 0 .. Len(window) : Sound(D, CloudAt(D, window)[n], n)
<1> DEFINE cloudAt == CloudAt(D, window)
           N == Len(window)
           S == { n \in 0 .. N : Sound(D, cloudAt[n], n) }
<1>0. N \in Nat
  OBVIOUS
<1>1. /\ cloudAt[0] = InitialCloud(D)
      /\ \A n \in 1 .. N : cloudAt[n] = Advance(D, cloudAt[n - 1], window[n], n - 1)
  BY CloudAtSteps
<1>2. \A n \in 1 .. N : window[n] \in Symbols
  OBVIOUS
<1>3. Sound(D, InitialCloud(D), 0)
  BY DEF InitialCloud, Sound
<1> HIDE DEF cloudAt, N
<1>4. 0 \in S
  BY <1>0, <1>1, <1>3
<1>5. ASSUME NEW n \in 0 .. N - 1, n \in S PROVE n + 1 \in S
  <2>1. n + 1 \in 0 .. N /\ n + 1 \in 1 .. N /\ (n + 1) - 1 = n /\ n \in Nat
    BY <1>0
  <2>2. cloudAt[n + 1] = Advance(D, cloudAt[n], window[n + 1], n)
    BY <1>1, <2>1
  <2>3. Sound(D, cloudAt[n], n) /\ window[n + 1] \in Symbols
    BY <1>2, <1>5, <2>1
  <2>4. Sound(D, Advance(D, cloudAt[n], window[n + 1], n), n + 1)
    BY <2>1, <2>3, AdvanceSound
  <2>5. QED
    BY <2>1, <2>2, <2>4
<1> HIDE DEF S
<1>6. 0 .. N \subseteq S
  BY <1>0, <1>4, <1>5, UpTo
<1>7. QED
  BY <1>6 DEF S, N, cloudAt

(* The hypothesis of an origin shares its state with no other.             *)
Lone(cloud, o) ==
  /\ \E h \in cloud : h[2] = o
  /\ \A g, h \in cloud : g[2] = o => (h[2] = o <=> h[1] = g[1])

(* Hypotheses that share a state never separate again.                     *)
LEMMA LoneBefore ==
  ASSUME NEW D, IsSimulator(D), NEW cloud, NEW byte \in Symbols, NEW n \in Nat,
         Sound(D, cloud, n), NEW o \in 0 .. n - 1,
         Lone(Advance(D, cloud, byte, n), o)
  PROVE  Lone(cloud, o)
<1> DEFINE next == Advance(D, cloud, byte, n)
<1>1. \A h \in cloud : ~ Begins(D, h[1]) /\ h = <<h[1], h[2]>>
  BY DEF Sound
<1>2. \A h \in cloud : D.next[h[1]][byte] \in D.live =>
        <<D.next[h[1]][byte], h[2]>> \in next
  BY <1>1, AdvanceElements
<1>3. o # n /\ o # BeforeWindow
  BY WindowAssumption
<1>4. PICK e \in next : e[2] = o
  BY DEF Lone
<1>5. PICK h \in cloud : D.next[h[1]][byte] \in D.live /\ e = <<D.next[h[1]][byte], h[2]>>
  BY <1>1, <1>3, <1>4, AdvanceElements
<1>6. h[2] = o
  BY <1>4, <1>5
<1>7. ASSUME NEW g \in cloud, g[2] = o PROVE g[1] = h[1]
  BY <1>3, <1>6, <1>7 DEF Sound
<1>8. ASSUME NEW g \in cloud, g[1] = h[1] PROVE g[2] = o
  <2>1. <<D.next[h[1]][byte], g[2]>> \in next
    BY <1>2, <1>5, <1>8
  <2>2. \A f \in next : f[2] = o <=> f[1] = e[1]
    BY <1>4 DEF Lone
  <2>3. <<D.next[h[1]][byte], g[2]>>[2] = o
    BY <1>5, <2>1, <2>2
  <2>4. QED
    BY <2>3
<1>9. QED
  BY <1>6, <1>7, <1>8 DEF Lone

(* A certified window has one origin, and the hypothesis of that origin is *)
(* alone from the byte it begins at.                                       *)
LEMMA CertifiedIsLone ==
  ASSUME NEW D, IsSimulator(D), NEW window \in Seq(Symbols),
         SplitOrigin(D, window) # BeforeWindow
  PROVE  /\ SplitOrigin(D, window) \in 0 .. Len(window) - 1
         /\ \A h \in Cloud(D, window) : h[2] = SplitOrigin(D, window)
         /\ \A n \in SplitOrigin(D, window) + 1 .. Len(window) :
              Lone(CloudAt(D, window)[n], SplitOrigin(D, window))
<1> DEFINE cloudAt == CloudAt(D, window)
           N == Len(window)
           o == SplitOrigin(D, window)
           cloud == Cloud(D, window)
<1>1. /\ N \in Nat /\ N \in 0 .. N
      /\ o = Verdict(cloud) /\ cloud = cloudAt[N]
  BY SplitOriginIsVerdict DEF Cloud
<1>2. \A h \in cloud : h[2] = o
  BY <1>1, VerdictIsShared
<1>3. cloud # {}
  BY <1>1, VerdictOfNone
<1>4. \A n \in 0 .. N : Sound(D, cloudAt[n], n)
  BY CloudSound
<1>5. o \in 0 .. N - 1
  <2>1. PICK h \in cloud : TRUE
    BY <1>3
  <2>2. h[2] \in 0 .. N - 1 \/ h[2] = BeforeWindow
    BY <1>1, <1>4 DEF Sound
  <2>3. QED
    BY <1>2, <2>2
<1>6. Lone(cloud, o)
  <2>1. Sound(D, cloud, N)
    BY <1>1, <1>4
  <2>2. \A g, h \in cloud : g[1] = h[1]
    <3> HIDE DEF cloud, o
    <3> QED
      BY <1>2, <2>1 DEF Sound, o
  <2>3. QED
    BY <1>2, <1>3, <2>2 DEF Lone
<1>7. /\ \A n \in 1 .. N : cloudAt[n] = Advance(D, cloudAt[n - 1], window[n], n - 1)
      /\ \A n \in 1 .. N : window[n] \in Symbols
  BY CloudAtSteps
<1> HIDE DEF cloudAt, N, o, cloud
<1> DEFINE M == N - (o + 1)
           S == { k \in 0 .. M : Lone(cloudAt[N - k], o) }
<1>8. M \in Nat /\ N - M = o + 1 /\ N - 0 = N
  BY <1>1, <1>5
<1> HIDE DEF M
<1>9. 0 \in S
  BY <1>1, <1>6, <1>8
<1>10. ASSUME NEW k \in 0 .. M - 1, k \in S PROVE k + 1 \in S
  <2>1. /\ k + 1 \in 0 .. M /\ N - k \in 1 .. N /\ (N - k) - 1 = N - (k + 1)
        /\ N - (k + 1) \in 0 .. N /\ N - (k + 1) \in Nat
        /\ o \in 0 .. (N - (k + 1)) - 1
    BY <1>1, <1>5, <1>8
  <2>2. cloudAt[N - k] = Advance(D, cloudAt[N - (k + 1)], window[N - k], N - (k + 1))
    BY <1>7, <2>1
  <2>3. Lone(Advance(D, cloudAt[N - (k + 1)], window[N - k], N - (k + 1)), o)
    BY <1>10, <2>2
  <2>4. Sound(D, cloudAt[N - (k + 1)], N - (k + 1)) /\ window[N - k] \in Symbols
    BY <1>4, <1>7, <2>1
  <2>5. Lone(cloudAt[N - (k + 1)], o)
    BY <2>1, <2>3, <2>4, LoneBefore
  <2>6. QED
    BY <2>1, <2>5
<1> HIDE DEF S
<1>11. 0 .. M \subseteq S
  BY <1>8, <1>9, <1>10, UpTo
<1>12. ASSUME NEW n \in o + 1 .. N PROVE Lone(cloudAt[n], o)
  <2>1. N - n \in 0 .. M /\ N - (N - n) = n
    BY <1>1, <1>5, <1>8
  <2>2. QED
    BY <1>11, <2>1 DEF S
<1>13. QED
  BY <1>2, <1>5, <1>12 DEF cloudAt, N, o, cloud

----------------------------------------------------------------------------
(* What the certificates license: where a token begins in every completely *)
(* tokenizable input that holds the window, or the byte.                   *)
LEMMA CertifiedOriginIsInside ==
  ASSUME NEW D, IsSimulator(D), NEW w \in Seq(Symbols),
         NEW at \in Nat, NEW n \in Int, at + n <= Len(w),
         SplitOrigin(D, SubSeq(w, at + 1, at + n)) # BeforeWindow
  PROVE  n >= 1 /\ SplitOrigin(D, SubSeq(w, at + 1, at + n)) \in 0 .. n - 1
<1> DEFINE window == SubSeq(w, at + 1, at + n)
<1>1. window \in Seq(Symbols) /\ Len(window) = IF n < 1 THEN 0 ELSE n
  OBVIOUS
<1>2. SplitOrigin(D, window) \in 0 .. Len(window) - 1
  BY <1>1, CertifiedIsLone
<1>3. QED
  BY <1>1, <1>2

LEMMA CertifiedWindowBegins ==
  ASSUME NEW D, IsSimulator(D), NEW w \in Seq(Symbols), Serial(D, w).consumed = Len(w),
         NEW at \in Nat, NEW n \in Int, at + n <= Len(w),
         SplitOrigin(D, SubSeq(w, at + 1, at + n)) # BeforeWindow
  PROVE  \E j \in 1 .. Len(Serial(D, w).stream) :
           Serial(D, w).stream[j].begin = at + SplitOrigin(D, SubSeq(w, at + 1, at + n))
<1> DEFINE origin == SplitOrigin(D, SubSeq(w, at + 1, at + n))
<1>1. n >= 1 /\ origin \in 0 .. n - 1
  BY CertifiedOriginIsInside
<1>2. at \in 0 .. Len(w) /\ n \in 1 .. Len(w) - at /\ at + n - 1 \in 0 .. Len(w) - 1
  BY <1>1
<1>3. at + origin = CoveringAt(D, w, at + n - 1)
  BY <1>2, CertifiedOrigin
<1>4. PICK t \in TokensFrom(D, w, 0) : t.begin = at + origin
  BY <1>2, <1>3, CoveringIsToken DEF IsSimulator
<1>5. QED
  BY <1>4 DEF TokensFrom, Serial

LEMMA CertifiedByteBegins ==
  ASSUME NEW D, IsSimulator(D), NEW w \in Seq(Symbols), Serial(D, w).consumed = Len(w),
         NEW at \in 0 .. Len(w) - 1, w[at + 1] \in SplitPoints(D, {})
  PROVE  \E j \in 1 .. Len(Serial(D, w).stream) : Serial(D, w).stream[j].begin = at
<1> DEFINE window == SubSeq(w, at + 1, at + 1)
<1>1. window \in Seq(Symbols) /\ Len(window) = 1 /\ window[1] = w[at + 1]
  OBVIOUS
<1> HIDE DEF window
<1>2. CloudAt(D, window)[1] = Advance(D, InitialCloud(D), window[1], 0)
  <2>1. 1 \in 1 .. Len(window) /\ 1 - 1 = 0
    BY <1>1
  <2>2. \A n \in 1 .. Len(window) :
          CloudAt(D, window)[n] = Advance(D, CloudAt(D, window)[n - 1], window[n], n - 1)
    BY <1>1, CloudAtSteps, Zenon
  <2>3. CloudAt(D, window)[0] = InitialCloud(D)
    BY <1>1, CloudAtSteps, Zenon
  <2>4. QED
    BY <2>1, <2>2, <2>3
<1>3. SplitOrigin(D, window) = Verdict(Advance(D, InitialCloud(D), w[at + 1], 0))
  BY <1>1, <1>2, SplitOriginIsVerdict
<1>4. SplitOrigin(D, window) # BeforeWindow /\ SplitOrigin(D, window) = 0
  BY <1>3, SingleByte
<1>5. QED
  BY <1>4, CertifiedWindowBegins DEF window

----------------------------------------------------------------------------
(* What a caller that discards tokens observes: the states that no input   *)
(* tells apart, by the rounds of Moore's refinement.                       *)
Nodes(D) == States(D) \cup {NoState}

(* The pairs of a relation that still are in it after any byte.            *)
Refined(D, R) ==
  { p \in R : \A a \in Symbols : <<NextState(D, p[1], a), NextState(D, p[2], a)>> \in R }

LEMMA ObservedSteps ==
  ASSUME NEW D, D.count \in Nat, NEW discarded
  PROVE  \E f : /\ f[0] = ObservedClassesUnrefined(D, discarded)
                /\ \A n \in 1 .. D.count : f[n] = Refined(D, f[n - 1])
                /\ ObservedClasses(D, discarded) = f[D.count]
<1> DEFINE N == D.count
           First == ObservedClassesUnrefined(D, discarded)
           Step(R) == Refined(D, R)
           Is(f, k) == f = [ n \in 0 .. k |-> IF n = 0 THEN First ELSE Step(f[n - 1]) ]
           S == { k \in 0 .. N : \E f : Is(f, k) }
<1>0. N \in Nat
  OBVIOUS
<1>1. 0 \in S
  <2>1. Is([n \in 0 .. 0 |-> First], 0)
    OBVIOUS
  <2> HIDE DEF Is
  <2>2. QED
    BY <1>0, <2>1
<1>2. ASSUME NEW k \in 0 .. N - 1, k \in S PROVE k + 1 \in S
  <2>0. k + 1 \in 0 .. N /\ k \in Nat
    BY <1>0
  <2>1. PICK f : Is(f, k)
    BY <1>2
  <2> DEFINE g == [ n \in 0 .. k + 1 |-> IF n = k + 1 THEN Step(f[k]) ELSE f[n] ]
  <2>2. \A n \in 0 .. k : g[n] = f[n]
    BY <2>0
  <2>3. ASSUME NEW n \in 0 .. k + 1
        PROVE  g[n] = IF n = 0 THEN First ELSE Step(g[n - 1])
    <3>1. CASE n = k + 1
      <4>1. g[n] = Step(f[k]) /\ n # 0 /\ g[n - 1] = f[k]
        BY <3>1, <2>0, <2>2
      <4> HIDE DEF g
      <4> QED
        BY <4>1, <3>1
    <3>2. CASE n \in 0 .. k
      <4>1. g[n] = f[n] /\ (n # 0 => n - 1 \in 0 .. k /\ g[n - 1] = f[n - 1])
        BY <3>2, <2>2, <2>0
      <4>2. f[n] = IF n = 0 THEN First ELSE Step(f[n - 1])
        <5> HIDE DEF First, Step
        <5> QED
          BY <2>1, <3>2
      <4> HIDE DEF g, First, Step
      <4> QED
        BY <4>1, <4>2
    <3>3. QED
      BY <3>1, <3>2, <2>0
  <2>4. g = [ n \in 0 .. k + 1 |-> g[n] ]
    OBVIOUS
  <2> HIDE DEF g
  <2>5. Is(g, k + 1)
    BY <2>3, <2>4
  <2> HIDE DEF Is
  <2>6. \E h : Is(h, k + 1)
    BY <2>5
  <2>7. QED
    BY <2>6, <2>0
<1> HIDE DEF S
<1>3. N \in S
  <2> HIDE DEF N
  <2>1. 0 .. N \subseteq S
    BY <1>0, <1>1, <1>2, UpTo
  <2>2. QED
    BY <1>0, <2>1
<1>4. \E f : Is(f, N)
  BY <1>3 DEF S
<1> DEFINE alike == CHOOSE f : Is(f, N)
<1>5. ObservedClasses(D, discarded) = alike[N]
  BY DEF ObservedClasses, ObservedClassesUnrefined, Refined, NextState
<1>6. Is(alike, N)
  <2> HIDE DEF Is
  <2> QED
    BY <1>4
<1>7. ASSUME NEW f, Is(f, N)
      PROVE  f[0] = First /\ \A n \in 1 .. N : f[n] = Step(f[n - 1])
  <2> HIDE DEF N, First, Step
  <2> QED
    BY <1>0, <1>7
<1>8. QED
  <2> HIDE DEF Is, alike
  <2> QED
    BY <1>5, <1>6, <1>7

(* A refined equivalence is one, and it has one more least member of a     *)
(* class for every class that is split.  The sink is the least of all.     *)
IsEquivalence(R, nodes) ==
  /\ R \subseteq nodes \X nodes
  /\ \A s \in nodes : <<s, s>> \in R
  /\ \A s, t \in nodes : <<s, t>> \in R => <<t, s>> \in R
  /\ \A s, t, u \in nodes : <<s, t>> \in R /\ <<t, u>> \in R => <<s, u>> \in R

Leasts(D, R) ==
  { s \in States(D) : \A r \in Nodes(D) : <<r, s>> \in R => r # NoState /\ s <= r }

LEMMA UnrefinedIsEquivalence ==
  ASSUME NEW D, NEW discarded
  PROVE  IsEquivalence(ObservedClassesUnrefined(D, discarded), Nodes(D))
<1> DEFINE colour(s) == ObservedColour(D, discarded, s)
           R == ObservedClassesUnrefined(D, discarded)
<1>1. R = { p \in Nodes(D) \X Nodes(D) : colour(p[1]) = colour(p[2]) }
  BY DEF ObservedClassesUnrefined, Nodes
<1> HIDE DEF colour, R
<1>2. R \subseteq Nodes(D) \X Nodes(D)
  BY <1>1
<1>3. \A s, t \in Nodes(D) : <<s, t>> \in R <=> colour(s) = colour(t)
  BY <1>1
<1>4. QED
  BY <1>2, <1>3 DEF IsEquivalence, R

LEMMA RefinedIsEquivalence ==
  ASSUME NEW D, IsDfa(D), NEW R, IsEquivalence(R, Nodes(D))
  PROVE  IsEquivalence(Refined(D, R), Nodes(D)) /\ Refined(D, R) \subseteq R
<1> DEFINE step(s, a) == NextState(D, s, a)
           Q == Refined(D, R)
<1>1. \A s \in Nodes(D), a \in Symbols : step(s, a) \in Nodes(D)
  BY DEF Nodes, NextState, IsDfa
<1>2. \A s, t : <<s, t>> \in Q <=> <<s, t>> \in R /\ \A a \in Symbols : <<step(s, a), step(t, a)>> \in R
  BY DEF Refined
<1>3. Q \subseteq R
  BY DEF Refined
<1> HIDE DEF step, Q
<1>4. Q \subseteq Nodes(D) \X Nodes(D)
  BY <1>3 DEF IsEquivalence
<1>5. \A s \in Nodes(D) : <<s, s>> \in Q
  BY <1>1, <1>2 DEF IsEquivalence
<1>6. \A s, t \in Nodes(D) : <<s, t>> \in Q => <<t, s>> \in Q
  BY <1>1, <1>2 DEF IsEquivalence
<1>7. ASSUME NEW s \in Nodes(D), NEW t \in Nodes(D), NEW u \in Nodes(D),
             <<s, t>> \in Q, <<t, u>> \in Q
      PROVE  <<s, u>> \in Q
  <2>1. <<s, u>> \in R
    BY <1>2, <1>7 DEF IsEquivalence
  <2>2. ASSUME NEW a \in Symbols PROVE <<step(s, a), step(u, a)>> \in R
    <3>1. <<step(s, a), step(t, a)>> \in R /\ <<step(t, a), step(u, a)>> \in R
      BY <1>2, <1>7
    <3>2. step(s, a) \in Nodes(D) /\ step(t, a) \in Nodes(D) /\ step(u, a) \in Nodes(D)
      BY <1>1
    <3>3. QED
      BY <3>1, <3>2 DEF IsEquivalence
  <2>3. QED
    BY <1>2, <2>1, <2>2
<1>8. QED
  BY <1>3, <1>4, <1>5, <1>6, <1>7 DEF IsEquivalence, Q

LEMMA LeastOfClass ==
  ASSUME NEW D, IsDfa(D), NEW R, IsEquivalence(R, Nodes(D)), NEW s \in Nodes(D)
  PROVE  <<NoState, s>> \in R \/ \E t \in Leasts(D, R) : <<t, s>> \in R
<1> SUFFICES ASSUME <<NoState, s>> \notin R PROVE \E t \in Leasts(D, R) : <<t, s>> \in R
  OBVIOUS
<1> DEFINE class == { t \in States(D) : <<t, s>> \in R }
<1>1. s \in class
  BY DEF IsEquivalence, Nodes
<1>2. class \in SUBSET Nat /\ class # {}
  <2>1. States(D) \subseteq Nat
    BY DEF States, IsDfa
  <2>2. QED
    BY <1>1, <2>1
<1>3. PICK t \in class : \A r \in class : t <= r
  <2> HIDE DEF class
  <2> QED
    BY <1>2, LeastNatural
<1>4. t \in States(D) /\ t \in Nodes(D) /\ <<t, s>> \in R /\ NoState \in Nodes(D)
  BY <1>3 DEF Nodes
<1>5. ASSUME NEW r \in Nodes(D), <<r, t>> \in R PROVE r # NoState /\ t <= r
  <2>1. <<r, s>> \in R
    BY <1>4, <1>5 DEF IsEquivalence
  <2>2. r # NoState
    BY <2>1
  <2>3. r \in class
    BY <2>1, <2>2 DEF Nodes
  <2>4. QED
    BY <1>3, <2>2, <2>3
<1>6. t \in Leasts(D, R)
  BY <1>4, <1>5 DEF Leasts
<1>7. QED
  BY <1>4, <1>6

LEMMA LeastsTellClasses ==
  ASSUME NEW D, IsDfa(D),
         NEW R, IsEquivalence(R, Nodes(D)), NEW Q, IsEquivalence(Q, Nodes(D)), Q \subseteq R
  PROVE  /\ Leasts(D, R) \subseteq Leasts(D, Q)
         /\ Leasts(D, Q) = Leasts(D, R) => Q = R
<1>1. Leasts(D, R) \subseteq Leasts(D, Q)
  BY DEF Leasts
<1>2. ASSUME Leasts(D, Q) = Leasts(D, R), NEW s \in Nodes(D), NEW t \in Nodes(D), <<s, t>> \in R
      PROVE  <<s, t>> \in Q
  <2>0. NoState \in Nodes(D) /\ \A u \in States(D) : u \in Nodes(D) /\ u \in Nat
    BY DEF Nodes, States, IsDfa
  <2>1. CASE <<NoState, s>> \in Q
    <3>1. <<NoState, t>> \in R
      BY <1>2, <2>0, <2>1 DEF IsEquivalence
    <3>2. <<NoState, t>> \in Q
      <4>1. SUFFICES ASSUME NEW u \in Leasts(D, Q), <<u, t>> \in Q PROVE FALSE
        BY LeastOfClass
      <4>2. u \in States(D) /\ u \in Leasts(D, R) /\ <<u, t>> \in R
        BY <1>2, <4>1 DEF Leasts
      <4>3. <<NoState, u>> \in R
        BY <2>0, <3>1, <4>2 DEF IsEquivalence
      <4>4. QED
        BY <2>0, <4>2, <4>3 DEF Leasts
    <3>3. QED
      BY <2>0, <2>1, <3>2 DEF IsEquivalence
  <2>2. CASE <<NoState, s>> \notin Q
    <3>1. PICK u \in Leasts(D, Q) : <<u, s>> \in Q
      BY <2>2, LeastOfClass
    <3>2. u \in States(D) /\ u \in Leasts(D, R) /\ <<u, s>> \in R /\ u \in Nodes(D)
      BY <1>2, <2>0, <3>1 DEF Leasts
    <3>3. <<u, t>> \in R /\ <<t, u>> \in R
      BY <1>2, <3>2 DEF IsEquivalence
    <3>4. <<NoState, t>> \notin Q
      <4>1. SUFFICES ASSUME <<NoState, t>> \in R PROVE FALSE
        OBVIOUS
      <4>2. <<NoState, u>> \in R
        BY <2>0, <3>2, <3>3, <4>1 DEF IsEquivalence
      <4>3. QED
        BY <2>0, <3>2, <4>2 DEF Leasts
    <3>5. PICK v \in Leasts(D, Q) : <<v, t>> \in Q
      BY <3>4, LeastOfClass
    <3>6. v \in States(D) /\ v \in Leasts(D, R) /\ <<v, t>> \in R /\ v \in Nodes(D)
      BY <1>2, <2>0, <3>5 DEF Leasts
    <3>7. <<u, v>> \in R /\ <<v, u>> \in R
      BY <3>2, <3>3, <3>6 DEF IsEquivalence
    <3>8. u <= v /\ v <= u
      BY <3>2, <3>6, <3>7 DEF Leasts
    <3>9. u = v
      BY <2>0, <3>2, <3>6, <3>8
    <3>10. QED
      BY <3>1, <3>2, <3>5, <3>9 DEF IsEquivalence
  <2>3. QED
    BY <2>1, <2>2
<1>3. ASSUME Leasts(D, Q) = Leasts(D, R) PROVE R \subseteq Q
  <2>1. SUFFICES ASSUME NEW p \in R PROVE p \in Q
    OBVIOUS
  <2>2. PICK s \in Nodes(D), t \in Nodes(D) : p = <<s, t>>
    BY DEF IsEquivalence
  <2>3. QED
    BY <1>2, <1>3, <2>2
<1>4. QED
  BY <1>1, <1>3

(* As many rounds as there are states refine as far as any number would:   *)
(* every round that splits a class has one least member more.              *)
LEMMA ObservedIsStable ==
  ASSUME NEW D, IsDfa(D), NEW discarded
  PROVE  LET E == ObservedClasses(D, discarded)
         IN /\ E \subseteq ObservedClassesUnrefined(D, discarded)
            /\ Refined(D, E) = E
<1> DEFINE N == D.count
           First == ObservedClassesUnrefined(D, discarded)
           X == States(D)
<1>1. PICK f : /\ f[0] = First
               /\ \A n \in 1 .. N : f[n] = Refined(D, f[n - 1])
               /\ ObservedClasses(D, discarded) = f[N]
  BY ObservedSteps DEF IsDfa
<1>0. N \in Nat \ {0}
  BY DEF IsDfa
<1> DEFINE g == [ n \in 0 .. N + 1 |-> IF n = N + 1 THEN Refined(D, f[N]) ELSE f[n] ]
<1>2. /\ g[0] = First /\ ObservedClasses(D, discarded) = g[N]
      /\ \A n \in 0 .. N : g[n + 1] = Refined(D, g[n])
  <2>1. \A n \in 0 .. N : g[n] = f[n]
    BY <1>0
  <2>2. g[N + 1] = Refined(D, f[N])
    BY <1>0
  <2> HIDE DEF g
  <2>3. ASSUME NEW n \in 0 .. N PROVE g[n + 1] = Refined(D, g[n])
    <3>1. CASE n = N
      BY <2>1, <2>2, <3>1
    <3>2. CASE n # N
      <4>1. n + 1 \in 1 .. N /\ n + 1 \in 0 .. N /\ (n + 1) - 1 = n
        BY <1>0, <3>2
      <4>2. g[n + 1] = f[n + 1] /\ f[n + 1] = Refined(D, f[n])
        BY <1>1, <2>1, <4>1
      <4>3. QED
        BY <2>1, <4>2
    <3>3. QED
      BY <3>1, <3>2
  <2>4. QED
    BY <1>0, <1>1, <2>1, <2>3
<1> HIDE DEF g, First, N
<1> DEFINE S == { n \in 0 .. N + 1 : IsEquivalence(g[n], Nodes(D)) /\ g[n] \subseteq First }
<1>3. 0 .. N + 1 \subseteq S
  <2>1. 0 \in S
    BY <1>0, <1>2, UnrefinedIsEquivalence DEF First
  <2>2. ASSUME NEW n \in 0 .. (N + 1) - 1, n \in S PROVE n + 1 \in S
    <3>1. n \in 0 .. N /\ n + 1 \in 0 .. N + 1
      BY <1>0
    <3>2. IsEquivalence(g[n], Nodes(D)) /\ g[n] \subseteq First
      BY <2>2
    <3>3. IsEquivalence(g[n + 1], Nodes(D)) /\ g[n + 1] \subseteq First
      BY <1>2, <3>1, <3>2, RefinedIsEquivalence
    <3>4. QED
      BY <3>1, <3>3
  <2>3. N + 1 \in Nat
    BY <1>0
  <2> HIDE DEF S
  <2>4. QED
    BY <2>1, <2>2, <2>3, UpTo
<1>4. \A n \in 0 .. N + 1 : IsEquivalence(g[n], Nodes(D)) /\ g[n] \subseteq First
  BY <1>3
<1> HIDE DEF S
<1> DEFINE leasts == [ n \in 0 .. N + 1 |-> Leasts(D, g[n]) ]
<1>5. ASSUME NEW n \in 0 .. N
      PROVE  /\ leasts[n] = Leasts(D, g[n]) /\ leasts[n + 1] = Leasts(D, g[n + 1])
             /\ leasts[n] \subseteq leasts[n + 1]
             /\ leasts[n + 1] = leasts[n] => g[n + 1] = g[n]
  <2>1. n \in 0 .. N + 1 /\ n + 1 \in 0 .. N + 1
    BY <1>0
  <2>2. leasts[n] = Leasts(D, g[n]) /\ leasts[n + 1] = Leasts(D, g[n + 1])
    BY <2>1
  <2>3. g[n + 1] \subseteq g[n]
    BY <1>2, <1>4, <2>1, RefinedIsEquivalence
  <2>4. QED
    BY <1>4, <2>1, <2>2, <2>3, LeastsTellClasses
<1>6. \A n \in 0 .. N + 1 : leasts[n] \subseteq X
  BY DEF Leasts
<1> HIDE DEF leasts
<1>7. IsFiniteSet(X) /\ Cardinality(X) = N
  <2>1. 0 \in Int /\ N - 1 \in Int /\ X = 0 .. N - 1
    BY <1>0 DEF States, N
  <2>2. IsFiniteSet(0 .. N - 1) /\ Cardinality(0 .. N - 1) = IF 0 > N - 1 THEN 0 ELSE (N - 1) - 0 + 1
    BY <2>1, FS_Interval
  <2>3. QED
    BY <1>0, <2>1, <2>2
<1> HIDE DEF X
<1>8. ASSUME NEW n \in 0 .. N - 1, leasts[n + 1] = leasts[n]
      PROVE  leasts[n + 2] = leasts[n + 1]
  <2>1. n \in 0 .. N /\ n + 1 \in 0 .. N /\ (n + 1) + 1 = n + 2
    BY <1>0
  <2>2. g[n + 1] = g[n]
    BY <1>5, <1>8, <2>1
  <2>3. g[n + 2] = Refined(D, g[n + 1]) /\ g[n + 1] = Refined(D, g[n])
    BY <1>2, <2>1
  <2>4. leasts[n + 2] = Leasts(D, g[n + 2]) /\ leasts[n + 1] = Leasts(D, g[n + 1])
    BY <1>5, <2>1
  <2>5. QED
    BY <2>2, <2>3, <2>4
<1>9. leasts[N + 1] = leasts[N]
  <2>1. N \in Nat /\ \A n \in 0 .. N : leasts[n] \subseteq leasts[n + 1]
    BY <1>0, <1>5
  <2>2. QED
    BY <1>6, <1>7, <1>8, <2>1, Settles
<1>10. N \in 0 .. N /\ N \in 0 .. N + 1
  BY <1>0
<1>11. g[N + 1] = g[N] /\ g[N + 1] = Refined(D, g[N])
  BY <1>2, <1>5, <1>9, <1>10
<1>12. QED
  BY <1>2, <1>4, <1>10, <1>11 DEF First

----------------------------------------------------------------------------
(* The certificate for a caller that discards tokens: out of a state that  *)
(* is not the exempt one, and from which the byte may still lead to an     *)
(* accept, it leads to nothing that is kept, and to nothing that such a    *)
(* caller can tell from a scan begun anew at the byte.                     *)
AcceptsKept(D, ignored) ==
  { s \in States(D) : Accepting(D, s) } \ { s \in States(D) : D.accept[s] \in ignored }

LEMMA IgnoringCertificate ==
  ASSUME NEW D, IsDfa(D), NEW ignored
  PROVE  LET sim == Simulator(D, ignored)
             E == ObservedClasses(UnrollStart(D), ignored)
         IN /\ \A p, q : <<p, q>> \in E =>
                 /\ p \in Nodes(sim) /\ q \in Nodes(sim)
                 /\ ObservedColour(sim, ignored, p) = ObservedColour(sim, ignored, q)
                 /\ \A a \in Symbols : <<NextState(sim, p, a), NextState(sim, q, a)>> \in E
            /\ \A a \in sim.split_points_ignoring : \A s \in Reachable(sim) :
                 /\ s = sim.init => InitReentrant(sim)
                 /\ sim.next[s][a] \in CoAccessible(sim)
                 => /\ sim.accept[s] \in ignored
                    /\ sim.next[s][a] \notin ClosedBackward(sim, AcceptsKept(sim, ignored))
                    /\ <<sim.next[s][a], sim.next[sim.init][a]>> \in E
            /\ sim.split_points_ignoring \subseteq Symbols
<1> DEFINE C == UnrollStart(D)
           sim == Simulator(D, ignored)
           E == ObservedClasses(C, ignored)
<1>1. IsDfa(C)
  BY UnrollStartIsDfa
<1>2. sim.split_points_ignoring = SplitPoints(C, ignored)
  BY DEF Simulator
<1>3. SameTables(sim, C)
  BY SimulatorKeepsTables
<1> HIDE DEF C, sim, E
<1>4. /\ States(sim) = States(C) /\ \A s : Accepting(sim, s) <=> Accepting(C, s)
      /\ Reachable(sim) = Reachable(C) /\ CoAccessible(sim) = CoAccessible(C)
      /\ \A seeds : ClosedBackward(sim, seeds) = ClosedBackward(C, seeds)
      /\ InitReentrant(sim) = InitReentrant(C)
      /\ sim.init = C.init /\ sim.next = C.next /\ sim.accept = C.accept
  BY <1>3, SameTablesSameSets DEF SameTables
<1>5. E \subseteq ObservedClassesUnrefined(C, ignored) /\ Refined(C, E) = E
  BY <1>1, ObservedIsStable DEF E
<1>6. ASSUME NEW p, NEW q, <<p, q>> \in E
      PROVE  /\ p \in Nodes(sim) /\ q \in Nodes(sim)
             /\ ObservedColour(sim, ignored, p) = ObservedColour(sim, ignored, q)
             /\ \A a \in Symbols : <<NextState(sim, p, a), NextState(sim, q, a)>> \in E
  <2>1. \A s : ObservedColour(sim, ignored, s) = ObservedColour(C, ignored, s)
    BY <1>4 DEF ObservedColour
  <2>2. <<p, q>> \in ObservedClassesUnrefined(C, ignored)
    BY <1>5, <1>6
  <2>3. /\ p \in Nodes(C) /\ q \in Nodes(C)
        /\ ObservedColour(C, ignored, p) = ObservedColour(C, ignored, q)
    BY <2>2 DEF ObservedClassesUnrefined, Nodes
  <2>4. <<p, q>> \in Refined(C, E)
    BY <1>5, <1>6
  <2>5. \A a \in Symbols : <<NextState(C, p, a), NextState(C, q, a)>> \in E
    BY <2>4 DEF Refined
  <2>6. QED
    BY <1>4, <2>1, <2>3, <2>5 DEF Nodes, NextState
<1>7. ASSUME NEW a \in SplitPoints(C, ignored), NEW s \in Reachable(C),
             s = C.init => InitReentrant(C), C.next[s][a] \in CoAccessible(C)
      PROVE  /\ C.accept[s] \in ignored
             /\ C.next[s][a] \notin ClosedBackward(C, AcceptsKept(C, ignored))
             /\ <<C.next[s][a], C.next[C.init][a]>> \in E
  BY <1>7 DEF SplitPoints, Exempt, AcceptsKept, E
<1>8. AcceptsKept(sim, ignored) = AcceptsKept(C, ignored)
  BY <1>4 DEF AcceptsKept
<1>9. SplitPoints(C, ignored) \subseteq Symbols
  BY DEF SplitPoints
<1>10. QED
  BY <1>2, <1>4, <1>6, <1>7, <1>8, <1>9 DEF C, sim, E

(* A certified byte inside a token: the token is dropped, its front is one *)
(* to be dropped too, and a scan begun anew at the byte meets, byte by     *)
(* byte, what the scan it was cut out of would have met.                   *)
LEMMA SeveredTokenIsDropped ==
  ASSUME NEW D, IsDfa(D), NEW ignored \in SUBSET TokenIds, NEW sim, sim = Simulator(D, ignored),
         NEW w \in Seq(Symbols), NEW b \in 0 .. Len(w), MatchLengths(sim, w, b) # {},
         NEW end \in b + 1 .. AfterTokenAt(sim, w, b) - 1,
         w[end + 1] \in sim.split_points_ignoring
  PROVE  /\ TokenAt(sim, w, b).token \in ignored
         /\ StateAfter(sim, w, b)[end - b] # NoState
         /\ sim.accept[StateAfter(sim, w, b)[end - b]] \in ignored
         /\ \A k \in 1 .. Len(w) - end :
              ObservedColour(sim, ignored, StateAfter(sim, w, b)[end - b + k]) =
                ObservedColour(sim, ignored, StateAfter(sim, w, end)[k])
<1> DEFINE after == StateAfter(sim, w, b)
           anew == StateAfter(sim, w, end)
           n == LongestMatch(sim, w, b)
           j == end - b
           a == w[end + 1]
           s == after[j]
           E == ObservedClasses(UnrollStart(D), ignored)
           kept == AcceptsKept(sim, ignored)
<1>1. IsSimulator(sim) /\ IsDfa(sim)
  BY SimulatorIsOne DEF IsSimulator
<1>2. /\ n \in MatchLengths(sim, w, b) /\ n \in 1 .. Len(w) - b
      /\ AfterTokenAt(sim, w, b) = b + n
  BY LongestMatchIsLongest DEF AfterTokenAt
<1>3. /\ j \in 1 .. n - 1 /\ j + 1 \in 1 .. n /\ end \in 0 .. Len(w) - 1 /\ b + (j + 1) = end + 1
      /\ b + j = end /\ j \in 0 .. n /\ j + 1 \in 0 .. n
  BY <1>2
<1>4. /\ after[0] = sim.init
      /\ \A i \in 1 .. Len(w) - b : after[i] = NextState(sim, after[i - 1], w[b + i])
  BY StateAfterSteps
<1>5. /\ anew[0] = sim.init
      /\ \A i \in 1 .. Len(w) - end : anew[i] = NextState(sim, anew[i - 1], w[end + i])
  <2>1. end \in 0 .. Len(w)
    BY <1>3
  <2>2. QED
    BY <2>1, StateAfterSteps
<1>6. \A i \in 0 .. n : after[i] \in Reachable(sim) \cap CoAccessible(sim) /\ after[i] # NoState
  BY <1>1, TokenStatesLive, LiveStates
<1>7. \A i \in 1 .. Len(w) : w[i] \in Symbols
  OBVIOUS
<1>8. sim.init # NoState /\ NoState \notin States(sim)
  BY <1>1, DfaAssumption DEF IsDfa, States
<1> HIDE DEF after, anew, n, E, kept
<1>9. s = sim.init => InitReentrant(sim)
  <2>1. j \in 1 .. Len(w) - b /\ j - 1 \in 0 .. n /\ j \in 0 .. n /\ b + j \in 1 .. Len(w)
    BY <1>2, <1>3
  <2>2. after[j] = NextState(sim, after[j - 1], w[b + j])
    BY <1>4, <2>1
  <2>3. after[j] = sim.next[after[j - 1]][w[b + j]] /\ after[j - 1] \in Reachable(sim)
    BY <1>6, <2>1, <2>2 DEF NextState
  <2>4. QED
    BY <1>7, <2>1, <2>3 DEF InitReentrant
<1>10. after[j + 1] = sim.next[s][a]
  <2>1. j + 1 \in 1 .. Len(w) - b /\ (j + 1) - 1 = j /\ j \in 0 .. n
    BY <1>2, <1>3
  <2>2. after[j + 1] = NextState(sim, after[j], w[b + (j + 1)])
    BY <1>4, <2>1
  <2>3. QED
    BY <1>3, <1>6, <2>1, <2>2 DEF NextState
<1>11. /\ s \in Reachable(sim) /\ s # NoState
       /\ sim.next[s][a] \in CoAccessible(sim)
  BY <1>3, <1>6, <1>10
<1>12. /\ sim.accept[s] \in ignored
       /\ sim.next[s][a] \notin ClosedBackward(sim, kept)
       /\ <<sim.next[s][a], sim.next[sim.init][a]>> \in E
  BY <1>9, <1>11, IgnoringCertificate DEF E, kept
<1>13. TokenAt(sim, w, b).token \in ignored
  <2>0. TokenAt(sim, w, b).token = sim.accept[after[n]]
    BY DEF TokenAt, after, n
  <2>1. SUFFICES ASSUME sim.accept[after[n]] \notin ignored PROVE FALSE
    BY <2>0
  <2>2. after[n] \in kept
    <3>1. sim.accept[after[n]] # NoToken
      BY <1>2 DEF MatchLengths, after
    <3>2. after[n] \in States(sim)
      <4>1. n \in 0 .. n
        BY <1>2
      <4>2. QED
        BY <1>1, <1>6, <4>1, ReachableClosed
    <3>3. QED
      BY <2>1, <3>1, <3>2 DEF kept, AcceptsKept, Accepting
  <2>3. kept \in SUBSET States(sim)
    BY DEF kept, AcceptsKept
  <2> DEFINE S == { i \in 0 .. n : i > j => after[i] \in ClosedBackward(sim, kept) }
  <2>4. ASSUME NEW x \in 0 .. n, \A y \in x + 1 .. n : y \in S PROVE x \in S
    <3>1. CASE x = n
      BY <2>2, <2>3, <3>1, ClosedBackwardSeeds
    <3>2. CASE x # n /\ x > j
      <4>1. /\ x + 1 \in x + 1 .. n /\ x + 1 \in 1 .. Len(w) - b /\ (x + 1) - 1 = x
            /\ b + (x + 1) \in 1 .. Len(w) /\ x + 1 > j
        BY <1>2, <1>3, <3>2
      <4>2. after[x + 1] \in ClosedBackward(sim, kept)
        BY <2>4, <4>1
      <4>3. after[x + 1] = NextState(sim, after[x], w[b + (x + 1)])
        BY <1>4, <4>1
      <4>4. after[x + 1] = sim.next[after[x]][w[b + (x + 1)]] /\ after[x] \in States(sim)
        BY <1>1, <1>6, <4>3, ReachableClosed DEF NextState
      <4>5. after[x] \in ClosedBackward(sim, kept)
        BY <1>1, <1>7, <2>3, <4>1, <4>2, <4>4, ClosedBackwardClosed
      <4>6. QED
        BY <4>5
    <3>3. CASE ~ (x > j)
      BY <3>3
    <3>4. QED
      BY <3>1, <3>2, <3>3
  <2>5. n \in Nat
    BY <1>2
  <2> HIDE DEF S
  <2>6. 0 .. n \subseteq S
    BY <2>4, <2>5, DownFrom
  <2>7. j + 1 \in S
    BY <1>3, <2>6
  <2>8. after[j + 1] \in ClosedBackward(sim, kept)
    BY <1>3, <2>7 DEF S
  <2>9. QED
    BY <1>10, <1>12, <2>8
<1>14. \A k \in 1 .. Len(w) - end : <<after[j + k], anew[k]>> \in E
  <2> DEFINE S == { k \in 0 .. Len(w) - end : k > 0 => <<after[j + k], anew[k]>> \in E }
  <2>1. 0 \in S
    BY <1>3
  <2>2. ASSUME NEW k \in 0 .. (Len(w) - end) - 1, k \in S PROVE k + 1 \in S
    <3>0. /\ k + 1 \in 0 .. Len(w) - end /\ k + 1 \in 1 .. Len(w) - end /\ (k + 1) - 1 = k
          /\ j + (k + 1) \in 1 .. Len(w) - b /\ (j + (k + 1)) - 1 = j + k
          /\ b + (j + (k + 1)) = end + (k + 1) /\ end + (k + 1) \in 1 .. Len(w)
      BY <1>2, <1>3
    <3>1. /\ after[j + (k + 1)] = NextState(sim, after[j + k], w[end + (k + 1)])
          /\ anew[k + 1] = NextState(sim, anew[k], w[end + (k + 1)])
      BY <1>4, <1>5, <3>0
    <3>2. CASE k = 0
      <4>1. j + k = j /\ k + 1 = 1
        BY <1>3, <3>2
      <4>2. after[j + (k + 1)] = sim.next[s][a] /\ anew[k + 1] = sim.next[sim.init][a]
        BY <1>5, <1>8, <1>11, <3>1, <3>2, <4>1 DEF NextState
      <4>3. QED
        BY <1>12, <3>0, <4>2
    <3>3. CASE k # 0
      <4>1. <<after[j + k], anew[k]>> \in E
        BY <2>2, <3>3
      <4>2. <<after[j + (k + 1)], anew[k + 1]>> \in E
        BY <1>7, <3>0, <3>1, <4>1, IgnoringCertificate DEF E
      <4>3. QED
        BY <3>0, <4>2
    <3>4. QED
      BY <3>2, <3>3
  <2>3. Len(w) - end \in Nat
    BY <1>3
  <2>4. 0 .. Len(w) - end \subseteq S
    <3> HIDE DEF S
    <3> QED
      BY <2>1, <2>2, <2>3, UpTo
  <2>5. ASSUME NEW k \in 1 .. Len(w) - end PROVE <<after[j + k], anew[k]>> \in E
    <3>1. k \in 0 .. Len(w) - end /\ k > 0
      BY <2>3
    <3>2. k \in S
      <4> HIDE DEF S
      <4> QED
        BY <2>4, <3>1
    <3>3. QED
      BY <3>1, <3>2
  <2>6. QED
    BY <2>5
<1>15. ASSUME NEW k \in 1 .. Len(w) - end
       PROVE  ObservedColour(sim, ignored, after[j + k]) = ObservedColour(sim, ignored, anew[k])
  <2>1. <<after[j + k], anew[k]>> \in E
    BY <1>14
  <2>2. QED
    BY <2>1, IgnoringCertificate DEF E
<1>16. QED
  BY <1>11, <1>12, <1>13, <1>15 DEF after, anew

----------------------------------------------------------------------------
(* Markings: the offsets of an input at which a token is taken to begin,   *)
(* as long as no later accept refutes them. Of a whole input that          *)
(* tokenizes, those of the serial scan are the only ones left.             *)

(* The states a run from an offset is in, and at the end of what was read. *)
RunTo(D, w, s) == StateAfter(D, w, s)[Len(w) - s]

(* Every marked token but the last is the longest match where it begins,   *)
(* the next one begins where it ends, and the last is still alive.         *)
Marks(D, w, S, m) ==
  /\ m \in 0 .. Len(w)
  /\ S \subseteq 0 .. m
  /\ 0 \in S /\ m \in S
  /\ \A s \in S : s < m =>
       /\ MatchLengths(D, w, s) # {}
       /\ AfterTokenAt(D, w, s) \in S
       /\ \A t \in S : s < t => AfterTokenAt(D, w, s) <= t
  /\ RunTo(D, w, m) # NoState

Position(D, w, S, m) ==
  [ reading |-> RunTo(D, w, m),
    closed  |-> { RunTo(D, w, s) : s \in S \ {m} } \ {NoState} ]

----------------------------------------------------------------------------
(* A match that no other is longer than is the longest.                    *)
LEMMA LongestIs ==
  ASSUME NEW D, NEW w \in Seq(Symbols), NEW s \in 0 .. Len(w),
         NEW n \in MatchLengths(D, w, s), \A k \in MatchLengths(D, w, s) : k <= n
  PROVE  LongestMatch(D, w, s) = n
<1>1. n \in 1 .. Len(w) - s
  BY DEF MatchLengths
<1>2. /\ LongestMatch(D, w, s) \in MatchLengths(D, w, s)
      /\ LongestMatch(D, w, s) \in 1 .. Len(w) - s
      /\ \A k \in MatchLengths(D, w, s) : k <= LongestMatch(D, w, s)
  <2>1. MatchLengths(D, w, s) # {}
    OBVIOUS
  <2> QED BY <2>1, LongestMatchIsLongest
<1> QED BY <1>1, <1>2

(* What a byte adds to the runs: one step of each, and one match where it  *)
(* accepts.                                                                *)
LEMMA AppendRuns ==
  ASSUME NEW D, IsDfa(D), NEW w \in Seq(Symbols), NEW b \in Symbols,
         NEW s \in 0 .. Len(w)
  PROVE  /\ Append(w, b) \in Seq(Symbols)
         /\ Len(Append(w, b)) = Len(w) + 1
         /\ RunTo(D, w, s) \in States(D) \cup {NoState}
         /\ RunTo(D, Append(w, b), s) = NextState(D, RunTo(D, w, s), b)
         /\ RunTo(D, Append(w, b), s) \in States(D) \cup {NoState}
         /\ MatchLengths(D, w, s) =
              { n \in MatchLengths(D, Append(w, b), s) : n <= Len(w) - s }
         /\ Len(w) + 1 - s \in MatchLengths(D, Append(w, b), s) <=>
              /\ RunTo(D, Append(w, b), s) # NoState
              /\ Accepting(D, RunTo(D, Append(w, b), s))
<1> DEFINE v == Append(w, b)
<1>1. /\ v \in Seq(Symbols) /\ Len(v) = Len(w) + 1 /\ v[Len(w) + 1] = b
      /\ SubSeq(v, 1, Len(w)) = w
  OBVIOUS
<1> HIDE DEF v
<1>2. Len(w) \in 0 .. Len(v) /\ s \in 0 .. Len(v) /\ Len(w) - s \in 0 .. Len(w) - s
  BY <1>1
<1>3. StateAfter(D, v, s)[Len(w) - s] = StateAfter(D, w, s)[Len(w) - s]
  <2>1. s \in 0 .. Len(w)
    OBVIOUS
  <2>2. \A n \in 0 .. Len(w) - s :
          StateAfter(D, SubSeq(v, 1, Len(w)), s)[n] = StateAfter(D, v, s)[n]
    BY <1>1, <1>2, <2>1, StateAfterInPrefix
  <2> QED BY <1>1, <1>2, <2>2
<1>4. RunTo(D, v, s) = NextState(D, RunTo(D, w, s), b)
  <2>1. Len(v) - s \in 1 .. Len(v) - s
    BY <1>1
  <2>2. StateAfter(D, v, s)[Len(v) - s]
          = NextState(D, StateAfter(D, v, s)[Len(v) - s - 1], v[s + (Len(v) - s)])
    BY <1>1, <1>2, <2>1, StateAfterSteps
  <2>3. Len(v) - s - 1 = Len(w) - s /\ s + (Len(v) - s) = Len(w) + 1
    BY <1>1
  <2> QED BY <1>1, <1>3, <2>2, <2>3 DEF RunTo
<1>5. \A x \in Seq(Symbols) : s <= Len(x) => RunTo(D, x, s) \in States(D) \cup {NoState}
  <2> TAKE x \in Seq(Symbols)
  <2> HAVE s <= Len(x)
  <2>1. s \in 0 .. Len(x) /\ Len(x) - s \in 0 .. Len(x) - s
    OBVIOUS
  <2> QED BY <2>1, StateAfterReachable, ReachableClosed DEF RunTo
<1>6. MatchLengths(D, w, s) = { n \in MatchLengths(D, v, s) : n <= Len(w) - s }
  <2>1. s \in 0 .. Len(w)
    OBVIOUS
  <2>2. MatchLengths(D, SubSeq(v, 1, Len(w)), s) = { n \in MatchLengths(D, v, s) : s + n <= Len(w) }
    BY <1>1, <1>2, <2>1, MatchLengthsInPrefix
  <2>3. \A n \in MatchLengths(D, v, s) : n \in Nat /\ (s + n <= Len(w) <=> n <= Len(w) - s)
    BY <1>1 DEF MatchLengths
  <2> QED BY <1>1, <2>2, <2>3
<1>7. Len(w) + 1 - s \in MatchLengths(D, v, s) <=>
        RunTo(D, v, s) # NoState /\ Accepting(D, RunTo(D, v, s))
  <2>1. Len(w) + 1 - s \in 1 .. Len(v) - s /\ Len(w) + 1 - s = Len(v) - s
    BY <1>1
  <2> QED BY <2>1 DEF MatchLengths, RunTo, Accepting
<1>8. RunTo(D, w, s) \in States(D) \cup {NoState} /\ RunTo(D, v, s) \in States(D) \cup {NoState}
  BY <1>1, <1>5
<1> QED BY <1>1, <1>4, <1>6, <1>7, <1>8 DEF v

(* A byte at which a run does not accept changes none of its matches.      *)
LEMMA MatchesUnchanged ==
  ASSUME NEW D, IsDfa(D), NEW w \in Seq(Symbols), NEW b \in Symbols,
         NEW s \in 0 .. Len(w),
         Len(w) + 1 - s \notin MatchLengths(D, Append(w, b), s)
  PROVE  /\ MatchLengths(D, Append(w, b), s) = MatchLengths(D, w, s)
         /\ AfterTokenAt(D, Append(w, b), s) = AfterTokenAt(D, w, s)
<1> DEFINE v == Append(w, b)
<1>1. /\ v \in Seq(Symbols) /\ Len(v) = Len(w) + 1
      /\ MatchLengths(D, w, s) = { n \in MatchLengths(D, v, s) : n <= Len(w) - s }
  BY AppendRuns
<1> HIDE DEF v
<1>2. \A n \in MatchLengths(D, v, s) : n \in 1 .. Len(w) + 1 - s
  BY <1>1 DEF MatchLengths
<1>3. Len(w) + 1 - s \notin MatchLengths(D, v, s)
  BY DEF v
<1>4. MatchLengths(D, v, s) = MatchLengths(D, w, s)
  <2>1. \A n \in MatchLengths(D, v, s) : n <= Len(w) - s
    BY <1>2, <1>3
  <2> QED BY <1>1, <2>1
<1>5. LongestMatch(D, v, s) = LongestMatch(D, w, s)
  BY <1>4 DEF LongestMatch
<1> QED BY <1>4, <1>5 DEF v, AfterTokenAt

(* A marking outlives a byte if its last token does and none before it     *)
(* accepts there.                                                          *)
LEMMA MarksAdvance ==
  ASSUME NEW D, IsDfa(D), NEW w \in Seq(Symbols), NEW b \in Symbols,
         NEW S, NEW m \in 0 .. Len(w)
  PROVE  Marks(D, Append(w, b), S, m) <=>
           /\ Marks(D, w, S, m)
           /\ RunTo(D, Append(w, b), m) # NoState
           /\ \A s \in S \ {m} : Len(w) + 1 - s \notin MatchLengths(D, Append(w, b), s)
<1> DEFINE v == Append(w, b)
<1>1. /\ v \in Seq(Symbols) /\ Len(v) = Len(w) + 1
      /\ RunTo(D, v, m) = NextState(D, RunTo(D, w, m), b)
  BY AppendRuns
<1>2. \A s \in 0 .. Len(w) : Len(w) + 1 - s \notin MatchLengths(D, v, s) =>
        /\ MatchLengths(D, v, s) = MatchLengths(D, w, s)
        /\ AfterTokenAt(D, v, s) = AfterTokenAt(D, w, s)
  BY MatchesUnchanged
<1> HIDE DEF v
<1>3. ASSUME Marks(D, w, S, m), RunTo(D, v, m) # NoState,
             \A s \in S \ {m} : Len(w) + 1 - s \notin MatchLengths(D, v, s)
      PROVE  Marks(D, v, S, m)
  <2>1. \A s \in S : s \in 0 .. Len(w)
    BY <1>3 DEF Marks
  <2>2. \A s \in S : s < m => /\ MatchLengths(D, v, s) = MatchLengths(D, w, s)
                              /\ AfterTokenAt(D, v, s) = AfterTokenAt(D, w, s)
    BY <1>2, <1>3, <2>1
  <2> QED BY <1>1, <1>3, <2>2 DEF Marks
<1>4. ASSUME Marks(D, v, S, m)
      PROVE  /\ Marks(D, w, S, m) /\ RunTo(D, v, m) # NoState
             /\ \A s \in S \ {m} : Len(w) + 1 - s \notin MatchLengths(D, v, s)
  <2>1. \A s \in S : s \in 0 .. m
    BY <1>4 DEF Marks
  <2>2. ASSUME NEW s \in S \ {m}
        PROVE  Len(w) + 1 - s \notin MatchLengths(D, v, s)
    <3>1. s \in 0 .. Len(v) /\ s < m
      BY <1>1, <2>1
    <3>2. MatchLengths(D, v, s) # {} /\ AfterTokenAt(D, v, s) \in S
      BY <1>4, <3>1 DEF Marks
    <3>3. /\ LongestMatch(D, v, s) \in 1 .. Len(v) - s
          /\ \A n \in MatchLengths(D, v, s) : n <= LongestMatch(D, v, s)
      BY <1>1, <3>1, <3>2, LongestMatchIsLongest
    <3>4. s + LongestMatch(D, v, s) <= m
      BY <2>1, <3>2 DEF AfterTokenAt
    <3> QED BY <3>1, <3>3, <3>4
  <2>3. RunTo(D, v, m) # NoState /\ RunTo(D, w, m) # NoState
    BY <1>1, <1>4 DEF Marks, NextState
  <2>4. \A s \in S : s < m => /\ MatchLengths(D, v, s) = MatchLengths(D, w, s)
                              /\ AfterTokenAt(D, v, s) = AfterTokenAt(D, w, s)
    BY <1>2, <2>1, <2>2
  <2> QED BY <1>4, <2>2, <2>3, <2>4 DEF Marks
<1> QED BY <1>3, <1>4 DEF v

(* A token ends where the input read ends just if its run accepts there.   *)
LEMMA MarksClose ==
  ASSUME NEW D, IsDfa(D), NEW w \in Seq(Symbols), NEW b \in Symbols,
         NEW S \in SUBSET (0 .. Len(w)), NEW m \in S, \A s \in S : s <= m
  PROVE  Marks(D, Append(w, b), S \cup {Len(w) + 1}, Len(w) + 1) <=>
           /\ Marks(D, Append(w, b), S, m)
           /\ Accepting(D, RunTo(D, Append(w, b), m))
<1> DEFINE v == Append(w, b)
           L == Len(w) + 1
           T == S \cup {L}
<1>0. m \in 0 .. Len(w)
  OBVIOUS
<1>1. /\ v \in Seq(Symbols) /\ Len(v) = L
      /\ L - m \in MatchLengths(D, v, m) <=>
           RunTo(D, v, m) # NoState /\ Accepting(D, RunTo(D, v, m))
  BY <1>0, AppendRuns
<1> HIDE DEF v
<1>2. RunTo(D, v, L) # NoState
  <2>1. StateAfter(D, v, Len(v))[0] = D.init
    <3>1. Len(v) \in 0 .. Len(v)
      BY <1>1
    <3> QED BY <1>1, <3>1, StateAfterSteps
  <2>2. D.init \in Nat /\ NoState \notin Nat
    BY DfaAssumption DEF IsDfa, States
  <2> QED BY <1>1, <2>1, <2>2 DEF RunTo
<1>3. \A s \in S : s \in 0 .. L - 1 /\ s \in 0 .. Len(v)
  BY <1>1
<1>4. \A s \in 0 .. Len(v) : MatchLengths(D, v, s) # {} =>
        /\ LongestMatch(D, v, s) \in MatchLengths(D, v, s)
        /\ AfterTokenAt(D, v, s) \in s + 1 .. Len(v)
  BY <1>1, LongestMatchIsLongest DEF AfterTokenAt
<1>5. ASSUME Marks(D, v, S, m), Accepting(D, RunTo(D, v, m))
      PROVE  Marks(D, v, T, L)
  <2>1. L - m \in MatchLengths(D, v, m)
    BY <1>1, <1>5 DEF Marks
  <2>2. AfterTokenAt(D, v, m) = L
    <3>1. \A n \in MatchLengths(D, v, m) : n <= L - m
      BY <1>1 DEF MatchLengths
    <3>2. m \in 0 .. Len(v)
      BY <1>3
    <3>3. LongestMatch(D, v, m) = L - m
      BY <1>1, <2>1, <3>1, <3>2, LongestIs
    <3> QED BY <1>0, <3>3 DEF AfterTokenAt
  <2>3. \A s \in S : s # m => s < m /\ AfterTokenAt(D, v, s) \in S
    BY <1>0, <1>3, <1>5 DEF Marks
  <2>4. \A s \in T : s < L => /\ MatchLengths(D, v, s) # {}
                              /\ AfterTokenAt(D, v, s) \in T
                              /\ \A t \in T : s < t => AfterTokenAt(D, v, s) <= t
    <3> TAKE s \in T
    <3> HAVE s < L
    <3>1. CASE s = m
      <4>1. \A t \in T : s < t => t = L
        BY <1>0, <1>3, <3>1
      <4> QED BY <1>0, <2>1, <2>2, <3>1, <4>1
    <3>2. CASE s # m
      <4>1. s \in S /\ s < m
        BY <1>0, <2>3, <3>2
      <4>2. /\ MatchLengths(D, v, s) # {} /\ AfterTokenAt(D, v, s) \in S
            /\ \A t \in S : s < t => AfterTokenAt(D, v, s) <= t
        BY <1>5, <4>1 DEF Marks
      <4>5. PICK e \in S : e = AfterTokenAt(D, v, s)
        BY <4>2
      <4>6. e \in 0 .. L - 1
        BY <1>3
      <4>3. AfterTokenAt(D, v, s) \in 0 .. L - 1 /\ Len(w) \in Nat
        BY <4>5, <4>6
      <4>4. \A t \in T : s < t => AfterTokenAt(D, v, s) <= t
        BY <4>2, <4>3
      <4> QED BY <4>2, <4>4
    <3> QED BY <3>1, <3>2
  <2>5. T \subseteq 0 .. L /\ 0 \in T /\ L \in T /\ L \in 0 .. Len(v)
    <3>1. 0 \in S
      BY <1>5 DEF Marks
    <3>2. Len(w) \in Nat
      OBVIOUS
    <3>3. L \in Nat /\ \A s \in S : s \in 0 .. L
      BY <1>3, <3>2
    <3> HIDE DEF L
    <3> QED BY <1>1, <3>1, <3>3
  <2> HIDE DEF T, L
  <2> QED BY <1>2, <2>4, <2>5 DEF Marks
<1>6. ASSUME Marks(D, v, T, L)
      PROVE  Marks(D, v, S, m) /\ Accepting(D, RunTo(D, v, m))
  <2>0. \A s \in S : s \in T /\ s < L
    BY <1>3
  <2>1. \A s \in S : /\ MatchLengths(D, v, s) # {}
                     /\ AfterTokenAt(D, v, s) \in T
                     /\ \A t \in T : s < t => AfterTokenAt(D, v, s) <= t
    <3> HIDE DEF T, L
    <3> QED BY <1>6, <2>0 DEF Marks
  <2>2. AfterTokenAt(D, v, m) = L
    BY <1>3, <1>4, <2>1
  <2>3. LongestMatch(D, v, m) = L - m
    <3>1. LongestMatch(D, v, m) \in MatchLengths(D, v, m) /\ m \in 0 .. Len(v)
      BY <1>3, <1>4, <2>1
    <3>2. LongestMatch(D, v, m) \in Nat
      BY <1>1, <3>1 DEF MatchLengths
    <3> QED BY <1>0, <2>2, <3>2 DEF AfterTokenAt
  <2>4. RunTo(D, v, m) # NoState /\ Accepting(D, RunTo(D, v, m))
    BY <1>1, <1>3, <1>4, <2>1, <2>3
  <2>5. \A s \in S : s < m => AfterTokenAt(D, v, s) \in S
    <3> TAKE s \in S
    <3> HAVE s < m
    <3>1. AfterTokenAt(D, v, s) <= m
      BY <2>1
    <3> QED BY <1>0, <2>1, <3>1
  <2>6. 0 \in S
    BY <1>6 DEF Marks
  <2>7. S \subseteq 0 .. m /\ m \in 0 .. Len(v)
    BY <1>3
  <2>8. \A s \in S : \A t \in S : s < t => AfterTokenAt(D, v, s) <= t
    BY <2>1
  <2> QED BY <2>1, <2>4, <2>5, <2>6, <2>7, <2>8 DEF Marks
<1> QED BY <1>5, <1>6 DEF v

LEMMA MarksOfAppend ==
  ASSUME NEW D, IsDfa(D), NEW w \in Seq(Symbols), NEW b \in Symbols,
         NEW T, NEW k, Marks(D, Append(w, b), T, k)
  PROVE  \E S \in SUBSET (0 .. Len(w)), m \in 0 .. Len(w) :
           /\ Marks(D, w, S, m)
           /\ Marks(D, Append(w, b), S, m)
           /\ \/ T = S /\ k = m
              \/ /\ T = S \cup {Len(w) + 1} /\ k = Len(w) + 1
                 /\ Accepting(D, RunTo(D, Append(w, b), m))
<1> DEFINE v == Append(w, b)
<1>1. v \in Seq(Symbols) /\ Len(v) = Len(w) + 1
  OBVIOUS
<1>2. Len(w) \in Nat
  OBVIOUS
<1> HIDE DEF v
<1>3. k \in 0 .. Len(w) + 1 /\ T \subseteq 0 .. k /\ 0 \in T /\ k \in T
  BY <1>1 DEF v, Marks
<1>4. CASE k <= Len(w)
  <2>1. k \in 0 .. Len(w) /\ T \in SUBSET (0 .. Len(w))
    BY <1>2, <1>3, <1>4
  <2>2. Marks(D, w, T, k)
    BY <2>1, MarksAdvance
  <2> QED BY <2>1, <2>2
<1>5. CASE k = Len(w) + 1
  <2> DEFINE S == T \ {k}
  <2>1. S \in SUBSET (0 .. Len(w)) /\ 0 \in S
    <3>1. \A s \in T : s \in 0 .. Len(w) + 1
      BY <1>3, <1>5
    <3>2. \A s \in S : s \in 0 .. Len(w)
      BY <1>2, <1>5, <3>1
    <3>3. 0 # k
      BY <1>2, <1>5
    <3> QED BY <1>3, <3>2, <3>3
  <2>2. PICK m \in S : \A s \in S : s <= m
    BY <1>2, <2>1, GreatestUpTo
  <2>3. T = S \cup {Len(w) + 1} /\ k = Len(w) + 1
    BY <1>3, <1>5
  <2> HIDE DEF S
  <2>4. Marks(D, Append(w, b), S, m) /\ Accepting(D, RunTo(D, Append(w, b), m))
    BY <2>1, <2>2, <2>3, MarksClose
  <2>5. m \in 0 .. Len(w) /\ Marks(D, w, S, m)
    BY <2>1, <2>2, <2>4, MarksAdvance
  <2> QED BY <2>1, <2>3, <2>4, <2>5
<1> QED BY <1>2, <1>3, <1>4, <1>5

(* The tokens of the serial scan begin where those of the marking do.      *)
BeginsFrom(D, w, from) == { t.begin : t \in TokensFrom(D, w, from) }

(* What remains of a marking of a whole input from one of its tokens on is *)
(* what the serial scan reads from there.                                  *)
LEMMA MarksAreScanned ==
  ASSUME NEW D, IsDfa(D), NEW w \in Seq(Symbols), NEW S, Marks(D, w, S, Len(w))
  PROVE  \A from \in S : /\ SerialFrom(D, w)[from].consumed = Len(w)
                         /\ BeginsFrom(D, w, from) = { s \in S : from <= s /\ s # Len(w) }
<1> DEFINE Right(from) == /\ SerialFrom(D, w)[from].consumed = Len(w)
                          /\ BeginsFrom(D, w, from) = { s \in S : from <= s /\ s # Len(w) }
           R == { from \in 0 .. Len(w) : from \in S => Right(from) }
<1>0. Len(w) \in Nat
  OBVIOUS
<1>1. /\ S \subseteq 0 .. Len(w)
      /\ \A s \in S : s < Len(w) =>
           /\ MatchLengths(D, w, s) # {}
           /\ AfterTokenAt(D, w, s) \in S
           /\ \A t \in S : s < t => AfterTokenAt(D, w, s) <= t
  BY DEF Marks
<1>2. ASSUME NEW x \in 0 .. Len(w), \A y \in x + 1 .. Len(w) : y \in R
      PROVE  x \in R
  <2> SUFFICES ASSUME x \in S PROVE Right(x)
    OBVIOUS
  <2>1. /\ SerialFrom(D, w)[x].consumed =
             IF MatchLengths(D, w, x) = {} THEN x
             ELSE SerialFrom(D, w)[AfterTokenAt(D, w, x)].consumed
        /\ TokensFrom(D, w, x) =
             IF MatchLengths(D, w, x) = {} THEN {}
             ELSE {TokenAt(D, w, x)} \cup TokensFrom(D, w, AfterTokenAt(D, w, x))
    <3>1. SerialFrom(D, w)[x] =
            IF MatchLengths(D, w, x) = {}
            THEN [stream |-> << >>, consumed |-> x]
            ELSE [ stream   |-> <<TokenAt(D, w, x)>>
                                  \o SerialFrom(D, w)[AfterTokenAt(D, w, x)].stream,
                   consumed |-> SerialFrom(D, w)[AfterTokenAt(D, w, x)].consumed ]
      BY SerialSteps
    <3>2. TokensFrom(D, w, x) =
            IF MatchLengths(D, w, x) = {} THEN {}
            ELSE {TokenAt(D, w, x)} \cup TokensFrom(D, w, AfterTokenAt(D, w, x))
      BY TokensFromSteps
    <3> QED BY <3>1, <3>2
  <2>2. CASE x = Len(w)
    <3>1. MatchLengths(D, w, x) = {}
      BY <1>0, <2>2 DEF MatchLengths
    <3>2. BeginsFrom(D, w, x) = {}
      BY <2>1, <3>1 DEF BeginsFrom
    <3>3. { s \in S : x <= s /\ s # Len(w) } = {}
      <4>1. \A s \in S : s \in 0 .. Len(w)
        BY <1>1
      <4>2. \A s \in S : ~ (x <= s /\ s # Len(w))
        BY <1>0, <2>2, <4>1
      <4> QED BY <4>2
    <3> QED BY <2>1, <2>2, <3>1, <3>2, <3>3
  <2>3. CASE x # Len(w)
    <3>1. x < Len(w)
      BY <1>0, <2>3
    <3>2. /\ MatchLengths(D, w, x) # {}
          /\ AfterTokenAt(D, w, x) \in S
          /\ \A t \in S : x < t => AfterTokenAt(D, w, x) <= t
      BY <1>1, <3>1
    <3>3. PICK y \in S : y = AfterTokenAt(D, w, x)
      BY <3>2
    <3>4. y \in x + 1 .. Len(w)
      BY <3>2, <3>3, LongestMatchIsLongest DEF AfterTokenAt
    <3>5. Right(y)
      BY <1>2, <3>4
    <3>6. TokenAt(D, w, x).begin = x
      BY DEF TokenAt
    <3>7. TokensFrom(D, w, x) = {TokenAt(D, w, x)} \cup TokensFrom(D, w, y)
      BY <2>1, <3>2, <3>3
    <3>8. BeginsFrom(D, w, x) = {x} \cup BeginsFrom(D, w, y)
      BY <3>6, <3>7 DEF BeginsFrom
    <3>9. { s \in S : x <= s /\ s # Len(w) } = {x} \cup { s \in S : y <= s /\ s # Len(w) }
      <4>1. \A s \in S : s \in 0 .. Len(w)
        BY <1>1
      <4>2. \A s \in S : (x <= s /\ s # Len(w)) <=> (s = x \/ (y <= s /\ s # Len(w)))
        BY <1>0, <2>3, <3>2, <3>3, <3>4, <4>1
      <4> QED BY <4>2
    <3>10. SerialFrom(D, w)[x].consumed = Len(w)
      BY <2>1, <3>2, <3>3, <3>5
    <3> QED BY <3>5, <3>8, <3>9, <3>10
  <2> QED BY <2>2, <2>3
<1>3. 0 .. Len(w) \subseteq R
  <2> HIDE DEF R
  <2> QED BY <1>0, <1>2, DownFrom
<1> QED BY <1>1, <1>3

----------------------------------------------------------------------------
(* Sequences of anything, and what is in them.                             *)
IsSeq(s) == \E K : s \in Seq(K)

----------------------------------------------------------------------------
(* A marking with or without a token that begins after the last byte.      *)
GrownTo(S, at, closes) == IF closes THEN S \cup {at} ELSE S

LastOf(m, at, closes) == IF closes THEN at ELSE m

(* Every marking of a byte more grows out of one.                          *)
LEMMA MarksGrow ==
  ASSUME NEW D, IsDfa(D), NEW w \in Seq(Symbols), NEW b \in Symbols,
         NEW T, NEW k, Marks(D, Append(w, b), T, k)
  PROVE  \E S \in SUBSET (0 .. Len(w)), m \in 0 .. Len(w), closes \in BOOLEAN :
           /\ Marks(D, w, S, m) /\ Marks(D, Append(w, b), S, m)
           /\ T = GrownTo(S, Len(w) + 1, closes) /\ k = LastOf(m, Len(w) + 1, closes)
           /\ closes => Accepting(D, RunTo(D, Append(w, b), m))
<1>1. PICK S \in SUBSET (0 .. Len(w)), m \in 0 .. Len(w) :
           /\ Marks(D, w, S, m)
           /\ Marks(D, Append(w, b), S, m)
           /\ \/ T = S /\ k = m
              \/ /\ T = S \cup {Len(w) + 1} /\ k = Len(w) + 1
                 /\ Accepting(D, RunTo(D, Append(w, b), m))
  BY MarksOfAppend
<1>2. CASE T = S /\ k = m
  <2>1. T = GrownTo(S, Len(w) + 1, FALSE) /\ k = LastOf(m, Len(w) + 1, FALSE)
    BY <1>2 DEF GrownTo, LastOf
  <2> QED BY <1>1, <2>1
<1>3. CASE /\ T = S \cup {Len(w) + 1} /\ k = Len(w) + 1
           /\ Accepting(D, RunTo(D, Append(w, b), m))
  <2>1. T = GrownTo(S, Len(w) + 1, TRUE) /\ k = LastOf(m, Len(w) + 1, TRUE)
    BY <1>3 DEF GrownTo, LastOf
  <2> QED BY <1>1, <1>3, <2>1
<1> QED BY <1>1, <1>2, <1>3

LEMMA SameOthers ==
  ASSUME NEW S, NEW T, NEW e, S \cup {e} = T \cup {e}, e \notin S, e \notin T
  PROVE  S = T
<1>1. ASSUME NEW x \in S PROVE x \in T
  <2>1. x \in T \cup {e} /\ x # e
    OBVIOUS
  <2> QED BY <2>1
<1>2. ASSUME NEW x \in T PROVE x \in S
  <2>1. x \in S \cup {e} /\ x # e
    OBVIOUS
  <2> QED BY <2>1
<1> QED BY <1>1, <1>2

----------------------------------------------------------------------------
(* Rescues: a token has been rolled back to once its run has gone on after *)
(* its close.                                                              *)
LEMMA DeadStays ==
  ASSUME NEW D, NEW w \in Seq(Symbols), NEW from \in 0 .. Len(w),
         NEW m \in 0 .. Len(w) - from, StateAfter(D, w, from)[m] = NoState
  PROVE  \A n \in m .. Len(w) - from : StateAfter(D, w, from)[n] = NoState
<1> DEFINE after == StateAfter(D, w, from)
           N == Len(w) - from - m
           S == { n \in 0 .. N : after[m + n] = NoState }
<1>1. N \in Nat
  OBVIOUS
<1>2. \A n \in 1 .. Len(w) - from : after[n] = NextState(D, after[n - 1], w[from + n])
  BY StateAfterSteps
<1>3. after[m] = NoState
  OBVIOUS
<1> HIDE DEF after
<1>4. 0 \in S
  BY <1>1, <1>3
<1>5. ASSUME NEW n \in 0 .. N - 1, n \in S PROVE n + 1 \in S
  <2>1. PICK k \in 1 .. Len(w) - from : k = m + (n + 1)
    OBVIOUS
  <2>2. k - 1 = m + n /\ after[m + n] = NoState
    BY <1>5, <2>1
  <2>3. after[k] = NoState
    BY <1>2, <2>2 DEF NextState
  <2>4. n + 1 \in 0 .. N
    BY <1>1
  <2> QED BY <2>1, <2>3, <2>4
<1> HIDE DEF S
<1>6. 0 .. N \subseteq S
  BY <1>1, <1>4, <1>5, UpTo
<1>7. ASSUME NEW n \in m .. Len(w) - from PROVE after[n] = NoState
  <2>1. PICK k \in 0 .. N : n = m + k
    <3>1. n - m \in 0 .. N /\ n = m + (n - m)
      OBVIOUS
    <3> QED BY <3>1
  <2> QED BY <1>6, <2>1 DEF S
<1> QED BY <1>7 DEF after

RunsOn(D, w, S, m) ==
  \E s \in S : /\ s # m
               /\ AfterTokenAt(D, w, s) < Len(w)
               /\ StateAfter(D, w, s)[LongestMatch(D, w, s) + 1] # NoState

(* Where a run accepts at the end of what was read, its match ends there.  *)
LEMMA AcceptsAtEnd ==
  ASSUME NEW D, IsDfa(D), NEW w \in Seq(Symbols), NEW b \in Symbols,
         NEW m \in 0 .. Len(w), RunTo(D, Append(w, b), m) # NoState,
         Accepting(D, RunTo(D, Append(w, b), m))
  PROVE  AfterTokenAt(D, Append(w, b), m) = Len(w) + 1
<1> DEFINE v == Append(w, b)
<1>1. v \in Seq(Symbols) /\ Len(v) = Len(w) + 1 /\ Len(w) \in Nat
  OBVIOUS
<1>2. Len(w) + 1 - m \in MatchLengths(D, v, m)
  BY AppendRuns
<1> HIDE DEF v
<1>3. \A n \in MatchLengths(D, v, m) : n <= Len(w) + 1 - m
  BY <1>1 DEF MatchLengths
<1>4. m \in 0 .. Len(v)
  BY <1>1
<1>5. LongestMatch(D, v, m) = Len(w) + 1 - m
  BY <1>1, <1>2, <1>3, <1>4, LongestIs
<1> QED BY <1>1, <1>5 DEF v, AfterTokenAt

LEMMA GrownMarks ==
  ASSUME NEW D, IsDfa(D), NEW w \in Seq(Symbols), NEW b \in Symbols,
         NEW S \in SUBSET (0 .. Len(w)), NEW m \in S, \A s \in S : s <= m,
         NEW closes \in BOOLEAN
  PROVE  Marks(D, Append(w, b), GrownTo(S, Len(w) + 1, closes), LastOf(m, Len(w) + 1, closes))
         <=> /\ Marks(D, Append(w, b), S, m)
             /\ closes => Accepting(D, RunTo(D, Append(w, b), m))
<1>1. CASE closes = TRUE
  <2>1. Marks(D, Append(w, b), S \cup {Len(w) + 1}, Len(w) + 1) <=>
           /\ Marks(D, Append(w, b), S, m)
           /\ Accepting(D, RunTo(D, Append(w, b), m))
    BY MarksClose
  <2> QED BY <1>1, <2>1 DEF GrownTo, LastOf
<1>2. CASE closes = FALSE
  BY <1>2 DEF GrownTo, LastOf
<1> QED BY <1>1, <1>2

(* The input ends with the first bytes of a window.                        *)
SuffixIs(w, window, k) ==
  /\ k \in 0 .. Len(w)
  /\ \A i \in 1 .. k : w[Len(w) - k + i] = window[i]

(* The claim about the origin of an occurrence, before and after it ended. *)
BitAt(kind, S, m, at_) == IF kind = "covers" THEN m = at_ ELSE at_ \in S

LEMMA GrownApart ==
  ASSUME NEW S, NEW T, NEW at_, at_ \notin S, at_ \notin T,
         NEW c \in BOOLEAN, NEW d \in BOOLEAN
  PROVE  GrownTo(S, at_, c) # GrownTo(T, at_, d) <=> S # T \/ c # d
<1>1. CASE c = d
  <2>1. GrownTo(S, at_, c) = GrownTo(T, at_, c) => S = T
    BY SameOthers DEF GrownTo
  <2> QED BY <1>1, <2>1
<1>2. CASE c # d
  <2>1. (at_ \in GrownTo(S, at_, c) <=> c) /\ (at_ \in GrownTo(T, at_, d) <=> d)
    BY DEF GrownTo
  <2> QED BY <1>2, <2>1
<1> QED BY <1>1, <1>2

LEMMA SuffixGrows ==
  ASSUME NEW w \in Seq(Symbols), NEW b \in Symbols, NEW window \in Seq(Symbols),
         NEW k \in Nat
  PROVE  SuffixIs(Append(w, b), window, k + 1) <=> SuffixIs(w, window, k) /\ window[k + 1] = b
<1> DEFINE v == Append(w, b)
<1>1. /\ Len(v) = Len(w) + 1 /\ Len(w) \in Nat /\ v[Len(w) + 1] = b
      /\ \A i \in 1 .. Len(w) : v[i] = w[i]
  OBVIOUS
<1> HIDE DEF v
<1>2. k + 1 \in 0 .. Len(v) <=> k \in 0 .. Len(w)
  BY <1>1
<1>3. ASSUME k \in 0 .. Len(w)
      PROVE  (\A i \in 1 .. k + 1 : v[Len(v) - (k + 1) + i] = window[i])
             <=> (\A i \in 1 .. k : w[Len(w) - k + i] = window[i]) /\ window[k + 1] = b
  <2>1. \A i \in 1 .. k + 1 : i \in 1 .. k \/ i = k + 1
    OBVIOUS
  <2>2. \A i \in 1 .. k : v[Len(v) - (k + 1) + i] = w[Len(w) - k + i]
    <3> TAKE i \in 1 .. k
    <3>1. Len(v) - (k + 1) + i = Len(w) - k + i
      BY <1>1
    <3>2. Len(w) - k + i \in 1 .. Len(w)
      BY <1>1, <1>3
    <3> QED BY <1>1, <3>1, <3>2
  <2>3. Len(v) - (k + 1) + (k + 1) = Len(w) + 1
    BY <1>1
  <2>4. v[Len(v) - (k + 1) + (k + 1)] = b
    BY <1>1, <2>3
  <2>5. \A i \in 1 .. k : i \in 1 .. k + 1
    OBVIOUS
  <2>6. k + 1 \in 1 .. k + 1
    OBVIOUS
  <2>7. (\A i \in 1 .. k + 1 : v[Len(v) - (k + 1) + i] = window[i])
          <=> /\ \A i \in 1 .. k : v[Len(v) - (k + 1) + i] = window[i]
              /\ v[Len(v) - (k + 1) + (k + 1)] = window[k + 1]
    BY <2>1, <2>5, <2>6
  <2>8. (\A i \in 1 .. k : v[Len(v) - (k + 1) + i] = window[i])
          <=> \A i \in 1 .. k : w[Len(w) - k + i] = window[i]
    BY <2>2
  <2> QED BY <2>4, <2>7, <2>8
<1> QED BY <1>2, <1>3 DEF SuffixIs, v

(* The bytes on the way to every key, read back through the parents.       *)
TrailTo(N, via) ==
  LET path[n \in 1 .. N] ==
        IF n = 1 THEN << >> ELSE Append(path[via[n].from], via[n].byte)
  IN path

IsVia(N, via) ==
  \A n \in 2 .. N : via[n].from \in 1 .. n - 1 /\ via[n].byte \in Symbols

SameVia(N, via, more) == \A n \in 1 .. N : more[n] = via[n]

LEMMA TrailSteps ==
  ASSUME NEW N \in Nat, NEW via, IsVia(N, via)
  PROVE  /\ N # 0 => TrailTo(N, via)[1] = << >>
         /\ \A n \in 2 .. N :
              TrailTo(N, via)[n] = Append(TrailTo(N, via)[via[n].from], via[n].byte)
         /\ \A n \in 1 .. N : TrailTo(N, via)[n] \in Seq(Symbols)
<1> DEFINE Is(f, k) == f = [ n \in 1 .. k |-> IF n = 1 THEN << >>
                                              ELSE Append(f[via[n].from], via[n].byte) ]
           S == { k \in 0 .. N : \E f : Is(f, k) }
<1>1. 0 \in S
  <2> DEFINE e == [ n \in 1 .. 0 |-> n ]
  <2>1. e = [ n \in 1 .. 0 |-> IF n = 1 THEN << >>
                               ELSE Append(e[via[n].from], via[n].byte) ]
    OBVIOUS
  <2>2. Is(e, 0)
    <3> HIDE DEF e
    <3> QED BY <2>1
  <2> HIDE DEF e, Is
  <2> QED BY <2>2
<1>2. ASSUME NEW k \in 0 .. N - 1, k \in S PROVE k + 1 \in S
  <2>1. PICK f : Is(f, k)
    BY <1>2
  <2> DEFINE last == IF k + 1 = 1 THEN << >> ELSE Append(f[via[k + 1].from], via[k + 1].byte)
             g == [ n \in 1 .. k + 1 |-> IF n = k + 1 THEN last ELSE f[n] ]
  <2>2. k \in Nat /\ k + 1 \in 0 .. N
    OBVIOUS
  <2>3. \A n \in 1 .. k + 1 : g[n] = IF n = 1 THEN << >>
                                     ELSE Append(g[via[n].from], via[n].byte)
    <3> TAKE n \in 1 .. k + 1
    <3>0. n # 1 => via[n].from \in 1 .. n - 1
      BY <2>2 DEF IsVia
    <3>4. n # 1 => via[n].from \in 1 .. k + 1 /\ via[n].from # k + 1 /\ via[n].from \in 1 .. k
      BY <2>2, <3>0
    <3>5. n # 1 => g[via[n].from] = f[via[n].from]
      BY <3>4
    <3>1. CASE n = k + 1
      <4>1. g[n] = last
        BY <3>1
      <4> HIDE DEF g
      <4> QED BY <3>1, <3>5, <4>1
    <3>2. CASE n # k + 1
      <4>1. n \in 1 .. k /\ g[n] = f[n]
        BY <2>2, <3>2
      <4>3. f[n] = IF n = 1 THEN << >> ELSE Append(f[via[n].from], via[n].byte)
        BY <2>1, <4>1
      <4> HIDE DEF g
      <4> QED BY <3>5, <4>1, <4>3
    <3> QED BY <3>1, <3>2
  <2>4. g = [ n \in 1 .. k + 1 |-> g[n] ]
    OBVIOUS
  <2>5. Is(g, k + 1)
    <3> HIDE DEF g
    <3> QED BY <2>3, <2>4
  <2> HIDE DEF g, Is
  <2> QED BY <2>2, <2>5
<1>3. N \in S
  <2> HIDE DEF S
  <2>1. 0 .. N \subseteq S
    BY <1>1, <1>2, UpTo
  <2> QED BY <2>1
<1> DEFINE h == CHOOSE f : Is(f, N)
<1>4. Is(h, N)
  <2>1. PICK f : Is(f, N)
    BY <1>3
  <2> HIDE DEF Is
  <2> QED BY <2>1
<1>5. TrailTo(N, via) = h
  BY DEF TrailTo
<1> HIDE DEF h
<1>6. \A n \in 1 .. N : h[n] = IF n = 1 THEN << >> ELSE Append(h[via[n].from], via[n].byte)
  BY <1>4
<1> HIDE DEF Is
<1> DEFINE T == { k \in 0 .. N : \A n \in 1 .. k : h[n] \in Seq(Symbols) }
<1>7. 0 .. N \subseteq T
  <2>1. 0 \in T
    OBVIOUS
  <2>2. ASSUME NEW k \in 0 .. N - 1, k \in T PROVE k + 1 \in T
    <3>1. PICK m \in 1 .. N : m = k + 1
      OBVIOUS
    <3>2. \A n \in 1 .. k : h[n] \in Seq(Symbols)
      BY <2>2
    <3>3. h[m] \in Seq(Symbols)
      <4>1. CASE m = 1
        <5>1. h[m] = << >>
          BY <1>6, <4>1
        <5> QED BY <5>1
      <4>2. CASE m # 1
        <5>1. m \in 2 .. N
          BY <4>2
        <5>2. via[m].from \in 1 .. m - 1 /\ via[m].byte \in Symbols
          BY <5>1 DEF IsVia
        <5>3. via[m].from \in 1 .. k
          BY <3>1, <5>2
        <5>4. h[m] = Append(h[via[m].from], via[m].byte)
          BY <1>6, <4>2
        <5> QED BY <3>2, <5>2, <5>3, <5>4
      <4> QED BY <4>1, <4>2
    <3>4. \A n \in 1 .. k + 1 : n \in 1 .. k \/ n = m
      BY <3>1
    <3>5. k + 1 \in 0 .. N
      OBVIOUS
    <3> QED BY <3>2, <3>3, <3>4, <3>5
  <2> HIDE DEF T
  <2> QED BY <2>1, <2>2, UpTo
<1>8. \A n \in 1 .. N : h[n] \in Seq(Symbols)
  BY <1>7
<1>9. \A n \in 2 .. N : h[n] = Append(h[via[n].from], via[n].byte)
  <2> TAKE n \in 2 .. N
  <2>1. n \in 1 .. N /\ n # 1
    OBVIOUS
  <2> QED BY <1>6, <2>1
<1>10. N # 0 => h[1] = << >>
  <2> HAVE N # 0
  <2>1. 1 \in 1 .. N
    OBVIOUS
  <2> QED BY <1>6, <2>1
<1> QED BY <1>5, <1>8, <1>9, <1>10

(* They stay when further keys are admitted.                               *)
LEMMA TrailsStay ==
  ASSUME NEW N \in Nat, NEW M \in Nat, N <= M, NEW via, NEW more,
         IsVia(N, via), IsVia(M, more), SameVia(N, via, more)
  PROVE  \A n \in 1 .. N : TrailTo(M, more)[n] = TrailTo(N, via)[n]
<1> DEFINE old == TrailTo(N, via)
           new == TrailTo(M, more)
           S == { k \in 0 .. N : \A n \in 1 .. k : new[n] = old[n] }
<1>1. /\ N # 0 => old[1] = << >>
      /\ \A n \in 2 .. N : old[n] = Append(old[via[n].from], via[n].byte)
  BY TrailSteps
<1>2. /\ M # 0 => new[1] = << >>
      /\ \A n \in 2 .. M : new[n] = Append(new[more[n].from], more[n].byte)
  BY TrailSteps
<1> HIDE DEF old, new
<1>3. 0 \in S
  OBVIOUS
<1>4. ASSUME NEW k \in 0 .. N - 1, k \in S PROVE k + 1 \in S
  <2>1. PICK m \in 1 .. N : m = k + 1
    OBVIOUS
  <2>2. \A n \in 1 .. k : new[n] = old[n]
    BY <1>4
  <2>3. CASE m = 1
    BY <1>1, <1>2, <2>1, <2>3
  <2>4. CASE m # 1
    <3>1. m \in 2 .. N /\ m \in 2 .. M
      BY <2>4
    <3>2. via[m].from \in 1 .. m - 1
      BY <3>1 DEF IsVia
    <3>3. via[m].from \in 1 .. k /\ more[m] = via[m]
      BY <2>1, <3>1, <3>2 DEF SameVia
    <3>4. new[m] = old[m]
      <4>1. old[m] = Append(old[via[m].from], via[m].byte)
        BY <1>1, <3>1
      <4>2. new[m] = Append(new[more[m].from], more[m].byte)
        BY <1>2, <3>1
      <4>3. new[via[m].from] = old[via[m].from]
        BY <2>2, <3>3
      <4> QED BY <3>3, <4>1, <4>2, <4>3
    <3>5. \A n \in 1 .. k + 1 : n \in 1 .. k \/ n = m
      BY <2>1
    <3>6. k + 1 \in 0 .. N
      OBVIOUS
    <3> QED BY <2>2, <3>4, <3>5, <3>6
  <2> QED BY <2>3, <2>4
<1>5. N \in S
  <2> HIDE DEF S
  <2>1. 0 .. N \subseteq S
    BY <1>3, <1>4, UpTo
  <2> QED BY <2>1
<1> QED BY <1>5 DEF old, new

LEMMA SeqConcatAt ==
  ASSUME NEW s, NEW t, IsSeq(s), IsSeq(t)
  PROVE  /\ \A i \in 1 .. Len(s) : (s \o t)[i] = s[i]
         /\ \A i \in Len(s) + 1 .. Len(s) + Len(t) : (s \o t)[i] = t[i - Len(s)]
<1>1. PICK K : s \in Seq(K)
  BY DEF IsSeq
<1>2. PICK L : t \in Seq(L)
  BY DEF IsSeq
<1>3. s \in Seq(K \cup L) /\ t \in Seq(K \cup L)
  BY <1>1, <1>2
<1> QED BY <1>3

WithInit(D, s) == [D EXCEPT !.init = s]

(* Runs that read the same bytes from the same state on are the same.      *)
IsRun(D, N, q, t) == \A n \in 1 .. N : q[n] = NextState(D, q[n - 1], t[n])

LEMMA RunsAgree ==
  ASSUME NEW D, NEW N \in Nat, NEW q, NEW r, NEW t,
         IsRun(D, N, q, t), IsRun(D, N, r, t), q[0] = r[0]
  PROVE  \A n \in 0 .. N : q[n] = r[n]
<1> DEFINE S == { n \in 0 .. N : q[n] = r[n] }
<1>1. 0 \in S
  OBVIOUS
<1>2. ASSUME NEW n \in 0 .. N - 1, n \in S PROVE n + 1 \in S
  <2>1. n + 1 \in 1 .. N /\ (n + 1) - 1 = n
    OBVIOUS
  <2>2. q[n] = r[n]
    BY <1>2
  <2> QED BY <2>1, <2>2 DEF IsRun
<1>3. 0 .. N \subseteq S
  <2> HIDE DEF S
  <2> QED BY <1>1, <1>2, UpTo
<1> QED BY <1>3

LEMMA ConcatParts ==
  ASSUME NEW v \in Seq(Symbols), NEW w \in Seq(Symbols)
  PROVE  /\ v \o w \in Seq(Symbols) /\ Len(v \o w) = Len(v) + Len(w)
         /\ Len(v) \in Nat /\ Len(w) \in Nat
         /\ \A i \in 1 .. Len(v) : (v \o w)[i] = v[i]
         /\ \A i \in 1 .. Len(w) : (v \o w)[Len(v) + i] = w[i]
  OBVIOUS

(* The accepts of a run, and where the last of them is.                    *)
Accepts(D, s, w, from) ==
  { n \in 0 .. Len(w) - from :
      /\ StateAfter(WithInit(D, s), w, from)[n] # NoState
      /\ Accepting(D, StateAfter(WithInit(D, s), w, from)[n]) }

(* What is read behind a text is read as if there were no text.            *)
LEMMA MatchesShift ==
  ASSUME NEW D, NEW v \in Seq(Symbols), NEW w \in Seq(Symbols), NEW at_ \in 0 .. Len(w)
  PROVE  /\ MatchLengths(D, v \o w, Len(v) + at_) = MatchLengths(D, w, at_)
         /\ MatchLengths(D, w, at_) # {} =>
              AfterTokenAt(D, v \o w, Len(v) + at_) = Len(v) + AfterTokenAt(D, w, at_)
<1> DEFINE L == Len(v)
           N == Len(w) - at_
           q == StateAfter(D, v \o w, L + at_)
           r == StateAfter(D, w, at_)
           t == [ n \in 1 .. N |-> w[at_ + n] ]
<1>1. /\ N \in Nat /\ L \in Nat /\ L + at_ \in 0 .. Len(v \o w) /\ v \o w \in Seq(Symbols)
      /\ Len(v \o w) - (L + at_) = N
      /\ \A n \in 1 .. N : (v \o w)[(L + at_) + n] = w[at_ + n]
  <2>1. \A n \in 1 .. N : at_ + n \in 1 .. Len(w) /\ (L + at_) + n = L + (at_ + n)
    BY ConcatParts
  <2> QED BY <2>1, ConcatParts
<1>2. q[0] = D.init /\ \A n \in 1 .. N : q[n] = NextState(D, q[n - 1], w[at_ + n])
  <2>1. q[0] = D.init /\ \A n \in 1 .. Len(v \o w) - (L + at_) :
                            q[n] = NextState(D, q[n - 1], (v \o w)[(L + at_) + n])
    BY <1>1, StateAfterSteps
  <2> HIDE DEF q, L, N
  <2> QED BY <1>1, <2>1
<1>3. r[0] = D.init /\ \A n \in 1 .. N : r[n] = NextState(D, r[n - 1], w[at_ + n])
  BY StateAfterSteps
<1>4. \A n \in 1 .. N : t[n] = w[at_ + n]
  OBVIOUS
<1> HIDE DEF q, r, t
<1>5. \A n \in 0 .. N : q[n] = r[n]
  <2> HIDE DEF N, L
  <2>1. IsRun(D, N, q, t)
    BY <1>2, <1>4 DEF IsRun
  <2>2. IsRun(D, N, r, t)
    BY <1>3, <1>4 DEF IsRun
  <2>3. q[0] = r[0]
    BY <1>2, <1>3
  <2> QED BY <1>1, <2>1, <2>2, <2>3, RunsAgree
<1>6. MatchLengths(D, v \o w, L + at_) = MatchLengths(D, w, at_)
  <2>1. MatchLengths(D, v \o w, L + at_)
          = { n \in 1 .. N : q[n] # NoState /\ D.accept[q[n]] # NoToken }
    BY <1>1 DEF MatchLengths, q
  <2>2. MatchLengths(D, w, at_) = { n \in 1 .. N : r[n] # NoState /\ D.accept[r[n]] # NoToken }
    BY DEF MatchLengths, r
  <2> QED BY <1>5, <2>1, <2>2
<1>7. LongestMatch(D, v \o w, L + at_) = LongestMatch(D, w, at_)
  BY <1>6 DEF LongestMatch
<1>8. ASSUME MatchLengths(D, w, at_) # {}
      PROVE  AfterTokenAt(D, v \o w, L + at_) = L + AfterTokenAt(D, w, at_)
  <2>1. PICK n \in 1 .. N : n = LongestMatch(D, w, at_)
    BY <1>8, LongestMatchIsLongest
  <2> HIDE DEF L, N
  <2>2. (L + at_) + n = L + (at_ + n)
    BY <1>1
  <2> QED BY <1>7, <2>1, <2>2 DEF AfterTokenAt
<1> QED BY <1>6, <1>8

----------------------------------------------------------------------------
(* The scan of a tail, by itself and behind a text that repairs it.        *)
LEMMA BeginsFromSteps ==
  ASSUME NEW D, IsDfa(D), NEW w \in Seq(Symbols), NEW from \in 0 .. Len(w)
  PROVE  BeginsFrom(D, w, from) =
           IF MatchLengths(D, w, from) = {} THEN {}
           ELSE {from} \cup BeginsFrom(D, w, AfterTokenAt(D, w, from))
<1>1. TokenAt(D, w, from).begin = from
  BY DEF TokenAt
<1>2. TokensFrom(D, w, from) =
        IF MatchLengths(D, w, from) = {} THEN {}
        ELSE {TokenAt(D, w, from)} \cup TokensFrom(D, w, AfterTokenAt(D, w, from))
  BY TokensFromSteps
<1> QED BY <1>1, <1>2 DEF BeginsFrom

LEMMA ScanSteps ==
  ASSUME NEW D, IsDfa(D), NEW w \in Seq(Symbols), NEW from \in 0 .. Len(w)
  PROVE  /\ MatchLengths(D, w, from) = {} =>
              /\ SerialFrom(D, w)[from].consumed = from
              /\ BeginsFrom(D, w, from) = {}
         /\ MatchLengths(D, w, from) # {} =>
              /\ AfterTokenAt(D, w, from) \in from + 1 .. Len(w)
              /\ AfterTokenAt(D, w, from) \in 0 .. Len(w)
              /\ SerialFrom(D, w)[from].consumed
                   = SerialFrom(D, w)[AfterTokenAt(D, w, from)].consumed
              /\ BeginsFrom(D, w, from)
                   = {from} \cup BeginsFrom(D, w, AfterTokenAt(D, w, from))
<1> DEFINE now == SerialFrom(D, w)[from]
           rest == SerialFrom(D, w)[AfterTokenAt(D, w, from)]
           first == TokenAt(D, w, from)
<1>1. now = IF MatchLengths(D, w, from) = {} THEN [stream |-> << >>, consumed |-> from]
            ELSE [stream |-> <<first>> \o rest.stream, consumed |-> rest.consumed]
  BY SerialSteps
<1>2. MatchLengths(D, w, from) # {} => AfterTokenAt(D, w, from) \in from + 1 .. Len(w)
  BY LongestMatchIsLongest DEF AfterTokenAt
<1>3. MatchLengths(D, w, from) # {} => AfterTokenAt(D, w, from) \in 0 .. Len(w)
  BY <1>2
<1> HIDE DEF now, rest, first
<1>4. /\ MatchLengths(D, w, from) = {} => now.consumed = from
      /\ MatchLengths(D, w, from) # {} => now.consumed = rest.consumed
  BY <1>1
<1>5. /\ MatchLengths(D, w, from) = {} => BeginsFrom(D, w, from) = {}
      /\ MatchLengths(D, w, from) # {} =>
           BeginsFrom(D, w, from) = {from} \cup BeginsFrom(D, w, AfterTokenAt(D, w, from))
  BY BeginsFromSteps
<1> QED BY <1>2, <1>3, <1>4, <1>5 DEF now, rest

LEMMA SerialShifts ==
  ASSUME NEW D, IsDfa(D), NEW v \in Seq(Symbols), NEW w \in Seq(Symbols)
  PROVE  \A at_ \in 0 .. Len(w) :
           /\ SerialFrom(D, v \o w)[Len(v) + at_].consumed
                = Len(v) + SerialFrom(D, w)[at_].consumed
           /\ BeginsFrom(D, v \o w, Len(v) + at_) = { Len(v) + b : b \in BeginsFrom(D, w, at_) }
<1> DEFINE L == Len(v)
           N == Len(w)
           Shifts(x) == /\ SerialFrom(D, v \o w)[L + x].consumed = L + SerialFrom(D, w)[x].consumed
                        /\ BeginsFrom(D, v \o w, L + x) = { L + b : b \in BeginsFrom(D, w, x) }
           S == { x \in 0 .. N : Shifts(x) }
<1>1. N \in Nat /\ L \in Nat /\ v \o w \in Seq(Symbols) /\ Len(v \o w) = L + N
  BY ConcatParts
<1>2. ASSUME NEW x \in 0 .. N, \A y \in x + 1 .. N : y \in S
      PROVE  x \in S
  <2>1. L + x \in 0 .. Len(v \o w)
    BY <1>1
  <2>2. MatchLengths(D, v \o w, L + x) = MatchLengths(D, w, x)
    BY MatchesShift
  <2>3. CASE MatchLengths(D, w, x) = {}
    <3>1. SerialFrom(D, w)[x].consumed = x /\ BeginsFrom(D, w, x) = {}
      BY <2>3, ScanSteps
    <3>2. SerialFrom(D, v \o w)[L + x].consumed = L + x /\ BeginsFrom(D, v \o w, L + x) = {}
      BY <1>1, <2>1, <2>2, <2>3, ScanSteps
    <3>3. Shifts(x)
      BY <3>1, <3>2
    <3> QED BY <3>3
  <2>4. CASE MatchLengths(D, w, x) # {}
    <3>1. PICK y \in x + 1 .. N : y = AfterTokenAt(D, w, x)
      BY <2>4, LongestMatchIsLongest DEF AfterTokenAt
    <3>2. AfterTokenAt(D, v \o w, L + x) = L + y
      BY <2>4, <3>1, MatchesShift
    <3>3. /\ SerialFrom(D, w)[x].consumed = SerialFrom(D, w)[y].consumed
          /\ BeginsFrom(D, w, x) = {x} \cup BeginsFrom(D, w, y)
      BY <2>4, <3>1, ScanSteps
    <3>4. /\ SerialFrom(D, v \o w)[L + x].consumed = SerialFrom(D, v \o w)[L + y].consumed
          /\ BeginsFrom(D, v \o w, L + x) = {L + x} \cup BeginsFrom(D, v \o w, L + y)
      <4>1. PICK u \in 0 .. Len(v \o w) : u = L + x
        BY <2>1
      <4>2. PICK W \in Seq(Symbols) : W = v \o w
        BY <1>1
      <4>3. /\ SerialFrom(D, W)[u].consumed = SerialFrom(D, W)[AfterTokenAt(D, W, u)].consumed
            /\ BeginsFrom(D, W, u) = {u} \cup BeginsFrom(D, W, AfterTokenAt(D, W, u))
        BY <2>2, <2>4, <4>1, <4>2, ScanSteps
      <4> QED BY <3>2, <4>1, <4>2, <4>3
    <3>5. Shifts(y)
      BY <1>2
    <3>6. Shifts(x)
      BY <3>3, <3>4, <3>5
    <3> QED BY <3>6
  <2> QED BY <2>3, <2>4
<1>3. 0 .. N \subseteq S
  <2> HIDE DEF S, N
  <2> QED BY <1>1, <1>2, DownFrom
<1> QED BY <1>3

(* The rest of the tail tokenizes where the scan of it begun there comes   *)
(* to the end.                                                             *)
Scanned(D, w) == { at_ \in 0 .. Len(w) : SerialFrom(D, w)[at_].consumed = Len(w) }

LEMMA ScannedSteps ==
  ASSUME NEW D, IsDfa(D), NEW w \in Seq(Symbols), NEW at_ \in 0 .. Len(w)
  PROVE  /\ at_ = Len(w) => at_ \in Scanned(D, w)
         /\ at_ # Len(w) =>
              (at_ \in Scanned(D, w) <=>
                 MatchLengths(D, w, at_) # {} /\ AfterTokenAt(D, w, at_) \in Scanned(D, w))
<1>1. SerialFrom(D, w)[at_].consumed \in at_ .. Len(w)
  BY SerialType
<1>2. at_ = Len(w) => at_ \in Scanned(D, w)
  BY <1>1 DEF Scanned
<1>3. CASE MatchLengths(D, w, at_) = {}
  <2>1. SerialFrom(D, w)[at_].consumed = at_
    BY <1>3, ScanSteps
  <2> QED BY <1>2, <1>3, <2>1 DEF Scanned
<1>4. CASE MatchLengths(D, w, at_) # {}
  <2>2. SerialFrom(D, w)[at_].consumed = SerialFrom(D, w)[AfterTokenAt(D, w, at_)].consumed
    BY <1>4, ScanSteps
  <2>3. AfterTokenAt(D, w, at_) \in 0 .. Len(w) /\ AfterTokenAt(D, w, at_) # at_
    BY <1>4, ScanSteps
  <2> QED BY <1>2, <1>4, <2>2, <2>3 DEF Scanned
<1> QED BY <1>3, <1>4

----------------------------------------------------------------------------
(* A scan that comes to the end of the input passes an offset at a         *)
(* boundary or with a token read across it.                                *)
Passes(D, w, L, from, b) ==
  /\ b \in L .. Len(w)
  /\ SerialFrom(D, w)[b].consumed = Len(w)
  /\ \A x \in L .. Len(w) : x \in BeginsFrom(D, w, from) <=> x \in BeginsFrom(D, w, b)
  /\ \/ b = L
     \/ \E o \in 0 .. L - 1 : MatchLengths(D, w, o) # {} /\ AfterTokenAt(D, w, o) = b

LEMMA ScanPasses ==
  ASSUME NEW D, IsDfa(D), NEW w \in Seq(Symbols), NEW L \in 0 .. Len(w)
  PROVE  \A from \in 0 .. L : SerialFrom(D, w)[from].consumed = Len(w) =>
           \E b : Passes(D, w, L, from, b)
<1> DEFINE Ends(x) == SerialFrom(D, w)[x].consumed = Len(w)
           S == { x \in 0 .. L : Ends(x) => \E b : Passes(D, w, L, x, b) }
<1>1. L \in Nat /\ L \in 0 .. Len(w) /\ L \in L .. Len(w)
  OBVIOUS
<1>2. ASSUME NEW x \in 0 .. L, \A y \in x + 1 .. L : y \in S
      PROVE  x \in S
  <2>1. CASE x = L
    <3>1. Ends(x) => Passes(D, w, L, x, L)
      BY <1>1, <2>1 DEF Passes
    <3> QED BY <3>1
  <2>2. CASE x # L
    <3> SUFFICES ASSUME Ends(x) PROVE \E b : Passes(D, w, L, x, b)
      OBVIOUS
    <3>1. x \in 0 .. Len(w) /\ x \in 0 .. L - 1 /\ x # Len(w)
      BY <2>2
    <3>2. MatchLengths(D, w, x) # {}
      BY <3>1, ScanSteps
    <3>3. PICK y \in x + 1 .. Len(w) : y = AfterTokenAt(D, w, x)
      BY <3>1, <3>2, ScanSteps
    <3>4. /\ Ends(y)
          /\ BeginsFrom(D, w, x) = {x} \cup BeginsFrom(D, w, y)
      BY <3>1, <3>2, <3>3, ScanSteps
    <3>5. \A z \in L .. Len(w) : z \in BeginsFrom(D, w, x) <=> z \in BeginsFrom(D, w, y)
      BY <3>1, <3>4
    <3> HIDE DEF Ends
    <3>6. CASE y <= L
      <4>1. y \in x + 1 .. L
        BY <3>6
      <4>2. PICK b : Passes(D, w, L, y, b)
        BY <1>2, <3>4, <4>1
      <4>3. Passes(D, w, L, x, b)
        BY <3>5, <4>2 DEF Passes
      <4> QED BY <4>3
    <3>7. CASE ~ (y <= L)
      <4>1. y \in L .. Len(w)
        BY <3>7
      <4>2. Passes(D, w, L, x, y)
        BY <3>1, <3>2, <3>3, <3>4, <3>5, <4>1 DEF Passes, Ends
      <4> QED BY <4>2
    <3> QED BY <3>6, <3>7
  <2> QED BY <2>1, <2>2
<1>3. 0 .. L \subseteq S
  <2> HIDE DEF S
  <2> QED BY <1>1, <1>2, DownFrom
<1> QED BY <1>3
=============================================================================
