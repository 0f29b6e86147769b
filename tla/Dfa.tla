------------------------------- MODULE Dfa -------------------------------
(***************************************************************************)
(* The deterministic automaton a lexer is compiled to, and what the        *)
(* constructor of dfa::Simulator derives from it: the fresh start of a     *)
(* nullable token set, the live states, and the certified split points.    *)
(*                                                                         *)
(* A symbol stands for one byte of the 256: the rows of the transition     *)
(* table that equal symbols share are left out.  A token is its ID.        *)
(***************************************************************************)
EXTENDS Integers, Sequences

CONSTANTS Symbols,      \* the bytes
          TokenIds,     \* dfa::Token::id()
          NoState,      \* Simulator::no_state_, the table's "no transition"
          NoToken       \* a state that accepts nothing

ASSUME DfaAssumption ==
  /\ NoState \notin Nat
  /\ NoToken \notin TokenIds

States(D) == 0 .. D.count - 1

IsDfa(D) ==
  /\ D.count \in Nat \ {0}
  /\ D.init \in States(D)
  /\ D.next \in [States(D) -> [Symbols -> States(D) \cup {NoState}]]
  /\ D.accept \in [States(D) -> TokenIds \cup {NoToken}]

Accepting(D, s) == D.accept[s] # NoToken

----------------------------------------------------------------------------
(* A nullable token set starts anew in a copy of its initial state that    *)
(* accepts nothing, so that no scan can match the empty string.            *)
UnrollStart(D) ==
  IF ~ Accepting(D, D.init) THEN D
  ELSE LET start == D.count
       IN [ count  |-> D.count + 1,
            init   |-> start,
            next   |-> [ s \in 0 .. D.count |->
                           D.next[IF s = start THEN D.init ELSE s] ],
            accept |-> [ s \in 0 .. D.count |->
                           IF s = start THEN NoToken ELSE D.accept[s] ] ]

(* The least set that holds the seeds and every state with a transition    *)
(* into the set: what the worklist of closed_backward() computes.          *)
ClosedBackward(D, seeds) ==
  { s \in States(D) :
      \A C \in SUBSET States(D) :
        /\ seeds \subseteq C
        /\ \A r \in States(D), a \in Symbols : D.next[r][a] \in C => r \in C
        => s \in C }

CoAccessible(D) == ClosedBackward(D, { s \in States(D) : Accepting(D, s) })

(* The least set that holds the initial state and is closed under steps.   *)
Reachable(D) ==
  { s \in States(D) :
      \A C \in SUBSET States(D) :
        /\ D.init \in C
        /\ \A r \in C, a \in Symbols :
             D.next[r][a] # NoState => D.next[r][a] \in C
        => s \in C }

Live(D) == Reachable(D) \cap CoAccessible(D)

(* Whether a scan that left the initial state can be back in it.           *)
InitReentrant(D) ==
  \E s \in Reachable(D), a \in Symbols : D.next[s][a] = D.init

----------------------------------------------------------------------------
(* What a discarding caller can tell of a state: nothing, that a token was *)
(* discarded, or which one was kept.                                       *)
ObservedColour(D, discarded, s) ==
  IF s = NoState THEN <<"nonaccepting", NoToken>>
  ELSE IF ~ Accepting(D, s) THEN <<"nonaccepting", NoToken>>
  ELSE IF D.accept[s] \in discarded THEN <<"discarded", NoToken>>
  ELSE <<"kept", D.accept[s]>>

(* The colours taken for the classes, the futures not compared.            *)
ObservedClassesUnrefined(D, discarded) ==
  LET nodes == States(D) \cup {NoState}
  IN { p \in nodes \X nodes :
         ObservedColour(D, discarded, p[1]) = ObservedColour(D, discarded, p[2]) }

(* Moore's refinement of the states and the sink by colour: the pairs that *)
(* share a class.                                                          *)
ObservedClasses(D, discarded) ==
  LET nodes == States(D) \cup {NoState}
      step(s, a) == IF s = NoState THEN NoState ELSE D.next[s][a]
      alike[n \in 0 .. D.count] ==
        IF n = 0
        THEN { p \in nodes \X nodes :
                 ObservedColour(D, discarded, p[1]) = ObservedColour(D, discarded, p[2]) }
        ELSE LET coarser == alike[n - 1]
             IN { p \in coarser :
                    \A a \in Symbols : <<step(p[1], a), step(p[2], a)>> \in coarser }
  IN alike[D.count]

(* The initial state exempted though a scan can come back to it.           *)
ExemptAlways(D) == {D.init}

(* In the initial state a token begins, unless a scan can come back to it. *)
Exempt(D) == IF InitReentrant(D) THEN {} ELSE {D.init}

(* The symbols every occurrence of which begins a token of a completely    *)
(* tokenizable input, up to the tokens of the discarded kinds.             *)
SplitPoints(D, discarded) ==
  LET acceptsDiscarded == { s \in States(D) : D.accept[s] \in discarded }
      acceptsKept == { s \in States(D) : Accepting(D, s) } \ acceptsDiscarded
      reachesKept == ClosedBackward(D, acceptsKept)
      reachable == Reachable(D)
      coAccessible == CoAccessible(D)
      observed == ObservedClasses(D, discarded)
      consumers(a) == { s \in reachable : D.next[s][a] \in coAccessible }
      harmless(a, s) ==
        /\ s \in acceptsDiscarded
        /\ D.next[s][a] \notin reachesKept
        /\ <<D.next[s][a], D.next[D.init][a]>> \in observed
  IN { a \in Symbols :
         /\ D.init \in consumers(a)
         /\ \A s \in consumers(a) \ Exempt(D) : harmless(a, s) }

(* The tables of the simulator: those the scans read, the entry state of   *)
(* the start of an empty match, and the certificates.                      *)
Simulator(D, ignored) ==
  LET C == UnrollStart(D)
  IN [ count  |-> C.count,
       init   |-> C.init,
       next   |-> C.next,
       accept |-> C.accept,
       empty  |-> IF Accepting(D, D.init) THEN D.init ELSE NoState,
       init_reentrant |-> InitReentrant(C),
       live   |-> Live(C),
       split_points |-> SplitPoints(C, {}),
       split_points_ignoring |-> SplitPoints(C, ignored) ]

----------------------------------------------------------------------------
(* The reference the scans are compared with: the state the automaton is   *)
(* in after n bytes of w from offset from, and the longest match there.    *)
StateAfter(D, w, from) ==
  LET after[n \in 0 .. Len(w) - from] ==
        IF n = 0 THEN D.init
        ELSE LET s == after[n - 1]
             IN IF s = NoState THEN NoState ELSE D.next[s][w[from + n]]
  IN after

MatchLengths(D, w, from) ==
  LET after == StateAfter(D, w, from)
  IN { n \in 1 .. Len(w) - from : after[n] # NoState /\ D.accept[after[n]] # NoToken }

LongestMatch(D, w, from) ==
  LET lengths == MatchLengths(D, w, from)
  IN CHOOSE n \in lengths : \A m \in lengths : m <= n

(* The whole serial scan of w from any offset: its tokens and the offset   *)
(* it ends at.                                                             *)
SerialFrom(D, w) ==
  LET scan[from \in 0 .. Len(w)] ==
        IF MatchLengths(D, w, from) = {}
        THEN [stream |-> << >>, consumed |-> from]
        ELSE LET n == LongestMatch(D, w, from)
                 s == StateAfter(D, w, from)[n]
                 rest == scan[from + n]
             IN [ stream   |-> <<[begin |-> from, length |-> n,
                                  token |-> D.accept[s]]>> \o rest.stream,
                  consumed |-> rest.consumed ]
  IN scan

Serial(D, w) == SerialFrom(D, w)[0]
=============================================================================
