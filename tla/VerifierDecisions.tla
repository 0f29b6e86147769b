-------------------------- MODULE VerifierDecisions --------------------------
(***************************************************************************)
(* A verifier (verifier.hpp) accepts the inputs of a segmentation policy   *)
(* with their boundaries marked. It is built from a table a caller gives,  *)
(* or, by armed_run(), from the automaton of a token set, whose policy is  *)
(* maximal munch; the constructor trims the table.                         *)
(*                                                                         *)
(* A marked symbol is a byte and whether a boundary follows it. A table is *)
(* [start, next, accept, closes, finals]: its next states by <<state,      *)
(* byte, mark>>, and the kinds of the segments, by the step that closes    *)
(* one and by the state the input ends in.                                 *)
(*                                                                         *)
(* The decisions over a verifier (verifier_decisions.hpp): each is a       *)
(* search on a product with the verifier, or on its minimal automaton, and *)
(* what it refutes comes with a marked string to replay. A marked string   *)
(* is a sequence of marked symbols; a decision that has no witness returns *)
(* the empty set, one that has it the set of the witness.                  *)
(***************************************************************************)
EXTENDS Dfa, SequencesExt

CONSTANT Bytes          \* the symbols in the order of their values

(* Where a byte stands in the order of the bytes.                          *)
Index(b) == CHOOSE i \in DOMAIN Bytes : Bytes[i] = b

(* The marked symbols in their order.                                      *)
MarkedSymbols ==
  [ i \in 1 .. 2 * Len(Bytes) |-> <<Bytes[(i + 1) \div 2], i % 2 = 0>> ]

(* The keys a search admits, in the order in which it first reaches them.  *)
BreadthFirst(first, Onward(_)) ==
  LET RECURSIVE admitted(_, _)
      admitted(order, n) ==
        IF n > Len(order) THEN order
        ELSE LET reached == FoldLeft(LAMBDA seen, k : IF Contains(seen, k) THEN seen
                                                      ELSE Append(seen, k),
                                     order, Onward(order[n]))
             IN admitted(reached, n + 1)
  IN admitted(<<first>>, 1)

Numbered(order, k) == (CHOOSE n \in DOMAIN order : order[n] = k) - 1

----------------------------------------------------------------------------
(* A configuration of the armed-run automaton: the run begun at the last   *)
(* boundary, and those begun at earlier ones and still alive.  The start   *)
(* is a state of its own, though it reads as a configuration another       *)
(* state may have.                                                         *)
Unconsumed(D) == [entered |-> FALSE, unarmed |-> D.init, armed |-> {}]

(* An armed run that accepts not held against the boundary it crosses.     *)
ConfigurationsAfterUnrefused(D, c, symbol) ==
  LET unarmed == D.next[c.unarmed][symbol[1]]
      armed == { D.next[s][symbol[1]] : s \in c.armed } \ {NoState}
  IN IF \/ unarmed = NoState
        \/ symbol[2] /\ ~ Accepting(D, unarmed)
     THEN {}
     ELSE {[ entered |-> TRUE,
             unarmed |-> IF symbol[2] THEN D.init ELSE unarmed,
             armed   |-> IF symbol[2] THEN armed \cup {unarmed} ELSE armed ]}

ConfigurationsAfter(D, c, symbol) ==
  LET unarmed == D.next[c.unarmed][symbol[1]]
      armed == { D.next[s][symbol[1]] : s \in c.armed } \ {NoState}
  IN IF \/ unarmed = NoState
        \/ \E s \in armed : Accepting(D, s)
        \/ symbol[2] /\ ~ Accepting(D, unarmed)
     THEN {}
     ELSE {[ entered |-> TRUE,
             unarmed |-> IF symbol[2] THEN D.init ELSE unarmed,
             armed   |-> IF symbol[2] THEN armed \cup {unarmed} ELSE armed ]}

IsAcceptingConfiguration(D, c) ==
  Accepting(D, c.unarmed) /\ \A s \in c.armed : ~ Accepting(D, s)

(* The table armed_run() hands to the constructor.                         *)
ArmedTable(D) ==
  LET after(c) == FlattenSeq([ i \in DOMAIN MarkedSymbols |->
                    SetToSeq(ConfigurationsAfter(D, c, MarkedSymbols[i])) ])
      order == BreadthFirst(Unconsumed(D), after)
      states == 0 .. Len(order) - 1
      steps == { k \in states \X Symbols \X BOOLEAN :
                   ConfigurationsAfter(D, order[k[1] + 1], <<k[2], k[3]>>) # {} }
      entering(k) == CHOOSE c \in ConfigurationsAfter(D, order[k[1] + 1], <<k[2], k[3]>>) : TRUE
      ends == { s \in states \ {0} : IsAcceptingConfiguration(D, order[s + 1]) }
  IN [ start  |-> 0,
       next   |-> [ k \in steps |-> Numbered(order, entering(k)) ],
       accept |-> {0} \cup ends,
       closes |-> [ k \in { s \in steps : s[3] } |->
                      D.accept[D.next[order[k[1] + 1].unarmed][k[2]]] ],
       finals |-> [ s \in ends |-> D.accept[order[s + 1].unarmed] ] ]

----------------------------------------------------------------------------
(* The states from which acceptance is reached.                            *)
Coaccessible(T) ==
  LET RECURSIVE grown(_)
      grown(S) == LET more == S \cup { k[1] : k \in { s \in DOMAIN T.next : T.next[s] \in S } }
                  IN IF more = S THEN S ELSE grown(more)
  IN grown(T.accept)

HighestState(T) ==
  Max({T.start} \cup T.accept \cup { k[1] : k \in DOMAIN T.next }
                \cup { T.next[k] : k \in DOMAIN T.next })

(* The verifier of a table: its useful states, the start kept in any case, *)
(* numbered as they are met; a step into the start enters a copy of it.    *)
Trimmed(T, copy) ==
  LET live == Coaccessible(T)
      named(s) == IF s = copy THEN T.start ELSE s
      entered(s) == IF s = T.start THEN copy ELSE s
      useful(s) ==
        SelectSeq(MarkedSymbols, LAMBDA a : /\ <<named(s), a[1], a[2]>> \in DOMAIN T.next
                                            /\ T.next[<<named(s), a[1], a[2]>>] \in live)
      onward(s) == [ i \in DOMAIN useful(s) |->
                       entered(T.next[<<named(s), useful(s)[i][1], useful(s)[i][2]>>]) ]
      order == BreadthFirst(T.start, onward)
      states == 0 .. Len(order) - 1
      source(k) == <<named(order[k[1] + 1]), k[2], k[3]>>
      steps == { k \in states \X Symbols \X BOOLEAN :
                   /\ source(k) \in DOMAIN T.next
                   /\ T.next[source(k)] \in live }
  IN [ count  |-> Len(order),
       start  |-> 0,
       next   |-> [ k \in steps |-> Numbered(order, entered(T.next[source(k)])) ],
       accept |-> { s \in states : named(order[s + 1]) \in T.accept },
       closes |-> [ k \in { s \in steps : source(s) \in DOMAIN T.closes } |->
                      T.closes[source(k)] ],
       finals |-> [ s \in { n \in states : named(order[n + 1]) \in DOMAIN T.finals } |->
                      T.finals[named(order[s + 1])] ] ]

Trim(T) == Trimmed(T, HighestState(T) + 1)

ArmedRun(D) == Trim(ArmedTable(D))

----------------------------------------------------------------------------
NoStep == -1        \* a step that is refused
NoKind == -1        \* a segment whose kind is not recorded

Step(V, s, symbol) ==
  IF <<s, symbol[1], symbol[2]>> \in DOMAIN V.next THEN V.next[<<s, symbol[1], symbol[2]>>]
  ELSE NoStep

Accepts(V, s) == s \in V.accept

CloseKind(V, s, b) ==
  IF <<s, b, TRUE>> \in DOMAIN V.closes THEN V.closes[<<s, b, TRUE>>] ELSE NoKind

FinalKind(V, s) == IF s \in DOMAIN V.finals THEN V.finals[s] ELSE NoKind

----------------------------------------------------------------------------
Witness(S) == CHOOSE x \in S : TRUE

(* The steps from a state, and the keys they lead a search to: Keys gives  *)
(* a sequence of keys for a symbol and the state it enters.                *)
Onward(V, s) == SelectSeq(MarkedSymbols, LAMBDA a : Step(V, s, a) # NoStep)

Led(symbol, reached) == [ j \in DOMAIN reached |-> <<symbol, reached[j]>> ]

ChildrenBy(V, s, symbols, Keys(_, _)) ==
  LET led(symbol) == Led(symbol, Keys(symbol, Step(V, s, symbol)))
      each(onward) == [ i \in DOMAIN onward |-> led(onward[i]) ]
  IN FlattenSeq(each(SelectSeq(symbols, LAMBDA a : Step(V, s, a) # NoStep)))

Children(V, s, Keys(_, _)) == ChildrenBy(V, s, MarkedSymbols, Keys)

StateSteps(V, s) == Children(V, s, LAMBDA symbol, to : <<to>>)

(* Breadth first from a key: the path to the first admitted key that is a  *)
(* goal, as the symbols read and the keys reached.                         *)
ShortestPath(first, Goal(_), Expand(_)) ==
  LET admit(tree, at_, child) ==
        IF child[2] \in tree.seen THEN tree
        ELSE [ paths |-> Append(tree.paths,
                           [ symbols |-> Append(at_.symbols, child[1]),
                             reached |-> Append(at_.reached, child[2]) ]),
               seen  |-> tree.seen \cup {child[2]} ]
      RECURSIVE found(_, _)
      found(tree, n) ==
        IF n > Len(tree.paths) THEN {}
        ELSE IF Goal(Last(tree.paths[n].reached)) THEN {tree.paths[n]}
        ELSE found(FoldLeft(LAMBDA t, child : admit(t, tree.paths[n], child),
                            tree, Expand(Last(tree.paths[n].reached))), n + 1)
  IN found([ paths |-> <<[symbols |-> << >>, reached |-> <<first>>]>>, seen |-> {first} ], 1)

----------------------------------------------------------------------------
TextOf(marked) == [ i \in DOMAIN marked |-> marked[i][1] ]

(* A mismatch taken to leave nothing of the window matched.                *)
MatchedAfterForgetful(w, matched, b) ==
  IF matched < Len(w) /\ w[matched + 1] = b THEN matched + 1 ELSE 0

(* How much of the window the text's end matches after one more byte.      *)
MatchedAfter(w, matched, b) ==
  LET text == Append(SubSeq(w, 1, matched), b)
  IN Max({ m \in 0 .. Len(text) :
             m <= Len(w) /\ SubSeq(w, 1, m) = SubSeq(text, Len(text) - m + 1, Len(text)) })

(* Where the token that covers a byte begins.                              *)
CoveringBoundary(marked, i) == Max({0} \cup { n \in 1 .. i : marked[n][2] })

OccurrencesIn(text, w) ==
  { at_ \in 0 .. Len(text) - Len(w) : SubSeq(text, at_ + 1, at_ + Len(w)) = w }

MissedOccurrence(marked, w, byte, origin) ==
  Min({ at_ \in OccurrencesIn(TextOf(marked), w) :
          CoveringBoundary(marked, at_ + byte) # at_ + origin })

(* Whether the marks before the bytes of an occurrence place the token     *)
(* that covers one of them at the origin.                                  *)
Covers(marks, byte, origin) ==
  marks[origin + 1] /\ \A i \in origin + 2 .. byte + 1 : ~ marks[i]

(* The shortest accepted marked string with an occurrence whose marks are  *)
(* refused.                                                                *)
FirstMiss(V, w, Covered(_)) ==
  LET next(k, symbol, to) ==
        LET matched == MatchedAfter(w, k.matched, symbol[1])
        IN [ state |-> to, matched |-> matched, marks |-> Append(Tail(k.marks), symbol[2]),
             missed |-> k.missed \/ (matched = Len(w) /\ ~ Covered(k.marks)) ]
      first == [ state |-> V.start, matched |-> 0,
                 marks |-> [ i \in DOMAIN w |-> i = Len(w) ], missed |-> FALSE ]
      paths == ShortestPath(first, LAMBDA k : k.missed /\ Accepts(V, k.state),
                 LAMBDA k : Children(V, k.state, LAMBDA symbol, to : <<next(k, symbol, to)>>))
  IN { p.symbols : p \in paths }

Miscovering(V, w, origin) ==
  LET last == Len(w) - 1
  IN { [ segmentation |-> marked, occurrence |-> MissedOccurrence(marked, w, last, origin) ] :
         marked \in FirstMiss(V, w, LAMBDA marks : Covers(marks, last, origin)) }

(* The offset is read off the first string that holds the window, and is   *)
(* the answer unless a second search refutes it.                           *)
PinnedCut(V, w, byte) ==
  LET holding == FirstMiss(V, w, LAMBDA marks : FALSE)
      first == Witness(holding)
      at_ == Min(OccurrencesIn(TextOf(first), w))
      begin == CoveringBoundary(first, at_ + byte)
      refutations == FirstMiss(V, w, LAMBDA marks : Covers(marks, byte, begin - at_))
      refutation == Witness(refutations)
  IN IF holding = {} THEN [verdict |-> "absent"]
     ELSE IF begin < at_
     THEN [verdict |-> "refuted", segmentation |-> first, occurrence |-> at_]
     ELSE IF refutations = {} THEN [verdict |-> "pinned", offset |-> begin - at_]
     ELSE [ verdict |-> "refuted", segmentation |-> refutation,
            occurrence |-> MissedOccurrence(refutation, w, byte, begin - at_) ]

----------------------------------------------------------------------------
DomainIsEmpty(V) == ~ Accepts(V, V.start) /\ DOMAIN V.next = {}

(* The states at the end of a markless path of n steps.  As many steps as  *)
(* there are states leave those on a cycle or after one.                   *)
MarklessEnds(V) ==
  LET ends[n \in 0 .. V.count] ==
        IF n = 0 THEN 0 .. V.count - 1
        ELSE LET shorter == ends[n - 1]
             IN { V.next[k] : k \in { e \in DOMAIN V.next : ~ e[3] /\ e[1] \in shorter } }
  IN ends

LongestSegment(V) ==
  LET ends == MarklessEnds(V)
      longest(s) == Max({ n \in 0 .. V.count : s \in ends[n] })
  IN Max({0} \cup { longest(s) : s \in V.accept }
             \cup { longest(k[1]) + 1 : k \in { e \in DOMAIN V.next : e[3] } })

(* Back along markless steps among the unordered states, from the first of *)
(* them, until one repeats.                                                *)
MarklessCycle(V, unordered) ==
  LET into(s) == { k \in DOMAIN V.next : ~ k[3] /\ V.next[k] = s /\ k[1] \in unordered }
      least(s) == CHOOSE k \in into(s) : \A e \in into(s) :
                    k[1] < e[1] \/ (k[1] = e[1] /\ Index(k[2]) <= Index(e[2]))
      RECURSIVE walked(_, _)
      walked(states, symbols) ==
        LET step == least(Last(states))
        IN IF \E i \in 1 .. Len(states) - 1 : states[i] = Last(states)
           THEN LET from == Min({ i \in DOMAIN states : states[i] = Last(states) })
                IN [root |-> Last(states),
                    loop |-> Reverse(SubSeq(symbols, from, Len(symbols)))]
           ELSE walked(Append(states, step[1]), Append(symbols, <<step[2], FALSE>>))
  IN walked(<<Min(unordered)>>, << >>)

StatePath(V, from, Goal(_)) ==
  Witness(ShortestPath(from, Goal, LAMBDA s : StateSteps(V, s))).symbols

BoundaryGap(V) ==
  LET unordered == MarklessEnds(V)[V.count]
      cycle == MarklessCycle(V, unordered)
  IN IF unordered = {} THEN [bounded |-> TRUE, gap |-> LongestSegment(V)]
     ELSE [ bounded |-> FALSE,
            stem   |-> StatePath(V, V.start, LAMBDA s : s = cycle.root),
            loop   |-> cycle.loop,
            suffix |-> StatePath(V, cycle.root, LAMBDA s : Accepts(V, s)) ]

(* Each state's steps: in a trim verifier all of them keep completion      *)
(* possible.                                                               *)
Realizable(V) ==
  IF DomainIsEmpty(V) THEN {}
  ELSE {[ s \in 0 .. V.count - 1 |-> Onward(V, s) ]}

----------------------------------------------------------------------------
(* The states a byte leads some states to under either mark.               *)
SubsetAfter(V, S, b) == { Step(V, s, <<b, m>>) : s \in S, m \in BOOLEAN } \ {NoStep}

AcceptsAny(V, S) == S \cap V.accept # {}

InDomain(V, text) == AcceptsAny(V, FoldLeft(LAMBDA S, b : SubsetAfter(V, S, b), {V.start}, text))

(* A marking that reads a text from a state to an end.                     *)
MarkingBetween(V, from, text, Ends(_)) ==
  LET onward(k) ==
        SelectSeq(Children(V, k.state, LAMBDA symbol, to : <<[read |-> k.read + 1, state |-> to]>>),
                  LAMBDA child : k.read < Len(text) /\ child[1][1] = text[k.read + 1])
  IN Witness(ShortestPath([read |-> 0, state |-> from],
                          LAMBDA k : k.read = Len(text) /\ Ends(k.state), onward)).symbols

AcceptedMarking(V, text) == MarkingBetween(V, V.start, text, LAMBDA s : Accepts(V, s))

BoundaryDivergence(A, B) ==
  LET paired(k, symbol, to) ==
        LET able == SelectSeq(<<FALSE, TRUE>>, LAMBDA m : Step(B, k.b, <<symbol[1], m>>) # NoStep)
        IN [ i \in DOMAIN able |->
               [ a |-> to, b |-> Step(B, k.b, <<symbol[1], able[i]>>),
                 differed |-> k.differed \/ able[i] # symbol[2] ] ]
      paths == ShortestPath([a |-> A.start, b |-> B.start, differed |-> FALSE],
                 LAMBDA k : k.differed /\ Accepts(A, k.a) /\ Accepts(B, k.b),
                 LAMBDA k : Children(A, k.a, LAMBDA symbol, to : paired(k, symbol, to)))
  IN { p.symbols : p \in paths }

DomainDivergence(A, B) ==
  LET after(k, b) == [a |-> SubsetAfter(A, k.a, b), b |-> SubsetAfter(B, k.b, b)]
      able(k) == SelectSeq(Bytes, LAMBDA b : after(k, b).a # {} \/ after(k, b).b # {})
      onward(k) == [ i \in DOMAIN able(k) |-> <<<<able(k)[i], FALSE>>, after(k, able(k)[i])>> ]
      paths == ShortestPath([a |-> {A.start}, b |-> {B.start}],
                 LAMBDA k : AcceptsAny(A, k.a) # AcceptsAny(B, k.b), onward)
  IN { AcceptedMarking(IF InDomain(A, TextOf(p.symbols)) THEN A ELSE B, TextOf(p.symbols)) :
         p \in paths }

(* The boundary half first.                                                *)
Divergence(A, B) ==
  LET boundary == { [witness |-> w, half |-> "boundary"] : w \in BoundaryDivergence(A, B) }
  IN IF boundary # {} THEN boundary
     ELSE { [witness |-> w, half |-> "domain"] : w \in DomainDivergence(A, B) }

----------------------------------------------------------------------------
CertifiedBy(V, w, origin) == Miscovering(V, w, origin) = {}

(* Whether the prefix that ends with a symbol is accepted, its last symbol *)
(* carrying no boundary.                                                   *)
EndsRefused(V, s, b) == Step(V, s, <<b, FALSE>>) \notin V.accept

(* Two phases: until the cut is placed, on a marked byte with the first    *)
(* bytes of the window just read, and after it, where a copy begun at the  *)
(* cut reads what the continuing one reads.                                *)
Dependence(V, w, origin) ==
  LET head == SubSeq(w, 1, origin)
      rest == SubSeq(w, origin + 1, Len(w))
      key(cut, s, restarted, matched, fails) ==
        [cut |-> cut, state |-> s, restarted |-> restarted, matched |-> matched,
         prefix_fails |-> fails]
      suffixFails(k) == k.restarted \notin V.accept
      goal(k) == /\ k.cut /\ k.matched = Len(rest) /\ Accepts(V, k.state)
                 /\ k.prefix_fails \/ suffixFails(k)
      after(k, symbol, to) ==
        IF k.matched < Len(rest) /\ symbol[1] # rest[k.matched + 1] THEN << >>
        ELSE <<key(TRUE, to,
                   IF k.restarted = NoStep THEN NoStep ELSE Step(V, k.restarted, symbol),
                   Min({k.matched + 1, Len(rest)}), k.prefix_fails)>>
      before(k, symbol, to) ==
        LET matched == MatchedAfter(head, k.matched, symbol[1])
        IN <<key(FALSE, to, NoStep, matched, FALSE)>>
             \o IF symbol[2] /\ matched = origin
                THEN <<key(TRUE, to, V.start, 0, EndsRefused(V, k.state, symbol[1]))>>
                ELSE << >>
      first == key(FALSE, V.start, NoStep, 0, FALSE)
      atZero == key(TRUE, V.start, V.start, 0, ~ Accepts(V, V.start))
      expandAfter(k) == Children(V, k.state, LAMBDA symbol, to : after(k, symbol, to))
      expand(k) ==
        IF k.cut THEN expandAfter(k)
        ELSE Children(V, k.state, LAMBDA symbol, to : before(k, symbol, to))
               \o IF origin = 0 /\ k = first THEN expandAfter(atZero) ELSE << >>
      placed(path) == { n \in DOMAIN path.reached :
                          path.reached[n].cut /\ path.reached[n].restarted = V.start }
      verdict(path) ==
        LET cut == IF placed(path) = {} THEN 0 ELSE Min(placed(path)) - 1
        IN [ segmentation |-> path.symbols, occurrence |-> cut - origin, cut |-> cut,
             prefix_fails |-> Last(path.reached).prefix_fails,
             suffix_fails |-> suffixFails(Last(path.reached)) ]
  IN { verdict(p) : p \in ShortestPath(first, goal, expand) }

----------------------------------------------------------------------------
(* Modulo discarded kinds.  Two products follow an input whose prefix is   *)
(* cut off and whose suffix begins anew: the domain product carries the    *)
(* state on the input's marking and the states possible under any marks of *)
(* the chunk; the agreement product a state on the input's marking, one on *)
(* the chunks', whether their segments began together, and whether one has *)
(* closed a kept segment the other has not.                                *)
KeptKind(kind, discarded) == IF kind \in discarded THEN NoKind ELSE kind

ClosedKind(V, discarded, s, symbol) ==
  IF symbol[2] THEN KeptKind(CloseKind(V, s, symbol[1]), discarded) ELSE NoKind

Agree(kind, otherKind, aligned) == kind = otherKind /\ (kind = NoKind \/ aligned)

PairRoot(V) == [whole |-> V.start, chunk |-> V.start, aligned |-> TRUE, differs |-> FALSE]

PairAtZero(V) == IF Accepts(V, V.start) THEN <<PairRoot(V)>> ELSE << >>

PairStep(V, discarded, k, whole, to) ==
  LET b == whole[1]
      able == SelectSeq(<<<<b, FALSE>>, <<b, TRUE>>>>, LAMBDA a : Step(V, k.chunk, a) # NoStep)
      closed(a) == ClosedKind(V, discarded, k.chunk, a)
  IN [ i \in DOMAIN able |->
         [ whole   |-> to,
           chunk   |-> Step(V, k.chunk, able[i]),
           aligned |-> whole[2] = able[i][2] /\ (whole[2] \/ k.aligned),
           differs |-> \/ k.differs
                       \/ ~ Agree(ClosedKind(V, discarded, k.whole, whole),
                                  closed(able[i]), k.aligned) ] ]

PairCut(V, discarded, k, whole, to) ==
  LET ending == Step(V, k.chunk, <<whole[1], FALSE>>)
  IN IF ending \notin V.accept THEN << >>
     ELSE <<[ whole |-> to, chunk |-> V.start, aligned |-> whole[2],
              differs |-> \/ k.differs
                          \/ ~ Agree(ClosedKind(V, discarded, k.whole, whole),
                                     KeptKind(FinalKind(V, ending), discarded), k.aligned) ]>>

PairRefutes(V, discarded, k) ==
  /\ Accepts(V, k.whole) /\ Accepts(V, k.chunk)
  /\ \/ k.differs
     \/ ~ Agree(KeptKind(FinalKind(V, k.whole), discarded),
                KeptKind(FinalKind(V, k.chunk), discarded), k.aligned)

DomainRoot(V) == [whole |-> V.start, reach |-> {V.start}, prefix_fails |-> FALSE]

DomainAtZero(V) ==
  <<[whole |-> V.start, reach |-> {V.start}, prefix_fails |-> ~ Accepts(V, V.start)]>>

DomainStep(V, k, symbol, to) ==
  <<[ whole |-> to, reach |-> SubsetAfter(V, k.reach, symbol[1]),
      prefix_fails |-> k.prefix_fails ]>>

DomainCut(V, k, symbol, to) ==
  <<[ whole |-> to, reach |-> {V.start},
      prefix_fails |-> ~ AcceptsAny(V, SubsetAfter(V, k.reach, symbol[1])) ]>>

DomainRefutes(V, k) ==
  Accepts(V, k.whole) /\ (k.prefix_fails \/ ~ AcceptsAny(V, k.reach))

(* The symbols whose steps a product takes before their cuts: one at a     *)
(* time, or both of a byte.                                                *)
EachSymbol == [ i \in DOMAIN MarkedSymbols |-> <<MarkedSymbols[i]>> ]

EachByte == [ i \in DOMAIN Bytes |-> << <<Bytes[i], FALSE>>, <<Bytes[i], TRUE>> >> ]

(* One half of modulo_dependence(): the first path on which the window     *)
(* occurs around the cut and the product refutes it.                       *)
HalfRefutation(V, w, offset, root, zero, groups, After(_, _, _), Cut(_, _, _), Refutes(_)) ==
  LET head == SubSeq(w, 1, offset)
      rest == SubSeq(w, offset + 1, Len(w))
      keyed(nodes, cut, matched) ==
        [ i \in DOMAIN nodes |-> [node |-> nodes[i], cut |-> cut, matched |-> matched] ]
      after(k, symbol, to) ==
        IF k.matched < Len(rest) /\ symbol[1] # rest[k.matched + 1] THEN << >>
        ELSE keyed(After(k.node, symbol, to), TRUE, Min({k.matched + 1, Len(rest)}))
      matched(k, symbol) == MatchedAfter(head, k.matched, symbol[1])
      before(k, symbol, to) == keyed(After(k.node, symbol, to), FALSE, matched(k, symbol))
      cuts(k, symbol, to) ==
        IF matched(k, symbol) # offset THEN << >> ELSE keyed(Cut(k.node, symbol, to), TRUE, 0)
      first == [node |-> root, cut |-> FALSE, matched |-> 0]
      expandAfter(k) == Children(V, k.node.whole, LAMBDA symbol, to : after(k, symbol, to))
      expandGroup(k, symbols) ==
        ChildrenBy(V, k.node.whole, symbols, LAMBDA symbol, to : before(k, symbol, to))
          \o ChildrenBy(V, k.node.whole, symbols, LAMBDA symbol, to : cuts(k, symbol, to))
      expand(k) ==
        IF k.cut THEN expandAfter(k)
        ELSE FlattenSeq([ i \in DOMAIN groups |-> expandGroup(k, groups[i]) ])
               \o IF offset = 0 /\ k = first
                  THEN FlattenSeq([ i \in DOMAIN zero |-> expandAfter(keyed(zero, TRUE, 0)[i]) ])
                  ELSE << >>
  IN ShortestPath(first, LAMBDA k : k.cut /\ k.matched = Len(rest) /\ Refutes(k.node), expand)

(* The symbols read before the cut's key, or none when the cut at zero     *)
(* was placed before any byte.                                             *)
CutOf(path, Restarts(_)) ==
  LET placed == { n \in DOMAIN path.reached :
                    path.reached[n].cut /\ Restarts(path.reached[n]) }
  IN IF placed = {} THEN 0 ELSE Min(placed) - 1

StatesOn(V, marked) ==
  LET at_[n \in 0 .. Len(marked)] ==
        IF n = 0 THEN V.start
        ELSE IF at_[n - 1] = NoStep THEN NoStep ELSE Step(V, at_[n - 1], marked[n])
  IN at_

(* The segments of an accepted marked string whose kinds are kept.         *)
KeptTokens(V, marked, discarded, shift) ==
  LET on == StatesOn(V, marked)
      closes == { n \in DOMAIN marked : marked[n][2] }
      begin(n) == Max({0} \cup { m \in closes : m < n })
      kept(n) == [ kind  |-> ClosedKind(V, discarded, on[n - 1], marked[n]),
                   begin |-> begin(n) + shift, end |-> n + shift ]
      last == [ kind  |-> KeptKind(FinalKind(V, on[Len(marked)]), discarded),
                begin |-> begin(Len(marked) + 1) + shift, end |-> Len(marked) + shift ]
  IN SelectSeq([ n \in DOMAIN marked |-> kept(n) ] \o IF marked = << >> THEN << >> ELSE <<last>>,
               LAMBDA token : token.kind # NoKind)

DomainRefutation(V, w, offset) ==
  LET found(path) ==
        LET cut == CutOf(path, LAMBDA k : k.node.reach = {V.start})
            node == Last(path.reached).node
        IN [ segmentation |-> path.symbols, occurrence |-> cut - offset, cut |-> cut,
             prefix_fails |-> node.prefix_fails, suffix_fails |-> ~ AcceptsAny(V, node.reach),
             whole_tokens |-> << >>, chunk_tokens |-> << >> ]
  IN { found(p) : p \in HalfRefutation(V, w, offset, DomainRoot(V), DomainAtZero(V), EachSymbol,
         LAMBDA k, symbol, to : DomainStep(V, k, symbol, to),
         LAMBDA k, symbol, to : DomainCut(V, k, symbol, to),
         LAMBDA k : DomainRefutes(V, k)) }

AgreementRefutation(V, w, offset, discarded) ==
  LET found(path) ==
        LET cut == CutOf(path, LAMBDA k : k.node.chunk = V.start)
            text == TextOf(path.symbols)
            prefix == AcceptedMarking(V, SubSeq(text, 1, cut))
            suffix == AcceptedMarking(V, SubSeq(text, cut + 1, Len(text)))
        IN [ segmentation |-> path.symbols, occurrence |-> cut - offset, cut |-> cut,
             prefix_fails |-> FALSE, suffix_fails |-> FALSE,
             whole_tokens |-> KeptTokens(V, path.symbols, discarded, 0),
             chunk_tokens |-> KeptTokens(V, prefix, discarded, 0)
                                \o KeptTokens(V, suffix, discarded, cut) ]
  IN { found(p) : p \in HalfRefutation(V, w, offset, PairRoot(V), PairAtZero(V), EachByte,
         LAMBDA k, symbol, to : PairStep(V, discarded, k, symbol, to),
         LAMBDA k, symbol, to : PairCut(V, discarded, k, symbol, to),
         LAMBDA k : PairRefutes(V, discarded, k)) }

(* The shorter of the two witnesses, the domain half's on a tie.           *)
ModuloDependence(V, w, offset, discarded) ==
  LET domain == DomainRefutation(V, w, offset)
      agreement == AgreementRefutation(V, w, offset, discarded)
      shorter == Len(Witness(agreement).segmentation) < Len(Witness(domain).segmentation)
  IN IF domain = {} THEN agreement
     ELSE IF agreement = {} THEN domain
     ELSE IF shorter THEN agreement ELSE domain

(* All the windows at once: what the nodes before the cut lead to by a     *)
(* window's bytes, and after the cut the nodes no refuting one follows.    *)
Image(V, S, b, Rule(_, _, _)) ==
  UNION { UNION { Range(Rule(k, <<b, m>>, Step(V, k.whole, <<b, m>>))) :
                    m \in { x \in BOOLEAN : Step(V, k.whole, <<b, x>>) # NoStep } } : k \in S }

ReachableBy(V, S, Rule(_, _, _)) ==
  LET RECURSIVE grown(_)
      grown(C) == LET more == C \cup UNION { Image(V, C, b, Rule) : b \in Symbols }
                  IN IF more = C THEN C ELSE grown(more)
  IN grown(S)

RefutingNodes(V, S, Rule(_, _, _), Refutes(_)) ==
  LET after == ReachableBy(V, S, Rule)
      leads == [ k \in after |-> UNION { Image(V, {k}, b, Rule) : b \in Symbols } ]
      RECURSIVE grown(_)
      grown(C) == LET more == C \cup { k \in after : leads[k] \cap C # {} }
                  IN IF more = C THEN C ELSE grown(more)
  IN grown({ k \in after : Refutes(k) })

(* The cuts of the windows up to a width that hold in one product, and the *)
(* windows the nodes before the cut can read.                              *)
CutsOfProduct(V, width, root, zero, After(_, _, _), Cut(_, _, _), Refutes(_)) ==
  LET before == ReachableBy(V, {root}, After)
      atZero == Range(zero) \cup UNION { Image(V, before, b, Cut) : b \in Symbols }
      refuting == RefutingNodes(V, atZero, After, Refutes)
      reads(S, text) == FoldLeft(LAMBDA C, b : Image(V, C, b, After), S, text)
      placed(w, offset) ==
        IF offset = 0 THEN atZero
        ELSE Image(V, reads(before, SubSeq(w, 1, offset - 1)), w[offset], Cut)
      past(w, offset) == reads(placed(w, offset), SubSeq(w, offset + 1, Len(w)))
      windows == UNION { [1 .. n -> Symbols] : n \in 1 .. width }
  IN [ occurring |-> { w \in windows : reads(before, w) # {} },
       holding   |-> { c \in windows \X (0 .. width - 1) :
                         c[2] < Len(c[1]) /\ past(c[1], c[2]) \cap refuting = {} } ]

(* A window no accepted marked string holds is not listed.                 *)
ModuloCuts(V, width, discarded) ==
  LET pairs == CutsOfProduct(V, width, PairRoot(V), PairAtZero(V),
                 LAMBDA k, symbol, to : PairStep(V, discarded, k, symbol, to),
                 LAMBDA k, symbol, to : PairCut(V, discarded, k, symbol, to),
                 LAMBDA k : PairRefutes(V, discarded, k))
      domains == CutsOfProduct(V, width, DomainRoot(V), DomainAtZero(V),
                   LAMBDA k, symbol, to : DomainStep(V, k, symbol, to),
                   LAMBDA k, symbol, to : DomainCut(V, k, symbol, to),
                   LAMBDA k : DomainRefutes(V, k))
  IN { c \in pairs.holding \cap domains.holding : c[1] \in pairs.occurring }

----------------------------------------------------------------------------
(* A pair is a window and its origin; its origin lands on the anchors.     *)
IsAnchor(pairs, text, position) ==
  \E p \in pairs : /\ p.origin <= position
                   /\ IsPrefix(p.window, SubSeq(text, position - p.origin + 1, Len(text)))

AnchorsIn(pairs, text) == { n \in 0 .. Len(text) : IsAnchor(pairs, text, n) }

(* A chunk of a marked string, its last symbol without its mark.           *)
ChunkOf(marked, begin, end) ==
  [ i \in 1 .. end - begin |->
      IF i = end - begin THEN <<marked[end][1], FALSE>> ELSE marked[begin + i] ]

ChunkFails(V, marked, begin, end) ==
  StatesOn(V, ChunkOf(marked, begin, end))[end - begin] \notin V.accept

FailingChunks(V, marked, anchors) ==
  LET bounds == anchors \cup {Len(marked)}
      begin(n) == Max({0} \cup { a \in anchors : a < n })
  IN { c \in { <<begin(a), a>> : a \in bounds } : ChunkFails(V, marked, c[1], c[2]) }

(* The copy begun at the last anchor reads a window's length behind, so    *)
(* that whatever anchors a position has occurred when it is read.          *)
Commit(V, pairs, k, count) ==
  LET text == k.earlier \o TextOf(k.held)
      atZero == ~ k.begun /\ IsAnchor(pairs, text, 0) /\ ~ Accepts(V, V.start)
      after(s, symbol) == IF s = NoStep THEN NoStep ELSE Step(V, s, symbol)
      read(c, i) ==
        IF ~ IsAnchor(pairs, text, Len(k.earlier) + i)
        THEN [c EXCEPT !.restarted = after(c.restarted, k.held[i])]
        ELSE [c EXCEPT !.restarted = V.start,
                       !.refused = \/ c.refused
                                   \/ after(c.restarted, <<k.held[i][1], FALSE>>) \notin V.accept]
  IN FoldLeft(read, [k EXCEPT !.refused = k.refused \/ atZero], [ i \in 1 .. count |-> i ])

ChunkDependence(V, pairs) ==
  LET longest == Max({ Len(p.window) : p \in pairs })
      remembered == longest - Min({longest, 2})
      next(k, symbol, to) ==
        LET pushed == [k EXCEPT !.state = to, !.held = Append(k.held, symbol)]
            read == Commit(V, pairs, pushed, 1)
            before == Append(read.earlier, read.held[1][1])
            from == Max({0, Len(before) - remembered})
        IN IF Len(pushed.held) <= longest THEN <<pushed>>
           ELSE <<[read EXCEPT !.earlier = SubSeq(before, from + 1, Len(before)),
                               !.held = Tail(read.held), !.begun = TRUE]>>
      goal(k) ==
        LET ended == Commit(V, pairs, k, Len(k.held))
        IN Accepts(V, k.state) /\ (ended.refused \/ ended.restarted \notin V.accept)
      first == [ state |-> V.start, restarted |-> V.start, earlier |-> << >>, held |-> << >>,
                 begun |-> FALSE, refused |-> FALSE ]
      found(marked) ==
        LET anchors == AnchorsIn(pairs, TextOf(marked))
        IN [ segmentation |-> marked, anchors |-> anchors,
             failing |-> FailingChunks(V, marked, anchors) ]
  IN { found(p.symbols) : p \in ShortestPath(first, goal,
         LAMBDA k : Children(V, k.state, LAMBDA symbol, to : next(k, symbol, to))) }

----------------------------------------------------------------------------
(* The right-context product: before the cut as for dependence; after it   *)
(* the states a worker can be in that reads on past the cut, and whether   *)
(* its input, ended here, is not accepted.                                 *)
ContextSteps(V, w, origin, k) ==
  LET head == SubSeq(w, 1, origin)
      rest == SubSeq(w, origin + 1, Len(w))
      key(cut, s, worker, matched, fails) ==
        [cut |-> cut, state |-> s, worker |-> worker, matched |-> matched, fails |-> fails]
      refused(S, b) == \A s \in S : EndsRefused(V, s, b)
      before(symbol, to) ==
        LET matched == MatchedAfter(head, k.matched, symbol[1])
        IN <<key(FALSE, to, {}, matched, FALSE)>>
             \o IF symbol[2] /\ matched = origin
                THEN <<key(TRUE, to, {to}, 0, refused({k.state}, symbol[1]))>>
                ELSE << >>
      after(symbol, to) ==
        IF k.matched < Len(rest) /\ symbol[1] # rest[k.matched + 1] THEN << >>
        ELSE <<key(TRUE, to, SubsetAfter(V, k.worker, symbol[1]),
                   Min({k.matched + 1, Len(rest)}), refused(k.worker, symbol[1]))>>
  IN Children(V, k.state,
              LAMBDA symbol, to : IF k.cut THEN after(symbol, to) ELSE before(symbol, to))

ContextStart(V) ==
  [cut |-> FALSE, state |-> V.start, worker |-> {}, matched |-> 0, fails |-> FALSE]

(* The product explored: its keys by number, and the steps between them.   *)
KeysOf(steps) == [ i \in DOMAIN steps |-> steps[i][2] ]

NumberedKeys(order, steps) ==
  [ i \in DOMAIN steps |-> <<steps[i][1], Numbered(order, steps[i][2]) + 1>> ]

GraphOn(order, Steps(_)) ==
  [ nodes |-> order,
    steps |-> << >> \o [ n \in DOMAIN order |-> NumberedKeys(order, Steps(order[n])) ] ]

ContextGraph(V, w, origin) ==
  LET steps(k) == ContextSteps(V, w, origin, k)
  IN GraphOn(BreadthFirst(ContextStart(V), LAMBDA k : KeysOf(steps(k))), steps)

Entered(graph, n) == { graph.steps[n][i][2] : i \in DOMAIN graph.steps[n] }

(* The keys from which some of the targets is reached.                     *)
Reaching(graph, targets) ==
  LET RECURSIVE grown(_)
      grown(S) == LET more == S \cup { n \in DOMAIN graph.nodes : Entered(graph, n) \cap S # {} }
                  IN IF more = S THEN S ELSE grown(more)
  IN grown(targets)

ContextReach(V, graph, remaining) ==
  LET cuts == { n \in DOMAIN graph.nodes : graph.nodes[n].cut }
      confirmed == { n \in cuts : /\ graph.nodes[n].matched = remaining
                                  /\ Accepts(V, graph.nodes[n].state) }
      completes == Reaching(graph, confirmed)
      failing == { n \in cuts : graph.nodes[n].fails /\ Entered(graph, n) \cap completes # {} }
  IN [confirmed |-> confirmed, failing |-> failing, relevant |-> Reaching(graph, failing) \cap cuts]

(* Layer by layer of the relevant keys, whether a context fails; the first *)
(* layer that repeats one closes the cycle.                                *)
ContextFailures(graph, reach) ==
  LET first == { n \in reach.relevant : graph.nodes[n].matched = 0 }
      onward(layer) == UNION { Entered(graph, n) : n \in layer } \cap reach.relevant
      RECURSIVE layers(_)
      layers(found) ==
        LET next == onward(Last(found))
        IN IF Contains(found, next)
           THEN [ fails    |-> [ i \in DOMAIN found |-> found[i] \cap reach.failing # {} ],
                  repeated |-> Numbered(found, next) ]
           ELSE layers(Append(found, next))
  IN layers(<<first>>)

FailsAt(failures, context) ==
  LET size == Len(failures.fails)
      cycle == size - failures.repeated
  IN IF context < size THEN failures.fails[context + 1]
     ELSE failures.fails[failures.repeated + ((context - failures.repeated) % cycle) + 1]

LeastPeriod(failures) ==
  LET size == Len(failures.fails)
      cycle == size - failures.repeated
  IN Min({ p \in 1 .. cycle :
             /\ cycle % p = 0
             /\ \A c \in failures.repeated .. size - 1 :
                  FailsAt(failures, c) = FailsAt(failures, c + p) })

ThresholdOf(failures, period) ==
  Min({ t \in 0 .. failures.repeated :
          \A c \in t .. failures.repeated - 1 :
            FailsAt(failures, c) = FailsAt(failures, c + period) })

ShortestTruncation(graph, reach, context) ==
  LET onward(k) ==
        LET past == graph.nodes[k[1]].cut
            read == IF past THEN Min({k[2] + 1, context + 1}) ELSE 0
            steps == graph.steps[k[1]]
        IN IF past /\ k[2] = context /\ k[1] \notin reach.failing THEN << >>
           ELSE [ i \in DOMAIN steps |-> <<steps[i][1], <<steps[i][2], read>>>> ]
  IN Witness(ShortestPath(<<1, 0>>,
               LAMBDA k : k[2] = context + 1 /\ k[1] \in reach.confirmed, onward))

CutOn(graph, path) ==
  Min({ n \in DOMAIN path.reached : graph.nodes[path.reached[n][1]].cut }) - 1

TruncationAt(graph, reach, context, origin) ==
  LET path == ShortestTruncation(graph, reach, context)
  IN [ segmentation |-> path.symbols, occurrence |-> CutOn(graph, path) - origin,
       cut |-> CutOn(graph, path), context |-> context ]

(* The truncation's path past the cut repeats a key: the cycle it closes   *)
(* is read as often as makes its length a multiple of the period.          *)
TruncationLasso(graph, reach, context, period, origin) ==
  LET path == ShortestTruncation(graph, reach, context)
      cut == CutOn(graph, path)
      node(n) == path.reached[n + 1][1]
      repeat == Min({ n \in cut .. Len(path.symbols) : \E m \in cut .. n - 1 : node(m) = node(n) })
      from == Min({ m \in cut .. repeat : node(m) = node(repeat) })
      cycle == SubSeq(path.symbols, from + 1, repeat)
      copies == Min({ n \in 1 .. period : (n * Len(cycle)) % period = 0 })
  IN [ stem   |-> SubSeq(path.symbols, 1, repeat),
       loop   |-> FlattenSeq([ i \in 1 .. copies |-> cycle ]),
       suffix |-> SubSeq(path.symbols, repeat + 1, Len(path.symbols)),
       occurrence |-> cut - origin, cut |-> cut, context |-> context ]

ContextsOf(graph, reach, failures, origin) ==
  LET period == LeastPeriod(failures)
      threshold == ThresholdOf(failures, period)
      first == Max({threshold, Cardinality(reach.relevant)})
  IN [ threshold |-> threshold,
       period    |-> period,
       least     |-> { c \in 0 .. threshold + period - 1 :
                         /\ ~ FailsAt(failures, c)
                         /\ \A d \in 0 .. c - 1 : FailsAt(failures, d) },
       failing   |-> { TruncationAt(graph, reach, c, origin) :
                         c \in { d \in 0 .. threshold - 1 : FailsAt(failures, d) } },
       residues  |-> { TruncationLasso(graph, reach, c, period, origin) :
                         c \in { d \in first .. first + period - 1 : FailsAt(failures, d) } } ]

RightContext(V, w, origin) ==
  LET graph == ContextGraph(V, w, origin)
      reach == ContextReach(V, graph, Len(w) - origin)
  IN ContextsOf(graph, reach, ContextFailures(graph, reach), origin)

----------------------------------------------------------------------------
(* The minimal automaton: each state stands for its class by the least     *)
(* state no marked continuation tells it from.                             *)
Alike(V) ==
  LET states == 0 .. V.count - 1
      alike[n \in 0 .. V.count] ==
        IF n = 0 THEN { p \in states \X states : Accepts(V, p[1]) = Accepts(V, p[2]) }
        ELSE LET coarser == alike[n - 1]
             IN { p \in coarser :
                    \A i \in DOMAIN MarkedSymbols :
                      LET one == Step(V, p[1], MarkedSymbols[i])
                          two == Step(V, p[2], MarkedSymbols[i])
                      IN one = two \/ <<one, two>> \in coarser }
  IN alike[V.count]

(* Its byte projection: the steps a byte takes under either mark.          *)
Projection(V) ==
  LET alike == Alike(V)
      least(s) == Min({ t \in 0 .. V.count - 1 : <<s, t>> \in alike })
      classes == { least(s) : s \in 0 .. V.count - 1 }
  IN [ classes   |-> classes,
       class_of  |-> << >> \o [ s \in 1 .. V.count |-> least(s - 1) ],
       accepting |-> { c \in classes : Accepts(V, c) },
       steps     |-> { <<k[1], k[2], k[3], least(V.next[k])>> :
                         k \in { e \in DOMAIN V.next : e[1] \in classes } } ]

ClassOf(P, s) == P.class_of[s + 1]

ImageBy(P, S, b) == { e[4] : e \in { t \in P.steps : t[1] \in S /\ t[2] = b } }

PreimageBy(P, S, b) == { e[1] : e \in { t \in P.steps : t[4] \in S /\ t[2] = b } }

ImageOf(P, S, text) == FoldLeft(LAMBDA C, b : ImageBy(P, C, b), S, text)

CoimageOf(P, text) == FoldLeft(LAMBDA C, b : PreimageBy(P, C, b), P.classes, Reverse(text))

EnteredClasses(P) == { e[4] : e \in P.steps }

(* The configurations a cut can carry, by their least states.              *)
FanoutIn(P, w, origin) ==
  LET before == IF origin = 0 THEN EnteredClasses(P)
                ELSE ImageOf(P, P.classes, SubSeq(w, 1, origin))
  IN before \cap CoimageOf(P, SubSeq(w, origin + 1, Len(w)))

Fanout(V, w, origin) == FanoutIn(Projection(V), w, origin)

(* The relations of the byte strings, each with the first string that      *)
(* induces it: the empty one's, then the nonzero ones breadth first.       *)
Relations(P) ==
  LET joined(R, b) == { <<p[1], e[4]>> :
                          <<p, e>> \in { x \in R \X P.steps : x[2][2] = b /\ x[1][2] = x[2][1] } }
      extended(found, word, R) ==
        FoldLeft(LAMBDA acc, b :
                   LET next == joined(R, b)
                   IN IF next = {} \/ \E i \in 2 .. Len(acc) : acc[i].relation = next THEN acc
                      ELSE Append(acc, [relation |-> next, word |-> Append(word, b)]),
                 found, Bytes)
      RECURSIVE explored(_, _)
      explored(found, n) ==
        IF n > Len(found) THEN found
        ELSE explored(extended(found, found[n].word, found[n].relation), n + 1)
  IN explored(<<[relation |-> { <<c, c>> : c \in P.classes }, word |-> << >>]>>, 1)

FixedPoints(R) == { p[1] : p \in { x \in R : x[1] = x[2] } }

IsIdempotent(R) == { <<p[1], q[2]>> : <<p, q>> \in { x \in R \X R : x[1][2] = x[2][1] } } = R

(* The first idempotent with the fewest fixed points, pumped at the least  *)
(* of them; when the domain is finite there is none, and it throws.        *)
SmallestFanoutIn(V, P, relations) ==
  LET idempotents == { n \in 2 .. Len(relations) : IsIdempotent(relations[n].relation) }
      degree(n) == Cardinality(FixedPoints(relations[n].relation))
      least == Min({ n \in idempotents : \A m \in idempotents : degree(n) <= degree(m) })
      word == relations[least].word
      fixed == Min(FixedPoints(relations[least].relation))
      inFixed(s) == ClassOf(P, s) = fixed
      stem == Witness(ShortestPath(V.start, inFixed, LAMBDA s : StateSteps(V, s)))
      entry == Last(stem.reached)
  IN IF idempotents = {} THEN {}
     ELSE {[ degree |-> degree(least), window |-> word \o word, origin |-> Len(word),
             stem   |-> stem.symbols,
             loop   |-> MarkingBetween(V, entry, word, inFixed),
             suffix |-> StatePath(V, entry, LAMBDA s : Accepts(V, s)) ]}

SmallestFanout(V) ==
  LET P == Projection(V)
  IN SmallestFanoutIn(V, P, Relations(P))
=============================================================================
