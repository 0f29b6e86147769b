-------------------------- MODULE VerifierAnswers --------------------------
(***************************************************************************)
(* A verifier as its callers use it: it is built from a token set or from  *)
(* a table of the caller's, and then decides a question or scans an input. *)
(* What the policy itself makes of every short input is the reference.     *)
(***************************************************************************)
EXTENDS KCopyScan, WindowCloud

CONSTANTS
  Policies,     \* [built |-> "armed", set] or [built |-> "table", table]
  Questions,    \* [kind, window, origin, kinds, width, inventory, other]
  Requests,
  MaxMarked,    \* the longest input the answers are compared with
  MaxFuture     \* the longest continuation that is to tell states apart

VARIABLES policy, question, answer

answersVars == <<policy, question, answer, scanVars>>

WordsTo(longest) == UNION { [1 .. n -> Symbols] : n \in 0 .. longest }

----------------------------------------------------------------------------
(* The policies themselves.  A segmentation is a marked string with the    *)
(* segments it is cut into.                                                *)
CutBy(stream, w) ==
  LET begins == { stream[i].begin : i \in DOMAIN stream }
  IN [ marked |-> [ i \in DOMAIN w |-> <<w[i], i \in begins>> ],
       tokens |-> [ i \in DOMAIN stream |->
                      [ kind  |-> stream[i].token,
                        begin |-> stream[i].begin,
                        end   |-> stream[i].begin + stream[i].length ] ] ]

ScanOf(D, w) ==
  { CutBy(scan.stream, w) : scan \in { s \in {Serial(D, w)} : s.consumed = Len(w) } }

KindIn(kinds, k) == IF k \in DOMAIN kinds THEN kinds[k] ELSE NoKind

RunsOf(T, w) ==
  LET token(run, kind) == [kind |-> kind, begin |-> run.begin, end |-> Len(run.marked)]
      stepped(run, k) ==
        LET read == [run EXCEPT !.state = T.next[k], !.marked = Append(@, <<k[2], k[3]>>)]
        IN IF ~ k[3] THEN read
           ELSE [read EXCEPT !.begin = Len(read.marked),
                             !.tokens = Append(@, token(read, KindIn(T.closes, k)))]
      after(runs, b) ==
        UNION { { stepped(run, k) : k \in { e \in DOMAIN T.next : e[1] = run.state /\ e[2] = b } } :
                  run \in runs }
      ended(run) ==
        [ marked |-> run.marked,
          tokens |-> IF w = << >> THEN << >>
                     ELSE Append(run.tokens, token(run, KindIn(T.finals, run.state))) ]
      runs == FoldLeft(after, {[state |-> T.start, marked |-> << >>, begin |-> 0,
                                tokens |-> << >>]}, w)
  IN { ended(run) : run \in { r \in runs : r.state \in T.accept } }

Segmentations(p, w) == IF p.built = "armed" THEN ScanOf(p.set, w) ELSE RunsOf(p.table, w)

Language == [ p \in Policies |-> UNION { Segmentations(p, w) : w \in WordsTo(MaxMarked) } ]

Marked == [ p \in Policies |-> { s.marked : s \in Language[p] } ]

Accepted(p, marked) == \E s \in Segmentations(p, TextOf(marked)) : s.marked = marked

InDomainOf(p, w) == Segmentations(p, w) # {}

(* A verifier is functional and well formed: a text has one segmentation,  *)
(* and no mark follows its last byte.                                      *)
ASSUME PolicyAssumption ==
  \A p \in Policies :
    /\ p.built \in {"armed", "table"}
    /\ p.built = "armed" => IsDfa(p.set) /\ ~ Accepting(p.set, p.set.init)
    /\ \A w \in WordsTo(MaxMarked) : Cardinality(Segmentations(p, w)) <= 1
    /\ \A s \in Language[p] : s.marked # << >> => ~ Last(s.marked)[2]

Built(p) == IF p.built = "armed" THEN ArmedRun(p.set) ELSE Trim(p.table)

Verifiers == [ p \in Policies |-> Built(p) ]

----------------------------------------------------------------------------
(* What a decision finds, or nothing when it throws std::invalid_argument: *)
(* one about pairs does when one of them is not certified.                 *)
IfCertified(V, pairs, decided) ==
  IF \A p \in pairs : CertifiedBy(V, p.window, p.origin) THEN {decided} ELSE {}

AnswerTo(V, q) ==
  LET pair == {[window |-> q.window, origin |-> q.origin]}
  IN CASE q.kind = "miscovering"       -> {Miscovering(V, q.window, q.origin)}
       [] q.kind = "pinned cut"        -> {PinnedCut(V, q.window, q.origin)}
       [] q.kind = "boundary gap"      -> IF DomainIsEmpty(V) THEN {} ELSE {BoundaryGap(V)}
       [] q.kind = "realizable"        -> {Realizable(V)}
       [] q.kind = "divergence"        -> {Divergence(V, Verifiers[q.other])}
       [] q.kind = "dependence"        -> IfCertified(V, pair, Dependence(V, q.window, q.origin))
       [] q.kind = "modulo dependence" -> {ModuloDependence(V, q.window, q.origin, q.kinds)}
       [] q.kind = "modulo cuts"       -> {ModuloCuts(V, q.width, q.kinds)}
       [] q.kind = "chunk dependence"  -> IfCertified(V, q.inventory, ChunkDependence(V, q.inventory))
       [] q.kind = "right context"     -> IfCertified(V, pair, RightContext(V, q.window, q.origin))
       [] q.kind = "fanout"            -> {Fanout(V, q.window, q.origin)}
       [] q.kind = "relative fanout"   -> {RelativeFanout(V, q.window, q.origin)}
       [] q.kind = "smallest fanout"   -> SmallestFanout(V)
       [] q.kind = "fanout windows"    -> {ShortestFanoutWindows(V)}

NotAsked == [kind |-> "none"]

Threw == answer = {}
Found == Witness(answer)

AnswersInit ==
  /\ policy \in Policies
  /\ verifier = Verifiers[policy]
  /\ question = NotAsked
  /\ answer = {}
  /\ NoScan

AskQuestion ==
  /\ question = NotAsked /\ scanning = "not asked"
  /\ question' \in Questions
  /\ answer' = AnswerTo(verifier, question')
  /\ UNCHANGED <<policy, scanVars>>

AskScan ==
  /\ question = NotAsked /\ scanning = "not asked"
  /\ \E request \in Requests : ScanStarts(request)
  /\ UNCHANGED <<policy, question, answer>>

AnswersNext ==
  \/ AskQuestion
  \/ AskScan
  \/ ScanNext /\ UNCHANGED <<policy, question, answer>>

AnswersSpec == AnswersInit /\ [][AnswersNext]_answersVars

----------------------------------------------------------------------------
(* The marked strings of a verifier up to a length, from a state, with the *)
(* states they end in.                                                     *)
WalksFrom(V, s, longest) ==
  LET onward(x) == { [marked |-> Append(x.marked, <<k[2], k[3]>>), state |-> V.next[k]] :
                       k \in { e \in DOMAIN V.next : e[1] = x.state } }
      walks[n \in 0 .. longest] ==
        IF n = 0 THEN {[marked |-> << >>, state |-> s]}
        ELSE LET shorter == walks[n - 1] IN shorter \cup UNION { onward(x) : x \in shorter }
  IN walks[longest]

AcceptedFrom(V, s, longest) ==
  { x.marked : x \in { y \in WalksFrom(V, s, longest) : y.state \in V.accept } }

(* A verifier accepts an input with its boundaries marked just as the      *)
(* policy segments it, and records the kinds of its segments               *)
(* (verifier.hpp 17-31, 239-260); every state of it is of use, and no step *)
(* enters the start (verifier.hpp 124-135).                                *)
VerifierAcceptsScans ==
  question = NotAsked /\ scanning = "not asked" =>
    LET reached == { x.state : x \in WalksFrom(verifier, verifier.start, verifier.count) }
        completes(s) == AcceptedFrom(verifier, s, verifier.count) # {}
        kept == { t \in UNION { Range(s.tokens) : s \in Language[policy] } : t.kind # NoKind }
    IN /\ AcceptedFrom(verifier, verifier.start, MaxMarked) = Marked[policy]
       /\ \A s \in Language[policy] :
            KeptTokens(verifier, s.marked, {}, 0)
              = SelectSeq(s.tokens, LAMBDA t : t.kind # NoKind)
       /\ reached = 0 .. verifier.count - 1
       /\ \A s \in reached \ {verifier.start} : completes(s)
       /\ \A k \in DOMAIN verifier.next : verifier.next[k] # verifier.start

----------------------------------------------------------------------------
Places(marked, w) == OccurrencesIn(TextOf(marked), w)

ShortestOf(found, refuting) ==
  /\ found = {} => refuting = {}
  /\ \A m \in found : m \in refuting /\ \A n \in refuting : Len(m) <= Len(n)

(* What is found refutes the claim and nothing shorter does, or nothing    *)
(* that is accepted refutes it.                                            *)
IsShortest(found, Refutes(_)) ==
  LET some == Marked[policy] \cup { m \in found : Accepted(policy, m) }
  IN ShortestOf(found, { m \in some : Refutes(m) })

CoveredAt(marked, q, at_, byte, offset) == CoveringBoundary(marked, at_ + byte) = at_ + offset

MiscoveringHolds(q, found) ==
  LET last == Len(q.window) - 1
      missed(m, at_) == ~ CoveredAt(m, q, at_, last, q.origin)
  IN /\ IsShortest({ x.segmentation : x \in found },
                   LAMBDA m : \E at_ \in Places(m, q.window) : missed(m, at_))
     /\ \A x \in found : /\ x.occurrence \in Places(x.segmentation, q.window)
                         /\ missed(x.segmentation, x.occurrence)
     /\ policy.built = "armed" =>
          (SplitOrigin(Simulator(policy.set, {}), q.window) = q.origin => found = {})

PinnedHolds(q, pinned) ==
  LET everywhere(M, offset) ==
        \A m \in M : \A at_ \in Places(m, q.window) : CoveredAt(m, q, at_, q.origin, offset)
  IN CASE pinned.verdict = "absent" -> \A m \in Marked[policy] : Places(m, q.window) = {}
       [] pinned.verdict = "pinned" -> everywhere(Marked[policy], pinned.offset)
       [] pinned.verdict = "refuted" ->
            /\ Accepted(policy, pinned.segmentation)
            /\ pinned.occurrence \in Places(pinned.segmentation, q.window)
            /\ \A offset \in 0 .. q.origin :
                 ~ everywhere(Marked[policy] \cup {pinned.segmentation}, offset)

(* A string with its loop read no, one, two or three times.                *)
Pumped(lasso, n) == lasso.stem \o FlattenSeq([ i \in 1 .. n |-> lasso.loop ]) \o lasso.suffix

GapHolds(found) ==
  LET lengths == { t.end - t.begin : t \in UNION { Range(s.tokens) : s \in Language[policy] } }
  IN IF Threw THEN Marked[policy] = {}
     ELSE IF found.bounded THEN found.gap = Max({0} \cup lengths)
     ELSE /\ found.loop # << >> /\ \A i \in DOMAIN found.loop : ~ found.loop[i][2]
          /\ \A n \in 0 .. 2 : Accepted(policy, Pumped(found, n))

(* What is generated by admitted steps that stop where they may.           *)
RealizableHolds(found) ==
  IF found = {} THEN Marked[policy] = {}
  ELSE LET mask == Witness(found)
           masked == [verifier EXCEPT !.next =
                        [ k \in { e \in DOMAIN @ : Contains(mask[e[1]], <<e[2], e[3]>>) } |-> @[k] ]]
       IN /\ AcceptedFrom(masked, verifier.start, MaxMarked) = Marked[policy]
          /\ \A s \in DOMAIN mask : mask[s] # << >> \/ s \in verifier.accept

DivergenceHolds(q, found) ==
  LET differs(m) == \E s \in Segmentations(q.other, TextOf(m)) : s.marked # m
      disputed(w) == InDomainOf(policy, w) # InDomainOf(q.other, w)
      boundary == { x \in found : x.half = "boundary" }
      domain == { TextOf(x.witness) : x \in found \ boundary }
  IN /\ found = {} => Marked[policy] = Marked[q.other]
     /\ domain = {} => IsShortest({ x.witness : x \in boundary }, differs)
     /\ domain # {} => IsShortest({}, differs)
     /\ \A x \in found \ boundary :
          /\ Accepted(policy, x.witness) # Accepted(q.other, x.witness)
          /\ \A w \in WordsTo(MaxMarked) : disputed(w) => Len(x.witness) <= Len(w)
          /\ disputed(TextOf(x.witness))

----------------------------------------------------------------------------
(* The two sides of a cut as the marked string marks them.                 *)
SideFails(marked, begin, end) ==
  LET side == SubSeq(marked, begin + 1, end)
  IN ~ Accepted(policy, IF side = << >> THEN << >>
                        ELSE Append(Front(side), <<Last(side)[1], FALSE>>))

DependenceHolds(q, found) ==
  LET split(m, cut) == SideFails(m, 0, cut) \/ SideFails(m, cut, Len(m))
  IN IF Threw THEN \E x \in Miscovering(verifier, q.window, q.origin) : TRUE
     ELSE /\ IsShortest({ x.segmentation : x \in found },
                        LAMBDA m : \E at_ \in Places(m, q.window) : split(m, at_ + q.origin))
          /\ \A x \in found :
               /\ x.occurrence \in Places(x.segmentation, q.window)
               /\ x.cut = x.occurrence + q.origin
               /\ x.prefix_fails = SideFails(x.segmentation, 0, x.cut)
               /\ x.suffix_fails = SideFails(x.segmentation, x.cut, Len(x.segmentation))

(* The kept segments of a text, as the set of what it segments into.       *)
KeptOf(text, kinds, shift) ==
  LET kept(s) == SelectSeq(s.tokens, LAMBDA t : t.kind \notin kinds \cup {NoKind})
      moved(t) == [t EXCEPT !.begin = @ + shift, !.end = @ + shift]
  IN { [ i \in DOMAIN kept(s) |-> moved(kept(s)[i]) ] : s \in Segmentations(policy, text) }

KeptOfChunks(text, cut, kinds) ==
  { first \o second : first \in KeptOf(SubSeq(text, 1, cut), kinds, 0),
                      second \in KeptOf(SubSeq(text, cut + 1, Len(text)), kinds, cut) }

ModuloRefuted(text, w, offset, kinds) ==
  \E at_ \in OccurrencesIn(text, w) :
    KeptOfChunks(text, at_ + offset, kinds) # KeptOf(text, kinds, 0)

ModuloHolds(q, found) ==
  /\ IsShortest({ x.segmentation : x \in found },
                LAMBDA m : ModuloRefuted(TextOf(m), q.window, q.origin, q.kinds))
  /\ \A x \in found :
       LET text == TextOf(x.segmentation)
       IN /\ x.occurrence \in OccurrencesIn(text, q.window)
          /\ x.cut = x.occurrence + q.origin
          /\ x.prefix_fails = ~ InDomainOf(policy, SubSeq(text, 1, x.cut))
          /\ x.suffix_fails = ~ InDomainOf(policy, SubSeq(text, x.cut + 1, Len(text)))
          /\ ~ x.prefix_fails /\ ~ x.suffix_fails =>
               /\ KeptOf(text, q.kinds, 0) = {x.whole_tokens}
               /\ KeptOfChunks(text, x.cut, q.kinds) = {x.chunk_tokens}

(* The cuts found at once are those each window is asked about.            *)
ModuloCutsHold(q, found) ==
  LET windows == WordsTo(q.width) \ {<< >>}
      occurs(w) == \E m \in Marked[policy] : Places(m, w) # {}
  IN found = { c \in windows \X (0 .. q.width - 1) :
                 /\ c[2] < Len(c[1]) /\ occurs(c[1])
                 /\ ModuloDependence(verifier, c[1], c[2], q.kinds) = {} }

ChunkDependenceHolds(q, found) ==
  LET anchors(m) == UNION { { at_ + p.origin : at_ \in Places(m, p.window) } : p \in q.inventory }
      chunks(m) == { <<Max({0} \cup { a \in anchors(m) : a < end }), end>> :
                       end \in anchors(m) \cup {Len(m)} }
      failing(m) == { c \in chunks(m) : SideFails(m, c[1], c[2]) }
  IN IF Threw
     THEN \E p \in q.inventory : \E x \in Miscovering(verifier, p.window, p.origin) : TRUE
     ELSE /\ IsShortest({ x.segmentation : x \in found }, LAMBDA m : failing(m) # {})
          /\ \A x \in found : /\ x.anchors = anchors(x.segmentation)
                              /\ x.failing = failing(x.segmentation)

----------------------------------------------------------------------------
(* A worker that reads some bytes past its chunk, in vain or to the end of *)
(* the input, segments the chunk otherwise.                                *)
ContextFails(marked, cut, context) ==
  /\ 0 < cut /\ cut + context < Len(marked)
  /\ \A s \in Segmentations(policy, SubSeq(TextOf(marked), 1, cut + context)) :
       \/ \E i \in 1 .. cut - 1 : s.marked[i] # marked[i]
       \/ context > 0 /\ ~ s.marked[cut][2]

RightContextHolds(q, found) ==
  LET claimed(c) ==
        \/ c < found.threshold /\ \E t \in found.failing : t.context = c
        \/ c >= found.threshold
             /\ \E r \in found.residues : (c - r.context) % found.period = 0
      fails(c) == \E m \in Marked[policy] : \E at_ \in Places(m, q.window) :
                    ContextFails(m, at_ + q.origin, c)
      refutes(m, t, context) ==
        /\ Accepted(policy, m)
        /\ t.occurrence \in Places(m, q.window) /\ t.cut = t.occurrence + q.origin
        /\ ContextFails(m, t.cut, context)
  IN IF Threw THEN \E x \in Miscovering(verifier, q.window, q.origin) : TRUE
     ELSE /\ \A c \in 0 .. MaxMarked : fails(c) => claimed(c)
          /\ \A c \in 0 .. MaxMarked - 3 : claimed(c) => fails(c)
          /\ \A t \in found.failing : refutes(t.segmentation, t, t.context)
          /\ \A r \in found.residues, n \in 1 .. 3 :
               refutes(Pumped(r, n), r, r.context + (n - 1) * Len(r.loop))
          /\ found.least = { c \in 0 .. found.threshold + found.period :
                               ~ claimed(c) /\ \A d \in 0 .. c - 1 : claimed(d) }

----------------------------------------------------------------------------
(* What can follow in a state; configurations are told apart by it.        *)
Future(s) == IF s = NoStep THEN {} ELSE AcceptedFrom(verifier, s, MaxFuture)

FanoutHolds(q, found) ==
  LET on(m) == StatesOn(verifier, m)
      carried == UNION { { Future(on(m)[at_ + q.origin]) :
                             at_ \in { a \in Places(m, q.window) : a + q.origin > 0 } } :
                         m \in Marked[policy] }
  IN /\ { Future(s) : s \in found } = carried
     /\ Cardinality(found) = Cardinality(carried)

(* The classes are of the configurations, and two are in one class just if *)
(* every marking of the rest of the window leaves them the same future.    *)
RelativeFanoutHolds(q, classes) ==
  LET rest == SubSeq(q.window, q.origin + 1, Len(q.window))
      after(s, marks) ==
        FoldLeft(LAMBDA t, i : IF t = NoStep THEN t ELSE Step(verifier, t, <<rest[i], marks[i]>>),
                 s, [ i \in DOMAIN rest |-> i ])
      same(s, t) == \A marks \in [DOMAIN rest -> BOOLEAN] :
                      Future(after(s, marks)) = Future(after(t, marks))
      class(s) == Witness({ i \in DOMAIN classes : Contains(classes[i], s) })
      all == UNION { Range(classes[i]) : i \in DOMAIN classes }
  IN /\ all = Fanout(verifier, q.window, q.origin)
     /\ \A s, t \in all : same(s, t) <=> class(s) = class(t)

(* A window is pumpable when what it is read from can be reached again.    *)
Onto(S, text) == FoldLeft(LAMBDA C, b : SubsetAfter(verifier, C, b), S, text)

Pumpable(w) ==
  \E s \in 0 .. verifier.count - 1 :
    \E t \in Onto({s}, w) : \E x \in WalksFrom(verifier, t, verifier.count) : x.state = s

SmallestFanoutHolds(found) ==
  LET windows == WordsTo(MaxFuture) \ {<< >>}
      rank(w, origin) == Cardinality(Fanout(verifier, w, origin))
  IN IF Threw THEN \A w \in windows : ~ Pumpable(w)
     ELSE /\ rank(found.window, found.origin) = found.degree
          /\ found.window = TextOf(found.loop) \o TextOf(found.loop)
          /\ \A n \in 0 .. 3 : Accepted(policy, Pumped(found, n))
          /\ \A w \in windows : Pumpable(w) =>
               \A origin \in 0 .. Len(w) - 1 : rank(w, origin) >= found.degree

FanoutWindowsHold(found) ==
  LET rank(p) == Cardinality(Fanout(verifier, p.window, p.origin))
      pairs == { p \in [window : WordsTo(MaxFuture), origin : 0 .. MaxFuture - 1] :
                   p.origin < Len(p.window) /\ rank(p) > 0 }
      bounds == { found[i].bound : i \in DOMAIN found }
  IN /\ \A p \in pairs : \E i \in DOMAIN found : rank(p) = found[i].bound
     /\ found # << >> => bounds = Min(bounds) .. Max(bounds) /\ rank(found[1].least) = Min(bounds)
     /\ \A i \in DOMAIN found :
          /\ found[i].bound = found[1].bound + i - 1
          /\ rank(found[i].least) \in 1 .. found[i].bound
          /\ \A p \in pairs : rank(p) <= found[i].bound => ~ Precedes(p, found[i].least)

(* Every decision is what the segmentations of the policy say, a string    *)
(* that refutes is one of them and none that refutes is shorter            *)
(* (verifier_decisions.hpp 478-840, k_copy_scan.hpp 139-194).              *)
DecisionsHold ==
  CASE question.kind = "miscovering"       -> MiscoveringHolds(question, Found)
    [] question.kind = "pinned cut"        -> PinnedHolds(question, Found)
    [] question.kind = "boundary gap"      -> GapHolds(Found)
    [] question.kind = "realizable"        -> RealizableHolds(Found)
    [] question.kind = "divergence"        -> DivergenceHolds(question, Found)
    [] question.kind = "dependence"        -> DependenceHolds(question, Found)
    [] question.kind = "modulo dependence" -> ModuloHolds(question, Found)
    [] question.kind = "modulo cuts"       -> ModuloCutsHold(question, Found)
    [] question.kind = "chunk dependence"  -> ChunkDependenceHolds(question, Found)
    [] question.kind = "right context"     -> RightContextHolds(question, Found)
    [] question.kind = "fanout"            -> FanoutHolds(question, Found)
    [] question.kind = "relative fanout"   -> RelativeFanoutHolds(question, Found)
    [] question.kind = "smallest fanout"   -> SmallestFanoutHolds(Found)
    [] question.kind = "fanout windows"    -> FanoutWindowsHold(Found)
    [] question.kind = "none"              -> TRUE

----------------------------------------------------------------------------
(* However the workers are scheduled, the copies stitched are the one      *)
(* segmentation of the input, and nothing is returned only when it has     *)
(* none; a worker runs no more copies than the least fan-out of the pairs  *)
(* its first cut comes from; and when every worker reads far enough to see *)
(* any token end, each chunk is settled at its own end                     *)
(* (k_copy_scan.hpp 196-241).                                              *)
KCopyScanIsSerial ==
  scanning = "returned" =>
    LET segmented == { s.marked : s \in Segmentations(policy, job.input) }
        ranks(cut) == { Cardinality(Fanout(verifier, p.window, p.origin)) :
                          p \in { r \in job.inventory : IsAnchor({r}, job.input, cut) } }
        gap == BoundaryGap(verifier)
        foresees == policy.built = "armed" /\ gap.bounded /\ job.lookahead >= gap.gap - 1
    IN /\ segmented = { x.segmentation : x \in scanned }
       /\ \A x \in scanned : \A i \in DOMAIN x.chunks :
            LET chunk == x.chunks[i]
            IN /\ chunk.copies <= IF i = 1 THEN 1 ELSE Min(ranks(chunk.begin))
               /\ foresees => chunk.resolved = chunk.end
=============================================================================
