--------------------------- MODULE BoundarySearch ---------------------------
(***************************************************************************)
(* The decisions of boundary_search.hpp: whether some completely           *)
(* tokenizable input makes an event happen.  One breadth-first search      *)
(* builds the input byte by byte and guesses where its tokens end; the run *)
(* of a token already closed is kept, since a later accept on it refutes   *)
(* the guess.  boundary_profile() is a sequence of such searches.          *)
(***************************************************************************)
EXTENDS Dfa, SequencesExt

(* The compiled token set an offline decision is asked of, and the order   *)
(* in which its searches try the bytes.                                    *)
CONSTANTS Bytes,        \* the symbols in the order of their values
          TokenSets     \* the automata that are asked about

ASSUME CompiledSetAssumption ==
  /\ Bytes \in Seq(Symbols)
  /\ \A a \in Symbols : \E i \in 1 .. Len(Bytes) : Bytes[i] = a
  /\ \A D \in TokenSets : IsDfa(D)

VARIABLE sim

(* What compiling each of them derives, none of it ignoring a token.       *)
Tables == [ D \in TokenSets |-> Simulator(D, {}) ]

Unbounded == -1     \* std::nullopt for a length without a bound

----------------------------------------------------------------------------
(* What is asked of it.                                                    *)
CONSTANTS BoundaryQueries,  \* what callers ask: [kind, window, gap, cap, sets]
          MaxWord       \* the longest input the answers are compared with

PairKinds == {"difference", "segmentation"}
OriginKinds == {"covers", "cut", "crossed"}
SearchKinds == PairKinds \cup OriginKinds \cup {"rescue", "occurrence"}

(* The calls that throw std::invalid_argument are not among the queries.   *)
IsBoundaryQuery(q) ==
  /\ q.kind \in SearchKinds \cup {"profile"}
  /\ q.window \in Seq(Symbols) /\ q.gap \in Nat /\ q.cap \in Nat
  /\ q.sets \in TokenSets \X TokenSets
  /\ q.kind = "covers" => q.gap < Len(q.window)
  /\ q.kind \in {"cut", "crossed"} => q.window # << >> /\ q.gap <= Len(q.window)
  /\ q.kind = "profile" => q.window # << >>

ASSUME BoundarySearchAssumption ==
  /\ \A q \in BoundaryQueries : IsBoundaryQuery(q)
  /\ MaxWord \in Nat

VARIABLES
  query,
  other,            \* the second of the compiled token sets
  search,           \* the search that runs: its kind, and the gap it is about
  keys, parents,    \* the keys admitted, in order, and how each was reached
  expanding, trying,    \* the key expanded, and the index of the byte read there
  status,           \* "searching", "settled", "answered"
  outcome,          \* what the search found
  half,             \* of the witness of a segmentation difference
  refuted,          \* a gap's first refutation, while the second is searched for
  profile           \* the verdicts on the gaps so far

asked == <<query, sim, other>>
frontier == <<keys, parents, expanding, trying>>
verdicts == <<refuted, profile>>
searchVars == <<asked, search, frontier, status, outcome, half, verdicts>>

Outcome(witness, exhaustive) == [witness |-> witness, exhaustive |-> exhaustive]

Proved == Outcome(<< >>, TRUE)

----------------------------------------------------------------------------
(* A position: the run of the segment being read, and the runs of those    *)
(* closed that are still alive.                                            *)
Initial(D) == [reading |-> D.init, closed |-> {}]

(* A run that accepts again not held against its close.                    *)
AdvancedUnrefuted(D, position, b) ==
  LET moved == { D.next[s][b] : s \in position.closed } \ {NoState}
  IN IF D.next[position.reading][b] = NoState THEN {}
     ELSE {[reading |-> D.next[position.reading][b], closed |-> moved]}

(* The position after a byte, if the branch survives it.                   *)
Advanced(D, position, b) ==
  LET moved == { D.next[s][b] : s \in position.closed } \ {NoState}
  IN IF \/ D.next[position.reading][b] = NoState
        \/ \E s \in moved : Accepting(D, s)
     THEN {}
     ELSE {[reading |-> D.next[position.reading][b], closed |-> moved]}

Closed(D, position) ==
  [reading |-> D.init, closed |-> position.closed \cup {position.reading}]

ClosedIf(D, position, closes) == IF closes THEN Closed(D, position) ELSE position

Dead(D) == [reading |-> D.count, closed |-> {}]

IsDead(D, position) == position = Dead(D)

(* A byte with or without a close, read by one of two sides.               *)
ReadMarked(D, position, b, closes) ==
  LET read == IF IsDead(D, position) THEN {} ELSE Advanced(D, position, b)
  IN IF \E p \in read : closes => Accepting(D, p.reading)
     THEN ClosedIf(D, CHOOSE p \in read : TRUE, closes)
     ELSE Dead(D)

----------------------------------------------------------------------------
(* A key: the positions, how much of the window is matched, the origin     *)
(* bit, and whether the event has happened.                                *)
Key(scans, matched, at_origin, marked) ==
  [scans |-> scans, matched |-> matched, at_origin |-> at_origin, marked |-> marked]

(* What a byte does to a key: what it leads to, or that the input ends.    *)
InputEnds == [ends |-> TRUE, successors |-> << >>]

LeadsTo(successors) == [ends |-> FALSE, successors |-> successors]

TheOnly(S) == CHOOSE x \in S : TRUE

StartKey(kind, gap) ==
  Key(IF kind \in PairKinds THEN <<Initial(sim), Initial(other)>> ELSE <<Initial(sim)>>,
      0,
      kind \in OriginKinds /\ gap = 0,
      kind = "occurrence" /\ query.window = << >>)

(* Marked once a closed run has survived a byte.                           *)
RescueStep(key, b) ==
  LET read == Advanced(sim, key.scans[1], b)
      position == TheOnly(read)
      rescued == key.marked \/ position.closed # {}
      closes == Accepting(sim, position.reading)
  IN IF read = {} THEN LeadsTo(<< >>)
     ELSE IF closes /\ rescued THEN InputEnds
     ELSE LeadsTo(<<Key(<<position>>, 0, FALSE, rescued)>>
                  \o IF closes THEN <<Key(<<Closed(sim, position)>>, 0, FALSE, rescued)>>
                     ELSE << >>)

(* Marked once the two markings have diverged.                             *)
DifferenceStep(key, b) ==
  LET mine == Advanced(sim, key.scans[1], b)
      theirs == Advanced(other, key.scans[2], b)
      m == TheOnly(mine)
      t == TheOnly(theirs)
      may(m_closes, t_closes) ==
        /\ m_closes => Accepting(sim, m.reading)
        /\ t_closes => Accepting(other, t.reading)
      marking(m_closes, t_closes) ==
        IF may(m_closes, t_closes)
        THEN <<Key(<<ClosedIf(sim, m, m_closes), ClosedIf(other, t, t_closes)>>,
                   0, FALSE, key.marked \/ m_closes # t_closes)>>
        ELSE << >>
  IN IF mine = {} \/ theirs = {} THEN LeadsTo(<< >>)
     ELSE IF key.marked /\ may(TRUE, TRUE) THEN InputEnds
     ELSE LeadsTo(marking(FALSE, FALSE) \o marking(FALSE, TRUE)
                  \o marking(TRUE, FALSE) \o marking(TRUE, TRUE))

(* Each side completed with the dead position; ends where one accepts.     *)
SegmentationStep(key, b) ==
  LET mine(closes) == ReadMarked(sim, key.scans[1], b, closes)
      theirs(closes) == ReadMarked(other, key.scans[2], b, closes)
      accepts(D, position) == ~ IsDead(D, position) /\ Accepting(D, position.reading)
      symbol(closes) ==
        IF IsDead(sim, mine(closes)) /\ IsDead(other, theirs(closes)) THEN << >>
        ELSE <<Key(<<mine(closes), theirs(closes)>>, 0, FALSE, FALSE)>>
  IN IF \E closes \in BOOLEAN : accepts(sim, mine(closes)) # accepts(other, theirs(closes))
     THEN InputEnds
     ELSE LeadsTo(symbol(FALSE) \o symbol(TRUE))

(* The matcher's moves, each without a close and, where the segment        *)
(* accepts, with one: outside an occurrence it may stay there, and outside *)
(* or inside it may read the window's next byte.                           *)
Guesses(key, b, closes) ==
  LET window == query.window
      branch(matched) ==
        <<[matched |-> matched, cuts |-> FALSE]>>
        \o IF closes THEN <<[matched |-> matched, cuts |-> TRUE]>> ELSE << >>
  IN IF key.marked THEN branch(key.matched)
     ELSE (IF key.matched = 0 THEN branch(0) ELSE << >>)
          \o IF window[key.matched + 1] = b THEN branch(key.matched + 1) ELSE << >>

(* Marked once the whole window has been read.                             *)
OccurrenceStep(key, b) ==
  LET read == Advanced(sim, key.scans[1], b)
      position == TheOnly(read)
      guesses == Guesses(key, b, Accepting(sim, position.reading))
      marked(g) == g.matched = Len(query.window)
      after(g) == Key(<<ClosedIf(sim, position, g.cuts)>>, g.matched, FALSE, marked(g))
  IN IF read = {} THEN LeadsTo(<< >>)
     ELSE IF \E i \in DOMAIN guesses : marked(guesses[i]) /\ guesses[i].cuts THEN InputEnds
     ELSE LeadsTo([ i \in DOMAIN guesses |-> after(guesses[i]) ])

(* The origin bit after a byte and its close: for the covering claim       *)
(* whether the latest token start is at the origin, for a claim about a    *)
(* gap whether the gap is a boundary.                                      *)
OriginBit(key, g) ==
  IF search.kind = "covers"
  THEN IF g.cuts THEN g.matched = search.gap ELSE g.matched > 0 /\ key.at_origin
  ELSE \/ g.cuts /\ g.matched = search.gap
       \/ g.matched > search.gap /\ key.at_origin

(* The covering claim is read off the bit before the final byte, a gap's   *)
(* off the bit after it.                                                   *)
KeepsClaim(key, g) ==
  CASE search.kind = "covers"  -> key.at_origin
    [] search.kind = "cut"     -> OriginBit(key, g)
    [] search.kind = "crossed" -> ~ OriginBit(key, g)

(* Marked once the occurrence has been read through with the claim failed; *)
(* one that keeps the claim is dropped.                                    *)
OriginStep(key, b) ==
  LET read == Advanced(sim, key.scans[1], b)
      position == TheOnly(read)
      guesses == Guesses(key, b, Accepting(sim, position.reading))
      through(g) == ~ key.marked /\ g.matched = Len(query.window)
      dropped(g) == through(g) /\ KeepsClaim(key, g)
      marked(g) == key.marked \/ through(g)
      after(g) == Key(<<ClosedIf(sim, position, g.cuts)>>, g.matched,
                      OriginBit(key, g) /\ ~ marked(g), marked(g))
  IN IF read = {} THEN LeadsTo(<< >>)
     ELSE IF \E i \in DOMAIN guesses :
               ~ dropped(guesses[i]) /\ marked(guesses[i]) /\ guesses[i].cuts
     THEN InputEnds
     ELSE LeadsTo(FlattenSeq([ i \in DOMAIN guesses |->
                                 IF dropped(guesses[i]) THEN << >>
                                 ELSE <<after(guesses[i])>> ]))

Step(key, b) ==
  CASE search.kind = "rescue"       -> RescueStep(key, b)
    [] search.kind = "difference"   -> DifferenceStep(key, b)
    [] search.kind = "segmentation" -> SegmentationStep(key, b)
    [] search.kind = "occurrence"   -> OccurrenceStep(key, b)
    [] search.kind \in OriginKinds  -> OriginStep(key, b)

----------------------------------------------------------------------------
(* The bytes on the way to a key, read back through the parents.           *)
Trail(number) ==
  LET path[n \in 1 .. Len(keys)] ==
        IF n = 1 THEN << >> ELSE Append(path[parents[n].from], parents[n].byte)
  IN path[number]

(* The keys with those of the successors that are new, until the cap.      *)
Admitted(successors) ==
  LET admit(known, key) ==
        IF known.full \/ Contains(known.keys, key) THEN known
        ELSE IF Len(known.keys) >= query.cap THEN [known EXCEPT !.full = TRUE]
        ELSE [known EXCEPT !.keys = Append(@, key)]
      after[n \in 0 .. Len(successors)] ==
        IF n = 0 THEN [keys |-> keys, full |-> FALSE]
        ELSE admit(after[n - 1], successors[n])
  IN after[Len(successors)]

(* A cap of zero holds not even the start.                                 *)
Begin(kind, gap) ==
  /\ search' = [kind |-> kind, gap |-> gap]
  /\ keys' = <<StartKey(kind, gap)>>
  /\ parents' = <<[from |-> 0, byte |-> Bytes[1]]>>
  /\ expanding' = 1
  /\ trying' = 1
  /\ status' = IF query.cap = 0 THEN "settled" ELSE "searching"
  /\ outcome' = Outcome(<< >>, FALSE)

Reading == status = "searching" /\ expanding <= Len(keys) /\ trying <= Len(Bytes)

stepped == Step(keys[expanding], Bytes[trying])

Settle(found) ==
  /\ status' = "settled"
  /\ outcome' = found
  /\ UNCHANGED <<asked, search, frontier, half, verdicts>>

WitnessEnds ==
  /\ Reading
  /\ stepped.ends
  /\ Settle(Outcome(Append(Trail(expanding), Bytes[trying]), TRUE))

Admit(known) ==
  /\ keys' = known.keys
  /\ parents' = parents \o [ i \in 1 .. Len(known.keys) - Len(keys) |->
                                [from |-> expanding, byte |-> Bytes[trying]] ]

ReadByte ==
  /\ Reading
  /\ ~ stepped.ends
  /\ LET known == Admitted(stepped.successors)
     IN ~ known.full /\ Admit(known)
  /\ trying' = trying + 1
  /\ UNCHANGED <<asked, search, expanding, status, outcome, half, verdicts>>

(* A key would pass the ceiling: the question stays open.                  *)
LeaveOpen ==
  /\ Reading
  /\ ~ stepped.ends
  /\ LET known == Admitted(stepped.successors)
     IN known.full /\ Admit(known)
  /\ status' = "settled"
  /\ outcome' = Outcome(<< >>, FALSE)
  /\ UNCHANGED <<asked, search, expanding, trying, half, verdicts>>

NextKey ==
  /\ status = "searching"
  /\ expanding <= Len(keys)
  /\ trying > Len(Bytes)
  /\ expanding' = expanding + 1
  /\ trying' = 1
  /\ UNCHANGED <<asked, search, keys, parents, status, outcome, half, verdicts>>

Exhausted ==
  /\ status = "searching"
  /\ expanding > Len(keys)
  /\ Settle(Proved)

----------------------------------------------------------------------------
Tokenizes(D, w) == Serial(D, w).consumed = Len(w)

(* The half of a witness of a segmentation difference.                     *)
Half(found) ==
  IF search.kind # "segmentation" \/ found.witness = << >> THEN "none"
  ELSE IF Tokenizes(sim, found.witness) /\ Tokenizes(other, found.witness)
       THEN "boundary" ELSE "domain"

Answer ==
  /\ status = "settled"
  /\ query.kind # "profile"
  /\ half' = Half(outcome)
  /\ status' = "answered"
  /\ UNCHANGED <<asked, search, frontier, outcome, verdicts>>

(* The verdict on a gap, read off its two refutations.                     *)
GapVerdict(crossed, cut) ==
  IF ~ (crossed.exhaustive /\ cut.exhaustive) THEN "undetermined"
  ELSE CASE crossed.witness = << >> /\ cut.witness = << >> -> "absent"
         [] crossed.witness = << >> /\ cut.witness # << >> -> "must"
         [] crossed.witness # << >> /\ cut.witness = << >> -> "never"
         [] OTHER                                          -> "may"

VerdictOn(crossed, cut) ==
  [verdict |-> GapVerdict(crossed, cut), crossed |-> crossed, cut |-> cut]

(* Absence is given at every gap.                                          *)
AbsentEverywhere == [ g \in 1 .. Len(query.window) + 1 |-> VerdictOn(Proved, Proved) ]

ProfileIs(verdicts_) ==
  /\ profile' = verdicts_
  /\ status' = "answered"
  /\ UNCHANGED <<asked, search, frontier, outcome, half, refuted>>

Profiling(kind) ==
  status = "settled" /\ query.kind = "profile" /\ search.kind = kind

ProfileAbsent ==
  /\ Profiling("occurrence")
  /\ outcome = Proved
  /\ ProfileIs(AbsentEverywhere)

ProfileFirstGap ==
  /\ Profiling("occurrence")
  /\ outcome # Proved
  /\ Begin("cut", 0)
  /\ UNCHANGED <<asked, half, verdicts>>

(* boundary_counterexample() has answered; crossing_counterexample() next. *)
ProfileCrossing ==
  /\ Profiling("cut")
  /\ refuted' = outcome
  /\ Begin("crossed", search.gap)
  /\ UNCHANGED <<asked, half, profile>>

decided == VerdictOn(refuted, outcome)

ProfileGapAbsent ==
  /\ Profiling("crossed")
  /\ decided.verdict = "absent"
  /\ ProfileIs(AbsentEverywhere)

ProfileNextGap ==
  /\ Profiling("crossed")
  /\ decided.verdict # "absent"
  /\ search.gap < Len(query.window)
  /\ profile' = Append(profile, decided)
  /\ Begin("cut", search.gap + 1)
  /\ UNCHANGED <<asked, half, refuted>>

ProfileLastGap ==
  /\ Profiling("crossed")
  /\ decided.verdict # "absent"
  /\ search.gap = Len(query.window)
  /\ ProfileIs(Append(profile, decided))

----------------------------------------------------------------------------
BoundaryInit ==
  /\ query \in BoundaryQueries
  /\ sim = Tables[query.sets[1]]
  /\ other = Tables[query.sets[2]]
  /\ LET kind == IF query.kind = "profile" THEN "occurrence" ELSE query.kind
     IN /\ search = [kind |-> kind, gap |-> query.gap]
        /\ keys = <<StartKey(kind, query.gap)>>
  /\ parents = <<[from |-> 0, byte |-> Bytes[1]]>>
  /\ expanding = 1
  /\ trying = 1
  /\ status = IF query.cap = 0 THEN "settled" ELSE "searching"
  /\ outcome = Outcome(<< >>, FALSE)
  /\ half = "none"
  /\ refuted = Proved
  /\ profile = << >>

SearchNext == WitnessEnds \/ ReadByte \/ LeaveOpen \/ NextKey \/ Exhausted

ProfileNext ==
  \/ ProfileAbsent \/ ProfileFirstGap \/ ProfileCrossing
  \/ ProfileGapAbsent \/ ProfileNextGap \/ ProfileLastGap

BoundaryNext == SearchNext \/ Answer \/ ProfileNext

BoundarySpec == BoundaryInit /\ [][BoundaryNext]_searchVars

----------------------------------------------------------------------------
(* The reference: the serial scans of every input up to a length, and the  *)
(* event each decision asks after, by what the scans are.                  *)
WordsTo(longest) == UNION { [1 .. n -> Symbols] : n \in 0 .. longest }

Scans ==
  [ D \in TokenSets |->
      [ w \in WordsTo(MaxWord) |-> Serial(Tables[D], w) ] ]

Complete(scan, w) == scan.consumed = Len(w)

StartsOf(scan) == { scan.stream[i].begin : i \in 1 .. Len(scan.stream) }

(* A token begins there or the input ends there.                           *)
IsBoundary(scan, w, gap) == gap \in StartsOf(scan) \cup {Len(w)}

OccurrencesIn(w, window) ==
  { o \in 0 .. Len(w) - Len(window) : SubSeq(w, o + 1, o + Len(window)) = window }

(* A token whose scan reads past its end before it rolls back to it.       *)
RollsBack(D, scan, w) ==
  \E i \in 1 .. Len(scan.stream) :
    LET token == scan.stream[i]
        past == token.length + 1
    IN /\ token.begin + past <= Len(w)
       /\ StateAfter(D, w, token.begin)[past] # NoState

(* The token that covers the occurrence's last byte begins elsewhere.      *)
CoveredElsewhere(scan, o, window, origin) ==
  \E i \in 1 .. Len(scan.stream) :
    LET token == scan.stream[i]
        final == o + Len(window) - 1
    IN /\ token.begin <= final /\ final < token.begin + token.length
       /\ token.begin # o + origin

EventIn(kind, gap, w, mine, theirs) ==
  LET places == OccurrencesIn(w, query.window)
  IN CASE kind = "rescue" -> Complete(mine, w) /\ RollsBack(sim, mine, w)
       [] kind = "difference" ->
            /\ Complete(mine, w) /\ Complete(theirs, w)
            /\ StartsOf(mine) # StartsOf(theirs)
       [] kind = "segmentation" ->
            \/ Complete(mine, w) # Complete(theirs, w)
            \/ Complete(mine, w) /\ StartsOf(mine) # StartsOf(theirs)
       [] kind = "occurrence" -> w # << >> /\ Complete(mine, w) /\ places # {}
       [] kind = "covers" ->
            Complete(mine, w) /\ \E o \in places : CoveredElsewhere(mine, o, query.window, gap)
       [] kind = "cut" ->
            Complete(mine, w) /\ \E o \in places : ~ IsBoundary(mine, w, o + gap)
       [] kind = "crossed" ->
            Complete(mine, w) /\ \E o \in places : IsBoundary(mine, w, o + gap)

Happens(kind, gap, w) ==
  IF Len(w) <= MaxWord
  THEN EventIn(kind, gap, w, Scans[query.sets[1]][w], Scans[query.sets[2]][w])
  ELSE EventIn(kind, gap, w, Serial(sim, w), Serial(other, w))

HappensWithin(kind, gap, longest) ==
  LET mine == Scans[query.sets[1]]
      theirs == Scans[query.sets[2]]
  IN \E w \in WordsTo(IF longest < MaxWord THEN longest ELSE MaxWord) :
       EventIn(kind, gap, w, mine[w], theirs[w])

(* What a profile says of a gap, by what happens at it in the inputs.      *)
VerdictHolds(verdict, gap) ==
  LET isCrossed == HappensWithin("cut", gap, MaxWord)
      isCut == HappensWithin("crossed", gap, MaxWord)
  IN CASE verdict = "absent" -> ~ HappensWithin("occurrence", 0, MaxWord)
       [] verdict = "must"   -> ~ isCrossed
       [] verdict = "never"  -> ~ isCut
       [] OTHER -> TRUE

(* A witness is an input on which the event happens, and none is shorter;  *)
(* an empty one from a search that settled means that there is none, and a *)
(* search settles unless it holds as many keys as the cap allows, which it *)
(* never exceeds (boundary_search.hpp 21-26).  A separating input is one   *)
(* that both tokenize and cut apart, or that only one tokenizes.  In a     *)
(* profile every gap of the window gets its verdict, must and never hold   *)
(* of every occurrence and only of a window that occurs, absence is given  *)
(* at every gap or at none, and a verdict is left open only by the cap     *)
(* (boundary_search.hpp 486-517).                                          *)
AnswerIsExact ==
  /\ Len(keys) <= query.cap \/ query.cap = 0
  /\ status = "settled" =>
       IF ~ outcome.exhaustive
       THEN outcome.witness = << >> /\ (query.cap = 0 \/ Len(keys) = query.cap)
       ELSE IF outcome.witness = << >>
       THEN ~ HappensWithin(search.kind, search.gap, MaxWord)
       ELSE /\ Happens(search.kind, search.gap, outcome.witness)
            /\ ~ HappensWithin(search.kind, search.gap, Len(outcome.witness) - 1)
  /\ half # "none" =>
       (half = "boundary" <=> Happens("difference", 0, outcome.witness))
  /\ query.kind = "profile" /\ status = "answered" =>
       /\ Len(profile) = Len(query.window) + 1
       /\ \A g \in DOMAIN profile :
            LET p == profile[g]
            IN /\ VerdictHolds(p.verdict, g - 1)
               /\ p.crossed.witness # << >> => Happens("cut", g - 1, p.crossed.witness)
               /\ p.cut.witness # << >> => Happens("crossed", g - 1, p.cut.witness)
               /\ p.verdict \in {"must", "may"} => p.cut.witness # << >>
               /\ p.verdict \in {"never", "may"} => p.crossed.witness # << >>
               /\ p.verdict = "undetermined" <=> ~ (p.crossed.exhaustive /\ p.cut.exhaustive)
       /\ (\E g \in DOMAIN profile : profile[g].verdict = "absent") =>
            \A g \in DOMAIN profile : profile[g].verdict = "absent"
=============================================================================
