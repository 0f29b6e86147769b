-------------------------- MODULE OfflineDecisions --------------------------
(***************************************************************************)
(* The offline decisions as their callers ask them, of one compiled token  *)
(* set: a decision of boundary_search.hpp on its own; audit(), which asks  *)
(* for the span between certified bytes, the lag, the rescue, the windows  *)
(* and their span, and then blames the bytes that are not certified; and a *)
(* caller with a tail whose beginning is damaged.                          *)
(*                                                                         *)
(* The decisions of recovery.hpp about such a tail are defined here: where *)
(* a token must begin in it, and the shortest text that repairs it; and    *)
(* with them the lag of a token set. They play one scenario per state in   *)
(* which a scan can cross into the tail, and enumerate no repair.          *)
(***************************************************************************)
EXTENDS BoundarySearch, CertificateWalk, FiniteSetsExt

CONSTANTS RescueCap,    \* dfa::rescue_cap: the audited sets are those asked under it
          WindowLimit,  \* window_limit of audit()
          Tails,        \* the inputs whose beginning is damaged
          MaxAudited    \* the longest input a report is compared with

ASSUME OfflineAssumption ==
  /\ RescueCap \in Nat /\ WindowLimit \in Nat /\ MaxAudited \in Nat
  /\ Tails \subseteq Seq(Symbols)

----------------------------------------------------------------------------
(* anchor_free_span(): the longest run of bytes of a completely            *)
(* tokenizable input at which no window of an inventory is anchored, by a  *)
(* walk over a graph of guesses: where the tokens end, and where a run     *)
(* begins and ends.  A window is seen only at its last byte and anchors a  *)
(* byte before it, so a run is remembered until no window reaches it.      *)
VARIABLES
  inventory,        \* the certified windows, each with its origin
  numbered, edges,  \* the graph: the nodes in the order found, <<at, target, inside>>
  explored,         \* how many of the nodes have been expanded
  span

spanVars == <<sim, inventory, numbered, edges, explored, span>>

Undecided == -2

(* The certified bytes as windows of one byte.                            *)
CertifiedBytes(D) == { [window |-> <<b>>, origin |-> 0] : b \in D.split_points }

(* How far back from its last byte a window can anchor.                    *)
reach == Max({0} \cup { Len(w.window) - 1 : w \in inventory })

----------------------------------------------------------------------------
(* The vertices placed in layers, one as soon as all the edges into it     *)
(* come from placed ones: all of them unless there is a cycle, and the     *)
(* longest path is one edge shorter than there are layers.                 *)
LongestPath(vertices, arcs) ==
  LET layered[n \in 0 .. Cardinality(vertices)] ==
        IF n = 0 THEN [placed |-> {}, layers |-> 0]
        ELSE LET before == layered[n - 1]
                 open == { a \in arcs : a[1] \notin before.placed }
             IN IF before.placed = vertices THEN before
                ELSE [ placed |-> vertices \ { a[2] : a \in open },
                       layers |-> before.layers + 1 ]
      all == layered[Cardinality(vertices)]
  IN IF all.placed # vertices THEN Unbounded ELSE Max({0, all.layers - 1})

(* A cycle among the live states.                                          *)
UnboundedToken ==
  LET arcs == { p \in sim.live \X sim.live : \E a \in Symbols : sim.next[p[1]][a] = p[2] }
  IN LongestPath(sim.live, arcs) = Unbounded

----------------------------------------------------------------------------
Node(reading, closed, prefix) ==
  [ reading |-> reading, closed |-> closed, prefix |-> prefix,
    phase |-> "before", since_start |-> 0, since_end |-> 0 ]

(* The marking after a byte, the segment closed before it on a mark; a     *)
(* closed run that accepts refutes the close.                              *)
Read(node, mark, b) ==
  LET runs == node.closed \cup (IF mark THEN {node.reading} ELSE {})
      moved == { sim.next[s][b] : s \in runs } \ {NoState}
      to == sim.next[IF mark THEN sim.init ELSE node.reading][b]
  IN IF to = NoState \/ \E s \in moved : Accepting(sim, s) THEN {}
     ELSE {[node EXCEPT !.reading = to, !.closed = moved]}

WindowPrefixes ==
  {<< >>} \cup UNION { { SubSeq(w.window, 1, n) : n \in 1 .. Len(w.window) } : w \in inventory }

(* The longest suffix of what was read that begins a window.               *)
MovedPrefix(prefix, b) ==
  LET begun == { p \in WindowPrefixes : IsSuffix(p, Append(prefix, b)) }
  IN CHOOSE p \in begun : \A q \in begun : Len(q) <= Len(p)

(* How far back from the byte the windows completed by it anchor.          *)
Ages(prefix, b) ==
  { Len(w.window) - 1 - w.origin :
      w \in { v \in inventory : IsSuffix(v.window, Append(prefix, b)) } }

Within(ages, low, high) == \E age \in ages : low <= age /\ age <= high

AtMost(n, cap) == IF n < cap THEN n ELSE cap

(* A run once ended taken to be out of the reach of every window.          *)
StretchedForgetful(node, ages) ==
  LET since_start == AtMost(node.since_start + 1, reach)
      with(phase, start, end) ==
        [node EXCEPT !.phase = phase, !.since_start = start, !.since_end = end]
      when(condition, phase, start, end, inside) ==
        IF condition THEN {<<with(phase, start, end), inside>>} ELSE {}
  IN CASE node.phase = "before" ->
            when(TRUE, "before", 0, 0, FALSE)
            \cup when(~ Within(ages, 0, 0), "inside", 0, 0, TRUE)
       [] node.phase = "inside" ->
            when(~ Within(ages, 0, since_start), "inside", since_start, 0, TRUE)
            \cup when(~ Within(ages, 1, since_start), "settled", 0, 0, FALSE)
       [] OTHER -> when(TRUE, "settled", 0, 0, FALSE)

(* Where the run may stand after a byte, and whether the byte lies in it;  *)
(* a window that anchors inside the run is refused.                        *)
Stretched(node, ages) ==
  LET since_start == AtMost(node.since_start + 1, reach)
      since_end == node.since_end + 1
      with(phase, start, end) ==
        [node EXCEPT !.phase = phase, !.since_start = start, !.since_end = end]
      when(condition, phase, start, end, inside) ==
        IF condition THEN {<<with(phase, start, end), inside>>} ELSE {}
      ended(end) == IF end < reach THEN "after" ELSE "settled"
      since(end, distance) == IF end < reach THEN distance ELSE 0
  IN CASE node.phase = "before" ->
            when(TRUE, "before", 0, 0, FALSE)
            \cup when(~ Within(ages, 0, 0), "inside", 0, 0, TRUE)
       [] node.phase = "inside" ->
            when(~ Within(ages, 0, since_start), "inside", since_start, 0, TRUE)
            \cup when(~ Within(ages, 1, since_start), ended(0), since(0, since_start), 0, FALSE)
       [] node.phase = "after" ->
            when(~ Within(ages, since_end + 1, since_start),
                 ended(since_end), since(since_end, since_start), since(since_end, since_end),
                 FALSE)
       [] node.phase = "settled" ->
            when(TRUE, "settled", 0, 0, FALSE)

(* What a node leads to: a segment closes only where it accepts.           *)
Follow(node, mark, b) ==
  IF mark /\ ~ Accepting(sim, node.reading) THEN {}
  ELSE UNION { Stretched([next EXCEPT !.prefix = MovedPrefix(node.prefix, b)],
                         Ages(node.prefix, b))
               : next \in Read(node, mark, b) }

----------------------------------------------------------------------------
StartNode(D) == Node(D.init, {}, << >>)

(* The nodes from which an input can be completed.                         *)
Endable ==
  LET finishing[n \in 0 .. Len(numbered)] ==
        IF n = 0 THEN { i \in DOMAIN numbered : Accepting(sim, numbered[i].reading) }
        ELSE LET known == finishing[n - 1]
             IN known \cup { e[1] : e \in { d \in edges : d[2] \in known } }
  IN finishing[Len(numbered)]

(* The most bytes inside a run, on a path of nodes that can be completed.  *)
LongestStretch ==
  LET finishing == Endable
      inside == { <<e[1], e[2]>> : e \in { d \in edges : d[3] } }
  IN IF 1 \notin finishing THEN 0
     ELSE LongestPath(finishing, { e \in inside : e[1] \in finishing /\ e[2] \in finishing })

(* What needs no graph: no window at all, and a token of any length, which *)
(* no window anchors inside.                                               *)
Immediate ==
  IF inventory = {} THEN {IF sim.init \in sim.live THEN Unbounded ELSE 0}
  ELSE IF UnboundedToken THEN {Unbounded}
  ELSE {}

WalkStarts(D, windows) ==
  /\ inventory' = windows
  /\ numbered' = <<StartNode(D)>>
  /\ edges' = {}
  /\ explored' = 0
  /\ span' = Undecided

DecideAtOnce ==
  /\ span = Undecided
  /\ explored = 0
  /\ span' \in Immediate
  /\ UNCHANGED <<sim, inventory, numbered, edges, explored>>

ExploreNode ==
  /\ span = Undecided
  /\ explored < Len(numbered)
  /\ explored = 0 => Immediate = {}
  /\ LET at == explored + 1
         entered == UNION { Follow(numbered[at], mark, b) : mark \in BOOLEAN, b \in Symbols }
         found == numbered \o SetToSeq({ e[1] : e \in entered } \ Range(numbered))
         number(node) == CHOOSE i \in DOMAIN found : found[i] = node
     IN /\ numbered' = found
        /\ edges' = edges \cup { <<at, number(e[1]), e[2]>> : e \in entered }
        /\ explored' = at
  /\ UNCHANGED <<sim, inventory, span>>

DecideByGraph ==
  /\ span = Undecided
  /\ explored = Len(numbered)
  /\ span' = LongestStretch
  /\ UNCHANGED <<sim, inventory, numbered, edges, explored>>

SpanNext == DecideAtOnce \/ ExploreNode \/ DecideByGraph

----------------------------------------------------------------------------
(* The reference: the bytes of an input that no window anchors, and the    *)
(* longest run of them.                                                    *)
Anchored(w) ==
  { at[1] + at[2].origin :
      at \in { p \in (0 .. Len(w) - 1) \X inventory :
                /\ p[1] + Len(p[2].window) <= Len(w)
                /\ SubSeq(w, p[1] + 1, p[1] + Len(p[2].window)) = p[2].window } }

LongestFree(w) ==
  LET anchored == Anchored(w)
  IN Max({0} \cup { n \in 1 .. Len(w) :
                      \E from \in 0 .. Len(w) - n :
                        (from .. from + n - 1) \cap anchored = {} })

(* The longest run of any of the completely tokenizable inputs among some. *)
LongestFreeAmong(words) == Max({0} \cup { LongestFree(w) : w \in words })

----------------------------------------------------------------------------
(* The run ended at its first accept.                                      *)
ShortestRun(D, state, tail, from) ==
  LET after == StateAfter([D EXCEPT !.init = state], tail, from)
      ends == { n \in 0 .. Len(tail) - from : after[n] # NoState /\ Accepting(D, after[n]) }
  IN { from + n : n \in { e \in ends : \A f \in ends : e <= f } }

(* Where the run from a state last accepts, as the one answer or none; a   *)
(* state that accepts before it reads counts.                              *)
MaximalRun(D, state, tail, from) ==
  LET after == StateAfter([D EXCEPT !.init = state], tail, from)
      ends == { n \in 0 .. Len(tail) - from : after[n] # NoState /\ Accepting(D, after[n]) }
  IN { from + n : n \in { e \in ends : \A f \in ends : f <= e } }

(* The offsets from which the rest of the tail tokenizes, decided from     *)
(* right to left.                                                          *)
Tokenizing(D, tail) ==
  LET tokenizes[at \in 0 .. Len(tail)] ==
        IF at = Len(tail) THEN {at}
        ELSE tokenizes[at + 1]
             \cup { o \in {at} : MaximalRun(D, D.init, tail, o) \cap tokenizes[at + 1] # {} }
  IN tokenizes[0]

(* The states a scan can be in when it enters the tail in mid-token, with  *)
(* the shortest word to each: a breadth-first walk from the initial state, *)
(* which is entered only if a transition leads back to it.                 *)
CrossingEntries(D) ==
  LET expand(known, from, via) ==
        LET after[n \in 0 .. Len(Bytes)] ==
              IF n = 0 THEN known
              ELSE LET k == after[n - 1]
                       to == D.next[from][Bytes[n]]
                   IN IF to = NoState \/ \E i \in 1 .. Len(k) : k[i].state = to THEN k
                      ELSE Append(k, [state |-> to, via |-> Append(via, Bytes[n])])
        IN after[Len(Bytes)]
      walked[n \in 0 .. D.count] ==
        IF n = 0 THEN expand(<< >>, D.init, << >>)
        ELSE LET known == walked[n - 1]
             IN IF n > Len(known) THEN known
                ELSE expand(known, known[n].state, known[n].via)
  IN Range(walked[D.count])

(* The entries from which the tail tokenizes, each with the boundary it    *)
(* puts first in the tail.                                                 *)
CompletingCrossings(D, tail) ==
  LET tokenizing == Tokenizing(D, tail)
  IN UNION { { [state |-> e.state, via |-> e.via, boundary |-> b] :
                 b \in MaximalRun(D, e.state, tail, 0) \cap tokenizing }
             : e \in CrossingEntries(D) }

----------------------------------------------------------------------------
(* The boundaries of the scenario that puts the first one at an offset.    *)
Chain(D, tail, first) ==
  LET from[at \in 0 .. Len(tail)] ==
        IF at = Len(tail) THEN {}
        ELSE {at} \cup UNION { from[b] : b \in MaximalRun(D, D.init, tail, at) }
  IN from[first]

(* The first boundaries of the crossings, and of the tail scanned afresh.  *)
FirstBoundaries(D, tail) ==
  { c.boundary : c \in CompletingCrossings(D, tail) } \cup (Tokenizing(D, tail) \cap {0})

FirstOf(S) == { at \in S : \A o \in S : at <= o }

(* The first position that every completing scenario makes a boundary; a   *)
(* tail beyond repair is refused.                                          *)
NextAnchoredStart(D, tail, from) ==
  IF FirstBoundaries(D, tail) = {} THEN {}
  ELSE FirstOf({ at \in from .. Len(tail) - 1 :
                   \A first \in FirstBoundaries(D, tail) : at \in Chain(D, tail, first) })

(* The shortest witness, of the lowest state among equals.                 *)
MinimalRepair(D, tail) ==
  IF 0 \in Tokenizing(D, tail) THEN {<< >>}
  ELSE LET completing == CompletingCrossings(D, tail)
           before(c, d) ==
             \/ Len(c.via) < Len(d.via)
             \/ Len(c.via) = Len(d.via) /\ c.state <= d.state
       IN { c.via : c \in { d \in completing : \A o \in completing : before(d, o) } }

----------------------------------------------------------------------------
(* The nonaccepting states a state leads to in one step.                   *)
NonacceptingSuccessors(D, s) ==
  { t \in States(D) :
      ~ Accepting(D, t) /\ \E a \in Symbols : D.next[s][a] = t }

(* The region left out the states from which no scan can accept again.     *)
PostAcceptRegionLive(D) ==
  { s \in D.live :
      \A C \in SUBSET States(D) :
        (\A r \in States(D) :
           r \in C \/ (Accepting(D, r) /\ r \in D.live)
             => NonacceptingSuccessors(D, r) \subseteq C)
        => s \in C }

(* The nonaccepting successors of accepting states that inputs reach,      *)
(* closed under nonaccepting steps.                                        *)
PostAcceptRegion(D) ==
  { s \in States(D) :
      \A C \in SUBSET States(D) :
        (\A r \in States(D) :
           r \in C \/ (Accepting(D, r) /\ r \in D.live)
             => NonacceptingSuccessors(D, r) \subseteq C)
        => s \in C }

(* The region's longest path in states, by peeling off those whose         *)
(* successors' depths are known; what is left over closes a cycle, and the *)
(* path is unbounded.                                                      *)
Lag(D) ==
  LET region == PostAcceptRegion(D)
      depths[round \in 0 .. Cardinality(region)] ==
        IF round = 0 THEN {}
        ELSE LET resolved == depths[round - 1]
                 known == { d[1] : d \in resolved }
                 depth(s) ==
                   1 + Max({0} \cup { d[2] : d \in { e \in resolved :
                                                e[1] \in NonacceptingSuccessors(D, s) } })
             IN resolved \cup
                { <<s, depth(s)>> : s \in { r \in region \ known :
                                              NonacceptingSuccessors(D, r) \subseteq known } }
      resolved == depths[Cardinality(region)]
  IN IF { d[1] : d \in resolved } # region THEN Unbounded
     ELSE Max({0} \cup { d[2] : d \in resolved })

----------------------------------------------------------------------------
VARIABLES
  stage,        \* what the caller has asked for last
  report,       \* what audit() has collected
  damaged, mended  \* the damaged input, and what was decided about it

walkVars == <<inventory, numbered, edges, explored, span>>
tailVars == <<damaged, mended>>
offlineVars == <<searchVars, walkVars, stage, report, tailVars>>

NotDecided == "not decided"

----------------------------------------------------------------------------
(* The windows of two bytes and more.                                      *)
CertifiedWindows(D) ==
  { [window |-> w, origin |-> SplitOrigin(D, w)] :
      w \in { v \in WordsTo(WindowLimit) : Len(v) >= 2 /\ SplitOrigin(D, v) # BeforeWindow } }

(* The search ended at the nearest accepting states.                       *)
TokensAheadNearest(D, s) ==
  LET passable == [ t \in States(D) |->
                      IF Accepting(D, t) THEN [ a \in Symbols |-> NoState ] ELSE D.next[t] ]
      from == [D EXCEPT !.init = s, !.next = passable]
  IN { D.accept[t] : t \in Reachable(from) } \ {NoToken}

(* The tokens a scan in a state can still be on its way to.                *)
TokensAhead(D, s) ==
  LET from == [D EXCEPT !.init = s]
  IN { D.accept[t] : t \in Reachable(from) } \ {NoToken}

(* The order of the inputs: by length, then by their bytes.                *)
Index(b) == CHOOSE i \in DOMAIN Bytes : Bytes[i] = b

NoLater(v, w) ==
  \/ Len(v) < Len(w)
  \/ v = w
  \/ /\ Len(v) = Len(w)
     /\ \E i \in DOMAIN v : /\ Index(v[i]) < Index(w[i])
                            /\ \A j \in 1 .. i - 1 : v[j] = w[j]

(* For every byte that could have been certified and is not, the tokens    *)
(* that read it in their interior, and the shortest input after which they *)
(* do.                                                                     *)
Blame(D) ==
  LET blamed == { b \in Symbols \ D.split_points : D.next[D.init][b] \in D.live }
      inside(b) == { e \in CrossingEntries(D) :
                       e.state \in D.live /\ D.next[e.state][b] \in D.live }
      entries(b) == UNION { { [byte |-> b, token |-> t, after |-> e.via] :
                                t \in TokensAhead(D, D.next[e.state][b]) } : e \in inside(b) }
      shortest(E) == { e \in E : \A o \in E : o.token = e.token => NoLater(e.after, o.after) }
  IN UNION { shortest(entries(b)) : b \in blamed }

----------------------------------------------------------------------------
NoReport ==
  [ byte_span |-> NotDecided, lag |-> NotDecided, rescue |-> NotDecided,
    windows |-> {}, window_span |-> NotDecided, blame |-> {} ]

NoSearch ==
  /\ search = [kind |-> "rescue", gap |-> 0]
  /\ keys = << >> /\ parents = << >> /\ expanding = 0 /\ trying = 0
  /\ status = "not asked"
  /\ outcome = Outcome(<< >>, FALSE)
  /\ half = "none" /\ refuted = Proved /\ profile = << >>

NoWalk ==
  /\ inventory = {} /\ numbered = << >> /\ edges = {} /\ explored = 0
  /\ span = Undecided

NoTail == damaged = << >> /\ mended = NotDecided

AskOne == BoundaryInit /\ NoWalk /\ NoTail /\ stage = "one decision" /\ report = NoReport

AskAudit ==
  /\ query \in { q \in BoundaryQueries : q.kind = "rescue" /\ q.cap = RescueCap }
  /\ sim = Tables[query.sets[1]]
  /\ other = Tables[query.sets[2]]
  /\ NoSearch /\ NoTail
  /\ inventory = CertifiedBytes(sim)
  /\ numbered = <<StartNode(sim)>>
  /\ edges = {} /\ explored = 0
  /\ span = Undecided
  /\ stage = "byte span"
  /\ report = NoReport

AskTail ==
  /\ \E D \in TokenSets :
       /\ query = [ kind |-> "none", window |-> << >>, gap |-> 0, cap |-> 0,
                    sets |-> <<D, D>> ]
       /\ sim = Tables[D]
       /\ other = Tables[D]
  /\ NoSearch /\ NoWalk
  /\ damaged \in Tails
  /\ mended = NotDecided
  /\ stage = "tail"
  /\ report = NoReport

OfflineInit == AskOne \/ AskAudit \/ AskTail

----------------------------------------------------------------------------
Search == BoundaryNext /\ UNCHANGED <<walkVars, stage, report, tailVars>>

WalkOn ==
  /\ stage \in {"byte span", "window span"}
  /\ SpanNext
  /\ UNCHANGED <<searchVars, stage, report, tailVars>>

ByteSpanDecided ==
  /\ stage = "byte span"
  /\ span # Undecided
  /\ report' = [report EXCEPT !.byte_span = span, !.lag = Lag(sim)]
  /\ stage' = "rescue"
  /\ Begin("rescue", 0)
  /\ UNCHANGED <<asked, half, verdicts, walkVars, tailVars>>

Rescued == [report EXCEPT !.rescue = outcome, !.windows = CertifiedWindows(sim)]

(* Without windows there is no span between them to ask for.               *)
NoWindows ==
  /\ stage = "rescue"
  /\ status = "answered"
  /\ CertifiedWindows(sim) = {}
  /\ report' = [Rescued EXCEPT !.blame = Blame(sim)]
  /\ stage' = "reported"
  /\ UNCHANGED <<searchVars, walkVars, tailVars>>

WindowsFound ==
  /\ stage = "rescue"
  /\ status = "answered"
  /\ CertifiedWindows(sim) # {}
  /\ report' = Rescued
  /\ stage' = "window span"
  /\ WalkStarts(sim, CertifiedWindows(sim))
  /\ UNCHANGED <<searchVars, tailVars>>

WindowSpanDecided ==
  /\ stage = "window span"
  /\ span # Undecided
  /\ report' = [report EXCEPT !.window_span = span, !.blame = Blame(sim)]
  /\ stage' = "reported"
  /\ UNCHANGED <<searchVars, walkVars, tailVars>>

Mend ==
  /\ stage = "tail"
  /\ mended' = [ repair   |-> MinimalRepair(sim, damaged),
                 anchored |-> [ from \in 0 .. Len(damaged) |->
                                  NextAnchoredStart(sim, damaged, from) ] ]
  /\ stage' = "mended"
  /\ UNCHANGED <<searchVars, walkVars, report, damaged>>

OfflineNext ==
  \/ Search \/ WalkOn
  \/ ByteSpanDecided \/ NoWindows \/ WindowsFound \/ WindowSpanDecided
  \/ Mend

OfflineSpec == OfflineInit /\ [][OfflineNext]_offlineVars

----------------------------------------------------------------------------
(* No input of the token set has a longer run of bytes that no window of   *)
(* the inventory anchors, some input has one as long, and an unbounded     *)
(* span is that of runs as long as the inputs allow                        *)
(* (anchor_free_span.hpp 29-33, 52-67).                                    *)
CompleteInputs == { w \in WordsTo(MaxAudited) : Tokenizes(sim, w) }

SpanIsExact ==
  span # Undecided =>
    LET longest == LongestFreeAmong(CompleteInputs)
    IN IF span = Unbounded THEN longest > MaxAudited \div 2 ELSE longest = span

(* The lag is the most nonaccepting states in a row that some run goes     *)
(* through after it has accepted (recovery.hpp 35-39); and a byte is       *)
(* refused a certificate because of the tokens it is blamed on, after the  *)
(* shortest input that shows it, and never without one (report.hpp 86-87,  *)
(* 195-207).                                                               *)
LagAmong(words) ==
  LET run(w) == StateAfter(sim, w, 0)
      stretches(after) ==
        { s[2] - s[1] : s \in { p \in (DOMAIN after) \X (DOMAIN after) :
            /\ p[1] < p[2]
            /\ after[p[2]] # NoState
            /\ Accepting(sim, after[p[1]])
            /\ \A i \in p[1] + 1 .. p[2] : ~ Accepting(sim, after[i]) } }
  IN Max({0} \cup UNION { stretches(run(w)) : w \in words })

InteriorOf(w) == { <<w[i], sim.accept[StateAfter(sim, w, 0)[Len(w)]], SubSeq(w, 1, i - 1)>> :
                     i \in 2 .. Len(w) }

BlameHolds ==
  LET tokens == { w \in CompleteInputs : Len(Serial(sim, w).stream) = 1 }
      interiors == UNION { InteriorOf(w) : w \in tokens }
      begins == { w[1] : w \in tokens }
  IN /\ \A e \in report.blame :
          /\ <<e.byte, e.token, e.after>> \in interiors
          /\ \A i \in interiors : i[1] = e.byte /\ i[2] = e.token => NoLater(e.after, i[3])
     /\ \A i \in interiors : i[1] \in begins =>
          \E e \in report.blame : e.byte = i[1] /\ e.token = i[2]
     /\ \A b \in begins \ sim.split_points : \E e \in report.blame : e.byte = b

ReportIsExact ==
  stage = "reported" =>
    /\ LET longest == LagAmong(WordsTo(MaxAudited))
       IN IF report.lag = Unbounded THEN longest >= sim.count ELSE report.lag = longest
    /\ BlameHolds

(* The repairs: whatever texts take the place of the damaged beginning.    *)
Texts == WordsTo(sim.count)

Repairs == { text \in Texts : Tokenizes(sim, text \o damaged) }

TokenBegins(text, at_) ==
  Len(text) + at_ \in StartsOf(Serial(sim, text \o damaged))

(* A position of the tail is answered just if every repair begins a token  *)
(* there and none before it does in all of them; the repair given makes    *)
(* the whole tokenizable and none is shorter; and neither is answered only *)
(* when nothing repairs the tail (recovery.hpp 13-25, 48-52).              *)
RecoveryIsExact ==
  stage = "mended" =>
    LET begins == { at_ \in 0 .. Len(damaged) - 1 : \A text \in Repairs : TokenBegins(text, at_) }
    IN /\ \A from \in DOMAIN mended.anchored :
            mended.anchored[from] =
              IF Repairs = {} THEN {} ELSE FirstOf({ at_ \in begins : from <= at_ })
       /\ mended.repair \subseteq Repairs
       /\ mended.repair = {} => Repairs = {}
       /\ \A given \in mended.repair, text \in Repairs : Len(given) <= Len(text)

(* What one decision says the others do not deny: a token set without lag  *)
(* is free of rescues (recovery.hpp 38-39); no input refutes a certified   *)
(* window, whose origin is a boundary wherever it occurs; and the anchored *)
(* start of a tail that can be repaired is no later than any certificate   *)
(* in it (recovery.hpp 18-19).                                             *)
DecisionsAgree ==
  /\ stage = "reported" /\ report.lag = 0 => report.rescue.witness = << >>
  /\ query.kind = "covers" /\ outcome.witness # << >> =>
       SplitOrigin(sim, query.window) # query.gap
  /\ \A g \in DOMAIN profile :
       profile[g].verdict \in {"may", "never"} => SplitOrigin(sim, query.window) # g - 1
  /\ stage = "mended" /\ mended.repair # {} =>
       \A from \in DOMAIN mended.anchored :
         \A found \in NextCertified(sim, damaged, from) :
           found.start < Len(damaged) =>
             \E at_ \in mended.anchored[from] : at_ <= found.start
=============================================================================
