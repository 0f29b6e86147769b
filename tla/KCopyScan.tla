------------------------------ MODULE KCopyScan ------------------------------
(***************************************************************************)
(* The k-copy scan (k_copy_scan.hpp): an input is cut at the anchors of    *)
(* windows that need not be certified.  A worker runs one copy of the scan *)
(* for each configuration its first cut can carry, on a thread of its own  *)
(* but for the last chunk's, and the copies are stitched when all have     *)
(* been joined.                                                            *)
(*                                                                         *)
(* A request is [input, chunks, inventory, lookahead]; the calls that      *)
(* throw std::invalid_argument are not among the requests.                 *)
(***************************************************************************)
EXTENDS VerifierDecisions

----------------------------------------------------------------------------
(* The state sets that the nonempty byte strings give, each with the first *)
(* string found for it, level by level.                                    *)
Grow(members, level) ==
  FoldLeft(LAMBDA acc, m : IF m.states = {} \/ \E i \in DOMAIN acc : acc[i].states = m.states
                           THEN acc ELSE Append(acc, m),
           members, level)

Closure(Longer(_), all) ==
  LET RECURSIVE grown(_, _)
      grown(members, level) ==
        LET more == Grow(members, Longer(level))
        IN IF more = members THEN members
           ELSE grown(more, SubSeq(more, Len(members) + 1, Len(more)))
  IN grown(<< >>, <<[states |-> all, word |-> << >>]>>)

ForwardFamily(P) ==
  LET onward(level) ==
        FlattenSeq([ i \in DOMAIN level |->
          [ j \in DOMAIN Bytes |->
              [ states |-> ImageBy(P, level[i].states, Bytes[j]),
                word   |-> Append(level[i].word, Bytes[j]) ] ] ])
  IN Closure(onward, P.classes)

BackwardFamily(P) ==
  LET onward(level) ==
        FlattenSeq([ j \in DOMAIN Bytes |->
          [ i \in DOMAIN level |->
              [ states |-> PreimageBy(P, level[i].states, Bytes[j]),
                word   |-> <<Bytes[j]>> \o level[i].word ] ] ])
  IN Closure(onward, P.classes)

(* Windows in order: by length, by bytes, then by origin.                  *)
WordPrecedes(v, w) ==
  \/ Len(v) < Len(w)
  \/ /\ Len(v) = Len(w)
     /\ \E i \in DOMAIN v : /\ Index(v[i]) < Index(w[i])
                            /\ \A j \in 1 .. i - 1 : v[j] = w[j]

Precedes(one, two) ==
  \/ WordPrecedes(one.window, two.window)
  \/ one.window = two.window /\ one.origin < two.origin

(* Per rank bound from the least to the largest the least window whose     *)
(* rank is within it.                                                      *)
FanoutWindowsOver(lefts, rights) ==
  LET pairs == { [ rank |-> Cardinality(p[1].states \cap p[2].states),
                   window |-> p[1].word \o p[2].word, origin |-> Len(p[1].word) ] :
                   p \in lefts \X rights }
      occurring == { p \in pairs : p.rank > 0 }
      ranks == { p.rank : p \in occurring }
      least(bound) ==
        CHOOSE p \in occurring :
          /\ p.rank <= bound
          /\ \A other_ \in occurring : other_.rank <= bound => ~ Precedes(other_, p)
  IN IF occurring = {} THEN << >>
     ELSE [ i \in 1 .. Max(ranks) - Min(ranks) + 1 |->
              [bound |-> Min(ranks) + i - 1, least |-> least(Min(ranks) + i - 1)] ]

ShortestFanoutWindows(V) ==
  LET P == Projection(V)
  IN FanoutWindowsOver(
       Range(ForwardFamily(P)) \cup {[states |-> EnteredClasses(P), word |-> << >>]},
       Range(BackwardFamily(P)))

(* Whether some marking of a text tells two configurations apart; a        *)
(* refusal counts as a configuration.                                      *)
StepOf(P, c, b, m) ==
  IF \E e \in P.steps : e[1] = c /\ e[2] = b /\ e[3] = m
  THEN (CHOOSE e \in P.steps : e[1] = c /\ e[2] = b /\ e[3] = m)[4]
  ELSE NoStep

ToldApart(P, c, d, text) ==
  LET after(pairs, b) ==
        { <<StepOf(P, p[1], b, m), StepOf(P, p[2], b, m)>> : <<p, m>> \in pairs \X BOOLEAN }
          \ {<<NoStep, NoStep>>}
  IN \E p \in FoldLeft(after, {<<c, d>>}, text) : p[1] # p[2]

(* Each configuration joins the first class whose least one it agrees      *)
(* with.                                                                   *)
RelativeFanoutIn(P, w, origin) ==
  LET rest == SubSeq(w, origin + 1, Len(w))
      agrees(class, c) == ~ ToldApart(P, class[1], c, rest)
      joined(classes, c) ==
        IF \E i \in DOMAIN classes : agrees(classes[i], c)
        THEN LET first == Min({ i \in DOMAIN classes : agrees(classes[i], c) })
             IN [classes EXCEPT ![first] = Append(@, c)]
        ELSE Append(classes, <<c>>)
  IN FoldLeft(joined, << >>, SetToSortSeq(FanoutIn(P, w, origin), <))

RelativeFanout(V, w, origin) == RelativeFanoutIn(Projection(V), w, origin)

----------------------------------------------------------------------------
(* The anchors of an input after position zero, each with the              *)
(* configurations that every pair which anchors it has.                    *)
AnchorsOf(P, request) ==
  LET ofPair == [ p \in request.inventory |-> FanoutIn(P, p.window, p.origin) ]
      anchoring(n) == { p \in request.inventory : IsAnchor({p}, request.input, n) }
  IN [ n \in { m \in 1 .. Len(request.input) : anchoring(m) # {} } |->
         { c \in P.classes : \A p \in anchoring(n) : c \in ofPair[p] } ]

(* Each cut is the first anchor at or after its target and past the cut    *)
(* before; the first that is not found ends the search.                    *)
CutsOf(anchors, size, chunks) ==
  LET usable == Min({chunks, size})
      target(i) == i * (size \div usable) + (i * (size % usable)) \div usable
      RECURSIVE cuts(_, _)
      cuts(found, i) ==
        LET later == { n \in anchors : n >= target(i) /\ n > Last(found) }
        IN IF i >= usable \/ later = {} THEN Append(found, size)
           ELSE cuts(Append(found, Min(later)), i + 1)
  IN cuts(<<0>>, 1)

(* The exits from which the bytes past the chunk can be read, to an        *)
(* accepting state where they run to the end of the input.                 *)
ReadableExits(P, exits, read, toEnd) ==
  exits \cap FoldLeft(LAMBDA C, b : PreimageBy(P, C, b),
                      IF toEnd THEN P.accepting ELSE P.classes, Reverse(read))

(* What one copy offers: the exits it reaches from an entry, each with the *)
(* marking of the chunk that reaches it.                                   *)
CopyExits(P, bytes, exits, entry) ==
  LET reached[n \in 0 .. Len(bytes)] ==
        IF n = 0 THEN {[state |-> entry, boundaries |-> << >>]}
        ELSE LET before == reached[n - 1]
             IN { [state |-> x[2][4], boundaries |-> Append(x[1].boundaries, x[2][3])] :
                    x \in { y \in before \X P.steps :
                              y[2][1] = y[1].state /\ y[2][2] = bytes[n] } }
  IN { x \in reached[Len(bytes)] : x.state \in exits }

(* A chunk as its worker reads it, the c-th from one.                      *)
WorkerTable(P, start, request, anchors, cuts, c) ==
  LET size == Len(request.input)
      end == cuts[c + 1]
      past == Min({end + request.lookahead, size})
      last == end = size
      entries == IF c = 1 THEN {start} ELSE anchors[cuts[c]]
      exits == ReadableExits(P, IF last THEN P.accepting ELSE anchors[end],
                             SubSeq(request.input, end + 1, past),
                             ~ last /\ end + request.lookahead >= size)
  IN [ entry \in entries |->
         CopyExits(P, SubSeq(request.input, cuts[c] + 1, end), exits, entry) ]

(* The chains of exits through the first n chunks, each exit's state the   *)
(* entry of the next one's copy.                                           *)
Chains(start, tables) ==
  LET state(chain) == IF chain = << >> THEN start ELSE Last(chain).state
      chains[n \in 0 .. Len(tables)] ==
        IF n = 0 THEN {<< >>}
        ELSE LET before == chains[n - 1]
             IN UNION { { Append(chain, exit) :
                            exit \in IF state(chain) \in DOMAIN tables[n]
                                     THEN tables[n][state(chain)] ELSE {} } : chain \in before }
  IN chains

(* How many chunks all the chains that reach a cut have in common.         *)
CommonLevel(chains, n) ==
  Max({ k \in 0 .. n : \A p, q \in chains : SubSeq(p, 1, k) = SubSeq(q, 1, k) })

(* What the stitching finds, or nothing when no chain is left.             *)
Stitched(start, request, cuts, tables) ==
  LET chains == Chains(start, tables)
      chunks == Len(tables)
      chain == Witness(chains[chunks])
      boundaries == FlattenSeq([ c \in 1 .. chunks |-> chain[c].boundaries ])
      resolved(c) == cuts[Min({ n \in c .. chunks : CommonLevel(chains[n], n) >= c }) + 1]
  IN IF \E n \in 1 .. chunks : chains[n] = {} THEN {}
     ELSE {[ segmentation |-> [ i \in DOMAIN request.input |-> <<request.input[i], boundaries[i]>> ],
             chunks |-> [ c \in 1 .. chunks |->
                            [ begin |-> cuts[c], end |-> cuts[c + 1],
                              copies |-> Cardinality(DOMAIN tables[c]),
                              resolved |-> resolved(c) ] ] ]}

----------------------------------------------------------------------------
VARIABLES
  verifier,     \* the verifier asked about
  job,          \* what is to be scanned
  projection,   \* the minimal automaton of the verifier
  anchored,     \* the anchors with their configurations
  division,     \* the cuts
  spawned,      \* how many threads have started, for the chunks from the first
  done,         \* the chunks that have been scanned
  offered,      \* what their workers have found
  scanning,     \* "spawning", "joining", "unwinding", then "returned" or "threw"
  scanned       \* what the call returned, if anything

given == <<verifier, job, projection, anchored, division>>
scanVars == <<given, spawned, done, offered, scanning, scanned>>

Chunks == Len(division) - 1

Start == ClassOf(projection, verifier.start)

NoScan ==
  /\ job = [input |-> << >>, chunks |-> 0, inventory |-> {}, lookahead |-> 0]
  /\ projection = << >>
  /\ anchored = << >>
  /\ division = <<0, 0>>
  /\ spawned = 0
  /\ done = {}
  /\ offered = << >>
  /\ scanning = "not asked"
  /\ scanned = {}

ScanStarts(request) ==
  /\ job' = request
  /\ projection' = Projection(verifier)
  /\ anchored' = AnchorsOf(projection', request)
  /\ division' = CutsOf(DOMAIN anchored', Len(request.input), request.chunks)
  /\ offered' = [ c \in 1 .. Len(division') - 1 |-> << >> ]
  /\ scanning' = "spawning"
  /\ UNCHANGED <<verifier, spawned, done, scanned>>

(* A thread starts for each chunk but the last, in their order.            *)
Spawn ==
  /\ scanning = "spawning"
  /\ spawned < Chunks - 1
  /\ spawned' = spawned + 1
  /\ UNCHANGED <<given, done, offered, scanning, scanned>>

(* A thread that cannot start throws out of the loop.                      *)
SpawnFails ==
  /\ scanning = "spawning"
  /\ spawned < Chunks - 1
  /\ scanning' = "unwinding"
  /\ UNCHANGED <<given, spawned, done, offered, scanned>>

Scan(c) ==
  /\ offered' = [offered EXCEPT ![c] = WorkerTable(projection, Start, job, anchored, division, c)]
  /\ done' = done \cup {c}

WorkerScans ==
  /\ scanning \in {"spawning", "joining", "unwinding"}
  /\ \E c \in 1 .. spawned : c \notin done /\ Scan(c)
  /\ UNCHANGED <<given, spawned, scanning, scanned>>

CallerScans ==
  /\ scanning = "spawning"
  /\ spawned = Chunks - 1
  /\ Scan(Chunks)
  /\ scanning' = "joining"
  /\ UNCHANGED <<given, spawned, scanned>>

Returned ==
  /\ scanned' = Stitched(Start, job, division, offered)
  /\ scanning' = "returned"
  /\ UNCHANGED <<given, spawned, done, offered>>

(* The threads not joined before the copies are stitched.                  *)
JoinedEarly == scanning = "joining" /\ Returned

(* The scope of the threads ends: the copies are stitched once all are     *)
(* joined.                                                                 *)
Joined ==
  /\ scanning = "joining"
  /\ 1 .. spawned \subseteq done
  /\ Returned

Rethrown ==
  /\ scanning = "unwinding"
  /\ 1 .. spawned \subseteq done
  /\ scanning' = "threw"
  /\ UNCHANGED <<given, spawned, done, offered, scanned>>

ScanNext == Spawn \/ SpawnFails \/ WorkerScans \/ CallerScans \/ Joined \/ Rethrown
=============================================================================
