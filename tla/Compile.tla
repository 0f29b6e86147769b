------------------------------ MODULE Compile ------------------------------
(***************************************************************************)
(* nfa::Builder, automata with epsilon transitions and how larger ones are *)
(* put together from smaller ones; regex::to_nfa, the automaton each node  *)
(* of a regular expression is lowered to, with the words the node stands   *)
(* for as the reference. States are numbers, the numbers from `next' on    *)
(* are free, and `accept' is a function whose domain is the accepting      *)
(* states. The range of the identifiers is left out, and with it the       *)
(* refusal to step past its end.                                           *)
(*                                                                         *)
(* And core::Builder: each registered pattern is lowered to an automaton   *)
(* of its own, determinized and minimized; their union is determinized     *)
(* again, to build the lexer's automaton or to diagnose the grammar. A cap *)
(* on the states that determinization discovers ends either call.          *)
(*                                                                         *)
(* Of a step of the subset construction's queue the symbols are taken      *)
(* together; the dense bit sets are sets.                                  *)
(***************************************************************************)
EXTENDS Dfa

CONSTANTS Epsilon,      \* the label that consumes nothing
          Terms,        \* regexes, and with each the regexes it is made of
          MaxWord       \* the longest word of the reference

LOCAL INSTANCE SequencesExt
LOCAL INSTANCE FiniteSetsExt

Labels == Symbols \cup {Epsilon}

EmptyNfa == [init |-> 0, next |-> 1, edges |-> {}, accept |-> << >>]

AddEpsilon(N, from, to) == [N EXCEPT !.edges = @ \cup (from \X {Epsilon} \X to)]

(* insert_or_assign: an accepting state of a regex has no token yet.       *)
AddAccept(N, states) ==
  [N EXCEPT !.accept = [ s \in states \cup DOMAIN N.accept |->
                           IF s \in states THEN NoToken ELSE N.accept[s] ]]

SetAcceptToken(N, token) == [N EXCEPT !.accept = [ s \in DOMAIN @ |-> token ]]

Offset(N, by) ==
  [ init   |-> N.init + by,
    next   |-> N.next + by,
    edges  |-> { <<e[1] + by, e[2], e[3] + by>> : e \in N.edges },
    accept |-> [ s \in { t + by : t \in DOMAIN N.accept } |-> N.accept[s - by] ] ]

PrependInitState(N) ==
  AddEpsilon([N EXCEPT !.init = N.next, !.next = N.next + 1], {N.next}, {N.init})

(* N, and from wherever it accepts, M.                                     *)
AppendNfa(N, M) ==
  LET second == Offset(M, N.next)
  IN [ AddEpsilon(N, DOMAIN N.accept, {second.init}) EXCEPT
         !.next = second.next,
         !.edges = @ \cup second.edges,
         !.accept = second.accept ]

(* All of them under one fresh initial state.                              *)
MergeAll(builders) ==
  LET splice(N, M) ==
        LET other == Offset(M, N.next)
        IN [ AddEpsilon(N, {N.init}, {other.init}) EXCEPT
               !.next = other.next,
               !.edges = @ \cup other.edges,
               !.accept = [ s \in DOMAIN N.accept \cup DOMAIN other.accept |->
                              IF s \in DOMAIN other.accept THEN other.accept[s]
                              ELSE N.accept[s] ] ]
  IN FoldLeft(splice, EmptyNfa, builders)

----------------------------------------------------------------------------
(* Regular expressions.                                                    *)
AnyOf(set) == [node |-> "any_of", set |-> set]
Text(text) == [node |-> "text", text |-> text]
Concat(regexes) == [node |-> "concat", regexes |-> regexes]
Choice(regexes) == [node |-> "choice", regexes |-> regexes]
Repeat(kind, regex) == [node |-> "repeat", kind |-> kind, regex |-> regex]

(* The kinds of repetition, with their counts.                             *)
Kleene == <<"kleene">>
Plus == <<"plus">>
Optional == <<"optional">>
Exact(count) == <<"exact", count>>
AtLeast(min) == <<"at_least", min>>
Between(min, max) == <<"range", min, max>>

----------------------------------------------------------------------------
OfAnyOf(set) ==
  AddAccept([EmptyNfa EXCEPT !.next = 2, !.edges = {0} \X set \X {1}], {1})

OfText(text) ==
  AddAccept([EmptyNfa EXCEPT !.next = Len(text) + 1,
                             !.edges = { <<i - 1, text[i], i>> : i \in DOMAIN text }],
            {Len(text)})

OfConcat(bodies) == FoldLeft(AppendNfa, Head(bodies), Tail(bodies))

(* A single alternative is no union: it gets no start state of its own.    *)
OfChoice(bodies) == IF Len(bodies) = 1 THEN Head(bodies) ELSE MergeAll(bodies)

LoopBack(N) == AddEpsilon(N, DOMAIN N.accept, {N.init})

EmptyMatch == AddAccept(EmptyNfa, {EmptyNfa.init})

AppendCopies(N, body, copies) ==
  FoldLeft(LAMBDA so_far, i : AppendNfa(so_far, body), N, [ i \in 1 .. copies |-> i ])

OfKleene(body) ==
  LET looped == LoopBack(PrependInitState(body)) IN AddAccept(looped, {looped.init})

OfPlus(body) == LoopBack(PrependInitState(body))

OfOptional(body) ==
  LET prepended == PrependInitState(body) IN AddAccept(prepended, {prepended.init})

(* The last of the required copies loops.                                  *)
OfAtLeast(body, min) ==
  IF min = 0 THEN OfKleene(body)
  ELSE AppendNfa(AppendCopies(EmptyMatch, body, min - 1), LoopBack(body))

(* The states that accept after min copies, or after more, stay accepting. *)
OfRange(body, min, max) ==
  LET further(copies) == AppendCopies(EmptyMatch, body, copies)
      pending == UNION { DOMAIN further(copies).accept : copies \in min .. max - 1 }
  IN AddAccept(further(max), pending)

OfRepeat(kind, body) ==
  CASE kind[1] = "kleene" -> OfKleene(body)
    [] kind[1] = "plus" -> OfPlus(body)
    [] kind[1] = "optional" -> OfOptional(body)
    [] kind[1] = "exact" -> AppendCopies(EmptyMatch, body, kind[2])
    [] kind[1] = "at_least" -> OfAtLeast(body, kind[2])
    [] kind[1] = "range" -> OfRange(body, kind[2], kind[3])

ToNfa ==
  LET lower[r \in Terms] ==
        LET bodies(regexes) == [ i \in DOMAIN regexes |-> lower[regexes[i]] ]
        IN CASE r.node = "any_of" -> OfAnyOf(r.set)
             [] r.node = "text" -> OfText(r.text)
             [] r.node = "concat" -> OfConcat(bodies(r.regexes))
             [] r.node = "choice" -> OfChoice(bodies(r.regexes))
             [] r.node = "repeat" -> OfRepeat(r.kind, lower[r.regex])
  IN [ r \in Terms |-> lower[r] ]

----------------------------------------------------------------------------
(* The words of each regex, none longer than MaxWord.                      *)
Language ==
  LET then(L, M) == { w \in { u \o v : u \in L, v \in M } : Len(w) <= MaxWord }
      times(L, n) == FoldLeft(LAMBDA P, i : then(P, L), {<< >>}, [ i \in 1 .. n |-> i ])
      between(L, min, max) == UNION { times(L, n) : n \in min .. max }
      repeated(L, kind) ==
        CASE kind[1] = "kleene" -> between(L, 0, MaxWord)
          [] kind[1] = "plus" -> between(L, 1, MaxWord + 1)
          [] kind[1] = "optional" -> between(L, 0, 1)
          [] kind[1] = "exact" -> times(L, kind[2])
          [] kind[1] = "at_least" -> between(L, kind[2], kind[2] + MaxWord)
          [] kind[1] = "range" -> between(L, kind[2], kind[3])
      words[r \in Terms] ==
        CASE r.node = "any_of" -> { <<a>> : a \in r.set }
          [] r.node = "text" -> {r.text}
          [] r.node = "concat" ->
               FoldLeft(LAMBDA L, x : then(L, words[x]), {<< >>}, r.regexes)
          [] r.node = "choice" -> UNION { words[x] : x \in ToSet(r.regexes) }
          [] r.node = "repeat" -> repeated(words[r.regex], r.kind)
  IN [ r \in Terms |-> words[r] ]

----------------------------------------------------------------------------
CONSTANTS Grammars,     \* the sequences of patterns that are registered
          Limits,       \* set_state_limit()
          Bytes,        \* the symbols, ascending
          Nothing       \* no result yet

VARIABLES
  patterns, limit,      \* core::Builder
  call,                 \* "build" or "diagnose"
  stage,                \* "lower", "walk", "merged", "done"
  lowered,              \* the patterns' determinized automata
  nfa,                  \* what is being determinized
  subsets,              \* the state sets discovered, in order
  rows,                 \* of those expanded, the transitions
  found,                \* of those expanded, the accepting tokens
  outcome, result       \* what the call returns or throws

builder == <<patterns, limit, call>>
walk == <<nfa, subsets, rows, found>>
vars == <<builder, stage, lowered, walk, outcome, result>>

Init ==
  /\ patterns \in Grammars
  /\ limit \in Limits
  /\ call \in {"build", "diagnose"}
  /\ stage = "lower"
  /\ lowered = << >>
  /\ nfa = EmptyNfa
  /\ subsets = << >>
  /\ rows = << >>
  /\ found = << >>
  /\ outcome = "none"
  /\ result = Nothing

----------------------------------------------------------------------------
(* The states that epsilon transitions lead to, the state itself included. *)
Closure(N, state) ==
  LET closed[n \in 0 .. N.next] ==
        IF n = 0 THEN {state}
        ELSE LET known == closed[n - 1]
             IN known \cup { e[3] : e \in { f \in N.edges : f[2] = Epsilon /\ f[1] \in known } }
  IN closed[N.next]

Targets(N, members, symbol) ==
  UNION { Closure(N, e[3]) : e \in { f \in N.edges : f[2] = symbol /\ f[1] \in members } }

(* Token::operator<: the priority decides, then the identifier.            *)
Precedes(t, u) ==
  IF t.priority # u.priority THEN t.priority < u.priority ELSE t.id < u.id

Winner(candidates) ==
  CHOOSE t \in candidates : \A u \in candidates \ {t} : Precedes(t, u)

StartWalk(N) ==
  /\ nfa' = N
  /\ subsets' = <<Closure(N, N.init)>>
  /\ rows' = << >>
  /\ found' = << >>

Walking == stage \in {"walk", "merged"} /\ Len(rows) < Len(subsets)

Walked == stage \in {"walk", "merged"} /\ Len(rows) = Len(subsets)

Expanding == subsets[Len(rows) + 1]

(* The sets known once the oldest unexpanded one is, numbered in order.    *)
Discovered ==
  LET meet(known, symbol) ==
        LET set == Targets(nfa, Expanding, symbol)
        IN IF set = {} \/ set \in ToSet(known) THEN known ELSE Append(known, set)
  IN FoldLeft(meet, subsets, Bytes)

(* The limit tested before the set is counted.                             *)
WithinLimitLate(count) == limit = 0 \/ count <= limit + 1

WithinLimit(count) == limit = 0 \/ count <= limit

Expand ==
  /\ Walking
  /\ WithinLimit(Len(Discovered))
  /\ subsets' = Discovered
  /\ rows' = Append(rows,
       [ symbol \in Symbols |->
           LET set == Targets(nfa, Expanding, symbol)
           IN IF set = {} THEN NoState
              ELSE (CHOOSE i \in DOMAIN Discovered : Discovered[i] = set) - 1 ])
  /\ found' = Append(found, { nfa.accept[s] : s \in Expanding \cap DOMAIN nfa.accept })
  /\ UNCHANGED <<builder, stage, lowered, nfa, outcome, result>>

ExceedLimit ==
  /\ Walking
  /\ ~ WithinLimit(Len(Discovered))
  /\ stage' = "done"
  /\ outcome' = "state_limit_error"
  /\ UNCHANGED <<builder, lowered, walk, result>>

Determinized ==
  [ count  |-> Len(rows),
    init   |-> 0,
    next   |-> [ s \in 0 .. Len(rows) - 1 |-> rows[s + 1] ],
    accept |-> [ s \in 0 .. Len(rows) - 1 |->
                   IF found[s + 1] = {} THEN NoToken ELSE Winner(found[s + 1]).id ] ]

----------------------------------------------------------------------------
(* Two accepting states alike, whatever they accept.                       *)
PartitionByAcceptance(D) ==
  { p \in States(D) \X States(D) : Accepting(D, p[1]) = Accepting(D, p[2]) }

(* Moore's refinement, by the pairs of states that share a group.          *)
PartitionByToken(D) ==
  { p \in States(D) \X States(D) : D.accept[p[1]] = D.accept[p[2]] }

Groups(D, alike) == { { t \in States(D) : <<s, t>> \in alike } : s \in States(D) }

(* The groups are split until a round leaves as many as it found.  Where   *)
(* one state has a transition and the other none, they part.               *)
Refine(D) ==
  LET same(alike, s, t) == s = t \/ <<s, t>> \in alike
      split(alike) ==
        { p \in alike : \A a \in Symbols : same(alike, D.next[p[1]][a], D.next[p[2]][a]) }
      round(at, i) ==
        IF at.stable THEN at
        ELSE LET refined == split(at.alike)
                 count == Cardinality(Groups(D, refined))
             IN [alike |-> refined, groups |-> count, stable |-> count = at.groups]
  IN FoldLeft(round, [alike |-> PartitionByToken(D), groups |-> 0, stable |-> FALSE],
              [ i \in 0 .. D.count |-> i ]).alike

(* Every group is one state, numbered here by its least member.            *)
Minimize(D) ==
  LET alike == Refine(D)
      least(s) == Min({ t \in States(D) : <<s, t>> \in alike })
      members == { least(s) : s \in States(D) }
      number(s) == Cardinality({ t \in members : t < least(s) })
      member(n) == CHOOSE t \in members : number(t) = n
      states == 0 .. Cardinality(members) - 1
  IN [ count  |-> Cardinality(members),
       init   |-> number(D.init),
       next   |-> [ n \in states |-> [ a \in Symbols |->
                      LET s == D.next[member(n)][a]
                      IN IF s = NoState THEN NoState ELSE number(s) ] ],
       accept |-> [ n \in states |-> D.accept[member(n)] ] ]

(* An automaton with epsilon transitions again, with the pattern's token.  *)
FromDfa(D, token) ==
  [ init   |-> D.init,
    next   |-> D.count,
    edges  |-> { e \in States(D) \X Symbols \X States(D) : D.next[e[1]][e[2]] = e[3] },
    accept |-> [ s \in { t \in States(D) : Accepting(D, t) } |-> token ] ]

----------------------------------------------------------------------------
(* add_token(): every accepting state carries the pattern's token.         *)
Registered(pattern) == SetAcceptToken(ToNfa[pattern.regex], pattern.token)

Lower ==
  /\ stage = "lower"
  /\ Len(lowered) < Len(patterns)
  /\ StartWalk(Registered(patterns[Len(lowered) + 1]))
  /\ stage' = "walk"
  /\ UNCHANGED <<builder, lowered, outcome, result>>

Lowered ==
  /\ stage = "walk"
  /\ Walked
  /\ lowered' = Append(lowered,
                       FromDfa(Minimize(Determinized), patterns[Len(lowered) + 1].token))
  /\ stage' = "lower"
  /\ UNCHANGED <<builder, walk, outcome, result>>

Merge ==
  /\ stage = "lower"
  /\ Len(lowered) = Len(patterns)
  /\ StartWalk(MergeAll(lowered))
  /\ stage' = "merged"
  /\ UNCHANGED <<builder, lowered, outcome, result>>

Build ==
  /\ stage = "merged" /\ call = "build"
  /\ Walked
  /\ outcome' = "lexer"
  /\ result' = Minimize(Determinized)
  /\ stage' = "done"
  /\ UNCHANGED <<builder, lowered, walk>>

(* Any two candidates, whatever their priority.                            *)
TiedWithLosers(candidates) == { t.id : t \in candidates }

(* The identifiers that share the winner's priority.                       *)
Tied(candidates) ==
  { t.id : t \in { u \in candidates : u.priority = Winner(candidates).priority } }

Diagnose ==
  /\ stage = "merged" /\ call = "diagnose"
  /\ Walked
  /\ outcome' = "diagnostics"
  /\ result' =
       LET accepting == ToSet(found) \ {{}}
           winners == { Winner(candidates).id : candidates \in accepting }
       IN [ dead_tokens |-> { p.token.id : p \in ToSet(patterns) } \ winners,
            equal_priority_ties |->
              UNION { { p \in Tied(candidates) \X Tied(candidates) : p[1] < p[2] } :
                        candidates \in accepting } ]
  /\ stage' = "done"
  /\ UNCHANGED <<builder, lowered, walk>>

Next ==
  \/ Lower \/ Lowered \/ Merge
  \/ Expand \/ ExceedLimit
  \/ Build \/ Diagnose

Spec == Init /\ [][Next]_vars

----------------------------------------------------------------------------
Words == UNION { [1 .. n -> Symbols] : n \in 0 .. MaxWord }

(* The tokens whose patterns match a word, and of them those no priority   *)
(* outranks.                                                               *)
Claims(word) == { p.token : p \in { q \in ToSet(patterns) : word \in Language[q.regex] } }

Foremost(claims) ==
  { t.id : t \in { u \in claims : \A v \in claims : u.priority <= v.priority } }

(* What an automaton says of a word read from one of its states.           *)
Verdict(D, state, word) ==
  LET s == StateAfter([D EXCEPT !.init = state], word, 0)[Len(word)]
  IN IF s = NoState THEN <<NoState>> ELSE <<D.accept[s]>>

(* The lexer's automaton awards every word to the pattern of the best      *)
(* priority that matches it, to the lowest identifier of equal ones, and   *)
(* to none that no pattern matches; and no two of its states could be one  *)
(* (builder.hpp 24-33, determinize.hpp 14-15, minimize.cpp 27-32).         *)
CompiledIsCanonical ==
  outcome = "lexer" =>
    /\ \A word \in Words :
         Verdict(result, result.init, word) \in
           IF Claims(word) = {} THEN {<<NoState>>, <<NoToken>>}
           ELSE {<<Min(Foremost(Claims(word)))>>}
    /\ \A s, t \in States(result) :
         s # t => \E word \in Words : Verdict(result, s, word) # Verdict(result, t, word)

(* A token is reported dead just when no word is awarded to it, and two    *)
(* are reported tied just when both match a word at the best priority that *)
(* matches it (builder.hpp 37-57, builder.cpp 98-116).                     *)
DiagnosisIsExact ==
  outcome = "diagnostics" =>
    LET contested == { Foremost(Claims(word)) : word \in Words } \ {{}}
    IN /\ result.dead_tokens = { p.token.id : p \in ToSet(patterns) }
                                 \ { Min(ids) : ids \in contested }
       /\ result.equal_priority_ties =
            UNION { { p \in ids \X ids : p[1] < p[2] } : ids \in contested }

(* The states of N that some path spelling the word leads to.              *)
Reached(N, word) ==
  LET by(label, from) == { e[3] : e \in { f \in N.edges : f[2] = label /\ f[1] \in from } }
      silent(from) == FoldLeft(LAMBDA S, i : S \cup by(Epsilon, S), from,
                               [ i \in 1 .. N.next |-> i ])
  IN FoldLeft(LAMBDA S, a : silent(by(a, S)), silent({N.init}), word)

WithinCap(count) == limit # 0 => count <= limit

(* Determinization discovers the state sets that words lead to, each once; *)
(* it fails just when they are more than the limit, and never counts more; *)
(* the lexer's table has at most one state more, where the grammar matches *)
(* the empty string (builder.hpp 119-131).                                 *)
LimitIsExact ==
  LET sets == { Reached(nfa, word) : word \in Words } \ {{}}
  IN /\ Walked => /\ ToSet(subsets) = sets
                  /\ Len(subsets) = Cardinality(sets)
     /\ outcome = "state_limit_error" => limit # 0 /\ Cardinality(sets) > limit
     /\ WithinCap(Len(subsets))
     /\ outcome = "lexer" =>
          WithinCap(UnrollStart(result).count - IF Accepting(result, result.init) THEN 1 ELSE 0)
=============================================================================
