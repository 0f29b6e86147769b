# munch: the verification project

munch is a C++ lexer generator. A `core::Builder` compiles a prioritised set of
regular expressions to one deterministic automaton; `dfa::Simulator` turns that
automaton into tables, scans inputs with them by longest match, and decides
*certificates* about the token set: which bytes can only begin a token, and
which short strings (windows) fix where the token around them began. On the
certificates rest the parallel scan, the recovery after a lexical error and the
incremental tools. `Mode_builder` and `Mode_lexer` put a stack of modes on top.

The verifier library decides the same kind of question for any segmentation
policy given as an automaton over marked bytes, and scans inputs in chunks with
copies where no cut is certified.

This directory holds TLA+ models of that core, the TLC configurations that
check them on small instances, and theorems about them that TLAPS checks for
every value of the constants. Paths below are relative to the repository;
`simulator.hpp`, `split_window.cpp` and so on are under `libs/dfa`, `lexer.hpp`
and `mode*.hpp` under `libs/core`, `verifier*.cpp` and `k_copy_scan.cpp` under
`libs/verifier`, `tokenizer.cpp` under `tools/tokenizer`, `report.cpp` under
`tools/audit`.

    tlc -workers 2 -config MCScanner.cfg MCScanner     (likewise the other MC modules)
    tlapm ScannerProofs.tla     (likewise DfaTheorems, ChunkPlanProofs, ParallelScanProofs,
                                 FoundWindowProofs, WindowPlanProofs, ModeLexerProofs and
                                 RecoveryProofs)

## 1. The system

### Components, their state and their operations

| component | state | operations | modelled in |
|---|---|---|---|
| compiled automaton (`Simulator`'s constructor, `unroll_start`) | transition table, accept table, liveness flags, two split-point maps, mandatory core | built once, read-only afterwards | `Dfa` |
| scan loop (`Simulator::run_all`, `Lexer::tokenize_all`) | offset, state, bytes consumed, last accepting state | restart at a token, read a byte, emit, stop | `TokenStream`, `Scanner` |
| chunk planner (`Lexer::chunk_boundaries`, `Division_targets`) | target and carry, loop offset, boundaries | divide, walk, cut, close | `ChunkPlan` |
| parallel scan (`Lexer::tokenize_all_parallel`) | workers, the consumed vector, the kept exception and its mutex | plan, start threads, scan, catch, join, rethrow | `ParallelScan` |
| discarding callers (`is_split_point_ignoring`) | chunk end, offset, kept tokens | cut anywhere certified, scan, drop | `KeptChunks` |
| split windows (`is_split_window`) | the cloud of hypotheses | read a byte, decide | `WindowCloud`, `FoundWindow` |
| shortest window search (`shortest_split_window`) | the nodes, which are also the queue | expand, reach, give up | `ShortestWindow`, `FoundWindow` |
| mandatory core (`derive_mandatory_core`) | the stamped buffer, the search's stack | propose, pop, step, refute, prove | `DeathWords`, `CoreSearch`, `WindowPlan` |
| window planner (`chunk_boundaries_with_windows`, `Window_planner`) | boundaries, heap of windows, barren offset | next floor, walk, ingest an occurrence, try a window, cut | `WindowPlan`, `CertificateWalk` |
| tokenizer (`tools::tokenizer::Tokenizer`) | input, offset | next, load, reset, seek, recover | `Tokenizer`, `CertificateWalk` |
| mode actions (`mode.hpp`, `mode.cpp`) | current mode and saved frames; packed actions | stay, go_to, push, pop; pack, unpack | `ModeGrammar` |
| mode builder (`mode_builder.cpp`) | per mode a `Builder` and the registered actions | `add_token`, `build`, `diagnose` | `ModeBuilder`, `ModeGrammar` |
| mode lexer (`mode_lexer.hpp`) | the caller's stack | `tokenize`, `tokenize_all` | `ModeStream`, `ModeScan` |
| mode tokenizer (`Mode_tokenizer`) | input, offset, stack | next, load, reset, seek, set_mode, recover | `ModeTokenizer` |
| regexes and their automata (`libs/regex`, `nfa::Builder`) | immutable trees, automata with epsilon | `to_nfa` of each node | `Compile` |
| determinization, minimization, `core::Builder` | patterns, limit; subsets discovered, groups | lower, merge, expand a set, refine, build, diagnose | `Compile` |
| offline recovery (`recovery.cpp`) | none between calls | next_anchored_start, minimal_repair, lag | `BoundarySearch`, `OfflineDecisions` |
| boundary search (`boundary_search.cpp`) | the frontier of one search | rescue, difference, occurrence, counterexamples, profile | `BoundarySearch`, `OfflineDecisions` |
| anchor-free span (`anchor_free_span.cpp`) | the product graph | decide at once, explore, longest stretch | `OfflineDecisions` |
| audit report (`report.cpp`) | the report | `audit` of a compiled set (partly) | `OfflineDecisions` |
| verifiers (`verifier.cpp`) | a trimmed table over marked bytes | `armed_run`, trim, step, accepts, kinds | `VerifierDecisions` |
| verifier decisions (`verifier_decisions.cpp`) | one search or graph per call | fourteen decisions with witnesses | `VerifierDecisions`, `VerifierAnswers` |
| k-copy scan (`k_copy_scan.cpp`) | tables of the workers, the threads | plan, spawn, scan, join, stitch | `KCopyScan`, `VerifierAnswers` |
| character classes, UTF-8, pattern, the rest of the verifier library and of the audit, probes, benchmark, fuzz | | pure constructions, parsers and command-line tools | not modelled |

### How they interact

A `Lexer` owns one immutable `Simulator`; everything else reads it. `run_all`
calls the caller's sink once per token and stops when a sink that returns a
bool says so: the mode lexer's batch driver is built on that, one pass of
`run_all` per mode. `tokenize_all_parallel` plans with `chunk_boundaries`, which
asks `is_split_point` byte by byte, then runs `tokenize_all` on each chunk, all
but the last on threads of their own. The threads share the sink, one slot each
of the consumed vector, and one exception pointer under a mutex.
`chunk_boundaries_with_windows` falls back on `is_split_window` where no byte is
certified, and looks only around the occurrences of the mandatory core when the
constructor proved one. The tokenizer's recovery asks `next_certified_evidence`
for the first byte or window certificate past the failure; the mode tokenizer
asks the same of the lexer of the mode the error was met in. `audit()` asks the
offline decisions one after the other and blames the bytes that are not
certified. `armed_run()` turns an automaton into a verifier; every decision over
verifiers, and `k_copy_scan()`, reads that table only.

### What is hard, and what makes each component correct

- **Certificates** are claims about every input, decided once from the tables.
  A byte is certified when no reachable state can read it and still come to an
  accept, except the initial state, and that one only if no scan comes back to
  it. Correct means: no token of any scan holds the byte but in front.
- **Longest match** reads past the token it will emit. The bytes read ahead must
  be read again, and what the automaton of a nullable token set accepts must not
  change when its start is unrolled.
- **The parallel scan** runs on threads, with sinks that throw and threads that
  cannot start. Its promise also covers malformed input: the serial stream is a
  prefix of the concatenated one.
- **Windows** over-approximate histories. The cloud may hold too many hypotheses
  but must never lose the true one; the shortest-window search then compresses
  clouds, which must change no verdict.
- **The core and the planner** are optimizations: searches that share a buffer,
  a heap, an offset carried from round to round. Correct means that the plan is
  that of the plain walk.
- **Recovery** starts again in the middle of damaged input. Correct means that
  a token begins there in every repair of what precedes the evidence, and that
  it makes progress.
- **Modes**: two drivers get the same action by two routes (payload in the
  accept table, search in a list), and a diagnosis predicts which modes and
  frames can occur.

- **Offline decisions** come with a witness or with a proof. Correct means that the
  witness is an input that shows it, that a proof holds of inputs of every length,
  that a search stopped by its cap claims neither, and that no decision denies what
  another claims.
- **Verifiers** accept an input with its boundaries marked. Correct means exactly the
  segmentations of the policy, and, for each decision, the shortest refutation there
  is. The scan by copies must give the one segmentation in any schedule of its threads.

`PROJECT.json` lists these hazards at their lines, with the properties that
cover them.

## 2. Abstractions shared by the modules

A symbol stands for a byte (or for bytes whose rows are equal), a token is its
ID, a lexeme is where it begins and how long it is. `Dfa` states the constructor's
worklists as least closed sets (`Reachable`, `ClosedBackward`): the set of all
states that every closed set containing the seeds contains. That is what the
worklists compute, and it is the form proofs can use. Two helpers are references,
not code: `MatchLengths`/`LongestMatch` (the longest match by definition) and
`Serial` (the whole serial scan; `SerialFrom` is the scan from any offset), with which
other modules compare themselves.
`std::size_t` has a width where sums may pass it: `SizeMax` is its largest value
and `Plus` wraps.

What the code iterates is either actions over variables or a recursive function.
Only `VerifierDecisions` and `KCopyScan` declare `RECURSIVE` operators,
for searches over queues; no module with a theorem reaches them.

Small parts of the code share a file with what uses them: `Division_targets` is in
`ChunkPlan`, `Mode_builder::diagnose` in `ModeGrammar`, `nfa::Builder` and `to_nfa` in
`Compile`, the decisions of `recovery.hpp` and the anchor-free span in
`OfflineDecisions`, the verifiers themselves in `VerifierDecisions`, the walk of `is_split_window` in `FoundWindow`.

## 3. The modules

### Scan: `Dfa`, `TokenStream`, `Scanner`

`Scanner` is `run_all` with one action per decision of its two loops: `BeginToken`
(outer loop head), `ReadByte` (inner loop, with the accept kept), `Unmatched`,
`Emit` (the sink may stop the scan) and `Exhausted`. The tables it reads are
`Simulator(dfa, {})`, those of the unrolled automaton. `TokenStream` is the
promise: from the front, one longest match of positive width after the other *of
the automaton as given*. `ImplementsTokenStream` is the refinement, the two inner
pcs mapped to "running". `SplitPointsBeginTokens` is the soundness of
`derive_split_points`, with the clause that makes it inductive: a scan that read
past a certified byte is in no live state and saw its last accept before it.

### Plan and parallel scan: `ChunkPlan`, `ParallelScan`

`ChunkPlan` is `chunk_boundaries` round by round: the next target, the walk to the
first certified byte, the cut or none, the close. `ParallelScan` instantiates it
for the planning phase (`PlanStep`) and adds the calling thread (`Spawn`,
`SpawnFails`, `ScanLast`, `LastScanned`, `Return`, `Unwound`) and a worker per
chunk (`Emit`, `SinkThrows`, `Finish`, and the catch block in the steps another
thread can observe: `Lock`, `Test`/`Drop`, `Keep`). A worker's step is one round
of `run_all` up to the sink it calls; between two sink calls it touches nothing
shared. That one round is the longest match is what `Scanner` shows. If a jthread's
constructor throws (`lexer.hpp:636`) the vector's destructor joins the threads
already started and the error propagates; the last chunk is never scanned, and an
exception a sink threw meanwhile is lost with it: `ExceptionNeverLost` speaks only
of calls that return or rethrow.

### Discarding callers: `KeptChunks`

`is_split_point_ignoring` has no caller in the libraries; its documentation
(`simulator.hpp:157-172`) says what one may do with it. `KeptChunks` is that
caller, free to cut at any certified byte, not only at those a planner would
choose. The promise is for completely tokenizable input.

### Windows: `WindowCloud`, `ShortestWindow`, `FoundWindow`

`WindowCloud` has the two operators of `is_split_window`, `Stepped` and `Fresh`,
on hypotheses *(state, origin)*. `FoundWindow` runs the walk (`RefuseEmpty`, `ReadByte`,
`Decide`) for a caller that has found the window at an offset of a real input, so that `CloudCoversScan` can
compare each cloud with the serial scan's own history and `OriginBeginsToken` the
verdict with where the token began. `ShortestWindow` is the breadth-first search:
its nodes forget all origins but the chosen one (`NodesAfter`, from `advance`),
and its answers are compared with `SplitOrigin`, the cloud with every origin.
`UseSpec` composes the two as a caller does: the window searched for, or one of the
caller's, is then met in an input. It runs the actions of both over one compiled
automaton, so that what the search answers is what the scan is held to.

### The core: `DeathWords`, `CoreSearch`

`DeathWords` defines the core as a mathematical object: the shortest word that
kills a live state (`Depth`, `Core`), what it takes to prove that every killing
word contains it (`ProvesCore`), and the longest proven proposal. `CoreSearch`
is what `derive_mandatory_core` does: candidates longest first (the sorted vector is the
set of those left and the order `Before`), one depth-first
search each over *(state, bytes of the core matched)*, the matcher built from
borders, the seen buffer shared under stamps. It is run by `WindowPlan`, whose
simulator is constructed before it is asked for a plan.

### The window planner: `WindowPlan`, `CertificateWalk`

The module extends `CoreSearch`: first the constructor derives the core (`Derive`, its
next-state relation), then one call plans with it: `PlanStarts` and the rounds of
`chunk_boundaries_with_windows`, with the planner in its two modes. The core the
planner trusts is the one the derivation produced, never one assumed right.
`Ingest` reads the next occurrence of the core into the heap (a bag: two
occurrences propose the same window), `Skip` drops a duplicate or a refused
window, `CutAtCore` ends the round. `EndRound` resets what is local to a call of
`cut()`; the barren offset stays. `PlanIsExhaustive` says that the plan is the
plain walk's whichever mode ran, `SearchesAnswer` that the derivation and the plan
come to their end. While modelling it turned out that the order in which
occurrences are ingested (the horizon in `window_planner.hpp:279-283`) is not what makes the answer right: a window of a later occurrence that starts
before one of an earlier occurrence holds the earlier one as well, and was
proposed with it. The horizon only keeps the heap small and duplicates adjacent.

### The tokenizers: `Tokenizer`, `ModeTokenizer`

`Tokenizer` is the tokenizer under a driver: it reads; on an error it gives up or recovers, with
any clean bound. `recover()` and `recover_from_failure()` are the case of bound 0.
`load`, `reset` and `seek` may come in between, at most `MaxMoves` times.
`RecoveryIsRepairInvariant` quantifies over replacements of everything before the
evidence, the contract of `lexer.hpp:679-682`.

`ModeTokenizer` has the same operations and `set_mode`, with the stack as part of the
state: a grammar's actions move it as tokens are read, a caller's `set_mode` replaces
it. Recovery asks the lexer of the current mode and leaves the stack alone. While
the mode stands it is a `Tokenizer` of that mode's token set: `StepsAsTokenizer` is
that refinement, step by step, for every step that leaves the stack alone but a
refused pop. `StackIsNesting` says that, read straight on, the stack
of a grammar is what the actions of the tokens so far make of a fresh one, whatever
happened before the input was begun.

### Offline decisions: `BoundarySearch`, `OfflineDecisions`

`BoundarySearch` declares the compiled token set the decisions share and is the one
breadth-first search of `boundary_search.cpp`, byte by byte with its cap, under the
conditions of all eight decisions. `OfflineDecisions` explores the product graph of
`anchor_free_span.cpp`, scan and windows, node by node. It has the tail tables of
`recovery.cpp` as operators, since the queries keep nothing, and the callers: one
decision of one set or two, `audit()` in its order, or a damaged tail to be resumed.
`AnswerIsExact` compares every witness and every proof with the serial scans of all
short inputs; a search stopped by its cap may claim neither. `DecisionsAgree` relates
the answers of different decisions: the profile with the certificates, the lag with
the rescue, the anchored start with the certificates in the tail.

### Verifiers: `VerifierDecisions`, `KCopyScan`, `VerifierAnswers`

A verifier reads bytes with a mark where a boundary follows. `VerifierDecisions` has the
armed-run construction, configuration by configuration, and the constructor's trim,
which gives the start a copy when steps come back to it. It also has the
decisions as operators, each over the search or graph the code builds:
`ShortestPath` is the search they share and keeps its order, so that witnesses are
the first shortest ones. `KCopyScan` is the call: the plan of cuts at anchors, a thread
per chunk but the last, the calling thread's own scan, the end of the threads' scope
(`Joined`, or `Rethrown` when one could not start) and the stitching.
`VerifierAnswers` is a caller that asks one question or scans one input. Its
reference is the policy itself: the serial scan of an armed token set, or the runs of
the untrimmed table, listed for all short inputs. An answer is the empty set where
the call throws `std::invalid_argument`.

### Compilation: `Compile`

`ToNfa` lowers each node with the operations of `nfa::Builder`.
The state machine is one call of `build()` or `diagnose()`: `Lower` starts the subset
construction of the next pattern, `Expand` takes the oldest set off the queue,
`Lowered` minimizes and turns the result into an automaton with epsilon again,
`Merge` puts all patterns under one start, and `Build` or `Diagnose` ends the second
construction. `ExceedLimit` is `State_limit_error`, from any of the constructions.
The reference is `Language`, the words a regex stands for by the definition of
regular expressions, which knows nothing of automata; `CompiledIsCanonical` and
`DiagnosisIsExact` compare with it. `Reached` in `LimitIsExact` follows paths of the
automaton, not sets of closures. The states of a minimized automaton are numbered by
the hash maps' order in the code and by least members here. A nullable grammar's
fresh start is `UnrollStart` in `Dfa`. The dead tokens, a list in the code, are a set.

### Modes: `ModeGrammar`, `ModeBuilder`, `ModeStream`, `ModeScan`

`ModeGrammar` has the actions, the packed word (`Pack`, `Unpack`) and the stack,
and the two routes to a token's action. `ModeBuilder` is every sequence of
registrations, conflicting and throwing ones included, and `build`. `ModeStream` is
the per-token driver: a specification of its own, and the abstraction `ModeScan`,
the batch driver, is shown to implement (`ImplementsPerToken`). `DiagnosisHolds`
and `InescapableHolds` compare `Diagnose` with every scan from the default stack.
`FrameClosure` sweeps all modes at once where the code updates in place; both
reach the one least fixpoint. `ModeStream` is a caller of `Mode_lexer::tokenize` that goes on until nothing is
matched. The code checks the current mode in every call; the model does so in the
first (`Enter`), since afterwards the mode can change only to a target the builder
admitted or to a frame that the pop has checked (`Throw`). `Mode_tokenizer::next`
is such a caller, of a stack that never holds a foreign mode, and tests for the end
of the input before it asks.

## 4. The runs

The longest runs (`found_window`, `tokenizer`, `verifier`, `window_plan`) take about two
minutes on two workers, the others less than one and a half.

| run | instance | shows |
|---|---|---|
| `scanner` | all automata of at most 3 states over 2 bytes and 2 tokens that certify a byte, all inputs up to 4 | type, certificate, tiling, refinement of `TokenStream` |
| `chunk_plan` | all inputs up to 7 bytes over 2 symbols, all certificates, 0 to 7 chunks, `SizeMax` 7 | exact targets, partition, greedy cuts |
| `parallel_scan` | 6 token sets, all inputs up to 4 bytes, up to 3 chunks | stream equality, exceptions, termination |
| `kept_chunks` | all automata of at most 3 states that certify a byte more for a discarding caller | kept stream is serial |
| `found_window` | the search on all automata of 3 states without useless ones that certify no byte, and all smaller automata, with budgets 0, 4 and 1000, its window met in texts up to 5; windows brought for those that certify some, in inputs up to 4 | cloud soundness, origins, shortest and none |
| `window_plan` | the core of all such automata and of comments with terminators up to 4 bytes; plans of comments with terminators of 1 to 3 bytes, two coreless token sets, one with a byte; inputs up to 7, 4 chunks | mandatory core, plan equals the exhaustive one, planning ends |
| `offline` | all token sets of 1 or 2 states and up to 2 kinds of token, five larger ones, those of 3 that certify windows; words up to 5, reports up to 6, caps 0, 3 and 1000, windows up to 3, tails up to 2 | witnesses and proofs, spans, report, resumption, agreement |
| `tokenizer` | comments, a two-byte token, small nullable sets, pairs of modes under every assignment of actions or the caller's; inputs up to 3, 2 moves | repair invariance, nesting, progress, refinement of `Tokenizer` |
| `verifier` | 6 token sets and 7 tables; 14 kinds of question over windows up to 2; requests over inputs up to 4, 2 or 3 chunks, lookahead 0 or 1; compared over inputs up to 7 | acceptance, every decision, the scan by copies |
| `mode_scan` | 3 modes, every action of each; inputs up to 3; 4 starting stacks | driver equivalence, diagnosis |
| `compile` | 310 grammars of up to 3 patterns over 2 bytes, limits 0 to 4 and 8; words up to 5 | minimal automaton of the winners, diagnosis, limit |
| `mode_builder` | 2 modes, 2 tokens, 8 actions, 3 calls | declared actions apply |

### Why the bounds are enough

- *Automata.* Three states over two symbols already have every feature the
  certificates tell apart: a start that is re-entered or not, useless states,
  accepts that read on, lookahead past an accept, nullable starts (unrolled to a
  fourth state). Enumerating all of them, up to renaming, is stronger than a list
  of examples; where longer strings matter (a core of several bytes with borders)
  the comment automata give them.
- *Inputs.* Four bytes hold two tokens of two bytes, a token with lookahead of two,
  and a window with bytes on both sides. The window planner needs more: seven bytes
  leave room for four chunks, an occurrence of the core that is refused and another
  that cuts, as in 0010010 for the core 01.
- *Grammars.* The regexes of two levels put every kind of repetition over a body that
  is empty, nullable, two-lettered or itself repeated. Five bytes tell apart any two
  states and lead to every set of these automata (`LimitIsExact` compares the sets);
  the eight sets of the largest meet the limit of eight exactly.
- *Word width.* In `chunk_plan` the input may be as long as the largest size, so
  any sum beyond it wraps and is seen. `mode_builder`'s word of 3 bits has exactly
  the bits its targets need.
- *Chunks.* Three chunks give two workers and the calling thread: the first race
  for the exception, the last writer, and a spawn that fails after one success.
- *Verifiers.* The token sets differ in how late a longest match is decided: at
  once, after two bytes, at any distance. The tables have what no scan has: pairs
  counted from the end, one segmentation among several that start alike, steps back
  into the start, an empty language. Seven bytes hold every shortest refutation the
  decisions return for them, and three turns of every loop.
- *Offline.* A set of one or two states is small enough for all of its inputs up to
  five bytes to be compared. Its tokens have up to two kinds, so that a byte can be
  blamed on the wrong one: in `Hiding` (00 and 1 of one kind, 001 of the other), and
  where an accepting start leads to another accept, a token hides a longer one from a
  blame that stops at the nearest accept, which is the mutant of `ReportIsExact`. The
  larger sets add lookahead and windows that show a token's beginning after others began.
- *Moves.* Two loads, resets, seeks or mode changes: one while a stack is deep, and
  one after a recovery.
- *Budgets.* 0 gives up at the first node, 4 stops midway, 1000 is more than any
  of the automata needs, so that both other outcomes occur.

Deadlock is checked only in `mode_builder`, where a caller can always go on; the
other systems are calls that end, and there `CHECK_DEADLOCK FALSE` is given and
ending is stated by a liveness property or by the refined specification.

### Fairness

`Scanner` and `ModeScan` are loops of one thread without blocking calls: weak
fairness of their next-state relation says that the thread runs. `WindowPlan` has
it of the derivation and of the planner's steps, not of the call between them. The sink of `Scanner` returns (the model has it answer in the same step).
`ParallelScan` has weak fairness per thread, the calling one and each worker: the
operating system schedules every thread, and a sink returns or throws. No fairness
is assumed of which worker gets the mutex. A thread that could be started is never
required to fail. `ModeTokenizer` has weak fairness of what the driver does by itself
(`Drive`), not of giving up and not of loads, resets and seeks, which are bounded.
`ChunkPlan`, `FoundWindow`, `OfflineDecisions`, `VerifierAnswers`, `KeptChunks`, `Compile` and
`ModeBuilder` state safety only and have no fairness.

## 5. What is proved

The theorems hold for every set of symbols, tokens, automata, lexers and inputs, of
any size; TLC has checked each property on small instances first.

**Assumptions.** Only the named `ASSUME`s of the modules: the automata are automata, the
inputs are sequences of symbols, sizes fit the word (an input and a request for chunks
are no larger than `SizeMax`), the model values are none of the numbers. `WindowPlanAssumption` has the shortest window
tried no longer than two bytes, the constant of `window_planner.hpp:96`: a core and the byte
after it are no shorter. Two say more.
`ModeTokenizerAssumption` and `ModeScanAssumption` have every grammar's actions enter modes
of that grammar (`EntersItsModes`): `Mode_builder::build` throws otherwise
(`mode_builder.cpp:64-81`), and `BuiltLexersAreSafe` proves that nothing else is ever
built. `ModeScanAssumption` also has the list of actions and the payloads of the accept
tables agree (`ListsItsPayloads`): `build` makes both from the same registrations
(`mode_builder.cpp:326-339`), and `DeclaredActionsAreBuilt` proves that every built lexer's
do. `BuilderAssumption` has every registered mode's index leave the kind's two bits free in
the packed word: the index is that of an element of a `std::vector` in memory, the word has
64 bits. TLC evaluates every assumption in the runs of the module that makes it.

**Induction over data.** The library's induction theorems take an operator parameter,
which the installed provers cannot instantiate. What a recursive function of the model
computes is proved by the least counterexample instead: the arguments where the claim
fails are a set of naturals, `LeastNatural` gives its least member, and the defining
equation of the function shows that it is none. `UpTo` and `DownFrom` are the two
directions. `Settles` is the counting argument for iterations: a chain of growing subsets of
a set of n members does not grow any more once it has stood still, which it has after n steps.
The defining equations themselves are lemmas (`StateAfterSteps`, `SerialSteps`,
`CloudAtSteps`, `PathSteps`, `FrontSteps`, `ConcatenationSteps`, `SweepSteps`,
`ObservedSteps`, `KeptSteps`, `ActionsOfSteps`, `ModeActionsSteps`, `FallbackSteps`,
`FallSteps`, `MatcherSteps`).

**`DfaTheorems`**, about the tables: the unrolled start is again an automaton and
rejects, the closures are closed, and `SplitPointKills`: a certified byte leads no
reachable state, but an initial one that is not re-entered, to a state from which an
accept can be reached. From it `NoMatchOverCertified` (no match passes over a certified
byte), `ScanUpToCertified` (the serial scan of an input cut at one is the scan of the
front) and `TokensFromSteps`; `UnrolledScans` says that unrolling changes no serial scan.
Its second part is about clouds of hypotheses: a cloud step never loses the true
history (`CloudKeepsTruth`), a verdict is therefore the truth (`VerdictIsTruth`),
and a certified window's origin begins a token wherever the window lies in an input
that tokenizes (`CertifiedWindowBegins`, `CertifiedByteBegins` for bytes).
Its third part is about discarding callers: Moore's refinement is an equivalence that
stands still after as many rounds as there are states (`ObservedIsStable`, by `Settles` on
the least members of the classes), so that equivalent states award the same kept tokens
after every word. `SeveredTokenIsDropped` draws the consequence: a certified byte inside a
token lies inside a dropped one, and the scan that begins there and the one that came over
it meet the same kept accepts from there on.

**`ScannerProofs`**: `TypeCorrect`, `CertificateSound`, `StreamTiles`. The tokens
emitted say nothing of the token being read, so none of the three is inductive
alone. `IInv` joins them with `ScanInv`: a running scan is in a reachable state, it is
in the initial state after the first byte only if that is re-entrant, and the
accept kept has positive width. The step that matters is `ReadByte` on a certified
byte past the first: `ScanInv` supplies the premises of `SplitPointKills`, so the
new state is not live, hence not accepting, hence the accept kept ended before
the byte; from then on a non-live state only steps to non-live states. `Emit`
then cuts before the byte. `ScanRefinesStream` is the safety half of
`ImplementsTokenStream`: every step of the scan is a step of `TokenStream` over the
automaton *as given*, or a stutter. `MatchInv` adds what it needs: the accept kept is
the longest of the matches passed so far. `KeptStream` is `KeptStreamIsSerial` of
`KeptChunks`, for every set of kinds that can be discarded. `KeptInv` says
where the chunks' scan stands: at the beginning of a token of the serial scan, or inside
one that is dropped, at the remainders of which both scans award the same colours. A token
that the chunk emits out of step is then of a discarded kind, and a token that is kept is
met in step.

**`ChunkPlanProofs`**: `TypeCorrect`, `DivisionExact`, `PlanPartitions`,
`PlanCertified`. The three invariants are inductive only together: that the walk
starts within the input needs the exact target, and that the next cut is past the
one before needs where the walk started. `DivisionIdentity`
(`target * usable + carry = size * drawn`) is the exactness multiplied out, which
one step preserves by linear arithmetic once the products are named
(`DivisionStep`); quotient and remainder come back by uniqueness
(`QuotientUnique`). From it follows that no sum passes `SizeMax`, so `Plus` is `+`.
`PlanGreedy` is `PlanIsGreedy`: the cuts are those of the greedy rule and no target is
passed over. `GreedySoFar` says it of the targets drawn so far, with the stretch the
walk has already refused; that the targets rise is `QuotientsRise`.

**`ParallelScanProofs`**: `TypeCorrect`, `NoLateSink`, `ExceptionKept`,
`ScansFollowSerial`, `ParallelIsSerial`. The planning phase is a step of `ChunkPlan`
(`PlannerSteps`), so its `IInv` is part of this one; the rest is the typing, `CallInv` (which
threads run in which phase of the call, and that one thread owns the mutex), `FailureInv`
(a sink that threw has its exception kept, or holds it on the way to the lock) and
`StreamInv` (a chunk has emitted the serial scan's tokens of its own bytes, up to where it
is). `ParallelIsSerial` then puts the chunks together: each boundary is certified, so
by `ScanUpToCertified` the serial scan of the whole input begins a token there, or has
stopped before; by induction over the chunks the serial stream is a prefix of the
concatenated one, for malformed input too, and they are equal when everything matches.

**`FoundWindowProofs`**: `CloudKeepsScan` and `CertifiedOriginIsToken` are
`CloudCoversScan` and `OriginBeginsToken`; `WalkInv` says which cloud the walk has reached.
`FoundWindowIsShortest` is `FoundIsShortest`: a window found is certified and no shorter
one is, and a search that ended without one, within its budget, has refuted all of them. `SearchInv`
carries it: the nodes are the search tree in breadth-first order, the node of a word
stands for its cloud before and after an origin is chosen (`BeforeChoice`,
`AfterChoice`: forgetting the other origins changes no verdict), and every certified
word not yet reached passes through a node that still waits (`NodesAfterComplete`).

**`WindowPlanProofs`**: `PlanCutsAtTokens` is `CutsBeginTokens`, whichever mode the
planner runs in and whatever core was derived. `PlanInv` says that the cuts so far
begin tokens, that the heap's windows lie in the input, and that the cursor is
read only when it holds an offset (the code leaves it at `npos` otherwise).
`CoreMandatory` is `CoreIsMandatory`. `DerivationInv` carries the search: no cell of the
shared buffer bears a stamp later than the search that runs, so that what a search has
marked (`Marked`) is its own; and every marked node waits on the stack, is being explored,
or leads only to marked nodes and never to death. A search that empties its stack has
therefore marked a set that is `Closed` under all bytes but those that complete the core.
`FallSound` and `MatcherSound` say of the matcher's tables what is needed, that every
entry is the length of a beginning of the core that the bytes read end with (that it is
the longest is not needed: a shorter one would only keep the search going). From both
follows `ClosedOutlives`: the hypothesis that starts in the state that proposed, in the middle of a
token, outlives every window without the core before its last byte, so that no origin is
ever alone.
`PlanAsWalked` is `PlanIsExhaustive`, for both modes of the planner. `WalkInv` says of the
rounds that the cuts so far are the walk's and that a round without a licensed window is
followed by none with one (`FloorsRise`: later rounds start no earlier), and that the
division has drawn the exact targets (`Planner!NextDrawn`, of `ChunkPlanProofs`); of the
search that no occurrence begins at or after the barren offset, and that for each occurrence
from the floor on either it has not been read or every window around it is in the heap
or was refused. By `CertifiedCarries` every licensed window is around an occurrence
(`LicensedIsAround`), so that an empty heap refutes them all, and the first that is not
refused precedes those in the heap, by the heap's order, and those of occurrences not yet
read, which lie past its horizon. `ShortestIsInert` says that where no byte is certified no
window of one byte is, so that beginning with two bytes loses nothing.

**`ModeLexerProofs`**: `DiagnosisIsTrue`, `InescapableIsTrue` and `BatchIsPerToken` are
`DiagnosisHolds`, `InescapableHolds` and `ImplementsPerToken`. `ScanInv` is inductive: the
mode of the pass is the stack's, a mode of the lexer; the offset lies in the input; and,
from a fresh stack, the stack is one the closure of the frames allows (`NestedIn`: the
current mode is entered, and each saved frame, with those below it, is carried into the
mode above it). That an action keeps it there is `ApplyNests`, and needs the closure to be
a fixpoint, which `diagnose()` finds by sweeping until nothing changes and the model by
`2 * modes` sweeps: `FrameClosureCloses` shows by `Settles` that the entered modes stand still
after as many sweeps as there are modes, and each frame's holders after as many more. The
refinement is shown action by action: `RoutesAgree` says that the payload and the list give a
token the same action, `SameReading` that a pass over the rest of the input matches what a
scan of the whole input matches there. Its second part is about the builder:
`DeclaredActionsAreBuilt` and `BuiltLexersAreSafe` are `DeclaredActionsApply` and
`BuiltActionsAreSafe`. `BuilderInv` says that every registration that returned still has its
entry, normalized, where it was put, and that no token has two: the next registration of
the token is refused or asks for the same action, and a call that throws only lengthens the
rows. From one entry each follows that the payload, the last of those given, is the word
every listing of the token bears (`LexedLists`), and `PackIsUndone` reads the action back.

**`RecoveryProofs`**, its first part, about the mode tokenizer: `RecoveryRepairs`, `StackNests` and `FlatWhileModeStands` are
`RecoveryIsRepairInvariant`, `StackIsNesting` and `StepsAsTokenizer`. `TokenizerInv` is
inductive: the stack holds modes of the lexer only, without which the lexer that
recovery asks need not exist; what a recovery answered is evidence in the input that
stands; a stack read straight on is one of those of the scan from the front, at no more
tokens than the offset has bytes; and the offset stays in the input, so that setting the
mode that stands is a `Seek`. `EvidenceMetAgain` moves the evidence into any repair of what
precedes it. The refinement is stated and proved step by step; fairness is no part of it.

Its second part: `SearchesAreExact` is `AnswerIsExact`, for every token set, question, cap
and `MaxWord`, so of inputs of every length. The proof has three layers.

1. *Markings.* A key of a search holds states, not inputs. What it stands for is a marking
   of the bytes read (`Marks`, in `DfaTheorems`): offsets at which a token is guessed to
   begin, each the longest match from the one before, the last still alive. The position of
   a marking (`Position`) is what the key holds: the state of the last run and those of the
   closed ones. `MarksOfAppend` says what a byte makes of the markings, `PositionAdvances`
   that the search's step makes the same of the positions, and `MarksComplete` that of a
   whole input that tokenizes only the marking of the serial scan is left, and none of
   any other.
2. *Keys.* For each of the five kinds of search, one lemma (`RescueCarried`,
   `DifferenceCarried`, `SegmentationCarried`, `OccurrenceCarried`, `OriginCarried`) says that
   a step of the search on the keys of an input ends just if the event happens on the
   input with the byte, and else has the keys of that input as successors (`AllCarried`
   joins them).
3. *The walk.* `SearchInv` is inductive: what is asked (`Asking`, `Searching`), how far the
   search is (`Progress`: by `Walk` every key stands for the bytes on its way back to
   the start, the ways get longer by no more than a byte from one key to the next, and what has
   been examined leads only to keys that are there), which half of a segmentation differs
   (`Halves`), and what the gaps of a profile decided so far say (`Profiled`). `FoundIs` is
   what it says of an answer, of all inputs rather than those of at most `MaxWord` bytes.
   Without the order of the ways no witness would be a shortest one; without `LeadsBack`
   an empty queue would prove nothing.

Its third part: `RecoveriesAreExact` is `RecoveryIsExact`. `TailInv` says that what was
answered is what `MinimalRepair` and `NextAnchoredStart` compute. `WalkedTo` follows the
walk to the crossing entries: they are the states that some text leads to, each with a
shortest word, none longer than there are states. `SerialShifts` and `CrossingRun` say that a
tail behind a text is scanned as it is by itself, `ScanPasses` that a scan passes the front of
the tail at a boundary or with a token read across it, and so `TextHasScenario` and
`ScenarioHasText` that the scenarios stand for exactly the texts that repair the tail.
`MinimalRepairIs`, `AnchoredStartIs` and `MendedAmong` conclude. `RecoveryIsExact` speaks of the
texts no longer than there are states, which TLC can enumerate; `RecoveriesAtAnyLength` says
the same of texts of any length, since the scenarios stand for those too.

Its fourth part: `DecisionsNeverDisagree` is `DecisionsAgree`. `AuditInv` says which answers the
report has taken over at which stage. A rescue needs a token that read on after an accept,
so its states lie in the region behind one (`RescueHasRegion`), and the peeling of an empty lag
leaves none (`NoLagNoRegion`). A witness against a certified window, or a cut inside it,
would be an input in which the window's origin does not begin a token (`CertifiedCovers`,
`CertifiedCuts`), which `VerdictIsTruth` excludes. A certificate in the tail begins a token
after every repair (`CertifiedInRepair`), so the anchored start is no later
(`AnchoredByThen`).

The proof of the verdicts found a mistake of the model: `GapVerdict` was a `CASE` whose guards
overlapped when a side was left open, so that its value rested on the order in which TLC
tries them. The code tests the open side first (`boundary_search.cpp:637-660`), and so does
the model now.

**Model-checked only**, and why:

- Liveness: `CallEnds`, `DriverEnds`, `SearchesAnswer` and the
  fairness half of `ImplementsTokenStream`. The prover has no rule for fairness and
  ENABLED.
- What searches find in `verifier`, whose modules declare RECURSIVE operators: no theorem may
  be stated over them.
- What `compile` and the rest of `offline` compare with all inputs up to a bound
  (`CompiledIsCanonical`, `DiagnosisIsExact`, `LimitIsExact`, `SpanIsExact`, `ReportIsExact`):
  their bounds `MaxWord` and `MaxAudited` are part of what they state, and they hold only where
  the bound is long enough for the instance's automata (to tell two states apart, or to
  show the longest stretch there is). For every value of the constants they would be false.

## 6. What is not modelled, and why

- The packed table layout, row sharing and byte classes of the simulator: a
  representation the scan reads through one accessor.
- The planner's memo of window decisions: a decision is a function of the window.
- `ModeBuilder`: action kinds outside the enumeration and negative indices (rejected
  on entry), and an allocation that fails between the two `resize` calls of
  `mode_builder.cpp:429-431`, after which the builder's vectors differ in length.
- The arguments that the decisions reject with `std::invalid_argument` on entry: empty
  windows, origins outside them, inventories that are not certified in the anchor-free
  span. The refusal to decide about an uncertified window, which is itself a decision,
  is modelled in `VerifierAnswers!IfCertified`.
- The largest state identifier of `nfa::Builder` and of the determinizer's dense index,
  and the refusals to step past them: 2^64 and 2^32 states.
- Of `audit()`: the parsed rules and their prices, the cap on expanded windows, the
  modulo bytes, and the report as text and JSON.
- The other analyses of `libs/verifier` (`chunk_plan`, `window_density`,
  `ripple_radius`, `rule_ceilings`, `token_automaton`, `trie_chain`, `merge_tower`,
  `piece_set`): numbers about a token set, over the same verifiers, for the paper.
- Character classes, UTF-8 expansion, Unicode tables and `libs/pattern`: they build the
  trees that `ToNfa` starts from, as texts and sets, without state.
- `tools/probes`, `tools/audit`'s readers of other generators' grammars,
  `tools/benchmark`, `tools/fuzz` and `paper/`: these are more than two thirds of the
  lines of code. They print tables, parse foreign files or repeat the libraries'
  computations by brute force. A model of them would be the model of the libraries
  again, or of formatting; the share of all lines that is modelled stays small for
  this reason, while of the libraries' own state and decisions little is left out.

## 7. The plan

Done, in this order: scan and certificates (`Dfa`, `TokenStream`, `Scanner`), chunk
plan, parallel scan, modes, discarding callers, windows and their search, the core,
the window planner, the tokenizers, compilation, the offline decisions, the
verifiers, their decisions and the scan by copies; the proofs of scan, plan, parallel
scan, discarding callers, windows and their search, the window planner's cuts, its core and its plans, the mode
builder, the mode lexer's two drivers, the mode tokenizer, the boundary searches, the
decisions about a damaged tail and the agreement of the offline decisions.

Next modules:

1. The rest of `audit()`: the modulo bytes by `ModuloCuts`, the prices of the rules.
2. `verifier/chunk_plan.cpp`: the plan whose chunks the k-copy scan's requests could use.

Next theorems, in order of what they are worth:

1. That the longest path of the anchor-free product graph is the longest stretch without a
   certificate, of inputs of any length (`SpanIsExact` without its bound).
2. That the minimized automaton is the least of its language (`CompiledIsCanonical` without
   its bound), along the lines of `ObservedIsStable`.
