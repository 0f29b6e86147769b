--------------------------- MODULE ScannerProofs ---------------------------
(***************************************************************************)
(* The scan of every automaton over every input: its state has its type,   *)
(* its tokens tile the input, no token holds a certified byte but in       *)
(* front, and what it does is step by step what the stream of the longest  *)
(* matches does.  Then the scans of a caller that discards tokens and cuts *)
(* at the bytes certified for it: what it keeps is what a serial scan      *)
(* would have kept.                                                        *)
(***************************************************************************)
EXTENDS Scanner, KeptChunks, DfaTheorems

(* What the certificate's argument needs beyond the properties: a running  *)
(* scan is in a reachable state, it is back in the initial state only if   *)
(* that is re-entrant, and the match it would emit is one of positive      *)
(* width.                                                                  *)
ScanInv ==
  pc = "byte" =>
    /\ state \in Reachable(sim)
    /\ consumed > 0 /\ state = sim.init => InitReentrant(sim)
    /\ accept_state # NoState => /\ accept_consumed > 0
                                 /\ Accepting(sim, accept_state)

IInv ==
  /\ TypeOK
  /\ sim = Simulator(dfa, {})
  /\ ScanInv
  /\ SplitPointsBeginTokens
  /\ TokensTileInput

LEMMA InitIInv == Init => IInv
<1> SUFFICES ASSUME Init PROVE IInv
  OBVIOUS
<1> USE DEF Init
<1>1. input \in Seq(Symbols) /\ Len(input) \in Nat
  BY ScannerAssumption
<1>2. TypeOK
  BY <1>1, ScannerAssumption, SimulatorTables DEF TypeOK, IsDfa
<1>3. ScanInv /\ SplitPointsBeginTokens /\ TokensTileInput
  BY DEF ScanInv, SplitPointsBeginTokens, TokensTileInput
<1>4. QED
  BY <1>2, <1>3 DEF IInv

LEMMA NextIInv == IInv /\ [Next]_vars => IInv'
<1> SUFFICES ASSUME IInv, [Next]_vars PROVE IInv'
  OBVIOUS
<1> USE DEF IInv
<1>0. /\ input \in Seq(Symbols) /\ Len(input) \in Nat
      /\ dfa \in Dfas
      /\ IsDfa(sim) /\ sim.live = Live(sim)
      /\ sim.split_points = SplitPoints(sim, {})
  BY ScannerAssumption, SimulatorTables DEF TypeOK
<1>1. CASE BeginToken
  <2>1. /\ UNCHANGED <<dfa, sim, input, offset, stream>>
        /\ pc = "token" /\ pc' = "byte" /\ offset < Len(input)
        /\ state' = sim.init /\ consumed' = 0
        /\ accept_state' = NoState /\ accept_consumed' = 0
    BY <1>1 DEF BeginToken
  <2>2. TypeOK'
    BY <1>0, <2>1 DEF TypeOK, IsDfa
  <2>3. ScanInv'
    BY <1>0, <2>1, ReachableClosed DEF ScanInv
  <2>4. SplitPointsBeginTokens'
    BY <2>1 DEF SplitPointsBeginTokens
  <2>5. TokensTileInput'
    BY <2>1 DEF TokensTileInput
  <2>6. QED
    BY <2>1, <2>2, <2>3, <2>4, <2>5
<1>2. CASE Exhausted
  <2>1. /\ UNCHANGED <<dfa, sim, input, offset, scan, stream>>
        /\ pc' = "exhausted"
    BY <1>2 DEF Exhausted
  <2>2. QED
    BY <2>1 DEF TypeOK, ScanInv, SplitPointsBeginTokens, TokensTileInput, scan
<1>3. CASE ReadByte
  <2> DEFINE byte == input[offset + consumed + 1]
  <2>1. /\ UNCHANGED <<dfa, sim, input, pc, offset, stream>>
        /\ pc = "byte" /\ state' = Entry /\ Entry # NoState
        /\ consumed' = consumed + 1
        /\ IF Accepting(sim, Entry)
           THEN accept_state' = Entry /\ accept_consumed' = consumed + 1
           ELSE UNCHANGED <<accept_state, accept_consumed>>
    BY <1>3 DEF ReadByte
  <2>2. /\ offset \in Nat /\ consumed \in Nat /\ offset + consumed < Len(input)
        /\ accept_consumed \in 0 .. consumed
        /\ Entry = sim.next[state][byte]
    BY <1>0, <2>1 DEF TypeOK, Entry
  <2>3. byte \in Symbols
    BY <1>0, <2>2
  <2>4. state \in Reachable(sim) /\ state \in States(sim)
    BY <1>0, <2>1, ReachableClosed DEF ScanInv
  <2> HIDE DEF byte
  <2>5. /\ state' = sim.next[state][byte]
        /\ state' \in Reachable(sim) /\ state' \in States(sim)
    BY <1>0, <2>1, <2>2, <2>3, <2>4, ReachableClosed
  <2>6. TypeOK'
    BY <1>0, <2>1, <2>2, <2>5 DEF TypeOK
  <2>7. ScanInv'
    <3>1. sim' = sim
      BY <2>1
    <3>2. state' = sim.init => InitReentrant(sim)
      BY <2>3, <2>4, <2>5 DEF InitReentrant
    <3>3. accept_state' # NoState => /\ accept_consumed' > 0
                                     /\ Accepting(sim, accept_state')
      BY <1>0, <2>1, <2>2 DEF ScanInv
    <3>4. QED
      BY <2>5, <3>1, <3>2, <3>3 DEF ScanInv
  <2>8. ASSUME NEW k \in 1 .. consumed,
               input[offset + k + 1] \in SplitPoints(sim, {})
        PROVE  state' \notin CoAccessible(sim) /\ accept_consumed <= k
    <3>1. CASE k < consumed
      <4>1. state \notin Live(sim) /\ accept_consumed <= k
        BY <1>0, <2>1, <2>2, <2>8, <3>1, SMTT(20) DEF SplitPointsBeginTokens
      <4>2. state \notin CoAccessible(sim)
        BY <2>4, <4>1 DEF Live
      <4>3. QED
        BY <1>0, <2>3, <2>4, <2>5, <4>1, <4>2, CoAccessibleClosed
    <3>2. CASE k = consumed
      <4>1. byte \in SplitPoints(sim, {})
        BY <2>8, <3>2 DEF byte
      <4>2. state = sim.init => InitReentrant(sim)
        BY <2>1, <2>2, <3>2 DEF ScanInv
      <4>3. QED
        BY <1>0, <2>2, <2>4, <2>5, <3>2, <4>1, <4>2, SplitPointKills
    <3>3. QED
      BY <2>2, <3>1, <3>2
  <2>9. SplitPointsBeginTokens'
    <3>1. ASSUME NEW k \in 1 .. consumed,
                 input[offset + k + 1] \in SplitPoints(sim, {})
          PROVE  state' \notin Live(sim) /\ accept_consumed' <= k
      <4>1. state' \notin CoAccessible(sim) /\ accept_consumed <= k
        BY <2>8, <3>1
      <4>2. ~ Accepting(sim, state')
        BY <1>0, <2>5, <4>1, CoAccessibleClosed
      <4>3. QED
        BY <2>1, <4>1, <4>2 DEF Live
    <3>2. /\ consumed' - 1 = consumed /\ offset' = offset /\ input' = input
          /\ sim' = sim /\ stream' = stream
      BY <2>1, <2>2
    <3>3. \A i \in DOMAIN stream' :
            \A k \in 1 .. stream'[i].length - 1 :
              input'[stream'[i].begin + k + 1] \notin sim'.split_points
      BY <3>2, Zenon DEF SplitPointsBeginTokens
    <3>4. \A k \in 1 .. consumed' - 1 :
            input'[offset' + k + 1] \in sim'.split_points =>
              state' \notin sim'.live /\ accept_consumed' <= k
      BY <1>0, <3>1, <3>2, Zenon
    <3>5. QED
      BY <3>3, <3>4, Zenon DEF SplitPointsBeginTokens
  <2>10. TokensTileInput'
    BY <2>1 DEF TokensTileInput
  <2>11. QED
    BY <2>1, <2>6, <2>7, <2>9, <2>10
<1>4. CASE Unmatched
  <2>1. /\ UNCHANGED <<dfa, sim, input, offset, scan, stream>>
        /\ pc' = "unmatched"
    BY <1>4 DEF Unmatched
  <2>2. QED
    BY <2>1 DEF TypeOK, ScanInv, SplitPointsBeginTokens, TokensTileInput, scan
<1>5. CASE Emit
  <2> DEFINE emitted == [begin |-> offset, length |-> accept_consumed,
                         token |-> sim.accept[accept_state]]
  <2>1. /\ UNCHANGED <<dfa, sim, input, scan>>
        /\ pc = "byte" /\ pc' \in {"token", "stopped"}
        /\ accept_state # NoState
        /\ offset' = offset + accept_consumed
        /\ stream' = Append(stream, emitted)
    BY <1>5 DEF Emit
  <2>2. /\ offset \in 0 .. Len(input) /\ consumed \in 0 .. Len(input)
        /\ offset + consumed <= Len(input)
        /\ accept_consumed \in 1 .. consumed
    BY <1>0, <2>1 DEF TypeOK, ScanInv
  <2>3. emitted \in [begin : 0 .. Len(input), length : 1 .. Len(input),
                     token : TokenIds]
    BY <1>0, <2>1, <2>2 DEF TypeOK, ScanInv, Accepting, IsDfa
  <2>4. stream \in Seq([begin : 0 .. Len(input), length : 1 .. Len(input),
                        token : TokenIds])
    BY DEF TypeOK
  <2>5. emitted.begin = offset /\ emitted.length = accept_consumed
    OBVIOUS
  <2> HIDE DEF emitted
  <2>6. /\ stream' \in Seq([begin : 0 .. Len(input), length : 1 .. Len(input),
                            token : TokenIds])
        /\ Len(stream') = Len(stream) + 1 /\ Len(stream) \in Nat
        /\ DOMAIN stream' = 1 .. Len(stream) + 1 /\ DOMAIN stream = 1 .. Len(stream)
        /\ \A i \in 1 .. Len(stream) : stream'[i] = stream[i]
        /\ stream'[Len(stream) + 1] = emitted
    BY <2>1, <2>3, <2>4
  <2>7. TypeOK'
    BY <1>0, <2>1, <2>2, <2>6 DEF TypeOK, scan
  <2>8. ScanInv'
    BY <2>1 DEF ScanInv
  <2>9. SplitPointsBeginTokens'
    <3>1. \A k \in 1 .. accept_consumed - 1 :
            input[offset + k + 1] \notin sim.split_points
      BY <2>1, <2>2 DEF SplitPointsBeginTokens
    <3>2. ASSUME NEW i \in 1 .. Len(stream) + 1, NEW k \in 1 .. stream'[i].length - 1
          PROVE  input[stream'[i].begin + k + 1] \notin sim.split_points
      <4>1. CASE i = Len(stream) + 1
        BY <2>5, <2>6, <3>1, <4>1
      <4>2. CASE i # Len(stream) + 1
        <5>1. i \in DOMAIN stream /\ stream'[i] = stream[i]
          BY <2>6, <4>2
        <5>2. QED
          BY <5>1 DEF SplitPointsBeginTokens
      <4>3. QED
        BY <4>1, <4>2
    <3>3. QED
      BY <2>1, <2>6, <3>2 DEF SplitPointsBeginTokens
  <2>10. TokensTileInput'
    <3>1. ASSUME NEW i \in 2 .. Len(stream) + 1
          PROVE  stream'[i].begin = stream'[i - 1].begin + stream'[i - 1].length
      <4>1. CASE i = Len(stream) + 1
        <5>1. /\ stream'[i] = emitted /\ stream # << >>
              /\ stream'[i - 1] = stream[Len(stream)]
          BY <2>6, <4>1
        <5>2. QED
          BY <2>5, <5>1 DEF TokensTileInput
      <4>2. CASE i \in 2 .. Len(stream)
        <5>1. i \in 1 .. Len(stream) /\ i - 1 \in 1 .. Len(stream) /\ i # 1
          BY <2>6, <4>2
        <5>2. stream'[i] = stream[i] /\ stream'[i - 1] = stream[i - 1]
          BY <2>6, <5>1
        <5>3. stream[i].begin = stream[i - 1].begin + stream[i - 1].length
          BY <2>6, <5>1 DEF TokensTileInput
        <5>4. QED
          BY <5>2, <5>3
      <4>3. QED
        BY <2>6, <4>1, <4>2
    <3>2. stream'[1].begin = 0
      <4>1. CASE stream = << >>
        BY <2>5, <2>6, <4>1 DEF TokensTileInput
      <4>2. CASE stream # << >>
        <5>1. stream'[1] = stream[1]
          BY <2>4, <2>6, <4>2
        <5>2. QED
          BY <4>2, <5>1 DEF TokensTileInput
      <4>3. QED
        BY <4>1, <4>2
    <3>3. stream'[Len(stream')] = emitted /\ stream' # << >>
      BY <2>6
    <3>4. offset' = stream'[Len(stream')].begin + stream'[Len(stream')].length
      BY <2>1, <2>5, <3>3
    <3>5. \A i \in DOMAIN stream' \ {1} :
            stream'[i].begin = stream'[i - 1].begin + stream'[i - 1].length
      <4>1. \A i \in DOMAIN stream' \ {1} : i \in 2 .. Len(stream) + 1
        BY <2>6
      <4>2. QED
        BY <3>1, <4>1
    <3>6. QED
      BY <3>2, <3>3, <3>4, <3>5 DEF TokensTileInput
  <2>11. QED
    BY <2>1, <2>7, <2>8, <2>9, <2>10 DEF scan
<1>6. CASE UNCHANGED vars
  BY <1>6 DEF vars, scan, TypeOK, ScanInv, SplitPointsBeginTokens, TokensTileInput
<1>7. QED
  BY <1>1, <1>2, <1>3, <1>4, <1>5, <1>6 DEF Next

LEMMA IInvInvariant == Spec => []IInv
<1>1. Init => IInv
  BY InitIInv
<1>2. IInv /\ [Next]_vars => IInv'
  BY NextIInv
<1>3. QED
  BY <1>1, <1>2, PTL DEF Spec

----------------------------------------------------------------------------
(* The scan's cursors stay within the input and every token it emits has   *)
(* positive width.                                                         *)
THEOREM TypeCorrect == Spec => []TypeOK
  BY IInvInvariant, PTL DEF IInv

(* No scan of any automaton emits a token with a certified byte inside,    *)
(* on malformed input as on valid: what chunk boundaries rest on.          *)
THEOREM CertificateSound == Spec => []SplitPointsBeginTokens
  BY IInvInvariant, PTL DEF IInv

(* The tokens of every scan lie end to end from the front of the input.    *)
THEOREM StreamTiles == Spec => []TokensTileInput
  BY IInvInvariant, PTL DEF IInv

----------------------------------------------------------------------------
(* The refinement.  Where a running scan is in its automaton's run over the *)
(* rest of the input, and which of the matches there it has passed.        *)
Run == StateAfter(sim, input, offset)
Matches == MatchLengths(sim, input, offset)

MatchInv ==
  pc = "byte" =>
    /\ offset < Len(input)
    /\ state = Run[consumed]
    /\ accept_state = NoState => \A n \in Matches : n > consumed
    /\ accept_state # NoState =>
         /\ accept_consumed \in Matches
         /\ accept_state = Run[accept_consumed]
         /\ \A n \in Matches : n > accept_consumed => n > consumed

LEMMA ScannedTables ==
  ASSUME IInv
  PROVE  /\ input \in Seq(Symbols) /\ Len(input) \in Nat /\ dfa \in Dfas
         /\ IsDfa(dfa) /\ IsDfa(sim) /\ sim = Simulator(dfa, {})
         /\ offset \in 0 .. Len(input)
  BY ScannerAssumption DEF IInv, TypeOK

(* No match begins at the end of the input.                                *)
LEMMA NoMatchAtEnd ==
  ASSUME NEW D, NEW w \in Seq(Symbols)
  PROVE  MatchLengths(D, w, Len(w)) = {}
  BY DEF MatchLengths

LEMMA NextMatchInv == IInv /\ MatchInv /\ [Next]_vars => MatchInv'
<1> SUFFICES ASSUME IInv, MatchInv, [Next]_vars PROVE MatchInv'
  OBVIOUS
<1>0. /\ TypeOK /\ input \in Seq(Symbols) /\ Len(input) \in Nat /\ IsDfa(sim)
      /\ NoState \notin States(sim)
  BY ScannedTables, DfaAssumption DEF IInv, States, IsDfa
<1>1. CASE BeginToken
  <2>1. /\ UNCHANGED <<sim, input, offset>> /\ offset < Len(input)
        /\ state' = sim.init /\ consumed' = 0 /\ accept_state' = NoState
    BY <1>1 DEF BeginToken
  <2>2. Run[0] = sim.init /\ Run' = Run /\ Matches' = Matches
    BY <2>1, ScannedTables, StateAfterSteps DEF Run, Matches
  <2>3. \A n \in Matches : n > 0
    BY DEF Matches, MatchLengths
  <2>4. QED
    BY <2>1, <2>2, <2>3 DEF MatchInv
<1>2. CASE ReadByte
  <2>1. /\ UNCHANGED <<sim, input, pc, offset>> /\ pc = "byte"
        /\ state' = Entry /\ Entry # NoState /\ consumed' = consumed + 1
        /\ IF Accepting(sim, Entry)
           THEN accept_state' = Entry /\ accept_consumed' = consumed + 1
           ELSE UNCHANGED <<accept_state, accept_consumed>>
    BY <1>2 DEF ReadByte
  <2>2. /\ offset \in 0 .. Len(input) /\ consumed \in Nat
        /\ consumed + 1 \in 1 .. Len(input) - offset
        /\ (consumed + 1) - 1 = consumed
        /\ Entry = sim.next[state][input[offset + consumed + 1]]
        /\ state \in States(sim)
    BY <1>0, <2>1 DEF TypeOK, Entry
  <2>3. offset + (consumed + 1) = offset + consumed + 1
    BY <2>2
  <2>4. Run[consumed + 1] = NextState(sim, Run[consumed], input[offset + (consumed + 1)])
    <3>1. \A n \in 1 .. Len(input) - offset :
            Run[n] = NextState(sim, Run[n - 1], input[offset + n])
      BY <1>0, <2>2, StateAfterSteps DEF Run
    <3>2. QED
      BY <2>2, <3>1
  <2>5. Run[consumed + 1] = Entry
    BY <1>0, <2>1, <2>2, <2>3, <2>4 DEF MatchInv, NextState
  <2>6. Run' = Run /\ Matches' = Matches
    BY <2>1 DEF Run, Matches
  <2>7. consumed + 1 \in Matches <=> Accepting(sim, Entry)
    BY <2>1, <2>2, <2>5 DEF Matches, MatchLengths, Run, Accepting
  <2>8. Matches \subseteq Nat /\ accept_consumed \in Nat
    BY <1>0 DEF Matches, MatchLengths, TypeOK
  <2>9. CASE Accepting(sim, Entry)
    BY <2>1, <2>2, <2>5, <2>6, <2>7, <2>8, <2>9 DEF MatchInv
  <2>10. CASE ~ Accepting(sim, Entry)
    <3>1. \A n \in Matches : n > consumed => n > consumed + 1
      BY <2>2, <2>7, <2>8, <2>10
    <3>2. QED
      BY <2>1, <2>2, <2>5, <2>6, <2>8, <2>10, <3>1 DEF MatchInv
  <2>11. QED
    BY <2>9, <2>10
<1>3. CASE Exhausted \/ Unmatched \/ Emit
  BY <1>3 DEF Exhausted, Unmatched, Emit, MatchInv
<1>4. CASE UNCHANGED vars
  BY <1>4 DEF vars, scan, MatchInv, Run, Matches
<1>5. QED
  BY <1>1, <1>2, <1>3, <1>4 DEF Next

LEMMA MatchInvInvariant == Spec => [](IInv /\ MatchInv)
<1>1. Init => MatchInv
  BY DEF Init, MatchInv
<1>2. IInv /\ MatchInv /\ [Next]_vars => MatchInv'
  BY NextMatchInv
<1>3. QED
  BY <1>1, <1>2, IInvInvariant, PTL DEF Spec

(* Where the scan can read no further no longer match is left.             *)
LEMMA AllMatchesPassed ==
  ASSUME IInv, MatchInv, pc = "byte", Entry = NoState
  PROVE  \A n \in Matches : n <= consumed
<1>0. /\ input \in Seq(Symbols) /\ Len(input) \in Nat /\ IsDfa(sim)
      /\ offset \in 0 .. Len(input) /\ consumed \in Nat
      /\ offset + consumed <= Len(input) /\ state \in States(sim)
      /\ state = Run[consumed] /\ NoState \notin States(sim)
      /\ Matches \subseteq 1 .. Len(input) - offset
  <2>1. /\ input \in Seq(Symbols) /\ Len(input) \in Nat /\ IsDfa(sim)
        /\ offset \in 0 .. Len(input) /\ consumed \in Nat
    BY ScannedTables DEF IInv, TypeOK
  <2>2. offset + consumed <= Len(input) /\ state \in States(sim) /\ state = Run[consumed]
    BY <2>1 DEF IInv, TypeOK, MatchInv, States
  <2>3. NoState \notin States(sim)
    BY <2>1, DfaAssumption DEF States, IsDfa
  <2>4. Matches \subseteq 1 .. Len(input) - offset
    BY DEF Matches, MatchLengths
  <2>5. QED
    BY <2>1, <2>2, <2>3, <2>4
<1>1. CASE offset + consumed = Len(input)
  BY <1>0, <1>1
<1>2. CASE offset + consumed < Len(input)
  <2>1. /\ consumed + 1 \in 1 .. Len(input) - offset
        /\ consumed + 1 \in 0 .. Len(input) - offset
        /\ (consumed + 1) - 1 = consumed
        /\ offset + (consumed + 1) = offset + consumed + 1
        /\ sim.next[state][input[offset + consumed + 1]] = NoState
    BY <1>0, <1>2 DEF Entry
  <2>2. Run[consumed + 1] = NextState(sim, Run[consumed], input[offset + (consumed + 1)])
    <3>1. \A n \in 1 .. Len(input) - offset :
            Run[n] = NextState(sim, Run[n - 1], input[offset + n])
      BY <1>0, StateAfterSteps DEF Run
    <3>2. QED
      BY <2>1, <3>1
  <2>3. Run[consumed + 1] = NoState
    BY <1>0, <2>1, <2>2 DEF NextState
  <2>4. NoState \notin CoAccessible(sim)
    BY <1>0 DEF CoAccessible, ClosedBackward
  <2>5. \A n \in Matches : n < consumed + 1
    BY <1>0, <2>1, <2>3, <2>4, NoMatchWhenDoomed DEF Run, Matches
  <2>6. QED
    BY <1>0, <2>5
<1>3. QED
  BY <1>0, <1>1, <1>2

(* The promise's matches are those of the scans.                           *)
LEMMA SameMatches ==
  ASSUME NEW D, NEW w, NEW from
  PROVE  /\ Stream!StateAfter(D, w, from) = StateAfter(D, w, from)
         /\ Stream!MatchLengths(D, w, from) = MatchLengths(D, w, from)
         /\ Stream!LongestMatch(D, w, from) = LongestMatch(D, w, from)
<1>1. Stream!StateAfter(D, w, from) = StateAfter(D, w, from)
  BY DEF Stream!StateAfter, StateAfter
<1>2. Stream!MatchLengths(D, w, from) = MatchLengths(D, w, from)
  BY <1>1 DEF Stream!MatchLengths, MatchLengths
<1>3. QED
  BY <1>1, <1>2 DEF Stream!LongestMatch, LongestMatch

LEMMA InitRefines == Init => Stream!Init
  BY DEF Init, Stream!Init, Running

LEMMA NextRefines ==
  ASSUME IInv, MatchInv, [Next]_vars
  PROVE  [Stream!Next]_(Stream!streamVars)
<1>0. /\ input \in Seq(Symbols) /\ Len(input) \in Nat /\ IsDfa(dfa) /\ IsDfa(sim)
      /\ sim = Simulator(dfa, {}) /\ offset \in 0 .. Len(input)
  BY ScannedTables
<1>1. MatchLengths(dfa, input, offset) = Matches
  BY <1>0, UnrolledScans DEF Matches
<1>2. CASE BeginToken \/ ReadByte
  BY <1>2 DEF BeginToken, ReadByte, Stream!streamVars, Running
<1>3. CASE Exhausted
  <2>1. /\ UNCHANGED <<dfa, input, offset, stream>> /\ offset = Len(input)
        /\ pc = "token" /\ pc' = "exhausted"
    BY <1>3 DEF Exhausted
  <2>2. MatchLengths(dfa, input, offset) = {}
    BY <1>0, <2>1, NoMatchAtEnd
  <2>3. Stream!Finish
    BY <2>1, <2>2, SameMatches DEF Stream!Finish, Running
  <2>4. QED
    BY <2>3 DEF Stream!Next
<1>4. CASE Unmatched
  <2>1. /\ UNCHANGED <<dfa, input, offset, stream>> /\ Entry = NoState
        /\ accept_state = NoState /\ pc = "byte" /\ pc' = "unmatched"
    BY <1>4 DEF Unmatched
  <2>2. offset # Len(input)
    BY <1>0, <2>1 DEF MatchInv
  <2>3. Matches = {}
    <3>1. \A n \in Matches : n > consumed /\ n <= consumed /\ n \in Nat
      <4>1. \A n \in Matches : n \in Nat
        BY DEF Matches, MatchLengths
      <4>2. QED
        BY <2>1, <4>1, AllMatchesPassed DEF MatchInv
    <3>2. consumed \in Nat
      BY <1>0 DEF IInv, TypeOK
    <3>3. QED
      BY <3>1, <3>2
  <2>4. Stream!Finish
    BY <1>1, <2>1, <2>2, <2>3, SameMatches DEF Stream!Finish, Running
  <2>5. QED
    BY <2>4 DEF Stream!Next
<1>5. CASE Emit
  <2>1. /\ UNCHANGED <<dfa, input>> /\ Entry = NoState
        /\ accept_state # NoState /\ pc = "byte" /\ pc' \in {"token", "stopped"}
        /\ offset' = offset + accept_consumed
        /\ stream' = Append(stream, [begin |-> offset, length |-> accept_consumed,
                                     token |-> sim.accept[accept_state]])
    BY <1>5 DEF Emit
  <2>2. /\ accept_consumed \in Matches /\ accept_state = Run[accept_consumed]
        /\ \A n \in Matches : n <= accept_consumed
    <3>1. \A n \in Matches : n \in Nat
      BY DEF Matches, MatchLengths
    <3>2. consumed \in Nat /\ accept_consumed \in Nat
      BY <1>0 DEF IInv, TypeOK
    <3>3. QED
      BY <2>1, <3>1, <3>2, AllMatchesPassed DEF MatchInv
  <2>3. LongestMatch(sim, input, offset) = accept_consumed
    <3>1. /\ LongestMatch(sim, input, offset) \in Matches
          /\ accept_consumed <= LongestMatch(sim, input, offset)
      BY <1>0, <2>2, LongestMatchIsLongest DEF Matches
    <3>2. \A n \in Matches : n \in Nat
      BY DEF Matches, MatchLengths
    <3>3. QED
      BY <2>2, <3>1, <3>2
  <2>4. TokenAt(dfa, input, offset) = TokenAt(sim, input, offset)
    BY <1>0, <1>1, <2>2, UnrolledScans
  <2>5. TokenAt(sim, input, offset) = [begin |-> offset, length |-> accept_consumed,
                                       token |-> sim.accept[accept_state]]
    BY <2>2, <2>3 DEF TokenAt, Run
  <2>6. LongestMatch(dfa, input, offset) = accept_consumed
    BY <1>1, <2>3 DEF LongestMatch, Matches
  <2>7. stream' = Append(stream, TokenAt(dfa, input, offset))
    BY <2>1, <2>4, <2>5
  <2>8. /\ MatchLengths(dfa, input, offset) # {}
        /\ offset' = offset + LongestMatch(dfa, input, offset)
        /\ UNCHANGED <<dfa, input>>
    BY <1>1, <2>1, <2>2, <2>6
  <2>9. /\ (IF Running THEN "running" ELSE pc) = "running"
        /\ (IF Running THEN "running" ELSE pc)' \in {"running", "stopped"}
    BY <2>1 DEF Running
  <2>10. Stream!Emit
    BY <2>7, <2>8, <2>9, SameMatches DEF Stream!Emit, TokenAt
  <2>11. QED
    BY <2>10 DEF Stream!Next
<1>6. CASE UNCHANGED vars
  BY <1>6 DEF vars, Stream!streamVars, Running
<1>7. QED
  BY <1>2, <1>3, <1>4, <1>5, <1>6 DEF Next

(* Every scan of the compiled tables, byte by byte and with its look-ahead *)
(* read again, is step by step the longest-match scan of the automaton as  *)
(* given.                                                                  *)
THEOREM ScanRefinesStream ==
  Spec => Stream!Init /\ [][Stream!Next]_(Stream!streamVars)
<1>1. Init => Stream!Init
  BY InitRefines
<1>2. IInv /\ MatchInv /\ [Next]_vars => [Stream!Next]_(Stream!streamVars)
  BY NextRefines
<1>3. QED
  BY <1>1, <1>2, MatchInvInvariant, PTL DEF Spec

----------------------------------------------------------------------------
(* A caller that discards some kinds of tokens, and cuts its chunks at the *)
(* bytes certified for that.                                               *)

(* The tokens kept, as a recursion.                                        *)
LEMMA KeptSteps ==
  ASSUME NEW discarded, NEW stm, Len(stm) \in Nat
  PROVE  LET of == KeptOf(discarded, stm)
         IN /\ of[0] = << >>
            /\ \A n \in 1 .. Len(stm) :
                 of[n] = IF stm[n].token \in discarded THEN of[n - 1] ELSE Append(of[n - 1], stm[n])
<1> DEFINE N == Len(stm)
           Step(s, n) == IF stm[n].token \in discarded THEN s ELSE Append(s, stm[n])
           Is(f, k) == f = [ n \in 0 .. k |-> IF n = 0 THEN << >> ELSE Step(f[n - 1], n) ]
           S == { k \in 0 .. N : \E f : Is(f, k) }
<1>0. N \in Nat
  OBVIOUS
<1>1. 0 \in S
  <2>1. Is([n \in 0 .. 0 |-> << >>], 0)
    OBVIOUS
  <2> HIDE DEF Is
  <2>2. QED
    BY <1>0, <2>1
<1>2. ASSUME NEW k \in 0 .. N - 1, k \in S PROVE k + 1 \in S
  <2>0. k + 1 \in 0 .. N /\ k \in Nat
    BY <1>0
  <2>1. PICK f : Is(f, k)
    BY <1>2
  <2> DEFINE g == [ n \in 0 .. k + 1 |-> IF n = k + 1 THEN Step(f[k], n) ELSE f[n] ]
  <2>2. \A n \in 0 .. k : g[n] = f[n]
    BY <2>0
  <2>3. ASSUME NEW n \in 0 .. k + 1
        PROVE  g[n] = IF n = 0 THEN << >> ELSE Step(g[n - 1], n)
    <3>1. CASE n = k + 1
      <4>1. g[n] = Step(f[k], n) /\ n # 0 /\ g[n - 1] = f[k]
        BY <3>1, <2>0, <2>2
      <4> HIDE DEF g
      <4> QED
        BY <4>1, <3>1
    <3>2. CASE n \in 0 .. k
      <4>1. g[n] = f[n] /\ (n # 0 => n - 1 \in 0 .. k /\ g[n - 1] = f[n - 1])
        BY <3>2, <2>2, <2>0
      <4>2. f[n] = IF n = 0 THEN << >> ELSE Step(f[n - 1], n)
        <5> HIDE DEF Step
        <5> QED
          BY <2>1, <3>2
      <4> HIDE DEF g, Step
      <4> QED
        BY <4>1, <4>2
    <3>3. QED
      BY <3>1, <3>2, <2>0
  <2>4. g = [ n \in 0 .. k + 1 |-> g[n] ]
    OBVIOUS
  <2> HIDE DEF g
  <2>5. Is(g, k + 1)
    BY <2>3, <2>4
  <2> HIDE DEF Is
  <2>6. \E h : Is(h, k + 1)
    BY <2>5
  <2>7. QED
    BY <2>6, <2>0
<1> HIDE DEF S
<1>3. N \in S
  <2> HIDE DEF N
  <2>1. 0 .. N \subseteq S
    BY <1>0, <1>1, <1>2, UpTo
  <2>2. QED
    BY <1>0, <2>1
<1>4. \E f : Is(f, N)
  BY <1>3 DEF S
<1> DEFINE of == CHOOSE f : Is(f, N)
<1>5. KeptOf(discarded, stm) = of
  BY DEF KeptOf
<1>6. Is(of, N)
  <2> HIDE DEF Is
  <2> QED
    BY <1>4
<1>7. ASSUME NEW f, Is(f, N)
      PROVE  f[0] = << >> /\ \A n \in 1 .. N : f[n] = Step(f[n - 1], n)
  <2> HIDE DEF N, Step
  <2> QED
    BY <1>0, <1>7
<1>8. QED
  <2> HIDE DEF Is, of
  <2> QED
    BY <1>5, <1>6, <1>7

LEMMA KeptOfNone ==
  ASSUME NEW discarded PROVE Kept(discarded, << >>) = << >>
<1>1. Len(<< >>) = 0 /\ Len(<< >>) \in Nat
  OBVIOUS
<1>2. KeptOf(discarded, << >>)[0] = << >>
  BY <1>1, KeptSteps
<1>3. QED
  BY <1>1, <1>2 DEF Kept

(* Appending to a concatenation appends to its second part.                *)
AppendPasses(u, v, e) == Append(u \o v, e) = u \o Append(v, e)

LEMMA AppendPassesConcat ==
  ASSUME NEW T, NEW u \in Seq(T), NEW v \in Seq(T), NEW e \in T
  PROVE  AppendPasses(u, v, e)
BY DEF AppendPasses

(* The first token is kept in front of the others, or it is not.           *)
LEMMA KeptOfCons ==
  ASSUME NEW discarded, NEW T, NEW t \in T, NEW rest \in Seq(T)
  PROVE  /\ Kept(discarded, rest) \in Seq(T)
         /\ Kept(discarded, <<t>> \o rest) =
              IF t.token \in discarded THEN Kept(discarded, rest)
              ELSE <<t>> \o Kept(discarded, rest)
<1> DEFINE whole == <<t>> \o rest
           N == Len(rest)
           inner == KeptOf(discarded, rest)
           outer == KeptOf(discarded, whole)
           front == IF t.token \in discarded THEN << >> ELSE <<t>>
<1>1. /\ N \in Nat /\ whole \in Seq(T) /\ Len(whole) = N + 1 /\ whole[1] = t
      /\ \A n \in 1 .. N : whole[n + 1] = rest[n] /\ rest[n] \in T
  OBVIOUS
<1>2. /\ inner[0] = << >>
      /\ \A n \in 1 .. N :
           inner[n] = IF rest[n].token \in discarded THEN inner[n - 1] ELSE Append(inner[n - 1], rest[n])
  BY <1>1, KeptSteps
<1>3. /\ outer[0] = << >>
      /\ \A n \in 1 .. N + 1 :
           outer[n] = IF whole[n].token \in discarded THEN outer[n - 1] ELSE Append(outer[n - 1], whole[n])
  <2> HIDE DEF whole
  <2>1. Len(whole) \in Nat
    BY <1>1
  <2>2. QED
    BY <1>1, <2>1, KeptSteps
<1> DEFINE S == { n \in 0 .. N : inner[n] \in Seq(T) /\ outer[n + 1] = front \o inner[n] }
<1>4. /\ front \in Seq(T)
      /\ t.token \in discarded => front = << >>
      /\ t.token \notin discarded => front = <<t>> /\ front = Append(<< >>, t)
  OBVIOUS
<1> HIDE DEF whole, inner, outer, front
<1>5. 0 \in S
  <2>1. 1 \in 1 .. N + 1 /\ 0 \in 0 .. N /\ 1 - 1 = 0 /\ 0 + 1 = 1
    BY <1>1
  <2>2. outer[1] = front
    <3>1. outer[1] = IF t.token \in discarded THEN << >> ELSE Append(<< >>, t)
      BY <1>1, <1>3, <2>1
    <3>2. QED
      BY <1>4, <3>1
  <2>3. front \o << >> = front
    BY <1>4
  <2>4. << >> \in Seq(T)
    OBVIOUS
  <2>5. inner[0] \in Seq(T) /\ outer[0 + 1] = front \o inner[0]
    BY <1>2, <2>1, <2>2, <2>3, <2>4
  <2>6. QED
    BY <2>1, <2>5
<1>6. ASSUME NEW n \in 0 .. N - 1, n \in S PROVE n + 1 \in S
  <2>1. /\ n + 1 \in 1 .. N /\ n + 1 \in 0 .. N /\ (n + 1) - 1 = n
        /\ (n + 1) + 1 \in 1 .. N + 1 /\ ((n + 1) + 1) - 1 = n + 1
    BY <1>1
  <2>2. inner[n] \in Seq(T) /\ outer[n + 1] = front \o inner[n]
    BY <1>6
  <2>3. whole[(n + 1) + 1] = rest[n + 1] /\ rest[n + 1] \in T
    BY <1>1, <2>1
  <2>4. inner[n + 1] = IF rest[n + 1].token \in discarded THEN inner[n] ELSE Append(inner[n], rest[n + 1])
    BY <1>2, <2>1
  <2>5. outer[(n + 1) + 1] = IF rest[n + 1].token \in discarded THEN outer[n + 1]
                             ELSE Append(outer[n + 1], rest[n + 1])
    BY <1>3, <2>1, <2>3
  <2>6. Append(front \o inner[n], rest[n + 1]) = front \o Append(inner[n], rest[n + 1])
    <3>1. front \in Seq(T) /\ inner[n] \in Seq(T) /\ rest[n + 1] \in T
      BY <1>4, <2>2, <2>3
    <3> HIDE DEF S
    <3>2. AppendPasses(front, inner[n], rest[n + 1])
      BY <3>1, AppendPassesConcat
    <3>3. QED
      BY <3>2 DEF AppendPasses
  <2>7. Append(inner[n], rest[n + 1]) \in Seq(T)
    BY <2>2, <2>3
  <2>8. inner[n + 1] \in Seq(T) /\ outer[(n + 1) + 1] = front \o inner[n + 1]
    BY <2>2, <2>4, <2>5, <2>6, <2>7
  <2>9. QED
    BY <2>1, <2>8
<1>7. N \in S
  <2>1. N \in Nat
    BY <1>1
  <2> HIDE DEF S, N
  <2>2. 0 .. N \subseteq S
    BY <1>5, <1>6, <2>1, UpTo
  <2>3. QED
    BY <2>1, <2>2
<1>8. Kept(discarded, rest) = inner[N] /\ Kept(discarded, whole) = outer[N + 1]
  BY <1>1 DEF Kept, inner, outer
<1>9. << >> \o inner[N] = inner[N]
  BY <1>7
<1>10. QED
  BY <1>4, <1>7, <1>8, <1>9 DEF whole

LEMMA KeptOfSequence ==
  ASSUME NEW discarded, NEW T, NEW stm \in Seq(T)
  PROVE  Kept(discarded, stm) \in Seq(T)
<1>1. CASE stm = << >>
  <2>1. << >> \in Seq(T)
    OBVIOUS
  <2>2. QED
    BY <1>1, <2>1, KeptOfNone
<1>2. CASE stm # << >>
  <2>1. stm[1] \in T
    BY <1>2
  <2>2. QED
    BY <2>1, KeptOfCons
<1>3. QED
  BY <1>1, <1>2

----------------------------------------------------------------------------
(* Where the chunks' scan is in the serial one: at or behind the begin b   *)
(* of a token of it, a token that is dropped if the scan is inside, and of *)
(* which it meets byte by byte what the serial scan meets.                 *)
Colour(s) == ObservedColour(lexer, ignored, s)

SeversAt(b, at) ==
  /\ MatchLengths(lexer, text, b) # {}
  /\ at < AfterTokenAt(lexer, text, b)
  /\ TokenAt(lexer, text, b).token \in ignored
  /\ \A k \in 1 .. Len(text) - at :
       Colour(StateAfter(lexer, text, b)[at - b + k]) = Colour(StateAfter(lexer, text, at)[k])

KeptUpTo(b, at, tokens) ==
  /\ SerialFrom(lexer, text)[b].consumed = Len(text)
  /\ tokens \o Kept(ignored, SerialFrom(lexer, text)[b].stream)
       = Kept(ignored, SerialFrom(lexer, text)[0].stream)
  /\ b < at => SeversAt(b, at)

ChunkCut ==
  scanning = "chunk" =>
    /\ position <= end
    /\ end = Len(text) \/ (end < Len(text) /\ text[end + 1] \in lexer.split_points_ignoring)

KeptInv ==
  /\ ignored \in SUBSET TokenIds
  /\ \E D \in CallerDfas : lexer = Simulator(D, ignored)
  /\ text \in Seq(Symbols)
  /\ scanning \in {"plan", "chunk"}
  /\ end \in 0 .. Len(text) /\ position \in 0 .. Len(text)
  /\ kept \in Seq(Lexemes(text))
  /\ ChunkCut
  /\ \E b \in 0 .. position : KeptUpTo(b, position, kept)

LEMMA InitKept == CallerInit => KeptInv
<1> SUFFICES ASSUME CallerInit PROVE KeptInv
  OBVIOUS
<1>1. PICK D \in CallerDfas : lexer = Simulator(D, ignored)
  BY DEF CallerInit
<1>2. text \in Seq(Symbols) /\ SerialFrom(lexer, text)[0].consumed = Len(text)
  BY KeptAssumption DEF CallerInit, Serial
<1>3. /\ ignored \in SUBSET TokenIds /\ scanning = "plan" /\ end = 0 /\ position = 0 /\ kept = << >>
  BY KeptAssumption DEF CallerInit
<1>4. Kept(ignored, SerialFrom(lexer, text)[0].stream) \in Seq(Lexemes(text))
  <2>1. IsDfa(lexer)
    BY <1>1, KeptAssumption, SimulatorIsOne DEF IsSimulator
  <2>2. SerialFrom(lexer, text)[0].stream \in Seq(Lexemes(text))
    BY <1>2, <2>1, SerialType
  <2>3. QED
    BY <2>2, KeptOfSequence
<1>5. KeptUpTo(0, position, kept)
  BY <1>2, <1>3, <1>4 DEF KeptUpTo
<1>6. QED
  BY <1>1, <1>2, <1>3, <1>5 DEF KeptInv, ChunkCut

(* The longest match of a chunk: the rest of the serial scan's token, or   *)
(* the rest of the chunk when that token is severed, and then dropped.     *)
LEMMA ChunkToken ==
  ASSUME KeptInv, scanning = "chunk", position < end, NEW b \in 0 .. position, KeptUpTo(b, position, kept)
  PROVE  LET chunk == SubSeq(text, 1, end)
             n == LongestMatch(lexer, chunk, position)
             token == lexer.accept[StateAfter(lexer, chunk, position)[n]]
             e == AfterTokenAt(lexer, text, b)
         IN /\ MatchLengths(lexer, chunk, position) # {}
            /\ MatchLengths(lexer, text, b) # {}
            /\ e <= end => /\ position + n = e
                           /\ token \in ignored <=> TokenAt(lexer, text, b).token \in ignored
                           /\ b = position => /\ token = TokenAt(lexer, text, b).token
                                            /\ n = LongestMatch(lexer, text, b)
            /\ end < e => /\ position + n = end
                          /\ token \in ignored
                          /\ TokenAt(lexer, text, b).token \in ignored
                          /\ \A k \in 1 .. Len(text) - end :
                               Colour(StateAfter(lexer, text, b)[end - b + k])
                                 = Colour(StateAfter(lexer, text, end)[k])
<1> DEFINE chunk == SubSeq(text, 1, end)
           n == LongestMatch(lexer, chunk, position)
           e == AfterTokenAt(lexer, text, b)
           whole == StateAfter(lexer, text, b)
           inner == StateAfter(lexer, text, position)
           matches == MatchLengths(lexer, text, position)
<1>1. PICK D \in CallerDfas : lexer = Simulator(D, ignored)
  BY DEF KeptInv
<1>2. IsDfa(lexer) /\ IsDfa(D)
  BY <1>1, KeptAssumption, SimulatorIsOne DEF IsSimulator
<1>3. /\ text \in Seq(Symbols) /\ Len(text) \in Nat
      /\ end \in 0 .. Len(text) /\ position \in 0 .. end /\ position \in 0 .. Len(text)
      /\ b \in 0 .. Len(text) /\ b < Len(text)
      /\ ignored \in SUBSET TokenIds
  BY DEF KeptInv
<1>4. MatchLengths(lexer, text, b) # {}
  <2>1. SUFFICES ASSUME MatchLengths(lexer, text, b) = {} PROVE FALSE
    OBVIOUS
  <2>2. SerialFrom(lexer, text)[b] = [stream |-> << >>, consumed |-> b]
    BY <1>3, <2>1, SerialSteps
  <2>3. SerialFrom(lexer, text)[b].consumed = b
    BY <2>2
  <2>4. QED
    BY <1>3, <2>3 DEF KeptUpTo
<1> DEFINE m == LongestMatch(lexer, text, b)
<1>5. /\ m \in MatchLengths(lexer, text, b) /\ m \in 1 .. Len(text) - b /\ e = b + m
      /\ e \in b + 1 .. Len(text)
      /\ \A k \in MatchLengths(lexer, text, b) : k <= m
  BY <1>3, <1>4, LongestMatchIsLongest DEF AfterTokenAt
<1>6. position < e
  BY <1>3, <1>5 DEF KeptUpTo, SeversAt
<1>7. ASSUME NEW k \in 1 .. Len(text) - position
      PROVE  Colour(whole[position - b + k]) = Colour(inner[k])
  <2>1. CASE b = position
    <3>1. position - b + k = k
      BY <1>3, <2>1
    <3>2. QED
      BY <2>1, <3>1
  <2>2. CASE b # position
    <3>1. b < position
      BY <1>3, <2>2
    <3>2. QED
      BY <3>1 DEF KeptUpTo, SeversAt
  <2>3. QED
    BY <2>1, <2>2
<1>8. ASSUME NEW s, NEW t, Colour(s) = Colour(t)
      PROVE  /\ (s # NoState /\ lexer.accept[s] # NoToken) <=> (t # NoState /\ lexer.accept[t] # NoToken)
             /\ s # NoState /\ lexer.accept[s] # NoToken =>
                  (lexer.accept[s] \in ignored <=> lexer.accept[t] \in ignored)
  BY <1>8 DEF Colour, ObservedColour, Accepting
<1>9. /\ MatchLengths(lexer, text, b) =
           { k \in 1 .. Len(text) - b : whole[k] # NoState /\ lexer.accept[whole[k]] # NoToken }
      /\ matches =
           { k \in 1 .. Len(text) - position : inner[k] # NoState /\ lexer.accept[inner[k]] # NoToken }
  BY DEF MatchLengths
<1> HIDE DEF chunk, n, e, whole, inner, matches, m
<1>10. ASSUME NEW k \in 1 .. Len(text) - position
       PROVE  /\ position - b + k \in 1 .. Len(text) - b
              /\ k \in matches <=> position - b + k \in MatchLengths(lexer, text, b)
              /\ k \in matches => (lexer.accept[inner[k]] \in ignored
                                     <=> lexer.accept[whole[position - b + k]] \in ignored)
  <2>1. position - b + k \in 1 .. Len(text) - b
    BY <1>3
  <2>2. Colour(whole[position - b + k]) = Colour(inner[k])
    BY <1>7
  <2>3. QED
    BY <1>8, <1>9, <2>1, <2>2
<1>11. MatchLengths(lexer, chunk, position) = { k \in matches : position + k <= end }
  BY <1>3, MatchLengthsInPrefix DEF chunk, matches
<1>12. ASSUME NEW k \in MatchLengths(lexer, chunk, position),
              \A i \in MatchLengths(lexer, chunk, position) : i <= k
       PROVE  /\ n = k
              /\ lexer.accept[StateAfter(lexer, chunk, position)[n]] = lexer.accept[inner[k]]
  <2>1. chunk \in Seq(Symbols) /\ Len(chunk) = end
    BY <1>3 DEF chunk
  <2>2. /\ n \in MatchLengths(lexer, chunk, position)
        /\ \A i \in MatchLengths(lexer, chunk, position) : i <= n
    BY <1>3, <1>12, <2>1, LongestMatchIsLongest DEF n
  <2>3. MatchLengths(lexer, chunk, position) \subseteq 1 .. end - position
    BY <2>1 DEF MatchLengths
  <2>4. n = k
    BY <1>3, <1>12, <2>2, <2>3
  <2>5. k \in 0 .. end - position
    BY <1>3, <2>3
  <2>6. StateAfter(lexer, chunk, position)[k] = inner[k]
    BY <1>3, <2>5, StateAfterInPrefix DEF chunk, inner
  <2>7. QED
    BY <2>4, <2>6
<1>13. TokenAt(lexer, text, b).token = lexer.accept[whole[m]]
  BY DEF TokenAt, whole, m
<1> DEFINE token == lexer.accept[StateAfter(lexer, chunk, position)[n]]
<1>14. ASSUME e <= end
       PROVE  /\ position + n = e
              /\ token \in ignored <=> TokenAt(lexer, text, b).token \in ignored
              /\ b = position => token = TokenAt(lexer, text, b).token /\ n = m
              /\ MatchLengths(lexer, chunk, position) # {}
  <2> DEFINE k == e - position
  <2>1. k \in 1 .. Len(text) - position /\ position - b + k = m /\ position + k = e
    BY <1>3, <1>5, <1>6
  <2>2. k \in matches /\ k \in MatchLengths(lexer, chunk, position)
    BY <1>5, <1>10, <1>11, <1>14, <2>1
  <2>3. ASSUME NEW i \in MatchLengths(lexer, chunk, position) PROVE i <= k
    <3>1. i \in matches /\ i \in 1 .. Len(text) - position
      BY <1>9, <1>11
    <3>2. position - b + i <= m
      BY <1>5, <1>10, <3>1
    <3>3. QED
      BY <1>3, <2>1, <3>1, <3>2
  <2>4. n = k /\ lexer.accept[StateAfter(lexer, chunk, position)[n]] = lexer.accept[inner[k]]
    BY <1>12, <2>2, <2>3
  <2>5. lexer.accept[inner[k]] \in ignored <=> lexer.accept[whole[m]] \in ignored
    BY <1>10, <2>1, <2>2
  <2>6. b = position => k = m /\ inner = whole
    BY <1>3, <2>1 DEF inner, whole
  <2>7. QED
    BY <1>3, <1>13, <2>1, <2>2, <2>4, <2>5, <2>6
<1>15. ASSUME end < e
       PROVE  /\ position + n = end
              /\ token \in ignored
              /\ TokenAt(lexer, text, b).token \in ignored
              /\ \A i \in 1 .. Len(text) - end :
                   Colour(whole[end - b + i]) = Colour(StateAfter(lexer, text, end)[i])
              /\ MatchLengths(lexer, chunk, position) # {}
  <2> DEFINE k == end - position
  <2>1. /\ k \in 1 .. Len(text) - position /\ position - b + k = end - b /\ position + k = end
        /\ end \in b + 1 .. e - 1 /\ end < Len(text)
    BY <1>3, <1>5, <1>6, <1>15
  <2>2. text[end + 1] \in lexer.split_points_ignoring
    BY <1>3, <2>1 DEF KeptInv, ChunkCut
  <2>3. /\ TokenAt(lexer, text, b).token \in ignored
        /\ whole[end - b] # NoState /\ lexer.accept[whole[end - b]] \in ignored
        /\ \A i \in 1 .. Len(text) - end :
             Colour(whole[end - b + i]) = Colour(StateAfter(lexer, text, end)[i])
    <3>1. end \in b + 1 .. AfterTokenAt(lexer, text, b) - 1
      BY <2>1 DEF e
    <3>2. /\ TokenAt(lexer, text, b).token \in ignored
          /\ StateAfter(lexer, text, b)[end - b] # NoState
          /\ lexer.accept[StateAfter(lexer, text, b)[end - b]] \in ignored
          /\ \A i \in 1 .. Len(text) - end :
               ObservedColour(lexer, ignored, StateAfter(lexer, text, b)[end - b + i]) =
                 ObservedColour(lexer, ignored, StateAfter(lexer, text, end)[i])
      BY <1>1, <1>2, <1>3, <1>4, <2>2, <3>1, SeveredTokenIsDropped
    <3>3. QED
      BY <3>2 DEF Colour, whole
  <2>4. end - b \in MatchLengths(lexer, text, b)
    <3>1. end - b \in 1 .. Len(text) - b
      BY <1>10, <2>1
    <3>2. lexer.accept[whole[end - b]] # NoToken
      BY <1>3, <2>3, DfaAssumption
    <3>3. QED
      BY <1>9, <2>3, <3>1, <3>2
  <2>5. k \in matches /\ k \in MatchLengths(lexer, chunk, position)
    BY <1>3, <1>10, <1>11, <2>1, <2>4
  <2>6. ASSUME NEW i \in MatchLengths(lexer, chunk, position) PROVE i <= k
    <3>1. i \in 1 .. Len(text) - position /\ position + i <= end
      BY <1>9, <1>11
    <3>2. QED
      BY <1>3, <3>1
  <2>7. n = k /\ lexer.accept[StateAfter(lexer, chunk, position)[n]] = lexer.accept[inner[k]]
    BY <1>12, <2>5, <2>6
  <2>8. lexer.accept[inner[k]] \in ignored
    BY <1>10, <2>1, <2>3, <2>5
  <2>9. QED
    BY <2>1, <2>3, <2>5, <2>7, <2>8
<1>16. e \in Int /\ end \in Int
  BY <1>3, <1>5
<1>17. MatchLengths(lexer, chunk, position) # {}
  BY <1>14, <1>15, <1>16
<1>18. QED
  BY <1>4, <1>14, <1>15, <1>17 DEF chunk, n, e, whole, m

LEMMA NextKept == KeptInv /\ [CallerNext]_callerVars => KeptInv'
<1> SUFFICES ASSUME KeptInv, [CallerNext]_callerVars PROVE KeptInv'
  OBVIOUS
<1>1. PICK D \in CallerDfas : lexer = Simulator(D, ignored)
  BY DEF KeptInv
<1>2. IsDfa(lexer)
  BY <1>1, KeptAssumption, SimulatorIsOne DEF IsSimulator
<1>3. PICK b \in 0 .. position : KeptUpTo(b, position, kept)
  BY DEF KeptInv
<1>4. /\ ignored \in SUBSET TokenIds /\ text \in Seq(Symbols) /\ Len(text) \in Nat
      /\ scanning \in {"plan", "chunk"}
      /\ end \in 0 .. Len(text) /\ position \in 0 .. Len(text) /\ kept \in Seq(Lexemes(text))
      /\ ChunkCut
  BY DEF KeptInv
<1>0. ASSUME UNCHANGED <<lexer, ignored, text>>,
             NEW d \in 0 .. position', KeptUpTo(d, position', kept')
      PROVE  (\E c \in 0 .. position : KeptUpTo(c, position, kept))'
  <2>1. (KeptUpTo(d, position, kept))'
    BY <1>0 DEF KeptUpTo, SeversAt, Colour
  <2>2. QED
    BY <2>1
<1>5. ASSUME UNCHANGED <<lexer, ignored, text, position, kept>>
      PROVE  /\ (\E d \in 0 .. position : KeptUpTo(d, position, kept))'
             /\ (\E C \in CallerDfas : lexer = Simulator(C, ignored))'
             /\ (ignored \in SUBSET TokenIds)' /\ (text \in Seq(Symbols))'
             /\ (position \in 0 .. Len(text))' /\ (kept \in Seq(Lexemes(text)))'
  <2>1. \E d \in 0 .. position' : KeptUpTo(d, position', kept')
    BY <1>3, <1>5
  <2>2. QED
    BY <1>0, <1>1, <1>4, <1>5, <2>1
<1>6. CASE PlanChunk
  <2>1. /\ UNCHANGED <<lexer, ignored, text, position, kept>> /\ scanning' = "chunk"
        /\ position < Len(text)
        /\ end' \in Cuts \cup {Len(text)}
    BY <1>6 DEF PlanChunk, callerGiven
  <2>2. /\ end' \in 0 .. Len(text) /\ position <= end'
        /\ end' = Len(text) \/ (end' < Len(text) /\ text[end' + 1] \in lexer.split_points_ignoring)
    BY <1>4, <2>1 DEF Cuts
  <2>3. ChunkCut'
    BY <2>1, <2>2 DEF ChunkCut
  <2>4. QED
    BY <1>5, <2>1, <2>2, <2>3 DEF KeptInv
<1>7. CASE EmitKept
  <2> DEFINE chunk == SubSeq(text, 1, end)
             n == LongestMatch(lexer, chunk, position)
             token == lexer.accept[StateAfter(lexer, chunk, position)[n]]
             e == AfterTokenAt(lexer, text, b)
             t == TokenAt(lexer, text, b)
  <2>1. /\ scanning = "chunk" /\ MatchLengths(lexer, chunk, position) # {}
        /\ position' = position + n
        /\ kept' = IF token \in ignored THEN kept
                   ELSE Append(kept, [begin |-> position, length |-> n, token |-> token])
        /\ UNCHANGED <<lexer, ignored, text, scanning, end>>
    BY <1>7 DEF EmitKept, Chunk, callerGiven
  <2>2. position < end
    <3>1. Len(chunk) = end
      BY <1>4
    <3>2. 1 .. end - position # {}
      BY <2>1, <3>1 DEF MatchLengths
    <3>3. QED
      BY <1>4, <3>2
  <2>3. /\ MatchLengths(lexer, text, b) # {}
        /\ e <= end => /\ position + n = e
                       /\ token \in ignored <=> t.token \in ignored
                       /\ b = position => token = t.token /\ n = LongestMatch(lexer, text, b)
        /\ end < e => /\ position + n = end /\ token \in ignored /\ t.token \in ignored
                      /\ \A k \in 1 .. Len(text) - end :
                           Colour(StateAfter(lexer, text, b)[end - b + k])
                             = Colour(StateAfter(lexer, text, end)[k])
    BY <1>3, <2>1, <2>2, ChunkToken
  <2>4. b \in 0 .. Len(text)
    BY <1>4
  <2>5. /\ t \in Lexemes(text) /\ e \in b + 1 .. Len(text)
    BY <1>2, <1>4, <2>3, <2>4, TokenAtIsLexeme
  <2>6. t = [begin |-> b, length |-> LongestMatch(lexer, text, b), token |-> t.token]
    BY DEF TokenAt
  <2> HIDE DEF chunk, n, token, e, t
  <2>7. position < e
    BY <1>3, <1>4, <2>5 DEF KeptUpTo, SeversAt, e
  <2>8. ChunkCut' /\ (position \in 0 .. Len(text))'
    <3>1. position' <= end /\ position' \in 0 .. Len(text)
      BY <1>4, <2>1, <2>3, <2>5, <2>7
    <3>2. QED
      BY <1>4, <2>1, <3>1 DEF ChunkCut
  <2>10. CASE end < e
    <3>1. kept' = kept /\ position' = end
      BY <2>1, <2>3, <2>10
    <3>2. SeversAt(b, end)
      BY <2>3, <2>10 DEF SeversAt, e, t
    <3>3. KeptUpTo(b, position', kept')
      BY <1>3, <3>1, <3>2 DEF KeptUpTo
    <3>4. b \in 0 .. position'
      BY <1>4, <2>2, <3>1
    <3>5. (kept \in Seq(Lexemes(text)))'
      BY <1>4, <2>1, <3>1
    <3>6. QED
      BY <1>0, <1>1, <1>4, <2>1, <2>8, <3>3, <3>4, <3>5 DEF KeptInv
  <2>11. CASE ~ (end < e)
    <3>1. e <= end /\ position' = e
      BY <1>4, <2>1, <2>3, <2>5, <2>11
    <3> DEFINE tail == SerialFrom(lexer, text)
               rest == Kept(ignored, tail[e].stream)
    <3>2. /\ tail[b].stream = <<t>> \o tail[e].stream
          /\ tail[b].consumed = tail[e].consumed
      <4>1. tail[b] = [stream |-> <<t>> \o tail[e].stream, consumed |-> tail[e].consumed]
        <5>1. tail[b] = IF MatchLengths(lexer, text, b) = {}
                        THEN [stream |-> << >>, consumed |-> b]
                        ELSE [stream   |-> <<t>> \o tail[e].stream,
                              consumed |-> tail[e].consumed]
          BY <1>4, <2>4, SerialSteps DEF t, e
        <5>2. QED
          BY <2>3, <5>1
      <4>2. QED
        BY <4>1
    <3>3. tail[e].stream \in Seq(Lexemes(text))
      BY <1>2, <1>4, <2>5, SerialType
    <3>4. /\ rest \in Seq(Lexemes(text))
          /\ Kept(ignored, tail[b].stream) = IF t.token \in ignored THEN rest ELSE <<t>> \o rest
      <4>1. \A x \in Lexemes(text), v \in Seq(Lexemes(text)) :
              /\ Kept(ignored, v) \in Seq(Lexemes(text))
              /\ Kept(ignored, <<x>> \o v) =
                   IF x.token \in ignored THEN Kept(ignored, v)
                   ELSE <<x>> \o Kept(ignored, v)
        BY KeptOfCons
      <4>2. QED
        BY <2>5, <3>2, <3>3, <4>1
    <3> HIDE DEF rest
    <3>5. /\ kept' \in Seq(Lexemes(text))
          /\ kept' \o rest = kept \o Kept(ignored, tail[b].stream)
      <4>1. CASE t.token \in ignored
        <5>1. kept' = kept
          BY <2>1, <2>3, <3>1, <4>1
        <5>2. QED
          BY <1>4, <3>4, <4>1, <5>1
      <4>2. CASE t.token \notin ignored
        <5>1. b = position
          BY <1>3, <1>4, <4>2 DEF KeptUpTo, SeversAt, t
        <5>2. token = t.token /\ n = LongestMatch(lexer, text, b) /\ token \notin ignored
          BY <2>3, <3>1, <4>2, <5>1
        <5>3. kept' = Append(kept, t)
          BY <2>1, <2>6, <5>1, <5>2
        <5>4. kept \o (<<t>> \o rest) = Append(kept, t) \o rest
          <6>1. \A x \in Lexemes(text), u, v \in Seq(Lexemes(text)) :
                  u \o (<<x>> \o v) = Append(u, x) \o v
            BY AppendConcat
          <6>2. QED
            BY <1>4, <2>5, <3>4, <6>1
        <5>5. Append(kept, t) \in Seq(Lexemes(text))
          BY <1>4, <2>5
        <5>6. QED
          BY <3>4, <4>2, <5>3, <5>4, <5>5
      <4>3. QED
        BY <4>1, <4>2
    <3>6. KeptUpTo(e, position', kept')
      <4>1. /\ tail[e].consumed = Len(text)
            /\ kept' \o rest = Kept(ignored, tail[0].stream)
        BY <1>3, <3>2, <3>5 DEF KeptUpTo
      <4>2. ~ (e < position')
        BY <2>5, <3>1
      <4>3. QED
        BY <4>1, <4>2 DEF KeptUpTo, rest
    <3>7. e \in 0 .. position'
      BY <2>5, <3>1
    <3>8. \E d \in 0 .. position' : KeptUpTo(d, position', kept')
      BY <3>6, <3>7
    <3>9. QED
      BY <1>0, <1>1, <1>4, <2>1, <2>8, <3>5, <3>8 DEF KeptInv
  <2>12. QED
    BY <2>10, <2>11
<1>8. CASE EndChunk
  <2> DEFINE chunk == SubSeq(text, 1, end)
  <2>1. /\ scanning = "chunk" /\ MatchLengths(lexer, chunk, position) = {}
        /\ scanning' = IF position = end THEN "plan" ELSE "unmatched"
        /\ UNCHANGED <<lexer, ignored, text, position, kept, end>>
    BY <1>8 DEF EndChunk, Chunk, callerGiven
  <2>2. position = end
    <3>1. position <= end
      BY <1>4, <2>1 DEF ChunkCut
    <3>2. ~ (position < end)
      BY <1>3, <2>1, ChunkToken
    <3>3. QED
      BY <1>4, <3>1, <3>2
  <2>3. ChunkCut'
    BY <2>1, <2>2 DEF ChunkCut
  <2>4. QED
    BY <1>4, <1>5, <2>1, <2>2, <2>3 DEF KeptInv
<1>9. CASE UNCHANGED callerVars
  <2>1. UNCHANGED <<lexer, ignored, text, scanning, end, position, kept>>
    BY <1>9 DEF callerVars, callerGiven
  <2>2. ChunkCut'
    BY <1>4, <2>1 DEF ChunkCut
  <2>3. QED
    BY <1>4, <1>5, <2>1, <2>2 DEF KeptInv
<1>10. QED
  BY <1>6, <1>7, <1>8, <1>9 DEF CallerNext

(* A caller that discards tokens may cut its chunks at any byte that       *)
(* is_split_point_ignoring() certifies for it: whatever the automaton, the *)
(* kinds discarded and the input, as long as the input can be tokenized to *)
(* its end, it keeps the tokens that the serial scan keeps, each in its    *)
(* place, and consumes every chunk whole.                                  *)
THEOREM KeptStream == CallerSpec => []KeptStreamIsSerial
<1>1. KeptInv => KeptStreamIsSerial
  <2> SUFFICES ASSUME KeptInv PROVE KeptStreamIsSerial
    OBVIOUS
  <2> DEFINE serial == Kept(ignored, SerialFrom(lexer, text)[0].stream)
             tail == SerialFrom(lexer, text)
  <2>1. PICK D \in CallerDfas : lexer = Simulator(D, ignored)
    BY DEF KeptInv
  <2>2. IsDfa(lexer)
    BY <2>1, KeptAssumption, SimulatorIsOne DEF IsSimulator
  <2>3. PICK b \in 0 .. position : KeptUpTo(b, position, kept)
    BY DEF KeptInv
  <2>4. /\ text \in Seq(Symbols) /\ Len(text) \in Nat /\ position \in 0 .. Len(text)
        /\ kept \in Seq(Lexemes(text)) /\ scanning # "unmatched"
    BY DEF KeptInv
  <2>5. b \in 0 .. Len(text)
    BY <2>4
  <2>6. Kept(ignored, tail[b].stream) \in Seq(Lexemes(text))
    <3>1. tail[b].stream \in Seq(Lexemes(text))
      BY <2>2, <2>4, <2>5, SerialType
    <3>2. QED
      BY <3>1, KeptOfSequence
  <2>7. kept \o Kept(ignored, tail[b].stream) = serial
    BY <2>3 DEF KeptUpTo
  <2> HIDE DEF serial
  <2>8. kept = SubSeq(serial, 1, Len(kept))
    <3>1. \A u, v \in Seq(Lexemes(text)) : u = SubSeq(u \o v, 1, Len(u))
      OBVIOUS
    <3>2. QED
      BY <2>4, <2>6, <2>7, <3>1
  <2>9. ASSUME position = Len(text) PROVE kept = serial
    <3>1. b = Len(text)
      <4>1. SUFFICES ASSUME b < position PROVE FALSE
        BY <2>4, <2>9
      <4>2. position < AfterTokenAt(lexer, text, b) /\ MatchLengths(lexer, text, b) # {}
        BY <2>3, <4>1 DEF KeptUpTo, SeversAt
      <4>3. AfterTokenAt(lexer, text, b) \in b + 1 .. Len(text)
        BY <2>2, <2>4, <2>5, <4>2, TokenAtIsLexeme
      <4>4. QED
        BY <2>9, <4>2, <4>3
    <3>2. MatchLengths(lexer, text, b) = {}
      BY <2>4, <3>1 DEF MatchLengths
    <3>3. tail[b] = [stream |-> << >>, consumed |-> b]
      BY <2>4, <2>5, <3>2, SerialSteps
    <3>4. tail[b].stream = << >>
      BY <3>3
    <3>5. kept \o << >> = kept
      BY <2>4
    <3>6. QED
      BY <2>7, <3>4, <3>5, KeptOfNone
  <2>10. Kept(ignored, Serial(lexer, text).stream) = serial
    BY DEF serial, Serial
  <2>11. QED
    BY <2>4, <2>8, <2>9, <2>10 DEF KeptStreamIsSerial
<1>2. QED
  BY <1>1, InitKept, NextKept, PTL DEF CallerSpec
=============================================================================
