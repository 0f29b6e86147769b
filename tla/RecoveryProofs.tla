--------------------------- MODULE RecoveryProofs ---------------------------
(***************************************************************************)
(* Recovery, decided and at work.                                          *)
(*                                                                         *)
(* The boundary searches of every token set: a witness is an input on      *)
(* which the event happens and none is shorter, and a search that is       *)
(* exhausted proves that the event happens on no input of any length.  A   *)
(* key stands for a marking of the bytes read, the offsets at which a      *)
(* token is guessed to begin; the positions of a search are those of the   *)
(* markings that no later accept refutes, and of a whole input only that   *)
(* of the serial scan is left.                                             *)
(*                                                                         *)
(* The decisions about a damaged tail: a scenario stands for the texts     *)
(* whose scan leaves the tail in its state, so that what is found over the *)
(* scenarios is what the texts allow, of any length; and no decision says  *)
(* what another denies.                                                    *)
(*                                                                         *)
(* The tokenizer of every mode lexer, on every input: the stack is the     *)
(* nesting read, a recovery resumes where a token begins, and as long as   *)
(* the mode stands it behaves as the tokenizer of one token set.           *)
(***************************************************************************)
EXTENDS ModeTokenizer, OfflineDecisions, DfaTheorems

----------------------------------------------------------------------------
(* The mode tokenizer.                                                     *)

(* The tables are a compiled lexer's, whose actions stay in its modes.     *)
IsCompiled(D) == IsSimulator(D) /\ D.split_points = SplitPoints(D, {})

LexerCompiled ==
  /\ lexer.by \in {"grammar", "caller"}
  /\ lexer.by = "caller" => lexer.actions = << >>
  /\ 0 \in DOMAIN lexer.dfa /\ DOMAIN lexer.dfa \subseteq Nat
  /\ \A m \in DOMAIN lexer.dfa : IsCompiled(lexer.dfa[m])
  /\ DOMAIN lexer.actions \subseteq Nat
  /\ \A i \in DOMAIN lexer.actions : EntersItsModes(lexer, lexer.actions[i].action)

StackInModes ==
  stack \in [current : DOMAIN lexer.dfa, saved : Seq(DOMAIN lexer.dfa)]

(* What a recovery answered is evidence in the input that stands.          *)
IsCertified(D, at) == input[at + 1] \in D.split_points \/ LengthsAt(D, input, at) # {}

IsEvidence(D, found) ==
  \E at \in 0 .. Len(input) - 1 :
    IsCertified(D, at) /\ found = CertificateAt(D, input, at)

Evidence ==
  certified # Nothing =>
    /\ certified.mode \in DOMAIN lexer.dfa
    /\ IsEvidence(lexer.dfa[certified.mode], certified.found)

(* How far the scan from the front has come.                               *)
Nested ==
  lexer.by = "grammar" /\ straight =>
    \E n \in 0 .. Len(input) :
      n <= offset /\ [offset |-> offset, stack |-> stack] = ScanFromFront(lexer, input)[n]

Held == lexer.by = "caller" => stack = [current |-> chosen, saved |-> << >>]

TokenizerInv ==
  /\ LexerCompiled
  /\ input \in Seq(Symbols)
  /\ offset \in 0 .. Len(input)
  /\ StackInModes
  /\ Evidence
  /\ Nested
  /\ Held

----------------------------------------------------------------------------
(* What Unpack makes of any word.                                          *)
LEMMA UnpackKinds ==
  ASSUME NEW packed \in Nat
  PROVE  Unpack(packed).kind \in {"stay", "go_to", "push", "pop"}
<1>1. (packed % 4) + 1 \in 1 .. 4
  OBVIOUS
<1>2. \A i \in 1 .. 4 : KindOf[i] \in {"stay", "go_to", "push", "pop"}
  BY DEF KindOf
<1>3. QED
  BY <1>1, <1>2 DEF Unpack, Action

(* The action of a token is one of the lexer's, or none.                   *)
LEMMA ActionStays ==
  ASSUME LexerCompiled, NEW w, NEW mode, NEW at
  PROVE  /\ ActionAt(lexer, w, mode, at).kind \in {"stay", "go_to", "push", "pop"}
         /\ TargetsAMode(ActionAt(lexer, w, mode, at)) => ActionAt(lexer, w, mode, at).target \in DOMAIN lexer.dfa
         /\ lexer.by = "caller" => ActionAt(lexer, w, mode, at) = Stay
<1> DEFINE token == TokenRead(lexer.dfa[mode], w, at)
           found == { i \in DOMAIN lexer.actions :
                        lexer.actions[i].mode = mode /\ lexer.actions[i].token = token }
           first == CHOOSE i \in found : \A j \in found : i <= j
<1>1. ActionAt(lexer, w, mode, at) = Stay
        \/ (found # {} /\ ActionAt(lexer, w, mode, at) = Unpack(lexer.actions[first].action))
  BY DEF ActionAt, ActionOf
<1>2. CASE ActionAt(lexer, w, mode, at) = Stay
  BY <1>2 DEF Stay, Action, TargetsAMode
<1>3. CASE found # {} /\ ActionAt(lexer, w, mode, at) = Unpack(lexer.actions[first].action)
  <2>1. found \in SUBSET Nat
    BY DEF LexerCompiled
  <2>2. first \in found
    <3> HIDE DEF found
    <3> QED
      BY <1>3, <2>1, LeastNatural
  <2>3. first \in DOMAIN lexer.actions
    BY <2>2
  <2> HIDE DEF first
  <2>4. EntersItsModes(lexer, lexer.actions[first].action)
    BY <2>3 DEF LexerCompiled
  <2>5. lexer.by # "caller"
    <3>1. lexer.by = "caller" => lexer.actions = << >>
      BY DEF LexerCompiled
    <3>2. DOMAIN << >> = {}
      OBVIOUS
    <3>3. QED
      BY <2>3, <3>1, <3>2
  <2>6. QED
    BY <1>3, <2>4, <2>5, UnpackKinds DEF EntersItsModes
<1>4. QED
  BY <1>1, <1>2, <1>3

(* An action that is legal leaves a stack of the lexer's modes.            *)
LEMMA ApplyStays ==
  ASSUME NEW M, NEW s \in [current : M, saved : Seq(M)],
         NEW act, act.kind \in {"stay", "go_to", "push", "pop"},
         TargetsAMode(act) => act.target \in M, Legal(s, act)
  PROVE  Apply(s, act) \in [current : M, saved : Seq(M)]
<1>1. CASE act.kind = "stay"
  BY <1>1 DEF Apply
<1>2. CASE act.kind = "go_to"
  BY <1>2 DEF Apply, TargetsAMode
<1>3. CASE act.kind = "push"
  <2>1. act.target \in M /\ Append(s.saved, s.current) \in Seq(M)
    BY <1>3 DEF TargetsAMode
  <2>2. Apply(s, act) = [current |-> act.target, saved |-> Append(s.saved, s.current)]
    BY <1>3 DEF Apply
  <2>3. QED
    BY <2>1, <2>2
<1>4. CASE act.kind = "pop"
  <2>1. s.saved # << >> /\ s.saved \in Seq(M)
    BY <1>4 DEF Legal
  <2>2. /\ Top(s) \in M
        /\ SubSeq(s.saved, 1, Len(s.saved) - 1) \in Seq(M)
    <3>1. Len(s.saved) \in 1 .. Len(s.saved)
      BY <2>1
    <3>2. QED
      BY <2>1, <3>1 DEF Top
  <2>3. Apply(s, act) = [current |-> Top(s), saved |-> SubSeq(s.saved, 1, Len(s.saved) - 1)]
    BY <1>4 DEF Apply
  <2>4. QED
    BY <2>2, <2>3
<1>5. QED
  BY <1>1, <1>2, <1>3, <1>4

----------------------------------------------------------------------------
(* The scan from the front as a recursion.                                 *)
AtFront == [offset |-> 0, stack |-> FreshStack]

LEMMA FrontSteps ==
  ASSUME NEW given, NEW w \in Seq(Symbols)
  PROVE  /\ ScanFromFront(given, w)[0] = AtFront
         /\ \A n \in 1 .. Len(w) :
              ScanFromFront(given, w)[n] = ReadOn(given, w, ScanFromFront(given, w)[n - 1])
<1> DEFINE N == Len(w)
           NextOf(s) == ReadOn(given, w, s)
           Is(f, k) == f = [ n \in 0 .. k |-> IF n = 0 THEN AtFront ELSE NextOf(f[n - 1]) ]
           S == { k \in 0 .. N : \E f : Is(f, k) }
<1>0. N \in Nat
  OBVIOUS
<1>1. 0 \in S
  <2>1. Is([n \in 0 .. 0 |-> AtFront], 0)
    OBVIOUS
  <2> HIDE DEF Is
  <2>2. QED
    BY <1>0, <2>1
<1>2. ASSUME NEW k \in 0 .. N - 1, k \in S PROVE k + 1 \in S
  <2>0. k + 1 \in 0 .. N /\ k \in Nat
    BY <1>0
  <2>1. PICK f : Is(f, k)
    BY <1>2
  <2> DEFINE g == [ n \in 0 .. k + 1 |-> IF n = k + 1 THEN NextOf(f[k]) ELSE f[n] ]
  <2>2. \A n \in 0 .. k : g[n] = f[n]
    BY <2>0
  <2>3. ASSUME NEW n \in 0 .. k + 1
        PROVE  g[n] = IF n = 0 THEN AtFront ELSE NextOf(g[n - 1])
    <3>1. CASE n = k + 1
      <4>1. g[n] = NextOf(f[k]) /\ n # 0 /\ g[n - 1] = f[k]
        BY <3>1, <2>0, <2>2
      <4> HIDE DEF g
      <4> QED
        BY <4>1, <3>1
    <3>2. CASE n \in 0 .. k
      <4>1. g[n] = f[n] /\ (n # 0 => n - 1 \in 0 .. k /\ g[n - 1] = f[n - 1])
        BY <3>2, <2>2, <2>0
      <4>2. f[n] = IF n = 0 THEN AtFront ELSE NextOf(f[n - 1])
        BY <2>1, <3>2
      <4> HIDE DEF g
      <4> QED
        BY <4>1, <4>2
    <3>3. QED
      BY <3>1, <3>2, <2>0
  <2>4. g = [ n \in 0 .. k + 1 |-> g[n] ]
    OBVIOUS
  <2> HIDE DEF g
  <2>5. Is(g, k + 1)
    BY <2>3, <2>4
  <2> HIDE DEF Is
  <2>6. \E h : Is(h, k + 1)
    BY <2>5
  <2>7. QED
    BY <2>6, <2>0
<1> HIDE DEF S
<1>3. N \in S
  <2> HIDE DEF N
  <2>1. 0 .. N \subseteq S
    BY <1>0, <1>1, <1>2, UpTo
  <2>2. QED
    BY <1>0, <2>1
<1>4. \E f : Is(f, N)
  BY <1>3 DEF S
<1>5. ScanFromFront(given, w) = CHOOSE f : Is(f, N)
  BY DEF ScanFromFront, AtFront
<1>6. Is(ScanFromFront(given, w), N)
  <2> HIDE DEF Is
  <2> QED
    BY <1>4, <1>5
<1>7. ASSUME NEW f, Is(f, N)
      PROVE  f[0] = AtFront /\ \A n \in 1 .. N : f[n] = NextOf(f[n - 1])
  <2> HIDE DEF N
  <2> QED
    BY <1>0, <1>7
<1>8. QED
  <2> HIDE DEF Is
  <2> QED
    BY <1>6, <1>7

----------------------------------------------------------------------------
LEMMA InitTokenizer == Init => TokenizerInv
<1> SUFFICES ASSUME Init PROVE TokenizerInv
  OBVIOUS
<1>1. PICK given \in Lexers :
        lexer = [given EXCEPT !.dfa = [ m \in DOMAIN given.dfa |-> Simulator(given.dfa[m], {}) ]]
  BY DEF Init
<1>2. /\ DOMAIN given = {"by", "modes", "dfa", "actions"}
      /\ IsModeLexer(given)
      /\ given.by \in {"grammar", "caller"}
      /\ given.by = "caller" => given.actions = << >>
      /\ DOMAIN given.actions \subseteq Nat
      /\ \A i \in DOMAIN given.actions : EntersItsModes(given, given.actions[i].action)
  BY ModeTokenizerAssumption
<1>3. PICK n \in Nat : n # 0 /\ DOMAIN given.dfa = 0 .. n - 1
  BY <1>2 DEF IsModeLexer
<1> DEFINE tables == [ m \in DOMAIN given.dfa |-> Simulator(given.dfa[m], {}) ]
<1>4. /\ lexer.dfa = tables /\ DOMAIN lexer.dfa = 0 .. n - 1
      /\ lexer.by = given.by /\ lexer.actions = given.actions
  <2>1. lexer = [given EXCEPT !.dfa = tables]
    BY <1>1
  <2>2. DOMAIN tables = 0 .. n - 1
    BY <1>3
  <2> HIDE DEF tables
  <2>3. QED
    BY <1>2, <2>1, <2>2
<1>5. \A m \in DOMAIN lexer.dfa : IsCompiled(lexer.dfa[m])
  <2> SUFFICES ASSUME NEW m \in DOMAIN lexer.dfa PROVE IsCompiled(lexer.dfa[m])
    OBVIOUS
  <2>1. IsDfa(given.dfa[m]) /\ lexer.dfa[m] = Simulator(given.dfa[m], {})
    BY <1>2, <1>3, <1>4 DEF IsModeLexer
  <2>2. QED
    BY <2>1, SimulatorIsOne, SimulatorTables DEF IsCompiled
<1> HIDE DEF tables
<1>6. LexerCompiled
  <2>1. 0 \in DOMAIN lexer.dfa /\ DOMAIN lexer.dfa \subseteq Nat
    BY <1>3, <1>4
  <2>2. \A i \in DOMAIN lexer.actions : EntersItsModes(lexer, lexer.actions[i].action)
    BY <1>2, <1>3, <1>4 DEF EntersItsModes
  <2>3. QED
    BY <1>2, <1>4, <1>5, <2>1, <2>2 DEF LexerCompiled
<1>7. input \in Seq(Symbols) /\ offset \in 0 .. Len(input) /\ offset = 0
  BY ModeTokenizerAssumption DEF Init
<1>8. StackInModes
  BY <1>3, <1>4 DEF Init, StackInModes, FreshStack
<1>9. Evidence
  BY DEF Init, Evidence
<1>10. Nested
  BY <1>7, FrontSteps DEF Init, Nested, AtFront
<1>11. Held
  BY DEF Init, Held, FreshStack
<1>12. QED
  BY <1>6, <1>7, <1>8, <1>9, <1>10, <1>11 DEF TokenizerInv

----------------------------------------------------------------------------
(* A token read: the scan from the front goes on as the tokenizer does.    *)
LEMMA ReadInv == TokenizerInv /\ NextIsToken => TokenizerInv'
<1> SUFFICES ASSUME TokenizerInv, NextIsToken PROVE TokenizerInv'
  OBVIOUS
<1> DEFINE n == LongestMatch(current, input, offset)
<1>1. /\ LexerCompiled /\ input \in Seq(Symbols) /\ offset \in 0 .. Len(input)
      /\ StackInModes /\ Nested /\ Held
  BY DEF TokenizerInv
<1>2. /\ MatchLengths(current, input, offset) # {} /\ Legal(stack, action)
      /\ offset' = offset + n /\ stack' = Apply(stack, action)
      /\ certified' = Nothing
      /\ UNCHANGED <<lexer, input, straight, chosen>>
  BY DEF NextIsToken, Matched, history
<1>3. offset + n \in offset + 1 .. Len(input)
  BY <1>1, <1>2, LongestMatchIsLongest
<1>4. /\ action.kind \in {"stay", "go_to", "push", "pop"}
      /\ TargetsAMode(action) => action.target \in DOMAIN lexer.dfa
      /\ lexer.by = "caller" => action = Stay
  BY <1>1, ActionStays DEF action
<1>5. LexerCompiled' /\ Evidence'
  BY <1>1, <1>2 DEF LexerCompiled, Evidence
<1>6. StackInModes'
  BY <1>1, <1>2, <1>4, ApplyStays DEF StackInModes
<1>7. Held'
  BY <1>1, <1>2, <1>4 DEF Held, Apply, Stay, Action
<1>8. Nested'
  <2> SUFFICES ASSUME lexer.by = "grammar", straight
               PROVE  \E k \in 0 .. Len(input) :
                        /\ k <= offset'
                        /\ [offset |-> offset', stack |-> stack'] = ScanFromFront(lexer, input)[k]
    BY <1>2 DEF Nested
  <2>1. PICK k \in 0 .. Len(input) :
          k <= offset /\ [offset |-> offset, stack |-> stack] = ScanFromFront(lexer, input)[k]
    BY <1>1 DEF Nested
  <2>2. k + 1 \in 1 .. Len(input) /\ k + 1 <= offset' /\ (k + 1) - 1 = k
    BY <1>1, <1>2, <1>3, <2>1
  <2>3. ScanFromFront(lexer, input)[k + 1] = ReadOn(lexer, input, ScanFromFront(lexer, input)[k])
    BY <1>1, <2>2, FrontSteps
  <2>4. ReadOn(lexer, input, [offset |-> offset, stack |-> stack]) = [offset |-> offset', stack |-> stack']
    BY <1>2 DEF ReadOn, current, action
  <2>5. QED
    BY <2>1, <2>2, <2>3, <2>4
<1>9. QED
  BY <1>1, <1>2, <1>3, <1>5, <1>6, <1>7, <1>8 DEF TokenizerInv

LEMMA LeastOfLengths ==
  ASSUME NEW D, NEW w, NEW at, LengthsAt(D, w, at) # {}
  PROVE  Least(LengthsAt(D, w, at)) \in LengthsAt(D, w, at)
<1> DEFINE S == LengthsAt(D, w, at)
<1>1. S \in SUBSET Nat
  BY CertificateWalkAssumption DEF LengthsAt
<1> HIDE DEF S
<1>2. S # {}
  BY DEF S
<1>3. Least(S) \in S
  BY <1>1, <1>2, LeastNatural DEF Least
<1>4. QED
  BY <1>3 DEF S

(* The position a certificate resumes at is in the input.                  *)
LEMMA EvidenceInside ==
  ASSUME NEW D, IsCompiled(D), input \in Seq(Symbols), NEW found, IsEvidence(D, found)
  PROVE  /\ found \in [start : Nat, evidence_begin : Nat, evidence_end : Nat]
         /\ found.start \in 0 .. Len(input)
<1>1. PICK at \in 0 .. Len(input) - 1 :
        IsCertified(D, at) /\ found = CertificateAt(D, input, at)
  BY DEF IsEvidence
<1>2. CASE input[at + 1] \in D.split_points
  <2>1. found = [start |-> at, evidence_begin |-> at, evidence_end |-> at + 1]
    BY <1>1, <1>2 DEF CertificateAt
  <2>2. QED
    BY <2>1
<1>3. CASE input[at + 1] \notin D.split_points
  <2> DEFINE n == Least(LengthsAt(D, input, at))
  <2>1. n \in LengthsAt(D, input, at)
    BY <1>1, <1>3, LeastOfLengths DEF IsCertified
  <2>2. /\ n \in Nat /\ at + n <= Len(input)
        /\ OriginAt(D, input, at, n) # BeforeWindow
    BY <2>1, CertificateWalkAssumption DEF LengthsAt
  <2>3. n >= 1 /\ OriginAt(D, input, at, n) \in 0 .. n - 1
    <3>1. IsSimulator(D) /\ at \in Nat /\ n \in Int
      BY <2>2 DEF IsCompiled
    <3> HIDE DEF n
    <3> QED
      BY <2>2, <3>1, CertifiedOriginIsInside DEF OriginAt
  <2>4. found = [ start |-> at + OriginAt(D, input, at, n),
                  evidence_begin |-> at, evidence_end |-> at + n ]
    BY <1>1, <1>3 DEF CertificateAt
  <2> HIDE DEF n
  <2>5. QED
    BY <2>2, <2>3, <2>4
<1>4. QED
  BY <1>2, <1>3

LEMMA RecoverInv ==
  ASSUME TokenizerInv, NEW clean_from \in Nat, Recover(clean_from)
  PROVE  TokenizerInv' /\ certified' # Nothing
<1> USE DEF Asked, current
<1>1. /\ LexerCompiled /\ input \in Seq(Symbols) /\ offset \in 0 .. Len(input)
      /\ StackInModes /\ Held
  BY DEF TokenizerInv
<1>2. PICK found \in NextCertified(current, input, RecoveryFrom(clean_from)) :
        /\ offset' = found.start
        /\ certified' = [found |-> found, mode |-> stack.current]
  BY DEF Recover
<1>3. straight' = FALSE /\ UNCHANGED <<lexer, input, stack, chosen>>
  BY DEF Recover
<1>4. RecoveryFrom(clean_from) \in Nat
  BY <1>1 DEF RecoveryFrom
<1>5. stack.current \in DOMAIN lexer.dfa /\ IsCompiled(current)
  BY <1>1 DEF LexerCompiled, StackInModes
<1>6. IsEvidence(current, found)
  <2>1. PICK at \in RecoveryFrom(clean_from) .. Len(input) - 1 :
          IsCertified(current, at) /\ found = CertificateAt(current, input, at)
    BY <1>2 DEF NextCertified, IsCertified
  <2>2. at \in 0 .. Len(input) - 1
    BY <1>4, <2>1
  <2>3. QED
    BY <2>1, <2>2 DEF IsEvidence
<1>7. /\ found \in [start : Nat, evidence_begin : Nat, evidence_end : Nat]
      /\ found.start \in 0 .. Len(input)
  BY <1>1, <1>5, <1>6, EvidenceInside
<1>8. Evidence'
  <2>1. certified'.mode = stack.current /\ certified'.found = found
    BY <1>2
  <2>2. QED
    BY <1>3, <1>5, <1>6, <2>1 DEF Evidence, IsEvidence, IsCertified
<1>9. certified' # Nothing
  <2>1. stack.current \in Nat
    BY <1>1, <1>5 DEF LexerCompiled
  <2>2. certified' \in [ found : [start : Nat, evidence_begin : Nat, evidence_end : Nat],
                         mode : Nat ]
    BY <1>2, <1>7, <2>1
  <2>3. QED
    BY <2>2, ModeTokenizerAssumption
<1>10. LexerCompiled' /\ StackInModes' /\ Held' /\ Nested'
  BY <1>1, <1>3 DEF LexerCompiled, StackInModes, Held, Nested
<1>11. QED
  BY <1>1, <1>2, <1>3, <1>7, <1>8, <1>9, <1>10 DEF TokenizerInv

(* What neither reads nor moves.                                           *)
LEMMA RestInv ==
  TokenizerInv /\ UNCHANGED <<lexer, input, offset, stack, certified, straight, chosen>>
    => TokenizerInv'
<1> SUFFICES ASSUME TokenizerInv,
                    UNCHANGED <<lexer, input, offset, stack, certified, straight, chosen>>
             PROVE  TokenizerInv'
  OBVIOUS
<1>1. LexerCompiled' /\ StackInModes' /\ Held' /\ Nested'
  BY DEF TokenizerInv, LexerCompiled, StackInModes, Held, Nested
<1>2. Evidence'
  BY DEF TokenizerInv, Evidence, IsEvidence, IsCertified
<1>3. QED
  BY <1>1, <1>2 DEF TokenizerInv

LEMMA BegunInv ==
  ASSUME TokenizerInv, NEW text \in Seq(Symbols), Begun(text)
  PROVE  TokenizerInv'
<1>1. /\ certified' = Nothing /\ input' = text /\ offset' = 0 /\ stack' = Rewound
      /\ straight' = TRUE /\ UNCHANGED <<lexer, chosen>>
  BY DEF Begun, Moved
<1>2. LexerCompiled /\ StackInModes /\ Held
  BY DEF TokenizerInv
<1>3. LexerCompiled' /\ Evidence'
  BY <1>1, <1>2 DEF LexerCompiled, Evidence
<1>4. StackInModes'
  BY <1>1, <1>2 DEF LexerCompiled, StackInModes, Rewound, FreshStack
<1>5. Held'
  BY <1>1, <1>2 DEF Held, Rewound
<1>6. Nested'
  <2> SUFFICES ASSUME lexer.by = "grammar"
               PROVE  \E n \in 0 .. Len(text) :
                        /\ n <= 0
                        /\ [offset |-> 0, stack |-> stack'] = ScanFromFront(lexer, text)[n]
    BY <1>1 DEF Nested
  <2>1. stack' = FreshStack
    BY <1>1 DEF Rewound
  <2>2. ScanFromFront(lexer, text)[0] = AtFront /\ 0 \in 0 .. Len(text)
    BY FrontSteps
  <2>3. QED
    BY <2>1, <2>2 DEF AtFront
<1>7. QED
  BY <1>1, <1>3, <1>4, <1>5, <1>6 DEF TokenizerInv

LEMMA SeekInv ==
  ASSUME TokenizerInv, NEW to \in Nat, Seek(to)
  PROVE  TokenizerInv'
<1>1. /\ certified' = Nothing /\ straight' = FALSE
      /\ offset' = IF to < Len(input) THEN to ELSE Len(input)
      /\ UNCHANGED <<lexer, input, stack, chosen>>
  BY DEF Seek, Moved
<1>2. /\ LexerCompiled' /\ StackInModes' /\ Held' /\ Evidence' /\ Nested'
  BY <1>1 DEF TokenizerInv, LexerCompiled, StackInModes, Held, Evidence, Nested
<1>3. input' \in Seq(Symbols) /\ offset' \in 0 .. Len(input')
  BY <1>1 DEF TokenizerInv
<1>4. QED
  BY <1>2, <1>3 DEF TokenizerInv

LEMMA SetModeInv ==
  ASSUME TokenizerInv, NEW mode \in DOMAIN lexer.dfa, SetMode(mode)
  PROVE  TokenizerInv'
<1>1. /\ certified' = Nothing /\ straight' = FALSE /\ chosen' = mode
      /\ stack' = [stack EXCEPT !.current = mode]
      /\ UNCHANGED <<lexer, input, offset>>
  BY DEF SetMode, Moved
<1>2. LexerCompiled' /\ Evidence' /\ Nested'
  BY <1>1 DEF TokenizerInv, LexerCompiled, Evidence, Nested
<1>3. StackInModes' /\ Held'
  BY <1>1 DEF TokenizerInv, StackInModes, Held
<1>4. QED
  BY <1>1, <1>2, <1>3 DEF TokenizerInv

LEMMA NextInv == TokenizerInv /\ [Next]_vars => TokenizerInv'
<1> SUFFICES ASSUME TokenizerInv, [Next]_vars PROVE TokenizerInv'
  OBVIOUS
<1> DEFINE Rests == UNCHANGED <<lexer, input, offset, stack, certified, straight, chosen>>
<1> USE DEF tokenizer, answers, history
<1>1. CASE NextIsToken
  BY <1>1, ReadInv
<1>2. CASE NextIsRefused \/ NextIsError \/ NextIsEnd \/ GiveUp
  <2>1. Rests
    BY <1>2 DEF NextIsRefused, NextIsError, NextIsEnd, Fails, GiveUp
  <2>2. QED
    BY <2>1, RestInv
<1>3. ASSUME NEW clean_from \in {0} \cup (offset + 2 .. Len(input)),
             Recover(clean_from) \/ RecoverFails(clean_from)
      PROVE  TokenizerInv'
  <2>1. clean_from \in Nat
    BY DEF TokenizerInv
  <2>2. CASE Recover(clean_from)
    BY <2>1, <2>2, RecoverInv
  <2>3. CASE RecoverFails(clean_from)
    <3>1. Rests
      BY <2>3 DEF RecoverFails
    <3>2. QED
      BY <3>1, RestInv
  <2>4. QED
    BY <1>3, <2>2, <2>3
<1>4. CASE Reset \/ \E text \in Loads : Load(text)
  <2>1. PICK text \in Seq(Symbols) : Begun(text)
    BY <1>4, ModeTokenizerAssumption DEF Reset, Load, TokenizerInv
  <2>2. QED
    BY <2>1, BegunInv
<1>5. ASSUME NEW to \in 0 .. Len(input) + 1, Seek(to) PROVE TokenizerInv'
  BY <1>5, SeekInv
<1>6. ASSUME NEW mode \in DOMAIN lexer.dfa, SetMode(mode) PROVE TokenizerInv'
  BY <1>6, SetModeInv
<1>7. CASE UNCHANGED vars
  <2>1. Rests
    BY <1>7 DEF vars
  <2>2. QED
    BY <2>1, RestInv
<1>8. QED
  BY <1>1, <1>2, <1>3, <1>4, <1>5, <1>6, <1>7 DEF Next, Drive

LEMMA TokenizerHolds == Spec => []TokenizerInv
<1>1. TokenizerInv /\ [Next]_vars => TokenizerInv'
  BY NextInv
<1>2. QED
  BY InitTokenizer, <1>1, PTL DEF Spec

----------------------------------------------------------------------------
(* A window of the rest of an input is one of what the rest is appended to. *)
LEMMA KeptWindow ==
  ASSUME NEW text \in Seq(Symbols), NEW kept \in Seq(Symbols), NEW n \in 0 .. Len(kept)
  PROVE  /\ text \o kept \in Seq(Symbols)
         /\ Len(text \o kept) = Len(text) + Len(kept)
         /\ \A k \in 1 .. Len(kept) : (text \o kept)[Len(text) + k] = kept[k]
         /\ SubSeq(text \o kept, Len(text) + 1, Len(text) + n) = SubSeq(kept, 1, n)
<1> DEFINE whole == text \o kept
           s == SubSeq(whole, Len(text) + 1, Len(text) + n)
           t == SubSeq(kept, 1, n)
<1>1. Len(text) \in Nat /\ Len(kept) \in Nat
  OBVIOUS
<1>2. whole \in Seq(Symbols) /\ Len(whole) = Len(text) + Len(kept)
  OBVIOUS
<1>3. \A k \in 1 .. Len(kept) : whole[Len(text) + k] = kept[k]
  OBVIOUS
<1> HIDE DEF whole
<1>4. /\ s \in Seq(Symbols) /\ Len(s) = n
      /\ \A k \in 1 .. n : s[k] = whole[Len(text) + k]
  BY <1>1, <1>2, SMTT(20)
<1>5. /\ t \in Seq(Symbols) /\ Len(t) = n
      /\ \A k \in 1 .. n : t[k] = kept[k]
  OBVIOUS
<1>6. \A k \in 1 .. n : whole[Len(text) + k] = kept[k]
  BY <1>1, <1>3
<1> HIDE DEF s, t
<1>7. s = t
  BY <1>4, <1>5, <1>6
<1>8. QED
  BY <1>2, <1>3, <1>7 DEF s, t, whole

LEMMA SameElements ==
  ASSUME NEW s \in Seq(Symbols), NEW t \in Seq(Symbols), Len(s) = Len(t),
         \A k \in 1 .. Len(s) : s[k] = t[k]
  PROVE  s = t
  OBVIOUS

LEMMA WindowOfRest ==
  ASSUME NEW w \in Seq(Symbols), NEW at \in 0 .. Len(w), NEW n \in 0 .. Len(w) - at
  PROVE  SubSeq(SubSeq(w, at + 1, Len(w)), 1, n) = SubSeq(w, at + 1, at + n)
<1> DEFINE kept == SubSeq(w, at + 1, Len(w))
           s == SubSeq(kept, 1, n)
           t == SubSeq(w, at + 1, at + n)
<1>1. /\ kept \in Seq(Symbols) /\ Len(kept) = Len(w) - at
      /\ \A k \in 1 .. Len(w) - at : kept[k] = w[at + k]
  OBVIOUS
<1> HIDE DEF kept
<1>2. /\ s \in Seq(Symbols) /\ Len(s) = n
      /\ \A k \in 1 .. n : s[k] = kept[k]
  BY <1>1
<1>3. /\ t \in Seq(Symbols) /\ Len(t) = n
      /\ \A k \in 1 .. n : t[k] = w[at + k]
  <2>1. at + n \in 0 .. Len(w) /\ at + 1 \in 1 .. Len(w) + 1 /\ Len(w) \in Nat
    OBVIOUS
  <2>2. t \in Seq(Symbols)
    BY <2>1
  <2>3. Len(t) = n
    BY <2>1
  <2>4. \A k \in 1 .. n : t[k] = w[at + k]
    BY <2>1
  <2>5. QED
    BY <2>2, <2>3, <2>4
<1> HIDE DEF s, t
<1>4. \A k \in 1 .. n : s[k] = t[k]
  <2>1. \A k \in 1 .. n : k \in 1 .. Len(w) - at
    OBVIOUS
  <2>2. QED
    BY <1>1, <1>2, <1>3, <2>1
<1>5. s = t
  BY <1>2, <1>3, <1>4, SameElements
<1>6. QED
  BY <1>5 DEF s, t, kept
(* The evidence, met again at some place of a tokenizable text, certifies  *)
(* there what it certified in the input.                                   *)
MetAgain(at, w, p) ==
  /\ Len(w) = p + (Len(input) - at)
  /\ w[p + 1] = input[at + 1]
  /\ \A n \in 0 .. Len(input) - at :
       SubSeq(w, p + 1, p + n) = SubSeq(input, at + 1, at + n)

LEMMA EvidenceMetAgain ==
  ASSUME NEW D, IsCompiled(D), input \in Seq(Symbols), NEW at \in 0 .. Len(input) - 1,
         IsCertified(D, at),
         NEW w \in Seq(Symbols), Serial(D, w).consumed = Len(w),
         NEW p \in Nat, MetAgain(at, w, p)
  PROVE  \E i \in 1 .. Len(Serial(D, w).stream) :
           Serial(D, w).stream[i].begin = p + (CertificateAt(D, input, at).start - at)
<1>1. IsSimulator(D) /\ at \in Nat /\ Len(input) \in Nat
  BY DEF IsCompiled
<1>2. CASE input[at + 1] \in D.split_points
  <2>1. CertificateAt(D, input, at).start = at
    BY <1>2 DEF CertificateAt
  <2>2. p \in 0 .. Len(w) - 1 /\ w[p + 1] \in SplitPoints(D, {})
    BY <1>1, <1>2 DEF IsCompiled, MetAgain
  <2>3. p + (CertificateAt(D, input, at).start - at) = p
    BY <1>1, <2>1
  <2>4. \E i \in 1 .. Len(Serial(D, w).stream) : Serial(D, w).stream[i].begin = p
    BY <1>1, <2>2, CertifiedByteBegins
  <2>5. QED
    BY <2>3, <2>4, Zenon
<1>3. CASE input[at + 1] \notin D.split_points
  <2>1. PICK n : n = Least(LengthsAt(D, input, at))
    OBVIOUS
  <2>2. n \in LengthsAt(D, input, at)
    BY <1>3, <2>1, LeastOfLengths DEF IsCertified
  <2>3. /\ n \in Nat /\ n \in Int /\ at + n <= Len(input)
        /\ OriginAt(D, input, at, n) # BeforeWindow
    BY <2>2, CertificateWalkAssumption DEF LengthsAt
  <2>4. PICK origin : origin = OriginAt(D, input, at, n)
    OBVIOUS
  <2>5. origin = SplitOrigin(D, SubSeq(input, at + 1, at + n)) /\ origin # BeforeWindow
    BY <2>3, <2>4 DEF OriginAt
  <2>6. origin \in 0 .. n - 1
    BY <1>1, <2>3, <2>5, CertifiedOriginIsInside
  <2>7. CertificateAt(D, input, at).start = at + origin
    BY <1>3, <2>1, <2>4 DEF CertificateAt
  <2>8. n \in 0 .. Len(input) - at /\ p + n <= Len(w)
    BY <1>1, <2>3 DEF MetAgain
  <2>9. origin = SplitOrigin(D, SubSeq(w, p + 1, p + n))
    BY <2>5, <2>8 DEF MetAgain
  <2>10. \E i \in 1 .. Len(Serial(D, w).stream) :
           Serial(D, w).stream[i].begin = p + origin
    <3>1. SplitOrigin(D, SubSeq(w, p + 1, p + n)) # BeforeWindow
      BY <2>5, <2>9
    <3>2. IsSimulator(D) /\ n \in Int /\ p + n <= Len(w)
      BY <1>1, <2>3, <2>8
    <3>3. \E j \in 1 .. Len(Serial(D, w).stream) :
            Serial(D, w).stream[j].begin = p + SplitOrigin(D, SubSeq(w, p + 1, p + n))
      BY <3>1, <3>2, CertifiedWindowBegins
    <3>4. QED
      BY <2>9, <3>3, Zenon
  <2>11. p + (CertificateAt(D, input, at).start - at) = p + origin
    BY <1>1, <2>6, <2>7
  <2>12. QED
    BY <2>10, <2>11
<1>4. QED
  BY <1>2, <1>3

(* Of any text that replaces what was read before the evidence, and is     *)
(* tokenizable together with the rest in the mode that was asked: the      *)
(* evidence is met in it again where the text ends.                        *)
Repair(found, text) == text \o SubSeq(input, found.evidence_begin + 1, Len(input))

BeginsInRepair(D, found, text) ==
  LET w == Repair(found, text)
  IN Serial(D, w).consumed = Len(w) =>
       \E i \in 1 .. Len(Serial(D, w).stream) :
         Serial(D, w).stream[i].begin = Len(text) + found.start - found.evidence_begin

LEMMA EvidenceRepairs ==
  ASSUME NEW D, IsCompiled(D), input \in Seq(Symbols), NEW found, IsEvidence(D, found),
         NEW text \in Seq(Symbols)
  PROVE  BeginsInRepair(D, found, text)
<1> SUFFICES ASSUME Serial(D, Repair(found, text)).consumed = Len(Repair(found, text))
             PROVE  \E i \in 1 .. Len(Serial(D, Repair(found, text)).stream) :
                      Serial(D, Repair(found, text)).stream[i].begin =
                        Len(text) + found.start - found.evidence_begin
  BY DEF BeginsInRepair
<1>1. PICK at \in 0 .. Len(input) - 1 :
        IsCertified(D, at) /\ found = CertificateAt(D, input, at)
  BY DEF IsEvidence
<1>2. found.evidence_begin = at
  BY <1>1 DEF CertificateAt
<1> DEFINE kept == SubSeq(input, at + 1, Len(input))
           w == Repair(found, text)
<1>3. /\ kept \in Seq(Symbols) /\ Len(kept) = Len(input) - at
      /\ kept[1] = input[at + 1]
  OBVIOUS
<1>4. /\ Len(text) \in Nat /\ Len(input) - at \in Nat \ {0} /\ at \in 0 .. Len(input)
      /\ found.start \in Nat
  BY <1>1, EvidenceInside
<1>5. ASSUME NEW n \in 0 .. Len(input) - at
      PROVE  /\ SubSeq(w, Len(text) + 1, Len(text) + n) = SubSeq(input, at + 1, at + n)
             /\ w \in Seq(Symbols)
             /\ Len(w) = Len(text) + (Len(input) - at)
             /\ w[Len(text) + 1] = input[at + 1]
  <2>1. SubSeq(kept, 1, n) = SubSeq(input, at + 1, at + n)
    BY <1>4, WindowOfRest
  <2>2. w = text \o kept
    BY <1>2 DEF Repair
  <2> HIDE DEF kept, w
  <2>3. n \in 0 .. Len(kept) /\ 1 \in 1 .. Len(kept)
    BY <1>3, <1>4
  <2>4. /\ text \o kept \in Seq(Symbols)
        /\ Len(text \o kept) = Len(text) + Len(kept)
        /\ \A k \in 1 .. Len(kept) : (text \o kept)[Len(text) + k] = kept[k]
        /\ SubSeq(text \o kept, Len(text) + 1, Len(text) + n) = SubSeq(kept, 1, n)
    BY <1>3, <2>3, KeptWindow, Zenon
  <2>5. QED
    BY <1>3, <2>1, <2>2, <2>3, <2>4, Zenon
<1>6. w \in Seq(Symbols) /\ MetAgain(at, w, Len(text))
  <2>1. 0 \in 0 .. Len(input) - at
    BY <1>4
  <2> HIDE DEF w
  <2>2. QED
    BY <1>5, <2>1, Zenon DEF MetAgain
<1>7. Serial(D, w).consumed = Len(w)
  OBVIOUS
<1> HIDE DEF w
<1>8. \E i \in 1 .. Len(Serial(D, w).stream) :
        Serial(D, w).stream[i].begin = Len(text) + (CertificateAt(D, input, at).start - at)
  BY <1>1, <1>4, <1>6, <1>7, EvidenceMetAgain
<1>9. Len(text) + (found.start - at) = Len(text) + found.start - found.evidence_begin
  BY <1>2, <1>4
<1>10. QED
  BY <1>1, <1>8, <1>9, Zenon DEF w

(* Wherever a recovery resumes, a token of the mode that was asked begins  *)
(* in every repair of what was read before its evidence that makes the     *)
(* whole tokenizable in that mode (mode_tokenizer.hpp 205-217).            *)
THEOREM RecoveryRepairs == Spec => []RecoveryIsRepairInvariant
<1>1. TokenizerInv => RecoveryIsRepairInvariant
  <2> SUFFICES ASSUME TokenizerInv PROVE RecoveryIsRepairInvariant
    OBVIOUS
  <2>1. ASSUME certified # Nothing, NEW text \in Inputs
        PROVE  BeginsInRepair(lexer.dfa[certified.mode], certified.found, text)
    <3>1. /\ IsCompiled(lexer.dfa[certified.mode]) /\ input \in Seq(Symbols)
          /\ IsEvidence(lexer.dfa[certified.mode], certified.found)
      BY <2>1 DEF TokenizerInv, Evidence, LexerCompiled
    <3>2. text \in Seq(Symbols)
      BY ModeTokenizerAssumption
    <3>3. QED
      BY <3>1, <3>2, EvidenceRepairs
  <2>2. QED
    BY <2>1, Zenon DEF RecoveryIsRepairInvariant, BeginsInRepair, Repair
<1>2. QED
  BY TokenizerHolds, <1>1, PTL

(* A grammar's stack is the nesting of the input loaded, read from its     *)
(* front; a caller's mode is the one it set last and nothing is saved on   *)
(* its stack (mode_tokenizer.hpp 26-31, 162-186).                          *)
THEOREM StackNests == Spec => []StackIsNesting
<1>1. TokenizerInv => StackIsNesting
  <2>1. ASSUME TokenizerInv, lexer.by = "grammar", straight
        PROVE  \E n \in 0 .. Len(input) :
                 [offset |-> offset, stack |-> stack] = ScanFromFront(lexer, input)[n]
    BY <2>1 DEF TokenizerInv, Nested
  <2>2. QED
    BY <2>1 DEF TokenizerInv, Held, StackIsNesting
<1>2. QED
  BY TokenizerHolds, <1>1, PTL

----------------------------------------------------------------------------
(* The instance's scans and walk are these.                                *)
LEMMA FlatTables ==
  ASSUME NEW D, NEW w, NEW from
  PROVE  /\ Flat!MatchLengths(D, w, from) = MatchLengths(D, w, from)
         /\ Flat!LongestMatch(D, w, from) = LongestMatch(D, w, from)
  BY Zenon DEF MatchLengths, Flat!MatchLengths, StateAfter, Flat!StateAfter, LongestMatch, Flat!LongestMatch

LEMMA SameCertificates ==
  ASSUME NEW D, NEW w, NEW from
  PROVE  Flat!NextCertified(D, w, from) = NextCertified(D, w, from)
  BY Zenon DEF NextCertified, Flat!NextCertified, CertificateAt, Flat!CertificateAt,
     LengthsAt, Flat!LengthsAt, OriginAt, Flat!OriginAt, Least, Flat!Least,
     SplitOrigin, Flat!SplitOrigin, Verdict, Flat!Verdict, Advance, Flat!Advance,
     InitialCloud, Flat!InitialCloud, Stepped, Flat!Stepped, Fresh, Flat!Fresh,
     LiveStep, Flat!LiveStep, Begins, Flat!Begins, Accepting, Flat!Accepting

(* Each step of the driver that leaves the stack alone, as one of          *)
(* Tokenizer's: the tables of the mode do not change.                      *)
LEMMA DrivesAlike ==
  ASSUME TokenizerInv, Drive, stack' = stack
  PROVE  Flat!Drive \/ NextIsRefused
<1>1. lexer' = lexer /\ current' = current
  BY DEF Drive, NextIsToken, NextIsRefused, NextIsError, NextIsEnd, Fails, Recover,
         RecoverFails, current
<1>2. CASE NextIsToken
  <2>1. Flat!NextIsToken
    BY <1>1, <1>2, FlatTables DEF NextIsToken, Matched, Flat!NextIsToken
  <2>2. QED
    BY <2>1 DEF Flat!Drive
<1>3. CASE NextIsError
  <2>1. Flat!NextIsError
    BY <1>1, <1>3, FlatTables DEF NextIsError, Fails, tokenizer, Flat!NextIsError, Flat!tokenizer
  <2>2. QED
    BY <2>1 DEF Flat!Drive
<1>4. CASE NextIsEnd
  <2>1. Flat!NextIsEnd
    BY <1>1, <1>4 DEF NextIsEnd, tokenizer, Flat!NextIsEnd, Flat!tokenizer
  <2>2. QED
    BY <2>1 DEF Flat!Drive
<1>5. ASSUME NEW clean_from \in {0} \cup (offset + 2 .. Len(input)),
             Recover(clean_from) \/ RecoverFails(clean_from)
      PROVE  Flat!Drive
  <2>1. CASE Recover(clean_from)
    <3>1. certified' # Nothing
      <4>1. clean_from \in Nat
        BY DEF TokenizerInv
      <4>2. QED
        BY <2>1, <4>1, RecoverInv
    <3>2. Flat!Recover(clean_from)
      BY <1>1, <2>1, <3>1, SameCertificates DEF Recover, RecoveryFrom, Asked, Flat!Recover,
         Flat!RecoveryFrom
    <3>3. QED
      BY <3>2 DEF Flat!Drive
  <2>2. CASE RecoverFails(clean_from)
    <3>1. Flat!RecoverFails(clean_from)
      BY <1>1, <2>2, SameCertificates DEF RecoverFails, RecoveryFrom, Asked, tokenizer, answers,
         Flat!RecoverFails, Flat!RecoveryFrom, Flat!tokenizer, Flat!answers
    <3>2. QED
      BY <3>1 DEF Flat!Drive
  <2>3. QED
    BY <1>5, <2>1, <2>2
<1>6. QED
  BY <1>2, <1>3, <1>4, <1>5 DEF Drive

(* While the mode stands it is a Tokenizer of that mode's token set        *)
(* (mode_tokenizer.hpp 20-44).                                             *)
THEOREM FlatWhileModeStands == Spec => StepsAsTokenizer
<1>1. ASSUME TokenizerInv, Next, stack' = stack
      PROVE  Flat!Next \/ NextIsRefused
  <2>1. lexer' = lexer /\ current' = current
    BY <1>1 DEF Next, Drive, NextIsToken, NextIsRefused, NextIsError, NextIsEnd, Fails, Recover,
       RecoverFails, GiveUp, Load, Reset, Begun, Seek, SetMode, current
  <2>2. CASE Drive
    BY <1>1, <2>2, DrivesAlike DEF Flat!Next
  <2>3. CASE GiveUp
    <3>1. Flat!GiveUp
      BY <2>1, <2>3 DEF GiveUp, tokenizer, answers, Flat!GiveUp, Flat!tokenizer, Flat!answers
    <3>2. QED
      BY <3>1 DEF Flat!Next
  <2>4. ASSUME NEW text \in Loads, Load(text) PROVE Flat!Next
    <3>1. text \in Inputs
      BY ModeTokenizerAssumption
    <3>2. Flat!Load(text)
      BY <2>1, <2>4 DEF Load, Begun, Moved, Flat!Load, Flat!Moved
    <3>3. QED
      BY <3>1, <3>2 DEF Flat!Next
  <2>5. CASE Reset
    <3>1. Flat!Reset
      BY <2>1, <2>5 DEF Reset, Begun, Moved, Flat!Reset, Flat!Moved
    <3>2. QED
      BY <3>1 DEF Flat!Next
  <2>6. ASSUME NEW to \in 0 .. Len(input) + 1, Seek(to) PROVE Flat!Next
    <3>1. Flat!Seek(to)
      BY <2>1, <2>6 DEF Seek, Moved, Flat!Seek, Flat!Moved
    <3>2. QED
      BY <3>1 DEF Flat!Next
  <2>7. ASSUME NEW mode \in DOMAIN lexer.dfa, SetMode(mode) PROVE Flat!Next
    (* The mode set is the one in force: a seek to where the scan stands.  *)
    <3>1. offset \in 0 .. Len(input) /\ Len(input) \in Nat
      BY <1>1 DEF TokenizerInv
    <3>2. offset = IF offset < Len(input) THEN offset ELSE Len(input)
      BY <3>1
    <3>3. Flat!Seek(offset)
      BY <2>1, <2>7, <3>2 DEF SetMode, Moved, Flat!Seek, Flat!Moved
    <3>4. offset \in 0 .. Len(input) + 1
      BY <3>1
    <3>5. QED
      BY <3>3, <3>4 DEF Flat!Next
  <2>8. QED
    BY <1>1, <2>2, <2>3, <2>4, <2>5, <2>6, <2>7 DEF Next
<1>2. TokenizerInv /\ [Next]_vars => [stack' = stack => Flat!Next \/ NextIsRefused]_vars
  BY <1>1
<1>3. QED
  BY TokenizerHolds, <1>2, PTL DEF Spec, StepsAsTokenizer

----------------------------------------------------------------------------
(* The positions of a search are those of the markings that no accept has  *)
(* refuted.                                                                *)

(* Of nothing there is one marking; of one byte more, a marking is one of  *)
(* what came before it, with or without a token that begins after it.      *)
LEMMA MarksOfNothing ==
  ASSUME NEW D, IsDfa(D)
  PROVE  /\ Marks(D, << >>, {0}, 0)
         /\ Position(D, << >>, {0}, 0) = Initial(D)
         /\ \A S, m : Marks(D, << >>, S, m) => S = {0} /\ m = 0
<1>1. << >> \in Seq(Symbols) /\ Len(<< >>) = 0
  OBVIOUS
<1>2. RunTo(D, << >>, 0) = D.init
  <2>1. 0 \in 0 .. Len(<< >>)
    BY <1>1
  <2>2. StateAfter(D, << >>, 0)[0] = D.init
    BY <1>1, <2>1, StateAfterSteps
  <2> QED BY <1>1, <2>2 DEF RunTo
<1>3. D.init \in Nat /\ NoState \notin Nat
  BY DfaAssumption DEF IsDfa, States
<1>4. Marks(D, << >>, {0}, 0)
  BY <1>1, <1>2, <1>3 DEF Marks
<1>5. Position(D, << >>, {0}, 0) = Initial(D)
  BY <1>2 DEF Position, Initial
<1>6. \A S, m : Marks(D, << >>, S, m) => S = {0} /\ m = 0
  <2> SUFFICES ASSUME NEW S, NEW m, Marks(D, << >>, S, m)
               PROVE  S = {0} /\ m = 0
    OBVIOUS
  <2>1. m \in 0 .. Len(<< >>) /\ S \subseteq 0 .. m /\ 0 \in S
    BY DEF Marks
  <2>2. m = 0 /\ \A s \in S : s = 0
    BY <1>1, <2>1
  <2> QED BY <2>1, <2>2
<1> QED BY <1>4, <1>5, <1>6

(* A search moves and closes a position as its marking is.                 *)
LEMMA PositionAdvances ==
  ASSUME NEW D, IsDfa(D), NEW w \in Seq(Symbols), NEW b \in Symbols,
         NEW S, NEW m, Marks(D, w, S, m)
  PROVE  /\ Marks(D, Append(w, b), S, m) =>
              Advanced(D, Position(D, w, S, m), b) = {Position(D, Append(w, b), S, m)}
         /\ ~ Marks(D, Append(w, b), S, m) =>
              Advanced(D, Position(D, w, S, m), b) = {}
<1> DEFINE v == Append(w, b)
           P == Position(D, w, S, m)
           moved == { D.next[s][b] : s \in P.closed } \ {NoState}
<1>1. m \in 0 .. Len(w) /\ S \subseteq 0 .. m /\ m \in S /\ RunTo(D, w, m) # NoState
  BY DEF Marks
<1>2. \A s \in S : s \in 0 .. Len(w)
  BY <1>1
<1>3. \A s \in S : /\ RunTo(D, v, s) = NextState(D, RunTo(D, w, s), b)
                   /\ Len(w) + 1 - s \in MatchLengths(D, v, s) <=>
                        RunTo(D, v, s) # NoState /\ Accepting(D, RunTo(D, v, s))
  BY <1>2, AppendRuns
<1>4. RunTo(D, v, m) = D.next[P.reading][b] /\ P.reading = RunTo(D, w, m)
  BY <1>1, <1>3 DEF NextState, Position
<1>5. moved = { RunTo(D, v, s) : s \in S \ {m} } \ {NoState}
  <2>1. P.closed = { RunTo(D, w, s) : s \in S \ {m} } \ {NoState}
    BY DEF Position
  <2>2. \A s \in S : RunTo(D, w, s) = NoState => RunTo(D, v, s) = NoState
    BY <1>3 DEF NextState
  <2>3. \A s \in S : RunTo(D, w, s) # NoState => RunTo(D, v, s) = D.next[RunTo(D, w, s)][b]
    BY <1>3 DEF NextState
  <2>4. ASSUME NEW x \in moved
        PROVE  x \in { RunTo(D, v, s) : s \in S \ {m} } \ {NoState}
    <3>1. PICK s \in P.closed : x = D.next[s][b] /\ x # NoState
      OBVIOUS
    <3> QED BY <2>1, <2>3, <3>1
  <2>5. ASSUME NEW x \in { RunTo(D, v, s) : s \in S \ {m} } \ {NoState}
        PROVE  x \in moved
    <3>1. x # NoState
      OBVIOUS
    <3>2. PICK s \in S \ {m} : x = RunTo(D, v, s)
      OBVIOUS
    <3>3. RunTo(D, w, s) \in P.closed /\ x = D.next[RunTo(D, w, s)][b]
      BY <2>1, <2>2, <2>3, <3>1, <3>2
    <3> QED BY <3>1, <3>3
  <2> QED BY <2>4, <2>5
<1>6. Marks(D, v, S, m) <=>
        RunTo(D, v, m) # NoState /\ \A s \in moved : ~ Accepting(D, s)
  <2>1. Marks(D, v, S, m) <=>
          /\ RunTo(D, v, m) # NoState
          /\ \A s \in S \ {m} : Len(w) + 1 - s \notin MatchLengths(D, v, s)
    BY <1>1, MarksAdvance
  <2> HIDE DEF v, moved
  <2> QED BY <1>3, <1>5, <2>1
<1>7. Position(D, v, S, m) = [reading |-> RunTo(D, v, m), closed |-> moved]
  BY <1>5 DEF Position
<1>8. Advanced(D, P, b) = IF RunTo(D, v, m) = NoState \/ \E s \in moved : Accepting(D, s)
                          THEN {} ELSE {[reading |-> RunTo(D, v, m), closed |-> moved]}
  BY <1>4 DEF Advanced
<1> HIDE DEF v, P, moved
<1> QED BY <1>6, <1>7, <1>8 DEF v, P

LEMMA PositionCloses ==
  ASSUME NEW D, IsDfa(D), NEW w \in Seq(Symbols), NEW b \in Symbols,
         NEW S \in SUBSET (0 .. Len(w)), NEW m, Marks(D, Append(w, b), S, m)
  PROVE  Closed(D, Position(D, Append(w, b), S, m))
           = Position(D, Append(w, b), S \cup {Len(w) + 1}, Len(w) + 1)
<1> DEFINE v == Append(w, b)
           L == Len(w) + 1
<1>1. v \in Seq(Symbols) /\ Len(v) = L /\ L \notin S
  OBVIOUS
<1> HIDE DEF v
<1>2. m \in S /\ RunTo(D, v, m) # NoState
  BY DEF Marks, v
<1>3. RunTo(D, v, L) = D.init
  <2>1. Len(v) \in 0 .. Len(v) /\ Len(v) - L = 0
    BY <1>1
  <2>2. StateAfter(D, v, Len(v))[0] = D.init
    BY <1>1, <2>1, StateAfterSteps
  <2> QED BY <1>1, <2>1, <2>2 DEF RunTo
<1>4. (S \cup {L}) \ {L} = S
  BY <1>1
<1>5. { RunTo(D, v, s) : s \in S } \ {NoState}
        = ({ RunTo(D, v, s) : s \in S \ {m} } \ {NoState}) \cup {RunTo(D, v, m)}
  BY <1>2
<1> QED BY <1>3, <1>4, <1>5 DEF Closed, Position, v

LEMMA StartsOfSerial ==
  ASSUME NEW D, NEW w
  PROVE  StartsOf(Serial(D, w)) = BeginsFrom(D, w, 0)
<1>1. Serial(D, w) = SerialFrom(D, w)[0]
  BY DEF Serial
<1> DEFINE stream == SerialFrom(D, w)[0].stream
<1>2. StartsOf(Serial(D, w)) = { stream[i].begin : i \in 1 .. Len(stream) }
  BY <1>1 DEF StartsOf
<1>3. TokensFrom(D, w, 0) = { stream[i] : i \in 1 .. Len(stream) }
  BY DEF TokensFrom
<1> HIDE DEF stream
<1> QED BY <1>2, <1>3 DEF BeginsFrom

(* Of a whole input that tokenizes, the one marking that ends where it     *)
(* does is that of the serial scan; of any other there is none.            *)
LEMMA MarksComplete ==
  ASSUME NEW D, IsDfa(D), NEW w \in Seq(Symbols), NEW S
  PROVE  Marks(D, w, S, Len(w)) <=>
           /\ Serial(D, w).consumed = Len(w)
           /\ S = StartsOf(Serial(D, w)) \cup {Len(w)}
<1>0. Len(w) \in Nat /\ Serial(D, w) = SerialFrom(D, w)[0]
  BY DEF Serial
<1>1. StartsOf(Serial(D, w)) = BeginsFrom(D, w, 0)
  BY StartsOfSerial
<1>2. ASSUME Marks(D, w, S, Len(w))
      PROVE  /\ Serial(D, w).consumed = Len(w)
             /\ S = BeginsFrom(D, w, 0) \cup {Len(w)}
  <2>1. 0 \in S /\ Len(w) \in S /\ S \subseteq 0 .. Len(w)
    BY <1>2 DEF Marks
  <2>2. /\ SerialFrom(D, w)[0].consumed = Len(w)
        /\ BeginsFrom(D, w, 0) = { s \in S : 0 <= s /\ s # Len(w) }
    <3>1. \A from \in S : /\ SerialFrom(D, w)[from].consumed = Len(w)
                          /\ BeginsFrom(D, w, from) = { s \in S : from <= s /\ s # Len(w) }
      BY <1>2, MarksAreScanned
    <3> QED BY <2>1, <3>1
  <2>3. S = { s \in S : 0 <= s /\ s # Len(w) } \cup {Len(w)}
    <3>1. \A s \in S : 0 <= s
      BY <2>1
    <3> QED BY <2>1, <3>1
  <2> QED BY <1>0, <2>2, <2>3
<1>3. ASSUME Serial(D, w).consumed = Len(w), S = BeginsFrom(D, w, 0) \cup {Len(w)}
      PROVE  Marks(D, w, S, Len(w))
  <2>1. /\ \A t \in TokensFrom(D, w, 0) :
             /\ t.begin \in 0 .. Len(w)
             /\ MatchLengths(D, w, t.begin) # {}
        /\ \A t, u \in TokensFrom(D, w, 0) :
             t.begin < u.begin => AfterTokenAt(D, w, t.begin) <= u.begin
        /\ \A o \in 0 .. Len(w) - 1 :
             \E t \in TokensFrom(D, w, 0) :
               t.begin <= o /\ o < AfterTokenAt(D, w, t.begin)
    BY <1>0, <1>3, SerialTiles
  <2>2. \A s \in BeginsFrom(D, w, 0) : \E t \in TokensFrom(D, w, 0) : s = t.begin
    BY DEF BeginsFrom
  <2>3. \A t \in TokensFrom(D, w, 0) : t.begin \in BeginsFrom(D, w, 0)
    BY DEF BeginsFrom
  <2>4. /\ \A s \in BeginsFrom(D, w, 0) : s \in 0 .. Len(w) /\ MatchLengths(D, w, s) # {}
        /\ \A s, u \in BeginsFrom(D, w, 0) : s < u => AfterTokenAt(D, w, s) <= u
        /\ \A o \in 0 .. Len(w) - 1 :
             \E s \in BeginsFrom(D, w, 0) : s <= o /\ o < AfterTokenAt(D, w, s)
    BY <2>1, <2>2, <2>3
  <2>5. \A s \in BeginsFrom(D, w, 0) : /\ AfterTokenAt(D, w, s) \in s + 1 .. Len(w)
                                       /\ s < Len(w)
    <3> TAKE s \in BeginsFrom(D, w, 0)
    <3>1. s \in 0 .. Len(w) /\ MatchLengths(D, w, s) # {}
      BY <2>4
    <3>2. s + LongestMatch(D, w, s) \in s + 1 .. Len(w)
      BY <3>1, LongestMatchIsLongest
    <3> QED BY <1>0, <3>1, <3>2 DEF AfterTokenAt
  <2>6. ASSUME NEW s \in BeginsFrom(D, w, 0)
        PROVE  AfterTokenAt(D, w, s) \in S
    <3>1. PICK o \in s + 1 .. Len(w) : o = AfterTokenAt(D, w, s)
      BY <2>5
    <3>2. CASE o = Len(w)
      BY <1>3, <3>1, <3>2
    <3>3. CASE o # Len(w)
      <4>1. o \in 0 .. Len(w) - 1
        BY <1>0, <2>4, <3>1, <3>3
      <4>2. PICK u \in BeginsFrom(D, w, 0) : u <= o /\ o < AfterTokenAt(D, w, u)
        BY <2>4, <4>1
      <4>3. u \in 0 .. Len(w) /\ s \in 0 .. Len(w) /\ AfterTokenAt(D, w, u) \in u + 1 .. Len(w)
        BY <2>4, <2>5
      <4>4. u # s
        BY <3>1, <4>1, <4>2
      <4>5. ~ (u < s)
        BY <2>4, <3>1, <4>1, <4>2, <4>3
      <4>6. s < u
        BY <4>3, <4>4, <4>5
      <4>7. o <= u
        BY <2>4, <3>1, <4>6
      <4>8. u = o
        BY <4>1, <4>2, <4>3, <4>7
      <4> QED BY <1>3, <3>1, <4>8
    <3> QED BY <3>2, <3>3
  <2>7. 0 \in S
    <3>1. CASE Len(w) = 0
      BY <1>3, <3>1
    <3>2. CASE Len(w) # 0
      <4>1. 0 \in 0 .. Len(w) - 1
        BY <1>0, <3>2
      <4>2. PICK s \in BeginsFrom(D, w, 0) : s <= 0
        BY <2>4, <4>1
      <4>3. s = 0
        BY <2>4, <4>2
      <4> QED BY <1>3, <4>3
    <3> QED BY <3>1, <3>2
  <2>8. RunTo(D, w, Len(w)) # NoState
    <3>1. Len(w) \in 0 .. Len(w) /\ Len(w) - Len(w) = 0
      BY <1>0
    <3>2. StateAfter(D, w, Len(w))[0] = D.init
      BY <3>1, StateAfterSteps
    <3>3. D.init \in Nat /\ NoState \notin Nat
      BY DfaAssumption DEF IsDfa, States
    <3> QED BY <3>1, <3>2, <3>3 DEF RunTo
  <2>9. \A s \in S : s < Len(w) =>
           /\ MatchLengths(D, w, s) # {}
           /\ AfterTokenAt(D, w, s) \in S
           /\ \A t \in S : s < t => AfterTokenAt(D, w, s) <= t
    <3> TAKE s \in S
    <3> HAVE s < Len(w)
    <3>1. s \in BeginsFrom(D, w, 0)
      BY <1>0, <1>3
    <3>2. \A t \in S : s < t => AfterTokenAt(D, w, s) <= t
      BY <1>0, <1>3, <2>4, <2>5, <3>1
    <3> QED BY <2>4, <2>6, <3>1, <3>2
  <2>10. S \subseteq 0 .. Len(w) /\ Len(w) \in S
    BY <1>0, <1>3, <2>4
  <2> QED BY <1>0, <2>7, <2>8, <2>9, <2>10 DEF Marks
<1> QED BY <1>1, <1>2, <1>3

LEMMA SeqOfNone ==
  IsSeq(<< >>) /\ Range(<< >>) = {} /\ Len(<< >>) = 0
<1>1. << >> \in Seq({})
  OBVIOUS
<1>2. Range(<< >>) = {}
  BY DEF Range
<1> QED BY <1>1, <1>2 DEF IsSeq

LEMMA SeqOfOne ==
  ASSUME NEW e
  PROVE  IsSeq(<<e>>) /\ Range(<<e>>) = {e} /\ Len(<<e>>) = 1
<1>1. <<e>> \in Seq({e}) /\ Len(<<e>>) = 1 /\ <<e>>[1] = e /\ DOMAIN <<e>> = 1 .. 1
  OBVIOUS
<1> DEFINE s == <<e>>
<1>2. s \in Seq({e}) /\ Len(s) = 1 /\ s[1] = e /\ DOMAIN s = 1 .. 1
  BY <1>1
<1> HIDE DEF s
<1>3. 1 \in DOMAIN s /\ \A i \in DOMAIN s : i = 1
  BY <1>2
<1>4. Range(s) = {e}
  BY <1>2, <1>3 DEF Range
<1>5. IsSeq(s)
  BY <1>2 DEF IsSeq
<1> QED BY <1>2, <1>4, <1>5 DEF s

LEMMA SeqParts ==
  ASSUME NEW s, IsSeq(s)
  PROVE  Len(s) \in Nat /\ DOMAIN s = 1 .. Len(s) /\ Range(s) = { s[i] : i \in 1 .. Len(s) }
<1>1. PICK K : s \in Seq(K)
  BY DEF IsSeq
<1> QED BY <1>1 DEF Range

LEMMA SeqConcat ==
  ASSUME NEW s, NEW t, IsSeq(s), IsSeq(t)
  PROVE  /\ IsSeq(s \o t)
         /\ Len(s \o t) = Len(s) + Len(t)
         /\ Range(s \o t) = Range(s) \cup Range(t)
<1>1. PICK K : s \in Seq(K)
  BY DEF IsSeq
<1>2. PICK L : t \in Seq(L)
  BY DEF IsSeq
<1>3. s \in Seq(K \cup L) /\ t \in Seq(K \cup L)
  BY <1>1, <1>2
<1> DEFINE u == s \o t
<1>4. /\ u \in Seq(K \cup L)
      /\ Len(u) = Len(s) + Len(t)
      /\ \A i \in 1 .. Len(s) : u[i] = s[i]
      /\ \A i \in 1 .. Len(t) : u[Len(s) + i] = t[i]
      /\ \A i \in 1 .. Len(u) : i \in 1 .. Len(s) \/ i - Len(s) \in 1 .. Len(t)
  BY <1>3
<1>5. /\ DOMAIN s = 1 .. Len(s) /\ DOMAIN t = 1 .. Len(t) /\ DOMAIN u = 1 .. Len(u)
      /\ Len(s) \in Nat /\ Len(t) \in Nat
  BY <1>3, <1>4
<1> HIDE DEF u
<1>6. ASSUME NEW x \in Range(u) PROVE x \in Range(s) \cup Range(t)
  <2>1. PICK i \in 1 .. Len(u) : x = u[i]
    BY <1>5 DEF Range
  <2>2. CASE i \in 1 .. Len(s)
    BY <1>4, <1>5, <2>1, <2>2 DEF Range
  <2>3. CASE i - Len(s) \in 1 .. Len(t)
    <3>1. u[Len(s) + (i - Len(s))] = t[i - Len(s)]
      BY <1>4, <2>3
    <3>2. Len(s) + (i - Len(s)) = i
      BY <1>5
    <3> QED BY <1>5, <2>1, <2>3, <3>1, <3>2 DEF Range
  <2> QED BY <1>4, <2>2, <2>3
<1>7. ASSUME NEW x \in Range(s) PROVE x \in Range(u)
  <2>1. PICK i \in 1 .. Len(s) : x = s[i]
    BY <1>5 DEF Range
  <2>2. i \in 1 .. Len(u)
    BY <1>4, <1>5
  <2> QED BY <1>4, <1>5, <2>1, <2>2 DEF Range
<1>8. ASSUME NEW x \in Range(t) PROVE x \in Range(u)
  <2>1. PICK i \in 1 .. Len(t) : x = t[i]
    BY <1>5 DEF Range
  <2>2. Len(s) + i \in 1 .. Len(u)
    BY <1>4, <1>5
  <2> QED BY <1>4, <1>5, <2>1, <2>2 DEF Range
<1> QED BY <1>4, <1>6, <1>7, <1>8 DEF IsSeq, u

LEMMA SeqOfFunction ==
  ASSUME NEW n \in Nat, NEW K, NEW f \in [1 .. n -> K]
  PROVE  IsSeq(f) /\ Len(f) = n /\ Range(f) = { f[i] : i \in 1 .. n }
<1>1. f \in Seq(K) /\ Len(f) = n /\ DOMAIN f = 1 .. n
  OBVIOUS
<1> QED BY <1>1 DEF IsSeq, Range

(* A sequence of sequences run together holds what each of them does.      *)
LEMMA SeqFlattened ==
  ASSUME NEW parts, IsSeq(parts), \A i \in 1 .. Len(parts) : IsSeq(parts[i])
  PROVE  /\ IsSeq(FlattenSeq(parts))
         /\ Range(FlattenSeq(parts)) = UNION { Range(parts[i]) : i \in 1 .. Len(parts) }
<1> DEFINE N == Len(parts)
           Is(f, k) == f = [ i \in 1 .. k |-> IF i = 1 THEN parts[i] ELSE f[i - 1] \o parts[i] ]
           S == { k \in 0 .. N : \E f : Is(f, k) }
<1>0. N \in Nat /\ DOMAIN parts = 1 .. N
  BY SeqParts
<1>1. 0 \in S
  <2> DEFINE e == [ i \in 1 .. 0 |-> i ]
  <2>1. e = [ i \in 1 .. 0 |-> IF i = 1 THEN parts[i] ELSE e[i - 1] \o parts[i] ]
    OBVIOUS
  <2>2. Is(e, 0)
    <3> HIDE DEF e
    <3> QED BY <2>1
  <2> HIDE DEF e, Is
  <2> QED BY <1>0, <2>2
<1>2. ASSUME NEW k \in 0 .. N - 1, k \in S PROVE k + 1 \in S
  <2>1. PICK f : Is(f, k)
    BY <1>2
  <2> DEFINE last == IF k + 1 = 1 THEN parts[k + 1] ELSE f[k] \o parts[k + 1]
             g == [ i \in 1 .. k + 1 |-> IF i = k + 1 THEN last ELSE f[i] ]
  <2>2. k \in Nat /\ k + 1 \in 0 .. N
    BY <1>0
  <2>3. \A i \in 1 .. k + 1 : g[i] = IF i = 1 THEN parts[i] ELSE g[i - 1] \o parts[i]
    <3> TAKE i \in 1 .. k + 1
    <3>1. CASE i = k + 1
      <4>1. g[i] = last
        BY <3>1
      <4>2. i # 1 => i - 1 \in 1 .. k /\ i - 1 = k /\ g[i - 1] = f[k]
        BY <2>2, <3>1
      <4> HIDE DEF g
      <4> QED BY <3>1, <4>1, <4>2
    <3>2. CASE i # k + 1
      <4>1. i \in 1 .. k /\ g[i] = f[i]
        BY <2>2, <3>2
      <4>2. i # 1 => i - 1 \in 1 .. k + 1 /\ i - 1 # k + 1 /\ g[i - 1] = f[i - 1]
        BY <2>2, <3>2
      <4>3. f[i] = IF i = 1 THEN parts[i] ELSE f[i - 1] \o parts[i]
        BY <2>1, <4>1
      <4> HIDE DEF g
      <4> QED BY <4>1, <4>2, <4>3
    <3> QED BY <3>1, <3>2
  <2>4. g = [ i \in 1 .. k + 1 |-> g[i] ]
    OBVIOUS
  <2>5. Is(g, k + 1)
    <3> HIDE DEF g
    <3> QED BY <2>3, <2>4
  <2> HIDE DEF g, Is
  <2> QED BY <2>2, <2>5
<1>3. N \in S
  <2> HIDE DEF S
  <2>1. 0 .. N \subseteq S
    BY <1>0, <1>1, <1>2, UpTo
  <2> QED BY <1>0, <2>1
<1>4. PICK f : Is(f, N)
  BY <1>3
<1>5. \A i \in 1 .. N : f[i] = IF i = 1 THEN parts[i] ELSE f[i - 1] \o parts[i]
  BY <1>4
<1>6. N # 0 => FlattenSeq(parts) = f[N]
  <2> DEFINE h == CHOOSE g : Is(g, N)
  <2>1. Is(h, N)
    <3> HIDE DEF Is
    <3> QED BY <1>4
  <2>2. N # 0 => FlattenSeq(parts) = h[N]
    BY DEF FlattenSeq
  <2> DEFINE Same == { k \in 0 .. N : k = 0 \/ h[k] = f[k] }
  <2>3. \A i \in 1 .. N : h[i] = IF i = 1 THEN parts[i] ELSE h[i - 1] \o parts[i]
    BY <2>1
  <2> HIDE DEF h, Is
  <2>4. 0 \in Same
    BY <1>0
  <2>5. ASSUME NEW k \in 0 .. N - 1, k \in Same PROVE k + 1 \in Same
    <3>1. k + 1 \in 1 .. N /\ (k + 1 # 1 => k # 0) /\ (k + 1) - 1 = k
      BY <1>0
    <3> QED BY <1>5, <2>3, <2>5, <3>1
  <2>6. N \in Same
    <3> HIDE DEF Same
    <3>1. 0 .. N \subseteq Same
      BY <1>0, <2>4, <2>5, UpTo
    <3> QED BY <1>0, <3>1
  <2> QED BY <2>2, <2>6
<1> HIDE DEF Is
<1> DEFINE All(k) == UNION { Range(parts[i]) : i \in 1 .. k }
           Good == { k \in 0 .. N : k # 0 => IsSeq(f[k]) /\ Range(f[k]) = All(k) }
<1>7. 0 .. N \subseteq Good
  <2>1. 0 \in Good
    BY <1>0
  <2>2. ASSUME NEW k \in 0 .. N - 1, k \in Good PROVE k + 1 \in Good
    <3>1. k + 1 \in 1 .. N /\ k + 1 \in 0 .. N /\ (k + 1) - 1 = k /\ k \in Nat
      BY <1>0
    <3>2. IsSeq(parts[k + 1])
      BY <3>1
    <3>3. All(k + 1) = All(k) \cup Range(parts[k + 1])
      <4>1. 1 .. k + 1 = (1 .. k) \cup {k + 1}
        BY <3>1
      <4> QED BY <4>1
    <3>4. CASE k = 0
      <4>1. f[k + 1] = parts[k + 1] /\ All(k) = {}
        BY <1>5, <3>1, <3>4
      <4> HIDE DEF All
      <4> QED BY <3>1, <3>2, <3>3, <4>1
    <3>5. CASE k # 0
      <4>0. PICK j \in 1 .. N : j = k + 1
        BY <3>1
      <4>5. j # 1 /\ j - 1 = k
        BY <3>1, <3>5, <4>0
      <4>6. f[j] = f[j - 1] \o parts[j]
        BY <1>5, <4>5
      <4>1. f[k + 1] = f[k] \o parts[k + 1]
        BY <4>0, <4>5, <4>6
      <4>2. IsSeq(f[k]) /\ Range(f[k]) = All(k)
        BY <2>2, <3>5
      <4>3. /\ IsSeq(f[k] \o parts[k + 1])
            /\ Range(f[k] \o parts[k + 1]) = Range(f[k]) \cup Range(parts[k + 1])
        BY <3>2, <4>2, SeqConcat
      <4> HIDE DEF All
      <4> QED BY <3>1, <3>3, <4>1, <4>2, <4>3
    <3> QED BY <3>4, <3>5
  <2> HIDE DEF Good
  <2> QED BY <1>0, <2>1, <2>2, UpTo
<1>8. CASE N = 0
  <2>1. FlattenSeq(parts) = parts
    BY <1>8 DEF FlattenSeq
  <2>2. Range(parts) = {}
    BY <1>0, <1>8 DEF Range
  <2> QED BY <1>0, <1>8, <2>1, <2>2
<1>9. CASE N # 0
  <2>1. N \in Good
    BY <1>0, <1>7
  <2> QED BY <1>6, <1>9, <2>1
<1> QED BY <1>8, <1>9

(* What a search makes of the position of a marking: with the byte b, the  *)
(* position of what grows out of it, if that is a marking.                 *)
LEMMA MarksStep ==
  ASSUME NEW D, IsDfa(D), NEW w \in Seq(Symbols), NEW b \in Symbols,
         NEW S, NEW m, Marks(D, w, S, m)
  PROVE  /\ S \in SUBSET (0 .. Len(w)) /\ m \in S /\ \A s \in S : s <= m
         /\ Len(w) + 1 \notin S
         /\ ~ Marks(D, Append(w, b), S, m) =>
              Advanced(D, Position(D, w, S, m), b) = {}
         /\ Marks(D, Append(w, b), S, m) =>
              /\ Advanced(D, Position(D, w, S, m), b) = {Position(D, Append(w, b), S, m)}
              /\ Position(D, Append(w, b), S, m).reading = RunTo(D, Append(w, b), m)
              /\ RunTo(D, Append(w, b), m) \in States(D)
              /\ \A closes \in BOOLEAN :
                   /\ ClosedIf(D, Position(D, Append(w, b), S, m), closes)
                        = Position(D, Append(w, b), GrownTo(S, Len(w) + 1, closes),
                                   LastOf(m, Len(w) + 1, closes))
                   /\ Marks(D, Append(w, b), GrownTo(S, Len(w) + 1, closes),
                            LastOf(m, Len(w) + 1, closes))
                        <=> (closes => Accepting(D, RunTo(D, Append(w, b), m)))
<1> DEFINE v == Append(w, b)
           L == Len(w) + 1
<1>0. Len(w) \in Nat
  OBVIOUS
<1>1. S \in SUBSET (0 .. Len(w)) /\ m \in S /\ \A s \in S : s <= m
  <2>1. m \in 0 .. Len(w) /\ S \subseteq 0 .. m /\ m \in S
    BY DEF Marks
  <2>2. \A s \in S : s \in 0 .. m
    BY <2>1
  <2>3. \A s \in S : s \in 0 .. Len(w) /\ s <= m
    BY <1>0, <2>1, <2>2
  <2> QED BY <2>1, <2>3
<1>2. L \notin S
  BY <1>0, <1>1
<1>3. m \in 0 .. Len(w)
  BY <1>1
<1>4. /\ Marks(D, v, S, m) => Advanced(D, Position(D, w, S, m), b) = {Position(D, v, S, m)}
      /\ ~ Marks(D, v, S, m) => Advanced(D, Position(D, w, S, m), b) = {}
  BY PositionAdvances
<1>5. ASSUME Marks(D, v, S, m)
      PROVE  /\ Position(D, v, S, m).reading = RunTo(D, v, m)
             /\ RunTo(D, v, m) \in States(D)
             /\ \A closes \in BOOLEAN :
                  /\ ClosedIf(D, Position(D, v, S, m), closes)
                       = Position(D, v, GrownTo(S, L, closes), LastOf(m, L, closes))
                  /\ Marks(D, v, GrownTo(S, L, closes), LastOf(m, L, closes))
                       <=> (closes => Accepting(D, RunTo(D, v, m)))
  <2>1. RunTo(D, v, m) \in States(D) \cup {NoState} /\ RunTo(D, v, m) # NoState
    BY <1>3, <1>5, AppendRuns DEF Marks
  <2>2. Closed(D, Position(D, v, S, m)) = Position(D, v, S \cup {L}, L)
    BY <1>1, <1>5, PositionCloses
  <2>3. Marks(D, v, S \cup {L}, L) <=> Marks(D, v, S, m) /\ Accepting(D, RunTo(D, v, m))
    BY <1>1, MarksClose
  <2>4. Position(D, v, S, m).reading = RunTo(D, v, m)
    BY DEF Position
  <2> HIDE DEF v, L
  <2>5. ASSUME NEW closes \in BOOLEAN
        PROVE  /\ ClosedIf(D, Position(D, v, S, m), closes)
                    = Position(D, v, GrownTo(S, L, closes), LastOf(m, L, closes))
               /\ Marks(D, v, GrownTo(S, L, closes), LastOf(m, L, closes))
                    <=> (closes => Accepting(D, RunTo(D, v, m)))
    <3>1. CASE closes = TRUE
      BY <1>5, <2>2, <2>3, <3>1 DEF ClosedIf, GrownTo, LastOf
    <3>2. CASE closes = FALSE
      BY <1>5, <3>2 DEF ClosedIf, GrownTo, LastOf
    <3> QED BY <3>1, <3>2
  <2> QED BY <2>1, <2>4, <2>5
<1> QED BY <1>1, <1>2, <1>4, <1>5

(* An input tokenizes completely just if the marking of its serial scan    *)
(* is still alive before its last byte and accepts there.                  *)
LEMMA MarksEnd ==
  ASSUME NEW D, IsDfa(D), NEW w \in Seq(Symbols), NEW b \in Symbols,
         NEW S
  PROVE  (\E m : /\ Marks(D, w, S, m) /\ Marks(D, Append(w, b), S, m)
                 /\ Accepting(D, RunTo(D, Append(w, b), m)))
         <=> /\ Complete(Serial(D, Append(w, b)), Append(w, b))
             /\ S = StartsOf(Serial(D, Append(w, b)))
<1> DEFINE v == Append(w, b)
           L == Len(w) + 1
<1>0. v \in Seq(Symbols) /\ Len(v) = L /\ Len(w) \in Nat /\ L \in Nat
  OBVIOUS
<1>1. \A T : Marks(D, v, T, Len(v)) <=>
           /\ Serial(D, v).consumed = Len(v)
           /\ T = StartsOf(Serial(D, v)) \cup {Len(v)}
  BY <1>0, MarksComplete
<1>2. Serial(D, v).consumed = Len(v) => L \notin StartsOf(Serial(D, v))
  <2>1. StartsOf(Serial(D, v)) = BeginsFrom(D, v, 0)
    BY StartsOfSerial
  <2>2. 0 \in 0 .. Len(v)
    BY <1>0
  <2>3. \A t \in TokensFrom(D, v, 0) : /\ t.begin \in 0 .. Len(v)
                                       /\ MatchLengths(D, v, t.begin) # {}
    BY <1>0, <2>2, SerialTiles
  <2>4. MatchLengths(D, v, Len(v)) = {}
    BY <1>0 DEF MatchLengths
  <2> QED BY <1>0, <2>1, <2>3, <2>4 DEF BeginsFrom
<1>3. ASSUME NEW m, Marks(D, w, S, m), Marks(D, v, S, m), Accepting(D, RunTo(D, v, m))
      PROVE  Complete(Serial(D, v), v) /\ S = StartsOf(Serial(D, v))
  <2>1. S \in SUBSET (0 .. Len(w)) /\ m \in S /\ \A s \in S : s <= m
    BY <1>3, MarksStep
  <2>2. Marks(D, v, S \cup {L}, L)
    BY <1>3, <2>1, MarksClose
  <2>3. Serial(D, v).consumed = Len(v) /\ S \cup {L} = StartsOf(Serial(D, v)) \cup {L}
    BY <1>0, <1>1, <2>2
  <2>4. L \notin S /\ L \notin StartsOf(Serial(D, v))
    BY <1>0, <1>2, <2>1, <2>3
  <2>5. S = StartsOf(Serial(D, v))
    <3> DEFINE B == StartsOf(Serial(D, v))
    <3>1. S \cup {L} = B \cup {L} /\ L \notin S /\ L \notin B
      BY <2>3, <2>4
    <3> HIDE DEF B, L
    <3>2. S = B
      BY <3>1, SameOthers
    <3> QED BY <3>2 DEF B
  <2> QED BY <2>3, <2>5 DEF Complete
<1>4. ASSUME Complete(Serial(D, v), v), S = StartsOf(Serial(D, v))
      PROVE  \E m : /\ Marks(D, w, S, m) /\ Marks(D, v, S, m)
                    /\ Accepting(D, RunTo(D, v, m))
  <2>1. L \notin S /\ Marks(D, v, S \cup {L}, L)
    BY <1>0, <1>1, <1>2, <1>4 DEF Complete
  <2>2. PICK R \in SUBSET (0 .. Len(w)), m \in 0 .. Len(w) :
           /\ Marks(D, w, R, m)
           /\ Marks(D, v, R, m)
           /\ \/ S \cup {L} = R /\ L = m
              \/ /\ S \cup {L} = R \cup {L} /\ L = L
                 /\ Accepting(D, RunTo(D, v, m))
    BY <2>1, MarksOfAppend
  <2>3. L # m /\ L \notin R
    BY <1>0
  <2>4. S = R
    <3> HIDE DEF L
    <3>1. S \cup {L} = R \cup {L} /\ L \notin S
      BY <2>1, <2>2, <2>3
    <3> QED BY <2>3, <3>1, SameOthers
  <2> QED BY <2>2, <2>3, <2>4
<1> HIDE DEF v
<1> QED BY <1>3, <1>4 DEF v

LEMMA RunsOnGrows ==
  ASSUME NEW D, IsDfa(D), NEW w \in Seq(Symbols), NEW b \in Symbols,
         NEW S, NEW m, Marks(D, w, S, m), Marks(D, Append(w, b), S, m),
         NEW closes \in BOOLEAN, closes => Accepting(D, RunTo(D, Append(w, b), m))
  PROVE  RunsOn(D, Append(w, b), GrownTo(S, Len(w) + 1, closes), LastOf(m, Len(w) + 1, closes))
         <=> RunsOn(D, w, S, m) \/ Position(D, Append(w, b), S, m).closed # {}
<1> DEFINE v == Append(w, b)
           L == Len(w) + 1
           On(s) == /\ AfterTokenAt(D, v, s) < L
                    /\ StateAfter(D, v, s)[LongestMatch(D, v, s) + 1] # NoState
<1>1. v \in Seq(Symbols) /\ Len(v) = L /\ Len(w) \in Nat /\ L \in Nat
      /\ Len(w) \in 0 .. Len(v) /\ SubSeq(v, 1, Len(w)) = w
  OBVIOUS
<1>2. S \in SUBSET (0 .. Len(w)) /\ m \in S /\ (\A s \in S : s <= m) /\ L \notin S
  BY MarksStep
<1>3. Position(D, v, S, m).closed # {} <=> \E s \in S : s # m /\ RunTo(D, v, s) # NoState
  BY DEF Position
<1>4. RunsOn(D, v, GrownTo(S, L, closes), LastOf(m, L, closes))
        <=> \E s \in S : s # m /\ On(s)
  <2>1. CASE closes = FALSE
    BY <1>1, <2>1 DEF RunsOn, GrownTo, LastOf
  <2>2. CASE closes = TRUE
    <3>1. m \in 0 .. Len(w) /\ RunTo(D, v, m) # NoState
      BY <1>2 DEF Marks
    <3>2. AfterTokenAt(D, v, m) = L
      BY <2>2, <3>1, AcceptsAtEnd
    <3>3. ~ On(m)
      BY <1>1, <3>2
    <3>4. GrownTo(S, L, closes) = S \cup {L} /\ LastOf(m, L, closes) = L
      BY <2>2 DEF GrownTo, LastOf
    <3>5. RunsOn(D, v, S \cup {L}, L) <=> \E s \in S \cup {L} : s # L /\ On(s)
      BY <1>1 DEF RunsOn
    <3> HIDE DEF On, L, v
    <3> QED BY <1>2, <3>3, <3>4, <3>5
  <2> QED BY <2>1, <2>2
<1>5. ASSUME NEW s \in S, s # m
      PROVE  /\ s \in 0 .. Len(w) /\ s < m
             /\ MatchLengths(D, w, s) # {} /\ MatchLengths(D, v, s) # {}
             /\ AfterTokenAt(D, v, s) = AfterTokenAt(D, w, s)
             /\ LongestMatch(D, v, s) = LongestMatch(D, w, s)
             /\ AfterTokenAt(D, w, s) <= Len(w)
             /\ LongestMatch(D, w, s) \in 1 .. Len(w) - s
  <2>1. s \in 0 .. Len(w) /\ s < m
    BY <1>2, <1>5
  <2>2. MatchLengths(D, w, s) # {} /\ MatchLengths(D, v, s) # {}
    BY <2>1 DEF Marks
  <2>3. m \in 0 .. Len(w)
    BY <1>2
  <2>4. Len(w) + 1 - s \notin MatchLengths(D, v, s)
    BY <1>5, <2>3, MarksAdvance
  <2>5. MatchLengths(D, v, s) = MatchLengths(D, w, s)
    BY <2>1, <2>4, MatchesUnchanged
  <2>6. LongestMatch(D, v, s) = LongestMatch(D, w, s)
    BY <2>5 DEF LongestMatch
  <2>7. LongestMatch(D, w, s) \in 1 .. Len(w) - s
    BY <2>1, <2>2, LongestMatchIsLongest
  <2> QED BY <2>1, <2>2, <2>6, <2>7 DEF AfterTokenAt
<1>6. ASSUME NEW s \in S, s # m, On(s)
      PROVE  RunsOn(D, w, S, m) \/ RunTo(D, v, s) # NoState
  <2>1. /\ LongestMatch(D, w, s) \in 1 .. Len(w) - s /\ s \in 0 .. Len(w)
        /\ StateAfter(D, v, s)[LongestMatch(D, w, s) + 1] # NoState
    BY <1>5, <1>6
  <2>2. CASE LongestMatch(D, w, s) = Len(w) - s
    <3>1. LongestMatch(D, w, s) + 1 = Len(v) - s
      BY <1>1, <2>1, <2>2
    <3> QED BY <2>1, <3>1 DEF RunTo
  <2>3. CASE LongestMatch(D, w, s) # Len(w) - s
    <3>1. LongestMatch(D, w, s) + 1 \in 0 .. Len(w) - s /\ AfterTokenAt(D, w, s) < Len(w)
      BY <1>1, <2>1, <2>3 DEF AfterTokenAt
    <3>2. \A n \in 0 .. Len(w) - s :
            StateAfter(D, SubSeq(v, 1, Len(w)), s)[n] = StateAfter(D, v, s)[n]
      BY <1>1, <2>1, StateAfterInPrefix
    <3>3. StateAfter(D, w, s)[LongestMatch(D, w, s) + 1] # NoState
      BY <1>1, <2>1, <3>1, <3>2
    <3> QED BY <1>6, <3>1, <3>3 DEF RunsOn
  <2> QED BY <2>2, <2>3
<1>7. ASSUME RunsOn(D, w, S, m)
      PROVE  \E s \in S : s # m /\ On(s)
  <2>1. PICK s \in S : /\ s # m
                       /\ AfterTokenAt(D, w, s) < Len(w)
                       /\ StateAfter(D, w, s)[LongestMatch(D, w, s) + 1] # NoState
    BY <1>7 DEF RunsOn
  <2>2. /\ LongestMatch(D, w, s) \in 1 .. Len(w) - s /\ s \in 0 .. Len(w)
        /\ AfterTokenAt(D, v, s) = AfterTokenAt(D, w, s)
        /\ LongestMatch(D, v, s) = LongestMatch(D, w, s)
    BY <1>5, <2>1
  <2>3. LongestMatch(D, w, s) + 1 \in 0 .. Len(w) - s
    BY <1>1, <2>1, <2>2 DEF AfterTokenAt
  <2>4. \A n \in 0 .. Len(w) - s :
          StateAfter(D, SubSeq(v, 1, Len(w)), s)[n] = StateAfter(D, v, s)[n]
    BY <1>1, <2>2, StateAfterInPrefix
  <2>5. StateAfter(D, v, s)[LongestMatch(D, v, s) + 1] # NoState
    BY <1>1, <2>1, <2>2, <2>3, <2>4
  <2>6. AfterTokenAt(D, v, s) < L
    <3>1. AfterTokenAt(D, w, s) \in Nat
      BY <2>2 DEF AfterTokenAt
    <3> QED BY <1>1, <2>1, <2>2, <3>1
  <2> QED BY <2>1, <2>5, <2>6
<1>8. ASSUME NEW s \in S, s # m, RunTo(D, v, s) # NoState
      PROVE  On(s)
  <2>1. /\ LongestMatch(D, w, s) \in 1 .. Len(w) - s /\ s \in 0 .. Len(w)
        /\ AfterTokenAt(D, v, s) = AfterTokenAt(D, w, s)
        /\ LongestMatch(D, v, s) = LongestMatch(D, w, s)
        /\ AfterTokenAt(D, w, s) <= Len(w)
    BY <1>5, <1>8
  <2>2. PICK n \in 0 .. Len(v) - s : n = LongestMatch(D, v, s) + 1
    <3>1. LongestMatch(D, v, s) + 1 \in 0 .. Len(v) - s
      BY <1>1, <2>1
    <3> QED BY <3>1
  <2>3. s \in 0 .. Len(v) /\ Len(v) - s \in n .. Len(v) - s
    BY <1>1, <2>1, <2>2
  <2>4. StateAfter(D, v, s)[n] # NoState
    BY <1>1, <1>8, <2>3, DeadStays DEF RunTo
  <2>5. AfterTokenAt(D, v, s) < L
    <3>1. AfterTokenAt(D, w, s) \in Nat
      BY <2>1 DEF AfterTokenAt
    <3> QED BY <1>1, <2>1, <3>1
  <2> QED BY <2>2, <2>4, <2>5
<1> HIDE DEF On, v, L
<1> QED BY <1>3, <1>4, <1>6, <1>7, <1>8 DEF v, L

(* Of a complete input, the serial scan rolls back where a run has gone on.*)
LEMMA RunsOnRollsBack ==
  ASSUME NEW D, IsDfa(D), NEW w \in Seq(Symbols), NEW b \in Symbols,
         NEW S, NEW m, Marks(D, w, S, m), Marks(D, Append(w, b), S, m),
         Accepting(D, RunTo(D, Append(w, b), m)),
         S = StartsOf(Serial(D, Append(w, b)))
  PROVE  RollsBack(D, Serial(D, Append(w, b)), Append(w, b))
         <=> RunsOn(D, Append(w, b), S, m)
<1> DEFINE v == Append(w, b)
           L == Len(w) + 1
           stream == Serial(D, v).stream
           On(s) == /\ AfterTokenAt(D, v, s) < Len(v)
                    /\ StateAfter(D, v, s)[LongestMatch(D, v, s) + 1] # NoState
<1>1. v \in Seq(Symbols) /\ Len(v) = L /\ Len(w) \in Nat /\ L \in Nat
  OBVIOUS
<1>2. m \in 0 .. Len(w) /\ RunTo(D, v, m) # NoState
  BY MarksStep DEF Marks
<1>3. AfterTokenAt(D, v, m) = L
  BY <1>2, AcceptsAtEnd
<1>4. \A i \in 1 .. Len(stream) :
        /\ stream[i].begin \in 0 .. Len(v)
        /\ stream[i].length = LongestMatch(D, v, stream[i].begin)
        /\ stream[i].length \in Nat
  <2>1. 0 \in 0 .. Len(v) /\ Serial(D, v) = SerialFrom(D, v)[0]
    BY <1>1 DEF Serial
  <2>2. \A i \in 1 .. Len(stream) : stream[i] \in TokensFrom(D, v, 0)
    BY <2>1 DEF TokensFrom
  <2>3. \A t \in TokensFrom(D, v, 0) :
          /\ t.begin \in 0 .. Len(v)
          /\ MatchLengths(D, v, t.begin) # {}
          /\ t = TokenAt(D, v, t.begin)
    BY <1>1, <2>1, SerialTiles
  <2>4. \A t \in TokensFrom(D, v, 0) :
          /\ t.begin \in 0 .. Len(v)
          /\ t.length = LongestMatch(D, v, t.begin)
          /\ t.length \in Nat
    <3> TAKE t \in TokensFrom(D, v, 0)
    <3>1. LongestMatch(D, v, t.begin) \in 1 .. Len(v) - t.begin
      BY <1>1, <2>3, LongestMatchIsLongest
    <3>2. t.length = LongestMatch(D, v, t.begin)
      BY <2>3 DEF TokenAt
    <3> QED BY <2>3, <3>1, <3>2
  <2> QED BY <2>2, <2>4
<1>5. S = { stream[i].begin : i \in 1 .. Len(stream) }
  BY DEF StartsOf
<1>6. RollsBack(D, Serial(D, v), v) <=>
        \E i \in 1 .. Len(stream) : On(stream[i].begin)
  <2>1. RollsBack(D, Serial(D, v), v) <=>
          \E i \in 1 .. Len(stream) :
             /\ stream[i].begin + (stream[i].length + 1) <= Len(v)
             /\ StateAfter(D, v, stream[i].begin)[stream[i].length + 1] # NoState
    BY DEF RollsBack
  <2>2. \A i \in 1 .. Len(stream) :
          stream[i].begin + (stream[i].length + 1) <= Len(v)
            <=> AfterTokenAt(D, v, stream[i].begin) < Len(v)
    BY <1>1, <1>4 DEF AfterTokenAt
  <2> HIDE DEF stream, v
  <2> QED BY <1>4, <2>1, <2>2
<1>7. RunsOn(D, v, S, m) <=> \E s \in S : s # m /\ On(s)
  BY DEF RunsOn
<1>8. ~ On(m)
  BY <1>1, <1>3
<1> HIDE DEF On, stream, v
<1> QED BY <1>5, <1>6, <1>7, <1>8 DEF v

(* What every search is given.                                             *)
Given ==
  /\ IsDfa(sim) /\ ~ Accepting(sim, sim.init)
  /\ IsDfa(other) /\ ~ Accepting(other, other.init)
  /\ query.window \in Seq(Symbols)
  /\ search.kind \in SearchKinds /\ search.gap \in Nat
  /\ search.kind = "covers" => search.gap < Len(query.window)
  /\ search.kind \in {"cut", "crossed"} =>
       query.window # << >> /\ search.gap <= Len(query.window)

Event(w) == EventIn(search.kind, search.gap, w, Serial(sim, w), Serial(other, w))

(* The one or two keys that a byte makes of one.                           *)
LEMMA SeqOfBranches ==
  ASSUME NEW e, NEW f, NEW c \in BOOLEAN
  PROVE  /\ IsSeq(<<e>> \o (IF c THEN <<f>> ELSE << >>))
         /\ Range(<<e>> \o (IF c THEN <<f>> ELSE << >>)) = {e} \cup (IF c THEN {f} ELSE {})
<1>1. IsSeq(<<e>>) /\ Range(<<e>>) = {e}
  BY SeqOfOne
<1>2. IsSeq(<<f>>) /\ Range(<<f>>) = {f}
  BY SeqOfOne
<1>3. IsSeq(<< >>) /\ Range(<< >>) = {}
  BY SeqOfNone
<1> DEFINE s == <<e>>
           t == IF c THEN <<f>> ELSE << >>
<1>4. IsSeq(t) /\ Range(t) = IF c THEN {f} ELSE {}
  BY <1>2, <1>3
<1>5. IsSeq(s) /\ Range(s) = {e}
  BY <1>1
<1> HIDE DEF s, t
<1>6. IsSeq(s \o t) /\ Range(s \o t) = Range(s) \cup Range(t)
  BY <1>4, <1>5, SeqConcat
<1> QED BY <1>4, <1>5, <1>6 DEF s, t

RescueKey(D, w, S, m) == Key(<<Position(D, w, S, m)>>, 0, FALSE, RunsOn(D, w, S, m))

LEMMA RescueStepIs ==
  ASSUME Given, NEW w \in Seq(Symbols), NEW b \in Symbols,
         NEW S, NEW m, Marks(sim, w, S, m),
         NEW key, key = RescueKey(sim, w, S, m)
  PROVE  /\ RescueStep(key, b).ends <=>
              /\ Marks(sim, Append(w, b), S, m)
              /\ Accepting(sim, RunTo(sim, Append(w, b), m))
              /\ RunsOn(sim, Append(w, b), S, m)
         /\ IsSeq(RescueStep(key, b).successors)
         /\ ~ RescueStep(key, b).ends =>
              Range(RescueStep(key, b).successors) =
                { RescueKey(sim, Append(w, b), GrownTo(S, Len(w) + 1, closes),
                            LastOf(m, Len(w) + 1, closes)) :
                    closes \in { c \in BOOLEAN :
                      Marks(sim, Append(w, b), GrownTo(S, Len(w) + 1, c),
                            LastOf(m, Len(w) + 1, c)) } }
<1> DEFINE v == Append(w, b)
           L == Len(w) + 1
           accepts == Accepting(sim, RunTo(sim, v, m))
           P == Position(sim, v, S, m)
           runs == RunsOn(sim, w, S, m) \/ P.closed # {}
           M(c) == Marks(sim, v, GrownTo(S, L, c), LastOf(m, L, c))
           K(c) == RescueKey(sim, v, GrownTo(S, L, c), LastOf(m, L, c))
<1>0. IsDfa(sim)
  BY DEF Given
<1>1. S \in SUBSET (0 .. Len(w)) /\ m \in S /\ \A s \in S : s <= m
  BY <1>0, MarksStep
<1>2. \A c \in BOOLEAN : M(c) <=> Marks(sim, v, S, m) /\ (c => accepts)
  BY <1>0, <1>1, GrownMarks
<1>3. /\ key.scans[1] = Position(sim, w, S, m)
      /\ key.marked = RunsOn(sim, w, S, m)
  BY DEF RescueKey, Key
<1>4. CASE ~ Marks(sim, v, S, m)
  <2>1. Advanced(sim, key.scans[1], b) = {}
    BY <1>0, <1>3, <1>4, MarksStep
  <2>2. RescueStep(key, b) = LeadsTo(<< >>)
    BY <2>1 DEF RescueStep
  <2>3. RescueStep(key, b).ends = FALSE /\ RescueStep(key, b).successors = << >>
    BY <2>2 DEF LeadsTo
  <2>4. \A c \in BOOLEAN : ~ M(c)
    BY <1>2, <1>4
  <2> HIDE DEF M, K
  <2>5. { K(closes) : closes \in { c \in BOOLEAN : M(c) } } = {}
    BY <2>4
  <2> QED BY <1>4, <2>3, <2>5, SeqOfNone DEF M, K
<1>5. CASE Marks(sim, v, S, m)
  <2>1. /\ Advanced(sim, key.scans[1], b) = {P}
        /\ P.reading = RunTo(sim, v, m)
        /\ \A c \in BOOLEAN : ClosedIf(sim, P, c)
                                = Position(sim, v, GrownTo(S, L, c), LastOf(m, L, c))
    BY <1>0, <1>3, <1>5, MarksStep
  <2>2. \A c \in BOOLEAN : (c => accepts) => (RunsOn(sim, v, GrownTo(S, L, c), LastOf(m, L, c)) <=> runs)
    BY <1>0, <1>5, RunsOnGrows
  <2>3. TheOnly({P}) = P
    BY DEF TheOnly
  <2>4. P = Position(sim, v, GrownTo(S, L, FALSE), LastOf(m, L, FALSE))
    BY <2>1 DEF ClosedIf
  <2>5. Closed(sim, P) = Position(sim, v, GrownTo(S, L, TRUE), LastOf(m, L, TRUE))
    BY <2>1 DEF ClosedIf
  <2>6. runs \in BOOLEAN /\ accepts \in BOOLEAN
    BY DEF RunsOn, Accepting
  <2>7. Key(<<P>>, 0, FALSE, runs) = K(FALSE)
    <3>1. RunsOn(sim, v, GrownTo(S, L, FALSE), LastOf(m, L, FALSE)) = runs
      BY <2>2, <2>6 DEF RunsOn
    <3> QED BY <2>4, <3>1 DEF RescueKey
  <2>8. accepts => Key(<<Closed(sim, P)>>, 0, FALSE, runs) = K(TRUE)
    <3>1. accepts => RunsOn(sim, v, GrownTo(S, L, TRUE), LastOf(m, L, TRUE)) = runs
      BY <2>2, <2>6 DEF RunsOn
    <3> QED BY <2>5, <3>1 DEF RescueKey
  <2>9. RescueStep(key, b) =
          IF accepts /\ runs THEN InputEnds
          ELSE LeadsTo(<<K(FALSE)>> \o IF accepts THEN <<K(TRUE)>> ELSE << >>)
    <3>1. RescueStep(key, b) =
            IF Accepting(sim, P.reading) /\ (key.marked \/ P.closed # {}) THEN InputEnds
            ELSE LeadsTo(<<Key(<<P>>, 0, FALSE, key.marked \/ P.closed # {})>>
                  \o IF Accepting(sim, P.reading)
                     THEN <<Key(<<Closed(sim, P)>>, 0, FALSE, key.marked \/ P.closed # {})>>
                     ELSE << >>)
      <4> HIDE DEF P
      <4> QED BY <2>1, <2>3 DEF RescueStep
    <3>2. Accepting(sim, P.reading) = accepts /\ (key.marked \/ P.closed # {}) = runs
      BY <1>3, <2>1
    <3> HIDE DEF P, K, runs, accepts
    <3> QED BY <2>7, <2>8, <3>1, <3>2
  <2>10. RunsOn(sim, v, S, m) <=> runs
    <3>1. GrownTo(S, L, FALSE) = S /\ LastOf(m, L, FALSE) = m
      BY DEF GrownTo, LastOf
    <3> QED BY <2>2, <3>1
  <2>11. { K(closes) : closes \in { c \in BOOLEAN : M(c) } }
           = {K(FALSE)} \cup IF accepts THEN {K(TRUE)} ELSE {}
    <3>1. M(FALSE) /\ (M(TRUE) <=> accepts)
      BY <1>2, <1>5
    <3> HIDE DEF M, K, accepts
    <3>2. \A x : x \in { K(closes) : closes \in { c \in BOOLEAN : M(c) } }
             <=> x = K(FALSE) \/ (accepts /\ x = K(TRUE))
      BY <3>1
    <3> QED BY <3>2
  <2> DEFINE succ == <<K(FALSE)>> \o IF accepts THEN <<K(TRUE)>> ELSE << >>
  <2>12. IsSeq(succ) /\ Range(succ) = {K(FALSE)} \cup IF accepts THEN {K(TRUE)} ELSE {}
    <3> HIDE DEF K, accepts
    <3> QED BY <2>6, SeqOfBranches
  <2>13. RescueStep(key, b) = IF accepts /\ runs THEN InputEnds ELSE LeadsTo(succ)
    BY <2>9
  <2> HIDE DEF succ
  <2>14. CASE accepts /\ runs
    <3>1. RescueStep(key, b).ends = TRUE /\ RescueStep(key, b).successors = << >>
      BY <2>13, <2>14 DEF InputEnds
    <3> QED BY <1>5, <2>10, <2>14, <3>1, SeqOfNone
  <2>15. CASE ~ (accepts /\ runs)
    <3>1. RescueStep(key, b).ends = FALSE /\ RescueStep(key, b).successors = succ
      <4>1. RescueStep(key, b) = LeadsTo(succ)
        BY <2>13, <2>15
      <4> QED BY <4>1 DEF LeadsTo
    <3> QED BY <1>5, <2>10, <2>11, <2>12, <2>15, <3>1
  <2> QED BY <2>14, <2>15
<1> QED BY <1>4, <1>5

----------------------------------------------------------------------------
(* What the keys of each search stand for: for a marking, and for what has *)
(* happened in the input read.  A pair of sides shares one marking where   *)
(* they are asked to disagree on it, a side for which it is none is dead.  *)
DifferenceKey(w, S, m, T, n) ==
  Key(<<Position(sim, w, S, m), Position(other, w, T, n)>>, 0, FALSE, S # T)

Side(D, w, S, m) == IF Marks(D, w, S, m) THEN Position(D, w, S, m) ELSE Dead(D)

SegmentationKey(w, S, m) ==
  Key(<<Side(sim, w, S, m), Side(other, w, S, m)>>, 0, FALSE, FALSE)

MatchedTo(w, window, k) ==
  IF k = Len(window) THEN OccurrencesIn(w, window) # {}
  ELSE k \in 0 .. Len(window) - 1 /\ SuffixIs(w, window, k)

OccurrenceKey(w, S, m, k) ==
  Key(<<Position(sim, w, S, m)>>, k, FALSE, k = Len(query.window))

ClaimFails(kind, gap, length, S, o) ==
  CASE kind = "covers"  -> \E s \in S : /\ s <= o + length - 1
                                        /\ s # o + gap
                                        /\ \A t \in S : t <= o + length - 1 => t <= s
    [] kind = "cut"     -> o + gap \notin S
    [] kind = "crossed" -> o + gap \in S

FailsIn(w, S) ==
  \E o \in OccurrencesIn(w, query.window) :
    ClaimFails(search.kind, search.gap, Len(query.window), S, o)

UndecidedKey(w, S, m, k) ==
  Key(<<Position(sim, w, S, m)>>, k,
      BitAt(search.kind, S, m, Len(w) - k + search.gap), FALSE)

FailedKey(w, S, m) == Key(<<Position(sim, w, S, m)>>, Len(query.window), FALSE, TRUE)

RescueTrace(w, key) == \E S, m : Marks(sim, w, S, m) /\ key = RescueKey(sim, w, S, m)

DifferenceTrace(w, key) ==
  \E S, m, T, n : /\ Marks(sim, w, S, m) /\ Marks(other, w, T, n)
                  /\ key = DifferenceKey(w, S, m, T, n)

SegmentationTrace(w, key) ==
  \E S \in SUBSET (0 .. Len(w)), m \in 0 .. Len(w) :
    /\ m \in S /\ \A s \in S : s <= m
    /\ Marks(sim, w, S, m) \/ Marks(other, w, S, m)
    /\ key = SegmentationKey(w, S, m)

OccurrenceTrace(w, key) ==
  \E S, m, k : /\ Marks(sim, w, S, m) /\ MatchedTo(w, query.window, k)
               /\ key = OccurrenceKey(w, S, m, k)

OriginTrace(w, key) ==
  \E S, m :
    /\ Marks(sim, w, S, m)
    /\ \/ \E k \in 0 .. Len(query.window) - 1 :
            SuffixIs(w, query.window, k) /\ key = UndecidedKey(w, S, m, k)
       \/ FailsIn(w, S) /\ key = FailedKey(w, S, m)

Traced(w, key) ==
  CASE search.kind = "rescue"       -> RescueTrace(w, key)
    [] search.kind = "difference"   -> DifferenceTrace(w, key)
    [] search.kind = "segmentation" -> SegmentationTrace(w, key)
    [] search.kind = "occurrence"   -> OccurrenceTrace(w, key)
    [] search.kind \in OriginKinds  -> OriginTrace(w, key)

(* A byte carries what is true of the keys of an input to those of the     *)
(* longer one: a step leads to its keys alone, and ends only where the     *)
(* event happens; every key of the longer input is led to, or the search   *)
(* ends before it; and where the event happens some step ends.             *)
CarriedOver(w, b) ==
  /\ \A key : Traced(w, key) =>
       /\ IsSeq(Step(key, b).successors)
       /\ Step(key, b).ends \in BOOLEAN
       /\ Step(key, b).ends => Event(Append(w, b))
       /\ ~ Step(key, b).ends =>
            \A k \in Range(Step(key, b).successors) : Traced(Append(w, b), k)
  /\ \A k : Traced(Append(w, b), k) =>
       \E key : /\ Traced(w, key)
                /\ Step(key, b).ends \/ k \in Range(Step(key, b).successors)
  /\ Event(Append(w, b)) => \E key : Traced(w, key) /\ Step(key, b).ends

LEMMA OfAKind ==
  ASSUME NEW w, NEW key, NEW b
  PROVE  /\ search.kind = "rescue" =>
              /\ Traced(w, key) <=> RescueTrace(w, key)
              /\ Step(key, b) = RescueStep(key, b)
         /\ search.kind = "difference" =>
              /\ Traced(w, key) <=> DifferenceTrace(w, key)
              /\ Step(key, b) = DifferenceStep(key, b)
         /\ search.kind = "segmentation" =>
              /\ Traced(w, key) <=> SegmentationTrace(w, key)
              /\ Step(key, b) = SegmentationStep(key, b)
         /\ search.kind = "occurrence" =>
              /\ Traced(w, key) <=> OccurrenceTrace(w, key)
              /\ Step(key, b) = OccurrenceStep(key, b)
         /\ search.kind \in OriginKinds =>
              /\ Traced(w, key) <=> OriginTrace(w, key)
              /\ Step(key, b) = OriginStep(key, b)
<1>1. CASE search.kind = "rescue"
  BY <1>1 DEF Traced, Step, OriginKinds
<1>2. CASE search.kind = "difference"
  BY <1>2 DEF Traced, Step, OriginKinds
<1>3. CASE search.kind = "segmentation"
  BY <1>3 DEF Traced, Step, OriginKinds
<1>4. CASE search.kind = "occurrence"
  BY <1>4 DEF Traced, Step, OriginKinds
<1>5. CASE search.kind = "covers"
  BY <1>5 DEF Traced, Step, OriginKinds
<1>6. CASE search.kind = "cut"
  BY <1>6 DEF Traced, Step, OriginKinds
<1>7. CASE search.kind = "crossed"
  BY <1>7 DEF Traced, Step, OriginKinds
<1> QED BY <1>1, <1>2, <1>3, <1>4, <1>5, <1>6, <1>7 DEF OriginKinds

LEMMA RescueCarried ==
  ASSUME Given, search.kind = "rescue", NEW w \in Seq(Symbols), NEW b \in Symbols
  PROVE  CarriedOver(w, b)
<1> DEFINE v == Append(w, b)
           L == Len(w) + 1
           M(S, m, c) == Marks(sim, v, GrownTo(S, L, c), LastOf(m, L, c))
           K(S, m, c) == RescueKey(sim, v, GrownTo(S, L, c), LastOf(m, L, c))
           next(key) == RescueStep(key, b)
<1>0. IsDfa(sim)
  BY DEF Given
<1>1. \A S, m : Marks(sim, w, S, m) =>
        /\ next(RescueKey(sim, w, S, m)).ends <=>
              /\ Marks(sim, v, S, m)
              /\ Accepting(sim, RunTo(sim, v, m))
              /\ RunsOn(sim, v, S, m)
        /\ IsSeq(next(RescueKey(sim, w, S, m)).successors)
        /\ ~ next(RescueKey(sim, w, S, m)).ends =>
             Range(next(RescueKey(sim, w, S, m)).successors) =
                { K(S, m, closes) : closes \in { c \in BOOLEAN : M(S, m, c) } }
  BY RescueStepIs
<1>2. \A key : next(key).ends \in BOOLEAN
  BY DEF RescueStep, LeadsTo, InputEnds
<1>3. \A key : /\ Traced(w, key) <=> RescueTrace(w, key)
               /\ Traced(v, key) <=> RescueTrace(v, key)
               /\ Step(key, b) = next(key)
  BY OfAKind
<1>4. Event(v) <=> Complete(Serial(sim, v), v) /\ RollsBack(sim, Serial(sim, v), v)
  BY DEF Event, EventIn
<1>5. ASSUME NEW S, NEW m, Marks(sim, w, S, m), next(RescueKey(sim, w, S, m)).ends
      PROVE  Event(v)
  <2>1. /\ Marks(sim, v, S, m)
        /\ Accepting(sim, RunTo(sim, v, m))
        /\ RunsOn(sim, v, S, m)
    BY <1>1, <1>5
  <2>2. Complete(Serial(sim, v), v) /\ S = StartsOf(Serial(sim, v))
    BY <1>0, <1>5, <2>1, MarksEnd
  <2>3. RollsBack(sim, Serial(sim, v), v)
    BY <1>0, <1>5, <2>1, <2>2, RunsOnRollsBack
  <2> QED BY <1>4, <2>2, <2>3
<1>6. ASSUME NEW S, NEW m, Marks(sim, w, S, m), ~ next(RescueKey(sim, w, S, m)).ends,
             NEW k \in Range(next(RescueKey(sim, w, S, m)).successors)
      PROVE  RescueTrace(v, k)
  <2>1. PICK c \in BOOLEAN : M(S, m, c) /\ k = K(S, m, c)
    BY <1>1, <1>6
  <2> QED BY <2>1 DEF RescueTrace
<1>7. ASSUME NEW k, RescueTrace(v, k)
      PROVE  \E key : /\ RescueTrace(w, key)
                      /\ next(key).ends \/ k \in Range(next(key).successors)
  <2>1. PICK T, n : Marks(sim, v, T, n) /\ k = RescueKey(sim, v, T, n)
    BY <1>7 DEF RescueTrace
  <2>2. PICK S \in SUBSET (0 .. Len(w)), m \in 0 .. Len(w), closes \in BOOLEAN :
           /\ Marks(sim, w, S, m) /\ Marks(sim, v, S, m)
           /\ T = GrownTo(S, L, closes) /\ n = LastOf(m, L, closes)
    BY <1>0, <2>1, MarksGrow
  <2>3. RescueTrace(w, RescueKey(sim, w, S, m))
    BY <2>2 DEF RescueTrace
  <2>4. M(S, m, closes) /\ k = K(S, m, closes)
    BY <2>1, <2>2
  <2>5. \/ next(RescueKey(sim, w, S, m)).ends
        \/ k \in Range(next(RescueKey(sim, w, S, m)).successors)
    <3> HIDE DEF M, K, next
    <3> QED BY <1>1, <2>2, <2>4
  <2> QED BY <2>3, <2>5
<1>8. ASSUME Event(v)
      PROVE  \E key : RescueTrace(w, key) /\ next(key).ends
  <2> DEFINE S == StartsOf(Serial(sim, v))
  <2>1. PICK m : /\ Marks(sim, w, S, m) /\ Marks(sim, v, S, m)
                 /\ Accepting(sim, RunTo(sim, v, m))
    BY <1>0, <1>4, <1>8, MarksEnd
  <2>2. RunsOn(sim, v, S, m)
    BY <1>0, <1>4, <1>8, <2>1, RunsOnRollsBack
  <2>3. RescueTrace(w, RescueKey(sim, w, S, m))
    BY <2>1 DEF RescueTrace
  <2>4. next(RescueKey(sim, w, S, m)).ends
    BY <1>1, <2>1, <2>2
  <2> QED BY <2>3, <2>4
<1>9. \A key : RescueTrace(w, key) => \E S, m : Marks(sim, w, S, m) /\ key = RescueKey(sim, w, S, m)
  BY DEF RescueTrace
<1>10. ASSUME NEW key, RescueTrace(w, key)
       PROVE  /\ IsSeq(next(key).successors)
              /\ next(key).ends => Event(v)
              /\ ~ next(key).ends => \A k \in Range(next(key).successors) : RescueTrace(v, k)
  <2>1. PICK S, m : Marks(sim, w, S, m) /\ key = RescueKey(sim, w, S, m)
    BY <1>10 DEF RescueTrace
  <2> HIDE DEF next, v
  <2> QED BY <1>1, <1>5, <1>6, <2>1
<1> HIDE DEF next, v
<1> QED BY <1>2, <1>3, <1>7, <1>8, <1>10 DEF CarriedOver, v

----------------------------------------------------------------------------
(* Differences: a marking of each side, and whether they differ.           *)
LEMMA SeqIf ==
  ASSUME NEW e, NEW c \in BOOLEAN
  PROVE  /\ IsSeq(IF c THEN <<e>> ELSE << >>)
         /\ Range(IF c THEN <<e>> ELSE << >>) = IF c THEN {e} ELSE {}
<1>1. CASE c = TRUE
  <2>1. IsSeq(<<e>>) /\ Range(<<e>>) = {e}
    BY SeqOfOne
  <2> QED BY <1>1, <2>1
<1>2. CASE c = FALSE
  BY <1>2, SeqOfNone
<1> QED BY <1>1, <1>2

LEMMA DifferenceStepIs ==
  ASSUME Given, NEW w \in Seq(Symbols), NEW b \in Symbols,
         NEW S, NEW m, Marks(sim, w, S, m), NEW T, NEW n, Marks(other, w, T, n),
         NEW key, key = DifferenceKey(w, S, m, T, n)
  PROVE  /\ DifferenceStep(key, b).ends <=>
              /\ Marks(sim, Append(w, b), S, m)
              /\ Accepting(sim, RunTo(sim, Append(w, b), m))
              /\ Marks(other, Append(w, b), T, n)
              /\ Accepting(other, RunTo(other, Append(w, b), n))
              /\ S # T
         /\ IsSeq(DifferenceStep(key, b).successors)
         /\ ~ DifferenceStep(key, b).ends =>
              \A k : k \in Range(DifferenceStep(key, b).successors) <=>
                \E c, d \in BOOLEAN :
                  /\ Marks(sim, Append(w, b), GrownTo(S, Len(w) + 1, c), LastOf(m, Len(w) + 1, c))
                  /\ Marks(other, Append(w, b), GrownTo(T, Len(w) + 1, d), LastOf(n, Len(w) + 1, d))
                  /\ k = DifferenceKey(Append(w, b),
                                       GrownTo(S, Len(w) + 1, c), LastOf(m, Len(w) + 1, c),
                                       GrownTo(T, Len(w) + 1, d), LastOf(n, Len(w) + 1, d))
<1> DEFINE v == Append(w, b)
           L == Len(w) + 1
           P == Position(sim, v, S, m)
           Q == Position(other, v, T, n)
           accS == Accepting(sim, RunTo(sim, v, m))
           accT == Accepting(other, RunTo(other, v, n))
           MS(c) == Marks(sim, v, GrownTo(S, L, c), LastOf(m, L, c))
           MT(d) == Marks(other, v, GrownTo(T, L, d), LastOf(n, L, d))
           K(c, d) == DifferenceKey(v, GrownTo(S, L, c), LastOf(m, L, c),
                                    GrownTo(T, L, d), LastOf(n, L, d))
           may(c, d) == (c => accS) /\ (d => accT)
           succ == (((IF may(FALSE, FALSE) THEN <<K(FALSE, FALSE)>> ELSE << >>)
                     \o (IF may(FALSE, TRUE) THEN <<K(FALSE, TRUE)>> ELSE << >>))
                     \o (IF may(TRUE, FALSE) THEN <<K(TRUE, FALSE)>> ELSE << >>))
                     \o (IF may(TRUE, TRUE) THEN <<K(TRUE, TRUE)>> ELSE << >>)
<1>0. IsDfa(sim) /\ IsDfa(other)
  BY DEF Given
<1>1. /\ S \in SUBSET (0 .. Len(w)) /\ m \in S /\ (\A s \in S : s <= m) /\ L \notin S
      /\ T \in SUBSET (0 .. Len(w)) /\ n \in T /\ (\A s \in T : s <= n) /\ L \notin T
  BY <1>0, MarksStep
<1>2. \A c \in BOOLEAN : /\ MS(c) <=> Marks(sim, v, S, m) /\ (c => accS)
                         /\ MT(c) <=> Marks(other, v, T, n) /\ (c => accT)
  BY <1>0, <1>1, GrownMarks
<1>3. /\ key.scans[1] = Position(sim, w, S, m)
      /\ key.scans[2] = Position(other, w, T, n)
      /\ key.marked = (S # T)
  BY DEF DifferenceKey, Key
<1>4. CASE ~ Marks(sim, v, S, m) \/ ~ Marks(other, v, T, n)
  <2>1. Advanced(sim, key.scans[1], b) = {} \/ Advanced(other, key.scans[2], b) = {}
    BY <1>0, <1>3, <1>4, MarksStep
  <2>2. DifferenceStep(key, b) = LeadsTo(<< >>)
    BY <2>1 DEF DifferenceStep
  <2>3. DifferenceStep(key, b).ends = FALSE /\ DifferenceStep(key, b).successors = << >>
    BY <2>2 DEF LeadsTo
  <2>4. \A c, d \in BOOLEAN : ~ (MS(c) /\ MT(d))
    BY <1>2, <1>4
  <2> HIDE DEF MS, MT
  <2> QED BY <1>4, <2>3, <2>4, SeqOfNone DEF MS, MT
<1>5. CASE Marks(sim, v, S, m) /\ Marks(other, v, T, n)
  <2>1. /\ Advanced(sim, key.scans[1], b) = {P}
        /\ P.reading = RunTo(sim, v, m)
        /\ \A c \in BOOLEAN : ClosedIf(sim, P, c)
                                = Position(sim, v, GrownTo(S, L, c), LastOf(m, L, c))
    BY <1>0, <1>3, <1>5, MarksStep
  <2>2. /\ Advanced(other, key.scans[2], b) = {Q}
        /\ Q.reading = RunTo(other, v, n)
        /\ \A c \in BOOLEAN : ClosedIf(other, Q, c)
                                = Position(other, v, GrownTo(T, L, c), LastOf(n, L, c))
    BY <1>0, <1>3, <1>5, MarksStep
  <2>3. TheOnly({P}) = P /\ TheOnly({Q}) = Q
    BY DEF TheOnly
  <2>4. \A c, d \in BOOLEAN :
          Key(<<ClosedIf(sim, P, c), ClosedIf(other, Q, d)>>, 0, FALSE, key.marked \/ c # d) = K(c, d)
    <3> TAKE c, d \in BOOLEAN
    <3>1. (key.marked \/ c # d) = (GrownTo(S, L, c) # GrownTo(T, L, d))
      <4>1. GrownTo(S, L, c) # GrownTo(T, L, d) <=> S # T \/ c # d
        BY <1>1, GrownApart
      <4> QED BY <1>3, <4>1
    <3> QED BY <2>1, <2>2, <3>1 DEF DifferenceKey
  <2>5. accS \in BOOLEAN /\ accT \in BOOLEAN
    BY DEF Accepting
  <2>6. DifferenceStep(key, b) =
          IF S # T /\ accS /\ accT THEN InputEnds ELSE LeadsTo(succ)
    <3> DEFINE old(c, d) ==
                 IF (c => Accepting(sim, P.reading)) /\ (d => Accepting(other, Q.reading))
                 THEN <<Key(<<ClosedIf(sim, P, c), ClosedIf(other, Q, d)>>,
                            0, FALSE, key.marked \/ c # d)>>
                 ELSE << >>
    <3>1. DifferenceStep(key, b) =
            IF key.marked /\ ((TRUE => Accepting(sim, P.reading))
                                /\ (TRUE => Accepting(other, Q.reading)))
            THEN InputEnds
            ELSE LeadsTo(((old(FALSE, FALSE) \o old(FALSE, TRUE)) \o old(TRUE, FALSE))
                           \o old(TRUE, TRUE))
      <4> HIDE DEF P, Q
      <4> QED BY <2>1, <2>2, <2>3 DEF DifferenceStep
    <3>2. Accepting(sim, P.reading) = accS /\ Accepting(other, Q.reading) = accT
      BY <2>1, <2>2
    <3>3. \A c, d \in BOOLEAN : old(c, d) = IF may(c, d) THEN <<K(c, d)>> ELSE << >>
      <4> TAKE c, d \in BOOLEAN
      <4>1. Key(<<ClosedIf(sim, P, c), ClosedIf(other, Q, d)>>, 0, FALSE, key.marked \/ c # d)
              = K(c, d)
        BY <2>4
      <4> HIDE DEF P, Q, K, accS, accT
      <4> QED BY <3>2, <4>1
    <3>4. /\ old(FALSE, FALSE) = IF may(FALSE, FALSE) THEN <<K(FALSE, FALSE)>> ELSE << >>
          /\ old(FALSE, TRUE) = IF may(FALSE, TRUE) THEN <<K(FALSE, TRUE)>> ELSE << >>
          /\ old(TRUE, FALSE) = IF may(TRUE, FALSE) THEN <<K(TRUE, FALSE)>> ELSE << >>
          /\ old(TRUE, TRUE) = IF may(TRUE, TRUE) THEN <<K(TRUE, TRUE)>> ELSE << >>
      <4> HIDE DEF old, may, K
      <4> QED BY <3>3
    <3> HIDE DEF old, may, K, accS, accT, P, Q
    <3> QED BY <1>3, <3>1, <3>2, <3>4
  <2>7. IsSeq(succ) /\ \A k : k \in Range(succ) <=> \E c, d \in BOOLEAN : may(c, d) /\ k = K(c, d)
    <3> DEFINE one(c, d) == IF may(c, d) THEN <<K(c, d)>> ELSE << >>
    <3>1. \A c, d \in BOOLEAN : /\ IsSeq(one(c, d))
                                /\ Range(one(c, d)) = IF may(c, d) THEN {K(c, d)} ELSE {}
      <4> TAKE c, d \in BOOLEAN
      <4>1. may(c, d) \in BOOLEAN
        BY <2>5
      <4> HIDE DEF may, K
      <4> QED BY <4>1, SeqIf
    <3>2. succ = ((one(FALSE, FALSE) \o one(FALSE, TRUE)) \o one(TRUE, FALSE)) \o one(TRUE, TRUE)
      OBVIOUS
    <3> HIDE DEF one, succ
    <3>3. /\ IsSeq(one(FALSE, FALSE) \o one(FALSE, TRUE))
          /\ Range(one(FALSE, FALSE) \o one(FALSE, TRUE))
               = Range(one(FALSE, FALSE)) \cup Range(one(FALSE, TRUE))
      BY <3>1, SeqConcat
    <3>4. /\ IsSeq((one(FALSE, FALSE) \o one(FALSE, TRUE)) \o one(TRUE, FALSE))
          /\ Range((one(FALSE, FALSE) \o one(FALSE, TRUE)) \o one(TRUE, FALSE))
               = Range(one(FALSE, FALSE) \o one(FALSE, TRUE)) \cup Range(one(TRUE, FALSE))
      BY <3>1, <3>3, SeqConcat
    <3>5. /\ IsSeq(succ)
          /\ Range(succ) = Range((one(FALSE, FALSE) \o one(FALSE, TRUE)) \o one(TRUE, FALSE))
                             \cup Range(one(TRUE, TRUE))
      BY <3>1, <3>2, <3>4, SeqConcat
    <3>6. \A k : k \in Range(succ) <=> \E c, d \in BOOLEAN : k \in Range(one(c, d))
      BY <3>3, <3>4, <3>5
    <3>7. \A k : \A c, d \in BOOLEAN : k \in Range(one(c, d)) <=> may(c, d) /\ k = K(c, d)
      <4> HIDE DEF may, K
      <4> QED BY <3>1
    <3> HIDE DEF may, K
    <3> QED BY <3>5, <3>6, <3>7
  <2>8. \A c, d \in BOOLEAN : may(c, d) <=> MS(c) /\ MT(d)
    BY <1>2, <1>5
  <2>9. CASE S # T /\ accS /\ accT
    <3>1. DifferenceStep(key, b).ends = TRUE /\ DifferenceStep(key, b).successors = << >>
      <4>1. DifferenceStep(key, b) = InputEnds
        BY <2>6, <2>9
      <4> QED BY <4>1 DEF InputEnds
    <3> QED BY <1>5, <2>9, <3>1, SeqOfNone
  <2>10. CASE ~ (S # T /\ accS /\ accT)
    <3>1. DifferenceStep(key, b).ends = FALSE /\ DifferenceStep(key, b).successors = succ
      <4>1. DifferenceStep(key, b) = LeadsTo(succ)
        BY <2>6, <2>10
      <4> QED BY <4>1 DEF LeadsTo
    <3> HIDE DEF may, MS, MT, K, succ, accS, accT
    <3>2. \A k : k \in Range(succ) <=> \E c, d \in BOOLEAN : MS(c) /\ MT(d) /\ k = K(c, d)
      BY <2>7, <2>8
    <3>3. ~ (Marks(sim, v, S, m) /\ accS /\ Marks(other, v, T, n) /\ accT /\ S # T)
      BY <2>10
    <3> QED BY <2>7, <3>1, <3>2, <3>3 DEF MS, MT, K, accS, accT
  <2> QED BY <2>9, <2>10
<1> QED BY <1>4, <1>5

LEMMA DifferenceCarried ==
  ASSUME Given, search.kind = "difference", NEW w \in Seq(Symbols), NEW b \in Symbols
  PROVE  CarriedOver(w, b)
<1> DEFINE v == Append(w, b)
           L == Len(w) + 1
           MS(S, m, c) == Marks(sim, v, GrownTo(S, L, c), LastOf(m, L, c))
           MT(S, m, c) == Marks(other, v, GrownTo(S, L, c), LastOf(m, L, c))
           Old(S, m, T, n) == DifferenceKey(w, S, m, T, n)
           K(S, m, T, n, c, d) == DifferenceKey(v, GrownTo(S, L, c), LastOf(m, L, c),
                                                GrownTo(T, L, d), LastOf(n, L, d))
           next(key) == DifferenceStep(key, b)
<1>0. IsDfa(sim) /\ IsDfa(other)
  BY DEF Given
<1>1. \A S, m, T, n : Marks(sim, w, S, m) /\ Marks(other, w, T, n) =>
        /\ next(Old(S, m, T, n)).ends <=>
              /\ Marks(sim, v, S, m)
              /\ Accepting(sim, RunTo(sim, v, m))
              /\ Marks(other, v, T, n)
              /\ Accepting(other, RunTo(other, v, n))
              /\ S # T
        /\ IsSeq(next(Old(S, m, T, n)).successors)
        /\ ~ next(Old(S, m, T, n)).ends =>
             \A k : k \in Range(next(Old(S, m, T, n)).successors) <=>
               \E c, d \in BOOLEAN : MS(S, m, c) /\ MT(T, n, d) /\ k = K(S, m, T, n, c, d)
  <2> TAKE S, m, T, n
  <2> HAVE Marks(sim, w, S, m) /\ Marks(other, w, T, n)
  <2>1. PICK key : key = DifferenceKey(w, S, m, T, n)
    OBVIOUS
  <2> QED BY <2>1, DifferenceStepIs
<1>2. \A key : next(key).ends \in BOOLEAN
  BY DEF DifferenceStep, LeadsTo, InputEnds
<1>3. \A key : /\ Traced(w, key) <=> DifferenceTrace(w, key)
               /\ Traced(v, key) <=> DifferenceTrace(v, key)
               /\ Step(key, b) = next(key)
  BY OfAKind
<1>4. Event(v) <=> /\ Complete(Serial(sim, v), v) /\ Complete(Serial(other, v), v)
                   /\ StartsOf(Serial(sim, v)) # StartsOf(Serial(other, v))
  BY DEF Event, EventIn
<1>5. ASSUME NEW S, NEW m, NEW T, NEW n, Marks(sim, w, S, m), Marks(other, w, T, n),
             next(Old(S, m, T, n)).ends
      PROVE  Event(v)
  <2>1. /\ Marks(sim, v, S, m)
        /\ Accepting(sim, RunTo(sim, v, m))
        /\ Marks(other, v, T, n)
        /\ Accepting(other, RunTo(other, v, n))
        /\ S # T
    BY <1>1, <1>5
  <2>2. Complete(Serial(sim, v), v) /\ S = StartsOf(Serial(sim, v))
    BY <1>0, <1>5, <2>1, MarksEnd
  <2>3. Complete(Serial(other, v), v) /\ T = StartsOf(Serial(other, v))
    BY <1>0, <1>5, <2>1, MarksEnd
  <2> QED BY <1>4, <2>1, <2>2, <2>3
<1>6. ASSUME NEW key, DifferenceTrace(w, key)
      PROVE  /\ IsSeq(next(key).successors)
             /\ next(key).ends => Event(v)
             /\ ~ next(key).ends => \A k \in Range(next(key).successors) : DifferenceTrace(v, k)
  <2>1. PICK S, m, T, n : /\ Marks(sim, w, S, m) /\ Marks(other, w, T, n)
                          /\ key = Old(S, m, T, n)
    BY <1>6 DEF DifferenceTrace
  <2> HIDE DEF next, Old
  <2>2. ASSUME ~ next(key).ends, NEW k \in Range(next(key).successors)
        PROVE  DifferenceTrace(v, k)
    <3>1. PICK c \in BOOLEAN, d \in BOOLEAN :
              MS(S, m, c) /\ MT(T, n, d) /\ k = K(S, m, T, n, c, d)
      <4> HIDE DEF MS, MT, K
      <4> QED BY <1>1, <2>1, <2>2
    <3> QED BY <3>1 DEF DifferenceTrace
  <2> HIDE DEF v
  <2> QED BY <1>1, <1>5, <2>1, <2>2
<1>7. ASSUME NEW k, DifferenceTrace(v, k)
      PROVE  \E key : /\ DifferenceTrace(w, key)
                      /\ next(key).ends \/ k \in Range(next(key).successors)
  <2>1. PICK A, e, B, f : /\ Marks(sim, v, A, e) /\ Marks(other, v, B, f)
                          /\ k = DifferenceKey(v, A, e, B, f)
    BY <1>7 DEF DifferenceTrace
  <2>2. PICK S \in SUBSET (0 .. Len(w)), m \in 0 .. Len(w), c \in BOOLEAN :
           /\ Marks(sim, w, S, m) /\ Marks(sim, v, S, m)
           /\ A = GrownTo(S, L, c) /\ e = LastOf(m, L, c)
    BY <1>0, <2>1, MarksGrow
  <2>3. PICK T \in SUBSET (0 .. Len(w)), n \in 0 .. Len(w), d \in BOOLEAN :
           /\ Marks(other, w, T, n) /\ Marks(other, v, T, n)
           /\ B = GrownTo(T, L, d) /\ f = LastOf(n, L, d)
    BY <1>0, <2>1, MarksGrow
  <2>4. DifferenceTrace(w, Old(S, m, T, n))
    BY <2>2, <2>3 DEF DifferenceTrace
  <2>5. MS(S, m, c) /\ MT(T, n, d) /\ k = K(S, m, T, n, c, d)
    BY <2>1, <2>2, <2>3
  <2>6. next(Old(S, m, T, n)).ends \/ k \in Range(next(Old(S, m, T, n)).successors)
    <3> HIDE DEF MS, MT, K, next, Old
    <3> QED BY <1>1, <2>2, <2>3, <2>5
  <2> QED BY <2>4, <2>6
<1>8. ASSUME Event(v)
      PROVE  \E key : DifferenceTrace(w, key) /\ next(key).ends
  <2> DEFINE S == StartsOf(Serial(sim, v))
             T == StartsOf(Serial(other, v))
  <2>1. PICK m : /\ Marks(sim, w, S, m) /\ Marks(sim, v, S, m)
                 /\ Accepting(sim, RunTo(sim, v, m))
    BY <1>0, <1>4, <1>8, MarksEnd
  <2>2. PICK n : /\ Marks(other, w, T, n) /\ Marks(other, v, T, n)
                 /\ Accepting(other, RunTo(other, v, n))
    BY <1>0, <1>4, <1>8, MarksEnd
  <2>3. DifferenceTrace(w, Old(S, m, T, n))
    BY <2>1, <2>2 DEF DifferenceTrace
  <2>4. next(Old(S, m, T, n)).ends
    BY <1>1, <1>4, <1>8, <2>1, <2>2
  <2> QED BY <2>3, <2>4
<1> HIDE DEF next, v
<1> QED BY <1>2, <1>3, <1>6, <1>7, <1>8 DEF CarriedOver, v

----------------------------------------------------------------------------
(* Segmentations: one marking, of which each side is alive or not.         *)
LEMMA SideIsDead ==
  ASSUME NEW D, IsDfa(D), NEW w \in Seq(Symbols), NEW S, NEW m
  PROVE  /\ IsDead(D, Side(D, w, S, m)) <=> ~ Marks(D, w, S, m)
         /\ Marks(D, w, S, m) => Side(D, w, S, m).reading = RunTo(D, w, m)
<1>1. CASE Marks(D, w, S, m)
  <2>1. m \in 0 .. Len(w) /\ RunTo(D, w, m) # NoState
    BY <1>1 DEF Marks
  <2>2. Len(w) - m \in 0 .. Len(w) - m
    BY <2>1
  <2>3. RunTo(D, w, m) \in States(D)
    BY <2>1, <2>2, StateAfterReachable, ReachableClosed DEF RunTo
  <2>4. Side(D, w, S, m).reading = RunTo(D, w, m)
    BY <1>1 DEF Side, Position
  <2>5. RunTo(D, w, m) # D.count
    BY <2>3 DEF States, IsDfa
  <2>6. Side(D, w, S, m) # Dead(D)
    BY <2>4, <2>5 DEF Dead
  <2> QED BY <1>1, <2>4, <2>6 DEF IsDead
<1>2. CASE ~ Marks(D, w, S, m)
  BY <1>2 DEF Side, IsDead
<1> QED BY <1>1, <1>2

LEMMA SideReads ==
  ASSUME NEW D, IsDfa(D), ~ Accepting(D, D.init),
         NEW w \in Seq(Symbols), NEW b \in Symbols,
         NEW S \in SUBSET (0 .. Len(w)), NEW m \in S, \A s \in S : s <= m
  PROVE  /\ \A closes \in BOOLEAN :
              ReadMarked(D, Side(D, w, S, m), b, closes)
                = Side(D, Append(w, b), GrownTo(S, Len(w) + 1, closes),
                       LastOf(m, Len(w) + 1, closes))
         /\ ~ (/\ ~ IsDead(D, ReadMarked(D, Side(D, w, S, m), b, TRUE))
               /\ Accepting(D, ReadMarked(D, Side(D, w, S, m), b, TRUE).reading))
         /\ /\ ~ IsDead(D, ReadMarked(D, Side(D, w, S, m), b, FALSE))
            /\ Accepting(D, ReadMarked(D, Side(D, w, S, m), b, FALSE).reading)
            <=> /\ Marks(D, Append(w, b), S, m)
                /\ Accepting(D, RunTo(D, Append(w, b), m))
<1> DEFINE v == Append(w, b)
           L == Len(w) + 1
           side == Side(D, w, S, m)
           read == IF IsDead(D, side) THEN {} ELSE Advanced(D, side, b)
           P == Position(D, v, S, m)
           accepts == Accepting(D, RunTo(D, v, m))
           M(c) == Marks(D, v, GrownTo(S, L, c), LastOf(m, L, c))
           Next_(c) == Side(D, v, GrownTo(S, L, c), LastOf(m, L, c))
<1>0. v \in Seq(Symbols)
  OBVIOUS
<1>1. IsDead(D, side) <=> ~ Marks(D, w, S, m)
  BY SideIsDead
<1>2. \A c \in BOOLEAN : M(c) <=> Marks(D, v, S, m) /\ (c => accepts)
  BY GrownMarks
<1>3. Marks(D, v, S, m) => Marks(D, w, S, m)
  <2>1. m \in 0 .. Len(w)
    OBVIOUS
  <2> QED BY <2>1, MarksAdvance
<1>4. \A c \in BOOLEAN :
        ReadMarked(D, side, b, c) =
          IF \E p \in read : c => Accepting(D, p.reading)
          THEN ClosedIf(D, CHOOSE p \in read : TRUE, c)
          ELSE Dead(D)
  BY DEF ReadMarked
<1>5. CASE ~ Marks(D, v, S, m)
  <2>1. read = {}
    <3>1. CASE IsDead(D, side)
      BY <3>1
    <3>2. CASE ~ IsDead(D, side)
      <4>1. Marks(D, w, S, m) /\ side = Position(D, w, S, m)
        BY <1>1, <3>2 DEF Side
      <4>2. Advanced(D, side, b) = {}
        BY <1>5, <4>1, MarksStep
      <4> QED BY <4>2
    <3> QED BY <3>1, <3>2
  <2>2. \A c \in BOOLEAN : ~ M(c)
    BY <1>2, <1>5
  <2>3. \A c \in BOOLEAN : ReadMarked(D, side, b, c) = Dead(D) /\ Next_(c) = Dead(D)
    <3> HIDE DEF read, side
    <3> QED BY <1>4, <2>1, <2>2 DEF Side
  <2>4. IsDead(D, Dead(D))
    BY DEF IsDead
  <2> HIDE DEF side, M, Next_
  <2> QED BY <1>5, <2>3, <2>4 DEF side, Next_
<1>6. CASE Marks(D, v, S, m)
  <2>1. Marks(D, w, S, m) /\ side = Position(D, w, S, m) /\ ~ IsDead(D, side)
    BY <1>1, <1>3, <1>6 DEF Side
  <2>2. /\ Advanced(D, side, b) = {P}
        /\ P.reading = RunTo(D, v, m)
        /\ \A c \in BOOLEAN : ClosedIf(D, P, c) = Position(D, v, GrownTo(S, L, c), LastOf(m, L, c))
    BY <1>6, <2>1, MarksStep
  <2>3. read = {P} /\ (CHOOSE p \in read : TRUE) = P
    BY <2>1, <2>2
  <2>4. \A c \in BOOLEAN : ReadMarked(D, side, b, c) = Next_(c)
    <3> TAKE c \in BOOLEAN
    <3>1. ReadMarked(D, side, b, c) = IF c => accepts THEN ClosedIf(D, P, c) ELSE Dead(D)
      <4> HIDE DEF read, P
      <4> QED BY <1>4, <2>2, <2>3
    <3>2. M(c) <=> (c => accepts)
      BY <1>2, <1>6
    <3>3. Next_(c) = IF M(c) THEN Position(D, v, GrownTo(S, L, c), LastOf(m, L, c)) ELSE Dead(D)
      BY DEF Side
    <3> QED BY <2>2, <3>1, <3>2, <3>3
  <2>5. ReadMarked(D, side, b, FALSE).reading = RunTo(D, v, m) /\ ~ IsDead(D, Next_(FALSE))
    <3>1. GrownTo(S, L, FALSE) = S /\ LastOf(m, L, FALSE) = m
      BY DEF GrownTo, LastOf
    <3>2. ~ IsDead(D, Side(D, v, S, m)) /\ Side(D, v, S, m).reading = RunTo(D, v, m)
      BY <1>0, <1>6, SideIsDead
    <3>3. Next_(FALSE) = Side(D, v, S, m)
      BY <3>1
    <3> HIDE DEF Next_, side
    <3> QED BY <2>4, <3>2, <3>3
  <2>6. ~ (~ IsDead(D, Next_(TRUE)) /\ Accepting(D, Next_(TRUE).reading))
    <3> SUFFICES ASSUME ~ IsDead(D, Next_(TRUE)) PROVE ~ Accepting(D, Next_(TRUE).reading)
      OBVIOUS
    <3>1. M(TRUE)
      BY <1>0, SideIsDead
    <3>2. Next_(TRUE) = ClosedIf(D, P, TRUE)
      BY <2>2, <3>1 DEF Side
    <3>3. ClosedIf(D, P, TRUE).reading = D.init
      BY DEF ClosedIf, Closed
    <3> QED BY <3>2, <3>3
  <2> HIDE DEF side, M, Next_
  <2> QED BY <1>6, <2>4, <2>5, <2>6 DEF side, Next_
<1> QED BY <1>5, <1>6

LEMMA SegmentationStepIs ==
  ASSUME Given, NEW w \in Seq(Symbols), NEW b \in Symbols,
         NEW S \in SUBSET (0 .. Len(w)), NEW m \in S, \A s \in S : s <= m,
         NEW key, key = SegmentationKey(w, S, m)
  PROVE  /\ SegmentationStep(key, b).ends <=>
              ~ ((/\ Marks(sim, Append(w, b), S, m)
                  /\ Accepting(sim, RunTo(sim, Append(w, b), m)))
                 <=> (/\ Marks(other, Append(w, b), S, m)
                      /\ Accepting(other, RunTo(other, Append(w, b), m))))
         /\ IsSeq(SegmentationStep(key, b).successors)
         /\ ~ SegmentationStep(key, b).ends =>
              \A k : k \in Range(SegmentationStep(key, b).successors) <=>
                \E c \in BOOLEAN :
                  /\ \/ Marks(sim, Append(w, b), GrownTo(S, Len(w) + 1, c), LastOf(m, Len(w) + 1, c))
                     \/ Marks(other, Append(w, b), GrownTo(S, Len(w) + 1, c),
                              LastOf(m, Len(w) + 1, c))
                  /\ k = SegmentationKey(Append(w, b), GrownTo(S, Len(w) + 1, c),
                                         LastOf(m, Len(w) + 1, c))
<1> DEFINE v == Append(w, b)
           L == Len(w) + 1
           mine(c) == ReadMarked(sim, key.scans[1], b, c)
           theirs(c) == ReadMarked(other, key.scans[2], b, c)
           accepts(D, p) == ~ IsDead(D, p) /\ Accepting(D, p.reading)
           endS == Marks(sim, v, S, m) /\ Accepting(sim, RunTo(sim, v, m))
           endT == Marks(other, v, S, m) /\ Accepting(other, RunTo(other, v, m))
           MS(c) == Marks(sim, v, GrownTo(S, L, c), LastOf(m, L, c))
           MT(c) == Marks(other, v, GrownTo(S, L, c), LastOf(m, L, c))
           K(c) == SegmentationKey(v, GrownTo(S, L, c), LastOf(m, L, c))
           dead(c) == IsDead(sim, mine(c)) /\ IsDead(other, theirs(c))
           symbol(c) == IF dead(c) THEN << >>
                        ELSE <<Key(<<mine(c), theirs(c)>>, 0, FALSE, FALSE)>>
<1>0. /\ IsDfa(sim) /\ IsDfa(other) /\ v \in Seq(Symbols)
      /\ ~ Accepting(sim, sim.init) /\ ~ Accepting(other, other.init)
  BY DEF Given
<1>1. key.scans[1] = Side(sim, w, S, m) /\ key.scans[2] = Side(other, w, S, m)
  BY DEF SegmentationKey, Key
<1>2. /\ \A c \in BOOLEAN : mine(c) = Side(sim, v, GrownTo(S, L, c), LastOf(m, L, c))
      /\ ~ accepts(sim, mine(TRUE))
      /\ accepts(sim, mine(FALSE)) <=> endS
  <2>1. PICK x : x = key.scans[1]
    OBVIOUS
  <2>2. x = Side(sim, w, S, m)
    BY <1>1, <2>1
  <2>3. /\ \A c \in BOOLEAN : ReadMarked(sim, x, b, c) = Side(sim, v, GrownTo(S, L, c), LastOf(m, L, c))
        /\ ~ (~ IsDead(sim, ReadMarked(sim, x, b, TRUE)) /\ Accepting(sim, ReadMarked(sim, x, b, TRUE).reading))
        /\ ~ IsDead(sim, ReadMarked(sim, x, b, FALSE)) /\ Accepting(sim, ReadMarked(sim, x, b, FALSE).reading)
             <=> endS
    BY <1>0, <2>2, SideReads
  <2> QED BY <2>1, <2>3
<1>3. /\ \A c \in BOOLEAN : theirs(c) = Side(other, v, GrownTo(S, L, c), LastOf(m, L, c))
      /\ ~ accepts(other, theirs(TRUE))
      /\ accepts(other, theirs(FALSE)) <=> endT
  <2>1. PICK x : x = key.scans[2]
    OBVIOUS
  <2>2. x = Side(other, w, S, m)
    BY <1>1, <2>1
  <2>3. /\ \A c \in BOOLEAN : ReadMarked(other, x, b, c) = Side(other, v, GrownTo(S, L, c), LastOf(m, L, c))
        /\ ~ (~ IsDead(other, ReadMarked(other, x, b, TRUE)) /\ Accepting(other, ReadMarked(other, x, b, TRUE).reading))
        /\ ~ IsDead(other, ReadMarked(other, x, b, FALSE)) /\ Accepting(other, ReadMarked(other, x, b, FALSE).reading)
             <=> endT
    BY <1>0, <2>2, SideReads
  <2> QED BY <2>1, <2>3
<1>4. \A c \in BOOLEAN : /\ dead(c) <=> ~ (MS(c) \/ MT(c))
                         /\ Key(<<mine(c), theirs(c)>>, 0, FALSE, FALSE) = K(c)
  <2> TAKE c \in BOOLEAN
  <2>1. IsDead(sim, Side(sim, v, GrownTo(S, L, c), LastOf(m, L, c))) <=> ~ MS(c)
    BY <1>0, SideIsDead
  <2>2. IsDead(other, Side(other, v, GrownTo(S, L, c), LastOf(m, L, c))) <=> ~ MT(c)
    BY <1>0, SideIsDead
  <2>3. /\ mine(c) = Side(sim, v, GrownTo(S, L, c), LastOf(m, L, c))
        /\ theirs(c) = Side(other, v, GrownTo(S, L, c), LastOf(m, L, c))
    BY <1>2, <1>3
  <2> HIDE DEF mine, theirs
  <2> QED BY <2>1, <2>2, <2>3 DEF SegmentationKey
<1>5. SegmentationStep(key, b) =
        IF \E c \in BOOLEAN : accepts(sim, mine(c)) # accepts(other, theirs(c))
        THEN InputEnds
        ELSE LeadsTo(symbol(FALSE) \o symbol(TRUE))
  BY DEF SegmentationStep
<1>6. (\E c \in BOOLEAN : accepts(sim, mine(c)) # accepts(other, theirs(c))) <=> ~ (endS <=> endT)
  <2>1. \A c \in BOOLEAN : /\ accepts(sim, mine(c)) \in BOOLEAN
                           /\ accepts(other, theirs(c)) \in BOOLEAN
    BY DEF Accepting
  <2> HIDE DEF accepts, mine, theirs, endS, endT
  <2> QED BY <1>2, <1>3, <2>1
<1>7. /\ IsSeq(symbol(FALSE) \o symbol(TRUE))
      /\ \A k : k \in Range(symbol(FALSE) \o symbol(TRUE)) <=>
                  \E c \in BOOLEAN : (MS(c) \/ MT(c)) /\ k = K(c)
  <2>1. \A c \in BOOLEAN : symbol(c) = IF MS(c) \/ MT(c) THEN <<K(c)>> ELSE << >>
    <3> HIDE DEF mine, theirs, dead, MS, MT, K
    <3> QED BY <1>4
  <2>2. \A c \in BOOLEAN : MS(c) \in BOOLEAN /\ MT(c) \in BOOLEAN
    BY DEF Marks
  <2> HIDE DEF symbol, MS, MT, K
  <2>3. \A c \in BOOLEAN : /\ IsSeq(symbol(c))
                           /\ Range(symbol(c)) = IF MS(c) \/ MT(c) THEN {K(c)} ELSE {}
    <3> TAKE c \in BOOLEAN
    <3>1. (MS(c) \/ MT(c)) \in BOOLEAN
      BY <2>2
    <3> QED BY <2>1, <3>1, SeqIf
  <2>4. /\ IsSeq(symbol(FALSE) \o symbol(TRUE))
        /\ Range(symbol(FALSE) \o symbol(TRUE)) = Range(symbol(FALSE)) \cup Range(symbol(TRUE))
    BY <2>3, SeqConcat
  <2>5. \A k : \A c \in BOOLEAN : k \in Range(symbol(c)) <=> (MS(c) \/ MT(c)) /\ k = K(c)
    BY <2>3
  <2>6. \A k : k \in Range(symbol(FALSE) \o symbol(TRUE)) <=> \E c \in BOOLEAN : k \in Range(symbol(c))
    BY <2>4
  <2> QED BY <2>4, <2>5, <2>6
<1> HIDE DEF accepts, mine, theirs, symbol, endS, endT, MS, MT, K
<1>8. CASE ~ (endS <=> endT)
  <2>1. SegmentationStep(key, b) = InputEnds
    BY <1>5, <1>6, <1>8
  <2>2. SegmentationStep(key, b).ends = TRUE /\ SegmentationStep(key, b).successors = << >>
    BY <2>1 DEF InputEnds
  <2> QED BY <1>8, <2>2, SeqOfNone DEF endS, endT
<1>9. CASE endS <=> endT
  <2>1. SegmentationStep(key, b) = LeadsTo(symbol(FALSE) \o symbol(TRUE))
    BY <1>5, <1>6, <1>9
  <2> DEFINE succ == symbol(FALSE) \o symbol(TRUE)
  <2>4. SegmentationStep(key, b) = LeadsTo(succ)
    BY <2>1
  <2>5. /\ IsSeq(succ)
        /\ \A k : k \in Range(succ) <=> \E c \in BOOLEAN : (MS(c) \/ MT(c)) /\ k = K(c)
    BY <1>7
  <2> HIDE DEF succ
  <2>2. /\ SegmentationStep(key, b).ends = FALSE
        /\ SegmentationStep(key, b).successors = succ
    BY <2>4 DEF LeadsTo
  <2>3. endS <=> endT
    BY <1>9
  <2> QED BY <2>2, <2>3, <2>5 DEF endS, endT, MS, MT, K
<1> QED BY <1>8, <1>9

LEMMA SegmentationCarried ==
  ASSUME Given, search.kind = "segmentation", NEW w \in Seq(Symbols), NEW b \in Symbols
  PROVE  CarriedOver(w, b)
<1> DEFINE v == Append(w, b)
           L == Len(w) + 1
           Of(S, m) == S \in SUBSET (0 .. Len(w)) /\ m \in S /\ \A s \in S : s <= m
           E1(S, m) == Marks(sim, v, S, m) /\ Accepting(sim, RunTo(sim, v, m))
           E2(S, m) == Marks(other, v, S, m) /\ Accepting(other, RunTo(other, v, m))
           MS(S, m, c) == Marks(sim, v, GrownTo(S, L, c), LastOf(m, L, c))
           MT(S, m, c) == Marks(other, v, GrownTo(S, L, c), LastOf(m, L, c))
           Old(S, m) == SegmentationKey(w, S, m)
           K(S, m, c) == SegmentationKey(v, GrownTo(S, L, c), LastOf(m, L, c))
           next(key) == SegmentationStep(key, b)
           full(D) == Complete(Serial(D, v), v)
           starts(D) == StartsOf(Serial(D, v))
<1>0. IsDfa(sim) /\ IsDfa(other) /\ Len(w) \in Nat /\ v \in Seq(Symbols) /\ Len(v) = L
  BY DEF Given
<1>1. \A S, m : Of(S, m) =>
        /\ next(Old(S, m)).ends <=> ~ (E1(S, m) <=> E2(S, m))
        /\ IsSeq(next(Old(S, m)).successors)
        /\ ~ next(Old(S, m)).ends =>
             \A k : k \in Range(next(Old(S, m)).successors) <=>
               \E c \in BOOLEAN : (MS(S, m, c) \/ MT(S, m, c)) /\ k = K(S, m, c)
  BY SegmentationStepIs
<1>2. \A key : next(key).ends \in BOOLEAN
  BY DEF SegmentationStep, LeadsTo, InputEnds
<1>3. \A key : /\ Traced(w, key) <=> SegmentationTrace(w, key)
               /\ Traced(v, key) <=> SegmentationTrace(v, key)
               /\ Step(key, b) = next(key)
  BY OfAKind
<1>4. Event(v) <=> ~ (full(sim) <=> full(other)) \/ (full(sim) /\ starts(sim) # starts(other))
  <2>1. full(sim) \in BOOLEAN /\ full(other) \in BOOLEAN
    BY DEF Complete
  <2>2. Event(v) <=> (full(sim) # full(other)) \/ (full(sim) /\ starts(sim) # starts(other))
    BY DEF Event, EventIn
  <2> HIDE DEF full, starts
  <2> QED BY <2>1, <2>2
<1>5. \A S, m : Of(S, m) =>
        /\ E1(S, m) <=> full(sim) /\ S = starts(sim)
        /\ E2(S, m) <=> full(other) /\ S = starts(other)
  <2> SUFFICES ASSUME NEW S, NEW m, Of(S, m), NEW D, IsDfa(D)
               PROVE  Marks(D, v, S, m) /\ Accepting(D, RunTo(D, v, m))
                        <=> full(D) /\ S = starts(D)
    BY <1>0
  <2>1. (\E n : /\ Marks(D, w, S, n) /\ Marks(D, v, S, n)
                /\ Accepting(D, RunTo(D, v, n))) <=> full(D) /\ S = starts(D)
    BY MarksEnd
  <2>2. \A n : Marks(D, w, S, n) => n = m
    <3> TAKE n
    <3> HAVE Marks(D, w, S, n)
    <3>1. n \in S /\ (\A s \in S : s <= n) /\ m \in S /\ (\A s \in S : s <= m)
      BY MarksStep
    <3>2. n \in 0 .. Len(w) /\ m \in 0 .. Len(w)
      BY <3>1
    <3>3. n <= m /\ m <= n
      BY <3>1
    <3> QED BY <3>2, <3>3
  <2>3. m \in 0 .. Len(w) /\ (Marks(D, v, S, m) => Marks(D, w, S, m))
    <3>1. m \in 0 .. Len(w)
      OBVIOUS
    <3> QED BY <3>1, MarksAdvance
  <2> HIDE DEF v, full, starts
  <2> QED BY <2>1, <2>2, <2>3
<1>6. ASSUME NEW S, NEW m, Of(S, m), next(Old(S, m)).ends
      PROVE  Event(v)
  <2> HIDE DEF Of, E1, E2, full, starts, next
  <2> QED BY <1>1, <1>4, <1>5, <1>6
<1>7. \A key : SegmentationTrace(w, key) <=>
        \E S, m : Of(S, m) /\ (Marks(sim, w, S, m) \/ Marks(other, w, S, m)) /\ key = Old(S, m)
  <2>1. \A S, m : Of(S, m) => m \in 0 .. Len(w)
    OBVIOUS
  <2> QED BY <2>1 DEF SegmentationTrace
<1>8. \A S, m, c : Of(S, m) /\ c \in BOOLEAN =>
        /\ GrownTo(S, L, c) \in SUBSET (0 .. L) /\ LastOf(m, L, c) \in 0 .. L
        /\ LastOf(m, L, c) \in GrownTo(S, L, c)
        /\ \A s \in GrownTo(S, L, c) : s <= LastOf(m, L, c)
  <2> SUFFICES ASSUME NEW S, NEW m, NEW c \in BOOLEAN, Of(S, m)
               PROVE  /\ GrownTo(S, L, c) \in SUBSET (0 .. L) /\ LastOf(m, L, c) \in 0 .. L
                      /\ LastOf(m, L, c) \in GrownTo(S, L, c)
                      /\ \A s \in GrownTo(S, L, c) : s <= LastOf(m, L, c)
    OBVIOUS
  <2>1. \A s \in S : s \in 0 .. L /\ s <= L
    BY <1>0
  <2>2. L \in 0 .. L /\ L <= L
    BY <1>0
  <2> HIDE DEF L
  <2>3. CASE c = TRUE
    BY <2>1, <2>2, <2>3 DEF GrownTo, LastOf
  <2>4. CASE c = FALSE
    BY <2>1, <2>4 DEF GrownTo, LastOf
  <2> QED BY <2>3, <2>4
<1>9. ASSUME NEW key, SegmentationTrace(w, key)
      PROVE  /\ IsSeq(next(key).successors)
             /\ next(key).ends => Event(v)
             /\ ~ next(key).ends => \A k \in Range(next(key).successors) : SegmentationTrace(v, k)
  <2>1. PICK S, m : Of(S, m) /\ key = Old(S, m)
    <3> HIDE DEF Of, Old
    <3> QED BY <1>7, <1>9
  <2>2. ASSUME ~ next(key).ends, NEW k \in Range(next(key).successors)
        PROVE  SegmentationTrace(v, k)
    <3>1. PICK c \in BOOLEAN : (MS(S, m, c) \/ MT(S, m, c)) /\ k = K(S, m, c)
      <4> HIDE DEF Of, Old, MS, MT, K, next
      <4> QED BY <1>1, <2>1, <2>2
    <3> DEFINE A == GrownTo(S, L, c)
               e == LastOf(m, L, c)
    <3>2. /\ A \in SUBSET (0 .. Len(v)) /\ e \in 0 .. Len(v)
          /\ e \in A /\ \A s \in A : s <= e
      <4> HIDE DEF Of
      <4> QED BY <1>0, <1>8, <2>1
    <3>3. (Marks(sim, v, A, e) \/ Marks(other, v, A, e)) /\ k = SegmentationKey(v, A, e)
      BY <3>1
    <3> HIDE DEF A, e
    <3> QED BY <3>2, <3>3 DEF SegmentationTrace
  <2> HIDE DEF v, next, Of, Old
  <2> QED BY <1>1, <1>6, <2>1, <2>2
<1>10. ASSUME NEW k, SegmentationTrace(v, k)
       PROVE  \E key : /\ SegmentationTrace(w, key)
                       /\ next(key).ends \/ k \in Range(next(key).successors)
  <2>1. PICK A \in SUBSET (0 .. Len(v)), e \in 0 .. Len(v) :
           /\ Marks(sim, v, A, e) \/ Marks(other, v, A, e)
           /\ k = SegmentationKey(v, A, e)
    BY <1>10 DEF SegmentationTrace
  <2>2. PICK D \in {sim, other} : Marks(D, v, A, e)
    BY <2>1
  <2>3. PICK S \in SUBSET (0 .. Len(w)), m \in 0 .. Len(w), c \in BOOLEAN :
           /\ Marks(D, w, S, m) /\ Marks(D, v, S, m)
           /\ A = GrownTo(S, L, c) /\ e = LastOf(m, L, c)
    BY <1>0, <2>2, MarksGrow
  <2>4. Of(S, m)
    BY <1>0, <2>3, MarksStep
  <2>5. SegmentationTrace(w, Old(S, m))
    <3> HIDE DEF Of, Old
    <3> QED BY <1>7, <2>2, <2>3, <2>4
  <2>6. (MS(S, m, c) \/ MT(S, m, c)) /\ k = K(S, m, c)
    BY <2>1, <2>3
  <2>7. next(Old(S, m)).ends \/ k \in Range(next(Old(S, m)).successors)
    <3> HIDE DEF MS, MT, K, next, Old, Of
    <3> QED BY <1>1, <2>4, <2>6
  <2> QED BY <2>5, <2>7
<1>11. ASSUME Event(v)
       PROVE  \E key : SegmentationTrace(w, key) /\ next(key).ends
  <2>1. PICK D \in {sim, other} :
           /\ full(D)
           /\ D = sim => ~ (full(other) /\ starts(sim) = starts(other))
           /\ D = other => ~ (full(sim) /\ starts(other) = starts(sim))
    <3> HIDE DEF full, starts
    <3> QED BY <1>4, <1>11
  <2>2. PICK m : /\ Marks(D, w, starts(D), m) /\ Marks(D, v, starts(D), m)
    BY <1>0, <2>1, MarksEnd
  <2>3. Of(starts(D), m)
    BY <1>0, <2>2, MarksStep
  <2>4. SegmentationTrace(w, Old(starts(D), m))
    <3> HIDE DEF Of, Old, starts
    <3> QED BY <1>7, <2>2, <2>3
  <2>5. ~ (E1(starts(D), m) <=> E2(starts(D), m))
    <3> HIDE DEF Of, E1, E2, full, starts
    <3> QED BY <1>5, <2>1, <2>3
  <2>6. next(Old(starts(D), m)).ends
    <3> HIDE DEF Of, E1, E2, full, starts, next, Old
    <3> QED BY <1>1, <2>3, <2>5
  <2> QED BY <2>4, <2>6
<1> HIDE DEF next, v
<1> QED BY <1>2, <1>3, <1>9, <1>10, <1>11 DEF CarriedOver, v

----------------------------------------------------------------------------
(* Occurrences of a window, and the guesses about them.                    *)
LEMMA OccurrencesAre ==
  ASSUME NEW w \in Seq(Symbols), NEW window \in Seq(Symbols)
  PROVE  \A o : o \in OccurrencesIn(w, window) <=>
                  /\ o \in 0 .. Len(w) - Len(window)
                  /\ \A i \in 1 .. Len(window) : w[o + i] = window[i]
<1> DEFINE W == Len(window)
<1>0. Len(w) \in Nat /\ W \in Nat
  OBVIOUS
<1>1. ASSUME NEW o \in 0 .. Len(w) - W
      PROVE  SubSeq(w, o + 1, o + W) = window <=> \A i \in 1 .. W : w[o + i] = window[i]
  <2> DEFINE part == SubSeq(w, o + 1, o + W)
  <2>1. o + 1 \in 1 .. Len(w) + 1 /\ o + W \in 0 .. Len(w)
    BY <1>0, <1>1
  <2>2. part \in Seq(Symbols) /\ Len(part) = W /\ \A i \in 1 .. W : part[i] = w[o + i]
    BY <1>0, <1>1, <2>1
  <2> HIDE DEF part
  <2>3. part = window <=> \A i \in 1 .. W : part[i] = window[i]
    <3>1. part = [i \in 1 .. W |-> part[i]] /\ window = [i \in 1 .. W |-> window[i]]
      BY <2>2
    <3> QED BY <3>1
  <2>4. part = window <=> \A i \in 1 .. W : w[o + i] = window[i]
    BY <2>2, <2>3
  <2> QED BY <2>4 DEF part
<1> QED BY <1>1 DEF OccurrencesIn

(* An occurrence in a longer input is one in the shorter, or ends there.   *)
LEMMA OccurrencesGrow ==
  ASSUME NEW w \in Seq(Symbols), NEW b \in Symbols, NEW window \in Seq(Symbols),
         window # << >>
  PROVE  /\ Len(window) - 1 \in Nat
         /\ \A o : o \in OccurrencesIn(Append(w, b), window) <=>
              \/ o \in OccurrencesIn(w, window)
              \/ /\ o = Len(w) + 1 - Len(window)
                 /\ SuffixIs(w, window, Len(window) - 1)
                 /\ window[Len(window)] = b
         /\ \A o \in OccurrencesIn(w, window) : o \in Nat /\ o + Len(window) <= Len(w)
<1> DEFINE v == Append(w, b)
           W == Len(window)
           last == Len(w) + 1 - W
<1>0. Len(w) \in Nat /\ W \in Nat /\ W # 0 /\ W - 1 \in Nat /\ v \in Seq(Symbols)
      /\ Len(v) = Len(w) + 1 /\ \A i \in 1 .. Len(w) : v[i] = w[i]
  OBVIOUS
<1>1. \A o : o \in OccurrencesIn(w, window) <=>
               /\ o \in 0 .. Len(w) - W
               /\ \A i \in 1 .. W : w[o + i] = window[i]
  BY OccurrencesAre
<1>2. \A o : o \in OccurrencesIn(v, window) <=>
               /\ o \in 0 .. Len(v) - W
               /\ \A i \in 1 .. W : v[o + i] = window[i]
  BY <1>0, OccurrencesAre
<1> HIDE DEF v
<1>3. SuffixIs(v, window, W) <=> SuffixIs(w, window, W - 1) /\ window[W] = b
  <2>1. PICK k \in Nat : k = W - 1
    BY <1>0
  <2>2. k + 1 = W
    BY <1>0, <2>1
  <2>3. SuffixIs(v, window, k + 1) <=> SuffixIs(w, window, k) /\ window[k + 1] = b
    BY SuffixGrows DEF v
  <2> QED BY <2>1, <2>2, <2>3
<1>4. last \in OccurrencesIn(v, window) <=> SuffixIs(v, window, W)
  <2>1. last \in 0 .. Len(v) - W <=> W \in 0 .. Len(v)
    BY <1>0
  <2>2. Len(v) - W = last
    BY <1>0
  <2> QED BY <1>2, <2>1, <2>2 DEF SuffixIs
<1>5. \A o : o # last => (o \in OccurrencesIn(v, window) <=> o \in OccurrencesIn(w, window))
  <2> TAKE o
  <2> HAVE o # last
  <2>1. o \in 0 .. Len(v) - W <=> o \in 0 .. Len(w) - W
    BY <1>0
  <2>2. o \in 0 .. Len(w) - W => \A i \in 1 .. W : v[o + i] = w[o + i]
    <3> HAVE o \in 0 .. Len(w) - W
    <3> TAKE i \in 1 .. W
    <3>1. o + i \in 1 .. Len(w)
      BY <1>0
    <3> QED BY <1>0, <3>1
  <2> QED BY <1>1, <1>2, <2>1, <2>2
<1>6. last \notin OccurrencesIn(w, window)
  <2>1. last \notin 0 .. Len(w) - W
    BY <1>0
  <2> QED BY <1>1, <2>1
<1>7. \A o \in OccurrencesIn(w, window) : o \in Nat /\ o + W <= Len(w)
  BY <1>0, <1>1
<1> HIDE DEF last
<1>8. \A o : o \in OccurrencesIn(v, window) <=>
              \/ o \in OccurrencesIn(w, window)
              \/ /\ o = last
                 /\ SuffixIs(w, window, W - 1)
                 /\ window[W] = b
  BY <1>3, <1>4, <1>5, <1>6
<1> QED BY <1>0, <1>7, <1>8 DEF last, v

(* What the matcher may go on to with a byte.                              *)
Moves(marked, k, b, j) ==
  IF marked THEN j = k
  ELSE (k = 0 /\ j = 0) \/ (query.window[k + 1] = b /\ j = k + 1)

(* The same, of a key that is marked once all of the window is matched.    *)
Goes(k, b, j) == Moves(k = Len(query.window), k, b, j)

LEMMA GuessesAre ==
  ASSUME NEW key, NEW b, NEW closes \in BOOLEAN
  PROVE  /\ IsSeq(Guesses(key, b, closes))
         /\ \A g : g \in Range(Guesses(key, b, closes)) <=>
              \E j : \E c \in BOOLEAN :
                /\ c => closes
                /\ Moves(key.marked, key.matched, b, j)
                /\ g = [matched |-> j, cuts |-> c]
<1> DEFINE branch(j) == <<[matched |-> j, cuts |-> FALSE]>>
                        \o IF closes THEN <<[matched |-> j, cuts |-> TRUE]>> ELSE << >>
           In(g, j) == \E c \in BOOLEAN : (c => closes) /\ g = [matched |-> j, cuts |-> c]
<1>1. \A j : IsSeq(branch(j)) /\ \A g : g \in Range(branch(j)) <=> In(g, j)
  <2> TAKE j
  <2> DEFINE e == [matched |-> j, cuts |-> FALSE]
             f == [matched |-> j, cuts |-> TRUE]
  <2>1. \A g : In(g, j) <=> g = e \/ (closes /\ g = f)
    OBVIOUS
  <2>2. branch(j) = <<e>> \o (IF closes THEN <<f>> ELSE << >>)
    OBVIOUS
  <2> HIDE DEF e, f, In, branch
  <2>3. /\ IsSeq(<<e>> \o (IF closes THEN <<f>> ELSE << >>))
        /\ Range(<<e>> \o (IF closes THEN <<f>> ELSE << >>)) = {e} \cup (IF closes THEN {f} ELSE {})
    BY SeqOfBranches
  <2> QED BY <2>1, <2>2, <2>3
<1>2. Guesses(key, b, closes) =
        IF key.marked THEN branch(key.matched)
        ELSE (IF key.matched = 0 THEN branch(0) ELSE << >>)
             \o IF query.window[key.matched + 1] = b THEN branch(key.matched + 1) ELSE << >>
  BY DEF Guesses
<1> HIDE DEF branch, In
<1>3. CASE key.marked
  <2>1. Guesses(key, b, closes) = branch(key.matched)
    BY <1>2, <1>3
  <2>2. \A g : g \in Range(branch(key.matched)) <=> \E j : In(g, j) /\ Moves(key.marked, key.matched, b, j)
    BY <1>1, <1>3 DEF Moves
  <2> QED BY <1>1, <2>1, <2>2 DEF In
<1>4. CASE ~ key.marked
  <2> DEFINE stay == IF key.matched = 0 THEN branch(0) ELSE << >>
             go == IF query.window[key.matched + 1] = b THEN branch(key.matched + 1) ELSE << >>
  <2>1. IsSeq(stay) /\ \A g : g \in Range(stay) <=> key.matched = 0 /\ In(g, 0)
    <3>1. CASE key.matched = 0
      BY <1>1, <3>1
    <3>2. CASE key.matched # 0
      BY <3>2, SeqOfNone
    <3> QED BY <3>1, <3>2
  <2>2. IsSeq(go) /\ \A g : g \in Range(go) <=>
                              query.window[key.matched + 1] = b /\ In(g, key.matched + 1)
    <3>1. CASE query.window[key.matched + 1] = b
      BY <1>1, <3>1
    <3>2. CASE query.window[key.matched + 1] # b
      BY <3>2, SeqOfNone
    <3> QED BY <3>1, <3>2
  <2>3. Guesses(key, b, closes) = stay \o go
    BY <1>2, <1>4
  <2> HIDE DEF stay, go
  <2>4. IsSeq(stay \o go) /\ Range(stay \o go) = Range(stay) \cup Range(go)
    BY <2>1, <2>2, SeqConcat
  <2>5. \A g : g \in Range(stay \o go) <=> \E j : In(g, j) /\ Moves(key.marked, key.matched, b, j)
    BY <1>4, <2>1, <2>2, <2>4 DEF Moves
  <2> QED BY <2>3, <2>4, <2>5 DEF In
<1> QED BY <1>3, <1>4

LEMMA MatchedGrows ==
  ASSUME query.window \in Seq(Symbols), NEW w \in Seq(Symbols), NEW b \in Symbols, NEW j
  PROVE  MatchedTo(Append(w, b), query.window, j) <=>
           \E k : /\ MatchedTo(w, query.window, k)
                  /\ Moves(k = Len(query.window), k, b, j)
<1> DEFINE v == Append(w, b)
           window == query.window
           W == Len(window)
<1>0. W \in Nat /\ v \in Seq(Symbols) /\ Len(v) = Len(w) + 1 /\ Len(w) \in Nat
  OBVIOUS
<1>1. CASE window = << >>
  <2>1. W = 0
    BY <1>1
  <2>2. \A x \in Seq(Symbols) : 0 \in OccurrencesIn(x, window)
    <3> TAKE x \in Seq(Symbols)
    <3>1. 0 \in 0 .. Len(x) - W /\ \A i \in 1 .. W : x[0 + i] = window[i]
      BY <2>1
    <3> QED BY <3>1, OccurrencesAre
  <2>3. \A x \in Seq(Symbols) : \A k : MatchedTo(x, window, k) <=> k = 0
    <3> TAKE x \in Seq(Symbols)
    <3> TAKE k
    <3>1. k \notin 0 .. 0 - 1
      OBVIOUS
    <3> QED BY <2>1, <2>2, <3>1 DEF MatchedTo
  <2> HIDE DEF v, W
  <2> QED BY <1>0, <2>1, <2>3 DEF v, W, Moves
<1>2. CASE window # << >>
  <2>1. /\ W - 1 \in Nat
        /\ \A o : o \in OccurrencesIn(v, window) <=>
             \/ o \in OccurrencesIn(w, window)
             \/ /\ o = Len(w) + 1 - W
                /\ SuffixIs(w, window, W - 1)
                /\ window[W] = b
    BY <1>2, OccurrencesGrow
  <2>2. OccurrencesIn(v, window) # {} <=>
          OccurrencesIn(w, window) # {} \/ (SuffixIs(w, window, W - 1) /\ window[W] = b)
    BY <2>1
  <2>3. \A x \in Seq(Symbols) : SuffixIs(x, window, 0)
    BY DEF SuffixIs
  <2>4. \A k \in Nat : SuffixIs(v, window, k + 1) <=> SuffixIs(w, window, k) /\ window[k + 1] = b
    <3>1. PICK x \in Seq(Symbols) : x = window
      OBVIOUS
    <3>2. \A k \in Nat : SuffixIs(Append(w, b), x, k + 1) <=> SuffixIs(w, x, k) /\ x[k + 1] = b
      BY SuffixGrows
    <3> QED BY <3>1, <3>2
  <2>5. \A k : MatchedTo(w, window, k) <=>
          \/ k = W /\ OccurrencesIn(w, window) # {}
          \/ k \in 0 .. W - 1 /\ SuffixIs(w, window, k)
    BY <1>0 DEF MatchedTo
  <2>6. MatchedTo(v, window, j) <=>
          \/ j = W /\ OccurrencesIn(v, window) # {}
          \/ j \in 0 .. W - 1 /\ SuffixIs(v, window, j)
    BY <1>0 DEF MatchedTo
  <2>7. MatchedTo(v, window, j) =>
          \E k : MatchedTo(w, window, k) /\ Moves(k = W, k, b, j)
    <3> HIDE DEF v, window, W
    <3> HAVE MatchedTo(v, window, j)
    <3>1. CASE j = W /\ OccurrencesIn(w, window) # {}
      <4>1. MatchedTo(w, window, W) /\ Moves(W = W, W, b, j)
        BY <2>5, <3>1 DEF Moves
      <4> QED BY <4>1
    <3>2. CASE j = W /\ SuffixIs(w, window, W - 1) /\ window[W] = b
      <4>1. PICK k \in Nat : k = W - 1 /\ k \in 0 .. W - 1 /\ k + 1 = W /\ k # W
        BY <1>0, <2>1
      <4>2. MatchedTo(w, window, k) /\ Moves(k = W, k, b, j)
        BY <2>5, <3>2, <4>1 DEF Moves, window
      <4> QED BY <4>2
    <3>3. CASE j \in 0 .. W - 1 /\ SuffixIs(v, window, j)
      <4>1. CASE j = 0
        <5>1. 0 \in 0 .. W - 1 /\ 0 # W
          BY <1>0, <2>1
        <5>2. MatchedTo(w, window, 0) /\ Moves(0 = W, 0, b, j)
          BY <2>3, <2>5, <4>1, <5>1 DEF Moves
        <5> QED BY <5>2
      <4>2. CASE j # 0
        <5>1. PICK k \in Nat : j = k + 1 /\ k \in 0 .. W - 1 /\ k # W
          <6>1. j - 1 \in Nat /\ j = (j - 1) + 1 /\ j - 1 \in 0 .. W - 1 /\ j - 1 # W
            BY <1>0, <3>3, <4>2
          <6> QED BY <6>1
        <5>2. SuffixIs(w, window, k) /\ window[k + 1] = b
          BY <2>4, <3>3, <5>1
        <5>3. MatchedTo(w, window, k) /\ Moves(k = W, k, b, j)
          BY <2>5, <5>1, <5>2 DEF Moves, window
        <5> QED BY <5>3
      <4> QED BY <4>1, <4>2
    <3> QED BY <2>2, <2>6, <3>1, <3>2, <3>3
  <2>8. ASSUME NEW k, MatchedTo(w, window, k), Moves(k = W, k, b, j)
        PROVE  MatchedTo(v, window, j)
    <3> HIDE DEF v, window, W
    <3>1. CASE k = W
      <4>1. j = W /\ OccurrencesIn(w, window) # {}
        <5>1. W \notin 0 .. W - 1
          BY <1>0
        <5> QED BY <2>5, <2>8, <3>1, <5>1 DEF Moves
      <4> QED BY <2>2, <2>6, <4>1
    <3>2. CASE k # W
      <4>1. k \in 0 .. W - 1 /\ SuffixIs(w, window, k)
        BY <2>5, <2>8, <3>2
      <4>2. CASE k = 0 /\ j = 0
        <5>1. 0 \in 0 .. W - 1
          BY <2>1
        <5> QED BY <1>0, <2>3, <2>6, <4>2, <5>1
      <4>3. CASE window[k + 1] = b /\ j = k + 1
        <5>1. k \in Nat
          BY <1>0, <4>1
        <5>2. SuffixIs(v, window, j)
          BY <2>4, <4>1, <4>3, <5>1
        <5>3. CASE j = W
          <6>1. W - 1 = k
            BY <1>0, <4>3, <5>1, <5>3
          <6> QED BY <2>2, <2>6, <4>1, <4>3, <5>3, <6>1
        <5>4. CASE j # W
          <6>1. j \in 0 .. W - 1
            BY <1>0, <4>1, <4>3, <5>4
          <6> QED BY <2>6, <5>2, <6>1
        <5> QED BY <5>3, <5>4
      <4> QED BY <2>8, <3>2, <4>2, <4>3 DEF Moves, window
    <3> QED BY <3>1, <3>2
  <2> QED BY <2>7, <2>8
<1> QED BY <1>1, <1>2

LEMMA SeqMapped ==
  ASSUME NEW s, IsSeq(s), NEW f, f = [ i \in DOMAIN s |-> f[i] ]
  PROVE  /\ IsSeq(f) /\ Len(f) = Len(s)
         /\ \A x : x \in Range(f) <=> \E i \in DOMAIN s : x = f[i]
<1>1. Len(s) \in Nat /\ DOMAIN s = 1 .. Len(s)
  BY SeqParts
<1> DEFINE n == Len(s)
           K == { f[i] : i \in 1 .. n }
<1>2. f \in [1 .. n -> K]
  BY <1>1
<1>3. n \in Nat
  BY <1>1
<1> HIDE DEF n
<1>4. IsSeq(f) /\ Len(f) = n /\ Range(f) = K
  BY <1>2, <1>3, SeqOfFunction
<1> QED BY <1>1, <1>4 DEF n

LEMMA RangeIndices ==
  ASSUME NEW s
  PROVE  \A x : x \in Range(s) <=> \E i \in DOMAIN s : x = s[i]
  BY DEF Range

LEMMA OccurrenceStepIs ==
  ASSUME Given, NEW w \in Seq(Symbols), NEW b \in Symbols,
         NEW S, NEW m, Marks(sim, w, S, m), NEW k,
         NEW key, key = OccurrenceKey(w, S, m, k)
  PROVE  /\ OccurrenceStep(key, b).ends <=>
              /\ Marks(sim, Append(w, b), S, m)
              /\ Accepting(sim, RunTo(sim, Append(w, b), m))
              /\ Goes(k, b, Len(query.window))
         /\ IsSeq(OccurrenceStep(key, b).successors)
         /\ ~ OccurrenceStep(key, b).ends =>
              \A x : x \in Range(OccurrenceStep(key, b).successors) <=>
                \E j : \E c \in BOOLEAN :
                  /\ Marks(sim, Append(w, b), GrownTo(S, Len(w) + 1, c), LastOf(m, Len(w) + 1, c))
                  /\ Goes(k, b, j)
                  /\ x = OccurrenceKey(Append(w, b), GrownTo(S, Len(w) + 1, c),
                                       LastOf(m, Len(w) + 1, c), j)
<1> DEFINE v == Append(w, b)
           L == Len(w) + 1
           W == Len(query.window)
           P == Position(sim, v, S, m)
           acc == Accepting(sim, RunTo(sim, v, m))
           MS(c) == Marks(sim, v, GrownTo(S, L, c), LastOf(m, L, c))
           To(j) == Goes(k, b, j)
           K(c, j) == OccurrenceKey(v, GrownTo(S, L, c), LastOf(m, L, c), j)
           guesses == Guesses(key, b, acc)
           succ == [ i \in DOMAIN guesses |-> K(guesses[i].cuts, guesses[i].matched) ]
<1>0. IsDfa(sim)
  BY DEF Given
<1>1. S \in SUBSET (0 .. Len(w)) /\ m \in S /\ (\A s \in S : s <= m) /\ L \notin S
  BY <1>0, MarksStep
<1>2. \A c \in BOOLEAN : MS(c) <=> Marks(sim, v, S, m) /\ (c => acc)
  BY <1>0, <1>1, GrownMarks
<1>3. /\ key.scans[1] = Position(sim, w, S, m)
      /\ key.matched = k /\ key.marked = (k = W)
  BY DEF OccurrenceKey, Key
<1>4. CASE ~ Marks(sim, v, S, m)
  <2>1. Advanced(sim, key.scans[1], b) = {}
    BY <1>0, <1>3, <1>4, MarksStep
  <2>2. OccurrenceStep(key, b) = LeadsTo(<< >>)
    BY <2>1 DEF OccurrenceStep
  <2>3. OccurrenceStep(key, b).ends = FALSE /\ OccurrenceStep(key, b).successors = << >>
    BY <2>2 DEF LeadsTo
  <2>4. \A c \in BOOLEAN : ~ MS(c)
    BY <1>2, <1>4
  <2> HIDE DEF MS
  <2> QED BY <1>4, <2>3, <2>4, SeqOfNone DEF MS
<1>5. CASE Marks(sim, v, S, m)
  <2>1. /\ Advanced(sim, key.scans[1], b) = {P}
        /\ P.reading = RunTo(sim, v, m)
        /\ \A c \in BOOLEAN : ClosedIf(sim, P, c)
                                = Position(sim, v, GrownTo(S, L, c), LastOf(m, L, c))
    BY <1>0, <1>3, <1>5, MarksStep
  <2>2. TheOnly({P}) = P
    BY DEF TheOnly
  <2>3. acc \in BOOLEAN
    BY DEF Accepting
  <2>4. /\ IsSeq(guesses)
        /\ \A g : g \in Range(guesses) <=>
             \E j : \E c \in BOOLEAN :
               (c => acc) /\ To(j) /\ g = [matched |-> j, cuts |-> c]
    <3> HIDE DEF acc
    <3>1. /\ IsSeq(Guesses(key, b, acc))
          /\ \A g : g \in Range(Guesses(key, b, acc)) <=>
              \E j : \E c \in BOOLEAN :
                /\ c => acc
                /\ Moves(key.marked, key.matched, b, j)
                /\ g = [matched |-> j, cuts |-> c]
      BY <2>3, GuessesAre
    <3>2. \A j : Moves(key.marked, key.matched, b, j) <=> To(j)
      BY <1>3 DEF Goes, Moves
    <3> QED BY <1>3, <3>1, <3>2
  <2>5. \A i \in DOMAIN guesses : \E j : \E c \in BOOLEAN :
           (c => acc) /\ To(j) /\ guesses[i] = [matched |-> j, cuts |-> c]
    <3> HIDE DEF guesses, acc, To
    <3> QED BY <2>4, RangeIndices
  <2>6. \A j : \A c \in BOOLEAN : (c => acc) /\ To(j) =>
           \E i \in DOMAIN guesses : guesses[i] = [matched |-> j, cuts |-> c]
    <3> HIDE DEF guesses, acc, To
    <3>1. \A x : x \in Range(guesses) <=> \E i \in DOMAIN guesses : x = guesses[i]
      BY RangeIndices
    <3> TAKE j
    <3> TAKE c \in BOOLEAN
    <3> HAVE (c => acc) /\ To(j)
    <3>2. [matched |-> j, cuts |-> c] \in Range(guesses)
      BY <2>4
    <3>3. PICK g : g = [matched |-> j, cuts |-> c]
      OBVIOUS
    <3>4. \E i \in DOMAIN guesses : g = guesses[i]
      BY <3>1, <3>2, <3>3
    <3> QED BY <3>3, <3>4
  <2>7. OccurrenceStep(key, b) =
          IF \E i \in DOMAIN guesses : guesses[i].matched = W /\ guesses[i].cuts THEN InputEnds
          ELSE LeadsTo(succ)
    <3> DEFINE old == [ i \in DOMAIN guesses |->
                          Key(<<ClosedIf(sim, P, guesses[i].cuts)>>, guesses[i].matched, FALSE,
                              guesses[i].matched = W) ]
    <3>1. OccurrenceStep(key, b) =
            IF \E i \in DOMAIN guesses : guesses[i].matched = W /\ guesses[i].cuts THEN InputEnds
            ELSE LeadsTo(old)
      <4>1. guesses = Guesses(key, b, Accepting(sim, P.reading))
        BY <2>1
      <4> HIDE DEF P, guesses
      <4> QED BY <2>1, <2>2, <4>1 DEF OccurrenceStep
    <3>2. \A i \in DOMAIN guesses :
             Key(<<ClosedIf(sim, P, guesses[i].cuts)>>, guesses[i].matched, FALSE,
                 guesses[i].matched = W) = K(guesses[i].cuts, guesses[i].matched)
      <4> TAKE i \in DOMAIN guesses
      <4>1. guesses[i].cuts \in BOOLEAN
        BY <2>5
      <4> HIDE DEF guesses, P
      <4> QED BY <2>1, <4>1 DEF OccurrenceKey
    <3>3. old = succ
      <4> HIDE DEF guesses, P, K
      <4> QED BY <3>2
    <3> HIDE DEF old, succ, guesses
    <3> QED BY <3>1, <3>3
  <2>8. IsSeq(succ) /\ \A x : x \in Range(succ) <=> \E i \in DOMAIN guesses : x = succ[i]
    <3>1. succ = [ i \in DOMAIN guesses |-> succ[i] ]
      OBVIOUS
    <3> HIDE DEF succ, guesses
    <3> QED BY <2>4, <3>1, SeqMapped
  <2>9. \A x : x \in Range(succ) <=> \E j : \E c \in BOOLEAN : MS(c) /\ To(j) /\ x = K(c, j)
    <3>1. \A x : x \in Range(succ) <=>
            \E i \in DOMAIN guesses : x = K(guesses[i].cuts, guesses[i].matched)
      BY <2>8
    <3>2. \A j, c : [matched |-> j, cuts |-> c].matched = j /\ [matched |-> j, cuts |-> c].cuts = c
      OBVIOUS
    <3> HIDE DEF guesses, succ, MS, To, K, acc
    <3>3. \A x : x \in Range(succ) => \E j : \E c \in BOOLEAN : MS(c) /\ To(j) /\ x = K(c, j)
      <4> TAKE x
      <4> HAVE x \in Range(succ)
      <4>1. PICK i \in DOMAIN guesses : x = K(guesses[i].cuts, guesses[i].matched)
        BY <3>1
      <4>2. PICK j : \E c \in BOOLEAN : (c => acc) /\ To(j) /\ guesses[i] = [matched |-> j, cuts |-> c]
        BY <2>5
      <4>3. PICK c \in BOOLEAN : (c => acc) /\ To(j) /\ guesses[i] = [matched |-> j, cuts |-> c]
        BY <4>2
      <4>4. guesses[i].cuts = c /\ guesses[i].matched = j
        BY <3>2, <4>3
      <4> QED BY <1>2, <1>5, <4>1, <4>3, <4>4
    <3>4. \A x : (\E j : \E c \in BOOLEAN : MS(c) /\ To(j) /\ x = K(c, j)) => x \in Range(succ)
      <4> TAKE x
      <4> HAVE \E j : \E c \in BOOLEAN : MS(c) /\ To(j) /\ x = K(c, j)
      <4>1. PICK j : \E c \in BOOLEAN : MS(c) /\ To(j) /\ x = K(c, j)
        OBVIOUS
      <4>2. PICK c \in BOOLEAN : MS(c) /\ To(j) /\ x = K(c, j)
        BY <4>1
      <4>3. PICK i \in DOMAIN guesses : guesses[i] = [matched |-> j, cuts |-> c]
        BY <1>2, <2>6, <4>2
      <4>4. guesses[i].cuts = c /\ guesses[i].matched = j
        BY <3>2, <4>3
      <4> QED BY <3>1, <4>2, <4>4
    <3> QED BY <3>3, <3>4
  <2>10. (\E i \in DOMAIN guesses : guesses[i].matched = W /\ guesses[i].cuts) <=> acc /\ To(W)
    <3> HIDE DEF guesses, acc, To, W
    <3>1. ASSUME acc, To(W) PROVE \E i \in DOMAIN guesses : guesses[i].matched = W /\ guesses[i].cuts
      <4>1. PICK i \in DOMAIN guesses : guesses[i] = [matched |-> W, cuts |-> TRUE]
        BY <2>6, <3>1
      <4> QED BY <4>1
    <3>2. ASSUME NEW i \in DOMAIN guesses, guesses[i].matched = W, guesses[i].cuts
          PROVE  acc /\ To(W)
      <4>1. PICK j : \E c \in BOOLEAN : (c => acc) /\ To(j) /\ guesses[i] = [matched |-> j, cuts |-> c]
        BY <2>5
      <4>2. PICK c \in BOOLEAN : (c => acc) /\ To(j) /\ guesses[i] = [matched |-> j, cuts |-> c]
        BY <4>1
      <4>3. j = W /\ c
        BY <3>2, <4>2
      <4> QED BY <4>2, <4>3
    <3> QED BY <3>1, <3>2
  <2> HIDE DEF guesses, succ, MS, To, K, acc
  <2>11. CASE acc /\ To(W)
    <3>1. OccurrenceStep(key, b) = InputEnds
      BY <2>7, <2>10, <2>11
    <3>2. OccurrenceStep(key, b).ends = TRUE /\ OccurrenceStep(key, b).successors = << >>
      BY <3>1 DEF InputEnds
    <3> QED BY <1>5, <2>11, <3>2, SeqOfNone DEF acc, To
  <2>12. CASE ~ (acc /\ To(W))
    <3>1. OccurrenceStep(key, b) = LeadsTo(succ)
      BY <2>7, <2>10, <2>12
    <3>2. OccurrenceStep(key, b).ends = FALSE /\ OccurrenceStep(key, b).successors = succ
      BY <3>1 DEF LeadsTo
    <3>3. ~ (Marks(sim, v, S, m) /\ acc /\ To(W))
      BY <2>12
    <3> QED BY <2>8, <2>9, <3>2, <3>3 DEF acc, To, MS, K
  <2> QED BY <2>11, <2>12
<1> QED BY <1>4, <1>5

LEMMA OccurrenceCarried ==
  ASSUME Given, search.kind = "occurrence", NEW w \in Seq(Symbols), NEW b \in Symbols
  PROVE  CarriedOver(w, b)
<1> DEFINE v == Append(w, b)
           L == Len(w) + 1
           W == Len(query.window)
           MS(S, m, c) == Marks(sim, v, GrownTo(S, L, c), LastOf(m, L, c))
           To(k, j) == Goes(k, b, j)
           Old(S, m, k) == OccurrenceKey(w, S, m, k)
           K(S, m, c, j) == OccurrenceKey(v, GrownTo(S, L, c), LastOf(m, L, c), j)
           Ends(S, m) == Marks(sim, v, S, m) /\ Accepting(sim, RunTo(sim, v, m))
           next(key) == OccurrenceStep(key, b)
           Mw(k) == MatchedTo(w, query.window, k)
           Mv(k) == MatchedTo(v, query.window, k)
<1>0. IsDfa(sim) /\ query.window \in Seq(Symbols)
  BY DEF Given
<1>1. \A S, m, k : Marks(sim, w, S, m) =>
        /\ next(Old(S, m, k)).ends <=> Ends(S, m) /\ To(k, W)
        /\ IsSeq(next(Old(S, m, k)).successors)
        /\ ~ next(Old(S, m, k)).ends =>
             \A x : x \in Range(next(Old(S, m, k)).successors) <=>
               \E j : \E c \in BOOLEAN : MS(S, m, c) /\ To(k, j) /\ x = K(S, m, c, j)
  <2> TAKE S, m, k
  <2> HAVE Marks(sim, w, S, m)
  <2>1. PICK key : key = OccurrenceKey(w, S, m, k)
    OBVIOUS
  <2>2. /\ OccurrenceStep(key, b).ends <=>
             /\ Marks(sim, Append(w, b), S, m)
             /\ Accepting(sim, RunTo(sim, Append(w, b), m))
             /\ Goes(k, b, Len(query.window))
        /\ IsSeq(OccurrenceStep(key, b).successors)
        /\ ~ OccurrenceStep(key, b).ends =>
             \A x : x \in Range(OccurrenceStep(key, b).successors) <=>
               \E j : \E c \in BOOLEAN :
                 /\ Marks(sim, Append(w, b), GrownTo(S, Len(w) + 1, c), LastOf(m, Len(w) + 1, c))
                 /\ Goes(k, b, j)
                 /\ x = OccurrenceKey(Append(w, b), GrownTo(S, Len(w) + 1, c),
                                      LastOf(m, Len(w) + 1, c), j)
    BY <2>1, OccurrenceStepIs
  <2> QED BY <2>1, <2>2
<1>2. \A key : next(key).ends \in BOOLEAN
  BY DEF OccurrenceStep, LeadsTo, InputEnds
<1>3. \A key : /\ Traced(w, key) <=> OccurrenceTrace(w, key)
               /\ Traced(v, key) <=> OccurrenceTrace(v, key)
               /\ Step(key, b) = next(key)
  BY OfAKind
<1>4. Event(v) <=> Complete(Serial(sim, v), v) /\ Mv(W)
  <2>1. v # << >>
    <3>1. Len(v) = Len(w) + 1 /\ Len(w) \in Nat
      OBVIOUS
    <3> HIDE DEF v
    <3> QED BY <3>1
  <2>2. W \notin 0 .. W - 1
    BY <1>0
  <2> HIDE DEF v
  <2>3. Mv(W) <=> OccurrencesIn(v, query.window) # {}
    BY <2>2 DEF MatchedTo
  <2>4. Event(v) <=> Complete(Serial(sim, v), v) /\ OccurrencesIn(v, query.window) # {}
    BY <2>1 DEF Event, EventIn
  <2> QED BY <2>3, <2>4
<1>5. \A j : Mv(j) <=> \E k : Mw(k) /\ To(k, j)
  BY <1>0, MatchedGrows DEF Goes
<1>6. \A S : (\E m : Marks(sim, w, S, m) /\ Ends(S, m))
               <=> Complete(Serial(sim, v), v) /\ S = StartsOf(Serial(sim, v))
  BY <1>0, MarksEnd
<1>7. \A key : OccurrenceTrace(w, key) <=>
        \E S, m, k : Marks(sim, w, S, m) /\ Mw(k) /\ key = Old(S, m, k)
  BY DEF OccurrenceTrace
<1>8. \A key : OccurrenceTrace(v, key) <=>
        \E S, m, k : Marks(sim, v, S, m) /\ Mv(k) /\ key = OccurrenceKey(v, S, m, k)
  BY DEF OccurrenceTrace
<1>9. ASSUME NEW key, OccurrenceTrace(w, key)
      PROVE  /\ IsSeq(next(key).successors)
             /\ next(key).ends => Event(v)
             /\ ~ next(key).ends => \A x \in Range(next(key).successors) : OccurrenceTrace(v, x)
  <2> HIDE DEF Mw, Mv, To, Old, Ends, next
  <2>1. PICK S, m, k : Marks(sim, w, S, m) /\ Mw(k) /\ key = Old(S, m, k)
    BY <1>7, <1>9
  <2>2. ASSUME ~ next(key).ends, NEW x \in Range(next(key).successors)
        PROVE  OccurrenceTrace(v, x)
    <3>1. PICK j : \E c \in BOOLEAN : MS(S, m, c) /\ To(k, j) /\ x = K(S, m, c, j)
      <4> HIDE DEF MS, K, v
      <4> QED BY <1>1, <2>1, <2>2
    <3>2. PICK c \in BOOLEAN : MS(S, m, c) /\ To(k, j) /\ x = K(S, m, c, j)
      BY <3>1
    <3>3. Mv(j)
      BY <1>5, <2>1, <3>2
    <3> HIDE DEF v
    <3> QED BY <1>8, <3>2, <3>3
  <2> HIDE DEF v, MS, K
  <2> QED BY <1>1, <1>4, <1>5, <1>6, <2>1, <2>2
<1>10. ASSUME NEW x, OccurrenceTrace(v, x)
       PROVE  \E key : /\ OccurrenceTrace(w, key)
                       /\ next(key).ends \/ x \in Range(next(key).successors)
  <2> HIDE DEF Mw, Mv, To, Old, Ends, next
  <2>1. PICK T, n, j : Marks(sim, v, T, n) /\ Mv(j) /\ x = OccurrenceKey(v, T, n, j)
    BY <1>8, <1>10
  <2>2. PICK S \in SUBSET (0 .. Len(w)), m \in 0 .. Len(w), c \in BOOLEAN :
           /\ Marks(sim, w, S, m) /\ Marks(sim, v, S, m)
           /\ T = GrownTo(S, L, c) /\ n = LastOf(m, L, c)
    BY <1>0, <2>1, MarksGrow
  <2>3. PICK k : Mw(k) /\ To(k, j)
    BY <1>5, <2>1
  <2>4. MS(S, m, c) /\ x = K(S, m, c, j)
    BY <2>1, <2>2
  <2>5. OccurrenceTrace(w, Old(S, m, k))
    BY <1>7, <2>2, <2>3
  <2>6. next(Old(S, m, k)).ends \/ x \in Range(next(Old(S, m, k)).successors)
    <3> HIDE DEF MS, K, v
    <3> QED BY <1>1, <2>2, <2>3, <2>4
  <2> QED BY <2>5, <2>6
<1>11. ASSUME Event(v)
       PROVE  \E key : OccurrenceTrace(w, key) /\ next(key).ends
  <2> HIDE DEF Mw, Mv, To, Old, Ends, next, v, MS, K
  <2>1. PICK S, m : Marks(sim, w, S, m) /\ Ends(S, m)
    BY <1>4, <1>6, <1>11
  <2>2. PICK k : Mw(k) /\ To(k, W)
    BY <1>4, <1>5, <1>11
  <2>3. OccurrenceTrace(w, Old(S, m, k))
    BY <1>7, <2>1, <2>2
  <2>4. next(Old(S, m, k)).ends
    BY <1>1, <2>1, <2>2
  <2> QED BY <2>3, <2>4
<1> HIDE DEF next, v
<1> QED BY <1>2, <1>3, <1>9, <1>10, <1>11 DEF CarriedOver, v

----------------------------------------------------------------------------
(* The claims about the origin of an occurrence.                           *)
Guessed(key, b, j) == Moves(key.marked, key.matched, b, j)

Guess(j, c) == [matched |-> j, cuts |-> c]

Through(key, g) == ~ key.marked /\ g.matched = Len(query.window)

Kept(key, g) == ~ (Through(key, g) /\ KeepsClaim(key, g))

AfterGuess(key, position, g) ==
  Key(<<position>>, g.matched, OriginBit(key, g) /\ ~ (key.marked \/ Through(key, g)),
      key.marked \/ Through(key, g))

(* What a search makes of a key of a marking, by the guesses about it.     *)
OriginFollows(w, b, S, m, key) ==
  /\ OriginStep(key, b).ends <=>
       /\ Marks(sim, Append(w, b), S, m)
       /\ Accepting(sim, RunTo(sim, Append(w, b), m))
       /\ \E j : /\ Guessed(key, b, j)
                 /\ Kept(key, Guess(j, TRUE))
                 /\ key.marked \/ Through(key, Guess(j, TRUE))
  /\ IsSeq(OriginStep(key, b).successors)
  /\ ~ OriginStep(key, b).ends =>
       \A x : x \in Range(OriginStep(key, b).successors) <=>
         \E j : \E c \in BOOLEAN :
           /\ Marks(sim, Append(w, b), GrownTo(S, Len(w) + 1, c), LastOf(m, Len(w) + 1, c))
           /\ Guessed(key, b, j)
           /\ Kept(key, Guess(j, c))
           /\ x = AfterGuess(key, Position(sim, Append(w, b), GrownTo(S, Len(w) + 1, c),
                                           LastOf(m, Len(w) + 1, c)), Guess(j, c))

(* Where a guess about a key takes it: on, or through the whole window,    *)
(* where it is kept just if the claim fails.                               *)
UndecidedFollows(w, b, S, m, k, c, j, position, key) ==
  /\ key.marked = FALSE
  /\ Guessed(key, b, j) <=>
       (k = 0 /\ j = 0) \/ (query.window[k + 1] = b /\ j = k + 1)
  /\ Guessed(key, b, j) /\ j # Len(query.window) =>
       /\ ~ Through(key, Guess(j, c))
       /\ Kept(key, Guess(j, c))
       /\ AfterGuess(key, position, Guess(j, c)) =
            Key(<<position>>, j,
                BitAt(search.kind, GrownTo(S, Len(w) + 1, c), LastOf(m, Len(w) + 1, c),
                      (Len(w) + 1) - j + search.gap), FALSE)
  /\ Guessed(key, b, j) /\ j = Len(query.window) =>
       /\ Through(key, Guess(j, c))
       /\ Kept(key, Guess(j, c)) <=>
            ClaimFails(search.kind, search.gap, Len(query.window),
                  GrownTo(S, Len(w) + 1, c), (Len(w) + 1) - Len(query.window))
       /\ AfterGuess(key, position, Guess(j, c)) =
            Key(<<position>>, Len(query.window), FALSE, TRUE)

FailedFollows(b, c, j, position, key) ==
  /\ key.marked = TRUE
  /\ Guessed(key, b, j) <=> j = Len(query.window)
  /\ Kept(key, Guess(j, c))
  /\ Guessed(key, b, j) =>
       AfterGuess(key, position, Guess(j, c)) =
         Key(<<position>>, Len(query.window), FALSE, TRUE)

(* The guesses that keep the claim are dropped, the others followed.       *)
LEMMA OriginStepIs ==
  ASSUME Given, NEW w \in Seq(Symbols), NEW b \in Symbols,
         NEW S, NEW m, Marks(sim, w, S, m),
         NEW key, key.scans[1] = Position(sim, w, S, m)
  PROVE  OriginFollows(w, b, S, m, key)
<1> DEFINE v == Append(w, b)
           L == Len(w) + 1
           P == Position(sim, v, S, m)
           acc == Accepting(sim, RunTo(sim, v, m))
           MS(c) == Marks(sim, v, GrownTo(S, L, c), LastOf(m, L, c))
           To(j) == Guessed(key, b, j)
           Pos(c) == Position(sim, v, GrownTo(S, L, c), LastOf(m, L, c))
           K(g) == AfterGuess(key, Pos(g.cuts), g)
           guesses == Guesses(key, b, acc)
           Ends(g) == Kept(key, g) /\ (key.marked \/ Through(key, g)) /\ g.cuts
           parts == [ i \in DOMAIN guesses |->
                        IF ~ Kept(key, guesses[i]) THEN << >> ELSE <<K(guesses[i])>> ]
           succ == FlattenSeq(parts)
<1> USE DEF OriginFollows
<1>0. IsDfa(sim)
  BY DEF Given
<1>1. S \in SUBSET (0 .. Len(w)) /\ m \in S /\ (\A s \in S : s <= m) /\ L \notin S
  BY <1>0, MarksStep
<1>2. \A c \in BOOLEAN : MS(c) <=> Marks(sim, v, S, m) /\ (c => acc)
  BY <1>0, <1>1, GrownMarks
<1>4. CASE ~ Marks(sim, v, S, m)
  <2>1. Advanced(sim, key.scans[1], b) = {}
    BY <1>0, <1>4, MarksStep
  <2>2. OriginStep(key, b) = LeadsTo(<< >>)
    BY <2>1 DEF OriginStep
  <2>3. OriginStep(key, b).ends = FALSE /\ OriginStep(key, b).successors = << >>
    BY <2>2 DEF LeadsTo
  <2>4. \A c \in BOOLEAN : ~ MS(c)
    BY <1>2, <1>4
  <2> HIDE DEF MS
  <2> QED BY <1>4, <2>3, <2>4, SeqOfNone DEF MS
<1>5. CASE Marks(sim, v, S, m)
  <2>1. /\ Advanced(sim, key.scans[1], b) = {P}
        /\ P.reading = RunTo(sim, v, m)
        /\ \A c \in BOOLEAN : ClosedIf(sim, P, c) = Pos(c)
    BY <1>0, <1>5, MarksStep
  <2>2. TheOnly({P}) = P
    BY DEF TheOnly
  <2>3. acc \in BOOLEAN
    BY DEF Accepting
  <2>4. /\ IsSeq(guesses)
        /\ \A g : g \in Range(guesses) <=>
             \E j : \E c \in BOOLEAN : (c => acc) /\ To(j) /\ g = Guess(j, c)
    <3> HIDE DEF acc
    <3>1. /\ IsSeq(Guesses(key, b, acc))
          /\ \A g : g \in Range(Guesses(key, b, acc)) <=>
              \E j : \E c \in BOOLEAN :
                /\ c => acc
                /\ Moves(key.marked, key.matched, b, j)
                /\ g = [matched |-> j, cuts |-> c]
      BY <2>3, GuessesAre
    <3> QED BY <3>1 DEF Guess, Guessed
  <2>0. \A x : x \in Range(guesses) <=> \E i \in DOMAIN guesses : x = guesses[i]
    <3> HIDE DEF guesses
    <3> QED BY RangeIndices
  <2>5. \A i \in DOMAIN guesses : \E j : \E c \in BOOLEAN :
           (c => acc) /\ To(j) /\ guesses[i] = Guess(j, c)
    <3> HIDE DEF guesses, acc, To
    <3> QED BY <2>0, <2>4
  <2>6. \A j : \A c \in BOOLEAN : (c => acc) /\ To(j) =>
           \E i \in DOMAIN guesses : guesses[i] = Guess(j, c)
    <3> HIDE DEF guesses, acc, To
    <3> TAKE j
    <3> TAKE c \in BOOLEAN
    <3> HAVE (c => acc) /\ To(j)
    <3>2. Guess(j, c) \in Range(guesses)
      BY <2>4
    <3> QED BY <2>0, <3>2
  <2>7. OriginStep(key, b) =
          IF \E i \in DOMAIN guesses : Ends(guesses[i]) THEN InputEnds ELSE LeadsTo(succ)
    <3> DEFINE After(g) == Key(<<ClosedIf(sim, P, g.cuts)>>, g.matched,
                               OriginBit(key, g) /\ ~ (key.marked \/ Through(key, g)),
                               key.marked \/ Through(key, g))
               old == [ i \in DOMAIN guesses |->
                          IF Through(key, guesses[i]) /\ KeepsClaim(key, guesses[i])
                          THEN << >> ELSE <<After(guesses[i])>> ]
    <3>1. OriginStep(key, b) =
            IF \E i \in DOMAIN guesses :
                 /\ ~ (Through(key, guesses[i]) /\ KeepsClaim(key, guesses[i]))
                 /\ key.marked \/ Through(key, guesses[i])
                 /\ guesses[i].cuts
            THEN InputEnds ELSE LeadsTo(FlattenSeq(old))
      <4>1. guesses = Guesses(key, b, Accepting(sim, P.reading))
        BY <2>1
      <4> HIDE DEF P, guesses
      <4> QED BY <2>1, <2>2, <4>1 DEF OriginStep, Through
    <3>2. \A i \in DOMAIN guesses : After(guesses[i]) = K(guesses[i])
      <4> TAKE i \in DOMAIN guesses
      <4>1. guesses[i].cuts \in BOOLEAN
        BY <2>5 DEF Guess
      <4> HIDE DEF guesses, P, Pos
      <4> QED BY <2>1, <4>1 DEF AfterGuess
    <3>3. old = parts
      <4> HIDE DEF guesses, P, K, After
      <4> QED BY <3>2 DEF Kept
    <3> HIDE DEF old, parts, guesses
    <3> QED BY <3>1, <3>3 DEF Kept
  <2>8. /\ IsSeq(parts) /\ Len(parts) = Len(guesses) /\ DOMAIN parts = DOMAIN guesses
        /\ DOMAIN guesses = 1 .. Len(guesses)
    <3>1. parts = [ i \in DOMAIN guesses |-> parts[i] ]
      OBVIOUS
    <3>2. DOMAIN parts = DOMAIN guesses
      OBVIOUS
    <3> HIDE DEF parts, guesses
    <3> QED BY <2>4, <3>1, <3>2, SeqMapped, SeqParts
  <2>9. \A i \in DOMAIN guesses :
          /\ IsSeq(parts[i])
          /\ \A x : x \in Range(parts[i]) <=> Kept(key, guesses[i]) /\ x = K(guesses[i])
    <3> TAKE i \in DOMAIN guesses
    <3>1. parts[i] = IF ~ Kept(key, guesses[i]) THEN << >> ELSE <<K(guesses[i])>>
      OBVIOUS
    <3>2. PICK e : e = K(guesses[i])
      OBVIOUS
    <3>3. IsSeq(<<e>>) /\ Range(<<e>>) = {e}
      BY SeqOfOne
    <3> HIDE DEF parts, K, guesses
    <3>4. CASE Kept(key, guesses[i])
      BY <3>1, <3>2, <3>3, <3>4
    <3>5. CASE ~ Kept(key, guesses[i])
      BY <3>1, <3>5, SeqOfNone
    <3> QED BY <3>4, <3>5
  <2>10. IsSeq(succ) /\ \A x : x \in Range(succ) <=>
                          \E i \in DOMAIN guesses : Kept(key, guesses[i]) /\ x = K(guesses[i])
    <3>1. \A i \in 1 .. Len(parts) : IsSeq(parts[i])
      <4> HIDE DEF parts, guesses
      <4> QED BY <2>8, <2>9
    <3> HIDE DEF parts, guesses, K
    <3>2. IsSeq(FlattenSeq(parts))
          /\ Range(FlattenSeq(parts)) = UNION { Range(parts[i]) : i \in 1 .. Len(parts) }
      BY <2>8, <3>1, SeqFlattened
    <3>3. \A x : x \in Range(FlattenSeq(parts)) <=>
                   \E i \in DOMAIN guesses : x \in Range(parts[i])
      BY <2>8, <3>2
    <3> QED BY <2>9, <3>2, <3>3
  <2>11. \A x : x \in Range(succ) <=>
           \E j : \E c \in BOOLEAN : MS(c) /\ To(j) /\ Kept(key, Guess(j, c))
                                     /\ x = AfterGuess(key, Pos(c), Guess(j, c))
    <3>2. \A j, c : Guess(j, c).matched = j /\ Guess(j, c).cuts = c
      BY DEF Guess
    <3>5. \A j, c : K(Guess(j, c)) = AfterGuess(key, Pos(c), Guess(j, c))
      <4> HIDE DEF Pos
      <4> QED BY <3>2
    <3> HIDE DEF guesses, succ, MS, To, K, acc, Pos
    <3>3. \A x : x \in Range(succ) =>
            \E j : \E c \in BOOLEAN : MS(c) /\ To(j) /\ Kept(key, Guess(j, c))
                                      /\ x = AfterGuess(key, Pos(c), Guess(j, c))
      <4> TAKE x
      <4> HAVE x \in Range(succ)
      <4>1. PICK i \in DOMAIN guesses : Kept(key, guesses[i]) /\ x = K(guesses[i])
        BY <2>10
      <4>2. PICK j : \E c \in BOOLEAN : (c => acc) /\ To(j) /\ guesses[i] = Guess(j, c)
        BY <2>5
      <4>3. PICK c \in BOOLEAN : (c => acc) /\ To(j) /\ guesses[i] = Guess(j, c)
        BY <4>2
      <4>4. MS(c)
        BY <1>2, <1>5, <4>3
      <4>5. Kept(key, Guess(j, c)) /\ x = AfterGuess(key, Pos(c), Guess(j, c))
        BY <3>5, <4>1, <4>3
      <4> QED BY <4>3, <4>4, <4>5
    <3>4. \A x : (\E j : \E c \in BOOLEAN : MS(c) /\ To(j) /\ Kept(key, Guess(j, c))
                                      /\ x = AfterGuess(key, Pos(c), Guess(j, c)))
                 => x \in Range(succ)
      <4> TAKE x
      <4> HAVE \E j : \E c \in BOOLEAN : MS(c) /\ To(j) /\ Kept(key, Guess(j, c))
                                      /\ x = AfterGuess(key, Pos(c), Guess(j, c))
      <4>1. PICK j : \E c \in BOOLEAN : MS(c) /\ To(j) /\ Kept(key, Guess(j, c))
                                      /\ x = AfterGuess(key, Pos(c), Guess(j, c))
        OBVIOUS
      <4>2. PICK c \in BOOLEAN : MS(c) /\ To(j) /\ Kept(key, Guess(j, c))
                                      /\ x = AfterGuess(key, Pos(c), Guess(j, c))
        BY <4>1
      <4>3. PICK i \in DOMAIN guesses : guesses[i] = Guess(j, c)
        BY <1>2, <2>6, <4>2
      <4>4. Kept(key, guesses[i]) /\ x = K(guesses[i])
        BY <3>5, <4>2, <4>3
      <4> QED BY <2>10, <4>4
    <3> QED BY <3>3, <3>4
  <2>12. (\E i \in DOMAIN guesses : Ends(guesses[i])) <=>
           acc /\ \E j : /\ To(j) /\ Kept(key, Guess(j, TRUE))
                         /\ key.marked \/ Through(key, Guess(j, TRUE))
    <3> HIDE DEF guesses, acc, To
    <3>2. \A j, c : Guess(j, c).matched = j /\ Guess(j, c).cuts = c
      BY DEF Guess
    <3>3. ASSUME acc, NEW j, To(j), Kept(key, Guess(j, TRUE)),
                 key.marked \/ Through(key, Guess(j, TRUE))
          PROVE  \E i \in DOMAIN guesses : Ends(guesses[i])
      <4>1. PICK i \in DOMAIN guesses : guesses[i] = Guess(j, TRUE)
        BY <2>6, <3>3
      <4>2. Guess(j, TRUE).cuts
        BY <3>2
      <4> QED BY <3>3, <4>1, <4>2
    <3>4. ASSUME NEW i \in DOMAIN guesses, Ends(guesses[i])
          PROVE  acc /\ \E j : /\ To(j) /\ Kept(key, Guess(j, TRUE))
                               /\ key.marked \/ Through(key, Guess(j, TRUE))
      <4>1. PICK j : \E c \in BOOLEAN : (c => acc) /\ To(j) /\ guesses[i] = Guess(j, c)
        BY <2>5
      <4>2. PICK c \in BOOLEAN : (c => acc) /\ To(j) /\ guesses[i] = Guess(j, c)
        BY <4>1
      <4>3. c = TRUE
        BY <3>2, <3>4, <4>2
      <4> QED BY <3>4, <4>2, <4>3
    <3> QED BY <3>3, <3>4
  <2> HIDE DEF guesses, succ, MS, To, K, acc, Pos, Ends
  <2>13. CASE \E i \in DOMAIN guesses : Ends(guesses[i])
    <3>1. OriginStep(key, b) = InputEnds
      BY <2>7, <2>13
    <3>2. OriginStep(key, b).ends = TRUE /\ OriginStep(key, b).successors = << >>
      BY <3>1 DEF InputEnds
    <3> QED BY <1>5, <2>12, <2>13, <3>2, SeqOfNone DEF acc, To
  <2>14. CASE ~ \E i \in DOMAIN guesses : Ends(guesses[i])
    <3>1. OriginStep(key, b) = LeadsTo(succ)
      BY <2>7, <2>14
    <3>2. OriginStep(key, b).ends = FALSE /\ OriginStep(key, b).successors = succ
      BY <3>1 DEF LeadsTo
    <3>3. ~ (acc /\ \E j : /\ To(j) /\ Kept(key, Guess(j, TRUE))
                           /\ key.marked \/ Through(key, Guess(j, TRUE)))
      BY <2>12, <2>14
    <3> QED BY <2>10, <2>11, <3>2, <3>3 DEF acc, To, MS, Pos
  <2> QED BY <2>13, <2>14
<1> QED BY <1>4, <1>5

(* The bit of a key is that of its marking, whichever way it goes on.      *)
LEMMA BitGrows ==
  ASSUME Given, search.kind \in OriginKinds, NEW w \in Seq(Symbols),
         NEW S \in SUBSET (0 .. Len(w)), NEW m \in S,
         NEW k \in 0 .. Len(query.window) - 1, NEW c \in BOOLEAN, NEW j,
         j = 0 \/ j = k + 1,
         NEW key, key = UndecidedKey(w, S, m, k)
  PROVE  OriginBit(key, Guess(j, c))
           = BitAt(search.kind, GrownTo(S, Len(w) + 1, c), LastOf(m, Len(w) + 1, c),
                   (Len(w) + 1) - j + search.gap)
<1> DEFINE L == Len(w) + 1
           gap == search.gap
           W == Len(query.window)
           Bit == BitAt(search.kind, GrownTo(S, L, c), LastOf(m, L, c), L - j + gap)
<1> SUFFICES OriginBit(key, Guess(j, c)) = Bit
  OBVIOUS
<1>0. Len(w) \in Nat /\ L \in Nat /\ gap \in Nat /\ W \in Nat /\ k \in Nat /\ m \in Nat
      /\ m <= Len(w) /\ (\A s \in S : s \in Nat /\ s <= Len(w))
      /\ j \in Nat /\ L = Len(w) + 1
  BY DEF Given
<1>1. Guess(j, c).matched = j /\ Guess(j, c).cuts = c
  BY DEF Guess
<1>2. key.at_origin = BitAt(search.kind, S, m, Len(w) - k + gap)
  BY DEF UndecidedKey, Key
<1> HIDE DEF L, gap, W, Bit
<1>3. CASE search.kind = "covers"
  <2>1. key.at_origin = (m = Len(w) - k + gap)
    BY <1>2, <1>3 DEF BitAt
  <2>2. OriginBit(key, Guess(j, c)) = IF c THEN j = gap ELSE j > 0 /\ key.at_origin
    BY <1>1, <1>3 DEF OriginBit, gap
  <2>3. Bit = ((IF c THEN L ELSE m) = L - j + gap)
    BY <1>3 DEF Bit, BitAt, LastOf
  <2>4. CASE c
    <3>1. (j = gap) = (L = L - j + gap)
      BY <1>0
    <3>2. OriginBit(key, Guess(j, c)) = (j = gap)
      BY <2>2, <2>4
    <3>3. Bit = (L = L - j + gap)
      BY <2>3, <2>4
    <3> QED BY <3>1, <3>2, <3>3
  <2>5. CASE ~ c
    <3>1. CASE j = 0
      <4>1. ~ (m = L - j + gap) /\ ~ (j > 0)
        BY <1>0, <3>1
      <4>2. OriginBit(key, Guess(j, c)) = FALSE
        BY <2>2, <2>5, <4>1
      <4>3. Bit = FALSE
        BY <2>3, <2>5, <4>1
      <4> QED BY <4>2, <4>3
    <3>2. CASE j = k + 1
      <4>1. L - j + gap = Len(w) - k + gap /\ j > 0
        BY <1>0, <3>2
      <4>2. OriginBit(key, Guess(j, c)) = (m = Len(w) - k + gap)
        BY <2>1, <2>2, <2>5, <4>1
      <4>3. Bit = (m = L - j + gap)
        BY <2>3, <2>5
      <4> QED BY <4>1, <4>2, <4>3
    <3> QED BY <3>1, <3>2
  <2> QED BY <2>4, <2>5
<1>4. CASE search.kind # "covers"
  <2>1. key.at_origin = (Len(w) - k + gap \in S)
    BY <1>2, <1>4 DEF BitAt
  <2>2. OriginBit(key, Guess(j, c)) = ((c /\ j = gap) \/ (j > gap /\ key.at_origin))
    BY <1>1, <1>4 DEF OriginBit, gap
  <2>3. Bit = (L - j + gap \in GrownTo(S, L, c))
    BY <1>4 DEF Bit, BitAt
  <2>4. L - j + gap \in GrownTo(S, L, c) <=> (c /\ j = gap) \/ L - j + gap \in S
    <3>1. L - j + gap = L <=> j = gap
      BY <1>0
    <3> QED BY <3>1 DEF GrownTo
  <2>5. L - j + gap \in S <=> j > gap /\ Len(w) - k + gap \in S
    <3>1. CASE j = k + 1
      <4>1. L - j + gap = Len(w) - k + gap
        BY <1>0, <3>1
      <4>2. L - j + gap \in S => j > gap
        <5> HAVE L - j + gap \in S
        <5>1. PICK e \in S : e = L - j + gap
          OBVIOUS
        <5> QED BY <1>0, <5>1
      <4> QED BY <4>1, <4>2
    <3>2. CASE j = 0
      <4>1. ~ (j > gap)
        BY <1>0, <3>2
      <4>2. L - j + gap \notin S
        <5> SUFFICES ASSUME L - j + gap \in S PROVE FALSE
          OBVIOUS
        <5>1. PICK e \in S : e = L - j + gap
          OBVIOUS
        <5> QED BY <1>0, <3>2, <5>1
      <4> QED BY <4>1, <4>2
    <3> QED BY <3>1, <3>2
  <2>6. ((c /\ j = gap) \/ (j > gap /\ key.at_origin)) <=> L - j + gap \in GrownTo(S, L, c)
    BY <2>1, <2>4, <2>5
  <2> QED BY <2>2, <2>3, <2>6
<1> QED BY <1>3, <1>4

LEMMA UndecidedGoes ==
  ASSUME Given, search.kind \in OriginKinds, NEW w \in Seq(Symbols), NEW b,
         NEW S \in SUBSET (0 .. Len(w)), NEW m \in S, \A s \in S : s <= m,
         NEW k \in 0 .. Len(query.window) - 1, NEW c \in BOOLEAN, NEW j, NEW position,
         NEW key, key = UndecidedKey(w, S, m, k)
  PROVE  UndecidedFollows(w, b, S, m, k, c, j, position, key)
<1> DEFINE L == Len(w) + 1
           gap == search.gap
           W == Len(query.window)
           bit == OriginBit(key, Guess(j, c))
<1>0. /\ Len(w) \in Nat /\ L \in Nat /\ gap \in Nat /\ W \in Nat /\ k \in Nat /\ m \in Nat
      /\ m <= Len(w) /\ (\A s \in S : s \in Nat /\ s <= Len(w)) /\ L = Len(w) + 1
      /\ k < W
  BY DEF Given
<1>1. Guess(j, c).matched = j /\ Guess(j, c).cuts = c
  BY DEF Guess
<1>2. /\ key.marked = FALSE /\ key.matched = k
      /\ key.at_origin = BitAt(search.kind, S, m, Len(w) - k + gap)
  BY DEF UndecidedKey, Key
<1>3. Guessed(key, b, j) <=>
        (k = 0 /\ j = 0) \/ (query.window[k + 1] = b /\ j = k + 1)
  BY <1>2 DEF Guessed, Moves
<1>4. Through(key, Guess(j, c)) <=> j = W
  BY <1>1, <1>2 DEF Through
<1>5. ASSUME Guessed(key, b, j)
      PROVE  bit = BitAt(search.kind, GrownTo(S, L, c), LastOf(m, L, c), L - j + gap)
  <2>1. j = 0 \/ j = k + 1
    BY <1>3, <1>5
  <2> QED BY <2>1, BitGrows
<1> HIDE DEF L, gap, W, bit
<1>6. ASSUME Guessed(key, b, j), j # W
      PROVE  /\ ~ Through(key, Guess(j, c))
             /\ Kept(key, Guess(j, c))
             /\ AfterGuess(key, position, Guess(j, c)) =
                  Key(<<position>>, j,
                      BitAt(search.kind, GrownTo(S, L, c), LastOf(m, L, c), L - j + gap), FALSE)
  <2>1. ~ Through(key, Guess(j, c)) /\ Kept(key, Guess(j, c))
    BY <1>4, <1>6 DEF Kept
  <2>2. bit \in BOOLEAN
    <3>1. BitAt(search.kind, GrownTo(S, L, c), LastOf(m, L, c), L - j + gap) \in BOOLEAN
      <4>1. CASE search.kind = "covers"
        BY <4>1 DEF BitAt
      <4>2. CASE search.kind # "covers"
        BY <4>2 DEF BitAt
      <4> QED BY <4>1, <4>2
    <3> QED BY <1>5, <1>6, <3>1
  <2>3. (bit /\ ~ (key.marked \/ Through(key, Guess(j, c)))) = bit
        /\ (key.marked \/ Through(key, Guess(j, c))) = FALSE
    BY <1>2, <2>1, <2>2
  <2>4. AfterGuess(key, position, Guess(j, c)) = Key(<<position>>, j, bit, FALSE)
    BY <1>1, <2>3 DEF AfterGuess, bit
  <2> QED BY <1>5, <1>6, <2>1, <2>4
<1>7. ASSUME Guessed(key, b, j), j = W
      PROVE  /\ Through(key, Guess(j, c))
             /\ Kept(key, Guess(j, c)) <=> ClaimFails(search.kind, gap, W, GrownTo(S, L, c), L - W)
             /\ AfterGuess(key, position, Guess(j, c)) = Key(<<position>>, W, FALSE, TRUE)
  <2>1. Through(key, Guess(j, c))
    BY <1>4, <1>7
  <2>2. j = k + 1
    BY <1>0, <1>3, <1>7
  <2>3. Kept(key, Guess(j, c)) <=> ~ KeepsClaim(key, Guess(j, c))
    BY <2>1 DEF Kept
  <2>4. AfterGuess(key, position, Guess(j, c)) = Key(<<position>>, W, FALSE, TRUE)
    <3>1. (bit /\ ~ (key.marked \/ Through(key, Guess(j, c)))) = FALSE
          /\ (key.marked \/ Through(key, Guess(j, c))) = TRUE
      BY <2>1
    <3> QED BY <1>1, <1>7, <3>1 DEF AfterGuess, bit
  <2>5. Kept(key, Guess(j, c)) <=> ClaimFails(search.kind, gap, W, GrownTo(S, L, c), L - W)
    <3>1. CASE search.kind = "covers"
      <4>1. KeepsClaim(key, Guess(j, c)) = (m = Len(w) - k + gap)
        BY <1>2, <3>1 DEF KeepsClaim, BitAt
      <4>2. Len(w) - k + gap = (L - W) + gap /\ (L - W) + W - 1 = Len(w)
        BY <1>0, <1>7, <2>2
      <4>3. ClaimFails(search.kind, gap, W, GrownTo(S, L, c), L - W) <=>
              \E s \in GrownTo(S, L, c) :
                /\ s <= Len(w) /\ s # (L - W) + gap
                /\ \A t \in GrownTo(S, L, c) : t <= Len(w) => t <= s
        BY <3>1, <4>2 DEF ClaimFails
      <4>4. \A s : (s \in GrownTo(S, L, c) /\ s <= Len(w)) <=> s \in S
        <5>1. ~ (L <= Len(w))
          BY <1>0
        <5>2. \A s : s \in GrownTo(S, L, c) <=> s \in S \/ (c /\ s = L)
          BY DEF GrownTo
        <5> QED BY <1>0, <5>1, <5>2
      <4>5. (\E s \in GrownTo(S, L, c) :
                /\ s <= Len(w) /\ s # (L - W) + gap
                /\ \A t \in GrownTo(S, L, c) : t <= Len(w) => t <= s)
            <=> m # (L - W) + gap
        <5>1. \A s \in S : (\A t \in S : t <= s) <=> s = m
          BY <1>0
        <5>2. (\E s \in GrownTo(S, L, c) :
                /\ s <= Len(w) /\ s # (L - W) + gap
                /\ \A t \in GrownTo(S, L, c) : t <= Len(w) => t <= s)
              <=> \E s \in S : s # (L - W) + gap /\ \A t \in S : t <= s
          BY <4>4
        <5> QED BY <5>1, <5>2
      <4> QED BY <2>3, <4>1, <4>2, <4>3, <4>5
    <3>2. CASE search.kind = "cut"
      <4>1. KeepsClaim(key, Guess(j, c)) <=> L - j + gap \in GrownTo(S, L, c)
        BY <1>5, <1>7, <3>2 DEF KeepsClaim, BitAt, bit
      <4>2. ClaimFails(search.kind, gap, W, GrownTo(S, L, c), L - W)
              <=> (L - W) + gap \notin GrownTo(S, L, c)
        BY <3>2 DEF ClaimFails
      <4> QED BY <1>7, <2>3, <4>1, <4>2
    <3>3. CASE search.kind = "crossed"
      <4>1. KeepsClaim(key, Guess(j, c)) <=> ~ (L - j + gap \in GrownTo(S, L, c))
        BY <1>5, <1>7, <3>3 DEF KeepsClaim, BitAt, bit
      <4>2. ClaimFails(search.kind, gap, W, GrownTo(S, L, c), L - W)
              <=> (L - W) + gap \in GrownTo(S, L, c)
        BY <3>3 DEF ClaimFails
      <4> QED BY <1>7, <2>3, <4>1, <4>2
    <3> QED BY <3>1, <3>2, <3>3 DEF OriginKinds
  <2> QED BY <2>1, <2>4, <2>5
<1>8. Guessed(key, b, j) /\ j # W =>
        /\ ~ Through(key, Guess(j, c))
        /\ Kept(key, Guess(j, c))
        /\ AfterGuess(key, position, Guess(j, c)) =
             Key(<<position>>, j,
                 BitAt(search.kind, GrownTo(S, L, c), LastOf(m, L, c), L - j + gap), FALSE)
  BY <1>6
<1>9. Guessed(key, b, j) /\ j = W =>
        /\ Through(key, Guess(j, c))
        /\ Kept(key, Guess(j, c)) <=> ClaimFails(search.kind, gap, W, GrownTo(S, L, c), L - W)
        /\ AfterGuess(key, position, Guess(j, c)) = Key(<<position>>, W, FALSE, TRUE)
  BY <1>7
<1>10. Guessed(key, b, j) /\ j # Len(query.window) =>
         /\ ~ Through(key, Guess(j, c))
         /\ Kept(key, Guess(j, c))
         /\ AfterGuess(key, position, Guess(j, c)) =
              Key(<<position>>, j,
                  BitAt(search.kind, GrownTo(S, Len(w) + 1, c), LastOf(m, Len(w) + 1, c),
                        (Len(w) + 1) - j + search.gap), FALSE)
  BY <1>8 DEF L, gap, W
<1>11. Guessed(key, b, j) /\ j = Len(query.window) =>
         /\ Through(key, Guess(j, c))
         /\ Kept(key, Guess(j, c)) <=>
              ClaimFails(search.kind, search.gap, Len(query.window),
                    GrownTo(S, Len(w) + 1, c), (Len(w) + 1) - Len(query.window))
         /\ AfterGuess(key, position, Guess(j, c)) =
              Key(<<position>>, Len(query.window), FALSE, TRUE)
  BY <1>9 DEF L, gap, W
<1> QED BY <1>2, <1>3, <1>10, <1>11 DEF UndecidedFollows

LEMMA FailedGoes ==
  ASSUME NEW w, NEW b, NEW S, NEW m, NEW c \in BOOLEAN, NEW j, NEW position,
         NEW key, key = FailedKey(w, S, m)
  PROVE  FailedFollows(b, c, j, position, key)
<1>1. Guess(j, c).matched = j /\ Guess(j, c).cuts = c
  BY DEF Guess
<1>2. key.marked = TRUE /\ key.matched = Len(query.window)
  BY DEF FailedKey, Key
<1>3. Guessed(key, b, j) <=> j = Len(query.window)
  BY <1>2 DEF Guessed, Moves
<1>4. ~ Through(key, Guess(j, c)) /\ Kept(key, Guess(j, c))
  BY <1>2 DEF Through, Kept
<1>5. (OriginBit(key, Guess(j, c)) /\ ~ (key.marked \/ Through(key, Guess(j, c)))) = FALSE
      /\ (key.marked \/ Through(key, Guess(j, c))) = TRUE
  BY <1>2
<1>6. AfterGuess(key, position, Guess(j, c)) = Key(<<position>>, j, FALSE, TRUE)
  BY <1>1, <1>5 DEF AfterGuess
<1> QED BY <1>2, <1>3, <1>4, <1>6 DEF FailedFollows

(* An occurrence whose claim fails goes on failing it, and the only new    *)
(* one ends with the last byte.                                            *)
LEMMA FailsGrows ==
  ASSUME Given, search.kind \in OriginKinds, NEW w \in Seq(Symbols), NEW b \in Symbols,
         NEW S \in SUBSET (0 .. Len(w)), NEW c \in BOOLEAN
  PROVE  FailsIn(Append(w, b), GrownTo(S, Len(w) + 1, c)) <=>
           \/ FailsIn(w, S)
           \/ /\ SuffixIs(w, query.window, Len(query.window) - 1)
              /\ query.window[Len(query.window)] = b
              /\ ClaimFails(search.kind, search.gap, Len(query.window),
                       GrownTo(S, Len(w) + 1, c), (Len(w) + 1) - Len(query.window))
<1> DEFINE v == Append(w, b)
           L == Len(w) + 1
           W == Len(query.window)
           gap == search.gap
           T == GrownTo(S, L, c)
           New == SuffixIs(w, query.window, W - 1) /\ query.window[W] = b
<1>0. /\ query.window \in Seq(Symbols) /\ query.window # << >> /\ gap \in Nat /\ W \in Nat
      /\ gap <= W
  <2>1. W \in Nat /\ gap \in Nat
    BY DEF Given
  <2>2. query.window = << >> => W = 0
    OBVIOUS
  <2> QED BY <2>1, <2>2 DEF Given, OriginKinds
<1>1. /\ \A o : o \in OccurrencesIn(v, query.window) <=>
               o \in OccurrencesIn(w, query.window) \/ (o = L - W /\ New)
      /\ \A o \in OccurrencesIn(w, query.window) : o \in Nat /\ o + W <= Len(w)
  <2>1. PICK x \in Seq(Symbols) : x = query.window
    BY <1>0
  <2>2. /\ \A o : o \in OccurrencesIn(Append(w, b), x) <=>
             \/ o \in OccurrencesIn(w, x)
             \/ /\ o = (Len(w) + 1) - Len(x)
                /\ SuffixIs(w, x, Len(x) - 1)
                /\ x[Len(x)] = b
        /\ \A o \in OccurrencesIn(w, x) : o \in Nat /\ o + Len(x) <= Len(w)
    <3>1. x # << >>
      BY <1>0, <2>1
    <3>2. /\ \A o : o \in OccurrencesIn(Append(w, b), x) <=>
             \/ o \in OccurrencesIn(w, x)
             \/ /\ o = Len(w) + 1 - Len(x)
                /\ SuffixIs(w, x, Len(x) - 1)
                /\ x[Len(x)] = b
          /\ \A o \in OccurrencesIn(w, x) : o \in Nat /\ o + Len(x) <= Len(w)
      BY <3>1, OccurrencesGrow
    <3>3. Len(w) + 1 - Len(x) = (Len(w) + 1) - Len(x)
      OBVIOUS
    <3> QED BY <3>2, <3>3
  <2> QED BY <2>1, <2>2
<1> HIDE DEF v
<1>2. Len(w) \in Nat /\ L = Len(w) + 1 /\ \A s \in S : s \in Nat /\ s <= Len(w)
  OBVIOUS
<1>3. \A s : s \in T <=> s \in S \/ (c /\ s = L)
  BY DEF GrownTo
<1> HIDE DEF L, T, W, gap
<1>4. ASSUME NEW o \in OccurrencesIn(w, query.window)
      PROVE  ClaimFails(search.kind, gap, W, T, o) <=> ClaimFails(search.kind, gap, W, S, o)
  <2>1. o \in Nat /\ o + W <= Len(w)
    BY <1>1
  <2>2. \A s : (s \in T /\ s <= o + W - 1) <=> (s \in S /\ s <= o + W - 1)
    <3>1. ~ (L <= o + W - 1)
      BY <1>0, <1>2, <2>1
    <3> QED BY <1>3, <3>1
  <2>3. o + gap \in T <=> o + gap \in S
    <3>1. o + gap # L
      BY <1>0, <1>2, <2>1
    <3> QED BY <1>3, <3>1
  <2>4. CASE search.kind = "covers"
    <3>1. \A R : ClaimFails("covers", gap, W, R, o) <=>
             \E s \in R : /\ s <= o + W - 1 /\ s # o + gap
                          /\ \A t \in R : t <= o + W - 1 => t <= s
      BY DEF ClaimFails
    <3> QED BY <2>2, <2>4, <3>1
  <2>5. CASE search.kind = "cut"
    BY <2>3, <2>5 DEF ClaimFails
  <2>6. CASE search.kind = "crossed"
    BY <2>3, <2>6 DEF ClaimFails
  <2> QED BY <2>4, <2>5, <2>6 DEF OriginKinds
<1>5. FailsIn(v, T) <=> \E o \in OccurrencesIn(v, query.window) : ClaimFails(search.kind, gap, W, T, o)
  BY DEF FailsIn, gap, W
<1>6. FailsIn(w, S) <=> \E o \in OccurrencesIn(w, query.window) : ClaimFails(search.kind, gap, W, S, o)
  BY DEF FailsIn, gap, W
<1>7. FailsIn(v, T) <=> FailsIn(w, S) \/ (New /\ ClaimFails(search.kind, gap, W, T, L - W))
  <2> HIDE DEF New
  <2> QED BY <1>1, <1>4, <1>5, <1>6
<1> QED BY <1>7 DEF v, T, L, W, gap

(* Of a complete scan the event is that a claim fails.                     *)
LEMMA FailsEvent ==
  ASSUME Given, search.kind \in OriginKinds, NEW w \in Seq(Symbols), NEW b \in Symbols,
         NEW S, Complete(Serial(sim, Append(w, b)), Append(w, b)),
         S = StartsOf(Serial(sim, Append(w, b)))
  PROVE  Event(Append(w, b)) <=> FailsIn(Append(w, b), GrownTo(S, Len(w) + 1, TRUE))
<1> DEFINE v == Append(w, b)
           L == Len(w) + 1
           W == Len(query.window)
           gap == search.gap
           T == GrownTo(S, L, TRUE)
           mine == Serial(sim, v)
           Occ == OccurrencesIn(v, query.window)
<1>0. /\ IsDfa(sim) /\ query.window \in Seq(Symbols) /\ query.window # << >>
      /\ gap \in Nat /\ W \in Nat /\ gap <= W /\ W # 0
  <2>1. W \in Nat /\ gap \in Nat /\ query.window \in Seq(Symbols)
    BY DEF Given
  <2>2. query.window = << >> <=> W = 0
    BY <2>1
  <2> QED BY <2>1, <2>2 DEF Given, OriginKinds
<1>1. v \in Seq(Symbols) /\ Len(v) = L /\ Len(w) \in Nat /\ L \in Nat /\ L = Len(w) + 1
  OBVIOUS
<1> HIDE DEF v
<1>2. \A o \in Occ : o \in Nat /\ o + W <= L
  <2>1. \A o \in Occ : o \in 0 .. Len(v) - W
    BY DEF OccurrencesIn
  <2> HIDE DEF L, W, Occ
  <2> TAKE o \in Occ
  <2>2. o \in 0 .. Len(v) - W
    BY <2>1
  <2> QED BY <1>0, <1>1, <2>2
<1>3. mine.consumed = Len(v) /\ Serial(sim, v) = SerialFrom(sim, v)[0]
  BY DEF Complete, Serial, v
<1>4. T = S \cup {Len(v)} /\ S = StartsOf(mine)
  BY <1>1 DEF GrownTo, v
<1> HIDE DEF L, T, W, gap, Occ
<1>5. FailsIn(v, T) <=> \E o \in Occ : ClaimFails(search.kind, gap, W, T, o)
  BY DEF FailsIn, gap, W, Occ
<1>6. CASE search.kind = "cut"
  <2>1. Event(v) <=> \E o \in Occ : ~ IsBoundary(mine, v, o + gap)
    BY <1>6 DEF Event, EventIn, Occ, gap, v
  <2>2. \A o : ClaimFails("cut", gap, W, T, o) <=> o + gap \notin T
    BY DEF ClaimFails
  <2> QED BY <1>4, <1>5, <1>6, <2>1, <2>2 DEF IsBoundary, v, T, L
<1>7. CASE search.kind = "crossed"
  <2>1. Event(v) <=> \E o \in Occ : IsBoundary(mine, v, o + gap)
    BY <1>7 DEF Event, EventIn, Occ, gap, v
  <2>2. \A o : ClaimFails("crossed", gap, W, T, o) <=> o + gap \in T
    BY DEF ClaimFails
  <2> QED BY <1>4, <1>5, <1>7, <2>1, <2>2 DEF IsBoundary, v, T, L
<1>8. CASE search.kind = "covers"
  <2>1. Event(v) <=> \E o \in Occ : CoveredElsewhere(mine, o, query.window, gap)
    BY <1>8 DEF Event, EventIn, Occ, gap, v
  <2>2. ASSUME NEW o \in Occ
        PROVE  CoveredElsewhere(mine, o, query.window, gap) <=> ClaimFails("covers", gap, W, T, o)
    <3> DEFINE final == o + W - 1
               at_ == CoveringAt(sim, v, final)
    <3>1. final \in 0 .. Len(v) - 1 /\ final \in Nat
      BY <1>0, <1>1, <1>2
    <3>2. /\ at_ \in 0 .. final
          /\ final < AfterTokenAt(sim, v, at_)
          /\ \E t \in TokensFrom(sim, v, 0) : t.begin = at_
      BY <1>0, <1>1, <1>3, <3>1, CoveringIsToken
    <3> HIDE DEF at_, final
    <3>3. \A t \in TokensFrom(sim, v, 0) :
            t.begin <= final /\ final < AfterTokenAt(sim, v, t.begin) => at_ = t.begin
      BY <1>0, <1>1, <1>3, <3>1, CoveringIsUnique DEF at_
    <3>4. TokensFrom(sim, v, 0) = { mine.stream[i] : i \in 1 .. Len(mine.stream) }
      BY <1>3 DEF TokensFrom
    <3>5. 0 \in 0 .. Len(v)
      BY <1>1
    <3>6. /\ \A t \in TokensFrom(sim, v, 0) :
               /\ t.begin \in 0 .. Len(v)
               /\ t = TokenAt(sim, v, t.begin)
          /\ \A t, u \in TokensFrom(sim, v, 0) :
               t.begin < u.begin => AfterTokenAt(sim, v, t.begin) <= u.begin
      BY <1>0, <1>1, <3>5, SerialTiles
    <3>7. \A t \in TokensFrom(sim, v, 0) : t.begin + t.length = AfterTokenAt(sim, v, t.begin)
      BY <3>6 DEF TokenAt, AfterTokenAt
    <3>8. \A s : s \in S <=> \E t \in TokensFrom(sim, v, 0) : s = t.begin
      BY <1>4, <3>4 DEF StartsOf
    <3>9. PICK c \in TokensFrom(sim, v, 0) : c.begin = at_
      BY <3>2
    <3>10. CoveredElsewhere(mine, o, query.window, gap) <=> at_ # o + gap
      <4>1. CoveredElsewhere(mine, o, query.window, gap) <=>
              \E t \in TokensFrom(sim, v, 0) :
                /\ t.begin <= final /\ final < t.begin + t.length
                /\ t.begin # o + gap
        BY <3>4 DEF CoveredElsewhere, final, W
      <4>2. c.begin <= final /\ final < c.begin + c.length
        BY <3>1, <3>2, <3>7, <3>9
      <4> QED BY <3>3, <3>7, <3>9, <4>1, <4>2
    <3>11. at_ \in T /\ at_ <= final /\ at_ \in Nat
      BY <1>4, <3>1, <3>2, <3>8, <3>9
    <3>12. \A t \in T : t \in Nat /\ (t <= final => t <= at_)
      <4> TAKE t \in T
      <4>1. CASE t = Len(v)
        BY <1>1, <3>1, <4>1
      <4>2. CASE t # Len(v)
        <5>1. PICK u \in TokensFrom(sim, v, 0) : t = u.begin
          BY <1>4, <3>8, <4>2
        <5>2. PICK x, y : x = u.begin /\ y = AfterTokenAt(sim, v, c.begin)
          OBVIOUS
        <5>3. x \in Nat /\ (at_ < x => y <= x) /\ final < y
          BY <3>2, <3>6, <3>9, <5>2
        <5>4. y \in Nat
          <6>1. at_ \in 0 .. Len(v) /\ MatchLengths(sim, v, at_) # {}
            BY <1>0, <1>1, <3>5, <3>9, SerialTiles
          <6>2. LongestMatch(sim, v, at_) \in 1 .. Len(v) - at_
            BY <1>1, <6>1, LongestMatchIsLongest
          <6> QED BY <3>9, <3>11, <5>2, <6>2 DEF AfterTokenAt
        <5> QED BY <3>1, <3>11, <5>1, <5>2, <5>3, <5>4
      <4> QED BY <4>1, <4>2
    <3>13. ClaimFails("covers", gap, W, T, o) <=>
             \E s \in T : /\ s <= final /\ s # o + gap
                          /\ \A t \in T : t <= final => t <= s
      BY DEF ClaimFails, final
    <3>14. \A s \in T : s <= final /\ (\A t \in T : t <= final => t <= s) <=> s = at_
      BY <3>11, <3>12
    <3>15. ClaimFails("covers", gap, W, T, o) <=> at_ # o + gap
      BY <3>11, <3>13, <3>14
    <3> QED BY <3>10, <3>15
  <2> QED BY <1>5, <1>8, <2>1, <2>2 DEF v, T, L
<1> QED BY <1>6, <1>7, <1>8 DEF OriginKinds

LEMMA OriginCarried ==
  ASSUME Given, search.kind \in OriginKinds, NEW w \in Seq(Symbols), NEW b \in Symbols
  PROVE  CarriedOver(w, b)
<1> DEFINE v == Append(w, b)
           L == Len(w) + 1
           W == Len(query.window)
           Of(S, m) == Marks(sim, w, S, m)
           MS(S, m, c) == Marks(sim, v, GrownTo(S, L, c), LastOf(m, L, c))
           Pos(S, m, c) == Position(sim, v, GrownTo(S, L, c), LastOf(m, L, c))
           Ends(S, m) == Marks(sim, v, S, m) /\ Accepting(sim, RunTo(sim, v, m))
           OpenKey(S, m, k) == UndecidedKey(w, S, m, k)
           Failed(S, m) == FailedKey(w, S, m)
           NewUndecided(S, m, c, j) == UndecidedKey(v, GrownTo(S, L, c), LastOf(m, L, c), j)
           NewFailed(S, m, c) == FailedKey(v, GrownTo(S, L, c), LastOf(m, L, c))
           FailsNow(S, c) == ClaimFails(search.kind, search.gap, W, GrownTo(S, L, c), L - W)
           next(key) == OriginStep(key, b)
           Is(k) == k \in 0 .. W - 1 /\ SuffixIs(w, query.window, k)
           IsNew(j) == j \in 0 .. W - 1 /\ SuffixIs(v, query.window, j)
           Reads(k) == query.window[k + 1] = b
           To(k, j) == (k = 0 /\ j = 0) \/ (Reads(k) /\ j = k + 1)
           Made(key, S, m, c, j) == AfterGuess(key, Pos(S, m, c), Guess(j, c))
           Over(key, j) == key.marked \/ Through(key, Guess(j, TRUE))
           Follows(S, m, key) ==
             /\ next(key).ends <=>
                  Ends(S, m) /\ \E j : Guessed(key, b, j) /\ Kept(key, Guess(j, TRUE)) /\ Over(key, j)
             /\ IsSeq(next(key).successors)
             /\ ~ next(key).ends =>
                  \A x : x \in Range(next(key).successors) <=>
                    \E j : \E c \in BOOLEAN :
                      /\ MS(S, m, c) /\ Guessed(key, b, j) /\ Kept(key, Guess(j, c))
                      /\ x = Made(key, S, m, c, j)
           Either(S, m, k, c, x) ==
             \/ \E j : To(k, j) /\ j # W /\ x = NewUndecided(S, m, c, j)
             \/ To(k, W) /\ FailsNow(S, c) /\ x = NewFailed(S, m, c)
           UndecidedSteps(S, m, k, key) ==
             /\ next(key).ends <=> Ends(S, m) /\ To(k, W) /\ FailsNow(S, TRUE)
             /\ IsSeq(next(key).successors)
             /\ ~ next(key).ends =>
                  \A x : x \in Range(next(key).successors) <=>
                    \E c \in BOOLEAN : MS(S, m, c) /\ Either(S, m, k, c, x)
           FailedSteps(S, m, key) ==
             /\ next(key).ends <=> Ends(S, m)
             /\ IsSeq(next(key).successors)
             /\ ~ next(key).ends =>
                  \A x : x \in Range(next(key).successors) <=>
                    \E c \in BOOLEAN : MS(S, m, c) /\ x = NewFailed(S, m, c)
<1>0. /\ IsDfa(sim) /\ query.window \in Seq(Symbols) /\ W \in Nat /\ W # 0
      /\ Len(v) = L /\ Len(w) \in Nat /\ search.gap \in Nat
  <2>1. W \in Nat /\ query.window \in Seq(Symbols) /\ IsDfa(sim) /\ search.gap \in Nat
    BY DEF Given
  <2>2. query.window = << >> <=> W = 0
    BY <2>1
  <2>3. W # 0
    BY <2>1, <2>2 DEF Given, OriginKinds
  <2> QED BY <2>1, <2>3
<1>1. \A S, m : Of(S, m) => S \in SUBSET (0 .. Len(w)) /\ m \in S /\ \A s \in S : s <= m
  BY <1>0, MarksStep

(* What the step of a key does, by its guesses.                            *)
<1>2. \A S, m, key : Of(S, m) /\ key.scans[1] = Position(sim, w, S, m) => Follows(S, m, key)
  <2> TAKE S, m, key
  <2> HAVE Of(S, m) /\ key.scans[1] = Position(sim, w, S, m)
  <2>1. OriginFollows(w, b, S, m, key)
    BY OriginStepIs
  <2> QED BY <2>1 DEF OriginFollows
<1>3. \A S, m, k : OpenKey(S, m, k).scans[1] = Position(sim, w, S, m)
                   /\ Failed(S, m).scans[1] = Position(sim, w, S, m)
  BY DEF UndecidedKey, FailedKey, Key
<1>4. \A S, m, k : Of(S, m) /\ Is(k) =>
        /\ ~ OpenKey(S, m, k).marked
        /\ \A j : Guessed(OpenKey(S, m, k), b, j) <=> To(k, j)
        /\ \A j : \A c \in BOOLEAN : To(k, j) /\ j # W =>
             /\ ~ Through(OpenKey(S, m, k), Guess(j, c))
             /\ Kept(OpenKey(S, m, k), Guess(j, c))
             /\ Made(OpenKey(S, m, k), S, m, c, j) = NewUndecided(S, m, c, j)
        /\ \A j : \A c \in BOOLEAN : To(k, j) /\ j = W =>
             /\ Through(OpenKey(S, m, k), Guess(j, c))
             /\ Kept(OpenKey(S, m, k), Guess(j, c)) <=> FailsNow(S, c)
             /\ Made(OpenKey(S, m, k), S, m, c, j) = NewFailed(S, m, c)
  <2> TAKE S, m, k
  <2> HAVE Of(S, m) /\ Is(k)
  <2>1. PICK key : key = UndecidedKey(w, S, m, k)
    OBVIOUS
  <2>2. S \in SUBSET (0 .. Len(w)) /\ m \in S /\ (\A s \in S : s <= m) /\ k \in 0 .. W - 1
    BY <1>1
  <2>3. ASSUME NEW j, NEW c \in BOOLEAN
        PROVE  /\ key.marked = FALSE
               /\ Guessed(key, b, j) <=> To(k, j)
               /\ To(k, j) /\ j # W =>
                    /\ ~ Through(key, Guess(j, c))
                    /\ Kept(key, Guess(j, c))
                    /\ Made(key, S, m, c, j) = NewUndecided(S, m, c, j)
               /\ To(k, j) /\ j = W =>
                    /\ Through(key, Guess(j, c))
                    /\ Kept(key, Guess(j, c)) <=> FailsNow(S, c)
                    /\ Made(key, S, m, c, j) = NewFailed(S, m, c)
    <3>1. PICK position : position = Pos(S, m, c)
      OBVIOUS
    <3>2. UndecidedFollows(w, b, S, m, k, c, j, position, key)
      BY <2>1, <2>2, UndecidedGoes
    <3>3. To(k, j) <=> Guessed(key, b, j)
      BY <3>2 DEF UndecidedFollows
    <3>4. NewUndecided(S, m, c, j) =
            Key(<<position>>, j,
                BitAt(search.kind, GrownTo(S, Len(w) + 1, c), LastOf(m, Len(w) + 1, c),
                      (Len(w) + 1) - j + search.gap), FALSE)
      BY <1>0, <3>1 DEF UndecidedKey
    <3>5. NewFailed(S, m, c) = Key(<<position>>, Len(query.window), FALSE, TRUE)
      BY <3>1 DEF FailedKey
    <3> HIDE DEF To, Pos, NewUndecided, NewFailed
    <3> QED BY <3>1, <3>2, <3>3, <3>4, <3>5 DEF UndecidedFollows
  <2> HIDE DEF To, Made, NewUndecided, NewFailed, FailsNow
  <2> QED BY <2>1, <2>3
<1>5. \A S, m :
        /\ Failed(S, m).marked
        /\ \A j : Guessed(Failed(S, m), b, j) <=> j = W
        /\ \A j : \A c \in BOOLEAN : j = W =>
             /\ Kept(Failed(S, m), Guess(j, c))
             /\ Made(Failed(S, m), S, m, c, j) = NewFailed(S, m, c)
  <2> TAKE S, m
  <2>1. PICK key : key = FailedKey(w, S, m)
    OBVIOUS
  <2>3. ASSUME NEW j, NEW c \in BOOLEAN
        PROVE  /\ key.marked = TRUE
               /\ Guessed(key, b, j) <=> j = W
               /\ Kept(key, Guess(j, c))
               /\ j = W => Made(key, S, m, c, j) = NewFailed(S, m, c)
    <3>1. PICK position : position = Pos(S, m, c)
      OBVIOUS
    <3>2. FailedFollows(b, c, j, position, key)
      BY <2>1, FailedGoes
    <3>5. NewFailed(S, m, c) = Key(<<position>>, Len(query.window), FALSE, TRUE)
      BY <3>1 DEF FailedKey
    <3> HIDE DEF Pos, NewFailed
    <3> QED BY <3>1, <3>2, <3>5 DEF FailedFollows
  <2> HIDE DEF Made, NewFailed
  <2> QED BY <2>1, <2>3
<1>6. \A S, m : \A c \in BOOLEAN : Of(S, m) =>
        (FailsIn(v, GrownTo(S, L, c)) <=>
           FailsIn(w, S) \/ (Is(W - 1) /\ Reads(W - 1) /\ FailsNow(S, c)))
  <2> TAKE S, m
  <2> TAKE c \in BOOLEAN
  <2> HAVE Of(S, m)
  <2>1. S \in SUBSET (0 .. Len(w))
    BY <1>1
  <2>2. W - 1 \in 0 .. W - 1 /\ (W - 1) + 1 = W
    BY <1>0
  <2>3. FailsIn(v, GrownTo(S, L, c)) <=>
           \/ FailsIn(w, S)
           \/ /\ SuffixIs(w, query.window, W - 1)
              /\ query.window[W] = b
              /\ ClaimFails(search.kind, search.gap, W, GrownTo(S, L, c), L - W)
    BY <2>1, FailsGrows
  <2> QED BY <2>2, <2>3
<1>7. \A j : IsNew(j) <=> \E k : Is(k) /\ To(k, j) /\ j # W
  <2>1. \A j \in Nat : SuffixIs(v, query.window, j + 1) <=> SuffixIs(w, query.window, j) /\ Reads(j)
    <3>1. PICK x \in Seq(Symbols) : x = query.window
      BY <1>0
    <3>2. \A j \in Nat : SuffixIs(Append(w, b), x, j + 1) <=> SuffixIs(w, x, j) /\ x[j + 1] = b
      BY SuffixGrows
    <3> QED BY <3>1, <3>2
  <2>2. SuffixIs(w, query.window, 0) /\ SuffixIs(v, query.window, 0)
    BY <1>0 DEF SuffixIs
  <2> HIDE DEF v, Reads, W
  <2> TAKE j
  <2>3. ASSUME IsNew(j) PROVE \E k : Is(k) /\ To(k, j) /\ j # W
    <3>0. j \in Nat /\ j < W /\ j # W
      BY <1>0, <2>3
    <3>1. CASE j = 0
      <4>1. Is(0) /\ To(0, j)
        BY <1>0, <2>2, <3>1
      <4> QED BY <3>0, <4>1
    <3>2. CASE j # 0
      <4>1. PICK k \in Nat : j = k + 1 /\ k \in 0 .. W - 1
        <5>1. j - 1 \in Nat /\ j = (j - 1) + 1 /\ j - 1 \in 0 .. W - 1
          BY <1>0, <3>0, <3>2
        <5> QED BY <5>1
      <4>2. Is(k) /\ To(k, j)
        BY <2>1, <2>3, <4>1
      <4> QED BY <3>0, <4>2
    <3> QED BY <3>1, <3>2
  <2>4. ASSUME NEW k, Is(k), To(k, j), j # W PROVE IsNew(j)
    <3>1. k \in Nat /\ k < W
      BY <1>0, <2>4
    <3>2. CASE k = 0 /\ j = 0
      BY <1>0, <2>2, <3>2
    <3>3. CASE Reads(k) /\ j = k + 1
      <4>1. SuffixIs(v, query.window, j)
        BY <2>1, <2>4, <3>1, <3>3
      <4>2. j \in 0 .. W - 1
        BY <1>0, <2>4, <3>1, <3>3
      <4> QED BY <4>1, <4>2
    <3> QED BY <2>4, <3>2, <3>3
  <2> QED BY <2>3, <2>4
<1>8. \A k : Is(k) /\ To(k, W) <=> k = W - 1 /\ Is(W - 1) /\ Reads(W - 1)
  <2> HIDE DEF v, Reads, W
  <2> TAKE k
  <2>1. Is(k) => k \in Nat
    BY <1>0
  <2> QED BY <1>0, <2>1
<1>9. \A key : next(key).ends \in BOOLEAN
  BY DEF OriginStep, LeadsTo, InputEnds
<1>10. \A key : /\ Traced(w, key) <=> OriginTrace(w, key)
                /\ Traced(v, key) <=> OriginTrace(v, key)
                /\ Step(key, b) = next(key)
  BY OfAKind
<1>11. \A S : (\E m : Of(S, m) /\ Ends(S, m))
                <=> Complete(Serial(sim, v), v) /\ S = StartsOf(Serial(sim, v))
  BY <1>0, MarksEnd
<1>12. \A S, m : Of(S, m) /\ Ends(S, m) => (Event(v) <=> FailsIn(v, GrownTo(S, L, TRUE)))
  <2> TAKE S, m
  <2> HAVE Of(S, m) /\ Ends(S, m)
  <2>1. Complete(Serial(sim, v), v) /\ S = StartsOf(Serial(sim, v))
    BY <1>11
  <2> QED BY <2>1, FailsEvent
<1>13. Event(v) => Complete(Serial(sim, v), v)
  <2>1. CASE search.kind = "covers"
    BY <2>1 DEF Event, EventIn
  <2>2. CASE search.kind = "cut"
    BY <2>2 DEF Event, EventIn
  <2>3. CASE search.kind = "crossed"
    BY <2>3 DEF Event, EventIn
  <2> QED BY <2>1, <2>2, <2>3 DEF OriginKinds
<1>14. \A key : OriginTrace(w, key) <=>
         \E S, m : /\ Of(S, m)
                   /\ \/ \E k : Is(k) /\ key = OpenKey(S, m, k)
                      \/ FailsIn(w, S) /\ key = Failed(S, m)
  BY DEF OriginTrace
<1>15. \A key : OriginTrace(v, key) <=>
         \E S, m : /\ Marks(sim, v, S, m)
                   /\ \/ \E j : IsNew(j) /\ key = UndecidedKey(v, S, m, j)
                      \/ FailsIn(v, S) /\ key = FailedKey(v, S, m)
  BY DEF OriginTrace
<1> HIDE DEF v, L, Of, MS, Ends, OpenKey, Failed, NewUndecided, NewFailed, FailsNow,
             next, Is, IsNew, Reads, To, Made, Follows, Either, UndecidedSteps, FailedSteps
(* A key of an input that is not marked.                                   *)
<1>17. ASSUME NEW S, NEW m, NEW k, Of(S, m), Is(k)
       PROVE  UndecidedSteps(S, m, k, OpenKey(S, m, k))
  <2>1. PICK key : key = OpenKey(S, m, k)
    OBVIOUS
  <2>2. Follows(S, m, key)
    BY <1>2, <1>3, <1>17, <2>1
  <2>3. /\ ~ key.marked
        /\ \A j : Guessed(key, b, j) <=> To(k, j)
        /\ \A j : \A c \in BOOLEAN : To(k, j) /\ j # W =>
             /\ ~ Through(key, Guess(j, c))
             /\ Kept(key, Guess(j, c))
             /\ Made(key, S, m, c, j) = NewUndecided(S, m, c, j)
        /\ \A j : \A c \in BOOLEAN : To(k, j) /\ j = W =>
             /\ Through(key, Guess(j, c))
             /\ Kept(key, Guess(j, c)) <=> FailsNow(S, c)
             /\ Made(key, S, m, c, j) = NewFailed(S, m, c)
    BY <1>4, <1>17, <2>1
  <2> HIDE DEF W
  <2>4. (\E j : Guessed(key, b, j) /\ Kept(key, Guess(j, TRUE)) /\ Over(key, j))
          <=> To(k, W) /\ FailsNow(S, TRUE)
    BY <2>3
  <2>5. \A x : \A c \in BOOLEAN :
          (\E j : Guessed(key, b, j) /\ Kept(key, Guess(j, c)) /\ x = Made(key, S, m, c, j))
          <=> Either(S, m, k, c, x)
    BY <2>3 DEF Either
  <2> HIDE DEF Over
  <2>6. \A x : (\E j : \E c \in BOOLEAN :
                  /\ MS(S, m, c) /\ Guessed(key, b, j) /\ Kept(key, Guess(j, c))
                  /\ x = Made(key, S, m, c, j))
               <=> \E c \in BOOLEAN : MS(S, m, c) /\ Either(S, m, k, c, x)
    BY <2>5
  <2>7. UndecidedSteps(S, m, k, key)
    BY <2>2, <2>4, <2>6 DEF Follows, UndecidedSteps
  <2> QED BY <2>1, <2>7
(* And a key that is.                                                      *)
<1>18. ASSUME NEW S, NEW m, Of(S, m)
       PROVE  FailedSteps(S, m, Failed(S, m))
  <2>1. PICK key : key = Failed(S, m)
    OBVIOUS
  <2>2. Follows(S, m, key)
    BY <1>2, <1>3, <1>18, <2>1
  <2>3. /\ key.marked
        /\ \A j : Guessed(key, b, j) <=> j = W
        /\ \A j : \A c \in BOOLEAN : j = W =>
             /\ Kept(key, Guess(j, c))
             /\ Made(key, S, m, c, j) = NewFailed(S, m, c)
    BY <1>5, <2>1
  <2> HIDE DEF W
  <2>4. \E j : Guessed(key, b, j) /\ Kept(key, Guess(j, TRUE)) /\ Over(key, j)
    <3>1. Guessed(key, b, W) /\ Kept(key, Guess(W, TRUE)) /\ Over(key, W)
      BY <2>3
    <3> QED BY <3>1
  <2>5. \A x : \A c \in BOOLEAN :
          (\E j : Guessed(key, b, j) /\ Kept(key, Guess(j, c)) /\ x = Made(key, S, m, c, j))
          <=> x = NewFailed(S, m, c)
    BY <2>3
  <2> HIDE DEF Over
  <2>6. \A x : (\E j : \E c \in BOOLEAN :
                  /\ MS(S, m, c) /\ Guessed(key, b, j) /\ Kept(key, Guess(j, c))
                  /\ x = Made(key, S, m, c, j))
               <=> \E c \in BOOLEAN : MS(S, m, c) /\ x = NewFailed(S, m, c)
    BY <2>5
  <2>7. FailedSteps(S, m, key)
    BY <2>2, <2>4, <2>6 DEF Follows, FailedSteps
  <2> QED BY <2>1, <2>7
<1> HIDE DEF W, Over, Pos
<1>19. \A S, m, c, j : MS(S, m, c) /\ IsNew(j) => OriginTrace(v, NewUndecided(S, m, c, j))
  BY <1>15 DEF MS, NewUndecided
<1>20. \A S, m, c : MS(S, m, c) /\ FailsIn(v, GrownTo(S, L, c)) => OriginTrace(v, NewFailed(S, m, c))
  BY <1>15 DEF MS, NewFailed
<1>21. ASSUME NEW key, OriginTrace(w, key)
       PROVE  /\ IsSeq(next(key).successors)
              /\ next(key).ends => Event(v)
              /\ ~ next(key).ends => \A x \in Range(next(key).successors) : OriginTrace(v, x)
  <2>1. PICK S, m : /\ Of(S, m)
                    /\ \/ \E k : Is(k) /\ key = OpenKey(S, m, k)
                       \/ FailsIn(w, S) /\ key = Failed(S, m)
    BY <1>14, <1>21
  <2>2. CASE \E k : Is(k) /\ key = OpenKey(S, m, k)
    <3>1. PICK k : Is(k) /\ key = OpenKey(S, m, k)
      BY <2>2
    <3>0. UndecidedSteps(S, m, k, key)
      BY <1>17, <2>1, <3>1
    <3>2. /\ next(key).ends <=> Ends(S, m) /\ To(k, W) /\ FailsNow(S, TRUE)
          /\ IsSeq(next(key).successors)
          /\ ~ next(key).ends =>
               \A x : x \in Range(next(key).successors) <=>
                 \E c \in BOOLEAN : MS(S, m, c) /\ Either(S, m, k, c, x)
      BY <3>0 DEF UndecidedSteps
    <3>3. ASSUME next(key).ends PROVE Event(v)
      BY <1>6, <1>8, <1>12, <2>1, <3>1, <3>2, <3>3
    <3>4. ASSUME ~ next(key).ends, NEW x \in Range(next(key).successors)
          PROVE  OriginTrace(v, x)
      <4>1. PICK c \in BOOLEAN : MS(S, m, c) /\ Either(S, m, k, c, x)
        BY <3>2, <3>4
      <4>2. CASE \E j : To(k, j) /\ j # W /\ x = NewUndecided(S, m, c, j)
        BY <1>7, <1>19, <3>1, <4>1, <4>2
      <4>3. CASE To(k, W) /\ FailsNow(S, c) /\ x = NewFailed(S, m, c)
        BY <1>6, <1>8, <1>20, <2>1, <3>1, <4>1, <4>3
      <4> QED BY <4>1, <4>2, <4>3 DEF Either
    <3> QED BY <3>2, <3>3, <3>4
  <2>3. CASE FailsIn(w, S) /\ key = Failed(S, m)
    <3>1. FailedSteps(S, m, key)
      BY <1>18, <2>1, <2>3
    <3>2. \A c \in BOOLEAN : FailsIn(v, GrownTo(S, L, c))
      BY <1>6, <2>1, <2>3
    <3>3. next(key).ends => Event(v)
      BY <1>12, <2>1, <3>1, <3>2 DEF FailedSteps
    <3>4. ~ next(key).ends => \A x \in Range(next(key).successors) : OriginTrace(v, x)
      BY <1>20, <3>1, <3>2 DEF FailedSteps
    <3> QED BY <3>1, <3>3, <3>4 DEF FailedSteps
  <2> QED BY <2>1, <2>2, <2>3
<1>22. ASSUME NEW x, OriginTrace(v, x)
       PROVE  \E key : /\ OriginTrace(w, key)
                       /\ next(key).ends \/ x \in Range(next(key).successors)
  <2>1. PICK T, n : /\ Marks(sim, v, T, n)
                    /\ \/ \E j : IsNew(j) /\ x = UndecidedKey(v, T, n, j)
                       \/ FailsIn(v, T) /\ x = FailedKey(v, T, n)
    BY <1>15, <1>22
  <2>2. PICK S \in SUBSET (0 .. Len(w)), m \in 0 .. Len(w), c \in BOOLEAN :
           /\ Of(S, m)
           /\ T = GrownTo(S, L, c) /\ n = LastOf(m, L, c)
    BY <1>0, <2>1, MarksGrow DEF v, L, Of
  <2>3. MS(S, m, c)
    BY <2>1, <2>2 DEF MS
  <2>4. CASE \E j : IsNew(j) /\ x = UndecidedKey(v, T, n, j)
    <3>1. PICK j : IsNew(j) /\ x = NewUndecided(S, m, c, j)
      BY <2>2, <2>4 DEF NewUndecided
    <3>2. PICK k : Is(k) /\ To(k, j) /\ j # W
      BY <1>7, <3>1
    <3>3. OriginTrace(w, OpenKey(S, m, k))
      BY <1>14, <2>2, <3>2
    <3>4. \/ next(OpenKey(S, m, k)).ends
          \/ x \in Range(next(OpenKey(S, m, k)).successors)
      BY <1>17, <2>2, <2>3, <3>1, <3>2 DEF UndecidedSteps, Either
    <3> QED BY <3>3, <3>4
  <2>5. CASE FailsIn(v, T) /\ x = FailedKey(v, T, n)
    <3>1. x = NewFailed(S, m, c) /\ FailsIn(v, GrownTo(S, L, c))
      BY <2>2, <2>5 DEF NewFailed
    <3>2. CASE FailsIn(w, S)
      <4>1. OriginTrace(w, Failed(S, m))
        BY <1>14, <2>2, <3>2
      <4>2. next(Failed(S, m)).ends \/ x \in Range(next(Failed(S, m)).successors)
        BY <1>18, <2>2, <2>3, <3>1 DEF FailedSteps
      <4> QED BY <4>1, <4>2
    <3>3. CASE ~ FailsIn(w, S)
      <4>1. Is(W - 1) /\ Reads(W - 1) /\ FailsNow(S, c)
        BY <1>6, <2>2, <3>1, <3>3
      <4>2. PICK k : Is(k) /\ To(k, W)
        BY <1>8, <4>1
      <4>3. OriginTrace(w, OpenKey(S, m, k))
        BY <1>14, <2>2, <4>2
      <4>4. \/ next(OpenKey(S, m, k)).ends
            \/ x \in Range(next(OpenKey(S, m, k)).successors)
        BY <1>17, <2>2, <2>3, <3>1, <4>1, <4>2 DEF UndecidedSteps, Either
      <4> QED BY <4>3, <4>4
    <3> QED BY <3>2, <3>3
  <2> QED BY <2>1, <2>4, <2>5
<1>23. ASSUME Event(v)
       PROVE  \E key : OriginTrace(w, key) /\ next(key).ends
  <2>1. PICK S, m : Of(S, m) /\ Ends(S, m)
    BY <1>11, <1>13, <1>23
  <2>2. FailsIn(v, GrownTo(S, L, TRUE))
    BY <1>12, <1>23, <2>1
  <2>3. CASE FailsIn(w, S)
    <3>1. OriginTrace(w, Failed(S, m))
      BY <1>14, <2>1, <2>3
    <3> QED BY <1>18, <2>1, <3>1 DEF FailedSteps
  <2>4. CASE ~ FailsIn(w, S)
    <3>1. Is(W - 1) /\ Reads(W - 1) /\ FailsNow(S, TRUE)
      BY <1>6, <2>1, <2>2, <2>4
    <3>2. PICK k : Is(k) /\ To(k, W)
      BY <1>8, <3>1
    <3>3. OriginTrace(w, OpenKey(S, m, k))
      BY <1>14, <2>1, <3>2
    <3> QED BY <1>17, <2>1, <3>1, <3>2, <3>3 DEF UndecidedSteps
  <2> QED BY <2>3, <2>4
<1> QED BY <1>9, <1>10, <1>21, <1>22, <1>23 DEF CarriedOver, v

----------------------------------------------------------------------------
(* Where a search starts, the event has not happened and the start key is  *)
(* the only one.                                                           *)
LEMMA SerialOfNothing ==
  ASSUME NEW D
  PROVE  Serial(D, << >>).stream = << >> /\ Serial(D, << >>).consumed = 0
<1> DEFINE w == << >>
<1>1. w \in Seq(Symbols) /\ Len(w) = 0 /\ 0 \in 0 .. Len(w)
  OBVIOUS
<1>2. MatchLengths(D, w, 0) = {}
  <2> HIDE DEF w
  <2>1. 1 .. Len(w) - 0 = {}
    BY <1>1
  <2> QED BY <2>1 DEF MatchLengths
<1> HIDE DEF w
<1>3. SerialFrom(D, w)[0] = [stream |-> << >>, consumed |-> 0]
  BY <1>1, <1>2, SerialSteps
<1> QED BY <1>3 DEF Serial, w

LEMMA NothingHappens ==
  ASSUME Given
  PROVE  ~ Event(<< >>)
<1> DEFINE mine == Serial(sim, << >>)
           theirs == Serial(other, << >>)
<1>1. /\ mine.stream = << >> /\ mine.consumed = 0
      /\ theirs.stream = << >> /\ theirs.consumed = 0 /\ Len(<< >>) = 0
  BY SerialOfNothing
<1> HIDE DEF mine, theirs
<1>2. StartsOf(mine) = {} /\ StartsOf(theirs) = {}
  BY <1>1 DEF StartsOf
<1>3. Complete(mine, << >>) /\ Complete(theirs, << >>)
  BY <1>1 DEF Complete
<1>4. ~ RollsBack(sim, mine, << >>)
  BY <1>1 DEF RollsBack
<1>5. query.window # << >> => OccurrencesIn(<< >>, query.window) = {}
  <2> HAVE query.window # << >>
  <2>1. Len(query.window) \in Nat /\ Len(query.window) # 0
    BY DEF Given
  <2>2. PICK W \in Nat : W = Len(query.window) /\ W # 0
    BY <2>1
  <2>3. 0 .. Len(<< >>) - W = {}
    BY <1>1, <2>2
  <2> QED BY <2>2, <2>3 DEF OccurrencesIn
<1>6. Event(<< >>) <=> EventIn(search.kind, search.gap, << >>, mine, theirs)
  BY DEF Event, mine, theirs
<1>7. CASE search.kind \in OriginKinds
  <2>1. query.window # << >>
    <3>1. query.window = << >> => Len(query.window) = 0
      OBVIOUS
    <3> QED BY <1>7, <3>1 DEF Given, OriginKinds
  <2>2. OccurrencesIn(<< >>, query.window) = {}
    BY <1>5, <2>1
  <2>3. CASE search.kind = "covers"
    BY <1>6, <2>2, <2>3 DEF EventIn
  <2>4. CASE search.kind = "cut"
    BY <1>6, <2>2, <2>4 DEF EventIn
  <2>5. CASE search.kind = "crossed"
    BY <1>6, <2>2, <2>5 DEF EventIn
  <2> QED BY <1>7, <2>3, <2>4, <2>5 DEF OriginKinds
<1>8. CASE search.kind = "rescue"
  BY <1>4, <1>6, <1>8 DEF EventIn
<1>9. CASE search.kind = "difference"
  BY <1>2, <1>6, <1>9 DEF EventIn
<1>10. CASE search.kind = "segmentation"
  <2>1. StartsOf(mine) = StartsOf(theirs)
    BY <1>2
  <2>2. Event(<< >>) <=>
          \/ Complete(mine, << >>) # Complete(theirs, << >>)
          \/ Complete(mine, << >>) /\ StartsOf(mine) # StartsOf(theirs)
    BY <1>6, <1>10 DEF EventIn
  <2>3. Complete(mine, << >>) = Complete(theirs, << >>)
    BY <1>1 DEF Complete
  <2> QED BY <2>1, <2>2, <2>3
<1>11. CASE search.kind = "occurrence"
  BY <1>6, <1>11 DEF EventIn
<1> QED BY <1>7, <1>8, <1>9, <1>10, <1>11 DEF Given, SearchKinds, PairKinds

LEMMA NothingIsTraced ==
  ASSUME Given
  PROVE  \A key : Traced(<< >>, key) <=> key = StartKey(search.kind, search.gap)
<1> DEFINE e == << >>
<1>1. /\ \A S, m : Marks(sim, e, S, m) <=> S = {0} /\ m = 0
      /\ Position(sim, e, {0}, 0) = Initial(sim)
      /\ \A S, m : Marks(other, e, S, m) <=> S = {0} /\ m = 0
      /\ Position(other, e, {0}, 0) = Initial(other)
  BY MarksOfNothing DEF Given
<1>2. Len(e) = 0 /\ e \in Seq(Symbols)
  OBVIOUS
<1>3. /\ query.window \in Seq(Symbols) /\ Len(query.window) \in Nat
      /\ query.window = << >> <=> Len(query.window) = 0
      /\ search.gap \in Nat
  <2>1. query.window \in Seq(Symbols) /\ search.gap \in Nat
    BY DEF Given
  <2> QED BY <2>1
<1> DEFINE W == Len(query.window)
<1>4. \A k : k \in Nat => (SuffixIs(e, query.window, k) <=> k = 0)
  BY <1>2 DEF SuffixIs
<1>5. OccurrencesIn(e, query.window) # {} <=> W = 0
  <2>1. PICK x \in Seq(Symbols) : x = query.window /\ Len(x) = W
    BY <1>3
  <2>2. \A o : o \in OccurrencesIn(e, x) <=>
              o \in 0 .. Len(e) - Len(x) /\ \A i \in 1 .. Len(x) : e[o + i] = x[i]
    BY <1>2, OccurrencesAre
  <2> HIDE DEF e, W
  <2>3. CASE W = 0
    <3>1. 0 \in OccurrencesIn(e, x)
      BY <1>2, <2>1, <2>2, <2>3
    <3> QED BY <2>1, <2>3, <3>1
  <2>4. CASE W # 0
    <3>1. 0 .. Len(e) - Len(x) = {}
      BY <1>2, <1>3, <2>1, <2>4 DEF W
    <3> QED BY <2>1, <2>2, <2>4, <3>1
  <2> QED BY <2>3, <2>4
<1> HIDE DEF e, W
<1>6. CASE search.kind = "rescue"
  <2>1. \A key : Traced(e, key) <=> key = RescueKey(sim, e, {0}, 0)
    <3>1. \A key : Traced(e, key) <=> RescueTrace(e, key)
      BY <1>6, OfAKind
    <3> QED BY <1>1, <3>1 DEF RescueTrace
  <2>2. RunsOn(sim, e, {0}, 0) = FALSE
    BY DEF RunsOn
  <2>3. RescueKey(sim, e, {0}, 0) = Key(<<Initial(sim)>>, 0, FALSE, FALSE)
    BY <1>1, <2>2 DEF RescueKey
  <2>4. StartKey(search.kind, search.gap) = Key(<<Initial(sim)>>, 0, FALSE, FALSE)
    <3>1. "rescue" \notin PairKinds /\ "rescue" \notin OriginKinds
      BY DEF PairKinds, OriginKinds
    <3>2. (search.kind \in OriginKinds /\ search.gap = 0) = FALSE
          /\ (search.kind = "occurrence" /\ query.window = << >>) = FALSE
      BY <1>6, <3>1
    <3> QED BY <1>6, <3>1, <3>2 DEF StartKey
  <2> QED BY <2>1, <2>3, <2>4 DEF e
<1>7. CASE search.kind = "difference"
  <2>1. \A key : Traced(e, key) <=> key = DifferenceKey(e, {0}, 0, {0}, 0)
    <3>1. \A key : Traced(e, key) <=> DifferenceTrace(e, key)
      BY <1>7, OfAKind
    <3> QED BY <1>1, <3>1 DEF DifferenceTrace
  <2>2. ({0} # {0}) = FALSE
    OBVIOUS
  <2>3. DifferenceKey(e, {0}, 0, {0}, 0) = Key(<<Initial(sim), Initial(other)>>, 0, FALSE, FALSE)
    BY <1>1, <2>2 DEF DifferenceKey
  <2>4. StartKey(search.kind, search.gap) = Key(<<Initial(sim), Initial(other)>>, 0, FALSE, FALSE)
    <3>1. "difference" \in PairKinds /\ "difference" \notin OriginKinds
      BY DEF PairKinds, OriginKinds
    <3>2. (search.kind \in OriginKinds /\ search.gap = 0) = FALSE
          /\ (search.kind = "occurrence" /\ query.window = << >>) = FALSE
      BY <1>7, <3>1
    <3> QED BY <1>7, <3>1, <3>2 DEF StartKey
  <2> QED BY <2>1, <2>3, <2>4 DEF e
<1>8. CASE search.kind = "segmentation"
  <2>1. \A key : Traced(e, key) <=> key = SegmentationKey(e, {0}, 0)
    <3>1. \A key : Traced(e, key) <=> SegmentationTrace(e, key)
      BY <1>8, OfAKind
    <3>2. {0} \in SUBSET (0 .. Len(e)) /\ 0 \in 0 .. Len(e) /\ 0 \in {0} /\ \A s \in {0} : s <= 0
      BY <1>2
    <3>3. \A key : SegmentationTrace(e, key) => key = SegmentationKey(e, {0}, 0)
      BY <1>1 DEF SegmentationTrace
    <3>4. SegmentationTrace(e, SegmentationKey(e, {0}, 0))
      BY <1>1, <3>2 DEF SegmentationTrace
    <3> QED BY <3>1, <3>3, <3>4
  <2>3. SegmentationKey(e, {0}, 0) = Key(<<Initial(sim), Initial(other)>>, 0, FALSE, FALSE)
    BY <1>1 DEF SegmentationKey, Side
  <2>4. StartKey(search.kind, search.gap) = Key(<<Initial(sim), Initial(other)>>, 0, FALSE, FALSE)
    <3>1. "segmentation" \in PairKinds /\ "segmentation" \notin OriginKinds
      BY DEF PairKinds, OriginKinds
    <3>2. (search.kind \in OriginKinds /\ search.gap = 0) = FALSE
          /\ (search.kind = "occurrence" /\ query.window = << >>) = FALSE
      BY <1>8, <3>1
    <3> QED BY <1>8, <3>1, <3>2 DEF StartKey
  <2> QED BY <2>1, <2>3, <2>4 DEF e
<1>9. CASE search.kind = "occurrence"
  <2>0. \A k : MatchedTo(e, query.window, k) <=> k = 0
    <3>1. \A k : k \in 0 .. W - 1 => k \in Nat /\ W # 0
      BY <1>3 DEF W
    <3>2. W # 0 => 0 \in 0 .. W - 1 /\ 0 # W
      BY <1>3 DEF W
    <3>3. \A k : MatchedTo(e, query.window, k) <=>
            IF k = W THEN W = 0 ELSE k \in 0 .. W - 1 /\ SuffixIs(e, query.window, k)
      BY <1>5 DEF MatchedTo, W
    <3> QED BY <1>4, <3>1, <3>2, <3>3
  <2>1. \A key : Traced(e, key) <=> key = OccurrenceKey(e, {0}, 0, 0)
    <3>1. \A key : Traced(e, key) <=> OccurrenceTrace(e, key)
      BY <1>9, OfAKind
    <3> QED BY <1>1, <2>0, <3>1 DEF OccurrenceTrace
  <2>2. (0 = W) = (query.window = << >>)
    BY <1>3 DEF W
  <2>3. OccurrenceKey(e, {0}, 0, 0) = Key(<<Initial(sim)>>, 0, FALSE, query.window = << >>)
    BY <1>1, <2>2 DEF OccurrenceKey, W
  <2>4. StartKey(search.kind, search.gap) = Key(<<Initial(sim)>>, 0, FALSE, query.window = << >>)
    <3>1. "occurrence" \notin PairKinds /\ "occurrence" \notin OriginKinds
      BY DEF PairKinds, OriginKinds
    <3>2. (search.kind \in OriginKinds /\ search.gap = 0) = FALSE
          /\ (search.kind = "occurrence" /\ query.window = << >>) = (query.window = << >>)
      BY <1>9, <3>1
    <3> QED BY <1>9, <3>1, <3>2 DEF StartKey
  <2> QED BY <2>1, <2>3, <2>4 DEF e
<1>10. CASE search.kind \in OriginKinds
  <2>0. query.window # << >> /\ W # 0 /\ 0 \in 0 .. W - 1
    <3>1. query.window # << >>
      <4>1. query.window = << >> => Len(query.window) = 0
        OBVIOUS
      <4> QED BY <1>10, <4>1 DEF Given, OriginKinds
    <3> QED BY <1>3, <3>1 DEF W
  <2>1. \A S : ~ FailsIn(e, S)
    BY <1>5, <2>0 DEF FailsIn
  <2>2. \A key : Traced(e, key) <=> key = UndecidedKey(e, {0}, 0, 0)
    <3>1. \A key : Traced(e, key) <=> OriginTrace(e, key)
      BY <1>10, OfAKind
    <3>2. \A k \in 0 .. W - 1 : SuffixIs(e, query.window, k) <=> k = 0
      BY <1>3, <1>4
    <3>3. \A key : OriginTrace(e, key) <=>
            \E S, m : /\ Marks(sim, e, S, m)
                      /\ \E k \in 0 .. W - 1 :
                           SuffixIs(e, query.window, k) /\ key = UndecidedKey(e, S, m, k)
      BY <2>1 DEF OriginTrace, W
    <3>4. \A key : OriginTrace(e, key) <=>
            \E k \in 0 .. W - 1 :
              SuffixIs(e, query.window, k) /\ key = UndecidedKey(e, {0}, 0, k)
      BY <1>1, <3>3
    <3>5. \A key : OriginTrace(e, key) => key = UndecidedKey(e, {0}, 0, 0)
      BY <3>2, <3>4
    <3>6. OriginTrace(e, UndecidedKey(e, {0}, 0, 0))
      BY <2>0, <3>2, <3>4
    <3> QED BY <3>1, <3>5, <3>6
  <2>3. BitAt(search.kind, {0}, 0, Len(e) - 0 + search.gap) = (search.gap = 0)
    <3>1. Len(e) - 0 + search.gap = search.gap
      BY <1>2, <1>3
    <3>2. BitAt(search.kind, {0}, 0, search.gap) = (search.gap = 0)
      BY DEF BitAt
    <3> QED BY <3>1, <3>2
  <2>4. UndecidedKey(e, {0}, 0, 0) = Key(<<Initial(sim)>>, 0, search.gap = 0, FALSE)
    BY <1>1, <2>3 DEF UndecidedKey
  <2>5. StartKey(search.kind, search.gap) = Key(<<Initial(sim)>>, 0, search.gap = 0, FALSE)
    <3>1. search.kind \notin PairKinds /\ search.kind # "occurrence"
      BY <1>10 DEF PairKinds, OriginKinds
    <3>2. (search.kind \in OriginKinds /\ search.gap = 0) = (search.gap = 0)
          /\ (search.kind = "occurrence" /\ query.window = << >>) = FALSE
      BY <1>10, <3>1
    <3> QED BY <3>1, <3>2 DEF StartKey
  <2> QED BY <2>2, <2>4, <2>5 DEF e
<1> QED BY <1>6, <1>7, <1>8, <1>9, <1>10 DEF Given, SearchKinds, PairKinds

(* Every search carries what its keys stand for.                           *)
LEMMA AllCarried ==
  ASSUME Given, NEW w \in Seq(Symbols), NEW b \in Symbols
  PROVE  CarriedOver(w, b)
<1>1. CASE search.kind = "rescue"
  BY <1>1, RescueCarried
<1>2. CASE search.kind = "difference"
  BY <1>2, DifferenceCarried
<1>3. CASE search.kind = "segmentation"
  BY <1>3, SegmentationCarried
<1>4. CASE search.kind = "occurrence"
  BY <1>4, OccurrenceCarried
<1>5. CASE search.kind \in OriginKinds
  BY <1>5, OriginCarried
<1> QED BY <1>1, <1>2, <1>3, <1>4, <1>5 DEF Given, SearchKinds, PairKinds

----------------------------------------------------------------------------
(* A sequence with one more element.                                       *)
LEMMA SeqGrows ==
  ASSUME NEW s, IsSeq(s), NEW e
  PROVE  /\ IsSeq(Append(s, e)) /\ Len(Append(s, e)) = Len(s) + 1
         /\ \A i \in 1 .. Len(s) : Append(s, e)[i] = s[i]
         /\ Append(s, e)[Len(s) + 1] = e
         /\ Range(Append(s, e)) = Range(s) \cup {e}
<1>1. PICK K : s \in Seq(K)
  BY DEF IsSeq
<1>2. s \in Seq(K \cup {e})
  BY <1>1
<1> DEFINE u == Append(s, e)
<1>3. /\ u \in Seq(K \cup {e}) /\ Len(u) = Len(s) + 1 /\ Len(s) \in Nat
      /\ \A i \in 1 .. Len(s) : u[i] = s[i]
      /\ u[Len(s) + 1] = e
  BY <1>2
<1> HIDE DEF u
<1>4. IsSeq(u)
  BY <1>3 DEF IsSeq
<1>5. \A i : i \in 1 .. Len(u) <=> i \in 1 .. Len(s) \/ i = Len(s) + 1
  BY <1>3
<1>6. /\ Range(u) = { u[i] : i \in 1 .. Len(u) }
      /\ Range(s) = { s[i] : i \in 1 .. Len(s) }
  BY <1>4, SeqParts
<1>7. Range(u) = Range(s) \cup {e}
  BY <1>3, <1>5, <1>6
<1> QED BY <1>3, <1>4, <1>7 DEF u

(* A breadth-first search that admits every new key finds them all.  What  *)
(* admitting the successors of a key makes of the keys: those that were    *)
(* there stay where they are, only successors are added, and all of them   *)
(* are there unless the cap is reached.                                    *)
AdmittedAre(known, successors) ==
  /\ IsSeq(known.keys)
  /\ Len(known.keys) \in Len(keys) .. query.cap
  /\ \A i \in 1 .. Len(keys) : known.keys[i] = keys[i]
  /\ \A i \in Len(keys) + 1 .. Len(known.keys) : known.keys[i] \in Range(successors)
  /\ known.full \in BOOLEAN
  /\ ~ known.full => Range(successors) \subseteq Range(known.keys)
  /\ known.full => Len(known.keys) = query.cap

AdmitKey(known, key) ==
  IF known.full \/ Contains(known.keys, key) THEN known
  ELSE IF Len(known.keys) >= query.cap THEN [known EXCEPT !.full = TRUE]
  ELSE [known EXCEPT !.keys = Append(@, key)]

KnownFirst == [keys |-> keys, full |-> FALSE]

LEMMA AdmittedSteps ==
  ASSUME NEW successors, IsSeq(successors)
  PROVE  \E f : /\ f[0] = KnownFirst
                /\ \A n \in 1 .. Len(successors) : f[n] = AdmitKey(f[n - 1], successors[n])
                /\ Admitted(successors) = f[Len(successors)]
<1> DEFINE N == Len(successors)
           Is(f, k) == f = [ n \in 0 .. k |-> IF n = 0 THEN KnownFirst
                                              ELSE AdmitKey(f[n - 1], successors[n]) ]
           S == { k \in 0 .. N : \E f : Is(f, k) }
<1>0. N \in Nat
  BY SeqParts
<1>1. 0 \in S
  <2> DEFINE e == [ n \in 0 .. 0 |-> KnownFirst ]
  <2>1. e = [ n \in 0 .. 0 |-> IF n = 0 THEN KnownFirst
                               ELSE AdmitKey(e[n - 1], successors[n]) ]
    <3>1. \A n \in 0 .. 0 : n = 0
      OBVIOUS
    <3> QED BY <3>1
  <2>2. Is(e, 0)
    <3> HIDE DEF e
    <3> QED BY <2>1
  <2> HIDE DEF e, Is
  <2> QED BY <1>0, <2>2
<1>2. ASSUME NEW k \in 0 .. N - 1, k \in S PROVE k + 1 \in S
  <2>1. PICK f : Is(f, k)
    BY <1>2
  <2> DEFINE g == [ n \in 0 .. k + 1 |->
                      IF n = k + 1 THEN AdmitKey(f[k], successors[k + 1]) ELSE f[n] ]
  <2>2. k \in Nat /\ k + 1 \in 0 .. N
    BY <1>0
  <2>3. \A n \in 0 .. k + 1 : g[n] = IF n = 0 THEN KnownFirst
                                     ELSE AdmitKey(g[n - 1], successors[n])
    <3> TAKE n \in 0 .. k + 1
    <3>1. CASE n = k + 1
      <4>1. g[n] = AdmitKey(f[k], successors[k + 1])
        BY <3>1
      <4>2. n # 0 /\ n - 1 \in 0 .. k + 1 /\ n - 1 = k /\ n - 1 # k + 1 /\ g[n - 1] = f[k]
        BY <2>2, <3>1
      <4> HIDE DEF g
      <4> QED BY <3>1, <4>1, <4>2
    <3>2. CASE n # k + 1
      <4>1. n \in 0 .. k /\ g[n] = f[n]
        BY <2>2, <3>2
      <4>2. n # 0 => n - 1 \in 0 .. k + 1 /\ n - 1 # k + 1 /\ g[n - 1] = f[n - 1]
        BY <2>2, <3>2
      <4>3. f[n] = IF n = 0 THEN KnownFirst ELSE AdmitKey(f[n - 1], successors[n])
        BY <2>1, <4>1
      <4> HIDE DEF g
      <4> QED BY <4>1, <4>2, <4>3
    <3> QED BY <3>1, <3>2
  <2>4. g = [ n \in 0 .. k + 1 |-> g[n] ]
    OBVIOUS
  <2>5. Is(g, k + 1)
    <3> HIDE DEF g
    <3> QED BY <2>3, <2>4
  <2> HIDE DEF g, Is
  <2> QED BY <2>2, <2>5
<1>3. N \in S
  <2> HIDE DEF S
  <2>1. 0 .. N \subseteq S
    BY <1>0, <1>1, <1>2, UpTo
  <2> QED BY <1>0, <2>1
<1> DEFINE h == CHOOSE f : Is(f, N)
<1>4. Is(h, N)
  <2>1. PICK f : Is(f, N)
    BY <1>3
  <2> HIDE DEF Is
  <2> QED BY <2>1
<1>5. Admitted(successors) = h[N]
  BY DEF Admitted, AdmitKey, KnownFirst
<1> HIDE DEF h
<1>6. h[0] = KnownFirst
  BY <1>0, <1>4
<1>7. \A n \in 1 .. N : h[n] = AdmitKey(h[n - 1], successors[n])
  <2> TAKE n \in 1 .. N
  <2>1. n \in 0 .. N /\ n # 0
    BY <1>0
  <2> QED BY <1>4, <2>1
<1> HIDE DEF Is
<1> QED BY <1>5, <1>6, <1>7

LEMMA AdmittedIs ==
  ASSUME NEW successors, IsSeq(successors), IsSeq(keys), query.cap \in Nat,
         Len(keys) <= query.cap
  PROVE  AdmittedAre(Admitted(successors), successors)
<1> DEFINE N == Len(successors)
<1>0. /\ N \in Nat /\ DOMAIN successors = 1 .. N
      /\ Range(successors) = { successors[i] : i \in 1 .. N }
      /\ Len(keys) \in Nat /\ DOMAIN keys = 1 .. Len(keys)
  BY SeqParts
<1>1. PICK f : /\ f[0] = KnownFirst
               /\ \A n \in 1 .. N : f[n] = AdmitKey(f[n - 1], successors[n])
               /\ Admitted(successors) = f[N]
  BY AdmittedSteps
<1>c. PICK cap \in Nat : cap = query.cap
  OBVIOUS
<1> DEFINE Good(known, n) ==
             /\ known = [keys |-> known.keys, full |-> known.full]
             /\ IsSeq(known.keys)
             /\ Len(known.keys) \in Len(keys) .. cap
             /\ \A i \in 1 .. Len(keys) : known.keys[i] = keys[i]
             /\ \A i \in Len(keys) + 1 .. Len(known.keys) : known.keys[i] \in Range(successors)
             /\ known.full \in BOOLEAN
             /\ ~ known.full => \A i \in 1 .. n : successors[i] \in Range(known.keys)
             /\ known.full => Len(known.keys) = cap
           S == { n \in 0 .. N : Good(f[n], n) }
<1>2. 0 \in S
  <2>1. KnownFirst.keys = keys /\ KnownFirst.full = FALSE
    BY DEF KnownFirst
  <2>2. Len(keys) \in Len(keys) .. cap
    BY <1>0, <1>c
  <2>3. \A i \in Len(keys) + 1 .. Len(keys) : keys[i] \in Range(successors)
    BY <1>0
  <2>4. \A i \in 1 .. 0 : successors[i] \in Range(keys)
    OBVIOUS
  <2>5. PICK start : start = KnownFirst
    OBVIOUS
  <2>6. /\ start = [keys |-> start.keys, full |-> start.full]
        /\ start.keys = keys /\ start.full = FALSE
    BY <2>1, <2>5 DEF KnownFirst
  <2>7. Good(start, 0)
    BY <2>2, <2>3, <2>4, <2>6
  <2>8. f[0] = start
    BY <1>1, <2>5
  <2> HIDE DEF Good
  <2> QED BY <1>0, <2>7, <2>8
<1>3. ASSUME NEW n \in 0 .. N - 1, n \in S PROVE n + 1 \in S
  <2>1. n + 1 \in 1 .. N /\ (n + 1) - 1 = n /\ n + 1 \in 0 .. N /\ n \in Nat
    BY <1>0
  <2>2. PICK known : known = f[n]
    OBVIOUS
  <2>3. PICK key : key = successors[n + 1]
    OBVIOUS
  <2>4. f[n + 1] = AdmitKey(known, key)
    <3>1. f[n + 1] = AdmitKey(f[(n + 1) - 1], successors[n + 1])
      BY <1>1, <2>1
    <3> QED BY <2>1, <2>2, <2>3, <3>1
  <2>5. Good(known, n)
    BY <1>3, <2>2
  <2>6. /\ Len(known.keys) \in Nat /\ DOMAIN known.keys = 1 .. Len(known.keys)
        /\ Range(known.keys) = { known.keys[i] : i \in 1 .. Len(known.keys) }
    <3>1. IsSeq(known.keys)
      BY <2>5
    <3> QED BY <3>1, SeqParts
  <2>7. key \in Range(successors)
    BY <1>0, <2>1, <2>3
  <2>8. \A i \in 1 .. n + 1 : i \in 1 .. n \/ i = n + 1
    BY <2>1
  <2>9. CASE known.full
    <3>1. f[n + 1] = known
      BY <2>4, <2>9 DEF AdmitKey
    <3>2. Good(known, n + 1)
      BY <2>5, <2>9
    <3> QED BY <2>1, <3>1, <3>2
  <2>10. CASE ~ known.full /\ Contains(known.keys, key)
    <3>1. f[n + 1] = known
      BY <2>4, <2>10 DEF AdmitKey
    <3>2. key \in Range(known.keys)
      BY <2>6, <2>10 DEF Contains
    <3>3. \A i \in 1 .. n + 1 : successors[i] \in Range(known.keys)
      BY <2>3, <2>5, <2>8, <2>10, <3>2
    <3>4. Good(known, n + 1)
      BY <2>5, <2>10, <3>3
    <3> QED BY <2>1, <3>1, <3>4
  <2>11. CASE ~ known.full /\ ~ Contains(known.keys, key) /\ Len(known.keys) >= cap
    <3>1. f[n + 1] = [known EXCEPT !.full = TRUE]
      BY <1>c, <2>4, <2>11 DEF AdmitKey
    <3>2. PICK next : next = [keys |-> known.keys, full |-> TRUE]
      OBVIOUS
    <3>3. f[n + 1] = next
      <4>1. known = [keys |-> known.keys, full |-> known.full]
        BY <2>5
      <4> QED BY <3>1, <3>2, <4>1
    <3>4. Len(known.keys) = cap
      BY <1>0, <1>c, <2>5, <2>6, <2>11
    <3>5. next.keys = known.keys /\ next.full = TRUE
      BY <3>2
    <3>6. Good(next, n + 1)
      BY <2>5, <3>2, <3>4, <3>5
    <3> QED BY <2>1, <3>3, <3>6
  <2>12. CASE ~ known.full /\ ~ Contains(known.keys, key) /\ ~ (Len(known.keys) >= cap)
    <3>1. f[n + 1] = [known EXCEPT !.keys = Append(@, key)]
      BY <1>c, <2>4, <2>12 DEF AdmitKey
    <3>2. PICK more : more = Append(known.keys, key)
      OBVIOUS
    <3>3. PICK next : next = [keys |-> more, full |-> FALSE]
      OBVIOUS
    <3>4. f[n + 1] = next
      <4>1. known = [keys |-> known.keys, full |-> known.full] /\ known.full = FALSE
        BY <2>5, <2>12
      <4> QED BY <3>1, <3>2, <3>3, <4>1
    <3>5. /\ IsSeq(more) /\ Len(more) = Len(known.keys) + 1
          /\ \A i \in 1 .. Len(known.keys) : more[i] = known.keys[i]
          /\ more[Len(known.keys) + 1] = key
          /\ Range(more) = Range(known.keys) \cup {key}
      BY <2>5, <3>2, SeqGrows
    <3>6. Len(known.keys) \in Len(keys) .. cap
      BY <2>5
    <3>7. Len(known.keys) < cap
      BY <1>c, <2>6, <2>12
    <3>8. Len(more) \in Len(keys) .. cap
      BY <1>0, <2>6, <3>5, <3>6, <3>7
    <3>9. \A i \in 1 .. Len(keys) : more[i] = keys[i]
      <4> TAKE i \in 1 .. Len(keys)
      <4>1. i \in 1 .. Len(known.keys)
        BY <1>0, <2>6, <3>6
      <4> QED BY <2>5, <3>5, <4>1
    <3>10. \A i \in Len(keys) + 1 .. Len(more) : more[i] \in Range(successors)
      <4> TAKE i \in Len(keys) + 1 .. Len(more)
      <4>1. \/ i \in 1 .. Len(known.keys) /\ i \in Len(keys) + 1 .. Len(known.keys)
            \/ i = Len(known.keys) + 1
        BY <1>0, <2>6, <3>5
      <4> QED BY <2>5, <2>7, <3>5, <4>1
    <3>11. \A i \in 1 .. n + 1 : successors[i] \in Range(more)
      BY <2>3, <2>5, <2>8, <2>12, <3>5
    <3>12. next.keys = more /\ next.full = FALSE
      BY <3>3
    <3>13. Good(next, n + 1)
      BY <3>3, <3>5, <3>8, <3>9, <3>10, <3>11, <3>12
    <3> QED BY <2>1, <3>4, <3>13
  <2> QED BY <1>c, <2>9, <2>10, <2>11, <2>12
<1>4. N \in S
  <2> HIDE DEF S
  <2>1. 0 .. N \subseteq S
    BY <1>0, <1>2, <1>3, UpTo
  <2> QED BY <1>0, <2>1
<1>5. Good(f[N], N)
  BY <1>4
<1> QED BY <1>0, <1>1, <1>5, <1>c DEF AdmittedAre

(* What a search steps by does not change while it runs.                   *)
LEMMA GuessesStay ==
  ASSUME UNCHANGED <<query, sim, other, search>>
  PROVE  /\ \A key, b, closes : Guesses(key, b, closes)' = Guesses(key, b, closes)
         /\ \A key, g : OriginBit(key, g)' = OriginBit(key, g)
         /\ \A key, g : KeepsClaim(key, g)' = KeepsClaim(key, g)
<1>1. \A key, b, closes : Guesses(key, b, closes)' = Guesses(key, b, closes)
  BY DEF Guesses
<1>2. \A key, g : OriginBit(key, g)' = OriginBit(key, g)
  BY DEF OriginBit
<1>3. \A key, g : KeepsClaim(key, g)' = KeepsClaim(key, g)
  BY <1>2 DEF KeepsClaim
<1> QED BY <1>1, <1>2, <1>3

OccurrenceFrom(window, D, position, guesses) ==
  IF \E i \in DOMAIN guesses : guesses[i].matched = Len(window) /\ guesses[i].cuts
  THEN InputEnds
  ELSE LeadsTo([ i \in DOMAIN guesses |->
                   Key(<<ClosedIf(D, position, guesses[i].cuts)>>, guesses[i].matched, FALSE,
                       guesses[i].matched = Len(window)) ])

LEMMA OccurrenceStepStays ==
  ASSUME UNCHANGED <<query, sim, other, search>>, NEW key, NEW b
  PROVE  OccurrenceStep(key, b)' = OccurrenceStep(key, b)
<1> DEFINE read == Advanced(sim, key.scans[1], b)
           position == TheOnly(read)
           c == Accepting(sim, position.reading)
<1>1. OccurrenceStep(key, b) =
        IF read = {} THEN LeadsTo(<< >>)
        ELSE OccurrenceFrom(query.window, sim, position, Guesses(key, b, c))
  BY DEF OccurrenceStep, OccurrenceFrom
<1>2. OccurrenceStep(key, b)' =
        IF read = {} THEN LeadsTo(<< >>)
        ELSE OccurrenceFrom(query.window, sim, position, Guesses(key, b, c)')
  BY DEF OccurrenceStep, OccurrenceFrom
<1>3. Guesses(key, b, c)' = Guesses(key, b, c)
  BY DEF Guesses
<1> QED BY <1>1, <1>2, <1>3

LEMMA OriginStepStays ==
  ASSUME UNCHANGED <<query, sim, other, search>>, NEW key, NEW b
  PROVE  OriginStep(key, b)' = OriginStep(key, b)
<1> DEFINE read == Advanced(sim, key.scans[1], b)
           position == TheOnly(read)
           c == Accepting(sim, position.reading)
           G == Guesses(key, b, c)
           through(g) == ~ key.marked /\ g.matched = Len(query.window)
           dropped(g) == through(g) /\ KeepsClaim(key, g)
           marked(g) == key.marked \/ through(g)
           after(g) == Key(<<ClosedIf(sim, position, g.cuts)>>, g.matched,
                           OriginBit(key, g) /\ ~ marked(g), marked(g))
           ends == \E i \in DOMAIN G : ~ dropped(G[i]) /\ marked(G[i]) /\ G[i].cuts
           parts == [ i \in DOMAIN G |-> IF dropped(G[i]) THEN << >> ELSE <<after(G[i])>> ]
<1>1. OriginStep(key, b) =
        IF read = {} THEN LeadsTo(<< >>)
        ELSE IF ends THEN InputEnds ELSE LeadsTo(FlattenSeq(parts))
  BY DEF OriginStep
<1>2. OriginStep(key, b)' =
        (IF read = {} THEN LeadsTo(<< >>)
         ELSE IF ends THEN InputEnds ELSE LeadsTo(FlattenSeq(parts)))'
  BY DEF OriginStep
<1>3. G' = G
  BY DEF Guesses
<1>4. \A g : (OriginBit(key, g)' <=> OriginBit(key, g)) /\ (KeepsClaim(key, g)' <=> KeepsClaim(key, g))
  BY GuessesStay
<1> HIDE DEF G
<1>5. \A g : dropped(g)' = dropped(g) /\ marked(g)' = marked(g) /\ after(g)' = after(g)
  BY <1>4
<1> HIDE DEF dropped, marked, after
<1>6. ends' <=> ends
  BY <1>3, <1>5
<1>7. parts' = parts
  BY <1>3, <1>5
<1> HIDE DEF ends, parts
<1> QED BY <1>1, <1>2, <1>6, <1>7

LEMMA StepsStay ==
  ASSUME UNCHANGED <<query, sim, other, search>>
  PROVE  \A key, b : Step(key, b)' = Step(key, b)
<1>1. \A key, b : RescueStep(key, b)' = RescueStep(key, b)
  BY DEF RescueStep
<1>2. \A key, b : DifferenceStep(key, b)' = DifferenceStep(key, b)
  BY DEF DifferenceStep
<1>3. \A key, b : SegmentationStep(key, b)' = SegmentationStep(key, b)
  BY DEF SegmentationStep
<1>4. \A key, b : OccurrenceStep(key, b)' = OccurrenceStep(key, b)
  BY OccurrenceStepStays
<1>5. \A key, b : OriginStep(key, b)' = OriginStep(key, b)
  BY OriginStepStays
<1> QED BY <1>1, <1>2, <1>3, <1>4, <1>5 DEF Step

LEMMA EventsStay ==
  ASSUME UNCHANGED <<query, sim, other>>
  PROVE  /\ \A kind, gap, w, mine, theirs :
              EventIn(kind, gap, w, mine, theirs)' <=> EventIn(kind, gap, w, mine, theirs)
         /\ \A kind, gap : StartKey(kind, gap)' = StartKey(kind, gap)
<1>1. \A kind, gap, w, mine, theirs :
        EventIn(kind, gap, w, mine, theirs)' <=> EventIn(kind, gap, w, mine, theirs)
  BY DEF EventIn
<1>2. \A kind, gap : StartKey(kind, gap)' = StartKey(kind, gap)
  BY DEF StartKey
<1> QED BY <1>1, <1>2

LEMMA TracesStay ==
  ASSUME UNCHANGED <<query, sim, other, search>>
  PROVE  \A w, key : Traced(w, key)' <=> Traced(w, key)
<1>1. \A w, key : RescueTrace(w, key)' <=> RescueTrace(w, key)
  BY DEF RescueTrace
<1>2. \A w, key : DifferenceTrace(w, key)' <=> DifferenceTrace(w, key)
  <2>1. \A w, S, m, T, n : DifferenceKey(w, S, m, T, n)' = DifferenceKey(w, S, m, T, n)
    BY DEF DifferenceKey
  <2> QED BY <2>1 DEF DifferenceTrace
<1>3. \A w, key : SegmentationTrace(w, key)' <=> SegmentationTrace(w, key)
  <2>1. \A w, S, m : SegmentationKey(w, S, m)' = SegmentationKey(w, S, m)
    BY DEF SegmentationKey
  <2> QED BY <2>1 DEF SegmentationTrace
<1>4. \A w, key : OccurrenceTrace(w, key)' <=> OccurrenceTrace(w, key)
  <2>1. \A w, S, m, k : OccurrenceKey(w, S, m, k)' = OccurrenceKey(w, S, m, k)
    BY DEF OccurrenceKey
  <2> QED BY <2>1 DEF OccurrenceTrace
<1>5. \A w, key : OriginTrace(w, key)' <=> OriginTrace(w, key)
  <2>1. \A w, S, m, k : UndecidedKey(w, S, m, k)' = UndecidedKey(w, S, m, k)
    BY DEF UndecidedKey
  <2>2. \A w, S, m : FailedKey(w, S, m)' = FailedKey(w, S, m)
    BY DEF FailedKey
  <2>3. \A w, S : FailsIn(w, S)' <=> FailsIn(w, S)
    BY DEF FailsIn
  <2> QED BY <2>1, <2>2, <2>3 DEF OriginTrace
<1> QED BY <1>1, <1>2, <1>3, <1>4, <1>5 DEF Traced

----------------------------------------------------------------------------
(* The walk of a search that has admitted some keys and reads byte t at    *)
(* the key at: every key stands for the input that leads to it, the inputs *)
(* get longer from one key to the next by no more than a byte, and what    *)
(* has been examined does not end and leads only to keys that are there.   *)
Deep(ks, via, i) == Len(TrailTo(Len(ks), via)[i])

Examined(at_, t, i, u) == i < at_ \/ (i = at_ /\ u < t)

KeysStand(ks, via) ==
  /\ IsSeq(ks) /\ Len(ks) # 0
  /\ IsSeq(via) /\ Len(via) = Len(ks) /\ IsVia(Len(ks), via)
  /\ ks[1] = StartKey(search.kind, search.gap)
  /\ \A i \in 1 .. Len(ks) : Traced(TrailTo(Len(ks), via)[i], ks[i])

KeysAscend(ks, via, at_) ==
  /\ \A i, j \in 1 .. Len(ks) : i <= j => Deep(ks, via, i) <= Deep(ks, via, j)
  /\ at_ <= Len(ks) => \A i \in 1 .. Len(ks) : Deep(ks, via, i) <= Deep(ks, via, at_) + 1

LeadsBack(ks, via, i, b) ==
  /\ ~ Step(ks[i], b).ends
  /\ \A k \in Range(Step(ks[i], b).successors) :
       \E j \in 1 .. Len(ks) : ks[j] = k /\ Deep(ks, via, j) <= Deep(ks, via, i) + 1

Walk(ks, via, at_, t) ==
  /\ KeysStand(ks, via)
  /\ at_ \in 1 .. Len(ks) + 1 /\ t \in 1 .. Len(Bytes) + 1
  /\ KeysAscend(ks, via, at_)
  /\ \A i \in 1 .. Len(ks), u \in 1 .. Len(Bytes) :
       Examined(at_, t, i, u) => LeadsBack(ks, via, i, Bytes[u])

LEMMA WalkLengths ==
  ASSUME NEW ks, NEW via, KeysStand(ks, via)
  PROVE  /\ Len(ks) \in Nat /\ Len(ks) # 0 /\ Range(ks) = { ks[i] : i \in 1 .. Len(ks) }
         /\ \A i \in 1 .. Len(ks) : /\ TrailTo(Len(ks), via)[i] \in Seq(Symbols)
                                    /\ Deep(ks, via, i) \in Nat
         /\ TrailTo(Len(ks), via)[1] = << >> /\ Deep(ks, via, 1) = 0
<1>1. Len(ks) \in Nat /\ Len(ks) # 0 /\ Range(ks) = { ks[i] : i \in 1 .. Len(ks) }
  BY SeqParts DEF KeysStand
<1>2. PICK N \in Nat : N = Len(ks)
  BY <1>1
<1>3. IsVia(N, via)
  BY <1>2 DEF KeysStand
<1>4. /\ N # 0 => TrailTo(N, via)[1] = << >>
      /\ \A n \in 1 .. N : TrailTo(N, via)[n] \in Seq(Symbols)
  BY <1>3, TrailSteps
<1>5. \A x \in Seq(Symbols) : Len(x) \in Nat
  OBVIOUS
<1> QED BY <1>1, <1>2, <1>4, <1>5 DEF Deep

LEMMA WalkBegins ==
  ASSUME Given, NEW via, IsSeq(via), Len(via) = 1
  PROVE  Walk(<<StartKey(search.kind, search.gap)>>, via, 1, 1)
<1>1. PICK ks : ks = <<StartKey(search.kind, search.gap)>>
  OBVIOUS
<1>2. IsSeq(ks) /\ Len(ks) = 1 /\ ks[1] = StartKey(search.kind, search.gap)
  BY <1>1, SeqOfOne
<1>3. \A i \in 1 .. Len(ks) : i = 1
  BY <1>2
<1>4. IsVia(1, via)
  BY DEF IsVia
<1>5. TrailTo(1, via)[1] = << >>
  BY <1>4, TrailSteps
<1>6. Traced(<< >>, ks[1])
  BY <1>2, NothingIsTraced
<1>7. KeysStand(ks, via)
  BY <1>2, <1>3, <1>4, <1>5, <1>6 DEF KeysStand
<1>8. Deep(ks, via, 1) = 0
  BY <1>7, WalkLengths
<1>9. Len(Bytes) \in Nat
  BY CompiledSetAssumption
<1>10. 1 \in 1 .. Len(ks) + 1 /\ 1 \in 1 .. Len(Bytes) + 1
  BY <1>2, <1>9
<1>11. KeysAscend(ks, via, 1)
  BY <1>3, <1>8 DEF KeysAscend
<1>12. \A i \in 1 .. Len(ks), u \in 1 .. Len(Bytes) : ~ Examined(1, 1, i, u)
  BY <1>3, <1>9 DEF Examined
<1> QED BY <1>1, <1>7, <1>10, <1>11, <1>12 DEF Walk

(* What of a walk is the same when keys are added behind the others.       *)
LEMMA WalkExtends ==
  ASSUME NEW ks, NEW via, KeysStand(ks, via),
         NEW more, IsSeq(more), Len(ks) <= Len(more),
         \A i \in 1 .. Len(ks) : more[i] = ks[i],
         NEW ups, IsVia(Len(more), ups), \A i \in 1 .. Len(ks) : ups[i] = via[i]
  PROVE  \A i \in 1 .. Len(ks) :
           /\ TrailTo(Len(more), ups)[i] = TrailTo(Len(ks), via)[i]
           /\ Deep(more, ups, i) = Deep(ks, via, i)
<1>1. PICK N \in Nat : N = Len(ks)
  BY WalkLengths
<1>2. PICK M \in Nat : M = Len(more)
  BY SeqParts
<1>3. N \in Nat /\ M \in Nat /\ N <= M /\ IsVia(N, via) /\ IsVia(M, ups)
  BY <1>1, <1>2 DEF KeysStand
<1>4. SameVia(N, via, ups)
  BY <1>1 DEF SameVia
<1>5. \A n \in 1 .. N : TrailTo(M, ups)[n] = TrailTo(N, via)[n]
  BY ONLY <1>3, <1>4, TrailsStay
<1> QED BY <1>1, <1>2, <1>5 DEF Deep

(* All that a byte leads to is added, and only that, with its parents.     *)
MoreKeys(ks, more, successors) ==
  /\ IsSeq(more) /\ Len(ks) <= Len(more)
  /\ \A i \in 1 .. Len(ks) : more[i] = ks[i]
  /\ \A i \in Len(ks) + 1 .. Len(more) : more[i] \in Range(successors)
  /\ Range(successors) \subseteq Range(more)

MoreParents(ks, via, more, ups, at_, b) ==
  /\ IsSeq(ups) /\ Len(ups) = Len(more)
  /\ \A i \in 1 .. Len(ks) : ups[i] = via[i]
  /\ \A i \in Len(ks) + 1 .. Len(more) : ups[i].from = at_ /\ ups[i].byte = b

LEMMA WalkReads ==
  ASSUME Given, NEW ks, NEW via, NEW at_, NEW t, Walk(ks, via, at_, t),
         at_ <= Len(ks), t <= Len(Bytes), ~ Step(ks[at_], Bytes[t]).ends,
         NEW more, MoreKeys(ks, more, Step(ks[at_], Bytes[t]).successors),
         NEW ups, MoreParents(ks, via, more, ups, at_, Bytes[t])
  PROVE  Walk(more, ups, at_, t + 1)
<1>0. /\ IsSeq(more) /\ Len(ks) <= Len(more)
      /\ \A i \in 1 .. Len(ks) : more[i] = ks[i]
      /\ \A i \in Len(ks) + 1 .. Len(more) :
           more[i] \in Range(Step(ks[at_], Bytes[t]).successors)
      /\ Range(Step(ks[at_], Bytes[t]).successors) \subseteq Range(more)
      /\ IsSeq(ups) /\ Len(ups) = Len(more)
      /\ \A i \in 1 .. Len(ks) : ups[i] = via[i]
      /\ \A i \in Len(ks) + 1 .. Len(more) : ups[i].from = at_ /\ ups[i].byte = Bytes[t]
  BY DEF MoreKeys, MoreParents
<1>w. KeysStand(ks, via) /\ KeysAscend(ks, via, at_)
  BY DEF Walk
<1>1. PICK N \in Nat : N = Len(ks) /\ N # 0
  BY <1>w, WalkLengths
<1>0w. at_ \in Nat /\ at_ # 0 /\ t \in 1 .. Len(Bytes) /\ Len(Bytes) \in Nat
  <2>1. at_ \in 1 .. Len(ks) + 1 /\ t \in 1 .. Len(Bytes) + 1
    BY DEF Walk
  <2>2. Len(ks) \in Nat /\ Len(Bytes) \in Nat
    BY <1>w, WalkLengths, CompiledSetAssumption
  <2> QED BY <2>1, <2>2
<1>4. PICK b \in Symbols : b = Bytes[t]
  BY <1>0w, CompiledSetAssumption
<1> USE <1>0
<1>2. PICK M \in Nat : M = Len(more) /\ N <= M
  BY <1>1, SeqParts
<1>3. /\ at_ \in 1 .. N /\ at_ \in Nat /\ t \in 1 .. Len(Bytes) /\ t \in Nat
      /\ Len(Bytes) \in Nat /\ KeysStand(ks, via) /\ KeysAscend(ks, via, at_)
  BY <1>1, <1>w, <1>0w
<1>5. IsVia(M, ups)
  <2> SUFFICES ASSUME NEW n \in 2 .. M PROVE ups[n].from \in 1 .. n - 1 /\ ups[n].byte \in Symbols
    BY DEF IsVia
  <2>1. CASE n \in 1 .. N
    <3>1. n \in 2 .. N /\ ups[n] = via[n]
      BY <1>1, <2>1
    <3>2. via[n].from \in 1 .. n - 1 /\ via[n].byte \in Symbols
      BY <1>1, <1>3, <3>1 DEF KeysStand, IsVia
    <3> QED BY <3>1, <3>2
  <2>2. CASE n \notin 1 .. N
    <3>1. n \in N + 1 .. M
      BY <2>2
    <3>2. ups[n].from = at_ /\ ups[n].byte = b
      BY <1>1, <1>2, <1>4, <3>1
    <3>3. at_ \in 1 .. n - 1
      BY <1>3, <3>1
    <3> QED BY <3>2, <3>3
  <2> QED BY <2>1, <2>2
<1> DEFINE old == TrailTo(N, via)
           new == TrailTo(M, ups)
           d(i) == Deep(ks, via, i)
           e(i) == Deep(more, ups, i)
<1>6. \A i \in 1 .. N : new[i] = old[i] /\ e(i) = d(i)
  BY <1>1, <1>2, <1>3, <1>5, WalkExtends
<1>7. \A i \in 1 .. N : old[i] \in Seq(Symbols) /\ d(i) \in Nat
  BY <1>1, <1>3, WalkLengths
<1>8. \A i \in N + 1 .. M : new[i] = Append(old[at_], b) /\ e(i) = d(at_) + 1
  <2> TAKE i \in N + 1 .. M
  <2>1. i \in 2 .. M
    BY <1>1
  <2>2. new[i] = Append(new[ups[i].from], ups[i].byte)
    BY <1>5, <2>1, TrailSteps
  <2>3. ups[i].from = at_ /\ ups[i].byte = b
    BY <1>1, <1>2, <1>4
  <2>4. new[i] = Append(old[at_], b)
    BY <1>3, <1>6, <2>2, <2>3
  <2>5. e(i) = Len(new[i]) /\ d(at_) = Len(old[at_])
    BY <1>1, <1>2 DEF Deep
  <2> HIDE DEF new, old, d, e
  <2>6. old[at_] \in Seq(Symbols)
    BY <1>3, <1>7
  <2> QED BY <2>4, <2>5, <2>6
<1> HIDE DEF old, new, d, e
<1>9. \A i \in 1 .. M : i \in 1 .. N \/ i \in N + 1 .. M
  OBVIOUS
<1>10. \A i \in 1 .. M : Traced(new[i], more[i])
  <2> TAKE i \in 1 .. M
  <2>1. CASE i \in 1 .. N
    <3>1. Traced(old[i], ks[i])
      BY <1>1, <1>3, <2>1 DEF KeysStand, old
    <3> QED BY <1>1, <1>6, <2>1, <3>1
  <2>2. CASE i \in N + 1 .. M
    <3>1. Traced(old[at_], ks[at_])
      BY <1>1, <1>3 DEF KeysStand, old
    <3>2. CarriedOver(old[at_], b)
      BY <1>3, <1>7, AllCarried
    <3>3. more[i] \in Range(Step(ks[at_], b).successors)
      BY <1>1, <1>2, <1>4, <2>2
    <3>4. ~ Step(ks[at_], b).ends
      BY <1>4
    <3>5. Traced(Append(old[at_], b), more[i])
      BY <3>1, <3>2, <3>3, <3>4 DEF CarriedOver
    <3> QED BY <1>8, <2>2, <3>5
  <2> QED BY <1>9, <2>1, <2>2
<1>11. KeysStand(more, ups)
  <2>1. 1 \in 1 .. N /\ 1 \in 1 .. Len(ks)
    BY <1>1
  <2>2. more[1] = StartKey(search.kind, search.gap)
    BY <1>3, <2>1 DEF KeysStand
  <2> QED BY <1>1, <1>2, <1>5, <1>10, <2>2 DEF KeysStand, new
<1>12. /\ \A i, j \in 1 .. N : i <= j => d(i) <= d(j)
       /\ \A i \in 1 .. N : d(i) <= d(at_) + 1
  BY <1>1, <1>3 DEF KeysAscend, d
<1>13. \A i \in 1 .. M : e(i) <= e(at_) + 1 /\ e(i) \in Nat
  <2> TAKE i \in 1 .. M
  <2>1. e(at_) = d(at_) /\ d(at_) \in Nat
    BY <1>3, <1>6, <1>7
  <2>2. CASE i \in 1 .. N
    BY <1>6, <1>7, <1>12, <2>1, <2>2
  <2>3. CASE i \in N + 1 .. M
    BY <1>8, <2>1, <2>3
  <2> QED BY <1>9, <2>2, <2>3
<1>14. KeysAscend(more, ups, at_)
  <2>1. ASSUME NEW i \in 1 .. M, NEW j \in 1 .. M, i <= j PROVE e(i) <= e(j)
    <3>1. CASE i \in 1 .. N /\ j \in 1 .. N
      BY <1>6, <1>12, <2>1, <3>1
    <3>2. CASE j \in N + 1 .. M
      <4>1. e(j) = e(at_) + 1
        BY <1>3, <1>6, <1>8, <3>2
      <4> QED BY <1>13, <4>1
    <3>3. i \in N + 1 .. M => j \in N + 1 .. M
      BY <2>1
    <3> QED BY <1>9, <3>1, <3>2, <3>3
  <2> QED BY <1>2, <1>13, <2>1 DEF KeysAscend, e
<1>15. at_ \in 1 .. Len(more) + 1 /\ t + 1 \in 1 .. Len(Bytes) + 1
  BY <1>2, <1>3
<1>16. ASSUME NEW i \in 1 .. M, NEW u \in 1 .. Len(Bytes), Examined(at_, t + 1, i, u)
       PROVE  LeadsBack(more, ups, i, Bytes[u])
  <2>1. i \in 1 .. N /\ more[i] = ks[i] /\ e(i) = d(i)
    <3>1. i \in 1 .. N
      BY <1>3, <1>16 DEF Examined
    <3> QED BY <1>1, <1>6, <3>1
  <2>2. CASE Examined(at_, t, i, u)
    <3>1. LeadsBack(ks, via, i, Bytes[u])
      BY <1>1, <2>1, <2>2 DEF Walk
    <3>2. ASSUME NEW k \in Range(Step(ks[i], Bytes[u]).successors)
          PROVE  \E j \in 1 .. Len(more) : more[j] = k /\ Deep(more, ups, j) <= Deep(more, ups, i) + 1
      <4>1. PICK j \in 1 .. N : ks[j] = k /\ d(j) <= d(i) + 1
        BY <1>1, <3>1 DEF LeadsBack, d
      <4>2. j \in 1 .. Len(more) /\ more[j] = k /\ e(j) <= e(i) + 1
        BY <1>1, <1>2, <1>6, <2>1, <4>1
      <4> QED BY <4>2 DEF e
    <3> QED BY <2>1, <3>1, <3>2 DEF LeadsBack
  <2>3. CASE i = at_ /\ u = t
    <3>1. ASSUME NEW k \in Range(Step(ks[i], Bytes[u]).successors)
          PROVE  \E j \in 1 .. Len(more) : more[j] = k /\ Deep(more, ups, j) <= Deep(more, ups, i) + 1
      <4>1. k \in Range(more)
        BY <2>3, <3>1
      <4>2. PICK j \in 1 .. M : more[j] = k
        BY <1>2, <4>1, SeqParts
      <4>3. e(j) <= e(i) + 1
        BY <1>13, <2>3, <4>2
      <4> QED BY <1>2, <4>2, <4>3 DEF e
    <3> QED BY <2>1, <2>3, <3>1 DEF LeadsBack
  <2>4. Examined(at_, t, i, u) \/ (i = at_ /\ u = t)
    BY <1>3, <1>16 DEF Examined
  <2> QED BY <2>2, <2>3, <2>4
<1> QED BY <1>2, <1>11, <1>14, <1>15, <1>16 DEF Walk

LEMMA WalkMovesOn ==
  ASSUME Given, NEW ks, NEW via, NEW at_, NEW t, Walk(ks, via, at_, t),
         at_ <= Len(ks), t > Len(Bytes)
  PROVE  Walk(ks, via, at_ + 1, 1)
<1>1. PICK N \in Nat : N = Len(ks) /\ N # 0
  BY WalkLengths DEF Walk
<1>3. /\ at_ \in 1 .. N /\ at_ \in Nat /\ t \in Nat
      /\ Len(Bytes) \in Nat /\ KeysStand(ks, via) /\ KeysAscend(ks, via, at_)
  BY <1>1, CompiledSetAssumption DEF Walk
<1> DEFINE d(i) == Deep(ks, via, i)
<1>4. \A i \in 1 .. N : d(i) \in Nat
  BY <1>1, <1>3, WalkLengths
<1>5. /\ \A i, j \in 1 .. N : i <= j => d(i) <= d(j)
      /\ \A i \in 1 .. N : d(i) <= d(at_) + 1
  BY <1>1, <1>3 DEF KeysAscend
<1> HIDE DEF d
<1>6. at_ + 1 <= N => \A i \in 1 .. N : d(i) <= d(at_ + 1) + 1
  <2> HAVE at_ + 1 <= N
  <2> TAKE i \in 1 .. N
  <2>1. at_ + 1 \in 1 .. N /\ at_ <= at_ + 1
    BY <1>3
  <2>2. d(at_) <= d(at_ + 1)
    BY <1>3, <1>5, <2>1
  <2> QED BY <1>3, <1>4, <1>5, <2>1, <2>2
<1>7. KeysAscend(ks, via, at_ + 1)
  BY <1>1, <1>5, <1>6 DEF KeysAscend, d
<1>8. ASSUME NEW i \in 1 .. N, NEW u \in 1 .. Len(Bytes), Examined(at_ + 1, 1, i, u)
      PROVE  Examined(at_, t, i, u)
  BY <1>3, <1>8 DEF Examined
<1>9. at_ + 1 \in 1 .. Len(ks) + 1 /\ 1 \in 1 .. Len(Bytes) + 1
  BY <1>1, <1>3
<1> QED BY <1>1, <1>3, <1>7, <1>8, <1>9 DEF Walk

(* A walk has found every key of the inputs no longer than the one it is   *)
(* at, and the event happens on none of them.                              *)
LEMMA WalkFinds ==
  ASSUME Given, NEW ks, NEW via, NEW at_, NEW t, Walk(ks, via, at_, t)
  PROVE  \A w \in Seq(Symbols) :
           (at_ <= Len(ks) => Len(w) <= Deep(ks, via, at_)) =>
             \A k : Traced(w, k) =>
               \E j \in 1 .. Len(ks) : ks[j] = k /\ Deep(ks, via, j) <= Len(w)
<1>1. PICK N \in Nat : N = Len(ks) /\ N # 0
  BY WalkLengths DEF Walk
<1>3. /\ at_ \in 1 .. N + 1 /\ at_ \in Nat
      /\ Len(Bytes) \in Nat /\ KeysStand(ks, via) /\ KeysAscend(ks, via, at_)
  BY <1>1, CompiledSetAssumption DEF Walk
<1> DEFINE d(i) == Deep(ks, via, i)
           Found(w) == \A k : Traced(w, k) => \E j \in 1 .. N : ks[j] = k /\ d(j) <= Len(w)
           S == { n \in Nat : \A w \in Seq(Symbols) :
                    Len(w) = n /\ (at_ <= N => Len(w) <= d(at_)) => Found(w) }
<1>4. d(1) = 0 /\ \A i \in 1 .. N : d(i) \in Nat
  BY <1>1, <1>3, WalkLengths
<1>5. \A i, j \in 1 .. N : i <= j => d(i) <= d(j)
  BY <1>1, <1>3 DEF KeysAscend
<1> HIDE DEF d
<1>6. 0 \in S
  <2> SUFFICES ASSUME NEW w \in Seq(Symbols), Len(w) = 0 PROVE Found(w)
    OBVIOUS
  <2>1. w = << >>
    OBVIOUS
  <2>2. \A k : Traced(w, k) => k = ks[1]
    BY <1>3, <2>1, NothingIsTraced DEF KeysStand
  <2>3. 1 \in 1 .. N /\ d(1) <= Len(w)
    BY <1>1, <1>4
  <2> QED BY <2>2, <2>3
<1>7. ASSUME NEW n \in Nat, n \in S PROVE n + 1 \in S
  <2> SUFFICES ASSUME NEW w \in Seq(Symbols), Len(w) = n + 1,
                      at_ <= N => Len(w) <= d(at_), NEW k, Traced(w, k)
               PROVE  \E j \in 1 .. N : ks[j] = k /\ d(j) <= Len(w)
    OBVIOUS
  <2>1. PICK v \in Seq(Symbols), b \in Symbols : w = Append(v, b) /\ Len(v) = n
    <3>1. /\ SubSeq(w, 1, n) \in Seq(Symbols) /\ w[n + 1] \in Symbols
          /\ w = Append(SubSeq(w, 1, n), w[n + 1]) /\ Len(SubSeq(w, 1, n)) = n
      OBVIOUS
    <3> QED BY <3>1
  <2>2. CarriedOver(v, b)
    BY AllCarried
  <2>3. PICK key : Traced(v, key) /\ (Step(key, b).ends \/ k \in Range(Step(key, b).successors))
    BY <2>1, <2>2 DEF CarriedOver
  <2>4. at_ <= N => Len(v) <= d(at_)
    BY <1>3, <1>4, <2>1
  <2>5. Found(v)
    BY <1>7, <2>1, <2>4
  <2>6. PICK j \in 1 .. N : ks[j] = key /\ d(j) <= n
    BY <2>1, <2>3, <2>5
  <2>7. j < at_
    <3>1. CASE at_ <= N
      <4>1. d(j) < d(at_) /\ at_ \in 1 .. N
        BY <1>3, <1>4, <2>6, <3>1
      <4>2. at_ <= j => d(at_) <= d(j)
        BY <1>5, <4>1
      <4> QED BY <1>3, <1>4, <4>1, <4>2
    <3>2. CASE at_ > N
      BY <1>3, <3>2
    <3> QED BY <1>3, <3>1, <3>2
  <2>8. PICK u \in 1 .. Len(Bytes) : Bytes[u] = b
    BY CompiledSetAssumption
  <2>9. LeadsBack(ks, via, j, b)
    BY <1>1, <2>7, <2>8 DEF Walk, Examined
  <2>10. PICK i \in 1 .. N : ks[i] = k /\ d(i) <= d(j) + 1
    BY <1>1, <2>3, <2>6, <2>9 DEF LeadsBack, d
  <2>11. d(i) <= Len(w)
    BY <1>4, <2>6, <2>10
  <2> QED BY <2>10, <2>11
<1>8. \A n \in Nat : n \in S
  <2> HIDE DEF S
  <2> TAKE n \in Nat
  <2>1. 0 .. n \subseteq S
    BY <1>6, <1>7, UpTo
  <2> QED BY <2>1
<1>9. \A w \in Seq(Symbols) : Len(w) \in Nat
  OBVIOUS
<1> QED BY <1>1, <1>8, <1>9 DEF d

LEMMA WalkIsSilent ==
  ASSUME Given, NEW ks, NEW via, NEW at_, NEW t, Walk(ks, via, at_, t),
         NEW w \in Seq(Symbols), at_ <= Len(ks) => Len(w) <= Deep(ks, via, at_)
  PROVE  ~ Event(w)
<1>1. CASE Len(w) = 0
  <2>1. w = << >>
    BY <1>1
  <2> QED BY <2>1, NothingHappens
<1>2. CASE Len(w) # 0
  <2>1. PICK v \in Seq(Symbols), b \in Symbols : w = Append(v, b) /\ Len(v) = Len(w) - 1
    <3>1. PICK n \in Nat : Len(w) = n + 1
      <4>1. Len(w) - 1 \in Nat
        BY <1>2
      <4> QED BY <4>1
    <3>2. /\ SubSeq(w, 1, n) \in Seq(Symbols) /\ w[n + 1] \in Symbols
          /\ w = Append(SubSeq(w, 1, n), w[n + 1]) /\ Len(SubSeq(w, 1, n)) = n
      BY <3>1
    <3>3. Len(SubSeq(w, 1, n)) = Len(w) - 1
      BY <3>1, <3>2
    <3> QED BY <3>2, <3>3, Zenon
  <2>2. SUFFICES ASSUME Event(w) PROVE FALSE
    OBVIOUS
  <2>3. CarriedOver(v, b)
    BY AllCarried
  <2>4. PICK key : Traced(v, key) /\ Step(key, b).ends
    BY <2>1, <2>2, <2>3 DEF CarriedOver
  <2>5. PICK N \in Nat : N = Len(ks) /\ N # 0
    BY WalkLengths DEF Walk
  <2>6. /\ at_ \in 1 .. N + 1 /\ at_ \in Nat /\ KeysStand(ks, via) /\ KeysAscend(ks, via, at_)
    BY <2>5 DEF Walk
  <2>7. \A i \in 1 .. N : Deep(ks, via, i) \in Nat
    BY <2>5, <2>6, WalkLengths
  <2>8. at_ <= N => Len(v) < Deep(ks, via, at_)
    <3> HAVE at_ <= N
    <3>1. at_ \in 1 .. N
      BY <2>6
    <3> QED BY <2>1, <2>5, <2>7, <3>1
  <2>9. Len(v) \in Nat
    OBVIOUS
  <2>10. at_ <= N => Len(v) <= Deep(ks, via, at_)
    <3> HAVE at_ <= N
    <3>1. at_ \in 1 .. N
      BY <2>6
    <3> QED BY <2>7, <2>8, <2>9, <3>1
  <2>11. PICK j \in 1 .. N : ks[j] = key /\ Deep(ks, via, j) <= Len(v)
    BY <2>4, <2>5, <2>10, WalkFinds
  <2>12. j < at_
    <3>1. CASE at_ <= N
      <4>1. Deep(ks, via, j) < Deep(ks, via, at_) /\ at_ \in 1 .. N
        <5>1. at_ \in 1 .. N
          BY <2>6, <3>1
        <5> QED BY <2>7, <2>8, <2>9, <2>11, <3>1, <5>1
      <4>2. at_ <= j => Deep(ks, via, at_) <= Deep(ks, via, j)
        BY <2>5, <2>6, <4>1 DEF KeysAscend
      <4> QED BY <2>6, <2>7, <4>1, <4>2
    <3>2. CASE at_ > N
      BY <2>6, <3>2
    <3> QED BY <2>6, <3>1, <3>2
  <2>13. PICK u \in 1 .. Len(Bytes) : Bytes[u] = b
    BY CompiledSetAssumption
  <2>14. LeadsBack(ks, via, j, b)
    BY <2>5, <2>12, <2>13 DEF Walk, Examined
  <2> QED BY <2>4, <2>11, <2>14 DEF LeadsBack
<1> QED BY <1>1, <1>2

----------------------------------------------------------------------------
(* What a caller asks is what the searches are about.                      *)
EventOf(kind, gap, w) == EventIn(kind, gap, w, Serial(sim, w), Serial(other, w))

Asking ==
  /\ query.window \in Seq(Symbols) /\ query.gap \in Nat /\ query.cap \in Nat
  /\ query.kind \in SearchKinds \cup {"profile", "none"}
  /\ query.kind = "covers" => query.gap < Len(query.window)
  /\ query.kind \in {"cut", "crossed"} =>
       query.window # << >> /\ query.gap <= Len(query.window)
  /\ query.kind = "profile" => query.window # << >>
  /\ query.sets[1] \in TokenSets /\ query.sets[2] \in TokenSets
  /\ sim = Tables[query.sets[1]] /\ other = Tables[query.sets[2]]

Searching ==
  /\ search.kind \in SearchKinds /\ search.gap \in Nat
  /\ query.kind \notin {"profile", "none"} =>
       search.kind = query.kind /\ (search.kind \in OriginKinds => search.gap = query.gap)
  /\ query.kind = "none" => search.kind = "rescue"
  /\ query.kind = "profile" =>
       /\ search.kind \in {"occurrence", "cut", "crossed"}
       /\ search.kind # "occurrence" => search.gap <= Len(query.window)

(* What a settled search has found is the truth about all inputs.          *)
FoundIs(kind, gap, found) ==
  /\ found.exhaustive \in BOOLEAN
  /\ ~ found.exhaustive => found.witness = << >>
  /\ found.exhaustive /\ found.witness = << >> =>
       \A w \in Seq(Symbols) : ~ EventOf(kind, gap, w)
  /\ found.witness # << >> =>
       /\ found.witness \in Seq(Symbols) /\ EventOf(kind, gap, found.witness)
       /\ \A w \in Seq(Symbols) : Len(w) < Len(found.witness) => ~ EventOf(kind, gap, w)

Progress ==
  /\ Len(keys) <= query.cap \/ query.cap = 0
  /\ status = "searching" => query.cap # 0 /\ Walk(keys, parents, expanding, trying)
  /\ status \in {"settled", "answered"} =>
       /\ FoundIs(search.kind, search.gap, outcome)
       /\ ~ outcome.exhaustive => query.cap = 0 \/ Len(keys) = query.cap

Halves ==
  half # "none" =>
    /\ status = "answered" /\ search.kind = "segmentation" /\ outcome.witness # << >>
    /\ half = "boundary" <=> Tokenizes(sim, outcome.witness) /\ Tokenizes(other, outcome.witness)

NeverOccurs == \A w \in Seq(Symbols) : ~ EventOf("occurrence", 0, w)

GapDecided(p, gap) ==
  \E crossed, cut :
    /\ p = VerdictOn(crossed, cut) /\ GapVerdict(crossed, cut) # "absent"
    /\ FoundIs("cut", gap, crossed) /\ FoundIs("crossed", gap, cut)

GapsDecided(verdicts_, n) ==
  /\ IsSeq(verdicts_) /\ Len(verdicts_) = n
  /\ \A g \in 1 .. n : GapDecided(verdicts_[g], g - 1)

Profiled ==
  query.kind = "profile" =>
    /\ status \in {"searching", "settled"} =>
         /\ search.kind = "occurrence" => profile = << >> /\ search.gap \in Nat
         /\ search.kind # "occurrence" => GapsDecided(profile, search.gap)
         /\ search.kind = "crossed" => FoundIs("cut", search.gap, refuted)
    /\ status = "answered" =>
         \/ GapsDecided(profile, Len(query.window) + 1)
         \/ NeverOccurs /\ profile = AbsentEverywhere

SearchInv == Asking /\ Searching /\ Progress /\ Halves /\ Profiled

LEMMA AskingIsGiven ==
  ASSUME Asking, Searching
  PROVE  Given
<1>1. /\ IsDfa(sim) /\ ~ Accepting(sim, sim.init)
      /\ IsDfa(other) /\ ~ Accepting(other, other.init)
  <2>1. \A D \in TokenSets : /\ IsDfa(D) /\ Tables[D] = Simulator(D, {})
    BY CompiledSetAssumption DEF Tables
  <2>2. \A D \in TokenSets : IsDfa(Tables[D]) /\ ~ Accepting(Tables[D], Tables[D].init)
    <3> TAKE D \in TokenSets
    <3>1. PICK ignored : ignored = {}
      OBVIOUS
    <3>2. IsDfa(D) /\ Tables[D] = Simulator(D, ignored)
      BY <2>1, <3>1
    <3>3. IsDfa(Simulator(D, ignored))
          /\ ~ Accepting(Simulator(D, ignored), Simulator(D, ignored).init)
      BY <3>2, SimulatorTables
    <3> QED BY <3>2, <3>3
  <2> QED BY <2>2 DEF Asking
<1>2. /\ search.kind = "covers" => search.gap < Len(query.window)
      /\ search.kind \in {"cut", "crossed"} =>
           query.window # << >> /\ search.gap <= Len(query.window)
  BY DEF Asking, Searching, OriginKinds
<1> QED BY <1>1, <1>2 DEF Given, Asking, Searching

(* What does not change while what is asked stays the same.                *)
LEMMA FindingsStay ==
  ASSUME UNCHANGED <<query, sim, other>>
  PROVE  /\ \A kind, gap, found : FoundIs(kind, gap, found)' <=> FoundIs(kind, gap, found)
         /\ NeverOccurs' <=> NeverOccurs
         /\ \A p, gap : GapDecided(p, gap)' <=> GapDecided(p, gap)
         /\ \A p, n : GapsDecided(p, n)' <=> GapsDecided(p, n)
         /\ AbsentEverywhere' = AbsentEverywhere
<1>1. \A kind, gap, w : EventOf(kind, gap, w)' <=> EventOf(kind, gap, w)
  BY EventsStay DEF EventOf
<1>2. \A kind, gap, found : FoundIs(kind, gap, found)' <=> FoundIs(kind, gap, found)
  BY <1>1 DEF FoundIs
<1>3. NeverOccurs' <=> NeverOccurs
  BY <1>1 DEF NeverOccurs
<1>4. \A p, gap : GapDecided(p, gap)' <=> GapDecided(p, gap)
  BY <1>2 DEF GapDecided
<1>5. \A p, n : GapsDecided(p, n)' <=> GapsDecided(p, n)
  BY <1>4 DEF GapsDecided
<1>6. AbsentEverywhere' = AbsentEverywhere
  BY DEF AbsentEverywhere
<1> QED BY <1>2, <1>3, <1>4, <1>5, <1>6

LEMMA WalksStay ==
  ASSUME UNCHANGED <<query, sim, other, search>>
  PROVE  \A ks, via, at_, t : Walk(ks, via, at_, t)' <=> Walk(ks, via, at_, t)
<1>1. \A ks, via : KeysStand(ks, via)' <=> KeysStand(ks, via)
  BY EventsStay, TracesStay DEF KeysStand
<1>2. \A ks, via, i, b : LeadsBack(ks, via, i, b)' <=> LeadsBack(ks, via, i, b)
  BY StepsStay DEF LeadsBack
<1> QED BY <1>1, <1>2 DEF Walk

LEMMA AskingStays ==
  ASSUME UNCHANGED <<query, sim, other>>, Asking
  PROVE  Asking'
  BY DEF Asking

----------------------------------------------------------------------------
(* Every search begins a walk, whatever it asks after.                     *)
FirstParents == <<[from |-> 0, byte |-> Bytes[1]]>>

LEMMA WalkIsBegun ==
  Asking /\ Searching =>
    Walk(<<StartKey(search.kind, search.gap)>>, FirstParents, 1, 1)
<1> HAVE Asking /\ Searching
<1>1. Given
  BY AskingIsGiven
<1>2. IsSeq(FirstParents) /\ Len(FirstParents) = 1
  BY SeqOfOne DEF FirstParents
<1> QED BY <1>1, <1>2, WalkBegins

LEMMA BeginSearches ==
  ASSUME Asking, UNCHANGED <<query, sim, other>>, NEW kind, NEW gap, Begin(kind, gap), Searching'
  PROVE  /\ Progress'
         /\ search'.kind = kind /\ search'.gap = gap
         /\ status' \in {"searching", "settled"}
<1>1. search'.kind = kind /\ search'.gap = gap
  BY DEF Begin
<1>2. /\ keys' = <<StartKey(search.kind, search.gap)'>> /\ parents' = FirstParents
      /\ expanding' = 1 /\ trying' = 1
  BY <1>1, EventsStay DEF Begin, FirstParents
<1>3. Walk(<<StartKey(search.kind, search.gap)>>, FirstParents, 1, 1)'
  <2>1. Asking'
    BY AskingStays
  <2>2. (Asking /\ Searching => Walk(<<StartKey(search.kind, search.gap)>>, FirstParents, 1, 1))'
    BY WalkIsBegun, PTL
  <2> QED BY <2>1, <2>2
<1>4. Walk(keys, parents, expanding, trying)'
  BY <1>2, <1>3
<1>5. query.cap \in Nat /\ query' = query
  BY DEF Asking
<1>6. status' = IF query.cap = 0 THEN "settled" ELSE "searching"
  BY DEF Begin
<1>7. IsSeq(keys') /\ Len(keys') = 1
  BY <1>2, SeqOfOne
<1>8. FoundIs(search.kind, search.gap, outcome)'
  <2>1. (outcome.witness = << >> /\ outcome.exhaustive = FALSE)'
    BY DEF Begin, Outcome
  <2> QED BY <2>1 DEF FoundIs
<1>9. Len(keys') <= query'.cap \/ query'.cap = 0
  BY <1>5, <1>7
<1>10. status' = "searching" => query'.cap # 0
  BY <1>5, <1>6
<1>11. status' = "settled" => query'.cap = 0
  BY <1>5, <1>6
<1>12. status' \in {"searching", "settled"}
  BY <1>6
<1>13. Progress'
  BY <1>4, <1>8, <1>9, <1>10, <1>11, <1>12 DEF Progress
<1> QED BY <1>1, <1>12, <1>13

----------------------------------------------------------------------------
(* The steps of a search keep what is known of its walk, and what they     *)
(* settle is so.                                                           *)
Current == TrailTo(Len(keys), parents)[expanding]

LEMMA WitnessIsShortest ==
  ASSUME SearchInv, WitnessEnds
  PROVE  FoundIs(search.kind, search.gap, Outcome(Append(Trail(expanding), Bytes[trying]), TRUE))
<1>1. Given
  BY AskingIsGiven DEF SearchInv
<1>2. Walk(keys, parents, expanding, trying) /\ expanding <= Len(keys) /\ trying <= Len(Bytes)
  BY DEF SearchInv, Progress, WitnessEnds, Reading
<1>3. KeysStand(keys, parents) /\ expanding \in 1 .. Len(keys) /\ trying \in 1 .. Len(Bytes)
  <2>1. Len(keys) \in Nat /\ Len(Bytes) \in Nat
    BY <1>2, WalkLengths, CompiledSetAssumption DEF Walk
  <2> QED BY <1>2, <2>1 DEF Walk
<1>4. PICK v \in Seq(Symbols) : v = Current
  BY <1>3, WalkLengths DEF Current
<1>5. PICK b \in Symbols : b = Bytes[trying]
  BY <1>3, CompiledSetAssumption
<1>6. Append(Trail(expanding), Bytes[trying]) = Append(v, b)
  BY <1>4, <1>5 DEF Trail, TrailTo, Current
<1>7. Traced(v, keys[expanding]) /\ Step(keys[expanding], b).ends
  BY <1>3, <1>4, <1>5 DEF KeysStand, Current, WitnessEnds, stepped
<1>8. Event(Append(v, b))
  BY <1>1, <1>7, AllCarried DEF CarriedOver
<1>9. PICK x \in Seq(Symbols) : x = Append(v, b) /\ Len(x) = Len(v) + 1 /\ x # << >>
  <2>1. Append(v, b) \in Seq(Symbols) /\ Len(Append(v, b)) = Len(v) + 1
    OBVIOUS
  <2>2. PICK x \in Seq(Symbols) : x = Append(v, b) /\ Len(x) = Len(v) + 1
    BY <2>1
  <2>3. Len(v) \in Nat /\ Len(<< >>) = 0
    OBVIOUS
  <2>4. x # << >>
    BY <2>2, <2>3
  <2> QED BY <2>2, <2>4
<1>10. ASSUME NEW w \in Seq(Symbols), Len(w) < Len(x) PROVE ~ Event(w)
  <2>1. Deep(keys, parents, expanding) = Len(v)
    BY <1>4 DEF Deep, Current
  <2>2. Len(w) <= Len(v)
    BY <1>9, <1>10
  <2> QED BY <1>1, <1>2, <2>1, <2>2, WalkIsSilent
<1>11. \A w : Event(w) <=> EventOf(search.kind, search.gap, w)
  BY DEF Event, EventOf
<1>12. Outcome(x, TRUE).witness = x /\ Outcome(x, TRUE).exhaustive = TRUE
  BY DEF Outcome
<1>13. FoundIs(search.kind, search.gap, Outcome(x, TRUE))
  BY <1>8, <1>9, <1>10, <1>11, <1>12 DEF FoundIs
<1> QED BY <1>6, <1>9, <1>13

LEMMA ExhaustedIsAll ==
  ASSUME SearchInv, Exhausted
  PROVE  FoundIs(search.kind, search.gap, Proved)
<1>1. Given
  BY AskingIsGiven DEF SearchInv
<1>2. Walk(keys, parents, expanding, trying) /\ expanding > Len(keys)
  BY DEF SearchInv, Progress, Exhausted
<1>3. ~ (expanding <= Len(keys))
  <2>1. PICK N \in Nat : N = Len(keys)
    BY <1>2, WalkLengths DEF Walk
  <2>2. expanding \in 1 .. N + 1
    BY <1>2, <2>1 DEF Walk
  <2> QED BY <1>2, <2>1, <2>2
<1>4. \A w \in Seq(Symbols) : ~ Event(w)
  BY <1>1, <1>2, <1>3, WalkIsSilent
<1>5. Proved.witness = << >> /\ Proved.exhaustive = TRUE
  BY DEF Proved, Outcome
<1> QED BY <1>4, <1>5 DEF FoundIs, Event, EventOf

(* What a search keeps as long as it has not answered.                     *)
LEMMA SearchStays ==
  ASSUME SearchInv, status = "searching", UNCHANGED <<asked, search, half, verdicts>>,
         status' \in {"searching", "settled"}, Progress'
  PROVE  SearchInv'
<1>0. UNCHANGED <<query, sim, other, search, half, refuted, profile>>
  BY DEF asked, verdicts
<1>1. Asking'
  BY <1>0, AskingStays DEF SearchInv
<1>2. Searching'
  BY <1>0 DEF SearchInv, Searching
<1>3. Halves'
  BY <1>0 DEF SearchInv, Halves
<1>4. Profiled'
  <2>1. /\ \A kind, gap, found : FoundIs(kind, gap, found)' <=> FoundIs(kind, gap, found)
        /\ \A p, n : GapsDecided(p, n)' <=> GapsDecided(p, n)
    BY <1>0, FindingsStay
  <2>2. query.kind = "profile" =>
          /\ search.kind = "occurrence" => profile = << >> /\ search.gap \in Nat
          /\ search.kind # "occurrence" => GapsDecided(profile, search.gap)
          /\ search.kind = "crossed" => FoundIs("cut", search.gap, refuted)
    BY DEF SearchInv, Profiled
  <2>3. (query.kind = "profile" =>
          /\ search.kind = "occurrence" => profile = << >> /\ search.gap \in Nat
          /\ search.kind # "occurrence" => GapsDecided(profile, search.gap)
          /\ search.kind = "crossed" => FoundIs("cut", search.gap, refuted))'
    BY <1>0, <2>1, <2>2
  <2>4. status' # "answered"
    OBVIOUS
  <2> QED BY <2>3, <2>4 DEF Profiled
<1> QED BY <1>1, <1>2, <1>3, <1>4 DEF SearchInv

LEMMA SettleKeeps ==
  ASSUME SearchInv, status = "searching", NEW found, Settle(found),
         FoundIs(search.kind, search.gap, found), found.exhaustive
  PROVE  SearchInv'
<1>1. UNCHANGED <<query, sim, other, search, keys>> /\ outcome' = found /\ status' = "settled"
  BY DEF Settle, asked, frontier
<1>2. FoundIs(search.kind, search.gap, outcome)'
  BY <1>1, FindingsStay
<1>3. Progress'
  BY <1>1, <1>2 DEF Progress, SearchInv
<1> QED BY <1>1, <1>3, SearchStays DEF Settle

LEMMA NextKeyKeeps ==
  ASSUME SearchInv, NextKey
  PROVE  SearchInv'
<1>0. UNCHANGED <<query, sim, other, search, keys, parents, status, outcome>>
  BY DEF NextKey, asked
<1>1. Given
  BY AskingIsGiven DEF SearchInv
<1>2. Walk(keys, parents, expanding, trying) /\ expanding <= Len(keys) /\ trying > Len(Bytes)
  BY DEF SearchInv, Progress, NextKey
<1>3. Walk(keys, parents, expanding + 1, 1)
  BY <1>1, <1>2, WalkMovesOn
<1>4. Walk(keys, parents, expanding, trying)'
  BY <1>0, <1>3, WalksStay DEF NextKey
<1>5. Progress'
  BY <1>0, <1>4 DEF Progress, SearchInv, NextKey
<1> QED BY <1>0, <1>5, SearchStays DEF NextKey

LEMMA AdmittingIs ==
  ASSUME SearchInv, Reading, ~ stepped.ends, NEW known,
         known = Admitted(stepped.successors), Admit(known)
  PROVE  /\ AdmittedAre(known, stepped.successors) /\ keys' = known.keys
         /\ IsSeq(parents') /\ Len(parents') = Len(known.keys)
         /\ \A i \in 1 .. Len(keys) : parents'[i] = parents[i]
         /\ \A i \in Len(keys) + 1 .. Len(known.keys) :
              parents'[i].from = expanding /\ parents'[i].byte = Bytes[trying]
<1>1. Given
  BY AskingIsGiven DEF SearchInv
<1>2. Walk(keys, parents, expanding, trying) /\ expanding <= Len(keys) /\ trying <= Len(Bytes)
  BY DEF SearchInv, Progress, Reading
<1>3. /\ KeysStand(keys, parents) /\ expanding \in 1 .. Len(keys) /\ trying \in 1 .. Len(Bytes)
      /\ Len(keys) \in Nat
  <2>1. Len(keys) \in Nat /\ Len(Bytes) \in Nat
    BY <1>2, WalkLengths, CompiledSetAssumption DEF Walk
  <2> QED BY <1>2, <2>1 DEF Walk
<1>4. PICK v \in Seq(Symbols) : v = Current
  BY <1>3, WalkLengths DEF Current
<1>5. PICK b \in Symbols : b = Bytes[trying]
  BY <1>3, CompiledSetAssumption
<1>6. IsSeq(stepped.successors)
  <2>1. Traced(v, keys[expanding])
    BY <1>3, <1>4 DEF KeysStand, Current
  <2>2. CarriedOver(v, b)
    BY <1>1, AllCarried
  <2> QED BY <1>5, <2>1, <2>2 DEF CarriedOver, stepped
<1>7. query.cap \in Nat /\ Len(keys) <= query.cap /\ IsSeq(keys)
  BY <1>3 DEF SearchInv, Asking, Progress, Reading, KeysStand
<1>8. AdmittedAre(known, stepped.successors)
  BY <1>6, <1>7, AdmittedIs
<1>9. PICK N \in Nat : N = Len(keys)
  BY <1>3
<1>10. PICK M \in Nat : M = Len(known.keys) /\ N <= M
  <2>1. Len(known.keys) \in N .. query.cap
    BY <1>8, <1>9 DEF AdmittedAre
  <2> QED BY <1>7, <2>1
<1> DEFINE p == [from |-> expanding, byte |-> Bytes[trying]]
           added == [ i \in 1 .. M - N |-> p ]
<1>11. p.from = expanding /\ p.byte = Bytes[trying]
  OBVIOUS
<1> HIDE DEF p
<1>12. added \in [1 .. M - N -> {p}] /\ M - N \in Nat
  BY <1>10
<1>13. IsSeq(added) /\ Len(added) = M - N
  <2> HIDE DEF added
  <2> QED BY <1>12, SeqOfFunction
<1>14. parents' = parents \o added
  BY <1>9, <1>10 DEF Admit, p
<1>15. \A i \in 1 .. M - N : added[i] = p
  OBVIOUS
<1> HIDE DEF added
<1>16. IsSeq(parents) /\ Len(parents) = N
  BY <1>3, <1>9 DEF KeysStand
<1>17. /\ IsSeq(parents') /\ Len(parents') = N + (M - N)
       /\ \A i \in 1 .. N : parents'[i] = parents[i]
       /\ \A i \in N + 1 .. N + (M - N) : parents'[i] = added[i - N]
  <2>1. PICK ps : ps = parents
    OBVIOUS
  <2>2. IsSeq(ps) /\ Len(ps) = N
    BY <1>16, <2>1
  <2>3. IsSeq(ps \o added) /\ Len(ps \o added) = Len(ps) + Len(added)
    BY <1>13, <2>2, SeqConcat
  <2>4. /\ \A i \in 1 .. Len(ps) : (ps \o added)[i] = ps[i]
        /\ \A i \in Len(ps) + 1 .. Len(ps) + Len(added) : (ps \o added)[i] = added[i - Len(ps)]
    BY <1>13, <2>2, SeqConcatAt
  <2> QED BY <1>13, <1>14, <2>1, <2>2, <2>3, <2>4
<1>18. N + (M - N) = M
  OBVIOUS
<1>19. \A i \in N + 1 .. M : parents'[i] = p
  <2> TAKE i \in N + 1 .. M
  <2>1. i - N \in 1 .. M - N
    OBVIOUS
  <2> QED BY <1>15, <1>17, <1>18, <2>1
<1> QED BY <1>8, <1>9, <1>10, <1>11, <1>17, <1>18, <1>19 DEF Admit

LEMMA ReadByteKeeps ==
  ASSUME SearchInv, ReadByte
  PROVE  SearchInv'
<1>0. UNCHANGED <<query, sim, other, search, expanding, status, outcome>>
  BY DEF ReadByte, asked
<1>1. Given
  BY AskingIsGiven DEF SearchInv
<1>2. PICK known : known = Admitted(stepped.successors) /\ ~ known.full /\ Admit(known)
  BY DEF ReadByte
<1>3. Reading /\ ~ stepped.ends
  BY DEF ReadByte
<1>4. /\ AdmittedAre(known, stepped.successors) /\ keys' = known.keys
      /\ IsSeq(parents') /\ Len(parents') = Len(known.keys)
      /\ \A i \in 1 .. Len(keys) : parents'[i] = parents[i]
      /\ \A i \in Len(keys) + 1 .. Len(known.keys) :
           parents'[i].from = expanding /\ parents'[i].byte = Bytes[trying]
  BY <1>2, <1>3, AdmittingIs
<1>5. Walk(keys, parents, expanding, trying) /\ expanding <= Len(keys) /\ trying <= Len(Bytes)
  BY <1>3 DEF SearchInv, Progress, Reading
<1>6. PICK more : more = known.keys
  OBVIOUS
<1>7. PICK ups : ups = parents'
  OBVIOUS
<1>8. /\ IsSeq(more) /\ Len(keys) <= Len(more) /\ Len(more) <= query.cap
      /\ \A i \in 1 .. Len(keys) : more[i] = keys[i]
      /\ \A i \in Len(keys) + 1 .. Len(more) : more[i] \in Range(stepped.successors)
      /\ Range(stepped.successors) \subseteq Range(more)
  <2>1. Len(more) \in Len(keys) .. query.cap /\ Len(keys) \in Nat /\ query.cap \in Nat
    BY <1>4, <1>5, <1>6, WalkLengths DEF AdmittedAre, Walk, SearchInv, Asking
  <2> QED BY <1>2, <1>4, <1>6, <2>1 DEF AdmittedAre
<1>9. Walk(more, ups, expanding, trying + 1)
  <2>1. MoreParents(keys, parents, more, ups, expanding, Bytes[trying])
    BY <1>4, <1>6, <1>7 DEF MoreParents
  <2>2. ~ Step(keys[expanding], Bytes[trying]).ends
    BY <1>3 DEF stepped
  <2>3. MoreKeys(keys, more, Step(keys[expanding], Bytes[trying]).successors)
    BY <1>8 DEF stepped, MoreKeys
  <2> QED BY <1>1, <1>5, <2>1, <2>2, <2>3, WalkReads
<1>10. Walk(keys, parents, expanding, trying)'
  BY <1>0, <1>4, <1>6, <1>7, <1>9, WalksStay DEF ReadByte
<1>11. Progress'
  BY <1>0, <1>3, <1>4, <1>6, <1>8, <1>10 DEF Progress, SearchInv, Reading
<1> QED BY <1>0, <1>3, <1>11, SearchStays DEF ReadByte, Reading

LEMMA LeaveOpenKeeps ==
  ASSUME SearchInv, LeaveOpen
  PROVE  SearchInv'
<1>0. UNCHANGED <<query, sim, other, search>>
  BY DEF LeaveOpen, asked
<1>2. PICK known : known = Admitted(stepped.successors) /\ known.full /\ Admit(known)
  BY DEF LeaveOpen
<1>3. Reading /\ ~ stepped.ends
  BY DEF LeaveOpen
<1>4. AdmittedAre(known, stepped.successors) /\ keys' = known.keys
  BY <1>2, <1>3, AdmittingIs
<1>5. Len(keys') = query.cap /\ query.cap \in Nat
  BY <1>2, <1>4 DEF AdmittedAre, SearchInv, Asking
<1>6. (outcome.witness = << >> /\ outcome.exhaustive = FALSE)'
  BY DEF LeaveOpen, Outcome
<1>7. FoundIs(search.kind, search.gap, outcome)'
  BY <1>6 DEF FoundIs
<1>8. status' = "settled"
  BY DEF LeaveOpen
<1>9. Progress'
  BY <1>0, <1>5, <1>7, <1>8 DEF Progress
<1> QED BY <1>0, <1>3, <1>8, <1>9, SearchStays DEF LeaveOpen, Reading

LEMMA SearchKeeps ==
  ASSUME SearchInv, SearchNext
  PROVE  SearchInv'
<1>1. CASE WitnessEnds
  <2>1. PICK found : found = Outcome(Append(Trail(expanding), Bytes[trying]), TRUE)
    OBVIOUS
  <2>2. found.exhaustive
    BY <2>1 DEF Outcome
  <2> QED BY <1>1, <2>1, <2>2, WitnessIsShortest, SettleKeeps DEF WitnessEnds, Reading
<1>2. CASE ReadByte
  BY <1>2, ReadByteKeeps
<1>3. CASE LeaveOpen
  BY <1>3, LeaveOpenKeeps
<1>4. CASE NextKey
  BY <1>4, NextKeyKeeps
<1>5. CASE Exhausted
  <2>1. Proved.exhaustive
    BY DEF Proved, Outcome
  <2> QED BY <1>5, <2>1, ExhaustedIsAll, SettleKeeps DEF Exhausted
<1> QED BY <1>1, <1>2, <1>3, <1>4, <1>5 DEF SearchNext

----------------------------------------------------------------------------
(* The answer, and the searches of a profile one after another.            *)
LEMMA AnswerKeeps ==
  ASSUME SearchInv, Answer
  PROVE  SearchInv'
<1>0. /\ UNCHANGED <<query, sim, other, search, keys, outcome>>
      /\ status = "settled" /\ status' = "answered" /\ query.kind # "profile"
      /\ half' = Half(outcome)
  BY DEF Answer, asked, frontier
<1>1. Asking'
  BY <1>0, AskingStays DEF SearchInv
<1>2. Searching'
  BY <1>0 DEF SearchInv, Searching
<1>3. Progress'
  <2>1. FoundIs(search.kind, search.gap, outcome)
        /\ (~ outcome.exhaustive => query.cap = 0 \/ Len(keys) = query.cap)
        /\ (Len(keys) <= query.cap \/ query.cap = 0)
    BY <1>0 DEF SearchInv, Progress
  <2>2. FoundIs(search.kind, search.gap, outcome)'
    BY <1>0, <2>1, FindingsStay
  <2> QED BY <1>0, <2>1, <2>2 DEF Progress
<1>4. Halves'
  <2>1. half' = IF search.kind # "segmentation" \/ outcome.witness = << >> THEN "none"
                ELSE IF Tokenizes(sim, outcome.witness) /\ Tokenizes(other, outcome.witness)
                     THEN "boundary" ELSE "domain"
    BY <1>0 DEF Half
  <2> QED BY <1>0, <2>1 DEF Halves
<1>5. Profiled'
  BY <1>0 DEF Profiled
<1> QED BY <1>1, <1>2, <1>3, <1>4, <1>5 DEF SearchInv

(* An input that has the window cuts or crosses it at every gap, and only  *)
(* such an input does.                                                     *)
LEMMA OccurrenceCuts ==
  ASSUME NEW w, NEW gap
  PROVE  /\ EventOf("occurrence", gap, w) <=> EventOf("occurrence", 0, w)
         /\ EventOf("occurrence", gap, w) =>
              EventOf("cut", gap, w) \/ EventOf("crossed", gap, w)
<1> DEFINE mine == Serial(sim, w)
           places == OccurrencesIn(w, query.window)
<1>1. \A g : EventOf("occurrence", g, w) <=> w # << >> /\ Complete(mine, w) /\ places # {}
  BY DEF EventOf, EventIn
<1>2. EventOf("cut", gap, w) <=>
        Complete(mine, w) /\ \E o \in places : ~ IsBoundary(mine, w, o + gap)
  BY DEF EventOf, EventIn
<1>3. EventOf("crossed", gap, w) <=>
        Complete(mine, w) /\ \E o \in places : IsBoundary(mine, w, o + gap)
  BY DEF EventOf, EventIn
<1> HIDE DEF mine, places
<1> QED BY <1>1, <1>2, <1>3

LEMMA ProfileAnswers ==
  ASSUME SearchInv, status = "settled", query.kind = "profile", NEW given, ProfileIs(given),
         GapsDecided(given, Len(query.window) + 1) \/ (NeverOccurs /\ given = AbsentEverywhere)
  PROVE  SearchInv'
<1>0. /\ UNCHANGED <<query, sim, other, search, keys, outcome, half>>
      /\ profile' = given /\ status' = "answered"
  BY DEF ProfileIs, asked, frontier
<1>1. Asking'
  BY <1>0, AskingStays DEF SearchInv
<1>2. Searching'
  BY <1>0 DEF SearchInv, Searching
<1>3. Progress'
  <2>1. FoundIs(search.kind, search.gap, outcome)
        /\ (~ outcome.exhaustive => query.cap = 0 \/ Len(keys) = query.cap)
        /\ (Len(keys) <= query.cap \/ query.cap = 0)
    BY DEF SearchInv, Progress
  <2>2. FoundIs(search.kind, search.gap, outcome)'
    BY <1>0, <2>1, FindingsStay
  <2> QED BY <1>0, <2>1, <2>2 DEF Progress
<1>4. Halves'
  BY <1>0 DEF SearchInv, Halves
<1>5. Profiled'
  <2>1. GapsDecided(profile, Len(query.window) + 1)'
        \/ (NeverOccurs' /\ profile' = AbsentEverywhere')
    BY <1>0, FindingsStay
  <2> QED BY <1>0, <2>1 DEF Profiled
<1> QED BY <1>1, <1>2, <1>3, <1>4, <1>5 DEF SearchInv

LEMMA ProfileSearches ==
  ASSUME SearchInv, status = "settled", query.kind = "profile",
         UNCHANGED <<query, sim, other, half>>,
         NEW kind \in {"cut", "crossed"}, NEW gap \in Nat, gap <= Len(query.window),
         Begin(kind, gap), GapsDecided(profile', gap),
         kind = "crossed" => FoundIs("cut", gap, refuted')
  PROVE  SearchInv'
<1>0. search'.kind = kind /\ search'.gap = gap
  BY DEF Begin
<1>1. Asking'
  BY AskingStays DEF SearchInv
<1>2. Searching'
  BY <1>0 DEF Searching, SearchKinds, OriginKinds
<1>3. Progress' /\ status' \in {"searching", "settled"}
  BY <1>2, BeginSearches DEF SearchInv
<1>4. Halves'
  BY DEF SearchInv, Halves
<1>5. Profiled'
  <2>1. GapsDecided(profile, search.gap)'
    BY <1>0, FindingsStay
  <2>2. kind = "crossed" => FoundIs("cut", search.gap, refuted)'
    BY <1>0, FindingsStay
  <2> QED BY <1>0, <1>3, <2>1, <2>2 DEF Profiled
<1> QED BY <1>1, <1>2, <1>3, <1>4, <1>5 DEF SearchInv

(* What each verdict says of the two refutations.                          *)
LEMMA GapVerdicts ==
  ASSUME NEW crossed, NEW cut
  PROVE  /\ GapVerdict(crossed, cut) = "undetermined" <=> ~ (crossed.exhaustive /\ cut.exhaustive)
         /\ GapVerdict(crossed, cut) # "undetermined" =>
              /\ crossed.exhaustive /\ cut.exhaustive
              /\ GapVerdict(crossed, cut) \in {"absent", "must", "never", "may"}
              /\ GapVerdict(crossed, cut) \in {"absent", "must"} <=> crossed.witness = << >>
              /\ GapVerdict(crossed, cut) \in {"absent", "never"} <=> cut.witness = << >>
<1>1. CASE ~ crossed.exhaustive \/ ~ cut.exhaustive
  <2>1. GapVerdict(crossed, cut) = "undetermined"
    BY <1>1 DEF GapVerdict
  <2> QED BY <1>1, <2>1
<1>2. CASE ~ (~ crossed.exhaustive \/ ~ cut.exhaustive)
  <2>1. CASE crossed.witness = << >> /\ cut.witness = << >>
    <3>1. GapVerdict(crossed, cut) = "absent"
      BY <1>2, <2>1 DEF GapVerdict
    <3> QED BY <1>2, <2>1, <3>1
  <2>2. CASE crossed.witness = << >> /\ cut.witness # << >>
    <3>1. GapVerdict(crossed, cut) = "must"
      BY <1>2, <2>2 DEF GapVerdict
    <3> QED BY <1>2, <2>2, <3>1
  <2>3. CASE crossed.witness # << >> /\ cut.witness = << >>
    <3>1. GapVerdict(crossed, cut) = "never"
      BY <1>2, <2>3 DEF GapVerdict
    <3> QED BY <1>2, <2>3, <3>1
  <2>4. CASE crossed.witness # << >> /\ cut.witness # << >>
    <3>1. GapVerdict(crossed, cut) = "may"
      BY <1>2, <2>4 DEF GapVerdict
    <3> QED BY <1>2, <2>4, <3>1
  <2> QED BY <2>1, <2>2, <2>3, <2>4
<1> QED BY <1>1, <1>2

LEMMA GapDecidedNext ==
  ASSUME SearchInv, Profiling("crossed"), decided.verdict # "absent"
  PROVE  GapsDecided(Append(profile, decided), search.gap + 1)
<1>1. /\ GapsDecided(profile, search.gap) /\ FoundIs("cut", search.gap, refuted)
      /\ FoundIs("crossed", search.gap, outcome) /\ search.gap \in Nat
  BY DEF SearchInv, Profiled, Profiling, Progress, Searching
<1>2. PICK gap \in Nat : gap = search.gap
  BY <1>1
<1>3. PICK p : p = decided
  OBVIOUS
<1>4. PICK vs : vs = profile
  OBVIOUS
<1>5. p = VerdictOn(refuted, outcome) /\ GapVerdict(refuted, outcome) # "absent"
  BY <1>3 DEF decided, VerdictOn
<1>6. GapDecided(p, gap)
  BY <1>1, <1>2, <1>5 DEF GapDecided
<1>7. IsSeq(vs) /\ Len(vs) = gap /\ \A g \in 1 .. gap : GapDecided(vs[g], g - 1)
  BY <1>1, <1>2, <1>4 DEF GapsDecided
<1>8. /\ IsSeq(Append(vs, p)) /\ Len(Append(vs, p)) = gap + 1
      /\ \A i \in 1 .. gap : Append(vs, p)[i] = vs[i]
      /\ Append(vs, p)[gap + 1] = p
  BY <1>7, SeqGrows
<1>9. \A g \in 1 .. gap + 1 : GapDecided(Append(vs, p)[g], g - 1)
  <2> TAKE g \in 1 .. gap + 1
  <2>1. g \in 1 .. gap \/ (g = gap + 1 /\ g - 1 = gap)
    OBVIOUS
  <2> QED BY <1>6, <1>7, <1>8, <2>1
<1> QED BY <1>2, <1>3, <1>4, <1>8, <1>9 DEF GapsDecided

LEMMA ProfileKeeps ==
  ASSUME SearchInv, ProfileNext
  PROVE  SearchInv'
<1>0. query.window \in Seq(Symbols) /\ Len(query.window) \in Nat
  <2>1. query.window \in Seq(Symbols)
    BY DEF SearchInv, Asking
  <2> QED BY <2>1
<1>1. CASE ProfileAbsent
  <2>1. status = "settled" /\ query.kind = "profile" /\ search.kind = "occurrence"
        /\ outcome = Proved /\ ProfileIs(AbsentEverywhere)
    BY <1>1 DEF ProfileAbsent, Profiling
  <2>2. FoundIs("occurrence", search.gap, Proved)
    BY <2>1 DEF SearchInv, Progress
  <2>3. Proved.exhaustive = TRUE /\ Proved.witness = << >>
    BY DEF Proved, Outcome
  <2>4. \A w \in Seq(Symbols) : ~ EventOf("occurrence", search.gap, w)
    BY <2>2, <2>3 DEF FoundIs
  <2>5. NeverOccurs
    BY <2>4, OccurrenceCuts DEF NeverOccurs
  <2> QED BY <2>1, <2>5, ProfileAnswers
<1>2. CASE ProfileFirstGap
  <2>1. status = "settled" /\ query.kind = "profile" /\ search.kind = "occurrence"
        /\ Begin("cut", 0) /\ UNCHANGED <<query, sim, other, half, profile>>
    BY <1>2 DEF ProfileFirstGap, Profiling, asked, verdicts
  <2>2. profile' = << >>
    BY <2>1 DEF SearchInv, Profiled
  <2>3. GapsDecided(profile', 0)
    <3>1. \A g \in 1 .. 0 : GapDecided(profile'[g], g - 1)
      OBVIOUS
    <3> QED BY <2>2, <3>1, SeqOfNone DEF GapsDecided
  <2> QED BY <1>0, <2>1, <2>3, ProfileSearches
<1>3. CASE ProfileCrossing
  <2>1. status = "settled" /\ query.kind = "profile" /\ search.kind = "cut"
        /\ refuted' = outcome
        /\ Begin("crossed", search.gap) /\ UNCHANGED <<query, sim, other, half, profile>>
    BY <1>3 DEF ProfileCrossing, Profiling, asked
  <2>2. FoundIs("cut", search.gap, outcome) /\ GapsDecided(profile, search.gap)
        /\ search.gap \in Nat /\ search.gap <= Len(query.window)
    BY <2>1 DEF SearchInv, Progress, Profiled, Searching
  <2> QED BY <2>1, <2>2, ProfileSearches
<1>4. CASE ProfileGapAbsent
  <2>1. status = "settled" /\ query.kind = "profile" /\ search.kind = "crossed"
        /\ decided.verdict = "absent" /\ ProfileIs(AbsentEverywhere)
    BY <1>4 DEF ProfileGapAbsent, Profiling
  <2>2. FoundIs("cut", search.gap, refuted) /\ FoundIs("crossed", search.gap, outcome)
    BY <2>1 DEF SearchInv, Progress, Profiled
  <2>3. GapVerdict(refuted, outcome) = "absent"
    BY <2>1 DEF decided, VerdictOn
  <2>4. /\ refuted.exhaustive /\ outcome.exhaustive
        /\ refuted.witness = << >> /\ outcome.witness = << >>
    BY <2>3, GapVerdicts
  <2>5. \A w \in Seq(Symbols) : ~ EventOf("cut", search.gap, w) /\ ~ EventOf("crossed", search.gap, w)
    BY <2>2, <2>4 DEF FoundIs
  <2>6. NeverOccurs
    BY <2>5, OccurrenceCuts DEF NeverOccurs
  <2> QED BY <2>1, <2>6, ProfileAnswers
<1>5. CASE ProfileNextGap
  <2>1. status = "settled" /\ query.kind = "profile" /\ search.kind = "crossed"
        /\ search.gap < Len(query.window) /\ profile' = Append(profile, decided)
        /\ Begin("cut", search.gap + 1) /\ UNCHANGED <<query, sim, other, half>>
    BY <1>5 DEF ProfileNextGap, Profiling, asked
  <2>2. GapsDecided(profile', search.gap + 1)
    BY <1>5, <2>1, GapDecidedNext DEF ProfileNextGap
  <2>3. search.gap + 1 \in Nat /\ search.gap + 1 <= Len(query.window)
    BY <1>0, <2>1 DEF SearchInv, Searching
  <2> QED BY <2>1, <2>2, <2>3, ProfileSearches
<1>6. CASE ProfileLastGap
  <2>1. status = "settled" /\ query.kind = "profile"
        /\ search.gap = Len(query.window) /\ ProfileIs(Append(profile, decided))
    BY <1>6 DEF ProfileLastGap, Profiling
  <2>2. GapsDecided(Append(profile, decided), Len(query.window) + 1)
    BY <1>6, <2>1, GapDecidedNext DEF ProfileLastGap
  <2> QED BY <2>1, <2>2, ProfileAnswers
<1> QED BY <1>1, <1>2, <1>3, <1>4, <1>5, <1>6 DEF ProfileNext

LEMMA BoundaryKeeps ==
  ASSUME SearchInv, BoundaryNext
  PROVE  SearchInv'
  BY SearchKeeps, AnswerKeeps, ProfileKeeps DEF BoundaryNext

(* The inputs the answers are compared with.                               *)
LEMMA ComparedWith ==
  ASSUME Asking, NEW kind, NEW gap
  PROVE  /\ \A w \in Seq(Symbols) : Happens(kind, gap, w) <=> EventOf(kind, gap, w)
         /\ \A longest \in Int : HappensWithin(kind, gap, longest) =>
              \E w \in Seq(Symbols) : Len(w) <= longest /\ EventOf(kind, gap, w)
<1>1. MaxWord \in Nat
  BY BoundarySearchAssumption
<1>2. \A w \in Seq(Symbols) : Len(w) <= MaxWord => w \in WordsTo(MaxWord)
  <2> TAKE w \in Seq(Symbols)
  <2> HAVE Len(w) <= MaxWord
  <2>1. PICK n \in 0 .. MaxWord : n = Len(w)
    BY <1>1
  <2>2. w \in [1 .. n -> Symbols]
    BY <2>1
  <2> QED BY <2>2 DEF WordsTo
<1>3. \A w \in WordsTo(MaxWord) :
        /\ Scans[query.sets[1]][w] = Serial(sim, w)
        /\ Scans[query.sets[2]][w] = Serial(other, w)
  BY DEF Scans, Asking
<1>4. \A w \in Seq(Symbols) : Happens(kind, gap, w) <=> EventOf(kind, gap, w)
  <2> TAKE w \in Seq(Symbols)
  <2>1. CASE Len(w) <= MaxWord
    <3>1. Scans[query.sets[1]][w] = Serial(sim, w) /\ Scans[query.sets[2]][w] = Serial(other, w)
      BY <1>2, <1>3, <2>1
    <3> QED BY <2>1, <3>1 DEF Happens, EventOf
  <2>2. CASE ~ (Len(w) <= MaxWord)
    BY <2>2 DEF Happens, EventOf
  <2> QED BY <2>1, <2>2
<1>5. ASSUME NEW longest \in Int, HappensWithin(kind, gap, longest)
      PROVE  \E w \in Seq(Symbols) : Len(w) <= longest /\ EventOf(kind, gap, w)
  <2>1. PICK top \in Int : /\ top = (IF longest < MaxWord THEN longest ELSE MaxWord)
                           /\ top <= longest /\ top <= MaxWord
    BY <1>1
  <2>2. PICK w \in WordsTo(top) :
          EventIn(kind, gap, w, Scans[query.sets[1]][w], Scans[query.sets[2]][w])
    BY <1>5, <2>1 DEF HappensWithin
  <2>3. PICK n \in 0 .. top : w \in [1 .. n -> Symbols]
    BY DEF WordsTo
  <2>4. w \in Seq(Symbols) /\ Len(w) = n
    BY <2>3
  <2>5. w \in WordsTo(MaxWord) /\ Len(w) <= longest
    BY <1>1, <1>2, <2>1, <2>4
  <2> QED BY <1>3, <2>2, <2>4, <2>5 DEF EventOf
<1> QED BY <1>4, <1>5

----------------------------------------------------------------------------
(* What the invariant says of the answers.                                 *)
LEMMA FoundIsExact ==
  ASSUME Asking, NEW kind, NEW gap, NEW found, FoundIs(kind, gap, found)
  PROVE  /\ found.exhaustive /\ found.witness = << >> => ~ HappensWithin(kind, gap, MaxWord)
         /\ found.witness # << >> =>
              /\ Happens(kind, gap, found.witness)
              /\ ~ HappensWithin(kind, gap, Len(found.witness) - 1)
<1>1. MaxWord \in Int
  BY BoundarySearchAssumption
<1>2. ASSUME found.exhaustive, found.witness = << >>
      PROVE  ~ HappensWithin(kind, gap, MaxWord)
  <2>1. \A w \in Seq(Symbols) : ~ EventOf(kind, gap, w)
    BY <1>2 DEF FoundIs
  <2> QED BY <1>1, <2>1, ComparedWith
<1>3. ASSUME found.witness # << >>
      PROVE  /\ Happens(kind, gap, found.witness)
             /\ ~ HappensWithin(kind, gap, Len(found.witness) - 1)
  <2>1. PICK x \in Seq(Symbols) : x = found.witness
    BY <1>3 DEF FoundIs
  <2>2. EventOf(kind, gap, x) /\ \A w \in Seq(Symbols) : Len(w) < Len(x) => ~ EventOf(kind, gap, w)
    BY <1>3, <2>1 DEF FoundIs
  <2>3. Len(x) - 1 \in Int /\ \A w \in Seq(Symbols) : Len(w) <= Len(x) - 1 => Len(w) < Len(x)
    OBVIOUS
  <2>4. ~ HappensWithin(kind, gap, Len(x) - 1)
    BY <2>2, <2>3, ComparedWith
  <2>5. Happens(kind, gap, x)
    BY <2>2, ComparedWith
  <2> QED BY <2>1, <2>4, <2>5
<1> QED BY <1>2, <1>3

LEMMA HalfIsExact ==
  ASSUME SearchInv, half # "none"
  PROVE  half = "boundary" <=> Happens("difference", 0, outcome.witness)
<1>1. /\ status = "answered" /\ search.kind = "segmentation" /\ outcome.witness # << >>
      /\ half = "boundary" <=> Tokenizes(sim, outcome.witness) /\ Tokenizes(other, outcome.witness)
  BY DEF SearchInv, Halves
<1>2. FoundIs("segmentation", search.gap, outcome)
  BY <1>1 DEF SearchInv, Progress
<1>3. PICK x \in Seq(Symbols) : x = outcome.witness /\ EventOf("segmentation", search.gap, x)
  BY <1>1, <1>2 DEF FoundIs
<1> DEFINE mine == Serial(sim, x)
           theirs == Serial(other, x)
<1>4. \/ Complete(mine, x) # Complete(theirs, x)
      \/ Complete(mine, x) /\ StartsOf(mine) # StartsOf(theirs)
  BY <1>3 DEF EventOf, EventIn
<1>5. EventOf("difference", 0, x) <=>
        Complete(mine, x) /\ Complete(theirs, x) /\ StartsOf(mine) # StartsOf(theirs)
  BY DEF EventOf, EventIn
<1>6. /\ Tokenizes(sim, x) <=> Complete(mine, x)
      /\ Tokenizes(other, x) <=> Complete(theirs, x)
      /\ Complete(mine, x) \in BOOLEAN /\ Complete(theirs, x) \in BOOLEAN
  BY DEF Tokenizes, Complete
<1> HIDE DEF mine, theirs
<1>7. half = "boundary" <=> EventOf("difference", 0, x)
  BY <1>1, <1>3, <1>4, <1>5, <1>6
<1>8. Happens("difference", 0, x) <=> EventOf("difference", 0, x)
  BY ComparedWith DEF SearchInv
<1> QED BY <1>3, <1>7, <1>8

EntryIsExact(p, gap) ==
  /\ VerdictHolds(p.verdict, gap)
  /\ p.crossed.witness # << >> => Happens("cut", gap, p.crossed.witness)
  /\ p.cut.witness # << >> => Happens("crossed", gap, p.cut.witness)
  /\ p.verdict \in {"must", "may"} => p.cut.witness # << >>
  /\ p.verdict \in {"never", "may"} => p.crossed.witness # << >>
  /\ p.verdict = "undetermined" <=> ~ (p.crossed.exhaustive /\ p.cut.exhaustive)

LEMMA GapIsExact ==
  ASSUME Asking, NEW p, NEW gap, GapDecided(p, gap)
  PROVE  EntryIsExact(p, gap) /\ p.verdict # "absent"
<1>1. PICK crossed, cut :
        /\ p = VerdictOn(crossed, cut) /\ GapVerdict(crossed, cut) # "absent"
        /\ FoundIs("cut", gap, crossed) /\ FoundIs("crossed", gap, cut)
  BY DEF GapDecided
<1>2. p.verdict = GapVerdict(crossed, cut) /\ p.crossed = crossed /\ p.cut = cut
  BY <1>1 DEF VerdictOn
<1>3. /\ p.verdict = "undetermined" <=> ~ (crossed.exhaustive /\ cut.exhaustive)
      /\ p.verdict # "undetermined" =>
           /\ crossed.exhaustive /\ cut.exhaustive
           /\ p.verdict \in {"absent", "must", "never", "may"}
           /\ p.verdict \in {"absent", "must"} <=> crossed.witness = << >>
           /\ p.verdict \in {"absent", "never"} <=> cut.witness = << >>
  BY <1>2, GapVerdicts
<1>4. VerdictHolds(p.verdict, gap)
  <2>1. CASE p.verdict = "must"
    <3>1. crossed.exhaustive /\ crossed.witness = << >>
      BY <1>3, <2>1
    <3>2. ~ HappensWithin("cut", gap, MaxWord)
      BY <1>1, <3>1, FoundIsExact
    <3> QED BY <2>1, <3>2 DEF VerdictHolds
  <2>2. CASE p.verdict = "never"
    <3>1. cut.exhaustive /\ cut.witness = << >>
      BY <1>3, <2>2
    <3>2. ~ HappensWithin("crossed", gap, MaxWord)
      BY <1>1, <3>1, FoundIsExact
    <3> QED BY <2>2, <3>2 DEF VerdictHolds
  <2>3. CASE p.verdict \notin {"absent", "must", "never"}
    BY <2>3 DEF VerdictHolds
  <2> QED BY <1>1, <1>2, <2>1, <2>2, <2>3
<1>5. /\ crossed.witness # << >> => Happens("cut", gap, crossed.witness)
      /\ cut.witness # << >> => Happens("crossed", gap, cut.witness)
  BY <1>1, FoundIsExact
<1> QED BY <1>1, <1>2, <1>3, <1>4, <1>5 DEF EntryIsExact

LEMMA AbsentIsExact ==
  ASSUME Asking, NeverOccurs, NEW gap
  PROVE  /\ EntryIsExact(VerdictOn(Proved, Proved), gap)
         /\ VerdictOn(Proved, Proved).verdict = "absent"
<1>1. Proved.witness = << >> /\ Proved.exhaustive = TRUE
  BY DEF Proved, Outcome
<1>2. GapVerdict(Proved, Proved) = "absent"
  BY <1>1 DEF GapVerdict
<1>3. PICK p : p = VerdictOn(Proved, Proved)
  OBVIOUS
<1>4. p.verdict = "absent" /\ p.crossed = Proved /\ p.cut = Proved
  BY <1>2, <1>3 DEF VerdictOn
<1>5. ~ HappensWithin("occurrence", 0, MaxWord)
  <2>1. MaxWord \in Int
    BY BoundarySearchAssumption
  <2> QED BY <2>1, ComparedWith DEF NeverOccurs
<1>6. VerdictHolds(p.verdict, gap)
  BY <1>4, <1>5 DEF VerdictHolds
<1> QED BY <1>1, <1>3, <1>4, <1>6 DEF EntryIsExact

LEMMA ProfileIsExact ==
  ASSUME SearchInv, query.kind = "profile", status = "answered"
  PROVE  /\ Len(profile) = Len(query.window) + 1
         /\ \A g \in DOMAIN profile : EntryIsExact(profile[g], g - 1)
         /\ (\E g \in DOMAIN profile : profile[g].verdict = "absent") =>
              \A g \in DOMAIN profile : profile[g].verdict = "absent"
<1>1. PICK n \in Nat : n = Len(query.window) + 1
  <2>1. query.window \in Seq(Symbols)
    BY DEF SearchInv, Asking
  <2>2. Len(query.window) + 1 \in Nat
    BY <2>1
  <2> QED BY <2>2
<1>2. Asking
  BY DEF SearchInv
<1>3. CASE GapsDecided(profile, n)
  <2>1. IsSeq(profile) /\ Len(profile) = n /\ \A g \in 1 .. n : GapDecided(profile[g], g - 1)
    BY <1>3 DEF GapsDecided
  <2>2. DOMAIN profile = 1 .. n
    BY <2>1, SeqParts
  <2>3. \A g \in 1 .. n : EntryIsExact(profile[g], g - 1) /\ profile[g].verdict # "absent"
    BY <1>2, <2>1, GapIsExact
  <2> QED BY <1>1, <2>1, <2>2, <2>3
<1>4. CASE NeverOccurs /\ profile = AbsentEverywhere
  <2>1. PICK p : p = VerdictOn(Proved, Proved)
    OBVIOUS
  <2>2. profile = [ g \in 1 .. n |-> p ]
    BY <1>1, <1>4, <2>1 DEF AbsentEverywhere
  <2>3. DOMAIN profile = 1 .. n /\ Len(profile) = n /\ \A g \in 1 .. n : profile[g] = p
    BY <2>2
  <2>4. \A gap : EntryIsExact(p, gap) /\ p.verdict = "absent"
    BY <1>2, <1>4, <2>1, AbsentIsExact
  <2> QED BY <1>1, <2>3, <2>4
<1> QED BY <1>1, <1>3, <1>4 DEF SearchInv, Profiled

LEMMA AnswersAreExact ==
  ASSUME SearchInv
  PROVE  AnswerIsExact
<1>1. Len(keys) <= query.cap \/ query.cap = 0
  BY DEF SearchInv, Progress
<1>2. status = "settled" =>
        IF ~ outcome.exhaustive
        THEN outcome.witness = << >> /\ (query.cap = 0 \/ Len(keys) = query.cap)
        ELSE IF outcome.witness = << >>
        THEN ~ HappensWithin(search.kind, search.gap, MaxWord)
        ELSE /\ Happens(search.kind, search.gap, outcome.witness)
             /\ ~ HappensWithin(search.kind, search.gap, Len(outcome.witness) - 1)
  <2> HAVE status = "settled"
  <2>1. FoundIs(search.kind, search.gap, outcome)
        /\ (~ outcome.exhaustive => query.cap = 0 \/ Len(keys) = query.cap)
    BY DEF SearchInv, Progress
  <2>2. CASE ~ outcome.exhaustive
    BY <2>1, <2>2 DEF FoundIs
  <2>3. CASE outcome.exhaustive
    BY <2>1, <2>3, FoundIsExact DEF SearchInv
  <2> QED BY <2>2, <2>3
<1>3. half # "none" => (half = "boundary" <=> Happens("difference", 0, outcome.witness))
  BY HalfIsExact
<1>4. query.kind = "profile" /\ status = "answered" =>
        /\ Len(profile) = Len(query.window) + 1
        /\ \A g \in DOMAIN profile : EntryIsExact(profile[g], g - 1)
        /\ (\E g \in DOMAIN profile : profile[g].verdict = "absent") =>
             \A g \in DOMAIN profile : profile[g].verdict = "absent"
  BY ProfileIsExact
<1> QED BY <1>1, <1>2, <1>3, <1>4 DEF AnswerIsExact, EntryIsExact

----------------------------------------------------------------------------
(* The searches as the callers of the offline decisions ask them.          *)
OfflineInv ==
  /\ SearchInv
  /\ stage = "byte span" => status = "not asked" /\ query.kind = "rescue"

LEMMA BoundaryBegins ==
  ASSUME BoundaryInit
  PROVE  SearchInv
<1>1. query \in BoundaryQueries /\ IsBoundaryQuery(query)
  BY BoundarySearchAssumption DEF BoundaryInit
<1>2. Asking
  <2>1. query.sets[1] \in TokenSets /\ query.sets[2] \in TokenSets
    BY <1>1 DEF IsBoundaryQuery
  <2> QED BY <1>1, <2>1 DEF IsBoundaryQuery, BoundaryInit, Asking
<1> DEFINE kind == IF query.kind = "profile" THEN "occurrence" ELSE query.kind
<1>3. search = [kind |-> kind, gap |-> query.gap] /\ keys = <<StartKey(kind, query.gap)>>
  BY DEF BoundaryInit
<1>4. search.kind = kind /\ search.gap = query.gap
  BY <1>3
<1>5. kind \in SearchKinds
  BY <1>1 DEF IsBoundaryQuery, SearchKinds
<1>6. Searching
  <2>1. query.kind # "none" /\ query.kind \in SearchKinds \cup {"profile"}
    BY <1>1 DEF IsBoundaryQuery, SearchKinds, PairKinds, OriginKinds
  <2>2. search.kind \in SearchKinds /\ search.gap = query.gap /\ query.gap \in Nat
    BY <1>1, <1>4, <1>5 DEF IsBoundaryQuery
  <2>3. query.kind # "profile" => search.kind = query.kind
    BY <1>4
  <2>4. query.kind = "profile" => search.kind = "occurrence"
    BY <1>4
  <2> HIDE DEF kind
  <2> QED BY <2>1, <2>2, <2>3, <2>4 DEF Searching
<1>7. Walk(keys, parents, expanding, trying)
  <2>1. parents = FirstParents /\ expanding = 1 /\ trying = 1
    BY DEF BoundaryInit, FirstParents
  <2> QED BY <1>2, <1>3, <1>4, <1>6, <2>1, WalkIsBegun
<1>8. FoundIs(search.kind, search.gap, outcome)
  <2>1. outcome.witness = << >> /\ outcome.exhaustive = FALSE
    BY DEF BoundaryInit, Outcome
  <2> QED BY <2>1 DEF FoundIs
<1>9. Len(keys) <= query.cap \/ query.cap = 0
  <2>1. Len(keys) = 1
    BY <1>3, SeqOfOne
  <2> QED BY <1>2, <2>1 DEF Asking
<1>10. /\ status \in {"searching", "settled"}
       /\ status = "searching" => query.cap # 0
       /\ status = "settled" => query.cap = 0
  BY DEF BoundaryInit
<1>11. Progress
  BY <1>7, <1>8, <1>9, <1>10 DEF Progress
<1>12. Halves
  BY DEF BoundaryInit, Halves
<1>13. Profiled
  <2>1. query.kind = "profile" => search.kind = "occurrence"
    BY <1>4
  <2> QED BY <1>6, <1>10, <2>1 DEF Profiled, BoundaryInit, Searching
<1> QED BY <1>2, <1>6, <1>11, <1>12, <1>13 DEF SearchInv

LEMMA OfflineBegins ==
  OfflineInit => OfflineInv
<1>1. ASSUME NoSearch, Asking, query.kind \in {"none", "rescue"}
      PROVE  SearchInv
  <2>1. search.kind = "rescue" /\ search.gap = 0
    BY <1>1 DEF NoSearch
  <2>2. Searching
    BY <1>1, <2>1 DEF Searching, SearchKinds, OriginKinds
  <2>3. keys = << >> /\ status = "not asked" /\ half = "none"
    BY <1>1 DEF NoSearch
  <2>4. Progress
    <3>1. PICK cap \in Nat : cap = query.cap
      BY <1>1 DEF Asking
    <3>2. Len(keys) = 0
      BY <2>3
    <3>3. Len(keys) <= query.cap
      BY <3>1, <3>2
    <3> QED BY <2>3, <3>3 DEF Progress
  <2>5. Halves
    BY <2>3 DEF Halves
  <2>6. Profiled
    BY <1>1 DEF Profiled
  <2> QED BY <1>1, <2>2, <2>4, <2>5, <2>6 DEF SearchInv
<1>2. ASSUME AskOne PROVE OfflineInv
  BY <1>2, BoundaryBegins DEF AskOne, OfflineInv
<1>3. ASSUME AskAudit PROVE OfflineInv
  <2>1. query \in BoundaryQueries /\ IsBoundaryQuery(query) /\ query.kind = "rescue"
    BY <1>3, BoundarySearchAssumption DEF AskAudit
  <2>2. query.sets[1] \in TokenSets /\ query.sets[2] \in TokenSets
    BY <2>1 DEF IsBoundaryQuery
  <2>3. Asking
    BY <1>3, <2>1, <2>2 DEF IsBoundaryQuery, AskAudit, Asking
  <2> QED BY <1>1, <1>3, <2>1, <2>3 DEF AskAudit, OfflineInv, NoSearch
<1>4. ASSUME AskTail PROVE OfflineInv
  <2>1. PICK D \in TokenSets :
          /\ query = [ kind |-> "none", window |-> << >>, gap |-> 0, cap |-> 0,
                       sets |-> <<D, D>> ]
          /\ sim = Tables[D] /\ other = Tables[D]
    BY <1>4 DEF AskTail
  <2>2. /\ query.kind = "none" /\ query.window = << >> /\ query.gap = 0 /\ query.cap = 0
        /\ query.sets[1] = D /\ query.sets[2] = D
    BY <2>1
  <2>3. << >> \in Seq(Symbols)
    OBVIOUS
  <2>4. Asking
    BY <2>1, <2>2, <2>3 DEF Asking
  <2> QED BY <1>1, <1>4, <2>2, <2>4 DEF AskTail, OfflineInv
<1> QED BY <1>2, <1>3, <1>4 DEF OfflineInit

LEMMA SearchRests ==
  ASSUME SearchInv, UNCHANGED searchVars
  PROVE  SearchInv'
<1>0. UNCHANGED <<query, sim, other, search, keys, parents, expanding, trying,
                  status, outcome, half, refuted, profile>>
  BY DEF searchVars, asked, frontier, verdicts
<1>1. Asking'
  BY <1>0, AskingStays DEF SearchInv
<1>2. Searching'
  BY <1>0 DEF SearchInv, Searching
<1>3. Progress'
  <2>1. \A kind, gap, found : FoundIs(kind, gap, found)' <=> FoundIs(kind, gap, found)
    BY <1>0, FindingsStay
  <2>2. \A ks, via, at_, t : Walk(ks, via, at_, t)' <=> Walk(ks, via, at_, t)
    BY <1>0, WalksStay
  <2> QED BY <1>0, <2>1, <2>2 DEF SearchInv, Progress
<1>4. Halves'
  BY <1>0 DEF SearchInv, Halves
<1>5. Profiled'
  <2>1. /\ \A kind, gap, found : FoundIs(kind, gap, found)' <=> FoundIs(kind, gap, found)
        /\ \A p, n : GapsDecided(p, n)' <=> GapsDecided(p, n)
        /\ NeverOccurs' <=> NeverOccurs
        /\ AbsentEverywhere' = AbsentEverywhere
    BY <1>0, FindingsStay
  <2> QED BY <1>0, <2>1 DEF SearchInv, Profiled
<1> QED BY <1>1, <1>2, <1>3, <1>4, <1>5 DEF SearchInv

LEMMA ByteSpanKeeps ==
  ASSUME OfflineInv, ByteSpanDecided
  PROVE  SearchInv'
<1>0. /\ UNCHANGED <<query, sim, other, half, refuted, profile>> /\ Begin("rescue", 0)
      /\ status = "not asked" /\ query.kind = "rescue"
  BY DEF ByteSpanDecided, OfflineInv, asked, verdicts
<1>1. Asking'
  BY <1>0, AskingStays DEF OfflineInv, SearchInv
<1>2. search'.kind = "rescue" /\ search'.gap = 0
  BY <1>0 DEF Begin
<1>3. Searching'
  <2>1. "rescue" \in SearchKinds /\ "rescue" \notin OriginKinds /\ 0 \in Nat
    BY DEF SearchKinds, OriginKinds
  <2>2. (search.kind = "rescue" /\ search.gap = 0 /\ query.kind = "rescue")'
    BY <1>0, <1>2
  <2> QED BY <2>1, <2>2 DEF Searching
<1>4. Progress'
  BY <1>0, <1>3, BeginSearches DEF OfflineInv, SearchInv
<1>5. Halves'
  BY <1>0 DEF OfflineInv, SearchInv, Halves
<1>6. Profiled'
  BY <1>0 DEF Profiled
<1> QED BY <1>1, <1>3, <1>4, <1>5, <1>6 DEF SearchInv

(* An audit that still walks towards its first span has not asked yet.     *)
LEMMA NotAskedYet ==
  ASSUME BoundaryNext
  PROVE  status # "not asked"
<1>1. SearchNext => status = "searching"
  BY DEF SearchNext, WitnessEnds, ReadByte, LeaveOpen, NextKey, Exhausted, Reading
<1>2. ProfileNext => status = "settled"
  BY DEF ProfileNext, ProfileAbsent, ProfileFirstGap, ProfileCrossing, ProfileGapAbsent,
         ProfileNextGap, ProfileLastGap, Profiling
<1>3. Answer => status = "settled"
  BY DEF Answer
<1> QED BY <1>1, <1>2, <1>3 DEF BoundaryNext

LEMMA OfflineKeeps ==
  OfflineInv /\ [OfflineNext]_offlineVars => OfflineInv'
<1> SUFFICES ASSUME OfflineInv, [OfflineNext]_offlineVars PROVE OfflineInv'
  OBVIOUS
<1>0. SearchInv /\ (stage = "byte span" => status = "not asked" /\ query.kind = "rescue")
  BY DEF OfflineInv
<1>1. CASE Search
  <2>1. BoundaryNext /\ stage' = stage
    BY <1>1 DEF Search
  <2>2. stage # "byte span"
    BY <1>0, <2>1, NotAskedYet
  <2> QED BY <1>0, <2>1, <2>2, BoundaryKeeps DEF OfflineInv
<1>2. CASE UNCHANGED searchVars /\ (stage' = stage \/ stage' # "byte span")
  <2>1. SearchInv'
    BY <1>0, <1>2, SearchRests
  <2>2. status' = status /\ query' = query
    BY <1>2 DEF searchVars, asked
  <2> QED BY <1>0, <1>2, <2>1, <2>2 DEF OfflineInv
<1>3. CASE ByteSpanDecided
  <2>1. stage' # "byte span"
    BY <1>3 DEF ByteSpanDecided
  <2> QED BY <1>3, <2>1, ByteSpanKeeps DEF OfflineInv
<1>4. WalkOn => UNCHANGED searchVars /\ stage' = stage
  BY DEF WalkOn
<1>5. NoWindows \/ WindowsFound \/ WindowSpanDecided \/ Mend =>
        UNCHANGED searchVars /\ stage' # "byte span"
  BY DEF NoWindows, WindowsFound, WindowSpanDecided, Mend
<1>6. UNCHANGED offlineVars => UNCHANGED searchVars /\ stage' = stage
  BY DEF offlineVars
<1> QED BY <1>1, <1>2, <1>3, <1>4, <1>5, <1>6 DEF OfflineNext

(* Every answer of every search is the truth about all inputs: a witness   *)
(* is an input on which the event happens and none is shorter, an          *)
(* exhausted search means that it happens on none, and a question is left  *)
(* open only by the cap (boundary_search.hpp 21-26, 486-517).              *)
THEOREM SearchesAreExact == OfflineSpec => []AnswerIsExact
<1>1. OfflineInv => AnswerIsExact
  BY AnswersAreExact DEF OfflineInv
<1> QED BY <1>1, OfflineBegins, OfflineKeeps, PTL DEF OfflineSpec

----------------------------------------------------------------------------
(* The token sets that are asked about, and the runs from any of their     *)
(* states.                                                                 *)
Ours(D) == \E S \in TokenSets : D = Tables[S]

LEMMA OursAreCompiled ==
  ASSUME NEW D, Ours(D)
  PROVE  /\ IsDfa(D) /\ IsSimulator(D) /\ ~ Accepting(D, D.init)
         /\ D.split_points = SplitPoints(D, {})
         /\ \A s : /\ WithInit(D, s).init = s
                   /\ WithInit(D, s).next = D.next
                   /\ WithInit(D, s).accept = D.accept
<1>1. PICK S \in TokenSets : D = Tables[S]
  BY DEF Ours
<1>2. IsDfa(S) /\ Tables[S] = Simulator(S, {})
  BY CompiledSetAssumption DEF Tables
<1>3. PICK ignored : ignored = {}
  OBVIOUS
<1>4. D = Simulator(S, ignored)
  BY <1>1, <1>2, <1>3
<1>5. IsDfa(D) /\ IsSimulator(D) /\ ~ Accepting(D, D.init)
      /\ D.split_points = SplitPoints(D, {})
  BY <1>2, <1>4, SimulatorTables, SimulatorIsOne
<1>6. \A s : /\ WithInit(D, s).init = s
             /\ WithInit(D, s).next = D.next
             /\ WithInit(D, s).accept = D.accept
  BY <1>4 DEF WithInit, Simulator
<1> QED BY <1>5, <1>6

LEMMA MaximalRunIs ==
  ASSUME NEW D, NEW s, NEW w \in Seq(Symbols), NEW from \in 0 .. Len(w)
  PROVE  /\ Accepts(D, s, w, from) = {} => MaximalRun(D, s, w, from) = {}
         /\ \A n \in Accepts(D, s, w, from) :
              (\A f \in Accepts(D, s, w, from) : f <= n) => MaximalRun(D, s, w, from) = {from + n}
         /\ \A b \in MaximalRun(D, s, w, from) :
              \E n \in Accepts(D, s, w, from) :
                b = from + n /\ \A f \in Accepts(D, s, w, from) : f <= n
<1> DEFINE ends == Accepts(D, s, w, from)
<1>1. MaximalRun(D, s, w, from) = { from + n : n \in { e \in ends : \A f \in ends : f <= e } }
  BY DEF MaximalRun, Accepts, WithInit
<1>2. ends \subseteq Nat
  BY DEF Accepts
<1> HIDE DEF ends
<1>3. ASSUME NEW n \in ends, \A f \in ends : f <= n
      PROVE  { e \in ends : \A f \in ends : f <= e } = {n}
  <2>1. \A e \in ends : (\A f \in ends : f <= e) => e <= n /\ n <= e
    BY <1>3
  <2>2. \A e \in ends : e \in Nat /\ n \in Nat
    BY <1>2
  <2>3. \A e \in ends : (\A f \in ends : f <= e) => e = n
    BY <2>1, <2>2
  <2> QED BY <1>3, <2>3
<1>4. ends = {} => MaximalRun(D, s, w, from) = {}
  BY <1>1
<1>5. \A n \in ends : (\A f \in ends : f <= n) => MaximalRun(D, s, w, from) = {from + n}
  BY <1>1, <1>3
<1>6. \A b \in MaximalRun(D, s, w, from) :
        \E n \in ends : b = from + n /\ \A f \in ends : f <= n
  BY <1>1
<1> QED BY <1>4, <1>5, <1>6 DEF ends

(* From the initial state it is the longest match.                         *)
LEMMA FreshRun ==
  ASSUME NEW D, Ours(D), NEW w \in Seq(Symbols), NEW from \in 0 .. Len(w)
  PROVE  MaximalRun(D, D.init, w, from)
           = IF MatchLengths(D, w, from) = {} THEN {} ELSE {AfterTokenAt(D, w, from)}
<1> DEFINE N == Len(w) - from
           q == StateAfter(D, w, from)
           r == StateAfter(WithInit(D, D.init), w, from)
           t == [ n \in 1 .. N |-> w[from + n] ]
<1>1. N \in Nat
  OBVIOUS
<1>2. q[0] = D.init /\ \A n \in 1 .. N : q[n] = NextState(D, q[n - 1], w[from + n])
  BY StateAfterSteps
<1>3. r[0] = D.init /\ \A n \in 1 .. N : r[n] = NextState(D, r[n - 1], w[from + n])
  <2>1. PICK E : E = WithInit(D, D.init)
    OBVIOUS
  <2>2. E.init = D.init /\ E.next = D.next
    BY <2>1, OursAreCompiled
  <2>3. /\ StateAfter(E, w, from)[0] = E.init
        /\ \A n \in 1 .. N : StateAfter(E, w, from)[n]
                              = NextState(E, StateAfter(E, w, from)[n - 1], w[from + n])
    BY StateAfterSteps
  <2>4. \A s, a : NextState(E, s, a) = NextState(D, s, a)
    BY <2>2 DEF NextState
  <2> QED BY <2>1, <2>2, <2>3, <2>4
<1>4. \A n \in 1 .. N : t[n] = w[from + n]
  OBVIOUS
<1> HIDE DEF q, r, t
<1>6. \A n \in 0 .. N : q[n] = r[n]
  <2> HIDE DEF N
  <2>1. IsRun(D, N, q, t)
    BY <1>2, <1>4 DEF IsRun
  <2>2. IsRun(D, N, r, t)
    BY <1>3, <1>4 DEF IsRun
  <2>3. q[0] = r[0]
    BY <1>2, <1>3
  <2> QED BY <1>1, <2>1, <2>2, <2>3, RunsAgree
<1>7. Accepts(D, D.init, w, from) = MatchLengths(D, w, from)
  <2>1. ~ Accepting(D, r[0])
    BY <1>3, OursAreCompiled
  <2>2. \A n \in 0 .. N : n = 0 \/ n \in 1 .. N
    OBVIOUS
  <2>3. Accepts(D, D.init, w, from) =
          { n \in 0 .. N : r[n] # NoState /\ Accepting(D, r[n]) }
    BY DEF Accepts, r
  <2>4. MatchLengths(D, w, from) =
          { n \in 1 .. N : q[n] # NoState /\ Accepting(D, q[n]) }
    BY DEF MatchLengths, Accepting, q
  <2> QED BY <1>6, <2>1, <2>2, <2>3, <2>4
<1>8. CASE MatchLengths(D, w, from) # {}
  <2>1. /\ LongestMatch(D, w, from) \in MatchLengths(D, w, from)
        /\ \A m \in MatchLengths(D, w, from) : m <= LongestMatch(D, w, from)
    BY <1>8, LongestMatchIsLongest
  <2>2. PICK s : s = D.init
    OBVIOUS
  <2>3. MaximalRun(D, s, w, from) = {from + LongestMatch(D, w, from)}
    BY <1>7, <2>1, <2>2, MaximalRunIs
  <2> QED BY <1>8, <2>2, <2>3 DEF AfterTokenAt
<1>9. CASE MatchLengths(D, w, from) = {}
  BY <1>7, <1>9, MaximalRunIs
<1> QED BY <1>8, <1>9

LEMMA TokenizingIs ==
  ASSUME NEW D, Ours(D), NEW w \in Seq(Symbols)
  PROVE  Tokenizing(D, w) = Scanned(D, w)
<1> DEFINE N == Len(w)
           T == Scanned(D, w)
           Ends(x) == MaximalRun(D, D.init, w, x)
           Round(x, rest) ==
             IF x = N THEN {x} ELSE rest \cup { o \in {x} : Ends(o) \cap rest # {} }
           Is(f) == f = [ x \in 0 .. N |-> Round(x, f[x + 1]) ]
           Later(x) == { y \in T : x <= y }
           g == [ x \in 0 .. N |-> Later(x) ]
           h == CHOOSE f : Is(f)
<1>0. IsDfa(D) /\ N \in Nat
  BY OursAreCompiled
<1>1. T \subseteq 0 .. N
  BY DEF Scanned
<1>2. N \in T
  BY <1>0, ScannedSteps
<1>3. ASSUME NEW x \in 0 .. N - 1
      PROVE  x \in T <=> Ends(x) \cap Later(x + 1) # {}
  <2>1. x \in 0 .. N /\ x # N
    OBVIOUS
  <2>2. x \in T <=> MatchLengths(D, w, x) # {} /\ AfterTokenAt(D, w, x) \in T
    BY <1>0, <2>1, ScannedSteps
  <2>3. Ends(x) = IF MatchLengths(D, w, x) = {} THEN {} ELSE {AfterTokenAt(D, w, x)}
    BY <2>1, FreshRun
  <2>4. MatchLengths(D, w, x) # {} => AfterTokenAt(D, w, x) \in x + 1 .. N
    BY <1>0, <2>1, ScanSteps
  <2>5. MatchLengths(D, w, x) # {} => x + 1 <= AfterTokenAt(D, w, x)
    BY <2>4
  <2> HIDE DEF T, Ends, N
  <2> QED BY <2>2, <2>3, <2>5
<1> HIDE DEF T, Ends
<1>4. ASSUME NEW x \in 0 .. N PROVE Later(x) = Round(x, Later(x + 1))
  <2>1. CASE x = N
    <3>1. \A y \in T : x <= y <=> y = x
      BY <1>1, <2>1
    <3> QED BY <1>2, <2>1, <3>1
  <2>2. CASE x # N
    <3>1. x \in 0 .. N - 1
      BY <2>2
    <3>2. Later(x) = Later(x + 1) \cup { o \in {x} : o \in T }
      <4>1. \A y \in T : x <= y <=> x + 1 <= y \/ y = x
        BY <1>1, <3>1
      <4>2. x \in T => x <= x
        BY <3>1
      <4> QED BY <4>1, <4>2
    <3> HIDE DEF Later
    <3> QED BY <1>3, <2>2, <3>1, <3>2
  <2> QED BY <2>1, <2>2
<1> HIDE DEF Later
<1>5. Is(g)
  <2>1. ASSUME NEW x \in 0 .. N PROVE Later(x) = Round(x, g[x + 1])
    <3>1. CASE x = N
      BY <1>4, <3>1
    <3>2. CASE x # N
      <4>1. x + 1 \in 0 .. N
        BY <3>2
      <4>2. g[x + 1] = Later(x + 1)
        BY <4>1
      <4> QED BY <1>4, <4>2
    <3> QED BY <3>1, <3>2
  <2> HIDE DEF Round
  <2> QED BY <2>1
<1>6. Is(h)
  <2> HIDE DEF Is, g
  <2> QED BY <1>5
<1>7. Tokenizing(D, w) = h[0]
  BY DEF Tokenizing, Ends
<1> HIDE DEF h, g
<1>8. \A x \in 0 .. N : h[x] = Round(x, h[x + 1])
  <2> HIDE DEF Round
  <2> QED BY <1>6
<1>9. 0 .. N \subseteq { z \in 0 .. N : h[z] = Later(z) }
  <2> DEFINE S == { z \in 0 .. N : h[z] = Later(z) }
  <2>1. ASSUME NEW x \in 0 .. N, \A y \in x + 1 .. N : y \in S
        PROVE  x \in S
    <3>1. CASE x = N
      BY <1>4, <1>8, <3>1
    <3>2. CASE x # N
      <4>1. x + 1 \in x + 1 .. N
        BY <3>2
      <4>2. h[x + 1] = Later(x + 1)
        BY <2>1, <4>1
      <4> HIDE DEF Round
      <4> QED BY <1>4, <1>8, <4>2
    <3> QED BY <3>1, <3>2
  <2> HIDE DEF S, N
  <2>2. 0 .. N \subseteq S
    BY <1>0, <2>1, DownFrom
  <2> QED BY <2>2 DEF S
<1>10. 0 \in 0 .. N /\ Later(0) = T
  <2>1. \A y \in T : 0 <= y
    BY <1>1
  <2> QED BY <1>0, <2>1 DEF Later
<1> QED BY <1>7, <1>9, <1>10 DEF T

(* The boundaries of a scenario are those of the scan of the tail from its *)
(* first one on.                                                           *)
LEMMA ChainIs ==
  ASSUME NEW D, Ours(D), NEW w \in Seq(Symbols), NEW first \in Scanned(D, w)
  PROVE  Chain(D, w, first) = BeginsFrom(D, w, first)
<1> DEFINE N == Len(w)
           Ends(x) == MaximalRun(D, D.init, w, x)
           Round(x, f) == IF x = N THEN {} ELSE {x} \cup UNION { f[b] : b \in Ends(x) }
           Is(f) == f = [ x \in 0 .. N |-> Round(x, f) ]
           All(x) == BeginsFrom(D, w, x) \cup ({SerialFrom(D, w)[x].consumed} \ {N})
           g == [ x \in 0 .. N |-> All(x) ]
           h == CHOOSE f : Is(f)
<1>0. IsDfa(D) /\ N \in Nat
  BY OursAreCompiled
<1>1. All(N) = {}
  <2>1. SerialFrom(D, w)[N].consumed \in N .. N
    BY <1>0, SerialType
  <2>2. SerialFrom(D, w)[N].consumed = N
    BY <1>0, <2>1
  <2>3. MatchLengths(D, w, N) = {}
    <3>1. 1 .. N - N = {}
      BY <1>0
    <3> QED BY <3>1 DEF MatchLengths
  <2> QED BY <1>0, <2>2, <2>3, ScanSteps
<1>2. ASSUME NEW x \in 0 .. N - 1
      PROVE  \/ Ends(x) = {} /\ All(x) = {x}
             \/ \E y \in x + 1 .. N : Ends(x) = {y} /\ All(x) = {x} \cup All(y)
  <2>1. x \in 0 .. N /\ x # N
    OBVIOUS
  <2>2. Ends(x) = IF MatchLengths(D, w, x) = {} THEN {} ELSE {AfterTokenAt(D, w, x)}
    BY <2>1, FreshRun
  <2>3. CASE MatchLengths(D, w, x) = {}
    BY <1>0, <2>1, <2>2, <2>3, ScanSteps
  <2>4. CASE MatchLengths(D, w, x) # {}
    <3>1. PICK y \in x + 1 .. N : y = AfterTokenAt(D, w, x)
      BY <1>0, <2>1, <2>4, ScanSteps
    <3>2. /\ SerialFrom(D, w)[x].consumed = SerialFrom(D, w)[y].consumed
          /\ BeginsFrom(D, w, x) = {x} \cup BeginsFrom(D, w, y)
      BY <1>0, <2>1, <2>4, <3>1, ScanSteps
    <3>3. All(x) = {x} \cup All(y)
      BY <3>2
    <3> HIDE DEF All
    <3> QED BY <2>2, <2>4, <3>1, <3>3
  <2> QED BY <2>3, <2>4
<1>3. SerialFrom(D, w)[first].consumed = N /\ first \in 0 .. N
  BY DEF Scanned
<1>4. All(first) = BeginsFrom(D, w, first)
  BY <1>3
<1> HIDE DEF All, Ends
<1>5. ASSUME NEW f, NEW x \in 0 .. N, \A y \in x + 1 .. N : f[y] = All(y)
      PROVE  Round(x, f) = All(x)
  <2>1. CASE x = N
    BY <1>1, <2>1
  <2>2. CASE x # N
    <3>1. x \in 0 .. N - 1
      BY <2>2
    <3>2. CASE Ends(x) = {} /\ All(x) = {x}
      BY <2>2, <3>2
    <3>3. CASE \E y \in x + 1 .. N : Ends(x) = {y} /\ All(x) = {x} \cup All(y)
      <4>1. PICK y \in x + 1 .. N : Ends(x) = {y} /\ All(x) = {x} \cup All(y)
        BY <3>3
      <4>2. UNION { f[b] : b \in Ends(x) } = f[y]
        BY <4>1
      <4> QED BY <1>5, <2>2, <4>1, <4>2
    <3> QED BY <1>2, <3>1, <3>2, <3>3
  <2> QED BY <2>1, <2>2
<1>6. Is(g)
  <2>1. ASSUME NEW x \in 0 .. N PROVE All(x) = Round(x, g)
    <3>1. \A y \in x + 1 .. N : y \in 0 .. N
      OBVIOUS
    <3>2. \A y \in x + 1 .. N : g[y] = All(y)
      BY <3>1
    <3> HIDE DEF g, Round
    <3> QED BY <1>5, <3>2
  <2>2. g = [ x \in 0 .. N |-> Round(x, g) ]
    <3> HIDE DEF Round
    <3> QED BY <2>1
  <2> HIDE DEF g
  <2> QED BY <2>2
<1>7. Is(h)
  <2> HIDE DEF Is, g
  <2> QED BY <1>6
<1>8. Chain(D, w, first) = h[first]
  BY DEF Chain, Ends
<1> HIDE DEF h, g
<1>9. \A x \in 0 .. N : h[x] = Round(x, h)
  <2> HIDE DEF Round
  <2> QED BY <1>7
<1>10. 0 .. N \subseteq { z \in 0 .. N : h[z] = All(z) }
  <2> DEFINE S == { z \in 0 .. N : h[z] = All(z) }
  <2>1. ASSUME NEW x \in 0 .. N, \A y \in x + 1 .. N : y \in S
        PROVE  x \in S
    <3>1. \A y \in x + 1 .. N : h[y] = All(y)
      BY <2>1
    <3> HIDE DEF Round
    <3> QED BY <1>5, <1>9, <3>1
  <2> HIDE DEF S, N
  <2>2. 0 .. N \subseteq S
    BY <1>0, <2>1, DownFrom
  <2> QED BY <2>2 DEF S
<1> QED BY <1>3, <1>4, <1>8, <1>10

----------------------------------------------------------------------------
(* The walk to the entries, entry by entry.                                *)
EntryAdded(D, k, from, via, b) ==
  IF D.next[from][b] = NoState \/ \E i \in 1 .. Len(k) : k[i].state = D.next[from][b] THEN k
  ELSE Append(k, [state |-> D.next[from][b], via |-> Append(via, b)])

Expanded(D, known, from, via) ==
  LET after[n \in 0 .. Len(Bytes)] ==
        IF n = 0 THEN known ELSE EntryAdded(D, after[n - 1], from, via, Bytes[n])
  IN after[Len(Bytes)]

NextExpanded(D, known, n) ==
  IF n > Len(known) THEN known ELSE Expanded(D, known, known[n].state, known[n].via)

Walked(D) ==
  LET walked[n \in 0 .. D.count] ==
        IF n = 0 THEN Expanded(D, << >>, D.init, << >>) ELSE NextExpanded(D, walked[n - 1], n)
  IN walked[D.count]

LEMMA EntriesAreWalked ==
  ASSUME NEW D
  PROVE  CrossingEntries(D) = Range(Walked(D))
  BY DEF CrossingEntries, Walked, NextExpanded, Expanded, EntryAdded

LEMMA ExpandedSteps ==
  ASSUME NEW D, NEW known, NEW from, NEW via
  PROVE  \E f : /\ f[0] = known
                /\ \A n \in 1 .. Len(Bytes) : f[n] = EntryAdded(D, f[n - 1], from, via, Bytes[n])
                /\ Expanded(D, known, from, via) = f[Len(Bytes)]
<1> DEFINE N == Len(Bytes)
           First == known
           Next_(x, n) == EntryAdded(D, x, from, via, Bytes[n])
           Is(f, k) == f = [ n \in 0 .. k |-> IF n = 0 THEN First ELSE Next_(f[n - 1], n) ]
           S == { k \in 0 .. N : \E f : Is(f, k) }
           h == CHOOSE f : Is(f, N)
<1>0. N \in Nat
  BY CompiledSetAssumption
<1>5. Expanded(D, known, from, via) = h[N]
  BY DEF Expanded
<1> HIDE DEF First, Next_, N
<1>1. 0 \in S
  <2> DEFINE e == [ n \in 0 .. 0 |-> First ]
  <2>1. \A n \in 0 .. 0 : n = 0
    OBVIOUS
  <2>2. e = [ n \in 0 .. 0 |-> IF n = 0 THEN First ELSE Next_(e[n - 1], n) ]
    BY <2>1
  <2>3. Is(e, 0)
    <3> HIDE DEF e
    <3> QED BY <2>2
  <2> HIDE DEF e, Is
  <2> QED BY <1>0, <2>3
<1>2. ASSUME NEW k \in 0 .. N - 1, k \in S PROVE k + 1 \in S
  <2>1. PICK f : Is(f, k)
    BY <1>2
  <2> DEFINE g == [ n \in 0 .. k + 1 |-> IF n = k + 1 THEN Next_(f[k], k + 1) ELSE f[n] ]
  <2>2. k \in Nat /\ k + 1 \in 0 .. N
    BY <1>0
  <2>3. \A n \in 0 .. k + 1 : g[n] = IF n = 0 THEN First ELSE Next_(g[n - 1], n)
    <3> TAKE n \in 0 .. k + 1
    <3>1. CASE n = k + 1
      <4>1. g[n] = Next_(f[k], k + 1)
        BY <3>1
      <4>2. n # 0 /\ n - 1 \in 0 .. k + 1 /\ n - 1 = k /\ n - 1 # k + 1 /\ g[n - 1] = f[k]
        BY <2>2, <3>1
      <4> HIDE DEF g
      <4> QED BY <3>1, <4>1, <4>2
    <3>2. CASE n # k + 1
      <4>1. n \in 0 .. k /\ g[n] = f[n]
        BY <2>2, <3>2
      <4>2. n # 0 => n - 1 \in 0 .. k + 1 /\ n - 1 # k + 1 /\ g[n - 1] = f[n - 1]
        BY <2>2, <3>2
      <4>3. f[n] = IF n = 0 THEN First ELSE Next_(f[n - 1], n)
        BY <2>1, <4>1
      <4> HIDE DEF g
      <4> QED BY <4>1, <4>2, <4>3
    <3> QED BY <3>1, <3>2
  <2>4. g = [ n \in 0 .. k + 1 |-> g[n] ]
    OBVIOUS
  <2>5. Is(g, k + 1)
    <3> HIDE DEF g
    <3> QED BY <2>3, <2>4
  <2> HIDE DEF g, Is
  <2> QED BY <2>2, <2>5
<1>3. N \in S
  <2> HIDE DEF S
  <2>1. 0 .. N \subseteq S
    BY <1>0, <1>1, <1>2, UpTo
  <2> QED BY <1>0, <2>1
<1>4. Is(h, N)
  <2>1. PICK f : Is(f, N)
    BY <1>3
  <2> HIDE DEF Is
  <2> QED BY <2>1
<1> HIDE DEF h
<1>6. h[0] = First
  BY <1>0, <1>4
<1>7. \A n \in 1 .. N : h[n] = Next_(h[n - 1], n)
  <2> TAKE n \in 1 .. N
  <2>1. n \in 0 .. N /\ n # 0
    BY <1>0
  <2> QED BY <1>4, <2>1
<1> QED BY <1>5, <1>6, <1>7 DEF First, Next_, N

LEMMA WalkedSteps ==
  ASSUME NEW D, D.count \in Nat
  PROVE  \E f : /\ f[0] = Expanded(D, << >>, D.init, << >>)
                /\ \A n \in 1 .. D.count : f[n] = NextExpanded(D, f[n - 1], n)
                /\ Walked(D) = f[D.count]
<1> DEFINE N == D.count
           First == Expanded(D, << >>, D.init, << >>)
           Next_(x, n) == NextExpanded(D, x, n)
           Is(f, k) == f = [ n \in 0 .. k |-> IF n = 0 THEN First ELSE Next_(f[n - 1], n) ]
           S == { k \in 0 .. N : \E f : Is(f, k) }
           h == CHOOSE f : Is(f, N)
<1>0. N \in Nat
  OBVIOUS
<1>5. Walked(D) = h[N]
  BY DEF Walked
<1> HIDE DEF First, Next_, N
<1>1. 0 \in S
  <2> DEFINE e == [ n \in 0 .. 0 |-> First ]
  <2>1. \A n \in 0 .. 0 : n = 0
    OBVIOUS
  <2>2. e = [ n \in 0 .. 0 |-> IF n = 0 THEN First ELSE Next_(e[n - 1], n) ]
    BY <2>1
  <2>3. Is(e, 0)
    <3> HIDE DEF e
    <3> QED BY <2>2
  <2> HIDE DEF e, Is
  <2> QED BY <1>0, <2>3
<1>2. ASSUME NEW k \in 0 .. N - 1, k \in S PROVE k + 1 \in S
  <2>1. PICK f : Is(f, k)
    BY <1>2
  <2> DEFINE g == [ n \in 0 .. k + 1 |-> IF n = k + 1 THEN Next_(f[k], k + 1) ELSE f[n] ]
  <2>2. k \in Nat /\ k + 1 \in 0 .. N
    BY <1>0
  <2>3. \A n \in 0 .. k + 1 : g[n] = IF n = 0 THEN First ELSE Next_(g[n - 1], n)
    <3> TAKE n \in 0 .. k + 1
    <3>1. CASE n = k + 1
      <4>1. g[n] = Next_(f[k], k + 1)
        BY <3>1
      <4>2. n # 0 /\ n - 1 \in 0 .. k + 1 /\ n - 1 = k /\ n - 1 # k + 1 /\ g[n - 1] = f[k]
        BY <2>2, <3>1
      <4> HIDE DEF g
      <4> QED BY <3>1, <4>1, <4>2
    <3>2. CASE n # k + 1
      <4>1. n \in 0 .. k /\ g[n] = f[n]
        BY <2>2, <3>2
      <4>2. n # 0 => n - 1 \in 0 .. k + 1 /\ n - 1 # k + 1 /\ g[n - 1] = f[n - 1]
        BY <2>2, <3>2
      <4>3. f[n] = IF n = 0 THEN First ELSE Next_(f[n - 1], n)
        BY <2>1, <4>1
      <4> HIDE DEF g
      <4> QED BY <4>1, <4>2, <4>3
    <3> QED BY <3>1, <3>2
  <2>4. g = [ n \in 0 .. k + 1 |-> g[n] ]
    OBVIOUS
  <2>5. Is(g, k + 1)
    <3> HIDE DEF g
    <3> QED BY <2>3, <2>4
  <2> HIDE DEF g, Is
  <2> QED BY <2>2, <2>5
<1>3. N \in S
  <2> HIDE DEF S
  <2>1. 0 .. N \subseteq S
    BY <1>0, <1>1, <1>2, UpTo
  <2> QED BY <1>0, <2>1
<1>4. Is(h, N)
  <2>1. PICK f : Is(f, N)
    BY <1>3
  <2> HIDE DEF Is
  <2> QED BY <2>1
<1> HIDE DEF h
<1>6. h[0] = First
  BY <1>0, <1>4
<1>7. \A n \in 1 .. N : h[n] = Next_(h[n - 1], n)
  <2> TAKE n \in 1 .. N
  <2>1. n \in 0 .. N /\ n # 0
    BY <1>0
  <2> QED BY <1>4, <2>1
<1> QED BY <1>5, <1>6, <1>7 DEF First, Next_, N

(* What is true of the entries known: each has a word that leads to it,    *)
(* there is one of a state, and the words grow longer.                     *)
Entries(D) == [state : States(D), via : Seq(Symbols)]

EntriesStand(D, k) ==
  /\ k \in Seq(Entries(D))
  /\ \A i \in 1 .. Len(k) :
       /\ RunTo(D, k[i].via, 0) = k[i].state
       /\ Len(k[i].via) >= 1 /\ Len(k[i].via) <= i
       /\ \A j \in 1 .. Len(k) : i < j =>
            k[i].state # k[j].state /\ Len(k[i].via) <= Len(k[j].via)

(* While those one byte behind an entry are added.                         *)
Expanding(D, k, from, via) ==
  /\ EntriesStand(D, k)
  /\ from \in States(D) /\ via \in Seq(Symbols) /\ RunTo(D, via, 0) = from
  /\ Len(via) <= Len(k)
  /\ \A j \in 1 .. Len(k) : Len(k[j].via) <= Len(via) + 1

Extends(k, more) ==
  /\ Len(k) <= Len(more)
  /\ \A i \in 1 .. Len(k) : more[i] = k[i]

HasEntry(k, s) == \E i \in 1 .. Len(k) : k[i].state = s

LEMMA EntryAddedKeeps ==
  ASSUME NEW D, IsDfa(D), NEW k, NEW from, NEW via, Expanding(D, k, from, via), NEW b \in Symbols
  PROVE  /\ Expanding(D, EntryAdded(D, k, from, via, b), from, via)
         /\ Extends(k, EntryAdded(D, k, from, via, b))
         /\ D.next[from][b] # NoState =>
              HasEntry(EntryAdded(D, k, from, via, b), D.next[from][b])
<1> DEFINE to == D.next[from][b]
<1>0. k \in Seq(Entries(D)) /\ Len(k) \in Nat
  BY DEF Expanding, EntriesStand
<1>1. CASE to = NoState \/ \E i \in 1 .. Len(k) : k[i].state = to
  <2>1. EntryAdded(D, k, from, via, b) = k
    BY <1>1 DEF EntryAdded
  <2> QED BY <1>0, <1>1, <2>1 DEF Extends, HasEntry
<1>2. CASE ~ (to = NoState \/ \E i \in 1 .. Len(k) : k[i].state = to)
  <2> DEFINE word == Append(via, b)
             e == [state |-> to, via |-> word]
             more == Append(k, e)
  <2>1. EntryAdded(D, k, from, via, b) = more
    BY <1>2 DEF EntryAdded
  <2>2. /\ word \in Seq(Symbols) /\ Len(word) = Len(via) + 1 /\ Len(via) \in Nat
        /\ RunTo(D, word, 0) = to /\ to \in States(D)
    <3>1. via \in Seq(Symbols) /\ RunTo(D, via, 0) = from /\ from \in States(D)
      BY DEF Expanding
    <3>2. 0 \in 0 .. Len(via) /\ from # NoState
      BY <3>1, DfaAssumption DEF States
    <3>3. RunTo(D, word, 0) = NextState(D, from, b) /\ RunTo(D, word, 0) \in States(D) \cup {NoState}
      BY <3>1, <3>2, AppendRuns
    <3> QED BY <1>2, <3>1, <3>2, <3>3 DEF NextState
  <2>3. e.state = to /\ e.via = word /\ e \in Entries(D)
    BY <2>2 DEF Entries
  <2> HIDE DEF e, word, to
  <2>4. /\ more \in Seq(Entries(D)) /\ Len(more) = Len(k) + 1
        /\ \A i \in 1 .. Len(k) : more[i] = k[i]
        /\ more[Len(k) + 1] = e
    BY <1>0, <2>3
  <2> HIDE DEF more
  <2>5. \A i \in 1 .. Len(more) : i \in 1 .. Len(k) \/ i = Len(k) + 1
    BY <1>0, <2>4
  <2>6. /\ Len(via) <= Len(k) /\ \A j \in 1 .. Len(k) : Len(k[j].via) <= Len(via) + 1
    BY DEF Expanding
  <2>7. \A i \in 1 .. Len(k) :
          /\ RunTo(D, k[i].via, 0) = k[i].state
          /\ Len(k[i].via) >= 1 /\ Len(k[i].via) <= i
          /\ \A j \in 1 .. Len(k) : i < j =>
               k[i].state # k[j].state /\ Len(k[i].via) <= Len(k[j].via)
    BY DEF Expanding, EntriesStand
  <2>8. ASSUME NEW i \in 1 .. Len(more)
        PROVE  /\ RunTo(D, more[i].via, 0) = more[i].state
               /\ Len(more[i].via) >= 1 /\ Len(more[i].via) <= i
               /\ Len(more[i].via) <= Len(via) + 1
    <3>1. CASE i \in 1 .. Len(k)
      BY <2>4, <2>6, <2>7, <3>1
    <3>2. CASE i = Len(k) + 1
      <4>1. more[i].via = word /\ more[i].state = to
        BY <2>3, <2>4, <3>2
      <4> QED BY <1>0, <2>2, <2>6, <3>2, <4>1
    <3> QED BY <2>5, <3>1, <3>2
  <2>9. ASSUME NEW i \in 1 .. Len(more), NEW j \in 1 .. Len(more), i < j
        PROVE  more[i].state # more[j].state /\ Len(more[i].via) <= Len(more[j].via)
    <3>1. i \in 1 .. Len(k) /\ more[i] = k[i]
      BY <1>0, <2>4, <2>9
    <3>2. CASE j \in 1 .. Len(k)
      BY <2>4, <2>7, <2>9, <3>1, <3>2
    <3>3. CASE j = Len(k) + 1
      <4>1. more[j].via = word /\ more[j].state = to
        BY <2>3, <2>4, <3>3
      <4> QED BY <1>2, <2>2, <2>6, <3>1, <4>1
    <3> QED BY <2>5, <3>2, <3>3
  <2>10. EntriesStand(D, more)
    BY <2>4, <2>8, <2>9 DEF EntriesStand
  <2>11. Expanding(D, more, from, via)
    <3>1. from \in States(D) /\ via \in Seq(Symbols) /\ RunTo(D, via, 0) = from
      BY DEF Expanding
    <3>2. Len(via) <= Len(more)
      BY <1>0, <2>2, <2>4, <2>6
    <3> QED BY <2>8, <2>10, <3>1, <3>2 DEF Expanding
  <2>12. Extends(k, more)
    BY <1>0, <2>4 DEF Extends
  <2>13. HasEntry(more, to)
    <3>1. Len(k) + 1 \in 1 .. Len(more) /\ more[Len(k) + 1].state = to
      BY <1>0, <2>3, <2>4
    <3> QED BY <3>1 DEF HasEntry
  <2> QED BY <2>1, <2>11, <2>12, <2>13 DEF to
<1> QED BY <1>1, <1>2

LEMMA BeginsOn ==
  ASSUME NEW k, NEW l, NEW m, Extends(k, l), Extends(l, m),
         Len(k) \in Nat, Len(l) \in Nat, Len(m) \in Nat
  PROVE  /\ Extends(k, m)
         /\ \A s : HasEntry(l, s) => HasEntry(m, s)
<1>1. \A i \in 1 .. Len(k) : i \in 1 .. Len(l)
  BY DEF Extends
<1>2. \A i \in 1 .. Len(l) : i \in 1 .. Len(m)
  BY DEF Extends
<1>3. Extends(k, m)
  BY <1>1 DEF Extends
<1>4. \A s : HasEntry(l, s) => HasEntry(m, s)
  BY <1>2 DEF HasEntry, Extends
<1> QED BY <1>3, <1>4

LEMMA ExpandedKeeps ==
  ASSUME NEW D, IsDfa(D), NEW k, NEW from, NEW via, Expanding(D, k, from, via)
  PROVE  /\ Expanding(D, Expanded(D, k, from, via), from, via)
         /\ Extends(k, Expanded(D, k, from, via))
         /\ \A b \in Symbols : D.next[from][b] # NoState =>
              HasEntry(Expanded(D, k, from, via), D.next[from][b])
<1> DEFINE N == Len(Bytes)
<1>1. PICK f : /\ f[0] = k
               /\ \A n \in 1 .. N : f[n] = EntryAdded(D, f[n - 1], from, via, Bytes[n])
               /\ Expanded(D, k, from, via) = f[N]
  BY ExpandedSteps
<1>2. N \in Nat /\ \A n \in 1 .. N : Bytes[n] \in Symbols
  BY CompiledSetAssumption
<1> DEFINE Holds(n) ==
             /\ Expanding(D, f[n], from, via) /\ Extends(k, f[n])
             /\ \A i \in 1 .. n : D.next[from][Bytes[i]] # NoState =>
                                    HasEntry(f[n], D.next[from][Bytes[i]])
           S == { n \in 0 .. N : Holds(n) }
<1> HIDE DEF N
<1>3. \A l : Expanding(D, l, from, via) => Len(l) \in Nat
  BY DEF Expanding, EntriesStand
<1>4. 0 \in S
  <2>1. Extends(k, k)
    BY <1>3 DEF Extends
  <2> QED BY <1>1, <1>2, <2>1
<1>5. ASSUME NEW n \in 0 .. N - 1, n \in S PROVE n + 1 \in S
  <2>1. n + 1 \in 1 .. N /\ n + 1 \in 0 .. N /\ (n + 1) - 1 = n
    BY <1>2
  <2>2. Holds(n)
    BY <1>5
  <2>3. f[n + 1] = EntryAdded(D, f[n], from, via, Bytes[n + 1]) /\ Bytes[n + 1] \in Symbols
    BY <1>1, <1>2, <2>1
  <2>4. /\ Expanding(D, f[n + 1], from, via) /\ Extends(f[n], f[n + 1])
        /\ D.next[from][Bytes[n + 1]] # NoState => HasEntry(f[n + 1], D.next[from][Bytes[n + 1]])
    BY <2>2, <2>3, EntryAddedKeeps
  <2>5. /\ Extends(k, f[n + 1])
        /\ \A s : HasEntry(f[n], s) => HasEntry(f[n + 1], s)
    BY <1>3, <2>2, <2>4, BeginsOn
  <2>6. \A i \in 1 .. n + 1 : i \in 1 .. n \/ i = n + 1
    BY <2>1
  <2>7. Holds(n + 1)
    BY <2>2, <2>4, <2>5, <2>6
  <2> HIDE DEF Holds
  <2> QED BY <2>1, <2>7
<1>6. 0 .. N \subseteq S
  <2> HIDE DEF S
  <2> QED BY <1>2, <1>4, <1>5, UpTo
<1>7. Holds(N)
  <2> HIDE DEF Holds
  <2> QED BY <1>2, <1>6
<1>8. \A b \in Symbols : \E i \in 1 .. N : Bytes[i] = b
  BY CompiledSetAssumption DEF N
<1> QED BY <1>1, <1>7, <1>8

(* The entries behind an entry, at most one byte longer.                   *)
LeadsOn(D, k, s, depth) ==
  \A b \in Symbols : D.next[s][b] # NoState =>
    \E j \in 1 .. Len(k) : k[j].state = D.next[s][b] /\ Len(k[j].via) <= depth + 1

(* The entries known once so many have been expanded.                      *)
WalkedTo(D, k, n) ==
  /\ EntriesStand(D, k)
  /\ LeadsOn(D, k, D.init, 0)
  /\ \A i \in 1 .. Len(k) : i <= n => LeadsOn(D, k, k[i].state, Len(k[i].via))
  /\ \A i, j \in 1 .. Len(k) : n < i => Len(k[j].via) <= Len(k[i].via) + 1

LEMMA StillLeadsOn ==
  ASSUME NEW D, NEW k, NEW more, Extends(k, more), Len(k) \in Nat, Len(more) \in Nat
  PROVE  \A s, depth : LeadsOn(D, k, s, depth) => LeadsOn(D, more, s, depth)
<1>1. \A i \in 1 .. Len(k) : i \in 1 .. Len(more) /\ more[i] = k[i]
  BY DEF Extends
<1> QED BY <1>1 DEF LeadsOn

LEMMA ExpandedLeadsOn ==
  ASSUME NEW D, IsDfa(D), NEW k, NEW from, NEW via, Expanding(D, k, from, via)
  PROVE  LeadsOn(D, Expanded(D, k, from, via), from, Len(via))
<1> DEFINE l == Expanded(D, k, from, via)
<1>1. Expanding(D, l, from, via)
  BY ExpandedKeeps
<1>2. \A b \in Symbols : D.next[from][b] # NoState => HasEntry(l, D.next[from][b])
  BY ExpandedKeeps
<1> HIDE DEF l
<1>3. \A j \in 1 .. Len(l) : Len(l[j].via) <= Len(via) + 1
  BY <1>1 DEF Expanding
<1>4. LeadsOn(D, l, from, Len(via))
  BY <1>2, <1>3 DEF LeadsOn, HasEntry
<1> QED BY <1>4 DEF l

LEMMA EntriesBegin ==
  ASSUME NEW D, IsDfa(D)
  PROVE  WalkedTo(D, Expanded(D, << >>, D.init, << >>), 0)
<1> DEFINE l == Expanded(D, << >>, D.init, << >>)
<1>1. << >> \in Seq(Symbols) /\ Len(<< >>) = 0 /\ << >> \in Seq(Entries(D))
  OBVIOUS
<1>2. RunTo(D, << >>, 0) = D.init /\ D.init \in States(D)
  <2>0. PICK w \in Seq(Symbols) : w = << >> /\ 0 \in 0 .. Len(w)
    <3>1. 0 \in 0 .. 0
      OBVIOUS
    <3>2. 0 \in 0 .. Len(<< >>)
      BY <1>1, <3>1
    <3> QED BY <1>1, <3>2
  <2>1. StateAfter(D, << >>, 0)[0] = D.init
    BY <2>0, StateAfterSteps
  <2>2. Len(<< >>) - 0 = 0
    OBVIOUS
  <2> QED BY <2>1, <2>2 DEF RunTo, IsDfa
<1>3. Expanding(D, << >>, D.init, << >>)
  BY <1>1, <1>2 DEF Expanding, EntriesStand
<1>4. Expanding(D, l, D.init, << >>)
  BY <1>3, ExpandedKeeps
<1>5. LeadsOn(D, l, D.init, 0)
  BY <1>1, <1>3, ExpandedLeadsOn
<1> HIDE DEF l
<1>6. EntriesStand(D, l) /\ l \in Seq(Entries(D))
      /\ \A j \in 1 .. Len(l) : Len(l[j].via) <= 0 + 1 /\ Len(l[j].via) >= 1
  BY <1>1, <1>4 DEF Expanding, EntriesStand
<1>7. \A j \in 1 .. Len(l) : Len(l[j].via) \in Nat
  BY <1>6 DEF Entries
<1>8. \A i, j \in 1 .. Len(l) : Len(l[j].via) <= Len(l[i].via) + 1
  BY <1>6, <1>7
<1>9. WalkedTo(D, l, 0)
  BY <1>5, <1>6, <1>8 DEF WalkedTo
<1> QED BY <1>9 DEF l

LEMMA EntriesGoOn ==
  ASSUME NEW D, IsDfa(D), NEW n \in Nat, n >= 1, NEW k, WalkedTo(D, k, n - 1)
  PROVE  WalkedTo(D, NextExpanded(D, k, n), n)
<1>0. /\ EntriesStand(D, k) /\ k \in Seq(Entries(D)) /\ Len(k) \in Nat
      /\ LeadsOn(D, k, D.init, 0)
      /\ \A i \in 1 .. Len(k) : i <= n - 1 => LeadsOn(D, k, k[i].state, Len(k[i].via))
      /\ \A i, j \in 1 .. Len(k) : n - 1 < i => Len(k[j].via) <= Len(k[i].via) + 1
  BY DEF WalkedTo, EntriesStand
<1>1. CASE n > Len(k)
  <2>1. NextExpanded(D, k, n) = k
    BY <1>1 DEF NextExpanded
  <2>2. \A i \in 1 .. Len(k) : i <= n - 1 /\ ~ (n < i)
    BY <1>0, <1>1
  <2> QED BY <1>0, <2>1, <2>2 DEF WalkedTo
<1>2. CASE ~ (n > Len(k))
  <2> DEFINE via == k[n].via
             from == k[n].state
             l == Expanded(D, k, from, via)
  <2>1. n \in 1 .. Len(k) /\ NextExpanded(D, k, n) = l
    BY <1>0, <1>2 DEF NextExpanded
  <2>2. k[n] \in Entries(D) /\ via \in Seq(Symbols) /\ from \in States(D) /\ Len(via) \in Nat
    <3>1. k[n] \in Entries(D)
      BY <1>0, <2>1
    <3> QED BY <3>1 DEF Entries
  <2>3. Expanding(D, k, from, via)
    <3>1. RunTo(D, via, 0) = from /\ Len(via) <= n
      BY <1>0, <2>1 DEF EntriesStand
    <3>2. Len(via) <= Len(k)
      BY <1>0, <2>1, <2>2, <3>1
    <3>3. \A j \in 1 .. Len(k) : Len(k[j].via) <= Len(via) + 1
      BY <1>0, <2>1
    <3> HIDE DEF from, via
    <3> QED BY <1>0, <2>2, <3>1, <3>2, <3>3 DEF Expanding
  <2> HIDE DEF l
  <2>4. /\ Expanding(D, l, from, via) /\ Extends(k, l) /\ LeadsOn(D, l, from, Len(via))
    BY <2>3, ExpandedKeeps, ExpandedLeadsOn DEF l
  <2>5. /\ EntriesStand(D, l) /\ l \in Seq(Entries(D)) /\ Len(l) \in Nat
        /\ \A j \in 1 .. Len(l) : Len(l[j].via) <= Len(via) + 1
    <3>1. EntriesStand(D, l) /\ \A j \in 1 .. Len(l) : Len(l[j].via) <= Len(via) + 1
      BY ONLY <2>4 DEF Expanding
    <3>2. l \in Seq(Entries(D))
      BY ONLY <3>1 DEF EntriesStand
    <3> QED BY ONLY <3>1, <3>2
  <2>6. \A s, depth : LeadsOn(D, k, s, depth) => LeadsOn(D, l, s, depth)
    BY <1>0, <2>4, <2>5, StillLeadsOn
  <2>7. /\ Len(k) <= Len(l) /\ \A i \in 1 .. Len(k) : l[i] = k[i]
    BY <2>4 DEF Extends
  <2>8. ASSUME NEW i \in 1 .. Len(l), i <= n
        PROVE  LeadsOn(D, l, l[i].state, Len(l[i].via))
    <3>1. i \in 1 .. Len(k) /\ l[i] = k[i] /\ (i = n \/ i <= n - 1)
      BY <2>1, <2>7, <2>8
    <3>2. CASE i = n
      BY <2>4, <3>1, <3>2
    <3>3. CASE i <= n - 1
      BY <1>0, <2>6, <3>1, <3>3
    <3> QED BY <3>1, <3>2, <3>3
  <2>9. ASSUME NEW i \in 1 .. Len(l), NEW j \in 1 .. Len(l), n < i
        PROVE  Len(l[j].via) <= Len(l[i].via) + 1
    <3>1. n \in 1 .. Len(l) /\ l[n] = k[n]
      BY <1>0, <2>1, <2>5, <2>7
    <3>2. Len(l[n].via) <= Len(l[i].via)
      BY <2>5, <2>9, <3>1 DEF EntriesStand
    <3>3. Len(via) <= Len(l[i].via) /\ Len(l[j].via) <= Len(via) + 1
      BY <2>5, <3>1, <3>2
    <3>4. Len(l[i].via) \in Nat /\ Len(l[j].via) \in Nat
      BY <2>5 DEF Entries
    <3> HIDE DEF via
    <3> QED BY <2>2, <3>3, <3>4
  <2> QED BY <1>0, <2>1, <2>5, <2>6, <2>8, <2>9 DEF WalkedTo
<1> QED BY <1>1, <1>2

(* All of them have been expanded once as many have as there are states.   *)
LEMMA EntriesAreFew ==
  ASSUME NEW D, IsDfa(D), NEW k, EntriesStand(D, k)
  PROVE  Len(k) <= D.count
<1> DEFINE N == Len(k)
           f == [ i \in 1 .. N |-> k[i].state ]
<1>1. N \in Nat /\ D.count \in Nat /\ \A i \in 1 .. N : k[i].state \in States(D)
  <2>1. k \in Seq(Entries(D))
    BY DEF EntriesStand
  <2>2. N \in Nat /\ \A i \in 1 .. N : k[i] \in Entries(D)
    BY <2>1
  <2>3. D.count \in Nat
    BY DEF IsDfa
  <2> HIDE DEF N
  <2> QED BY <2>2, <2>3 DEF Entries
<1>2. \A i, j \in 1 .. N : i # j => k[i].state # k[j].state
  <2> TAKE i \in 1 .. N, j \in 1 .. N
  <2>1. i < j => k[i].state # k[j].state
    BY DEF EntriesStand
  <2>2. j < i => k[i].state # k[j].state
    BY DEF EntriesStand
  <2> QED BY <2>1, <2>2
<1> HIDE DEF N
<1>3. f \in Injection(1 .. N, States(D))
  BY <1>1, <1>2 DEF Injection, IsInjective
<1>4. IsFiniteSet(States(D)) /\ Cardinality(States(D)) = D.count
  <2>1. D.count - 1 \in Int /\ 0 \in Int
    BY <1>1
  <2>2. IsFiniteSet(0 .. D.count - 1)
        /\ Cardinality(0 .. D.count - 1) = IF 0 > D.count - 1 THEN 0 ELSE D.count - 1 - 0 + 1
    BY <2>1, FS_Interval
  <2> QED BY <1>1, <2>2 DEF States
<1>5. IsFiniteSet(1 .. N) /\ Cardinality(1 .. N) = N
  <2>1. IsFiniteSet(1 .. N) /\ Cardinality(1 .. N) = IF 1 > N THEN 0 ELSE N - 1 + 1
    BY <1>1, FS_Interval
  <2> QED BY <1>1, <2>1
<1>6. Cardinality(1 .. N) <= Cardinality(States(D))
  <2> HIDE DEF f
  <2> QED BY <1>3, <1>4, FS_Injection
<1> QED BY <1>4, <1>5, <1>6 DEF N

LEMMA WalkedIs ==
  ASSUME NEW D, IsDfa(D)
  PROVE  WalkedTo(D, Walked(D), D.count) /\ Len(Walked(D)) <= D.count
<1>0. D.count \in Nat
  BY DEF IsDfa
<1>1. PICK f : /\ f[0] = Expanded(D, << >>, D.init, << >>)
               /\ \A n \in 1 .. D.count : f[n] = NextExpanded(D, f[n - 1], n)
               /\ Walked(D) = f[D.count]
  BY <1>0, WalkedSteps
<1> DEFINE S == { n \in 0 .. D.count : WalkedTo(D, f[n], n) }
<1>2. 0 \in S
  BY <1>0, <1>1, EntriesBegin
<1>3. ASSUME NEW n \in 0 .. D.count - 1, n \in S PROVE n + 1 \in S
  <2>1. n + 1 \in 1 .. D.count /\ n + 1 \in 0 .. D.count /\ (n + 1) - 1 = n
        /\ n + 1 \in Nat /\ n + 1 >= 1
    BY <1>0
  <2>2. WalkedTo(D, f[n], n)
    BY <1>3
  <2>3. f[n + 1] = NextExpanded(D, f[n], n + 1)
    BY <1>1, <2>1
  <2>4. PICK m \in Nat : m = n + 1 /\ m >= 1 /\ m - 1 = n
    BY <2>1
  <2>5. WalkedTo(D, NextExpanded(D, f[n], m), m)
    BY <2>2, <2>4, EntriesGoOn
  <2> QED BY <2>1, <2>3, <2>4, <2>5
<1>4. 0 .. D.count \subseteq S
  <2> HIDE DEF S
  <2> QED BY <1>0, <1>2, <1>3, UpTo
<1>5. WalkedTo(D, Walked(D), D.count)
  BY <1>0, <1>1, <1>4
<1>6. Len(Walked(D)) <= D.count
  BY <1>5, EntriesAreFew DEF WalkedTo
<1> QED BY <1>5, <1>6

----------------------------------------------------------------------------
(* The entries are the states that some text that is not empty leads to,   *)
(* each with a word of which none is shorter, and none is longer than      *)
(* there are states.                                                       *)
LEMMA EntriesAreReal ==
  ASSUME NEW D, IsDfa(D), NEW e \in CrossingEntries(D)
  PROVE  /\ e.via \in Seq(Symbols) /\ e.state \in States(D)
         /\ RunTo(D, e.via, 0) = e.state
         /\ Len(e.via) \in 1 .. D.count
<1> DEFINE k == Walked(D)
<1>1. /\ EntriesStand(D, k) /\ Len(k) <= D.count /\ D.count \in Nat
  BY WalkedIs DEF WalkedTo, IsDfa
<1>2. e \in Range(k)
  BY EntriesAreWalked
<1> HIDE DEF k
<1>3. k \in Seq(Entries(D))
  BY <1>1 DEF EntriesStand
<1>4. PICK i \in 1 .. Len(k) : e = k[i]
  BY <1>2, <1>3 DEF Range
<1>5. e \in Entries(D) /\ Len(k) \in Nat
  BY <1>3, <1>4
<1>6. e.via \in Seq(Symbols) /\ e.state \in States(D) /\ Len(e.via) \in Nat
  BY <1>5 DEF Entries
<1>7. RunTo(D, e.via, 0) = e.state /\ Len(e.via) >= 1 /\ Len(e.via) <= i
  BY <1>1, <1>4 DEF EntriesStand
<1> QED BY <1>1, <1>5, <1>6, <1>7

LEMMA EntriesReach ==
  ASSUME NEW D, IsDfa(D), NEW v \in Seq(Symbols), NEW from \in 0 .. Len(v), from # Len(v),
         RunTo(D, v, from) # NoState
  PROVE  \E e \in CrossingEntries(D) : e.state = RunTo(D, v, from) /\ Len(e.via) <= Len(v) - from
<1> DEFINE k == Walked(D)
           N == Len(v) - from
           q == StateAfter(D, v, from)
           Found(n) == \E j \in 1 .. Len(k) : k[j].state = q[n] /\ Len(k[j].via) <= n
           S == { n \in 0 .. N : n # 0 => Found(n) }
<1>1. /\ EntriesStand(D, k) /\ LeadsOn(D, k, D.init, 0) /\ k \in Seq(Entries(D))
      /\ \A i \in 1 .. Len(k) : LeadsOn(D, k, k[i].state, Len(k[i].via))
  <2>1. \A i \in 1 .. Len(k) : i <= D.count
    BY WalkedIs DEF IsDfa, WalkedTo, EntriesStand
  <2> QED BY <2>1, WalkedIs DEF WalkedTo, EntriesStand
<1>2. N \in Nat /\ N # 0
  OBVIOUS
<1>3. q[0] = D.init /\ \A n \in 1 .. N : q[n] = NextState(D, q[n - 1], v[from + n])
                                         /\ v[from + n] \in Symbols
  <2>1. \A n \in 1 .. N : v[from + n] \in Symbols
    <3> TAKE n \in 1 .. N
    <3>1. from + n \in 1 .. Len(v)
      OBVIOUS
    <3> QED BY <3>1
  <2>2. q[0] = D.init /\ \A n \in 1 .. N : q[n] = NextState(D, q[n - 1], v[from + n])
    BY StateAfterSteps
  <2> QED BY <2>1, <2>2
<1>4. \A n \in 0 .. N : q[n] # NoState
  <2>1. q[N] # NoState /\ N \in Nat
    BY <1>2 DEF RunTo
  <2>2. ASSUME NEW n \in 0 .. N, q[n] = NoState PROVE FALSE
    <3>1. \A m \in n .. N : q[m] = NoState
      BY <2>2, DeadStays
    <3>2. N \in n .. N
      BY <1>2
    <3> QED BY <2>1, <3>1, <3>2
  <2> QED BY <2>2
<1> HIDE DEF q, k
<1>5. \A i \in 1 .. Len(k) : Len(k[i].via) \in Nat
  BY <1>1 DEF Entries
<1>6. ASSUME NEW n \in 0 .. N - 1, n # 0 => Found(n) PROVE Found(n + 1)
  <2>1. n + 1 \in 1 .. N /\ (n + 1) - 1 = n /\ n \in 0 .. N /\ n \in Nat
    BY <1>2
  <2>2. PICK b \in Symbols : b = v[from + (n + 1)]
    BY <1>3, <2>1
  <2>3. q[n + 1] = D.next[q[n]][b] /\ q[n + 1] # NoState
    <3>1. q[n + 1] = NextState(D, q[n], b)
      BY <1>3, <2>1, <2>2
    <3>2. q[n] # NoState /\ q[n + 1] # NoState
      <4>1. n + 1 \in 0 .. N
        BY <2>1
      <4> QED BY <1>4, <2>1, <4>1
    <3> QED BY <3>1, <3>2 DEF NextState
  <2>4. CASE n = 0
    <3>1. q[n] = D.init
      BY <1>3, <2>4
    <3>2. \E j \in 1 .. Len(k) : k[j].state = q[n + 1] /\ Len(k[j].via) <= 0 + 1
      BY <1>1, <2>3, <3>1 DEF LeadsOn
    <3> QED BY <2>4, <3>2
  <2>5. CASE n # 0
    <3>1. PICK j \in 1 .. Len(k) : k[j].state = q[n] /\ Len(k[j].via) <= n
      BY <1>6, <2>5
    <3>2. LeadsOn(D, k, q[n], Len(k[j].via))
      BY <1>1, <3>1
    <3>3. PICK m \in 1 .. Len(k) : k[m].state = q[n + 1] /\ Len(k[m].via) <= Len(k[j].via) + 1
      BY ONLY <2>3, <3>2 DEF LeadsOn
    <3>4. Len(k[m].via) <= n + 1
      <4>1. PICK a, c \in Nat : a = Len(k[m].via) /\ c = Len(k[j].via)
        BY <1>5
      <4>2. a <= c + 1 /\ c <= n
        BY ONLY <3>1, <3>3, <4>1
      <4>3. n \in Nat
        BY <2>1
      <4>4. \A x, y, z \in Nat : x <= y + 1 /\ y <= z => x <= z + 1
        BY ONLY TRUE
      <4>5. a <= n + 1
        BY <4>1, <4>2, <4>3, <4>4, Zenon
      <4> QED BY ONLY <4>1, <4>5
    <3> QED BY <3>3, <3>4
  <2> QED BY <2>4, <2>5
<1>7. N \in S
  <2> HIDE DEF Found, N
  <2>1. \A n \in 0 .. N - 1 : n \in S => n + 1 \in S
    <3> TAKE n \in 0 .. N - 1
    <3>1. n + 1 \in 0 .. N
      BY <1>2
    <3> QED BY <1>6, <3>1
  <2>2. 0 \in S
    BY <1>2
  <2> HIDE DEF S
  <2>3. 0 .. N \subseteq S
    BY <1>2, <2>1, <2>2, UpTo
  <2> QED BY <1>2, <2>3
<1>8. PICK j \in 1 .. Len(k) : k[j].state = q[N] /\ Len(k[j].via) <= N
  BY <1>2, <1>7
<1>9. k[j] \in CrossingEntries(D)
  <2>1. k[j] \in Range(k)
    BY <1>1, <1>8 DEF Range
  <2> QED BY <2>1, EntriesAreWalked DEF k
<1>10. q[N] = RunTo(D, v, from)
  BY DEF q, RunTo
<1> QED BY <1>8, <1>9, <1>10

(* What a token read across the beginning of a tail reads of it is the run *)
(* from the state the scan is in there.                                    *)
LEMMA CrossingReads ==
  ASSUME NEW D, Ours(D), NEW v \in Seq(Symbols), NEW tail \in Seq(Symbols),
         NEW o \in 0 .. Len(v) - 1
  PROVE  \A n \in 0 .. Len(tail) :
           StateAfter(D, v \o tail, o)[(Len(v) - o) + n]
             = StateAfter(WithInit(D, RunTo(D, v, o)), tail, 0)[n]
<1> DEFINE L == Len(v)
           K == L - o
           N == Len(tail)
           w == v \o tail
           s == RunTo(D, v, o)
           q == StateAfter(D, w, o)
           r == StateAfter(WithInit(D, s), tail, 0)
           u == [ n \in 0 .. N |-> q[K + n] ]
           t == [ n \in 1 .. N |-> tail[n] ]
<1>1. /\ L \in Nat /\ N \in Nat /\ K \in Nat /\ K >= 1
      /\ w \in Seq(Symbols) /\ Len(w) = L + N /\ o \in 0 .. Len(w) /\ o \in 0 .. L
      /\ Len(w) - o = K + N
  BY ConcatParts
<1>2. \A n \in 1 .. N : q[K + n] = NextState(D, q[K + (n - 1)], tail[n])
  <2> TAKE n \in 1 .. N
  <2>0. K + n \in 1 .. K + N /\ 1 .. Len(w) - o = 1 .. K + N
    <3> HIDE DEF K, N, w
    <3> QED BY <1>1
  <2>1. PICK k \in 1 .. Len(w) - o : k = K + n
    BY <2>0
  <2>2. q[k] = NextState(D, q[k - 1], w[o + k])
    BY <1>1, StateAfterSteps
  <2>3. o + k = L + n /\ k - 1 = K + (n - 1)
    BY <1>1, <2>1
  <2>4. w[L + n] = tail[n]
    BY ConcatParts
  <2> QED BY <2>1, <2>2, <2>3, <2>4
<1>3. q[K + 0] = s
  <2>1. SubSeq(w, 1, L) = v
    <3>1. SubSeq(w, 1, L) \in Seq(Symbols) /\ Len(SubSeq(w, 1, L)) = L
          /\ \A i \in 1 .. L : SubSeq(w, 1, L)[i] = w[i]
      BY <1>1
    <3>2. \A i \in 1 .. L : w[i] = v[i]
      BY ConcatParts
    <3> QED BY <3>1, <3>2, <1>1
  <2>2. PICK e \in 0 .. Len(w) : e = L
    BY <1>1
  <2>3. K \in 0 .. e - o /\ o \in 0 .. e
    BY <1>1, <2>2
  <2>4. StateAfter(D, SubSeq(w, 1, e), o)[K] = StateAfter(D, w, o)[K]
    BY <1>1, <2>3, StateAfterInPrefix
  <2>5. K + 0 = K
    BY <1>1
  <2> QED BY <2>1, <2>2, <2>4, <2>5 DEF RunTo
<1>4. r[0] = s /\ \A n \in 1 .. N : r[n] = NextState(D, r[n - 1], tail[n])
  <2>1. PICK E : E = WithInit(D, s)
    OBVIOUS
  <2>2. E.init = s /\ E.next = D.next
    BY <2>1, OursAreCompiled
  <2>3. PICK z \in 0 .. Len(tail) : z = 0
    OBVIOUS
  <2>4. /\ StateAfter(E, tail, z)[0] = E.init
        /\ \A n \in 1 .. N - z : StateAfter(E, tail, z)[n]
                              = NextState(E, StateAfter(E, tail, z)[n - 1], tail[z + n])
    BY StateAfterSteps
  <2>5. \A x, a : NextState(E, x, a) = NextState(D, x, a)
    BY <2>2 DEF NextState
  <2>6. N - z = N /\ \A n \in 1 .. N : z + n = n
    BY <1>1, <2>3
  <2> QED BY <2>1, <2>2, <2>3, <2>4, <2>5, <2>6
<1>5. /\ u[0] = s
      /\ \A n \in 1 .. N : u[n] = NextState(D, u[n - 1], tail[n]) /\ t[n] = tail[n]
  <2>1. 0 \in 0 .. N /\ \A n \in 1 .. N : n \in 0 .. N /\ n - 1 \in 0 .. N
    BY <1>1
  <2> HIDE DEF q, s, K, N
  <2> QED BY <1>2, <1>3, <2>1
<1>6. \A n \in 0 .. N : u[n] = q[K + n]
  OBVIOUS
<1> HIDE DEF q, r, u, t, s, K, N
<1>7. \A n \in 0 .. N : u[n] = r[n]
  <2>1. IsRun(D, N, u, t)
    BY <1>5 DEF IsRun
  <2>2. IsRun(D, N, r, t)
    BY <1>4, <1>5 DEF IsRun
  <2>3. u[0] = r[0]
    BY <1>4, <1>5
  <2> QED BY <1>1, <2>1, <2>2, <2>3, RunsAgree
<1> QED BY <1>6, <1>7 DEF q, r, s, K, N

LEMMA CrossingRun ==
  ASSUME NEW D, Ours(D), NEW v \in Seq(Symbols), NEW tail \in Seq(Symbols),
         NEW o \in 0 .. Len(v) - 1, NEW p \in 0 .. Len(tail)
  PROVE  /\ p \in MaximalRun(D, RunTo(D, v, o), tail, 0)
              <=> /\ MatchLengths(D, v \o tail, o) # {}
                  /\ AfterTokenAt(D, v \o tail, o) = Len(v) + p
         /\ p \in MaximalRun(D, RunTo(D, v, o), tail, 0) => RunTo(D, v, o) # NoState
<1> DEFINE L == Len(v)
           K == L - o
           N == Len(tail)
           w == v \o tail
           s == RunTo(D, v, o)
           q == StateAfter(D, w, o)
           r == StateAfter(WithInit(D, s), tail, 0)
           M == MatchLengths(D, w, o)
           A == Accepts(D, s, tail, 0)
<1>1. /\ L \in Nat /\ N \in Nat /\ K \in Nat /\ K >= 1 /\ L = o + K /\ o \in Nat
      /\ w \in Seq(Symbols) /\ Len(w) = L + N /\ o \in 0 .. Len(w) /\ o \in 0 .. L
      /\ Len(w) - o = K + N
  BY ConcatParts
<1>2. \A n \in 0 .. N : q[K + n] = r[n]
  BY CrossingReads
<1>3. \A n : n \in M <=> n \in 1 .. K + N /\ q[n] # NoState /\ D.accept[q[n]] # NoToken
  BY <1>1 DEF MatchLengths
<1>4. \A n : n \in A <=> n \in 0 .. N /\ r[n] # NoState /\ D.accept[r[n]] # NoToken
  <2>1. N - 0 = N
    BY <1>1
  <2> QED BY <2>1 DEF Accepts, Accepting
<1>5. /\ A \subseteq 0 .. N
      /\ M \subseteq 1 .. K + N
      /\ \A n \in 0 .. N : n \in A <=> K + n \in M
  <2> HIDE DEF q, r, M, A, K, N
  <2>1. \A n \in 0 .. N : K + n \in 1 .. K + N
    BY <1>1
  <2> QED BY <1>2, <1>3, <1>4, <2>1
<1>6. ASSUME p \in MaximalRun(D, s, tail, 0)
      PROVE  M # {} /\ AfterTokenAt(D, w, o) = L + p
  <2>0. PICK z \in 0 .. Len(tail) : z = 0
    OBVIOUS
  <2>1. p \in A /\ \A f \in A : f <= p
    <3>1. PICK n \in Accepts(D, s, tail, z) :
            p = z + n /\ \A f \in Accepts(D, s, tail, z) : f <= n
      BY <1>6, <2>0, MaximalRunIs
    <3>2. n \in 0 .. N
      BY <1>5, <2>0, <3>1
    <3>3. p = n
      BY <2>0, <3>1, <3>2
    <3> QED BY <2>0, <3>1, <3>3
  <2> HIDE DEF M, A, K, N, L
  <2>2. K + p \in M
    BY <1>5, <2>1
  <2>3. ASSUME NEW k \in M PROVE k <= K + p
    <3>1. k \in 1 .. K + N
      BY <1>5
    <3>2. CASE k < K
      BY <1>1, <3>1, <3>2
    <3>3. CASE ~ (k < K)
      <4>1. PICK n \in 0 .. N : k = K + n
        <5>1. k - K \in 0 .. N /\ k = K + (k - K)
          BY <1>1, <3>1, <3>3
        <5> QED BY <5>1
      <4>2. n \in A
        BY <1>5, <4>1
      <4>3. n <= p
        BY <2>1, <4>2
      <4> QED BY <1>1, <4>1, <4>3
    <3> QED BY <3>2, <3>3
  <2>4. PICK m \in M : m = K + p
    BY <2>2
  <2>5. LongestMatch(D, w, o) = m
    <3>1. m \in MatchLengths(D, w, o) /\ \A k \in MatchLengths(D, w, o) : k <= m
      BY <2>3, <2>4 DEF M
    <3> QED BY <1>1, <3>1, LongestIs
  <2>6. o + (K + p) = L + p
    BY <1>1
  <2> QED BY <2>4, <2>5, <2>6 DEF AfterTokenAt
<1>7. ASSUME M # {}, AfterTokenAt(D, w, o) = L + p
      PROVE  p \in MaximalRun(D, s, tail, 0) /\ s # NoState
  <2>1. /\ LongestMatch(D, w, o) \in M
        /\ \A m \in M : m <= LongestMatch(D, w, o)
    BY <1>1, <1>7, LongestMatchIsLongest
  <2>2. LongestMatch(D, w, o) = K + p
    <3>1. PICK m \in 1 .. K + N : m = LongestMatch(D, w, o)
      BY <1>5, <2>1
    <3>2. o + m = L + p
      BY <1>7, <3>1 DEF AfterTokenAt
    <3> HIDE DEF L, K, N
    <3> QED BY <1>1, <3>1, <3>2
  <2>3. p \in A
    BY <1>5, <2>1, <2>2
  <2>4. \A f \in A : f <= p
    <3> TAKE f \in A
    <3>1. f \in 0 .. N /\ K + f \in M
      BY <1>5
    <3>2. K + f <= K + p
      BY <2>1, <2>2, <3>1
    <3> HIDE DEF K, N
    <3> QED BY <1>1, <3>1, <3>2
  <2>5. p \in MaximalRun(D, s, tail, 0)
    <3>1. PICK z \in 0 .. Len(tail) : z = 0
      OBVIOUS
    <3>2. p \in Accepts(D, s, tail, z) /\ \A f \in Accepts(D, s, tail, z) : f <= p
      BY <2>3, <2>4, <3>1
    <3>3. MaximalRun(D, s, tail, z) = {z + p}
      BY <3>2, MaximalRunIs
    <3>4. z + p = p
      BY <3>1
    <3> QED BY <3>1, <3>3, <3>4
  <2>6. s # NoState
    <3>1. q[K + p] # NoState /\ K + p \in 1 .. K + N
      BY <1>3, <2>1, <2>2
    <3>2. q[K + 0] = r[0] /\ r[0] = s
      <4>1. 0 \in 0 .. N
        BY <1>1
      <4>2. r[0] = s
        <5>1. PICK E : E = WithInit(D, s)
          OBVIOUS
        <5>2. E.init = s
          BY <5>1, OursAreCompiled
        <5>3. PICK z \in 0 .. Len(tail) : z = 0
          OBVIOUS
        <5>4. StateAfter(E, tail, z)[0] = E.init
          BY StateAfterSteps
        <5> QED BY <5>1, <5>2, <5>3, <5>4
      <4> QED BY <1>2, <4>1, <4>2
    <3> HIDE DEF s, r
    <3>3. ASSUME s = NoState PROVE FALSE
      <4>0. K \in 0 .. K + N /\ 0 .. Len(w) - o = 0 .. K + N
        <5> HIDE DEF K, N, w
        <5> QED BY <1>1
      <4>1. PICK m \in 0 .. Len(w) - o : m = K
        BY <4>0
      <4>2. StateAfter(D, w, o)[m] = NoState
        <5>1. K + 0 = m
          BY <1>1, <4>1
        <5> QED BY <3>2, <3>3, <5>1
      <4>3. \A n \in m .. Len(w) - o : StateAfter(D, w, o)[n] = NoState
        BY <1>1, <4>2, DeadStays
      <4>4. K + p \in m .. Len(w) - o
        BY <1>1, <4>1
      <4> QED BY <3>1, <4>3, <4>4
    <3> QED BY <3>3
  <2> QED BY <2>5, <2>6
<1> QED BY <1>6, <1>7

----------------------------------------------------------------------------
(* A scenario stands for a text when the tokens of the text and the tail   *)
(* begin in the tail where the scenario says.                              *)
Repairing(D, text, tail) == text \in Seq(Symbols) /\ Tokenizes(D, text \o tail)

TokenAtTail(D, text, tail, at_) ==
  Len(text) + at_ \in StartsOf(Serial(D, text \o tail))

StandsFor(D, tail, first, text) ==
  \A at_ \in 0 .. Len(tail) - 1 :
    TokenAtTail(D, text, tail, at_) <=> at_ \in Chain(D, tail, first)

(* From where the text is passed, the scan is that of the tail.            *)
LEMMA PassedIsTail ==
  ASSUME NEW D, Ours(D), NEW v \in Seq(Symbols), NEW tail \in Seq(Symbols),
         NEW p \in 0 .. Len(tail), Passes(D, v \o tail, Len(v), 0, Len(v) + p)
  PROVE  p \in Scanned(D, tail) /\ StandsFor(D, tail, p, v)
<1> DEFINE L == Len(v)
           N == Len(tail)
           w == v \o tail
<1>0. IsDfa(D)
  BY OursAreCompiled
<1>1. /\ L \in Nat /\ N \in Nat /\ w \in Seq(Symbols) /\ Len(w) = L + N
      /\ \A x \in 0 .. N : L + x \in L .. Len(w)
  BY ConcatParts
<1>2. /\ SerialFrom(D, w)[L + p].consumed = Len(w)
      /\ \A x \in L .. Len(w) : x \in BeginsFrom(D, w, 0) <=> x \in BeginsFrom(D, w, L + p)
  BY DEF Passes
<1>3. /\ SerialFrom(D, w)[L + p].consumed = L + SerialFrom(D, tail)[p].consumed
      /\ BeginsFrom(D, w, L + p) = { L + b : b \in BeginsFrom(D, tail, p) }
  BY <1>0, SerialShifts
<1>4. p \in Scanned(D, tail)
  <2>1. SerialFrom(D, tail)[p].consumed \in p .. N
    BY <1>0, SerialType
  <2>2. PICK c \in Int : c = SerialFrom(D, tail)[p].consumed
    BY <2>1
  <2>3. L + c = L + N
    BY <1>1, <1>2, <1>3, <2>2
  <2>4. c = N
    BY <1>1, <2>3
  <2> QED BY <2>2, <2>4 DEF Scanned
<1>5. Chain(D, tail, p) = BeginsFrom(D, tail, p)
  BY <1>4, ChainIs
<1>6. \A b \in BeginsFrom(D, tail, p) : b \in Int
  <2>1. \A t \in TokensFrom(D, tail, p) : t.begin \in p .. Len(tail)
    BY <1>0, SerialTiles
  <2> QED BY <2>1 DEF BeginsFrom
<1>7. ASSUME NEW x \in 0 .. N - 1
      PROVE  TokenAtTail(D, v, tail, x) <=> x \in Chain(D, tail, p)
  <2>1. TokenAtTail(D, v, tail, x) <=> L + x \in BeginsFrom(D, w, 0)
    BY StartsOfSerial DEF TokenAtTail
  <2>2. L + x \in L .. Len(w)
    BY <1>1
  <2>3. L + x \in { L + b : b \in BeginsFrom(D, tail, p) } <=> x \in BeginsFrom(D, tail, p)
    <3>1. \A b \in BeginsFrom(D, tail, p) : L + x = L + b => x = b
      BY <1>1, <1>6
    <3> QED BY <3>1
  <2> QED BY <1>2, <1>3, <1>5, <2>1, <2>2, <2>3
<1> QED BY <1>4, <1>7 DEF StandsFor

(* Every text that repairs the tail has its scenario, and an entry that is *)
(* no longer than the text unless the tail can be scanned afresh.          *)
LEMMA TextHasScenario ==
  ASSUME NEW D, Ours(D), NEW tail \in Seq(Symbols), NEW text, Repairing(D, text, tail)
  PROVE  /\ \E first \in FirstBoundaries(D, tail) : StandsFor(D, tail, first, text)
         /\ \/ 0 \in Tokenizing(D, tail)
            \/ \E c \in CompletingCrossings(D, tail) : Len(c.via) <= Len(text)
<1> DEFINE L == Len(text)
           N == Len(tail)
           w == text \o tail
<1>0. IsDfa(D) /\ text \in Seq(Symbols)
  BY OursAreCompiled DEF Repairing
<1>1. /\ L \in Nat /\ N \in Nat /\ w \in Seq(Symbols) /\ Len(w) = L + N
      /\ L \in 0 .. Len(w) /\ 0 \in 0 .. L
  BY <1>0, ConcatParts
<1>2. SerialFrom(D, w)[0].consumed = Len(w)
  BY DEF Repairing, Tokenizes, Serial
<1>3. PICK b : Passes(D, w, L, 0, b)
  <2> HIDE DEF w, L
  <2> QED BY <1>0, <1>1, <1>2, ScanPasses
<1>4. PICK p \in 0 .. N : b = L + p
  <2>1. b \in L .. Len(w)
    BY <1>3 DEF Passes
  <2> HIDE DEF w, L, N
  <2>2. b - L \in 0 .. N /\ b = L + (b - L)
    BY <1>1, <2>1
  <2> QED BY <2>2
<1>5. p \in Scanned(D, tail) /\ StandsFor(D, tail, p, text)
  BY <1>0, <1>3, <1>4, PassedIsTail
<1>6. Tokenizing(D, tail) = Scanned(D, tail)
  BY TokenizingIs
<1>7. CASE b = L
  <2>1. p = 0
    <3> HIDE DEF L, N
    <3> QED BY <1>1, <1>4, <1>7
  <2>2. 0 \in Tokenizing(D, tail)
    BY <1>5, <1>6, <2>1
  <2>3. 0 \in FirstBoundaries(D, tail)
    BY <2>2 DEF FirstBoundaries
  <2> QED BY <1>5, <2>1, <2>2, <2>3
<1>8. CASE b # L
  <2>1. PICK o \in 0 .. L - 1 : MatchLengths(D, w, o) # {} /\ AfterTokenAt(D, w, o) = b
    BY <1>3, <1>8 DEF Passes
  <2>2. p \in MaximalRun(D, RunTo(D, text, o), tail, 0) /\ RunTo(D, text, o) # NoState
    BY <1>0, <1>4, <2>1, CrossingRun
  <2>3. o \in 0 .. L /\ o # L /\ L - o <= L
    BY <1>1
  <2>4. PICK e \in CrossingEntries(D) : e.state = RunTo(D, text, o) /\ Len(e.via) <= L - o
    BY <1>0, <2>2, <2>3, EntriesReach
  <2>5. Len(e.via) \in Nat
    BY <1>0, EntriesAreReal
  <2>6. Len(e.via) <= L
    <3> HIDE DEF L
    <3> QED BY <1>1, <2>3, <2>4, <2>5
  <2> DEFINE c == [state |-> e.state, via |-> e.via, boundary |-> p]
  <2>7. p \in MaximalRun(D, e.state, tail, 0) \cap Tokenizing(D, tail)
    BY <1>5, <1>6, <2>2, <2>4
  <2>8. c \in CompletingCrossings(D, tail)
    BY <2>7 DEF CompletingCrossings
  <2>9. c.boundary = p /\ c.via = e.via
    OBVIOUS
  <2> HIDE DEF c
  <2>10. p \in FirstBoundaries(D, tail)
    BY <2>8, <2>9 DEF FirstBoundaries
  <2> QED BY <1>5, <2>6, <2>8, <2>9, <2>10
<1> QED BY <1>7, <1>8

(* Every crossing that completes is that of a text: its shortest word.     *)
LEMMA CrossingHasText ==
  ASSUME NEW D, Ours(D), NEW tail \in Seq(Symbols), NEW c \in CompletingCrossings(D, tail)
  PROVE  /\ Repairing(D, c.via, tail)
         /\ Len(c.via) \in 1 .. D.count /\ c.state \in States(D)
         /\ StandsFor(D, tail, c.boundary, c.via)
<1>0. IsDfa(D)
  BY OursAreCompiled
<1>1. PICK e \in CrossingEntries(D) :
        \E p \in MaximalRun(D, e.state, tail, 0) \cap Tokenizing(D, tail) :
          c = [state |-> e.state, via |-> e.via, boundary |-> p]
  BY DEF CompletingCrossings
<1>a. PICK p \in MaximalRun(D, e.state, tail, 0) \cap Tokenizing(D, tail) :
        c = [state |-> e.state, via |-> e.via, boundary |-> p]
  BY <1>1
<1>2. c.state = e.state /\ c.via = e.via /\ c.boundary = p
  BY <1>a
<1>3. /\ e.via \in Seq(Symbols) /\ e.state \in States(D)
      /\ RunTo(D, e.via, 0) = e.state
      /\ Len(e.via) \in 1 .. D.count
  BY <1>0, EntriesAreReal
<1>4. p \in Scanned(D, tail) /\ p \in 0 .. Len(tail) /\ SerialFrom(D, tail)[p].consumed = Len(tail)
  BY <1>a, TokenizingIs DEF Scanned
<1> DEFINE v == e.via
           L == Len(v)
           w == v \o tail
<1>5. /\ L \in Nat /\ L >= 1 /\ w \in Seq(Symbols) /\ Len(w) = L + Len(tail) /\ Len(tail) \in Nat
      /\ 0 \in 0 .. L - 1 /\ 0 \in 0 .. Len(w)
  BY <1>3, ConcatParts
<1>6. MatchLengths(D, w, 0) # {} /\ AfterTokenAt(D, w, 0) = L + p
  <2>1. PICK o \in 0 .. Len(v) - 1 : o = 0
    BY <1>5
  <2>2. p \in MaximalRun(D, RunTo(D, v, o), tail, 0)
    BY <1>a, <1>3, <2>1
  <2>3. v \in Seq(Symbols)
    BY <1>3
  <2> HIDE DEF v
  <2>4. MatchLengths(D, v \o tail, o) # {} /\ AfterTokenAt(D, v \o tail, o) = Len(v) + p
    BY <1>4, <2>2, <2>3, CrossingRun
  <2> QED BY <2>1, <2>4
<1>7. /\ SerialFrom(D, w)[0].consumed = SerialFrom(D, w)[L + p].consumed
      /\ BeginsFrom(D, w, 0) = {0} \cup BeginsFrom(D, w, L + p)
  <2> HIDE DEF w, L
  <2>1. PICK o \in 0 .. Len(w) : o = 0
    BY <1>5
  <2>2. PICK next : next = AfterTokenAt(D, w, o)
    OBVIOUS
  <2>3. MatchLengths(D, w, o) # {} /\ next = L + p
    BY <1>6, <2>1, <2>2
  <2>4. /\ SerialFrom(D, w)[o].consumed = SerialFrom(D, w)[AfterTokenAt(D, w, o)].consumed
        /\ BeginsFrom(D, w, o) = {o} \cup BeginsFrom(D, w, AfterTokenAt(D, w, o))
    <3>1. w \in Seq(Symbols)
      BY <1>5
    <3> QED BY ONLY ScanSteps, <1>0, <3>1, <2>1, <2>3
  <2>5. next = AfterTokenAt(D, w, o) /\ o = 0 /\ next = L + p
    BY <2>1, <2>2, <2>3
  <2> HIDE DEF w, L
  <2> QED BY ONLY <2>4, <2>5
<1>8. SerialFrom(D, w)[L + p].consumed = Len(w)
  <2>1. SerialFrom(D, w)[L + p].consumed = L + SerialFrom(D, tail)[p].consumed
    <3>1. v \in Seq(Symbols) /\ tail \in Seq(Symbols) /\ p \in 0 .. Len(tail)
      BY <1>3, <1>4
    <3> HIDE DEF v
    <3> QED BY <1>0, <3>1, SerialShifts
  <2> HIDE DEF v, L, w
  <2> QED BY <1>4, <1>5, <2>1
<1>9. Passes(D, w, L, 0, L + p)
  <2>1. L + p \in L .. Len(w)
    BY <1>4, <1>5
  <2>2. \A x \in L .. Len(w) : x # 0
    BY <1>5
  <2> HIDE DEF w, L
  <2> QED BY <1>5, <1>6, <1>7, <1>8, <2>1, <2>2 DEF Passes
<1>10. StandsFor(D, tail, p, v)
  BY <1>3, <1>4, <1>9, PassedIsTail
<1>11. Repairing(D, v, tail)
  BY <1>3, <1>7, <1>8 DEF Repairing, Tokenizes, Serial
<1> QED BY <1>2, <1>3, <1>10, <1>11

(* And nothing is the text of the tail scanned afresh.                     *)
LEMMA FreshHasText ==
  ASSUME NEW D, Ours(D), NEW tail \in Seq(Symbols), 0 \in Tokenizing(D, tail)
  PROVE  Repairing(D, << >>, tail) /\ StandsFor(D, tail, 0, << >>) /\ Len(<< >>) = 0
<1>1. 0 \in Scanned(D, tail)
  BY TokenizingIs
<1>2. << >> \o tail = tail /\ Len(<< >>) = 0 /\ << >> \in Seq(Symbols)
  OBVIOUS
<1>3. Repairing(D, << >>, tail)
  BY <1>1, <1>2 DEF Repairing, Tokenizes, Serial, Scanned
<1>4. Chain(D, tail, 0) = BeginsFrom(D, tail, 0)
  BY <1>1, ChainIs
<1>5. StandsFor(D, tail, 0, << >>)
  <2> SUFFICES ASSUME NEW x \in 0 .. Len(tail) - 1
               PROVE  TokenAtTail(D, << >>, tail, x) <=> x \in Chain(D, tail, 0)
    BY DEF StandsFor
  <2>1. 0 + x = x
    OBVIOUS
  <2>2. StartsOf(Serial(D, tail)) = BeginsFrom(D, tail, 0)
    BY StartsOfSerial
  <2> QED BY <1>2, <1>4, <2>1, <2>2 DEF TokenAtTail
<1> QED BY <1>2, <1>3, <1>5

LEMMA ScenarioHasText ==
  ASSUME NEW D, Ours(D), NEW tail \in Seq(Symbols), NEW first \in FirstBoundaries(D, tail)
  PROVE  \E text : /\ Repairing(D, text, tail) /\ Len(text) <= D.count
                   /\ StandsFor(D, tail, first, text)
<1>0. D.count \in Nat
  BY OursAreCompiled DEF IsDfa
<1>1. ASSUME NEW c \in CompletingCrossings(D, tail), first = c.boundary
      PROVE  \E text : /\ Repairing(D, text, tail) /\ Len(text) <= D.count
                       /\ StandsFor(D, tail, first, text)
  <2>1. /\ Repairing(D, c.via, tail) /\ Len(c.via) \in 1 .. D.count
        /\ StandsFor(D, tail, c.boundary, c.via)
    BY CrossingHasText
  <2>2. Len(c.via) <= D.count
    BY <1>0, <2>1
  <2> QED BY <1>1, <2>1, <2>2
<1>2. ASSUME first = 0, 0 \in Tokenizing(D, tail)
      PROVE  \E text : /\ Repairing(D, text, tail) /\ Len(text) <= D.count
                       /\ StandsFor(D, tail, first, text)
  <2>1. Repairing(D, << >>, tail) /\ StandsFor(D, tail, 0, << >>) /\ Len(<< >>) = 0
    BY <1>2, FreshHasText
  <2>2. Len(<< >>) <= D.count
    BY <1>0, <2>1
  <2> QED BY <1>2, <2>1, <2>2
<1> QED BY <1>1, <1>2 DEF FirstBoundaries

----------------------------------------------------------------------------
(* The shortest repair, of the entries with the shortest words the one     *)
(* with the lowest state.                                                  *)
Before(c, d) ==
  \/ Len(c.via) < Len(d.via)
  \/ Len(c.via) = Len(d.via) /\ c.state <= d.state

LEMMA ShortestOfLowest ==
  ASSUME NEW C, C # {}, \A c \in C : Len(c.via) \in Nat /\ c.state \in Nat
  PROVE  \E c \in C : \A d \in C : Before(c, d)
<1> DEFINE lengths == { Len(c.via) : c \in C }
<1>1. lengths \in SUBSET Nat /\ lengths # {}
  OBVIOUS
<1>2. PICK n \in lengths : \A m \in lengths : n <= m
  <2> HIDE DEF lengths
  <2> QED BY <1>1, LeastNatural
<1> DEFINE states == { c.state : c \in { d \in C : Len(d.via) = n } }
<1>3. states \in SUBSET Nat /\ states # {}
  BY <1>2
<1>4. PICK s \in states : \A t \in states : s <= t
  <2> HIDE DEF states
  <2> QED BY <1>3, LeastNatural
<1>5. PICK c \in C : Len(c.via) = n /\ c.state = s
  BY <1>4
<1>6. ASSUME NEW d \in C PROVE Before(c, d)
  <2>1. n <= Len(d.via) /\ Len(d.via) \in Nat /\ n \in Nat
    BY <1>1, <1>2
  <2>2. CASE Len(d.via) = n
    <3>1. s <= d.state
      BY <1>4, <2>2
    <3> QED BY <1>5, <2>2, <3>1 DEF Before
  <2>3. CASE Len(d.via) # n
    BY <1>5, <2>1, <2>3 DEF Before
  <2> QED BY <2>2, <2>3
<1> QED BY <1>6

LEMMA MinimalRepairIs ==
  ASSUME NEW D, Ours(D), NEW tail \in Seq(Symbols)
  PROVE  /\ \A given \in MinimalRepair(D, tail) :
              /\ Repairing(D, given, tail) /\ Len(given) <= D.count
              /\ \A text : Repairing(D, text, tail) => Len(given) <= Len(text)
         /\ MinimalRepair(D, tail) = {} => \A text : ~ Repairing(D, text, tail)
<1>0. D.count \in Nat
  BY OursAreCompiled DEF IsDfa
<1>1. CASE 0 \in Tokenizing(D, tail)
  <2>1. MinimalRepair(D, tail) = {<< >>}
    BY <1>1 DEF MinimalRepair
  <2>2. Repairing(D, << >>, tail) /\ Len(<< >>) = 0
    BY <1>1, FreshHasText
  <2>3. \A text : Repairing(D, text, tail) => 0 <= Len(text)
    BY DEF Repairing
  <2> QED BY <1>0, <2>1, <2>2, <2>3
<1>2. CASE 0 \notin Tokenizing(D, tail)
  <2> DEFINE C == CompletingCrossings(D, tail)
  <2>1. MinimalRepair(D, tail) = { c.via : c \in { d \in C : \A o \in C : Before(d, o) } }
    BY <1>2 DEF MinimalRepair, Before
  <2>2. \A c \in C : /\ Repairing(D, c.via, tail)
                     /\ Len(c.via) \in 1 .. D.count /\ c.state \in States(D)
    BY CrossingHasText
  <2>3. \A c \in C : Len(c.via) \in Nat /\ Len(c.via) <= D.count /\ c.state \in Nat
    BY <1>0, <2>2 DEF States
  <2>4. \A text : Repairing(D, text, tail) => \E c \in C : Len(c.via) <= Len(text)
    BY <1>2, TextHasScenario
  <2>5. \A text : Repairing(D, text, tail) => Len(text) \in Nat
    BY DEF Repairing
  <2> HIDE DEF C
  <2>6. ASSUME NEW c \in C, \A o \in C : Before(c, o),
               NEW text, Repairing(D, text, tail)
        PROVE  Len(c.via) <= Len(text)
    <3>1. PICK o \in C : Len(o.via) <= Len(text)
      BY <2>4, <2>6
    <3>2. Len(c.via) <= Len(o.via)
      BY <2>3, <2>6 DEF Before
    <3>3. Len(text) \in Nat
      BY <2>5, <2>6
    <3> QED BY <2>3, <3>1, <3>2, <3>3
  <2>7. C # {} => MinimalRepair(D, tail) # {}
    <3> SUFFICES ASSUME C # {} PROVE MinimalRepair(D, tail) # {}
      OBVIOUS
    <3>1. PICK c \in C : \A d \in C : Before(c, d)
      BY <2>3, ShortestOfLowest
    <3> QED BY <2>1, <3>1
  <2>8. MinimalRepair(D, tail) = {} => \A text : ~ Repairing(D, text, tail)
    BY <2>4, <2>7
  <2>9. ASSUME NEW given \in MinimalRepair(D, tail)
        PROVE  /\ Repairing(D, given, tail) /\ Len(given) <= D.count
               /\ \A text : Repairing(D, text, tail) => Len(given) <= Len(text)
    <3>1. PICK c \in C : given = c.via /\ \A o \in C : Before(c, o)
      BY <2>1, <2>9
    <3> QED BY <2>2, <2>3, <2>6, <3>1
  <2> QED BY <2>8, <2>9
<1> QED BY <1>1, <1>2

(* The anchored starts are those of all texts, whatever their length, as   *)
(* long as those as long as there are states are among them.               *)
AreRepairs(D, tail, texts) ==
  /\ \A text \in texts : Repairing(D, text, tail)
  /\ \A text : Repairing(D, text, tail) /\ Len(text) <= D.count => text \in texts

BeginsInAll(D, tail, texts, at_) == \A text \in texts : TokenAtTail(D, text, tail, at_)

LEMMA AnchoredStartIs ==
  ASSUME NEW D, Ours(D), NEW tail \in Seq(Symbols), NEW from \in 0 .. Len(tail), NEW texts,
         AreRepairs(D, tail, texts)
  PROVE  NextAnchoredStart(D, tail, from) =
           IF texts = {} THEN {}
           ELSE FirstOf({ at_ \in { o \in 0 .. Len(tail) - 1 : BeginsInAll(D, tail, texts, o) } :
                            from <= at_ })
<1>1. ASSUME NEW at_ \in 0 .. Len(tail) - 1
      PROVE  (\A first \in FirstBoundaries(D, tail) : at_ \in Chain(D, tail, first))
             <=> BeginsInAll(D, tail, texts, at_)
  <2>1. ASSUME NEW text \in texts
        PROVE  \E first \in FirstBoundaries(D, tail) :
                 TokenAtTail(D, text, tail, at_) <=> at_ \in Chain(D, tail, first)
    <3>1. PICK first \in FirstBoundaries(D, tail) : StandsFor(D, tail, first, text)
      BY TextHasScenario DEF AreRepairs
    <3> QED BY <3>1 DEF StandsFor
  <2>2. ASSUME NEW first \in FirstBoundaries(D, tail)
        PROVE  \E text \in texts :
                 TokenAtTail(D, text, tail, at_) <=> at_ \in Chain(D, tail, first)
    <3>1. PICK text : /\ Repairing(D, text, tail) /\ Len(text) <= D.count
                      /\ StandsFor(D, tail, first, text)
      BY ScenarioHasText
    <3>2. text \in texts
      BY <3>1 DEF AreRepairs
    <3> QED BY <3>1, <3>2 DEF StandsFor
  <2> QED BY <2>1, <2>2 DEF BeginsInAll
<1>2. FirstBoundaries(D, tail) = {} <=> texts = {}
  <2>1. \A text \in texts : FirstBoundaries(D, tail) # {}
    BY TextHasScenario DEF AreRepairs
  <2>2. \A first \in FirstBoundaries(D, tail) : texts # {}
    BY ScenarioHasText DEF AreRepairs
  <2> QED BY <2>1, <2>2
<1>3. { at_ \in from .. Len(tail) - 1 :
          \A first \in FirstBoundaries(D, tail) : at_ \in Chain(D, tail, first) }
      = { at_ \in { o \in 0 .. Len(tail) - 1 : BeginsInAll(D, tail, texts, o) } : from <= at_ }
  <2>1. \A at_ : at_ \in from .. Len(tail) - 1 <=> at_ \in 0 .. Len(tail) - 1 /\ from <= at_
    OBVIOUS
  <2> QED BY <1>1, <2>1
<1> QED BY <1>2, <1>3 DEF NextAnchoredStart

(* What is decided about a tail is decided of the tail the caller has.     *)
TailInv ==
  /\ Asking
  /\ stage \in {"tail", "mended"} => damaged \in Seq(Symbols)
  /\ stage = "mended" =>
       mended = [ repair   |-> MinimalRepair(sim, damaged),
                  anchored |-> [ from \in 0 .. Len(damaged) |->
                                   NextAnchoredStart(sim, damaged, from) ] ]

LEMMA TailBegins ==
  OfflineInit => TailInv
<1> SUFFICES ASSUME OfflineInit PROVE TailInv
  OBVIOUS
<1>1. Asking
  BY OfflineBegins DEF OfflineInv, SearchInv
<1>2. stage # "mended"
  BY DEF OfflineInit, AskOne, AskAudit, AskTail
<1>3. stage = "tail" => damaged \in Tails
  BY DEF OfflineInit, AskOne, AskAudit, AskTail
<1> QED BY <1>1, <1>2, <1>3, OfflineAssumption DEF TailInv

LEMMA AskedRests ==
  ASSUME BoundaryNext
  PROVE  UNCHANGED <<query, sim, other>>
<1>1. SearchNext => UNCHANGED <<query, sim, other>>
  BY DEF SearchNext, WitnessEnds, ReadByte, LeaveOpen, NextKey, Exhausted, Settle, asked
<1>2. ProfileNext => UNCHANGED <<query, sim, other>>
  BY DEF ProfileNext, ProfileAbsent, ProfileFirstGap, ProfileCrossing, ProfileGapAbsent,
         ProfileNextGap, ProfileLastGap, ProfileIs, asked
<1>3. Answer => UNCHANGED <<query, sim, other>>
  BY DEF Answer, asked
<1> QED BY <1>1, <1>2, <1>3 DEF BoundaryNext

LEMMA TailKeeps ==
  TailInv /\ OfflineInv' /\ [OfflineNext]_offlineVars => TailInv'
<1> SUFFICES ASSUME TailInv, OfflineInv', [OfflineNext]_offlineVars PROVE TailInv'
  OBVIOUS
<1>1. Asking'
  BY DEF OfflineInv, SearchInv
<1>2. CASE Mend
  <2>1. UNCHANGED <<sim, damaged>> /\ stage' = "mended" /\ stage = "tail"
    BY <1>2 DEF Mend, searchVars, asked
  <2>2. mended' = [ repair   |-> MinimalRepair(sim, damaged),
                    anchored |-> [ from \in 0 .. Len(damaged) |->
                                     NextAnchoredStart(sim, damaged, from) ] ]
    BY <1>2 DEF Mend
  <2> QED BY <1>1, <2>1, <2>2 DEF TailInv
<1>3. CASE UNCHANGED <<sim, damaged, mended>> /\ (stage' = stage \/ stage' \notin {"tail", "mended"})
  BY <1>1, <1>3 DEF TailInv
<1>4. Search => UNCHANGED <<damaged, mended, stage>>
  BY DEF Search, tailVars
<1>5. Search => UNCHANGED sim
  BY AskedRests DEF Search
<1>6. WalkOn \/ NoWindows \/ WindowsFound \/ WindowSpanDecided =>
        /\ UNCHANGED <<sim, damaged, mended>>
        /\ stage' = stage \/ stage' \notin {"tail", "mended"}
  BY DEF WalkOn, NoWindows, WindowsFound, WindowSpanDecided, searchVars, asked, tailVars
<1>7. ByteSpanDecided => UNCHANGED <<sim, damaged, mended>> /\ stage' = "rescue"
  BY DEF ByteSpanDecided, asked, tailVars
<1>8. UNCHANGED offlineVars => UNCHANGED <<sim, damaged, mended>> /\ stage' = stage
  BY DEF offlineVars, searchVars, asked, tailVars
<1> QED BY <1>2, <1>3, <1>4, <1>5, <1>6, <1>7, <1>8 DEF OfflineNext

(* Among the texts that could stand in place of what is damaged, the       *)
(* answers are those about the ones that repair the tail.                  *)
ExactAmong(texts) ==
  /\ \A from \in DOMAIN mended.anchored :
       mended.anchored[from] =
         IF texts = {} THEN {}
         ELSE FirstOf({ at_ \in { o \in 0 .. Len(damaged) - 1 :
                                    \A text \in texts : TokenBegins(text, o) } :
                          from <= at_ })
  /\ mended.repair \subseteq texts
  /\ mended.repair = {} => texts = {}
  /\ \A given \in mended.repair, text \in texts : Len(given) <= Len(text)

LEMMA MendedAmong ==
  ASSUME TailInv, stage = "mended", NEW texts, AreRepairs(sim, damaged, texts)
  PROVE  ExactAmong(texts)
<1>1. /\ damaged \in Seq(Symbols)
      /\ mended = [ repair   |-> MinimalRepair(sim, damaged),
                    anchored |-> [ from \in 0 .. Len(damaged) |->
                                     NextAnchoredStart(sim, damaged, from) ] ]
  BY DEF TailInv
<1>2. Ours(sim)
  BY DEF TailInv, Asking, Ours
<1>3. /\ mended.repair = MinimalRepair(sim, damaged)
      /\ DOMAIN mended.anchored = 0 .. Len(damaged)
      /\ \A from \in 0 .. Len(damaged) :
           mended.anchored[from] = NextAnchoredStart(sim, damaged, from)
  BY <1>1
<1>4. PICK D : D = sim
  OBVIOUS
<1>5. PICK tail \in Seq(Symbols) : tail = damaged
  BY <1>1
<1>6. AreRepairs(D, tail, texts) /\ Ours(D)
  BY <1>2, <1>4, <1>5
<1>7. ASSUME NEW from \in 0 .. Len(tail)
      PROVE  NextAnchoredStart(D, tail, from) =
               IF texts = {} THEN {}
               ELSE FirstOf({ at_ \in { o \in 0 .. Len(tail) - 1 :
                                          \A text \in texts : TokenBegins(text, o) } :
                                from <= at_ })
  <2>1. NextAnchoredStart(D, tail, from) =
           IF texts = {} THEN {}
           ELSE FirstOf({ at_ \in { o \in 0 .. Len(tail) - 1 : BeginsInAll(D, tail, texts, o) } :
                            from <= at_ })
    BY <1>6, AnchoredStartIs
  <2>2. \A o : BeginsInAll(D, tail, texts, o) <=> \A text \in texts : TokenBegins(text, o)
    BY <1>4, <1>5 DEF BeginsInAll, TokenBegins, TokenAtTail
  <2> QED BY <2>1, <2>2
<1>8. /\ \A given \in MinimalRepair(D, tail) :
           /\ Repairing(D, given, tail) /\ Len(given) <= D.count
           /\ \A text : Repairing(D, text, tail) => Len(given) <= Len(text)
      /\ MinimalRepair(D, tail) = {} => \A text : ~ Repairing(D, text, tail)
  BY <1>6, MinimalRepairIs
<1>9. /\ mended.repair \subseteq texts
      /\ mended.repair = {} => texts = {}
      /\ \A given \in mended.repair, text \in texts : Len(given) <= Len(text)
  <2>1. mended.repair = MinimalRepair(D, tail)
    BY <1>3, <1>4, <1>5
  <2> QED BY <1>6, <1>8, <2>1 DEF AreRepairs
<1> QED BY <1>3, <1>4, <1>5, <1>7, <1>9 DEF ExactAmong

LEMMA MendedIsExact ==
  TailInv => RecoveryIsExact
<1> SUFFICES ASSUME TailInv, stage = "mended" PROVE RecoveryIsExact
  BY DEF RecoveryIsExact
<1>1. sim.count \in Nat
  <2>1. Ours(sim)
    BY DEF TailInv, Asking, Ours
  <2> QED BY <2>1, OursAreCompiled DEF IsDfa
<1>2. \A text : text \in Texts <=> text \in Seq(Symbols) /\ Len(text) <= sim.count
  <2>1. \A text : text \in Texts <=> \E n \in 0 .. sim.count : text \in [1 .. n -> Symbols]
    BY DEF Texts, WordsTo
  <2>2. ASSUME NEW text, NEW n \in 0 .. sim.count, text \in [1 .. n -> Symbols]
        PROVE  text \in Seq(Symbols) /\ Len(text) <= sim.count
    BY <1>1, <2>2
  <2>3. ASSUME NEW text \in Seq(Symbols), Len(text) <= sim.count
        PROVE  Len(text) \in 0 .. sim.count /\ text \in [1 .. Len(text) -> Symbols]
    BY <1>1, <2>3
  <2> QED BY <2>1, <2>2, <2>3
<1>3. AreRepairs(sim, damaged, Repairs)
  BY <1>2 DEF Repairs, Repairing, AreRepairs
<1>4. ExactAmong(Repairs)
  BY <1>3, MendedAmong
<1> QED BY <1>4 DEF ExactAmong, RecoveryIsExact

(* What is decided about a tail whose beginning is damaged is the truth    *)
(* about every text, no longer than there are states, that could stand in  *)
(* its place: a position is answered just if all the texts that repair the *)
(* tail begin a token there and none before it does in all of them, and    *)
(* the repair given is a shortest one (recovery.hpp 13-25, 48-52).         *)
THEOREM RecoveriesAreExact == OfflineSpec => []RecoveryIsExact
<1> QED BY OfflineBegins, OfflineKeeps, TailBegins, TailKeeps, MendedIsExact, PTL DEF OfflineSpec

(* And it is the truth about the texts of any length: nothing that a       *)
(* longer text does is missed by looking no further than there are states. *)
RepairsOfAnyLength == { text \in Seq(Symbols) : Tokenizes(sim, text \o damaged) }

ExactAtAnyLength == stage = "mended" => ExactAmong(RepairsOfAnyLength)

THEOREM RecoveriesAtAnyLength == OfflineSpec => []ExactAtAnyLength
<1>1. AreRepairs(sim, damaged, RepairsOfAnyLength)
  BY DEF AreRepairs, Repairing, RepairsOfAnyLength
<1>2. TailInv => ExactAtAnyLength
  BY <1>1, MendedAmong DEF ExactAtAnyLength
<1> QED BY <1>2, OfflineBegins, OfflineKeeps, TailBegins, TailKeeps, PTL DEF OfflineSpec

----------------------------------------------------------------------------
(* The peeling of the region behind an accept, round by round.             *)
DepthOf(D, resolved, s) ==
  1 + Max({0} \cup { d[2] : d \in { e \in resolved : e[1] \in NonacceptingSuccessors(D, s) } })

Peeled(D, region, resolved) ==
  LET known == { d[1] : d \in resolved }
  IN resolved \cup { <<s, DepthOf(D, resolved, s)>> :
                       s \in { r \in region \ known : NonacceptingSuccessors(D, r) \subseteq known } }

Depths(D, region) ==
  LET depths[round \in 0 .. Cardinality(region)] ==
        IF round = 0 THEN {} ELSE Peeled(D, region, depths[round - 1])
  IN depths[Cardinality(region)]

LEMMA LagIsPeeled ==
  ASSUME NEW D
  PROVE  Lag(D) =
           IF { d[1] : d \in Depths(D, PostAcceptRegion(D)) } # PostAcceptRegion(D) THEN Unbounded
           ELSE Max({0} \cup { d[2] : d \in Depths(D, PostAcceptRegion(D)) })
BY DEF Lag, Depths, Peeled, DepthOf

LEMMA DepthsSteps ==
  ASSUME NEW D, NEW region, Cardinality(region) \in Nat
  PROVE  \E f : /\ f[0] = {}
                /\ \A n \in 1 .. Cardinality(region) : f[n] = Peeled(D, region, f[n - 1])
                /\ Depths(D, region) = f[Cardinality(region)]
<1> DEFINE N == Cardinality(region)
           First == {}
           Next_(x, n) == Peeled(D, region, x)
           Is(f, k) == f = [ n \in 0 .. k |-> IF n = 0 THEN First ELSE Next_(f[n - 1], n) ]
           S == { k \in 0 .. N : \E f : Is(f, k) }
           h == CHOOSE f : Is(f, N)
<1>0. N \in Nat
  OBVIOUS
<1>5. Depths(D, region) = h[N]
  BY DEF Depths
<1> HIDE DEF First, Next_, N
<1>1. 0 \in S
  <2> DEFINE e == [ n \in 0 .. 0 |-> First ]
  <2>1. \A n \in 0 .. 0 : n = 0
    OBVIOUS
  <2>2. e = [ n \in 0 .. 0 |-> IF n = 0 THEN First ELSE Next_(e[n - 1], n) ]
    BY <2>1
  <2>3. Is(e, 0)
    <3> HIDE DEF e
    <3> QED BY <2>2
  <2> HIDE DEF e, Is
  <2> QED BY <1>0, <2>3
<1>2. ASSUME NEW k \in 0 .. N - 1, k \in S PROVE k + 1 \in S
  <2>1. PICK f : Is(f, k)
    BY <1>2
  <2> DEFINE g == [ n \in 0 .. k + 1 |-> IF n = k + 1 THEN Next_(f[k], k + 1) ELSE f[n] ]
  <2>2. k \in Nat /\ k + 1 \in 0 .. N
    BY <1>0
  <2>3. \A n \in 0 .. k + 1 : g[n] = IF n = 0 THEN First ELSE Next_(g[n - 1], n)
    <3> TAKE n \in 0 .. k + 1
    <3>1. CASE n = k + 1
      <4>1. g[n] = Next_(f[k], k + 1)
        BY <3>1
      <4>2. n # 0 /\ n - 1 \in 0 .. k + 1 /\ n - 1 = k /\ n - 1 # k + 1 /\ g[n - 1] = f[k]
        BY <2>2, <3>1
      <4> HIDE DEF g
      <4> QED BY <3>1, <4>1, <4>2
    <3>2. CASE n # k + 1
      <4>1. n \in 0 .. k /\ g[n] = f[n]
        BY <2>2, <3>2
      <4>2. n # 0 => n - 1 \in 0 .. k + 1 /\ n - 1 # k + 1 /\ g[n - 1] = f[n - 1]
        BY <2>2, <3>2
      <4>3. f[n] = IF n = 0 THEN First ELSE Next_(f[n - 1], n)
        BY <2>1, <4>1
      <4> HIDE DEF g
      <4> QED BY <4>1, <4>2, <4>3
    <3> QED BY <3>1, <3>2
  <2>4. g = [ n \in 0 .. k + 1 |-> g[n] ]
    OBVIOUS
  <2>5. Is(g, k + 1)
    <3> HIDE DEF g
    <3> QED BY <2>3, <2>4
  <2> HIDE DEF g, Is
  <2> QED BY <2>2, <2>5
<1>3. N \in S
  <2> HIDE DEF S
  <2>1. 0 .. N \subseteq S
    BY <1>0, <1>1, <1>2, UpTo
  <2> QED BY <1>0, <2>1
<1>4. Is(h, N)
  <2>1. PICK f : Is(f, N)
    BY <1>3
  <2> HIDE DEF Is
  <2> QED BY <2>1
<1> HIDE DEF h
<1>6. h[0] = First
  BY <1>0, <1>4
<1>7. \A n \in 1 .. N : h[n] = Next_(h[n - 1], n)
  <2> TAKE n \in 1 .. N
  <2>1. n \in 0 .. N /\ n # 0
    BY <1>0
  <2> QED BY <1>4, <2>1
<1> QED BY <1>5, <1>6, <1>7 DEF First, Next_, N

LEMMA GreatestOfDepths ==
  ASSUME NEW N \in Nat, NEW S \in SUBSET (0 .. N)
  PROVE  /\ Max({0} \cup S) \in 0 .. N
         /\ \A x \in S : x <= Max({0} \cup S)
<1> DEFINE T == {0} \cup S
<1>1. T \in SUBSET (0 .. N) /\ T # {}
  OBVIOUS
<1> HIDE DEF T
<1>2. PICK n \in T : \A m \in T : m <= n
  BY <1>1, GreatestUpTo
<1>3. \A y \in T : n >= y
  BY <1>1, <1>2
<1>4. Max(T) \in T /\ \A y \in T : Max(T) >= y
  BY <1>3 DEF Max
<1>5. Max(T) \in 0 .. N /\ \A x \in T : x <= Max(T)
  BY <1>1, <1>4
<1> QED BY <1>5 DEF T

DepthsUpTo(resolved, n) == \A d \in resolved : d[2] \in 1 .. n

LEMMA PeeledDeeper ==
  ASSUME NEW D, NEW region, NEW resolved, NEW n \in Nat, DepthsUpTo(resolved, n)
  PROVE  DepthsUpTo(Peeled(D, region, resolved), n + 1)
<1>1. ASSUME NEW s
      PROVE  DepthOf(D, resolved, s) \in 1 .. n + 1
  <2> DEFINE S == { d[2] : d \in { e \in resolved : e[1] \in NonacceptingSuccessors(D, s) } }
  <2>1. S \in SUBSET (0 .. n)
    BY DEF DepthsUpTo
  <2>2. DepthOf(D, resolved, s) = 1 + Max({0} \cup S)
    BY DEF DepthOf
  <2> HIDE DEF S
  <2>3. Max({0} \cup S) \in 0 .. n
    BY <2>1, GreatestOfDepths
  <2> QED BY <2>2, <2>3
<1>2. ASSUME NEW d \in Peeled(D, region, resolved)
      PROVE  d[2] \in 1 .. n + 1
  <2>1. CASE d \in resolved
    BY <2>1 DEF DepthsUpTo
  <2>2. CASE d \notin resolved
    <3>1. PICK s : d = <<s, DepthOf(D, resolved, s)>>
      BY <1>2, <2>2 DEF Peeled
    <3>2. d[2] = DepthOf(D, resolved, s)
      BY <3>1
    <3> QED BY <1>1, <3>2
  <2> QED BY <2>1, <2>2
<1> QED BY <1>2 DEF DepthsUpTo

LEMMA DepthsArePositive ==
  ASSUME NEW D, NEW region, Cardinality(region) \in Nat
  PROVE  DepthsUpTo(Depths(D, region), Cardinality(region))
<1> DEFINE N == Cardinality(region)
<1>1. PICK f : /\ f[0] = {}
               /\ \A n \in 1 .. N : f[n] = Peeled(D, region, f[n - 1])
               /\ Depths(D, region) = f[N]
  BY DepthsSteps
<1> DEFINE S == { n \in 0 .. N : DepthsUpTo(f[n], n) }
<1>2. N \in Nat
  OBVIOUS
<1> HIDE DEF N
<1>3. 0 \in S
  BY <1>1, <1>2 DEF DepthsUpTo
<1>4. ASSUME NEW n \in 0 .. N - 1, n \in S PROVE n + 1 \in S
  <2>1. n + 1 \in 1 .. N /\ (n + 1) - 1 = n /\ n \in Nat /\ n + 1 \in 0 .. N
    BY <1>2
  <2>2. f[n + 1] = Peeled(D, region, f[n])
    BY <1>1, <2>1
  <2>3. DepthsUpTo(f[n], n)
    BY <1>4
  <2>4. DepthsUpTo(Peeled(D, region, f[n]), n + 1)
    BY <2>1, <2>3, PeeledDeeper
  <2> QED BY <2>1, <2>2, <2>4
<1>5. 0 .. N \subseteq S
  <2> HIDE DEF S
  <2> QED BY <1>2, <1>3, <1>4, UpTo
<1>6. DepthsUpTo(Depths(D, region), N)
  BY <1>1, <1>2, <1>5
<1> QED BY <1>6 DEF N

(* A token set without lag has no state of that kind.                      *)
LEMMA NoLagNoRegion ==
  ASSUME NEW D, IsDfa(D), Lag(D) = 0
  PROVE  PostAcceptRegion(D) = {}
<1> DEFINE region == PostAcceptRegion(D)
           resolved == Depths(D, region)
<1>1. Cardinality(region) \in Nat
  <2>1. D.count - 1 \in Int /\ 0 \in Int
    BY DEF IsDfa
  <2>2. IsFiniteSet(States(D))
    BY <2>1, FS_Interval DEF States
  <2>3. region \subseteq States(D)
    BY DEF PostAcceptRegion
  <2> HIDE DEF region
  <2> QED BY <2>2, <2>3, FS_Subset, FS_CardinalityType
<1>2. Lag(D) = IF { d[1] : d \in resolved } # region THEN Unbounded
               ELSE Max({0} \cup { d[2] : d \in resolved })
  BY LagIsPeeled
<1> HIDE DEF region
<1>3. DepthsUpTo(resolved, Cardinality(region))
  BY <1>1, DepthsArePositive
<1> HIDE DEF resolved
<1>4. { d[1] : d \in resolved } = region /\ Max({0} \cup { d[2] : d \in resolved }) = 0
  BY <1>2 DEF Unbounded
<1>5. \A d \in resolved : d[2] <= 0
  <2> DEFINE S == { d[2] : d \in resolved }
  <2>1. S \in SUBSET (0 .. Cardinality(region))
    BY <1>1, <1>3 DEF DepthsUpTo
  <2>2. \A x \in S : x <= Max({0} \cup S)
    <3> HIDE DEF S
    <3> QED BY <1>1, <2>1, GreatestOfDepths
  <2> QED BY <1>4, <2>2
<1>6. resolved = {}
  <2>1. \A d \in resolved : d[2] \in 1 .. Cardinality(region)
    BY <1>3 DEF DepthsUpTo
  <2> QED BY <1>1, <1>5, <2>1
<1> QED BY <1>4, <1>6 DEF region

(* The state a scan goes on in behind the end of its longest match is one. *)
LEMMA RescueHasRegion ==
  ASSUME NEW D, IsSimulator(D), NEW w \in Seq(Symbols),
         Complete(Serial(D, w), w), RollsBack(D, Serial(D, w), w)
  PROVE  PostAcceptRegion(D) # {}
<1>0. IsDfa(D)
  BY DEF IsSimulator
<1>1. PICK i \in 1 .. Len(Serial(D, w).stream) :
        LET token == Serial(D, w).stream[i]
            past == token.length + 1
        IN /\ token.begin + past <= Len(w)
           /\ StateAfter(D, w, token.begin)[past] # NoState
  BY DEF RollsBack
<1> DEFINE token == Serial(D, w).stream[i]
<1>2. token \in TokensFrom(D, w, 0)
  BY DEF TokensFrom, Serial
<1>3. /\ token.begin \in 0 .. Len(w) /\ MatchLengths(D, w, token.begin) # {}
      /\ token = TokenAt(D, w, token.begin)
  BY <1>0, <1>2, SerialTiles
<1>4. token.length = LongestMatch(D, w, token.begin)
  BY <1>3 DEF TokenAt
<1>5. /\ token.begin + (token.length + 1) <= Len(w)
      /\ StateAfter(D, w, token.begin)[token.length + 1] # NoState
  BY <1>1
<1> HIDE DEF token
<1>6. PICK from \in 0 .. Len(w) : from = token.begin
  BY <1>3
<1>7. PICK n \in 1 .. Len(w) - from :
        /\ n = LongestMatch(D, w, from)
        /\ n = token.length
        /\ \A m \in MatchLengths(D, w, from) : m <= n
  BY <1>3, <1>4, <1>6, LongestMatchIsLongest
<1> DEFINE q == StateAfter(D, w, from)
<1>8. n + 1 \in 1 .. Len(w) - from /\ (n + 1) - 1 = n /\ n \in 0 .. Len(w) - from
      /\ n \in 0 .. n /\ from + (n + 1) \in 1 .. Len(w)
  BY <1>5, <1>6, <1>7
<1>9. PICK b \in Symbols : b = w[from + (n + 1)]
  BY <1>8
<1>10. q[n] \in D.live /\ Accepting(D, q[n])
  BY <1>3, <1>6, <1>7, <1>8, TokenStatesLive
<1>11. q[n + 1] # NoState /\ q[n + 1] = NextState(D, q[n], b)
  <2>1. q[n + 1] = NextState(D, q[(n + 1) - 1], w[from + (n + 1)])
    BY <1>8, StateAfterSteps
  <2> QED BY <1>5, <1>6, <1>7, <1>8, <1>9, <2>1
<1>12. ~ Accepting(D, q[n + 1])
  <2>1. n + 1 \notin MatchLengths(D, w, from)
    BY <1>7
  <2> QED BY <1>8, <1>11, <2>1 DEF MatchLengths, Accepting
<1> HIDE DEF q
<1>13. q[n] \in States(D) /\ q[n] # NoState
  BY <1>10, LiveStates
<1>14. q[n + 1] = D.next[q[n]][b] /\ q[n + 1] \in States(D)
  <2>1. q[n + 1] = D.next[q[n]][b]
    BY <1>11, <1>13 DEF NextState
  <2>2. D.next[q[n]][b] \in States(D) \cup {NoState}
    BY <1>0, <1>13 DEF IsDfa
  <2> QED BY <1>11, <2>1, <2>2
<1>15. q[n + 1] \in NonacceptingSuccessors(D, q[n])
  BY <1>12, <1>14 DEF NonacceptingSuccessors
<1>16. q[n + 1] \in PostAcceptRegion(D)
  BY <1>10, <1>13, <1>14, <1>15 DEF PostAcceptRegion
<1> QED BY <1>16

----------------------------------------------------------------------------
(* What the searches find about a window, and what its cloud says of it.   *)
LEMMA CertifiedCovers ==
  ASSUME NEW D, IsSimulator(D), NEW w \in Seq(Symbols), Complete(Serial(D, w), w),
         NEW window \in Seq(Symbols), NEW o \in OccurrencesIn(w, window), NEW gap \in Nat,
         CoveredElsewhere(Serial(D, w), o, window, gap)
  PROVE  SplitOrigin(D, window) # gap
<1> SUFFICES ASSUME SplitOrigin(D, window) = gap PROVE FALSE
  OBVIOUS
<1>0. IsDfa(D) /\ Serial(D, w).consumed = Len(w) /\ gap # BeforeWindow
  BY WindowAssumption DEF IsSimulator, Complete
<1> DEFINE length == Len(window)
           final == o + length - 1
<1>1. gap \in 0 .. length - 1
  BY <1>0, CertifiedIsLone
<1>2. o \in 0 .. Len(w) - length /\ SubSeq(w, o + 1, o + length) = window
  BY DEF OccurrencesIn
<1>3. /\ length \in 1 .. Len(w) - o /\ o \in 0 .. Len(w)
      /\ final \in 0 .. Len(w) - 1
  BY <1>1, <1>2
<1>4. o + gap = CoveringAt(D, w, final)
  <2>1. PICK n \in 1 .. Len(w) - o : n = length
    BY <1>3
  <2>2. o + SplitOrigin(D, SubSeq(w, o + 1, o + n)) = CoveringAt(D, w, o + n - 1)
    BY <1>0, <1>2, <1>3, <2>1, CertifiedOrigin
  <2> QED BY <1>2, <2>1, <2>2
<1>5. PICK i \in 1 .. Len(Serial(D, w).stream) :
        LET token == Serial(D, w).stream[i]
            last == o + Len(window) - 1
        IN /\ token.begin <= last /\ last < token.begin + token.length
           /\ token.begin # o + gap
  BY DEF CoveredElsewhere
<1> DEFINE t == Serial(D, w).stream[i]
<1>6. t.begin <= final /\ final < t.begin + t.length /\ t.begin # o + gap
  BY <1>5
<1>7. t \in TokensFrom(D, w, 0)
  BY ONLY i \in 1 .. Len(Serial(D, w).stream) DEF TokensFrom, Serial
<1>8. t = TokenAt(D, w, t.begin)
  BY <1>0, <1>7, SerialTiles
<1> HIDE DEF t, final, length
<1>9. t.length = LongestMatch(D, w, t.begin)
  BY <1>8 DEF TokenAt
<1>10. final < AfterTokenAt(D, w, t.begin)
  BY <1>6, <1>9 DEF AfterTokenAt
<1>11. CoveringAt(D, w, final) = t.begin
  BY <1>0, <1>3, <1>6, <1>7, <1>10, CoveringIsUnique
<1> QED BY <1>4, <1>6, <1>11

LEMMA WindowStarts ==
  ASSUME NEW D, IsSimulator(D), NEW w \in Seq(Symbols), Complete(Serial(D, w), w),
         NEW at_ \in Nat, NEW n \in Int, at_ + n <= Len(w),
         NEW window, window = SubSeq(w, at_ + 1, at_ + n), SplitOrigin(D, window) # BeforeWindow
  PROVE  at_ + SplitOrigin(D, window) \in StartsOf(Serial(D, w))
<1>1. Serial(D, w).consumed = Len(w) /\ SplitOrigin(D, SubSeq(w, at_ + 1, at_ + n)) # BeforeWindow
  BY DEF Complete
<1>2. PICK j \in 1 .. Len(Serial(D, w).stream) :
        Serial(D, w).stream[j].begin = at_ + SplitOrigin(D, SubSeq(w, at_ + 1, at_ + n))
  BY ONLY <1>1, CertifiedWindowBegins, IsSimulator(D), w \in Seq(Symbols), at_ \in Nat, n \in Int,
          at_ + n <= Len(w), Zenon
<1> QED BY <1>2 DEF StartsOf

LEMMA ByteStarts ==
  ASSUME NEW D, IsSimulator(D), NEW w \in Seq(Symbols), Complete(Serial(D, w), w),
         NEW at_ \in 0 .. Len(w) - 1, w[at_ + 1] \in SplitPoints(D, {})
  PROVE  at_ \in StartsOf(Serial(D, w))
<1>1. Serial(D, w).consumed = Len(w)
  BY DEF Complete
<1>2. PICK j \in 1 .. Len(Serial(D, w).stream) : Serial(D, w).stream[j].begin = at_
  <2>1. ASSUME \A j \in 1 .. Len(Serial(D, w).stream) : Serial(D, w).stream[j].begin # at_
        PROVE  FALSE
    BY <1>1, <2>1, CertifiedByteBegins
  <2> QED BY <2>1
<1> QED BY <1>2 DEF StartsOf

LEMMA CertifiedCuts ==
  ASSUME NEW D, IsSimulator(D), NEW w \in Seq(Symbols), Complete(Serial(D, w), w),
         NEW window \in Seq(Symbols), NEW o \in OccurrencesIn(w, window), NEW gap \in Nat,
         ~ IsBoundary(Serial(D, w), w, o + gap)
  PROVE  SplitOrigin(D, window) # gap
<1> SUFFICES ASSUME SplitOrigin(D, window) = gap PROVE FALSE
  OBVIOUS
<1>0. Serial(D, w).consumed = Len(w) /\ gap # BeforeWindow
  BY WindowAssumption DEF Complete
<1>1. /\ o \in 0 .. Len(w) - Len(window) /\ o \in Nat /\ Len(window) \in Int
      /\ o + Len(window) <= Len(w)
      /\ SubSeq(w, o + 1, o + Len(window)) = window
  BY DEF OccurrencesIn
<1>2. PICK n \in Int : n = Len(window)
  BY <1>1
<1>3. o + SplitOrigin(D, window) \in StartsOf(Serial(D, w))
  BY <1>0, <1>1, <1>2, WindowStarts
<1> QED BY <1>3 DEF IsBoundary

LEMMA SliceParts ==
  ASSUME NEW w \in Seq(Symbols), NEW u \in Nat, NEW n \in Nat, n >= 1, u + n <= Len(w)
  PROVE  /\ Len(SubSeq(w, u + 1, u + n)) = n
         /\ SubSeq(w, u + 1, u + n) \in Seq(Symbols)
         /\ \A i \in 1 .. n : SubSeq(w, u + 1, u + n)[i] = w[u + i]
<1>1. PICK a, b \in Int : a = u + 1 /\ b = u + n
  OBVIOUS
<1>2. a \in 1 .. Len(w) /\ b \in 1 .. Len(w) /\ a <= b /\ b - a + 1 = n
  BY <1>1
<1>3. /\ Len(SubSeq(w, a, b)) = b - a + 1
      /\ SubSeq(w, a, b) \in Seq(Symbols)
      /\ \A i \in 1 .. b - a + 1 : SubSeq(w, a, b)[i] = w[a + i - 1]
  BY <1>2
<1>4. \A i \in 1 .. n : a + i - 1 = u + i
  BY <1>1
<1> QED BY <1>1, <1>2, <1>3, <1>4

(* A certificate of the tail is one of every text that repairs it.         *)
LEMMA CertifiedInRepair ==
  ASSUME NEW D, Ours(D), NEW tail \in Seq(Symbols), NEW text, Repairing(D, text, tail),
         NEW from \in 0 .. Len(tail), NEW found \in NextCertified(D, tail, from)
  PROVE  /\ found.start \in Nat /\ from <= found.start
         /\ TokenAtTail(D, text, tail, found.start)
<1> DEFINE L == Len(text)
           w == text \o tail
<1>0. /\ IsSimulator(D) /\ D.split_points = SplitPoints(D, {})
      /\ text \in Seq(Symbols) /\ Complete(Serial(D, w), w)
  BY OursAreCompiled DEF Repairing, Tokenizes, Complete
<1>1. /\ L \in Nat /\ Len(tail) \in Nat /\ w \in Seq(Symbols) /\ Len(w) = L + Len(tail)
      /\ \A i \in 1 .. Len(tail) : w[L + i] = tail[i]
  BY <1>0, ConcatParts
<1>2. PICK at_ \in from .. Len(tail) - 1 :
        /\ tail[at_ + 1] \in D.split_points \/ LengthsAt(D, tail, at_) # {}
        /\ found = CertificateAt(D, tail, at_)
  BY DEF NextCertified
<1> HIDE DEF L, w
<1>3. \A x : TokenAtTail(D, text, tail, x) <=> L + x \in StartsOf(Serial(D, w))
  BY DEF TokenAtTail, L, w
<1>4. CASE tail[at_ + 1] \in D.split_points
  <2>1. found.start = at_
    BY <1>2, <1>4 DEF CertificateAt
  <2>2. PICK u \in 0 .. Len(w) - 1 : u = L + at_
    BY <1>1
  <2>3. w[u + 1] \in SplitPoints(D, {})
    <3>1. at_ + 1 \in 1 .. Len(tail) /\ L + (at_ + 1) = u + 1
      BY <1>1, <2>2
    <3>2. w[L + (at_ + 1)] = tail[at_ + 1]
      BY <1>1, <3>1
    <3> QED BY <1>0, <1>4, <3>1, <3>2
  <2>4. u \in StartsOf(Serial(D, w))
    BY <1>0, <1>1, <2>3, ByteStarts
  <2> QED BY <1>3, <2>1, <2>2, <2>4
<1>5. CASE tail[at_ + 1] \notin D.split_points
  <2> DEFINE lengths == LengthsAt(D, tail, at_)
             n == Least(lengths)
  <2>1. lengths \in SUBSET Nat /\ lengths # {}
    BY <1>2, <1>5, CertificateWalkAssumption DEF LengthsAt
  <2>2. n \in lengths
    <3>1. \E m \in lengths : \A k \in lengths : m <= k
      BY <2>1, LeastNatural
    <3> QED BY <3>1 DEF Least
  <2>3. /\ n \in Int /\ at_ + n <= Len(tail)
        /\ OriginAt(D, tail, at_, n) # BeforeWindow
    <3>1. n \in Nat
      BY <2>1, <2>2
    <3>2. at_ + n <= Len(tail) /\ OriginAt(D, tail, at_, n) # BeforeWindow
      BY <2>2 DEF LengthsAt
    <3> QED BY <3>1, <3>2
  <2>4. found.start = at_ + OriginAt(D, tail, at_, n)
    BY <1>2, <1>5 DEF CertificateAt
  <2> HIDE DEF n, lengths
  <2>5. PICK a \in Nat : a = at_ /\ from <= a /\ a + n <= Len(tail)
    BY <2>3
  <2> DEFINE window == SubSeq(tail, a + 1, a + n)
  <2>6. SplitOrigin(D, window) # BeforeWindow
    BY <2>3, <2>5 DEF OriginAt
  <2>7. n >= 1 /\ SplitOrigin(D, window) \in 0 .. n - 1
    BY <1>0, <2>3, <2>5, <2>6, CertifiedOriginIsInside
  <2> DEFINE origin == SplitOrigin(D, window)
  <2>9. (L + a) + origin \in StartsOf(Serial(D, w))
    <3>1. /\ Len(window) = n /\ window \in Seq(Symbols)
          /\ \A i \in 1 .. n : window[i] = tail[a + i]
      BY <2>3, <2>5, <2>7
    <3> HIDE DEF window
    <3>2. PICK u \in Nat : u = L + a /\ u + n <= Len(w)
      BY <1>1, <2>3, <2>5
    <3> DEFINE other_ == SubSeq(w, u + 1, u + n)
    <3>3. /\ Len(other_) = n /\ other_ \in Seq(Symbols)
          /\ \A i \in 1 .. n : other_[i] = w[u + i]
      <4>1. n \in Nat /\ n >= 1 /\ w \in Seq(Symbols)
        BY <1>1, <2>3, <2>7
      <4> QED BY <3>2, <4>1, SliceParts
    <3>4. \A i \in 1 .. n : w[u + i] = tail[a + i]
      <4> TAKE i \in 1 .. n
      <4>1. a + i \in 1 .. Len(tail) /\ u + i = L + (a + i)
        BY <1>1, <2>3, <2>5, <3>2
      <4> QED BY <1>1, <4>1
    <3>5. window = SubSeq(w, u + 1, u + n)
      <4> HIDE DEF other_
      <4>1. window = other_
        BY <3>1, <3>3, <3>4
      <4> QED BY <4>1 DEF other_
    <3> HIDE DEF other_
    <3>6. u + SplitOrigin(D, window) \in StartsOf(Serial(D, w))
      BY <1>0, <1>1, <2>3, <2>6, <3>2, <3>5, WindowStarts
    <3> QED BY <3>2, <3>6
  <2>10. origin = OriginAt(D, tail, at_, n)
    BY <2>5 DEF OriginAt
  <2>11. origin \in Nat
    BY <2>3, <2>7
  <2> HIDE DEF origin, window
  <2>12. PICK x \in Nat : x = a + origin /\ found.start = x /\ from <= x /\ (L + a) + origin = L + x
    BY <1>1, <2>4, <2>5, <2>10, <2>11
  <2> QED BY <1>3, <2>9, <2>12
<1> QED BY <1>4, <1>5

LEMMA AnchoredByThen ==
  ASSUME NEW D, Ours(D), NEW tail \in Seq(Symbols), FirstBoundaries(D, tail) # {},
         NEW from \in 0 .. Len(tail), NEW found \in NextCertified(D, tail, from),
         found.start < Len(tail)
  PROVE  \E at_ \in NextAnchoredStart(D, tail, from) : at_ <= found.start
<1> DEFINE A == { at_ \in from .. Len(tail) - 1 :
                    \A first \in FirstBoundaries(D, tail) : at_ \in Chain(D, tail, first) }
<1>1. NextAnchoredStart(D, tail, from) = FirstOf(A)
  BY DEF NextAnchoredStart
<1>2. ASSUME NEW first \in FirstBoundaries(D, tail)
      PROVE  /\ found.start \in from .. Len(tail) - 1
             /\ found.start \in Chain(D, tail, first)
  <2>1. PICK text : Repairing(D, text, tail) /\ StandsFor(D, tail, first, text)
    BY ScenarioHasText
  <2>2. /\ found.start \in Nat /\ from <= found.start
        /\ TokenAtTail(D, text, tail, found.start)
    BY <2>1, CertifiedInRepair
  <2>3. found.start \in from .. Len(tail) - 1 /\ found.start \in 0 .. Len(tail) - 1
    BY <2>2
  <2> QED BY <2>1, <2>2, <2>3 DEF StandsFor
<1>3. found.start \in A
  BY <1>2
<1>4. A \in SUBSET Nat
  OBVIOUS
<1> HIDE DEF A
<1>5. PICK n \in A : \A m \in A : n <= m
  BY <1>3, <1>4, LeastNatural
<1>6. n \in FirstOf(A) /\ n <= found.start
  BY <1>3, <1>5 DEF FirstOf
<1> QED BY <1>1, <1>6

----------------------------------------------------------------------------
(* What the callers keep of the answers they were given.                   *)
IsReport(r) ==
  \E byte_span, lag, rescue, windows, window_span, blame :
    r = [ byte_span |-> byte_span, lag |-> lag, rescue |-> rescue,
          windows |-> windows, window_span |-> window_span, blame |-> blame ]

AuditInv ==
  /\ IsReport(report)
  /\ status \in {"not asked", "searching"} => outcome.witness = << >>
  /\ status \in {"not asked", "searching", "settled", "answered"}
  /\ status = "not asked" => query.kind \in {"rescue", "none"}
  /\ query.kind # "profile" => profile = << >>
  /\ stage \in {"rescue", "window span", "reported"} =>
       query.kind = "rescue" /\ report.lag = Lag(sim)
  /\ stage \in {"window span", "reported"} => status = "answered" /\ report.rescue = outcome

WithLag(r, x, y) == [r EXCEPT !.byte_span = x, !.lag = y]

LEMMA LagReported ==
  ASSUME NEW r, IsReport(r), NEW x, NEW y, NEW s, s = WithLag(r, x, y)
  PROVE  IsReport(s) /\ s.lag = y
<1>1. PICK a, b, c, d, e, f :
        r = [ byte_span |-> a, lag |-> b, rescue |-> c,
            windows |-> d, window_span |-> e, blame |-> f ]
  BY DEF IsReport
<1>2. PICK r0 :
        r0 = [r EXCEPT !.byte_span = x]
  OBVIOUS
<1>3. r0 = [ byte_span |-> x, lag |-> b, rescue |-> c,
            windows |-> d, window_span |-> e, blame |-> f ]
  BY <1>1, <1>2
<1>4. PICK r1 :
        r1 = [r0 EXCEPT !.lag = y]
  OBVIOUS
<1>5. r1 = [ byte_span |-> x, lag |-> y, rescue |-> c,
            windows |-> d, window_span |-> e, blame |-> f ]
  BY <1>1, <1>2, <1>3, <1>4
<1>6. s = r1
  BY <1>2, <1>4 DEF WithLag
<1>7. s = [ byte_span |-> x, lag |-> y, rescue |-> c,
            windows |-> d, window_span |-> e, blame |-> f ]
  BY ONLY <1>5, <1>6
<1>8. IsReport(s)
  BY ONLY <1>7 DEF IsReport
<1>9. s.lag = y
  BY ONLY <1>1, <1>7
<1> QED BY <1>8, <1>9

WithRescue(r, x, y) == [r EXCEPT !.rescue = x, !.windows = y]

LEMMA RescueReported ==
  ASSUME NEW r, IsReport(r), NEW x, NEW y, NEW s, s = WithRescue(r, x, y)
  PROVE  IsReport(s) /\ s.rescue = x /\ s.lag = r.lag
<1>1. PICK a, b, c, d, e, f :
        r = [ byte_span |-> a, lag |-> b, rescue |-> c,
            windows |-> d, window_span |-> e, blame |-> f ]
  BY DEF IsReport
<1>2. PICK r0 :
        r0 = [r EXCEPT !.rescue = x]
  OBVIOUS
<1>3. r0 = [ byte_span |-> a, lag |-> b, rescue |-> x,
            windows |-> d, window_span |-> e, blame |-> f ]
  BY <1>1, <1>2
<1>4. PICK r1 :
        r1 = [r0 EXCEPT !.windows = y]
  OBVIOUS
<1>5. r1 = [ byte_span |-> a, lag |-> b, rescue |-> x,
            windows |-> y, window_span |-> e, blame |-> f ]
  BY <1>1, <1>2, <1>3, <1>4
<1>6. s = r1
  BY <1>2, <1>4 DEF WithRescue
<1>7. s = [ byte_span |-> a, lag |-> b, rescue |-> x,
            windows |-> y, window_span |-> e, blame |-> f ]
  BY ONLY <1>5, <1>6
<1>8. IsReport(s)
  BY ONLY <1>7 DEF IsReport
<1>9. s.rescue = x /\ s.lag = r.lag
  BY ONLY <1>1, <1>7
<1> QED BY <1>8, <1>9

LEMMA Rescues ==
  ASSUME IsReport(report)
  PROVE  IsReport(Rescued) /\ Rescued.rescue = outcome /\ Rescued.lag = report.lag
<1>1. PICK r, x, y, s :
        r = report /\ x = outcome /\ y = CertifiedWindows(sim) /\ s = Rescued
  OBVIOUS
<1>2. IsReport(r) /\ s = WithRescue(r, x, y)
  BY ONLY <1>1, IsReport(report) DEF Rescued, WithRescue
<1>3. IsReport(s) /\ s.rescue = x /\ s.lag = r.lag
  BY ONLY <1>2, RescueReported
<1> QED BY ONLY <1>1, <1>3

LEMMA BlameReported ==
  ASSUME NEW r, IsReport(r), NEW x, NEW s,
         s = [r EXCEPT !.blame = x]
  PROVE  IsReport(s) /\ s.rescue = r.rescue /\ s.lag = r.lag
<1>1. PICK a, b, c, d, e, f :
        r = [ byte_span |-> a, lag |-> b, rescue |-> c,
            windows |-> d, window_span |-> e, blame |-> f ]
  BY DEF IsReport
<1>2. PICK r0 :
        r0 = [r EXCEPT !.blame = x]
  OBVIOUS
<1>3. r0 = [ byte_span |-> a, lag |-> b, rescue |-> c,
            windows |-> d, window_span |-> e, blame |-> x ]
  BY <1>1, <1>2
<1>4. s = r0
  BY <1>2
<1> QED BY <1>1, <1>3, <1>4 DEF IsReport

WithSpan(r, x, y) == [r EXCEPT !.window_span = x, !.blame = y]

LEMMA SpanReported ==
  ASSUME NEW r, IsReport(r), NEW x, NEW y, NEW s, s = WithSpan(r, x, y)
  PROVE  IsReport(s) /\ s.rescue = r.rescue /\ s.lag = r.lag
<1>1. PICK a, b, c, d, e, f :
        r = [ byte_span |-> a, lag |-> b, rescue |-> c,
            windows |-> d, window_span |-> e, blame |-> f ]
  BY DEF IsReport
<1>2. PICK r0 :
        r0 = [r EXCEPT !.window_span = x]
  OBVIOUS
<1>3. r0 = [ byte_span |-> a, lag |-> b, rescue |-> c,
            windows |-> d, window_span |-> x, blame |-> f ]
  BY <1>1, <1>2
<1>4. PICK r1 :
        r1 = [r0 EXCEPT !.blame = y]
  OBVIOUS
<1>5. r1 = [ byte_span |-> a, lag |-> b, rescue |-> c,
            windows |-> d, window_span |-> x, blame |-> y ]
  BY <1>1, <1>2, <1>3, <1>4
<1>6. s = r1
  BY <1>2, <1>4 DEF WithSpan
<1>7. s = [ byte_span |-> a, lag |-> b, rescue |-> c,
            windows |-> d, window_span |-> x, blame |-> y ]
  BY ONLY <1>5, <1>6
<1>8. IsReport(s)
  BY ONLY <1>7 DEF IsReport
<1>9. s.rescue = r.rescue /\ s.lag = r.lag
  BY ONLY <1>1, <1>7
<1> QED BY <1>8, <1>9

LEMMA AuditBegins ==
  OfflineInit => AuditInv
<1> SUFFICES ASSUME OfflineInit PROVE AuditInv
  OBVIOUS
<1>1. IsReport(NoReport)
  BY DEF NoReport, IsReport
<1>2. Outcome(<< >>, FALSE).witness = << >>
  BY DEF Outcome
<1>3. CASE AskOne
  <2>1. /\ stage = "one decision" /\ report = NoReport
        /\ outcome = Outcome(<< >>, FALSE) /\ profile = << >>
        /\ status \in {"searching", "settled"}
    BY <1>3 DEF AskOne, BoundaryInit
  <2> QED BY <1>1, <1>2, <2>1 DEF AuditInv
<1>4. CASE AskAudit
  <2>1. /\ stage = "byte span" /\ report = NoReport /\ query.kind = "rescue"
        /\ outcome = Outcome(<< >>, FALSE) /\ profile = << >> /\ status = "not asked"
    BY <1>4 DEF AskAudit, NoSearch
  <2> QED BY <1>1, <1>2, <2>1 DEF AuditInv
<1>5. CASE AskTail
  <2>1. /\ stage = "tail" /\ report = NoReport
        /\ outcome = Outcome(<< >>, FALSE) /\ profile = << >> /\ status = "not asked"
    BY <1>5 DEF AskTail, NoSearch
  <2>2. query.kind = "none"
    BY <1>5 DEF AskTail
  <2> QED BY <1>1, <1>2, <2>1, <2>2 DEF AuditInv
<1> QED BY <1>3, <1>4, <1>5 DEF OfflineInit

(* A search leaves nothing of its own behind but its answer.               *)
LEMMA SearchLeaves ==
  ASSUME BoundaryNext
  PROVE  /\ status \in {"searching", "settled"}
         /\ status' \in {"searching", "settled", "answered"}
         /\ status' = "searching" => \/ outcome' = outcome /\ status = "searching"
                                     \/ outcome' = Outcome(<< >>, FALSE)
         /\ query.kind # "profile" => profile' = profile
<1>1. CASE SearchNext
  <2>1. CASE WitnessEnds \/ Exhausted
    BY <2>1 DEF WitnessEnds, Exhausted, Reading, Settle, verdicts
  <2>2. CASE ReadByte \/ LeaveOpen \/ NextKey
    BY <2>2 DEF ReadByte, LeaveOpen, NextKey, Reading, verdicts
  <2> QED BY <1>1, <2>1, <2>2 DEF SearchNext
<1>2. CASE Answer
  BY <1>2 DEF Answer, verdicts
<1>3. CASE ProfileNext
  <2>1. status = "settled" /\ query.kind = "profile"
    BY <1>3 DEF ProfileNext, ProfileAbsent, ProfileFirstGap, ProfileCrossing, ProfileGapAbsent,
                ProfileNextGap, ProfileLastGap, Profiling
  <2>2. \A given : ProfileIs(given) => status' = "answered"
    BY DEF ProfileIs
  <2>3. \A kind, gap : Begin(kind, gap) =>
          status' \in {"searching", "settled"} /\ outcome' = Outcome(<< >>, FALSE)
    BY DEF Begin
  <2> QED BY <1>3, <2>1, <2>2, <2>3
          DEF ProfileNext, ProfileAbsent, ProfileFirstGap, ProfileCrossing, ProfileGapAbsent,
              ProfileNextGap, ProfileLastGap
<1> QED BY <1>1, <1>2, <1>3 DEF BoundaryNext

LEMMA AuditKeeps ==
  AuditInv /\ OfflineInv /\ [OfflineNext]_offlineVars => AuditInv'
<1> SUFFICES ASSUME AuditInv, OfflineInv, [OfflineNext]_offlineVars PROVE AuditInv'
  OBVIOUS
<1>0. Outcome(<< >>, FALSE).witness = << >>
  BY DEF Outcome
<1>1. CASE Search
  <2>1. BoundaryNext /\ UNCHANGED <<stage, report>>
    BY <1>1 DEF Search
  <2>2. UNCHANGED <<query, sim>>
    BY <2>1, AskedRests
  <2>3. /\ status \in {"searching", "settled"}
        /\ status' \in {"searching", "settled", "answered"}
        /\ status' = "searching" => outcome'.witness = << >>
        /\ query.kind # "profile" => profile' = profile
    BY <1>0, <2>1, SearchLeaves DEF AuditInv
  <2>4. stage \notin {"window span", "reported"}
    BY <2>3 DEF AuditInv
  <2> QED BY <2>1, <2>2, <2>3, <2>4 DEF AuditInv
<1> DEFINE Rests == UNCHANGED <<query, sim, status, outcome, profile>>
<1>2. UNCHANGED searchVars => Rests
  BY DEF searchVars, asked, verdicts
<1>3. CASE ByteSpanDecided
  <2>1. /\ UNCHANGED <<query, sim, profile>> /\ stage' = "rescue" /\ Begin("rescue", 0)
        /\ report' = [report EXCEPT !.byte_span = span, !.lag = Lag(sim)]
        /\ query.kind = "rescue"
    BY <1>3 DEF ByteSpanDecided, asked, verdicts, OfflineInv
  <2>2. status' \in {"searching", "settled"} /\ outcome' = Outcome(<< >>, FALSE)
    BY <2>1 DEF Begin
  <2>3. IsReport(report') /\ report'.lag = Lag(sim)
    <3>1. PICK r, x, y, s : r = report /\ x = span /\ y = Lag(sim) /\ s = report'
      OBVIOUS
    <3>2. IsReport(r) /\ s = WithLag(r, x, y)
      BY ONLY <2>1, <3>1, AuditInv DEF AuditInv, WithLag
    <3>3. IsReport(s) /\ s.lag = y
      BY ONLY <3>2, LagReported
    <3> QED BY ONLY <3>1, <3>3
  <2> QED BY <1>0, <2>1, <2>2, <2>3 DEF AuditInv
<1>4. CASE NoWindows
  <2>1. Rests /\ stage' = "reported" /\ stage = "rescue" /\ status = "answered"
    BY <1>2, <1>4 DEF NoWindows
  <2>2. report' = [Rescued EXCEPT !.blame = Blame(sim)]
    BY <1>4 DEF NoWindows
  <2>3. IsReport(Rescued) /\ Rescued.rescue = outcome /\ Rescued.lag = report.lag
    <3>1. IsReport(report)
      BY DEF AuditInv
    <3> QED BY <3>1, Rescues
  <2>4. IsReport(report') /\ report'.rescue = outcome /\ report'.lag = report.lag
    BY <2>2, <2>3, BlameReported
  <2> QED BY <2>1, <2>4 DEF AuditInv
<1>5. CASE WindowsFound
  <2>1. Rests /\ stage' = "window span" /\ stage = "rescue" /\ status = "answered"
    BY <1>2, <1>5 DEF WindowsFound
  <2>2. report' = Rescued
    BY <1>5 DEF WindowsFound
  <2>3. IsReport(Rescued) /\ Rescued.rescue = outcome /\ Rescued.lag = report.lag
    <3>1. IsReport(report)
      BY DEF AuditInv
    <3> QED BY <3>1, Rescues
  <2> QED BY <2>1, <2>2, <2>3 DEF AuditInv
<1>6. CASE WindowSpanDecided
  <2>1. Rests /\ stage' = "reported" /\ stage = "window span"
    BY <1>2, <1>6 DEF WindowSpanDecided
  <2>2. report' = [report EXCEPT !.window_span = span, !.blame = Blame(sim)]
    BY <1>6 DEF WindowSpanDecided
  <2>3. IsReport(report') /\ report'.rescue = report.rescue /\ report'.lag = report.lag
    <3>1. PICK r, x, y, s : r = report /\ x = span /\ y = Blame(sim) /\ s = report'
      OBVIOUS
    <3>2. IsReport(r) /\ s = WithSpan(r, x, y)
      BY ONLY <2>2, <3>1, AuditInv DEF AuditInv, WithSpan
    <3>3. IsReport(s) /\ s.rescue = r.rescue /\ s.lag = r.lag
      BY ONLY <3>2, SpanReported
    <3> QED BY ONLY <3>1, <3>3
  <2> QED BY <2>1, <2>3 DEF AuditInv
<1>7. CASE Rests /\ report' = report /\ (stage' = stage \/ stage' = "mended")
  BY <1>7 DEF AuditInv
<1>8. WalkOn \/ Mend =>
        UNCHANGED searchVars /\ report' = report /\ (stage' = stage \/ stage' = "mended")
  BY DEF WalkOn, Mend
<1>9. UNCHANGED offlineVars => UNCHANGED searchVars /\ report' = report /\ stage' = stage
  BY DEF offlineVars
<1> HIDE DEF Rests
<1> QED BY <1>1, <1>2, <1>3, <1>4, <1>5, <1>6, <1>7, <1>8, <1>9 DEF OfflineNext

----------------------------------------------------------------------------
LEMMA RescueAgrees ==
  ASSUME OfflineInv, AuditInv, stage = "reported", report.lag = 0
  PROVE  report.rescue.witness = << >>
<1> SUFFICES ASSUME report.rescue.witness # << >> PROVE FALSE
  OBVIOUS
<1>1. /\ query.kind = "rescue" /\ Lag(sim) = 0
      /\ status = "answered" /\ report.rescue = outcome
  BY DEF AuditInv
<1>2. search.kind = "rescue" /\ FoundIs(search.kind, search.gap, outcome)
  BY <1>1 DEF OfflineInv, SearchInv, Searching, Progress
<1>3. PICK w \in Seq(Symbols) : EventOf("rescue", search.gap, w)
  BY <1>1, <1>2 DEF FoundIs
<1>4. Complete(Serial(sim, w), w) /\ RollsBack(sim, Serial(sim, w), w)
  BY <1>3 DEF EventOf, EventIn
<1>5. Ours(sim)
  BY DEF OfflineInv, SearchInv, Asking, Ours
<1>6. IsDfa(sim) /\ IsSimulator(sim)
  BY <1>5, OursAreCompiled
<1> QED BY <1>1, <1>4, <1>6, NoLagNoRegion, RescueHasRegion

LEMMA CoversAgrees ==
  ASSUME OfflineInv, AuditInv, query.kind = "covers", outcome.witness # << >>
  PROVE  SplitOrigin(sim, query.window) # query.gap
<1>1. status \in {"settled", "answered"}
  BY DEF AuditInv
<1>2. /\ search.kind = "covers" /\ search.gap = query.gap
      /\ FoundIs(search.kind, search.gap, outcome)
  BY <1>1 DEF OfflineInv, SearchInv, Searching, Progress, OriginKinds
<1>3. PICK w \in Seq(Symbols) : EventOf("covers", query.gap, w)
  BY <1>2 DEF FoundIs
<1>4. /\ Complete(Serial(sim, w), w)
      /\ \E o \in OccurrencesIn(w, query.window) :
           CoveredElsewhere(Serial(sim, w), o, query.window, query.gap)
  BY <1>3 DEF EventOf, EventIn
<1>5. Ours(sim) /\ query.window \in Seq(Symbols) /\ query.gap \in Nat
  BY DEF OfflineInv, SearchInv, Asking, Ours
<1>6. IsSimulator(sim)
  BY <1>5, OursAreCompiled
<1> QED BY <1>4, <1>5, <1>6, CertifiedCovers

LEMMA ProfileAgrees ==
  ASSUME OfflineInv, AuditInv, NEW g \in DOMAIN profile,
         profile[g].verdict \in {"may", "never"}
  PROVE  SplitOrigin(sim, query.window) # g - 1
<1>1. query.kind = "profile" /\ status \in {"searching", "settled", "answered"}
  <2>1. DOMAIN << >> = {}
    OBVIOUS
  <2>2. profile # << >>
    BY <2>1
  <2> QED BY <2>2 DEF AuditInv
<1>2. Ours(sim) /\ query.window \in Seq(Symbols)
  BY DEF OfflineInv, SearchInv, Asking, Ours
<1>3. g \in Nat /\ g >= 1 /\ GapDecided(profile[g], g - 1)
  <2>1. CASE NeverOccurs /\ profile = AbsentEverywhere
    <3>1. profile[g] = VerdictOn(Proved, Proved)
      BY <2>1 DEF AbsentEverywhere
    <3>2. profile[g].verdict = GapVerdict(Proved, Proved)
      BY <3>1 DEF VerdictOn
    <3>3. GapVerdict(Proved, Proved) = "absent"
      BY DEF GapVerdict, Proved, Outcome
    <3> QED BY <3>2, <3>3
  <2>2. CASE profile = << >>
    BY <2>2
  <2>3. CASE \E n : GapsDecided(profile, n)
    <3>1. PICK n : GapsDecided(profile, n)
      BY <2>3
    <3>2. /\ IsSeq(profile) /\ Len(profile) = n
          /\ \A h \in 1 .. n : GapDecided(profile[h], h - 1)
      BY <3>1 DEF GapsDecided
    <3>3. g \in 1 .. n /\ n \in Nat
      BY <3>2, SeqParts
    <3> QED BY <3>2, <3>3
  <2>4. Profiled /\ Searching
    BY DEF OfflineInv, SearchInv
  <2> QED BY <1>1, <2>1, <2>2, <2>3, <2>4 DEF Profiled
<1>4. PICK crossed, cut :
        /\ profile[g] = VerdictOn(crossed, cut)
        /\ FoundIs("cut", g - 1, crossed)
  BY <1>3 DEF GapDecided
<1>5. crossed.witness # << >>
  <2>1. profile[g].verdict = GapVerdict(crossed, cut)
    BY <1>4 DEF VerdictOn
  <2> QED BY <2>1, GapVerdicts
<1>6. PICK w \in Seq(Symbols) : EventOf("cut", g - 1, w)
  BY <1>4, <1>5 DEF FoundIs
<1>7. PICK o \in OccurrencesIn(w, query.window) :
        Complete(Serial(sim, w), w) /\ ~ IsBoundary(Serial(sim, w), w, o + (g - 1))
  BY <1>6 DEF EventOf, EventIn
<1>8. IsSimulator(sim)
  BY <1>2, OursAreCompiled
<1>9. PICK gap \in Nat : gap = g - 1
  BY <1>3
<1> QED BY <1>2, <1>7, <1>8, <1>9, CertifiedCuts

LEMMA AnchoredAgrees ==
  ASSUME TailInv, stage = "mended", mended.repair # {},
         NEW from \in DOMAIN mended.anchored, NEW found \in NextCertified(sim, damaged, from),
         found.start < Len(damaged)
  PROVE  \E at_ \in mended.anchored[from] : at_ <= found.start
<1>1. /\ damaged \in Seq(Symbols)
      /\ mended.repair = MinimalRepair(sim, damaged)
      /\ DOMAIN mended.anchored = 0 .. Len(damaged)
      /\ \A start \in 0 .. Len(damaged) :
           mended.anchored[start] = NextAnchoredStart(sim, damaged, start)
  BY DEF TailInv
<1>2. Ours(sim)
  BY DEF TailInv, Asking, Ours
<1>3. PICK D : D = sim
  OBVIOUS
<1>4. PICK tail \in Seq(Symbols) : tail = damaged
  BY <1>1
<1>5. FirstBoundaries(D, tail) # {}
  <2>1. PICK given \in MinimalRepair(D, tail) : TRUE
    BY <1>1, <1>3, <1>4
  <2>2. Repairing(D, given, tail)
    BY <1>2, <1>3, MinimalRepairIs
  <2> QED BY <1>2, <1>3, <2>2, TextHasScenario
<1>6. from \in 0 .. Len(tail) /\ found \in NextCertified(D, tail, from) /\ found.start < Len(tail)
  BY <1>1, <1>3, <1>4
<1>7. \E at_ \in NextAnchoredStart(D, tail, from) : at_ <= found.start
  BY <1>2, <1>3, <1>5, <1>6, AnchoredByThen
<1> QED BY <1>1, <1>3, <1>4, <1>6, <1>7

(* No decision denies what another one says: a token set without lag is    *)
(* free of rescues (recovery.hpp 38-39), no input is found to refute a     *)
(* certified window, and the anchored start of a tail that can be repaired *)
(* is no later than any certificate in it (recovery.hpp 18-19).            *)
THEOREM DecisionsNeverDisagree == OfflineSpec => []DecisionsAgree
<1>1. OfflineInv /\ TailInv /\ AuditInv => DecisionsAgree
  BY RescueAgrees, CoversAgrees, ProfileAgrees, AnchoredAgrees DEF DecisionsAgree
<1> QED BY <1>1, OfflineBegins, OfflineKeeps, TailBegins, TailKeeps, AuditBegins, AuditKeeps, PTL
        DEF OfflineSpec
=============================================================================
