--------------------------- MODULE ModeTokenizer ---------------------------
(***************************************************************************)
(* tools::tokenizer::Mode_tokenizer under a driver that reads token after  *)
(* token and, on an error, stops or asks the active mode's lexer for the   *)
(* next certified start.  The modes are switched by the actions of a       *)
(* grammar's tokens or by the caller; between two reads the driver may     *)
(* load an input, reset, seek or set the mode.                             *)
(***************************************************************************)
EXTENDS CertificateWalk, ModeGrammar

CONSTANTS Lexers,       \* [by, modes, dfa, actions]: "grammar" or "caller"
          Inputs,
          Loads,        \* the inputs loaded later
          Nothing,      \* std::nullopt
          MaxMoves      \* the most loads, resets, seeks and set modes

ASSUME ModeTokenizerAssumption ==
  /\ \A given \in Lexers :
       /\ DOMAIN given = {"by", "modes", "dfa", "actions"}
       /\ IsModeLexer(given)
       /\ given.by \in {"grammar", "caller"}
       /\ given.by = "caller" => given.actions = << >>
       /\ DOMAIN given.actions \subseteq Nat
       /\ \A i \in DOMAIN given.actions : EntersItsModes(given, given.actions[i].action)
  /\ Inputs \subseteq Seq(Symbols) /\ Loads \subseteq Inputs
  /\ Nothing \notin [ found : [start : Nat, evidence_begin : Nat, evidence_end : Nat],
                      mode : Nat ]
  /\ MaxMoves \in Nat

VARIABLES
  lexer,            \* compiled: the tables of each mode
  input, offset, stack,
  result,           \* the kind of what next() returned last
  certified,        \* what the recovery since then answered, in which mode
  driver,           \* "reads", "fails", "ends"
  moves,
  straight,         \* nothing but reads since the input was begun
  chosen            \* the mode the driver set last

tokenizer == <<input, offset, stack>>
answers == <<result, certified>>
history == <<straight, chosen>>
vars == <<lexer, tokenizer, answers, driver, moves, history>>

Init ==
  /\ \E given \in Lexers :
       lexer = [given EXCEPT !.dfa = [ m \in DOMAIN given.dfa |-> Simulator(given.dfa[m], {}) ]]
  /\ input \in Inputs
  /\ offset = 0
  /\ stack = FreshStack
  /\ result = "none"
  /\ certified = Nothing
  /\ driver = "reads"
  /\ moves = 0
  /\ straight = TRUE
  /\ chosen = 0

----------------------------------------------------------------------------
current == lexer.dfa[stack.current]

TokenRead(D, w, at) == D.accept[StateAfter(D, w, at)[LongestMatch(D, w, at)]]

(* A token acts where its mode has one that does.                          *)
ActionAt(given, w, mode, at) ==
  IF Acting(given, mode) THEN ActionOf(given, mode, TokenRead(given.dfa[mode], w, at)) ELSE Stay

action == ActionAt(lexer, input, stack.current, offset)

Matched == driver = "reads" /\ MatchLengths(current, input, offset) # {}

NextIsToken ==
  /\ Matched
  /\ Legal(stack, action)
  /\ offset' = offset + LongestMatch(current, input, offset)
  /\ stack' = Apply(stack, action)
  /\ result' = "token"
  /\ certified' = Nothing
  /\ UNCHANGED <<lexer, input, driver, moves, history>>

Fails(kind) ==
  /\ result' = kind
  /\ driver' = "fails"
  /\ UNCHANGED <<lexer, tokenizer, certified, moves, history>>

(* A pop with nothing saved reads as no match, the stack unchanged.        *)
NextIsRefused ==
  /\ Matched
  /\ ~ Legal(stack, action)
  /\ Fails("unrecognized")

(* No token matches, or only the empty one, which takes no action.         *)
NextIsError ==
  /\ driver = "reads"
  /\ offset < Len(input)
  /\ MatchLengths(current, input, offset) = {}
  /\ Fails(IF current.empty = NoState THEN "unrecognized" ELSE "zero_width")

NextIsEnd ==
  /\ driver = "reads"
  /\ offset >= Len(input)
  /\ result' = "end_of_input"
  /\ driver' = "ends"
  /\ UNCHANGED <<lexer, tokenizer, certified, moves, history>>

GiveUp ==
  /\ driver = "fails"
  /\ driver' = "ends"
  /\ UNCHANGED <<lexer, tokenizer, answers, moves, history>>

(* The first mode's lexer asked.                                           *)
AskedFirst == lexer.dfa[0]

(* The lexer of the mode the error was met in.                             *)
Asked == current

(* The search may answer the position that failed.                         *)
RecoveryFromFailure(clean_from) == IF clean_from < offset THEN offset ELSE clean_from

(* Never at the failure itself, and not in bytes that may be damaged.      *)
RecoveryFrom(clean_from) == IF clean_from < offset + 1 THEN offset + 1 ELSE clean_from

(* The mode and the frames stay those of the damaged input.                *)
Recover(clean_from) ==
  /\ driver = "fails"
  /\ \E found \in NextCertified(Asked, input, RecoveryFrom(clean_from)) :
       /\ offset' = found.start
       /\ certified' = [found |-> found, mode |-> stack.current]
  /\ driver' = "reads"
  /\ straight' = FALSE
  /\ UNCHANGED <<lexer, input, stack, result, moves, chosen>>

RecoverFails(clean_from) ==
  /\ driver = "fails"
  /\ NextCertified(Asked, input, RecoveryFrom(clean_from)) = {}
  /\ driver' = "ends"
  /\ UNCHANGED <<lexer, tokenizer, answers, moves, history>>

----------------------------------------------------------------------------
Moved ==
  /\ moves < MaxMoves
  /\ moves' = moves + 1
  /\ certified' = Nothing
  /\ driver' = "reads"

(* The saved frames kept.                                                  *)
RewoundKeepsFrames ==
  IF lexer.by = "grammar" THEN [stack EXCEPT !.current = 0] ELSE stack

(* A grammar's mode is scan state; a caller's is its choice.               *)
Rewound == IF lexer.by = "grammar" THEN FreshStack ELSE stack

Begun(text) ==
  /\ Moved
  /\ input' = text
  /\ offset' = 0
  /\ stack' = Rewound
  /\ straight' = TRUE
  /\ UNCHANGED <<lexer, result, chosen>>

Load(text) == Begun(text)

Reset == Begun(input)

(* Past the end too.                                                       *)
SeekUnclamped(to) ==
  /\ Moved
  /\ offset' = to
  /\ straight' = FALSE
  /\ UNCHANGED <<lexer, input, stack, result, chosen>>

(* Clamped to the end of the input.                                        *)
Seek(to) ==
  /\ Moved
  /\ offset' = IF to < Len(input) THEN to ELSE Len(input)
  /\ straight' = FALSE
  /\ UNCHANGED <<lexer, input, stack, result, chosen>>

(* A mode that no lexer was given for throws.  The frames are left alone.  *)
SetMode(mode) ==
  /\ Moved
  /\ mode < lexer.modes
  /\ stack' = [stack EXCEPT !.current = mode]
  /\ straight' = FALSE
  /\ chosen' = mode
  /\ UNCHANGED <<lexer, input, offset, result>>

(* What the driver does of its own accord, given bounds it may know; those *)
(* up to the failure say nothing.                                          *)
Drive ==
  \/ NextIsToken \/ NextIsRefused \/ NextIsError \/ NextIsEnd
  \/ \E clean_from \in {0} \cup (offset + 2 .. Len(input)) :
       Recover(clean_from) \/ RecoverFails(clean_from)

Next ==
  \/ Drive \/ GiveUp
  \/ \E text \in Loads : Load(text)
  \/ Reset
  \/ \E to \in 0 .. Len(input) + 1 : Seek(to)
  \/ \E mode \in DOMAIN lexer.dfa : SetMode(mode)

(* The driver reads on, and recovers or gives up.                          *)
Spec == Init /\ [][Next]_vars /\ WF_vars(Drive)

----------------------------------------------------------------------------
(* Wherever a recovery resumes, a token of the mode that was asked begins  *)
(* in every repair of what was read before its evidence that makes the     *)
(* whole tokenizable in that mode; of a repair that passes through other   *)
(* modes nothing is promised (mode_tokenizer.hpp 205-217).                 *)
RecoveryIsRepairInvariant ==
  certified # Nothing =>
    LET found == certified.found
        kept == SubSeq(input, found.evidence_begin + 1, Len(input))
    IN \A text \in Inputs :
         LET serial == Serial(lexer.dfa[certified.mode], text \o kept)
             start == Len(text) + found.start - found.evidence_begin
         IN serial.consumed = Len(text \o kept) =>
              \E i \in 1 .. Len(serial.stream) : serial.stream[i].begin = start

(* A read by the mode in force, where there is one.                        *)
ReadOn(given, w, s) ==
  LET D == given.dfa[s.stack.current]
      acts == ActionAt(given, w, s.stack.current, s.offset)
  IN IF MatchLengths(D, w, s.offset) = {} \/ ~ Legal(s.stack, acts) THEN s
     ELSE [ offset |-> s.offset + LongestMatch(D, w, s.offset),
            stack  |-> Apply(s.stack, acts) ]

(* The scan of an input from its front, in the first mode and with an      *)
(* empty stack, token after token until none is read.                      *)
ScanFromFront(given, w) ==
  LET scan[n \in 0 .. Len(w)] ==
        IF n = 0 THEN [offset |-> 0, stack |-> FreshStack] ELSE ReadOn(given, w, scan[n - 1])
  IN scan

(* A grammar's stack is the nesting of the input loaded, read from its     *)
(* front, whatever was read, set or loaded before; a caller's mode is the  *)
(* one it set last, across loads and resets, and nothing is saved on its   *)
(* stack (mode_tokenizer.hpp 26-31, 162-186).                              *)
StackIsNesting ==
  /\ lexer.by = "grammar" /\ straight =>
       \E n \in 0 .. Len(input) :
         [offset |-> offset, stack |-> stack] = ScanFromFront(lexer, input)[n]
  /\ lexer.by = "caller" => stack = [current |-> chosen, saved |-> << >>]

(* A driver that recovers from every error it does not give up on comes to *)
(* the end, whatever modes the errors are met in.                          *)
DriverEnds == <>[](driver = "ends")

(* While the mode stands it is a Tokenizer of that mode's token set: a     *)
(* step that leaves the stack alone is one of Tokenizer's, but for a pop   *)
(* that is refused (mode_tokenizer.hpp 20-44).                             *)
Flat ==
  INSTANCE Tokenizer
    WITH sim <- current,
         Dfas <- {},
         certified <- IF certified = Nothing THEN Nothing ELSE certified.found

StepsAsTokenizer == [][stack' = stack => Flat!Next \/ NextIsRefused]_vars
=============================================================================
