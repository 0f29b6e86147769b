------------------------------ MODULE ModeScan ------------------------------
(***************************************************************************)
(* Mode_lexer::tokenize_all(): the batch driver.  A pass scans with one    *)
(* mode's lexer and hands every token to the sink, until a token with an   *)
(* action asks it to stop; the next pass resumes in the mode it chose.     *)
(***************************************************************************)
EXTENDS ModeGrammar

CONSTANTS Lexers, Inputs, Starts

(* The lexers are as Mode_builder builds them, the stacks any caller's.    *)
ASSUME ModeScanAssumption ==
  /\ \A given \in Lexers :
       /\ IsModeLexer(given)
       /\ ListsItsPayloads(given)
       /\ \A m \in ModesOf(given), t \in TokenIds : EntersItsModes(given, given.payload[m][t])
  /\ Inputs \subseteq Seq(Symbols)
  /\ Starts \subseteq [current : Nat, saved : Seq(Nat)]

VARIABLES
  lexer,
  diagnosis,    \* what diagnose() says of its grammar
  input,
  start,        \* the caller's stack as it was handed over
  stack,        \* and as it is
  pc,           \* "called", "loop", "pass", "returned", "threw"
  offset,       \* where the pass began; once returned, what is returned
  mode,         \* the mode the pass scans
  scanned,      \* what the pass has consumed
  stream        \* the sink's calls

given == <<lexer, diagnosis, input, start>>
vars == <<given, stack, pc, offset, mode, scanned, stream>>

Init ==
  /\ lexer \in Lexers
  /\ diagnosis = Diagnose(lexer)
  /\ input \in Inputs
  /\ start \in Starts
  /\ stack = start
  /\ pc = "called"
  /\ offset = 0
  /\ mode = 0
  /\ scanned = 0
  /\ stream = << >>

HasMode(m) == m < lexer.modes

Enter ==
  /\ pc = "called"
  /\ pc' = IF HasMode(stack.current) THEN "loop" ELSE "threw"
  /\ UNCHANGED <<given, stack, offset, mode, scanned, stream>>

BeginPass ==
  /\ pc = "loop"
  /\ offset < Len(input)
  /\ mode' = stack.current
  /\ scanned' = 0
  /\ pc' = "pass"
  /\ UNCHANGED <<given, stack, offset, stream>>

Exhausted ==
  /\ pc = "loop"
  /\ offset = Len(input)
  /\ pc' = "returned"
  /\ UNCHANGED <<given, stack, offset, mode, scanned, stream>>

----------------------------------------------------------------------------
(* The token the pass's scan comes to next, and the payload it carries;    *)
(* the sink of a mode that nothing leaves does not look at payloads.       *)
at == offset + scanned

Matches == MatchLengths(lexer.dfa[mode], input, at)

Match ==
  LET D == lexer.dfa[mode]
      n == LongestMatch(D, input, at)
  IN [ begin |-> at, length |-> n,
       token |-> D.accept[StateAfter(D, input, at)[n]], mode |-> mode ]

packed == IF Acting(lexer, mode) THEN lexer.payload[mode][Match.token] ELSE 0

action == Unpack(packed)

Emit ==
  /\ pc = "pass"
  /\ Matches # {}
  /\ packed = 0
  /\ stream' = Append(stream, Match)
  /\ scanned' = scanned + Match.length
  /\ UNCHANGED <<given, stack, pc, offset, mode>>

ExposesForeign == action.kind = "pop" /\ ~ HasMode(Top(stack))

(* A push onto the mode being scanned not taken for a change of mode.      *)
ActOnlyOnSwitch ==
  /\ pc = "pass"
  /\ Matches # {}
  /\ packed # 0
  /\ Legal(stack, action)
  /\ ~ ExposesForeign
  /\ stream' = Append(stream, Match)
  /\ stack' = IF action.kind = "push" /\ action.target = mode THEN stack ELSE Apply(stack, action)
  /\ offset' = at + Match.length
  /\ pc' = "loop"
  /\ UNCHANGED <<given, mode, scanned>>

(* A token with an action is delivered, moves the stack and ends the pass. *)
Act ==
  /\ pc = "pass"
  /\ Matches # {}
  /\ packed # 0
  /\ Legal(stack, action)
  /\ ~ ExposesForeign
  /\ stream' = Append(stream, Match)
  /\ stack' = Apply(stack, action)
  /\ offset' = at + Match.length
  /\ pc' = "loop"
  /\ UNCHANGED <<given, mode, scanned>>

Throw ==
  /\ pc = "pass"
  /\ Matches # {}
  /\ packed # 0
  /\ Legal(stack, action)
  /\ ExposesForeign
  /\ pc' = "threw"
  /\ UNCHANGED <<given, stack, offset, mode, scanned, stream>>

(* A pop with nothing saved: the scan counts the token, the driver takes   *)
(* its length off again and returns.                                       *)
Refuse ==
  /\ pc = "pass"
  /\ Matches # {}
  /\ packed # 0
  /\ ~ Legal(stack, action)
  /\ offset' = (at + Match.length) - Match.length
  /\ pc' = "returned"
  /\ UNCHANGED <<given, stack, mode, scanned, stream>>

(* The scan ends by itself.  Where the mode has actions the loop looks     *)
(* again, and returns after a pass that consumed nothing.                  *)
EndPass ==
  /\ pc = "pass"
  /\ Matches = {}
  /\ offset' = at
  /\ pc' = IF Acting(lexer, mode) /\ scanned # 0 THEN "loop" ELSE "returned"
  /\ UNCHANGED <<given, stack, mode, scanned, stream>>

Next == Enter \/ BeginPass \/ Exhausted \/ Emit \/ Act \/ Throw \/ Refuse \/ EndPass

Spec == Init /\ [][Next]_vars /\ WF_vars(Next)

----------------------------------------------------------------------------
(* How far a caller of the per-token driver is, and what it has been told. *)
reached == IF pc \in {"pass", "threw"} THEN at ELSE offset

status ==
  CASE pc = "called" -> "called"
    [] pc \in {"loop", "pass"} -> "running"
    [] pc = "threw" -> "threw"
    [] OTHER -> IF offset = Len(input) THEN "exhausted" ELSE "stopped"

(* The two drivers agree: the batch driver delivers the tokens, in the     *)
(* modes, stops at the offset, leaves the stack and throws as the          *)
(* per-token one does, though it learns the actions by another route.      *)
PerToken == INSTANCE ModeStream WITH offset <- reached
ImplementsPerToken == PerToken!Spec

(* What the diagnosis reports is true of every scan from the default       *)
(* stack: a mode reported unreachable is never scanned, and the frames     *)
(* name, however deep they are buried, only the modes the closure found.   *)
DiagnosisHolds ==
  start = FreshStack =>
    /\ stack.current \notin diagnosis.unreachable
    /\ \A i \in DOMAIN stack.saved : stack.saved[i] \in diagnosis.framed[stack.current]

(* A scan in a mode reported inescapable never leaves it.                  *)
InescapableHolds ==
  [][start = FreshStack /\ stack.current \in diagnosis.inescapable
       => stack'.current = stack.current]_vars
=============================================================================
