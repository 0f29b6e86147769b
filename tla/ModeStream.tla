----------------------------- MODULE ModeStream -----------------------------
(***************************************************************************)
(* A mode lexer driven token by token, as Mode_tokenizer::next() drives    *)
(* Mode_lexer::tokenize(): a longest match of the current mode's token     *)
(* set, then the action of the token matched, until the input is exhausted *)
(* or nothing more can be read.                                            *)
(***************************************************************************)
EXTENDS ModeGrammar

VARIABLES lexer, input, offset, stack, stream, status

given == <<lexer, input>>
streamVars == <<given, offset, stack, stream, status>>

Init ==
  /\ IsModeLexer(lexer)
  /\ input \in Seq(Symbols)
  /\ IsStack(stack)         \* the caller's, of this lexer or not
  /\ offset = 0
  /\ stream = << >>
  /\ status = "called"

(* check(): a mode of another lexer is refused.                            *)
HasMode(mode) == mode < lexer.modes

Enter ==
  /\ status = "called"
  /\ status' = IF HasMode(stack.current) THEN "running" ELSE "threw"
  /\ UNCHANGED <<given, offset, stack, stream>>

Exhausted ==
  /\ status = "running"
  /\ offset = Len(input)
  /\ status' = "exhausted"
  /\ UNCHANGED <<given, offset, stack, stream>>

current == lexer.dfa[stack.current]

Matches == MatchLengths(current, input, offset)

Match ==
  LET n == LongestMatch(current, input, offset)
  IN [ begin  |-> offset,
       length |-> n,
       token  |-> current.accept[StateAfter(current, input, offset)[n]],
       mode   |-> stack.current ]

(* A mode that nothing leaves skips the lookup.                            *)
MatchAction ==
  IF Acting(lexer, stack.current) THEN ActionOf(lexer, stack.current, Match.token)
  ELSE Stay

ExposesForeign == MatchAction.kind = "pop" /\ ~ HasMode(Top(stack))

Emit ==
  /\ status = "running"
  /\ Matches # {}
  /\ Legal(stack, MatchAction)
  /\ ~ ExposesForeign
  /\ stream' = Append(stream, Match)
  /\ offset' = offset + Match.length
  /\ stack' = Apply(stack, MatchAction)
  /\ UNCHANGED <<given, status>>

Throw ==
  /\ status = "running"
  /\ Matches # {}
  /\ Legal(stack, MatchAction)
  /\ ExposesForeign
  /\ status' = "threw"
  /\ UNCHANGED <<given, offset, stack, stream>>

(* A pop with nothing saved reads as no match, the stack unchanged.        *)
Refuse ==
  /\ status = "running"
  /\ Matches # {}
  /\ ~ Legal(stack, MatchAction)
  /\ status' = "stopped"
  /\ UNCHANGED <<given, offset, stack, stream>>

(* Nothing matched, or only the empty string, which leaves the mode alone. *)
Stop ==
  /\ status = "running"
  /\ offset < Len(input)
  /\ Matches = {}
  /\ status' = "stopped"
  /\ UNCHANGED <<given, offset, stack, stream>>

Next == Enter \/ Exhausted \/ Emit \/ Throw \/ Refuse \/ Stop

Spec == Init /\ [][Next]_streamVars
=============================================================================
