---------------------------- MODULE ModeGrammar ----------------------------
(***************************************************************************)
(* Mode actions, the word they travel in, and the stack they move: what    *)
(* the mode builder and both drivers of a mode lexer share.                *)
(*                                                                         *)
(* A mode lexer is [ modes   : the number of modes,                        *)
(*                   dfa     : per mode, its automaton,                    *)
(*                   payload : per mode and token, the packed action its   *)
(*                             accepting states carry,                     *)
(*                   actions : Mode_lexer::actions_ ].                     *)
(***************************************************************************)
EXTENDS Dfa, FiniteSets

CONSTANT WordMax        \* the largest Packed_action_t

ASSUME WordAssumption == WordMax \in Nat

KindOf == <<"stay", "go_to", "push", "pop">>

Action(kind, target) == [kind |-> kind, target |-> target]

Stay == Action("stay", 0)

TargetsAMode(action) == action.kind \in {"go_to", "push"}

(* A shift by one bit, which lets the target run into the kind.            *)
PackOneBit(action) ==
  IF action.kind = "stay" THEN 0
  ELSE LET kind == CHOOSE i \in DOMAIN KindOf : KindOf[i] = action.kind
       IN (kind - 1 + 2 * action.target) % (WordMax + 1)

(* Two bits of kind, the target above them; every stay is zero.            *)
Pack(action) ==
  IF action.kind = "stay" THEN 0
  ELSE LET kind == CHOOSE i \in DOMAIN KindOf : KindOf[i] = action.kind
       IN (kind - 1 + 4 * action.target) % (WordMax + 1)

Unpack(packed) == Action(KindOf[(packed % 4) + 1], packed \div 4)

----------------------------------------------------------------------------
(* Mode_stack: the current mode and the saved frames, the last on top.     *)
IsStack(stack) == stack.current \in Nat /\ stack.saved \in Seq(Nat)

FreshStack == [current |-> 0, saved |-> << >>]

Top(stack) == stack.saved[Len(stack.saved)]

Legal(stack, action) == action.kind = "pop" => stack.saved # << >>

Apply(stack, action) ==
  CASE action.kind = "stay"  -> stack
    [] action.kind = "go_to" -> [stack EXCEPT !.current = action.target]
    [] action.kind = "push"  -> [current |-> action.target,
                                 saved   |-> Append(stack.saved, stack.current)]
    [] action.kind = "pop"   -> [current |-> Top(stack),
                                 saved   |-> SubSeq(stack.saved, 1, Len(stack.saved) - 1)]

----------------------------------------------------------------------------
(* What the lexer's tables say a token does: to the batch driver, which    *)
(* reads the payload, and to the per-token one, which searches the list.   *)
Acting(lexer, mode) == \E i \in DOMAIN lexer.actions : lexer.actions[i].mode = mode

PayloadAction(lexer, mode, token) ==
  IF lexer.payload[mode][token] = 0 THEN Stay ELSE Unpack(lexer.payload[mode][token])

ActionOf(lexer, mode, token) ==
  LET found == { i \in DOMAIN lexer.actions :
                   lexer.actions[i].mode = mode /\ lexer.actions[i].token = token }
  IN IF found = {} THEN Stay
     ELSE Unpack(lexer.actions[CHOOSE i \in found : \A j \in found : i <= j].action)

(* The list and the payloads are made from the same registrations: a token *)
(* carries the word it is listed with, and none if it is not.              *)
ListsItsPayloads(lexer) ==
  /\ DOMAIN lexer.actions \subseteq Nat
  /\ \A m \in 0 .. lexer.modes - 1, t \in TokenIds :
       LET listed == { i \in DOMAIN lexer.actions :
                         lexer.actions[i].mode = m /\ lexer.actions[i].token = t }
       IN IF listed = {} THEN lexer.payload[m][t] = 0
          ELSE \A i \in listed : lexer.actions[i].action = lexer.payload[m][t]

(* A built lexer's actions enter no mode but its own: mode_builder.cpp     *)
(* 64-81 refuses the others.                                               *)
EntersItsModes(lexer, packed) ==
  /\ packed \in Nat
  /\ TargetsAMode(Unpack(packed)) => Unpack(packed).target \in DOMAIN lexer.dfa

IsModeLexer(lexer) ==
  /\ lexer.modes \in Nat \ {0}
  /\ DOMAIN lexer.dfa = 0 .. lexer.modes - 1
  /\ \A m \in DOMAIN lexer.dfa : IsDfa(lexer.dfa[m])

----------------------------------------------------------------------------
(* What Mode_builder::diagnose() derives: the modes a scan from mode 0 can *)
(* enter, the modes its frames can name, and the modes it can leave.       *)
ModesOf(lexer) == 0 .. lexer.modes - 1

(* A token no reachable state awards can never fire.                       *)
IsLive(lexer, mode, token) ==
  \E s \in Reachable(lexer.dfa[mode]) : lexer.dfa[mode].accept[s] = token

LiveActions(lexer, mode) ==
  { PayloadAction(lexer, mode, token) : token \in { t \in TokenIds : IsLive(lexer, mode, t) } }

(* A go_to taken to leave the frames behind.                               *)
CarriedByPushOnly(closure, mode, action) ==
  IF action.kind = "push" THEN closure.framed[mode] \cup {mode} ELSE {}

(* The frames a mode hands on to the target of an action.                  *)
Carried(closure, mode, action) ==
  closure.framed[mode] \cup (IF action.kind = "push" THEN {mode} ELSE {})

(* A sweep of every entered mode; acts are the live actions, per mode.     *)
Sweep(acts, closure) ==
  LET entering(target) ==
        { e \in closure.entered \X UNION { acts[m] : m \in DOMAIN acts } :
            e[2] \in acts[e[1]] /\ TargetsAMode(e[2]) /\ e[2].target = target }
  IN [ entered |-> closure.entered \cup { m \in DOMAIN acts : entering(m) # {} },
       framed  |-> [ m \in DOMAIN acts |->
                       closure.framed[m]
                         \cup UNION { Carried(closure, e[1], e[2]) : e \in entering(m) } ] ]

(* Swept until nothing changes: every mode is entered after as many sweeps *)
(* as there are modes, and as many more carry a frame wherever it goes.    *)
FrameClosure(acts) ==
  LET modes == Cardinality(DOMAIN acts)
      sweeps[n \in 0 .. 2 * modes] ==
        IF n = 0 THEN [entered |-> {0}, framed |-> [m \in DOMAIN acts |-> {}]]
        ELSE Sweep(acts, sweeps[n - 1])
  IN sweeps[2 * modes]

(* A pop not counted as a way out.                                         *)
LeavesByTarget(acts, closure, mode) ==
  \E action \in acts[mode] : TargetsAMode(action) /\ action.target # mode

(* A pop leads out only if a frame may name another mode.                  *)
Leaves(acts, closure, mode) ==
  \E action \in acts[mode] :
    \/ TargetsAMode(action) /\ action.target # mode
    \/ action.kind = "pop" /\ closure.framed[mode] \ {mode} # {}

Diagnose(lexer) ==
  LET acts == [m \in ModesOf(lexer) |-> LiveActions(lexer, m)]
      closure == FrameClosure(acts)
  IN [ framed      |-> closure.framed,
       unreachable |-> ModesOf(lexer) \ ({0} \cup closure.entered),
       inescapable |-> { m \in ModesOf(lexer) : ~ Leaves(acts, closure, m) } ]
=============================================================================
