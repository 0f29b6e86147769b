---------------------------- MODULE ModeBuilder ----------------------------
(***************************************************************************)
(* Mode_builder: tokens are registered mode by mode with the action each   *)
(* takes on the mode stack, then compiled.  A caller may catch what a call *)
(* throws and go on.  Of a pattern the builder's checks need only whether  *)
(* it matches the empty string.                                            *)
(***************************************************************************)
EXTENDS ModeGrammar

CONSTANTS Modes,        \* the mode indices a caller registers
          Patterns,     \* the patterns it registers: a token, its priority,
                        \* and whether the empty string matches
          Actions,      \* the actions it names
          MaxCalls      \* bounds the registrations

(* A mode is a vector element, so its index leaves the two bits of a kind  *)
(* free in the word an action is packed into.                              *)
ASSUME BuilderAssumption ==
  /\ TokenIds \subseteq Nat
  /\ Modes \subseteq Nat
  /\ \A m \in Modes : 4 * m + 3 <= WordMax
  /\ Patterns \subseteq [token : TokenIds, priority : Nat, empty : BOOLEAN]
  /\ Actions \subseteq [kind : {"stay", "go_to", "push", "pop"}, target : Nat]
  /\ MaxCalls \in Nat

VARIABLES
  modes,        \* modes_, per mode the patterns added to its Builder
  registered,   \* registered_, per mode the (token, action) pairs in order
  built,        \* what build() returned last, NoLexer before and if it threw
  declared,     \* every registration that returned normally
  promised,     \* those that had when built was built
  calls

builderVars == <<modes, registered, built, declared, promised, calls>>

NoLexer == [modes |-> 0]

BuilderInit ==
  /\ modes = << >>
  /\ registered = << >>
  /\ built = NoLexer
  /\ declared = {}
  /\ promised = {}
  /\ calls = 0

(* Modes count from zero, the elements of a sequence from one.             *)
ResizeTo(rows, count, empty) ==
  [ i \in 1 .. IF Len(rows) < count THEN count ELSE Len(rows) |->
      IF i <= Len(rows) THEN rows[i] ELSE empty ]

(* Stay and pop have no target, and a go_to onto its own mode is a stay.   *)
Normalized(mode, action) ==
  IF action.kind = "go_to" /\ action.target = mode THEN Stay
  ELSE IF TargetsAMode(action) THEN action ELSE Action(action.kind, 0)

(* The targets not compared.                                               *)
ConflictsInKind(mode, token, action) ==
  /\ mode < Len(registered)
  /\ \E i \in DOMAIN registered[mode + 1] :
       LET entry == registered[mode + 1][i]
       IN entry.token = token /\ entry.action.kind # Normalized(mode, action).kind

Conflicts(mode, token, action) ==
  /\ mode < Len(registered)
  /\ \E i \in DOMAIN registered[mode + 1] :
       LET entry == registered[mode + 1][i]
       IN entry.token = token /\ entry.action # Normalized(mode, action)

Known(mode, token) ==
  /\ mode < Len(registered)
  /\ \E i \in DOMAIN registered[mode + 1] : registered[mode + 1][i].token = token

Called == calls < MaxCalls /\ calls' = calls + 1

(* add_token(): the conflicting call throws before anything is touched.    *)
AddConflicting(mode, token, action) ==
  /\ Called
  /\ Conflicts(mode, token, action)
  /\ UNCHANGED <<modes, registered, built, declared, promised>>

AddToken(mode, pattern, action) ==
  /\ Called
  /\ ~ Conflicts(mode, pattern.token, action)
  /\ modes' = [ResizeTo(modes, mode + 1, {}) EXCEPT ![mode + 1] = @ \cup {pattern}]
  /\ LET rows == ResizeTo(registered, mode + 1, << >>)
         entry == [token |-> pattern.token, action |-> Normalized(mode, action)]
     IN registered' = IF Known(mode, pattern.token) THEN rows
                      ELSE [rows EXCEPT ![mode + 1] = Append(@, entry)]
  /\ declared' = declared \cup {[mode |-> mode, token |-> pattern.token, action |-> action]}
  /\ UNCHANGED <<built, promised>>

(* Lowering the pattern throws once the rows are resized: the mode is      *)
(* there, without a token.                                                 *)
AddThrows(mode, token, action) ==
  /\ Called
  /\ ~ Conflicts(mode, token, action)
  /\ modes' = ResizeTo(modes, mode + 1, {})
  /\ registered' = ResizeTo(registered, mode + 1, << >>)
  /\ UNCHANGED <<built, declared, promised>>

----------------------------------------------------------------------------
Populated == \A i \in DOMAIN registered : registered[i] # << >>

TargetsExist ==
  \A i \in DOMAIN registered : \A j \in DOMAIN registered[i] :
    LET action == registered[i][j].action
    IN TargetsAMode(action) => action.target < Len(modes)

(* The token an empty input matches: the first by priority, then by ID.    *)
EmptyMatch(patterns) ==
  LET empty == { p \in patterns : p.empty }
  IN IF empty = {} THEN NoToken
     ELSE (CHOOSE p \in empty : \A q \in empty :
             p.priority < q.priority \/ (p.priority = q.priority /\ p.token <= q.token)).token

(* The rejection left out.                                                 *)
NullableActionsIgnored == TRUE

NullableStays ==
  \A i \in DOMAIN registered : \A j \in DOMAIN registered[i] :
    registered[i][j].token = EmptyMatch(modes[i]) => registered[i][j].action.kind = "stay"

(* What the mode of row i lists: every token of it that acts, in order.    *)
Listing(i, entry) ==
  [mode |-> i - 1, token |-> entry.token, action |-> Pack(entry.action)]

ActionsOf(i) ==
  LET upTo[j \in 0 .. Len(registered[i])] ==
        IF j = 0 THEN << >>
        ELSE IF registered[i][j].action.kind = "stay" THEN upTo[j - 1]
        ELSE Append(upTo[j - 1], Listing(i, registered[i][j]))
  IN upTo[Len(registered[i])]

ModeActions ==
  LET upTo[i \in 0 .. Len(registered)] ==
        IF i = 0 THEN << >> ELSE upTo[i - 1] \o ActionsOf(i)
  IN upTo[Len(registered)]

(* fill_accepts(): a later payload of the same token replaces an earlier.  *)
PayloadOf(i, token) ==
  LET given == { j \in DOMAIN registered[i] :
                   registered[i][j].token = token /\ registered[i][j].action.kind # "stay" }
  IN IF given = {} THEN 0
     ELSE Pack(registered[i][CHOOSE j \in given : \A k \in given : k <= j].action)

Buildable == modes # << >> /\ Populated /\ TargetsExist /\ NullableStays

Build ==
  /\ built' = IF Buildable
              THEN [ modes   |-> Len(modes),
                     payload |-> [ m \in 0 .. Len(modes) - 1 |->
                                     [ t \in TokenIds |-> PayloadOf(m + 1, t) ] ],
                     actions |-> ModeActions,
                     empty   |-> [ m \in 0 .. Len(modes) - 1 |-> EmptyMatch(modes[m + 1]) ] ]
              ELSE NoLexer
  /\ promised' = IF Buildable THEN declared ELSE {}
  /\ UNCHANGED <<modes, registered, declared, calls>>

BuilderNext ==
  \/ \E mode \in Modes, action \in Actions, pattern \in Patterns :
       \/ AddToken(mode, pattern, action)
       \/ AddConflicting(mode, pattern.token, action)
       \/ AddThrows(mode, pattern.token, action)
  \/ Build

BuilderSpec == BuilderInit /\ [][BuilderNext]_builderVars

----------------------------------------------------------------------------
IsBuilt == built # NoLexer

(* Both drivers of a built lexer, the one that reads payloads and the one  *)
(* that searches the list, apply to a token the action every registration  *)
(* of it declared: no call that returned is forgotten or overridden, the   *)
(* packing loses nothing, and a token no call declared has no action by    *)
(* either route.                                                           *)
DeclaredActionsApply ==
  /\ \A d \in promised :
       /\ PayloadAction(built, d.mode, d.token) = Normalized(d.mode, d.action)
       /\ ActionOf(built, d.mode, d.token) = Normalized(d.mode, d.action)
  /\ IsBuilt => ListsItsPayloads(built)

(* No action of a built lexer enters a mode it does not have, and no token *)
(* it matches the empty string with moves the stack: the per-token driver  *)
(* would report that one and the batch one never does.                     *)
BuiltActionsAreSafe ==
  IsBuilt =>
    \A m \in 0 .. built.modes - 1 :
      /\ \A t \in TokenIds :
           LET action == PayloadAction(built, m, t)
           IN TargetsAMode(action) => action.target \in 0 .. built.modes - 1
      /\ built.empty[m] # NoToken => PayloadAction(built, m, built.empty[m]) = Stay
=============================================================================
