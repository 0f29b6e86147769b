----------------------------- MODULE MCVerifier -----------------------------
(* Token sets whose longest match is decided at once, by lookahead, or     *)
(* never, with kinds; and tables that no maximal munch segments like.      *)
EXTENDS VerifierAnswers, SmallAutomata

CONSTANTS MaxWindow, MaxInput

MCBytes == <<0, 1>>

(* A token set by the rows of its table and the kinds its states accept.   *)
TokenSet(rows, kinds) ==
  [Automaton(rows, {}) EXCEPT !.accept =
     [ s \in DOMAIN @ |-> IF s \in DOMAIN kinds THEN kinds[s] ELSE NoToken ]]

N == NoState

(* 0, 010 and 1: a scan of 01 rolls back.                                  *)
Lookahead == TokenSet(<< <<1, 4>>, <<N, 2>>, <<3, N>>, <<N, N>>, <<N, N>> >>,
                      1 :> 1 @@ 3 :> 2 @@ 4 :> 1)

(* 00 and 1: an odd run of 0 is no input.                                  *)
Doubles == TokenSet(<< <<1, 2>>, <<3, N>>, <<N, N>>, <<N, N>> >>, 2 :> 1 @@ 3 :> 1)

(* 0, and runs of 1.                                                       *)
Spaces == TokenSet(<< <<1, 2>>, <<N, N>>, <<N, 2>> >>, 1 :> 1 @@ 2 :> 2)

(* 01 and 100.                                                             *)
Staggered == TokenSet(<< <<1, 2>>, <<N, 4>>, <<3, N>>, <<4, N>>, <<N, N>> >>, 4 :> 1)

(* 0 and 00, or 1.                                                         *)
Greedy == TokenSet(<< <<1, 3>>, <<2, N>>, <<N, N>>, <<N, N>> >>, 1 :> 1 @@ 2 :> 2 @@ 3 :> 1)

(* 0 and 1, of different kinds, and 01, of the kind of 1.                  *)
Trailing == TokenSet(<< <<1, 2>>, <<N, 2>>, <<N, N>> >>, 1 :> 2 @@ 2 :> 1)

Armed(D) == [built |-> "armed", set |-> D]

(* A table by its steps, <<state, byte, mark, state>>.                     *)
Table(steps, accepting, closes, finals) ==
  [ built |-> "table",
    table |-> [ start  |-> 0,
                next   |-> [ k \in { <<e[1], e[2], e[3]>> : e \in steps } |->
                               (CHOOSE e \in steps : <<e[1], e[2], e[3]>> = k)[4] ],
                accept |-> accepting, closes |-> closes, finals |-> finals ] ]

(* Every byte 0 a segment: the table comes back to its start.              *)
Unary == Table({<<0, 0, FALSE, 1>>, <<0, 0, TRUE, 0>>}, {1}, <<0, 0, TRUE>> :> 1, 1 :> 1)

(* Pairs of 0 counted from the end of the input, as no scan can.           *)
Backward ==
  Table({<<0, 0, FALSE, 1>>, <<0, 0, TRUE, 2>>, <<1, 0, FALSE, 3>>, <<1, 0, TRUE, 2>>,
         <<2, 0, FALSE, 4>>, <<4, 0, FALSE, 3>>, <<4, 0, TRUE, 2>>},
        {0, 1, 3}, << >>, << >>)

(* 0, or 01 and then 1s of their own.                                      *)
TwoModes ==
  Table({<<0, 0, FALSE, 1>>, <<1, 1, FALSE, 2>>, <<1, 1, TRUE, 3>>, <<3, 1, FALSE, 4>>,
         <<3, 1, TRUE, 5>>, <<5, 1, FALSE, 4>>, <<5, 1, TRUE, 5>>},
        {0, 1, 2, 4}, << >>, << >>)

(* The one input 01, in two segments; what else is read is never accepted. *)
Single == Table({<<0, 0, TRUE, 1>>, <<1, 1, FALSE, 2>>, <<0, 1, FALSE, 3>>}, {2}, << >>, << >>)

(* 00.0, 10.0 and 101.0: what 1 begins closes later or not, as 0 cannot.   *)
Distant ==
  Table({<<0, 0, FALSE, 1>>, <<0, 1, FALSE, 2>>, <<1, 0, TRUE, 3>>, <<2, 0, TRUE, 3>>,
         <<2, 0, FALSE, 4>>, <<4, 1, TRUE, 5>>, <<3, 0, FALSE, 6>>, <<5, 0, FALSE, 6>>},
        {6}, << >>, << >>)

(* 0, 1 and pairs of 0: an input cut within a pair is none.                *)
Paired ==
  Table({<<0, 0, TRUE, 1>>, <<1, 1, TRUE, 2>>, <<1, 1, FALSE, 4>>, <<2, 0, FALSE, 3>>,
         <<3, 0, TRUE, 2>>, <<3, 0, FALSE, 4>>}, {4}, << >>, << >>)

Empty == Table({<<0, 0, FALSE, 1>>}, {}, << >>, << >>)

MCPolicies ==
  { Armed(D) : D \in {Lookahead, Doubles, Spaces, Staggered, Greedy, Trailing} }
  \cup {Unary, Backward, TwoModes, Single, Distant, Paired, Empty}

----------------------------------------------------------------------------
Windowed(kinds) ==
  [ kind : kinds, window : Words(1, MaxWindow), origin : 0 .. MaxWindow - 1, kinds : {{}},
    width : {0}, inventory : {{}}, other : {Empty} ]

Plain == [ kind |-> "", window |-> << >>, origin |-> 0, kinds |-> {}, width |-> 0,
           inventory |-> {}, other |-> Empty ]

Pair(w, origin) == [window |-> w, origin |-> origin]

Inventories ==
  { {Pair(<<0>>, 0)}, {Pair(<<0>>, 0), Pair(<<1>>, 0)}, {Pair(<<1, 0>>, 1)},
    {Pair(<<0, 1>>, 0), Pair(<<1, 0>>, 1)}, {Pair(<<0, 0>>, 1)} }

MCQuestions ==
  { q \in Windowed({"miscovering", "pinned cut", "dependence", "right context", "fanout",
                    "relative fanout"}) : q.origin < Len(q.window) }
  \cup { [q EXCEPT !.kinds = K] :
           K \in {{}, {1}, {2}}, q \in { r \in Windowed({"modulo dependence"}) : r.origin < Len(r.window) } }
  \cup { [Plain EXCEPT !.kind = kind] :
           kind \in {"boundary gap", "realizable", "smallest fanout", "fanout windows"} }
  \cup { [Plain EXCEPT !.kind = "modulo cuts", !.width = 2, !.kinds = K] : K \in {{}, {1}, {2}} }
  \cup { [Plain EXCEPT !.kind = "divergence", !.other = p] : p \in MCPolicies }
  \cup { [Plain EXCEPT !.kind = "chunk dependence", !.inventory = I] : I \in Inventories }

MCRequests ==
  { r : r \in [ input : Words(0, MaxInput), chunks : {2, 3}, inventory : Inventories,
                lookahead : {0, 1} ]
             \cup [ input : Words(0, MaxInput), chunks : {0}, inventory : {{Pair(<<0>>, 0)}},
                    lookahead : {0} ] }
=============================================================================
