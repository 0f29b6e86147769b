------------------------- MODULE MCOfflineDecisions -------------------------
(* Small token sets, some that certify windows, one whose longest match is *)
(* decided by lookahead, and some in which a token of one kind hides a     *)
(* longer one of another.                                                  *)
EXTENDS OfflineDecisions, SmallAutomata

CONSTANTS Caps, MaxTail

MCBytes == <<0, 1>>

(* The tokens 0, 01 0 and 1: a scan of 01 rolls back.                      *)
Lookahead ==
  Automaton(<< <<1, 4>>, <<NoState, 2>>, <<3, NoState>>, <<NoState, NoState>>,
               <<NoState, NoState>> >>, {1, 3, 4})

(* The token 01.                                                           *)
Pair == Automaton(<< <<1, NoState>>, <<NoState, 2>>, <<NoState, NoState>> >>, {2})

(* The tokens 0 and 1: after a 0 a scan of 01 reads on in vain.            *)
Trap ==
  Automaton(<< <<1, 2>>, <<NoState, 3>>, <<NoState, NoState>>, <<NoState, NoState>> >>,
            {1, 2})

(* The tokens 01 and 100: a window shows where a token began after others  *)
(* did.                                                                    *)
Staggered ==
  Automaton(<< <<1, 2>>, <<NoState, 4>>, <<3, NoState>>, <<4, NoState>>,
               <<NoState, NoState>> >>, {4})

(* The tokens 00 and 1, and of another kind 001: where a scan of 00 ends,  *)
(* one of 001 stands.                                                      *)
Hiding ==
  [ Automaton(<< <<1, 4>>, <<2, NoState>>, <<NoState, 3>>, <<NoState, NoState>>,
                 <<NoState, NoState>> >>, {2, 3, 4}) EXCEPT !.accept[3] = 2 ]

(* The kinds only have to differ: the second comes after the first.        *)
Ordered(D) == D.accept[0] # 1 => \A s \in States(D) : D.accept[s] # 2

Few == { D : D \in { A \in Automata(1) \cup Automata(2) : Ordered(A) } }
       \cup {Lookahead, Trap, Staggered, Pair, Hiding}

Useful(D) == ~ Accepting(D, D.init) /\ Simulator(D, {}).live = States(D)

(* Of the larger sets, those that certify windows: 0 leads to one state,   *)
(* and another accepts.                                                    *)
Rows == (0 .. 2 \cup {NoState}) \X (0 .. 2 \cup {NoState})

Windowed ==
  { D \in { Automaton(<<first, second, third>>, {2}) :
              first \in {<<1, 2>>, <<1, NoState>>}, second \in Rows, third \in Rows } :
      Useful(D) /\ CertifiedWindows(Simulator(D, {})) # {} }

MCTokenSets == Few \cup Windowed

Trim == { D \in Few : Useful(D) }

(* One set is asked about, or two are compared.                            *)
Compared == { <<D, D>> : D \in MCTokenSets } \cup Trim \X Trim

(* Which decision is asked with which windows, gaps, caps and sets.        *)
Fits(q) ==
  /\ Len(q.window) \in CASE q.kind = "profile" -> {1, 2} [] q.kind = "covers" -> {2} [] OTHER -> {0}
  /\ q.kind # "covers" => q.gap = 0
  /\ q.cap = 0 => q.kind \in {"rescue", "profile"}
  /\ q.sets[1] # q.sets[2] => q.kind \in PairKinds /\ q.cap = RescueCap
  /\ q.sets[1].count = 3 => q.kind = "rescue" /\ q.cap = RescueCap

Candidates ==
  [ kind : PairKinds \cup {"rescue", "occurrence", "profile", "covers"}, window : Words(0, 2),
    gap : 0 .. 1, cap : Caps, sets : Compared ]

MCQueries == { q : q \in { c \in Candidates : Fits(c) } }

MCTails == Words(0, MaxTail)
=============================================================================
