----------------------------- MODULE MCCompile -----------------------------
(* Every regex of two levels over a few atoms as a grammar of one pattern, *)
(* and pairs and triples of a few that overlap, under tokens that tie,     *)
(* that outrank one another either way, and that share an identifier.      *)
EXTENDS Compile

MCBytes == <<0, 1>>

Atoms == { AnyOf({}), AnyOf({0}), AnyOf({0, 1}), Text(<< >>), Text(<<0, 1>>) }

Kinds == { Kleene, Plus, Optional, Exact(0), Exact(2), AtLeast(0), AtLeast(2),
           Between(0, 2), Between(1, 2) }

Repeats(regexes) == { Repeat(kind, r) : kind \in Kinds, r \in regexes }

Joined(regexes) ==
  { Choice(<<r>>) : r \in regexes }
  \cup { join : join \in UNION { {Concat(<<r, s>>), Choice(<<r, s>>)} :
                                   r \in regexes, s \in regexes } }

Simple == Atoms \cup Repeats(Atoms) \cup Joined(Atoms)

(* Repetitions of what repeats, or begins where it accepts.                *)
Nested ==
  Repeats({ Repeat(Kleene, AnyOf({0})), Repeat(AtLeast(2), AnyOf({0})),
            Repeat(Optional, Text(<<0, 1>>)), Repeat(Between(0, 2), AnyOf({0})),
            Choice(<<AnyOf({0}), Text(<<0, 1>>)>>) })

(* The third byte from the end is 0: eight subsets.                        *)
Any == AnyOf({0, 1})
Blowup == Concat(<<Repeat(Kleene, Any), AnyOf({0}), Any, Any>>)

Letter == AnyOf({0})
Word == Repeat(Plus, Letter)
Keyword == Text(<<0, 0>>)
Number == Repeat(Plus, AnyOf({1}))
Optionally == Repeat(Kleene, Keyword)

Overlapping == {Letter, Word, Keyword, Number, Optionally}

MCTerms ==
  Simple \cup Nested \cup Overlapping
  \cup {Blowup, Repeat(Kleene, Any), AnyOf({1})}

Pattern(regex, id, priority) ==
  [regex |-> regex, token |-> [id |-> id, priority |-> priority]]

MCGrammars ==
  {<< >>}
  \cup { <<Pattern(r, 1, 1)>> : r \in Simple \cup Nested \cup {Blowup} }
  \cup { <<Pattern(r, first[1], first[2]), Pattern(s, second[1], second[2])>> :
           r \in Overlapping, s \in Overlapping,
           first \in {<<1, 2>>, <<2, 1>>}, second \in {<<1, 1>>, <<2, 2>>, <<2, 1>>} }
  \cup { <<Pattern(r, 1, 2), Pattern(s, 2, 1), Pattern(t, 3, 1)>> :
           r \in {Word, Keyword}, s \in {Word, Number}, t \in {Keyword, Optionally} }
=============================================================================
