----------------------------- MODULE CoreSearch -----------------------------
(***************************************************************************)
(* derive_mandatory_core(): the candidates are tried longest first, each   *)
(* by a depth-first search of the states and the bytes of its core matched *)
(* in them.  One buffer marks what every search has seen, each with a      *)
(* stamp of its own, and is never cleared.                                 *)
(***************************************************************************)
EXTENDS DeathWords

CONSTANT Dfas           \* those of which a simulator is constructed

VARIABLES
  sim,
  candidates,           \* the states that propose, but for those tried
  tried,                \* the ordinal of the candidate whose turn it is
  proposal,             \* the core it proposes
  seen,                 \* per cell of the buffer the stamp it bears
  pending,              \* the stack of the search
  node, byte,           \* what is explored, and the index of its next byte
  derivation,           \* "propose", "pop", "explore", "done"
  core                  \* mandatory_core_

buffers == <<seen, pending>>
exploring == <<node, byte>>

(* The candidate that is tried before all others of a set.                 *)
Leads(s, of) == s \in of /\ \A r \in of \ {s} : Before(sim, s, r)

Longest ==
  IF Candidates(sim) = {} THEN 0
  ELSE Depth(sim, CHOOSE s \in Candidates(sim) : Leads(s, Candidates(sim))) - 1

Cell(state, matched, length) == state * length + matched

(* Every search under one stamp.                                           *)
StampShared == 1

(* The one-based ordinal of the search.                                    *)
Stamp == tried

DeriveInit ==
  /\ \E D \in Dfas : sim = Simulator(D, {})
  /\ candidates = Candidates(sim)
  /\ tried = 1
  /\ proposal = << >>
  /\ seen = [c \in 0 .. sim.count * Longest - 1 |-> 0]
  /\ pending = << >>
  /\ node = <<0, 0>>
  /\ byte = 1
  /\ derivation = "propose"
  /\ core = << >>

----------------------------------------------------------------------------
(* From border to border of the text read before, whose lengths are the    *)
(* links, to the longest that its next byte extends.                       *)
Fallback(text, links, n) ==
  LET extends[m \in 0 .. n - 1] ==
        IF m = 0 \/ text[n] = text[m + 1] THEN m ELSE extends[links[m]]
  IN extends[links[n - 1]]

(* The length of the longest proper border of each prefix of the core.     *)
Fall(text) ==
  LET fall[n \in 1 .. Len(text)] ==
        IF n = 1 THEN 0
        ELSE LET m == Fallback(text, [i \in 1 .. n - 1 |-> fall[i]], n)
             IN IF text[n] = text[m + 1] THEN m + 1 ELSE m
  IN fall

(* The bytes of the core matched after each byte, from each number of them.*)
Matcher(text) ==
  LET fall == Fall(text)
      matcher[n \in 0 .. Len(text) - 1] ==
        [b \in Symbols |-> IF text[n + 1] = b THEN n + 1
                           ELSE IF n > 0 THEN matcher[fall[n]][b] ELSE 0]
  IN matcher

----------------------------------------------------------------------------
Propose ==
  /\ derivation = "propose"
  /\ \E s \in candidates :
       /\ Leads(s, candidates)
       /\ candidates' = candidates \ {s}
       /\ proposal' = Core(sim, s)
       /\ seen' = [seen EXCEPT ![Cell(s, 0, Len(proposal'))] = Stamp]
       /\ pending' = <<<<s, 0>>>>
  /\ derivation' = "pop"
  /\ UNCHANGED <<sim, tried, exploring, core>>

NoneProved ==
  /\ derivation = "propose"
  /\ candidates = {}
  /\ derivation' = "done"
  /\ UNCHANGED <<sim, candidates, tried, proposal, buffers, exploring, core>>

Pop ==
  /\ derivation = "pop"
  /\ pending # << >>
  /\ node' = pending[Len(pending)]
  /\ pending' = SubSeq(pending, 1, Len(pending) - 1)
  /\ byte' = 1
  /\ derivation' = "explore"
  /\ UNCHANGED <<sim, candidates, tried, proposal, seen, core>>

Proved ==
  /\ derivation = "pop"
  /\ pending = << >>
  /\ core' = proposal
  /\ derivation' = "done"
  /\ UNCHANGED <<sim, candidates, tried, proposal, buffers, exploring>>

(* The killing byte passed over like any other.                            *)
RefutedNever ==
  /\ derivation = "explore"
  /\ byte <= Len(Bytes)
  /\ LiveStep(sim, node[1], Bytes[byte]) = {}
  /\ byte' = byte + 1
  /\ UNCHANGED <<sim, candidates, tried, proposal, buffers, node, derivation, core>>

(* The core-free word read so far and this byte are a death word.          *)
Refuted ==
  /\ derivation = "explore"
  /\ byte <= Len(Bytes)
  /\ LiveStep(sim, node[1], Bytes[byte]) = {}
  /\ tried' = tried + 1
  /\ derivation' = "propose"
  /\ UNCHANGED <<sim, candidates, proposal, buffers, exploring, core>>

(* A byte that completes the core leads out of the search, and one that    *)
(* leads where the search has been adds nothing.                           *)
Step ==
  /\ derivation = "explore"
  /\ byte <= Len(Bytes)
  /\ LET matched == Matcher(proposal)[node[2]][Bytes[byte]]
     IN \E to \in LiveStep(sim, node[1], Bytes[byte]) :
          IF matched = Len(proposal) \/ seen[Cell(to, matched, Len(proposal))] = Stamp
          THEN UNCHANGED buffers
          ELSE /\ seen' = [seen EXCEPT ![Cell(to, matched, Len(proposal))] = Stamp]
               /\ pending' = Append(pending, <<to, matched>>)
  /\ byte' = byte + 1
  /\ UNCHANGED <<sim, candidates, tried, proposal, node, derivation, core>>

Explored ==
  /\ derivation = "explore"
  /\ byte > Len(Bytes)
  /\ derivation' = "pop"
  /\ UNCHANGED <<sim, candidates, tried, proposal, buffers, exploring, core>>

DeriveNext == Propose \/ NoneProved \/ Pop \/ Proved \/ Refuted \/ Step \/ Explored
=============================================================================
