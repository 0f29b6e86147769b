----------------------------- MODULE DeathWords -----------------------------
(***************************************************************************)
(* The mandatory core: the string that every certified window contains,    *)
(* with a byte after it.  A live state whose every step is live survives   *)
(* each single byte, so that a window can be certified only by leading it  *)
(* along a longer word to death; its shortest such word but for the last   *)
(* byte is proposed, and is the core when no word without it kills.        *)
(***************************************************************************)
EXTENDS WindowCloud

CONSTANT Bytes          \* the symbols in the order of their values

ASSUME BytesAssumption ==
  /\ Bytes \in Seq(Symbols)
  /\ \A a \in Symbols : \E i \in 1 .. Len(Bytes) : Bytes[i] = a

NoDeathWord == 0

(* The least byte of a set.                                                *)
LeastByte(bytes) ==
  Bytes[CHOOSE i \in 1 .. Len(Bytes) :
          /\ Bytes[i] \in bytes
          /\ \A j \in 1 .. i - 1 : Bytes[j] \notin bytes]

(* The length of the shortest word that leads the live state to no live    *)
(* one.                                                                    *)
Depth(D, s) ==
  LET predecessors(r) == { q \in D.live : \E b \in Symbols : r \in LiveStep(D, q, b) }
      dying[n \in 1 .. D.count] ==
        IF n = 1 THEN { r \in D.live : \E b \in Symbols : LiveStep(D, r, b) = {} }
        ELSE UNION { predecessors(r) : r \in dying[n - 1] }
      lengths == { n \in 1 .. D.count : s \in dying[n] }
  IN IF lengths = {} THEN NoDeathWord
     ELSE CHOOSE n \in lengths : \A m \in lengths : n <= m

HasChain(D, s) == Depth(D, s) > 1

(* The least byte that leads one step nearer to death, and where it leads. *)
EnteredBy(D) ==
  [s \in D.live |->
     LeastByte({ a \in Symbols :
       \E t \in LiveStep(D, s, a) :
         Depth(D, t) # NoDeathWord /\ Depth(D, t) + 1 = Depth(D, s) })]

Onward(D) == [s \in D.live |-> D.next[s][EnteredBy(D)[s]]]

(* The death word but for the byte that kills.                             *)
Core(D, s) ==
  LET visited[n \in 0 .. Depth(D, s) - 2] ==
        IF n = 0 THEN s ELSE Onward(D)[visited[n - 1]]
  IN [n \in 1 .. Depth(D, s) - 1 |-> EnteredBy(D)[visited[n - 1]]]

(* The initial state, when it only ever begins tokens, proposes nothing.   *)
Candidates(D) ==
  { s \in D.live : HasChain(D, s) /\ (s = D.init => D.init_reentrant) }

(* How much of the core a text ends with.                                  *)
Ends(text, core) ==
  LET lengths == { n \in 0 .. Len(core) :
                     /\ n <= Len(text)
                     /\ \A i \in 1 .. n : core[i] = text[Len(text) - n + i] }
  IN CHOOSE n \in lengths : \A m \in lengths : m <= n

(* The states, with the bytes of the core matched in them, to which words  *)
(* without the core lead from the origin.                                  *)
CoreFree(D, origin, core) ==
  LET onward(p) ==
        UNION { LiveStep(D, p[1], b) \X
                  ({Ends(Append(SubSeq(core, 1, p[2]), b), core)} \ {Len(core)}) : b \in Symbols }
      bound == D.count * Len(core)
      after[n \in 0 .. bound] ==
        IF n = 0 THEN {<<origin, 0>>} ELSE UNION { onward(p) : p \in after[n - 1] }
  IN UNION { after[n] : n \in 0 .. bound }

(* No word without the core kills the origin.                              *)
ProvesCore(D, origin, core) ==
  \A r \in CoreFree(D, origin, core) : \A b \in Symbols : LiveStep(D, r[1], b) # {}

(* Longest first, the lower state first among equals.                      *)
Before(D, r, s) ==
  \/ Depth(D, r) > Depth(D, s)
  \/ Depth(D, r) = Depth(D, s) /\ r < s

MandatoryCore(D) ==
  LET proposals == { <<s, Core(D, s)>> : s \in Candidates(D) }
      proved == { p \in proposals : ProvesCore(D, p[1], p[2]) }
      longest == CHOOSE p \in proved : \A q \in proved \ {p} : Before(D, p[1], q[1])
  IN IF proved = {} THEN << >> ELSE longest[2]

(* The core occurs in the window with a byte after it.                     *)
Carries(window, core) ==
  \E i \in 0 .. Len(window) - Len(core) - 1 :
    SubSeq(window, i + 1, i + Len(core)) = core
=============================================================================
