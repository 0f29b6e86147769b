--------------------------- MODULE ShortestWindow ---------------------------
(***************************************************************************)
(* shortest_split_window(): a breadth-first search for a shortest window   *)
(* that is_split_window() certifies.  Of a cloud a node remembers only the *)
(* state of the one hypothesis that is to survive, once it is chosen, and  *)
(* the states of the others.                                               *)
(***************************************************************************)
EXTENDS WindowCloud, FiniteSets

CONSTANTS Dfas, Budgets,
          Bytes,        \* the representatives of the byte classes, in order
          MaxWindow     \* the longest window the answers are compared with

VARIABLES
  sim, budget,
  nodes,        \* the nodes reached, in order: also the queue
  reached,      \* per node the node and the byte it was reached by
  at, byte,     \* the node expanded, and the index of the byte read there
  pending,      \* what that byte leads to and is not yet looked at
  outcome,      \* "searching", then "found", "none" or "budget"
  last          \* the node whose path is the window found

given == <<sim, budget>>
queue == <<nodes, reached>>
cursor == <<at, byte>>
vars == <<given, queue, cursor, pending, outcome, last>>

----------------------------------------------------------------------------
(* Whether the initial state is read as the beginning of a token.          *)
Renamed(node) ==
  ~ sim.init_reentrant /\ node.chosen = NoState /\ sim.init \in node.others

Moved(node, b) ==
  LET others == IF Renamed(node) THEN node.others \ {sim.init} ELSE node.others
  IN UNION { LiveStep(sim, s, b) : s \in others }

(* The state of a token that begins at this byte, if one may.              *)
FreshState(node, b) ==
  IF \/ Renamed(node)
     \/ \E s \in node.others \cup ({node.chosen} \cap States(sim)) : Accepting(sim, s)
  THEN LiveStep(sim, sim.init, b) ELSE {}

Node(chosen, others, chose) ==
  [node |-> [chosen |-> chosen, others |-> others], chose |-> chose]

(* The chosen hypothesis not compared with those it meets.                 *)
NodesAfterMerging(node, b) ==
  LET moved == Moved(node, b)
      fresh == FreshState(node, b)
  IN IF node.chosen # NoState
     THEN { Node(s, (moved \cup fresh) \ {s}, FALSE) : s \in LiveStep(sim, node.chosen, b) }
     ELSE { Node(s, moved \ {s}, TRUE) : s \in fresh }
          \cup { Node(NoState, others, FALSE) : others \in {moved \cup fresh} \ {{}} }

(* The fresh origin is what a node before the choice may choose; after it  *)
(* a fresh token is one more of the others, and a hypothesis that meets    *)
(* the chosen one never leaves it again.                                   *)
NodesAfter(node, b) ==
  LET moved == Moved(node, b)
      fresh == FreshState(node, b)
  IN IF node.chosen # NoState
     THEN { Node(s, moved \cup fresh, FALSE) :
              s \in LiveStep(sim, node.chosen, b) \ (moved \cup fresh) }
     ELSE { Node(s, moved, TRUE) : s \in fresh \ moved }
          \cup { Node(NoState, others, FALSE) : others \in {moved \cup fresh} \ {{}} }

----------------------------------------------------------------------------
Init ==
  /\ \E D \in Dfas : sim = Simulator(D, {})
  /\ budget \in Budgets
  /\ nodes = <<[chosen |-> NoState, others |-> sim.live]>>
  /\ reached = <<[parent |-> 0, byte |-> 0, chose |-> FALSE]>>
  /\ at = 1
  /\ byte = 1
  /\ pending = {}
  /\ outcome = IF sim.live = {} THEN "none" ELSE IF budget = 0 THEN "budget" ELSE "searching"
  /\ last = 0

ReadByte ==
  /\ outcome = "searching"
  /\ pending = {}
  /\ at <= Len(nodes)
  /\ byte <= Len(Bytes)
  /\ pending' = NodesAfter(nodes[at], Bytes[byte])
  /\ byte' = byte + 1
  /\ UNCHANGED <<given, queue, at, outcome, last>>

NextNode ==
  /\ outcome = "searching"
  /\ pending = {}
  /\ at <= Len(nodes)
  /\ byte > Len(Bytes)
  /\ at' = at + 1
  /\ byte' = 1
  /\ UNCHANGED <<given, queue, pending, outcome, last>>

Exhausted ==
  /\ outcome = "searching"
  /\ at > Len(nodes)
  /\ outcome' = "none"
  /\ UNCHANGED <<given, queue, cursor, pending, last>>

(* The node that chose comes first.                                        *)
FirstPending(e) ==
  /\ e \in pending
  /\ \A f \in pending : f.chose => e.chose

Known(e) == \E i \in 1 .. Len(nodes) : nodes[i] = e.node

Drop(e) ==
  /\ outcome = "searching"
  /\ FirstPending(e)
  /\ Known(e)
  /\ pending' = pending \ {e}
  /\ UNCHANGED <<given, queue, cursor, outcome, last>>

GiveUp(e) ==
  /\ outcome = "searching"
  /\ FirstPending(e)
  /\ ~ Known(e)
  /\ Len(nodes) >= budget
  /\ outcome' = "budget"
  /\ UNCHANGED <<given, queue, cursor, pending, last>>

(* The chosen hypothesis is the only one left.                             *)
Certifies(node) == node.chosen # NoState /\ node.others = {}

Reach(e) ==
  /\ outcome = "searching"
  /\ FirstPending(e)
  /\ ~ Known(e)
  /\ Len(nodes) < budget
  /\ nodes' = Append(nodes, e.node)
  /\ reached' = Append(reached, [parent |-> at, byte |-> Bytes[byte - 1], chose |-> e.chose])
  /\ pending' = pending \ {e}
  /\ outcome' = IF Certifies(e.node) THEN "found" ELSE outcome
  /\ last' = IF Certifies(e.node) THEN Len(nodes) + 1 ELSE last
  /\ UNCHANGED <<given, cursor>>

Next ==
  \/ ReadByte \/ NextNode \/ Exhausted
  \/ \E e \in pending : Drop(e) \/ GiveUp(e) \/ Reach(e)

Spec == Init /\ [][Next]_vars

(* The bytes on the way to the node, and how many came before its origin.  *)
WindowTo(node) ==
  LET path[n \in 1 .. Len(nodes)] ==
        IF n = 1 THEN << >> ELSE Append(path[reached[n].parent], reached[n].byte)
  IN path[node]

OriginTo(node) ==
  LET before[n \in 1 .. Len(nodes)] ==
        IF n = 1 THEN 0
        ELSE IF reached[n].chose THEN Len(WindowTo(reached[n].parent))
        ELSE before[reached[n].parent]
  IN before[node]

----------------------------------------------------------------------------
Windows(n) == [1 .. n -> Symbols]

(* What the search finds with the origins forgotten is what the cloud with *)
(* all of its origins certifies, at the same origin, and no shorter window *)
(* is certified (split_window.hpp 89-93, 104-105); and it says that no     *)
(* window is certified only when none is, and not because the nodes ran    *)
(* out (split_window.hpp 97-98).                                           *)
FoundIsShortest ==
  /\ outcome = "found" =>
       LET window == WindowTo(last)
       IN /\ SplitOrigin(sim, window) = OriginTo(last)
          /\ \A n \in 1 .. Len(window) - 1 : \A w \in Windows(n) :
               SplitOrigin(sim, w) = BeforeWindow
  /\ outcome = "none" =>
       \A n \in 1 .. MaxWindow : \A w \in Windows(n) : SplitOrigin(sim, w) = BeforeWindow
=============================================================================
