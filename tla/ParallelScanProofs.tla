------------------------ MODULE ParallelScanProofs ------------------------
(***************************************************************************)
(* The parallel scan of every automaton over every input, in any number of *)
(* chunks and under any schedule of its threads, sinks that throw and      *)
(* threads that do not start: what it returns is the serial scan's, no     *)
(* exception is lost and no sink is called after the end.                  *)
(***************************************************************************)
EXTENDS ParallelScan, DfaTheorems

(* The planner's invariants, proved of the planner by itself.              *)
Planner == INSTANCE ChunkPlanProofs WITH split_points <- sim.split_points

LEMMA PlannerAssumptions == Planner!SizeAssumption /\ Planner!PlanAssumption
  BY ParallelAssumption DEF Planner!SizeAssumption, Planner!PlanAssumption, Planner!SizeT

LEMMA PlannerStarts ==
  ASSUME sim.split_points \in SUBSET Symbols, input \in Inputs,
         chunks \in 0 .. MaxChunks, Plan!PlannerInit
  PROVE  Planner!IInv
<1>1. Planner!Init
  BY DEF Plan!PlannerInit, Planner!PlannerInit, Planner!Init,
         Plan!DivisionTargets, Planner!DivisionTargets, Plan!size, Planner!size,
         Plan!usable, Planner!usable
<1>2. QED
  BY <1>1, PlannerAssumptions, Planner!InitIInv

LEMMA PlannerSteps ==
  ASSUME Planner!IInv,
         Plan!Next \/ UNCHANGED <<given, planner>>
  PROVE  Planner!IInv'
<1> USE DEF Plan!given, Planner!given, Plan!planner, Planner!planner,
            Plan!size, Planner!size, Plan!usable, Planner!usable,
            Plan!back, Planner!back, Plan!Certified, Planner!Certified,
            Plan!SizeT, Planner!SizeT, Plan!MaxOf, Planner!MaxOf, Plan!Plus, Planner!Plus
<1>1. Plan!WholeInput => Planner!WholeInput
  BY DEF Plan!WholeInput, Planner!WholeInput
<1>2. Plan!Divide => Planner!Divide
  BY DEF Plan!Divide, Planner!Divide
<1>3. Plan!Target => Planner!Target
  BY DEF Plan!Target, Planner!Target, Plan!NextTarget, Planner!NextTarget
<1>4. Plan!Walk => Planner!Walk
  BY DEF Plan!Walk, Planner!Walk
<1>5. Plan!Cut => Planner!Cut
  BY DEF Plan!Cut, Planner!Cut
<1>6. Plan!NoCut => Planner!NoCut
  BY DEF Plan!NoCut, Planner!NoCut
<1>7. Plan!Close => Planner!Close
  BY DEF Plan!Close, Planner!Close
<1>8. Plan!Next => Planner!Next
  BY <1>1, <1>2, <1>3, <1>4, <1>5, <1>6, <1>7 DEF Plan!Next, Planner!Next
<1>9. UNCHANGED <<given, planner>> => UNCHANGED Planner!planVars
  BY DEF given, planner, Planner!planVars
<1>10. QED
  BY <1>8, <1>9, PlannerAssumptions, Planner!NextIInv
(* What the scans need of a finished plan.                                 *)
PlanFinished ==
  /\ count \in Nat /\ last \in ChunkIds /\ last = count - 1
  /\ count \in 1 .. Plan!MaxOf(1, MaxChunks)
  /\ BeginOf(0) = 0 /\ EndOf(last) = Len(input)
  /\ \A k \in 0 .. last :
       /\ k \in ChunkIds
       /\ BeginOf(k) \in 0 .. Len(input) /\ EndOf(k) \in BeginOf(k) .. Len(input)
       /\ Len(input) > 0 => BeginOf(k) < EndOf(k)
       /\ k > 0 => CertifiedAt(sim, input, BeginOf(k))
       /\ CertifiedAt(sim, input, EndOf(k))
  /\ \A k \in 0 .. last - 1 : EndOf(k) = BeginOf(k + 1)

----------------------------------------------------------------------------
(* The chunks' scans against the serial scan's tail from where they are.   *)
tail == SerialFrom(sim, input)

Started(k) ==
  k < spawned \/ (k = last /\ call \in {"scanning", "joining", "returned", "rethrown"})

TypeOK ==
  /\ \E D \in Dfas : sim = Simulator(D, {})
  /\ call \in {"planning", "spawning", "scanning", "joining", "unwinding",
               "returned", "rethrown", "spawn_failed"}
  /\ spawned \in Nat
  /\ worker \in [ChunkIds -> {"idle", "scanning", "caught", "locked", "keeping",
                              "finished", "failed"}]
  /\ offset \in [ChunkIds -> 0 .. Len(input)]
  /\ streams \in [ChunkIds -> Seq(Lexemes(input))]
  /\ consumed \in [ChunkIds -> Int]
  /\ failure_mutex \in ChunkIds \cup {NoChunk}
  /\ failure \in ChunkIds \cup {NoChunk}

(* The calling thread: which workers have been started when, and that it   *)
(* waits for them.                                                         *)
CallInv ==
  /\ call = "planning" => spawned = 0
  /\ call # "planning" => planning = "planned"
  /\ planning = "planned" => spawned \in 0 .. last
  /\ call \in {"scanning", "joining", "returned", "rethrown"} => spawned = last
  /\ \A k \in ChunkIds : worker[k] # "idle" <=> (call # "planning" /\ Started(k))
  /\ call \in {"joining", "returned", "rethrown"} => Ended(last)
  /\ CallEnded => Joined

(* The exception kept, under its mutex.                                    *)
FailureInv ==
  /\ \A k \in ChunkIds : worker[k] \in {"locked", "keeping"} <=> failure_mutex = k
  /\ \A k \in ChunkIds : worker[k] = "keeping" => failure = NoChunk
  /\ \A k \in ChunkIds : worker[k] = "failed" => failure # NoChunk
  /\ failure # NoChunk => worker[failure] = "failed"
  /\ call = "returned" => failure = NoChunk
  /\ call = "rethrown" => failure # NoChunk

(* A chunk's scan has emitted what the serial scan would from the chunk's  *)
(* front to where it is now.                                               *)
Follows(k) ==
  /\ offset[k] \in BeginOf(k) .. EndOf(k)
  /\ tail[BeginOf(k)].stream = streams[k] \o tail[offset[k]].stream
  /\ tail[BeginOf(k)].consumed = tail[offset[k]].consumed
  /\ worker[k] = "finished" =>
       /\ MatchLengths(sim, Chunk(k), offset[k]) = {}
       /\ consumed[k] = offset[k] - BeginOf(k)

StreamInv ==
  \A k \in ChunkIds :
    IF worker[k] = "idle" THEN streams[k] = << >> ELSE Follows(k)

IInv == Planner!IInv /\ TypeOK /\ CallInv /\ FailureInv /\ StreamInv
LEMMA PlanIsFinished ==
  Planner!IInv /\ TypeOK /\ planning = "planned" => PlanFinished
<1> SUFFICES ASSUME Planner!IInv, TypeOK, planning = "planned" PROVE PlanFinished
  OBVIOUS
<1> PICK D \in Dfas : sim = Simulator(D, {})
  BY DEF TypeOK
<1>0. /\ input \in Seq(Symbols) /\ Len(input) \in Nat
      /\ MaxChunks \in Nat /\ chunks \in 0 .. MaxChunks
      /\ sim.split_points = SplitPoints(sim, {})
  BY ParallelAssumption, SimulatorTables DEF Planner!IInv, Planner!TypeOK
<1>1. /\ boundaries \in Seq(0 .. Len(input)) /\ boundaries[1] = 0
      /\ Len(boundaries) \in 2 .. Planner!MaxOf(1, chunks) + 1
      /\ boundaries[Len(boundaries)] = Len(input)
      /\ Len(input) > 0 => \A i \in 1 .. Len(boundaries) - 1 :
                             boundaries[i] < boundaries[i + 1]
  BY DEF Planner!IInv, Planner!TypeOK, Planner!BoundariesPartition, Planner!back,
         Planner!size
<1>2. \A i \in 2 .. Len(boundaries) :
        boundaries[i] < Len(input) => input[boundaries[i] + 1] \in SplitPoints(sim, {})
  BY <1>0 DEF Planner!IInv, Planner!InteriorCertified, Planner!Certified, Planner!size
<1>3. /\ count \in Nat /\ last = count - 1
      /\ count \in 1 .. Plan!MaxOf(1, MaxChunks) /\ last \in ChunkIds
      /\ Len(boundaries) = last + 2
  BY <1>0, <1>1 DEF count, last, ChunkIds, Plan!MaxOf, Planner!MaxOf
<1>4. \A i \in 1 .. Len(boundaries) : boundaries[i] \in 0 .. Len(input)
  BY <1>1
<1>5. \A i \in 2 .. Len(boundaries) : CertifiedAt(sim, input, boundaries[i])
  BY <1>0, <1>2, <1>4 DEF CertifiedAt
<1>6. BeginOf(0) = 0 /\ EndOf(last) = Len(input)
  BY <1>1, <1>3 DEF BeginOf, EndOf
<1>7. ASSUME NEW k \in 0 .. last
      PROVE  /\ k \in ChunkIds
             /\ BeginOf(k) \in 0 .. Len(input) /\ EndOf(k) \in BeginOf(k) .. Len(input)
             /\ Len(input) > 0 => BeginOf(k) < EndOf(k)
             /\ k > 0 => CertifiedAt(sim, input, BeginOf(k))
             /\ CertifiedAt(sim, input, EndOf(k))
  <2>1. /\ k + 1 \in 1 .. Len(boundaries) - 1 /\ k + 1 \in 1 .. Len(boundaries)
        /\ k + 2 \in 2 .. Len(boundaries) /\ k + 2 \in 1 .. Len(boundaries)
        /\ (k + 1) + 1 = k + 2 /\ k > 0 => k + 1 \in 2 .. Len(boundaries)
    BY <1>3
  <2>2. k \in ChunkIds
    BY <1>0, <1>3 DEF ChunkIds, Plan!MaxOf
  <2>3. boundaries[k + 1] \in 0 .. Len(input) /\ boundaries[k + 2] \in 0 .. Len(input)
    BY <1>4, <2>1
  <2>4. Len(input) > 0 => boundaries[k + 1] < boundaries[k + 2]
    BY <1>1, <2>1
  <2>5. QED
    BY <1>0, <1>5, <2>1, <2>2, <2>3, <2>4 DEF BeginOf, EndOf
<1>8. \A k \in 0 .. last - 1 : EndOf(k) = BeginOf(k + 1)
  BY <1>3 DEF BeginOf, EndOf
<1>9. QED
  BY <1>3, <1>6, <1>7, <1>8 DEF PlanFinished

LEMMA PlanWillBeFinished ==
  (Planner!IInv /\ TypeOK /\ planning = "planned")' => PlanFinished'
  BY PlanIsFinished, PTL

LEMMA ChunkIdsAreNumbers == ChunkIds \subseteq Nat /\ NoChunk \notin ChunkIds
  BY ParallelAssumption DEF ChunkIds, Plan!MaxOf

(* What a started chunk's scan has to go by.                               *)
LEMMA StartedChunk ==
  IInv => \A k \in ChunkIds : worker[k] # "idle" =>
            /\ planning = "planned" /\ PlanFinished /\ call # "planning"
            /\ k \in 0 .. last /\ Started(k) /\ Follows(k)
<1> SUFFICES ASSUME IInv, NEW k \in ChunkIds, worker[k] # "idle"
             PROVE  /\ planning = "planned" /\ PlanFinished /\ call # "planning"
                    /\ k \in 0 .. last /\ Started(k) /\ Follows(k)
  OBVIOUS
<1>1. call # "planning" /\ Started(k) /\ planning = "planned" /\ spawned \in 0 .. last
  BY DEF IInv, CallInv
<1>2. PlanFinished
  BY <1>1, PlanIsFinished DEF IInv
<1>3. last \in Nat /\ k \in Nat
  BY <1>2, ParallelAssumption DEF PlanFinished, ChunkIds, Plan!MaxOf
<1>4. QED
  BY <1>1, <1>2, <1>3 DEF Started, IInv, StreamInv

LEMMA SpawningFacts ==
  IInv /\ call = "spawning" =>
    /\ planning = "planned" /\ PlanFinished /\ last \in Nat
    /\ spawned \in 0 .. last
    /\ \A k \in 0 .. last : k \in ChunkIds /\ BeginOf(k) \in 0 .. Len(input)
  BY PlanIsFinished, ChunkIdsAreNumbers DEF IInv, CallInv, PlanFinished

(* What the automaton and the input are.                                   *)
LEMMA GivenTables ==
  IInv => /\ IsDfa(sim) /\ sim.split_points = SplitPoints(sim, {})
          /\ input \in Seq(Symbols) /\ Len(input) \in Nat
<1> SUFFICES ASSUME IInv
             PROVE  /\ IsDfa(sim) /\ sim.split_points = SplitPoints(sim, {})
                    /\ input \in Seq(Symbols) /\ Len(input) \in Nat
  OBVIOUS
<1>1. PICK D \in Dfas : sim = Simulator(D, {})
  BY DEF IInv, TypeOK
<1>2. IsDfa(sim) /\ sim.split_points = SplitPoints(sim, {})
  BY <1>1, ParallelAssumption, SimulatorTables
<1>3. input \in Seq(Symbols) /\ Len(input) \in Nat
  BY ParallelAssumption DEF IInv, Planner!IInv, Planner!TypeOK
<1>4. QED
  BY <1>2, <1>3

----------------------------------------------------------------------------
LEMMA InitIInv == Init => IInv
<1> SUFFICES ASSUME Init PROVE IInv
  OBVIOUS
<1> USE DEF Init
<1>1. PICK D \in Dfas : sim = Simulator(D, {})
  OBVIOUS
<1>2. IsDfa(sim) /\ sim.split_points = SplitPoints(sim, {})
  BY <1>1, ParallelAssumption, SimulatorTables
<1>3. input \in Seq(Symbols) /\ Len(input) \in Nat /\ MaxChunks \in Nat
  BY ParallelAssumption
<1>4. sim.split_points \in SUBSET Symbols
  BY <1>2 DEF SplitPoints
<1>5. Planner!IInv
  BY <1>4, PlannerStarts
<1>6. TypeOK
  BY <1>1, <1>3 DEF TypeOK, ChunkIds
<1>7. planning = "start"
  BY DEF Plan!PlannerInit
<1>8. CallInv /\ FailureInv /\ StreamInv
  BY <1>7, ChunkIdsAreNumbers DEF CallInv, FailureInv, StreamInv, CallEnded
<1>9. QED
  BY <1>5, <1>6, <1>8 DEF IInv

LEMMA NextPlanner == IInv /\ [Next]_vars => Planner!IInv'
<1> SUFFICES ASSUME IInv, [Next]_vars PROVE Planner!IInv'
  OBVIOUS
<1>1. Plan!Next \/ UNCHANGED <<given, planner>>
  BY DEF Next, Call, Scan, vars, PlanStep, Planned, Spawn, SpawnFails, ScanLast,
         LastScanned, Return, Unwound, Emit, SinkThrows, Finish, Lock, Drop, Test, Keep
<1>2. QED
  BY <1>1, PlannerSteps DEF IInv

(* What the plan's operators and the serial scan are made of stays.        *)
LEMMA PlanStays ==
  ASSUME UNCHANGED <<given, planner>>
  PROVE  /\ count' = count /\ last' = last /\ tail' = tail
         /\ \A k : BeginOf(k)' = BeginOf(k) /\ EndOf(k)' = EndOf(k)
                   /\ Chunk(k)' = Chunk(k)
  BY DEF given, planner, count, last, tail, BeginOf, EndOf, Chunk

(* A worker emits the token the serial scan emits at the same offset.      *)
LEMMA EmitFacts ==
  ASSUME IInv, NEW k \in ChunkIds, Emit(k)
  PROVE  /\ UNCHANGED <<given, planner, call, spawned, worker, consumed, failures>>
         /\ worker[k] = "scanning"
         /\ streams' = [streams EXCEPT ![k] = Append(@, TokenAt(sim, input, offset[k]))]
         /\ offset' = [offset EXCEPT ![k] = AfterTokenAt(sim, input, offset[k])]
         /\ MatchLengths(sim, input, offset[k]) # {}
         /\ offset[k] \in 0 .. Len(input)
         /\ TokenAt(sim, input, offset[k]) \in Lexemes(input)
         /\ AfterTokenAt(sim, input, offset[k]) \in offset[k] + 1 .. EndOf(k)
<1>1. /\ UNCHANGED <<given, planner, call, spawned, worker, consumed, failures>>
      /\ worker[k] = "scanning"
      /\ MatchLengths(sim, Chunk(k), offset[k]) # {}
      /\ streams' = [streams EXCEPT ![k] = Append(@, TokenAt(sim, Chunk(k), offset[k]))]
      /\ offset' = [offset EXCEPT ![k] = AfterTokenAt(sim, Chunk(k), offset[k])]
  BY DEF Emit, TokenAt, AfterTokenAt, IInv, TypeOK
<1>2. /\ PlanFinished /\ k \in 0 .. last /\ offset[k] \in BeginOf(k) .. EndOf(k)
  BY <1>1, StartedChunk DEF Follows
<1>3. /\ IsDfa(sim) /\ input \in Seq(Symbols) /\ Len(input) \in Nat
  BY GivenTables
<1>4. /\ BeginOf(k) \in 0 .. Len(input) /\ EndOf(k) \in 0 .. Len(input)
      /\ CertifiedAt(sim, input, EndOf(k))
      /\ offset[k] \in 0 .. EndOf(k) /\ offset[k] \in 0 .. Len(input)
  BY <1>2, <1>3 DEF PlanFinished
<1>5. /\ offset[k] < EndOf(k)
      /\ MatchLengths(sim, Chunk(k), offset[k]) = MatchLengths(sim, input, offset[k])
      /\ TokenAt(sim, Chunk(k), offset[k]) = TokenAt(sim, input, offset[k])
      /\ AfterTokenAt(sim, Chunk(k), offset[k]) = AfterTokenAt(sim, input, offset[k])
      /\ AfterTokenAt(sim, input, offset[k]) \in offset[k] + 1 .. EndOf(k)
  BY <1>1, <1>3, <1>4, ScanUpToCertified DEF Chunk
<1>6. TokenAt(sim, input, offset[k]) \in Lexemes(input)
  BY <1>1, <1>3, <1>4, <1>5, TokenAtIsLexeme
<1>7. QED
  BY <1>1, <1>4, <1>5, <1>6, Zenon

LEMMA NextType == IInv /\ [Next]_vars => TypeOK'
<1> SUFFICES ASSUME IInv, [Next]_vars PROVE TypeOK'
  OBVIOUS
<1>0. TypeOK /\ Len(input) \in Nat /\ ChunkIds \subseteq Nat
  BY GivenTables, ChunkIdsAreNumbers DEF IInv
<1>1. CASE PlanStep
  BY <1>0, <1>1 DEF PlanStep, TypeOK, given, results, failures
<1>2. CASE Planned
  BY <1>0, <1>2 DEF Planned, TypeOK, given, results, failures
<1>3. CASE Spawn
  <2>1. /\ spawned \in 0 .. last /\ BeginOf(spawned) \in 0 .. Len(input)
    BY <1>3, SpawningFacts DEF Spawn
  <2>2. worker' = [worker EXCEPT ![spawned] = "scanning"]
        /\ offset' = [offset EXCEPT ![spawned] = BeginOf(spawned)]
        /\ spawned' = spawned + 1
        /\ UNCHANGED <<given, planner, call, streams, consumed, failures>>
    BY <1>3 DEF Spawn, StartScan
  <2>3. offset' \in [ChunkIds -> 0 .. Len(input)]
    BY <1>0, <2>1, <2>2 DEF TypeOK
  <2>4. spawned' \in Nat
    BY <1>0, <2>2 DEF TypeOK
  <2>5. QED
    BY <1>0, <2>2, <2>3, <2>4 DEF TypeOK, given, failures
<1>4. CASE ScanLast
  <2>1. BeginOf(last) \in 0 .. Len(input)
    BY <1>4, SpawningFacts DEF ScanLast
  <2>2. QED
    BY <1>0, <1>4, <2>1 DEF ScanLast, StartScan, TypeOK, given, failures
<1>5. CASE SpawnFails
  BY <1>0, <1>5 DEF SpawnFails, TypeOK, given, results, failures
<1>6. CASE LastScanned
  BY <1>0, <1>6 DEF LastScanned, TypeOK, given, results, failures
<1>7. CASE Return
  BY <1>0, <1>7 DEF Return, TypeOK, given, results, failures
<1>8. CASE Unwound
  BY <1>0, <1>8 DEF Unwound, TypeOK, given, results, failures
<1>9. ASSUME NEW k \in ChunkIds, Emit(k) PROVE TypeOK'
  <2>1. /\ UNCHANGED <<given, planner, call, spawned, worker, consumed, failures>>
        /\ worker[k] = "scanning"
        /\ streams' = [streams EXCEPT ![k] = Append(@, TokenAt(sim, input, offset[k]))]
        /\ offset' = [offset EXCEPT ![k] = AfterTokenAt(sim, input, offset[k])]
        /\ offset[k] \in 0 .. Len(input)
        /\ TokenAt(sim, input, offset[k]) \in Lexemes(input)
        /\ AfterTokenAt(sim, input, offset[k]) \in offset[k] + 1 .. EndOf(k)
    BY <1>9, EmitFacts
  <2>2. PlanFinished /\ k \in 0 .. last
    BY <2>1, StartedChunk
  <2>3. EndOf(k) \in 0 .. Len(input)
    BY <1>0, <2>2 DEF PlanFinished
  <2>4. AfterTokenAt(sim, input, offset[k]) \in 0 .. Len(input)
    BY <2>1, <2>3
  <2>5. offset' \in [ChunkIds -> 0 .. Len(input)]
    BY <1>0, <2>1, <2>4 DEF TypeOK
  <2>6. streams' \in [ChunkIds -> Seq(Lexemes(input))]
    <3>1. Append(streams[k], TokenAt(sim, input, offset[k])) \in Seq(Lexemes(input))
      BY <1>0, <2>1 DEF TypeOK
    <3>2. QED
      BY <1>0, <2>1, <3>1 DEF TypeOK
  <2>7. QED
    BY <1>0, <2>1, <2>5, <2>6 DEF TypeOK, given, failures
<1>10. ASSUME NEW k \in ChunkIds, SinkThrows(k) PROVE TypeOK'
  BY <1>0, <1>10 DEF SinkThrows, TypeOK, given, results, failures
<1>11. ASSUME NEW k \in ChunkIds, Finish(k) PROVE TypeOK'
  <2>1. worker[k] = "scanning"
    BY <1>11 DEF Finish
  <2>2. PlanFinished /\ k \in 0 .. last
    BY <2>1, StartedChunk
  <2>3. BeginOf(k) \in Int /\ offset[k] \in Int
    BY <1>0, <2>2 DEF PlanFinished, TypeOK
  <2>4. offset[k] - BeginOf(k) \in Int
    BY <2>3
  <2>5. QED
    BY <1>0, <1>11, <2>4 DEF Finish, TypeOK, given, failures
<1>12. ASSUME NEW k \in ChunkIds, Lock(k) PROVE TypeOK'
  BY <1>0, <1>12 DEF Lock, TypeOK, given, results
<1>13. ASSUME NEW k \in ChunkIds, Drop(k) PROVE TypeOK'
  BY <1>0, <1>13 DEF Drop, TypeOK, given, results
<1>14. ASSUME NEW k \in ChunkIds, Test(k) PROVE TypeOK'
  BY <1>0, <1>14 DEF Test, TypeOK, given, results, failures
<1>15. ASSUME NEW k \in ChunkIds, Keep(k) PROVE TypeOK'
  BY <1>0, <1>15 DEF Keep, TypeOK, given, results
<1>16. CASE UNCHANGED vars
  BY <1>0, <1>16 DEF vars, TypeOK, given, results, failures
<1>17. QED
  BY <1>1, <1>2, <1>3, <1>4, <1>5, <1>6, <1>7, <1>8, <1>9, <1>10, <1>11, <1>12, <1>13, <1>14,
     <1>15, <1>16 DEF Next, Call, Scan

(* Between two calls of the sink a worker changes only its own place.      *)
LEMMA WorkerSteps ==
  ASSUME TypeOK, NEW k \in ChunkIds, Scan(k)
  PROVE  /\ UNCHANGED <<given, planner, call, spawned>>
         /\ worker[k] \notin {"idle", "finished", "failed"}
         /\ \E place \in {"scanning", "caught", "locked", "keeping", "finished", "failed"} :
              worker' = [worker EXCEPT ![k] = place]
<1>1. \A place : worker[k] = place => worker = [worker EXCEPT ![k] = place]
  BY DEF TypeOK
<1>2. CASE Emit(k)
  <2>1. /\ UNCHANGED <<given, planner, call, spawned, worker>>
        /\ worker[k] = "scanning"
    BY <1>2 DEF Emit
  <2>2. worker' = [worker EXCEPT ![k] = "scanning"]
    BY <1>1, <2>1
  <2>3. QED
    BY <2>1, <2>2
<1>3. CASE SinkThrows(k) \/ Finish(k) \/ Lock(k) \/ Drop(k) \/ Test(k) \/ Keep(k)
  BY <1>3 DEF SinkThrows, Finish, Lock, Drop, Test, Keep
<1>4. QED
  BY <1>2, <1>3 DEF Scan

LEMMA NextCall == IInv /\ [Next]_vars => CallInv'
<1> SUFFICES ASSUME IInv, [Next]_vars PROVE CallInv'
  OBVIOUS
<1>0. /\ TypeOK /\ TypeOK' /\ CallInv /\ ChunkIds \subseteq Nat
      /\ Planner!IInv'
  BY NextType, NextPlanner, ChunkIdsAreNumbers DEF IInv
<1>1. CASE PlanStep
  <2>1. /\ call = "planning" /\ UNCHANGED <<given, call, spawned, worker>>
    BY <1>1 DEF PlanStep
  <2>2. planning' = "planned" => last' \in Nat
    BY <1>0, PlanWillBeFinished, ChunkIdsAreNumbers DEF PlanFinished
  <2>3. QED
    BY <1>0, <2>1, <2>2 DEF CallInv, CallEnded
<1>2. CASE Planned
  <2>1. /\ call = "planning" /\ planning = "planned" /\ call' = "spawning"
        /\ UNCHANGED <<given, planner, spawned, worker>>
    BY <1>2 DEF Planned
  <2>2. last' = last
    BY <2>1, PlanStays
  <2>3. QED
    BY <1>0, <2>1, <2>2 DEF CallInv, CallEnded, Started, planner
<1>3. CASE Spawn
  <2>1. /\ call = "spawning" /\ spawned < last /\ spawned' = spawned + 1
        /\ worker' = [worker EXCEPT ![spawned] = "scanning"]
        /\ UNCHANGED <<given, planner, call>>
    BY <1>3 DEF Spawn, StartScan
  <2>2. last' = last
    BY <2>1, PlanStays
  <2>3. spawned \in 0 .. last /\ last \in Nat /\ spawned \in ChunkIds
    BY <2>1, SpawningFacts
  <2>4. \A k \in ChunkIds : worker'[k] # "idle" <=> k < spawned'
    <3>1. \A k \in ChunkIds : worker[k] # "idle" <=> k < spawned
      BY <1>0, <2>1 DEF CallInv, Started
    <3>2. \A k \in ChunkIds : worker'[k] # "idle" <=> worker[k] # "idle" \/ k = spawned
      BY <1>0, <2>1, <2>3 DEF TypeOK
    <3>3. \A k \in Nat : k < spawned + 1 <=> k < spawned \/ k = spawned
      BY <2>3
    <3>4. QED
      BY <1>0, <2>1, <3>1, <3>2, <3>3
  <2>5. QED
    BY <1>0, <2>1, <2>2, <2>3, <2>4 DEF CallInv, CallEnded, Started, planner
<1>4. CASE ScanLast
  <2>1. /\ call = "spawning" /\ spawned = last /\ call' = "scanning"
        /\ worker' = [worker EXCEPT ![last] = "scanning"]
        /\ UNCHANGED <<given, planner, spawned>>
    BY <1>4 DEF ScanLast, StartScan
  <2>2. last' = last
    BY <2>1, PlanStays
  <2>3. spawned \in 0 .. last /\ last \in Nat
    BY <2>1, SpawningFacts
  <2>4. \A k \in ChunkIds : worker'[k] # "idle" <=> (k < spawned \/ k = last)
    <3>1. \A k \in ChunkIds : worker[k] # "idle" <=> k < spawned
      BY <1>0, <2>1 DEF CallInv, Started
    <3>2. \A k \in ChunkIds : worker'[k] # "idle" <=> worker[k] # "idle" \/ k = last
      BY <1>0, <2>1 DEF TypeOK
    <3>3. QED
      BY <3>1, <3>2
  <2>5. QED
    BY <1>0, <2>1, <2>2, <2>3, <2>4 DEF CallInv, CallEnded, Started, planner
<1>5. CASE SpawnFails
  <2>1. /\ call = "spawning" /\ call' = "unwinding"
        /\ UNCHANGED <<given, planner, spawned, worker>>
    BY <1>5 DEF SpawnFails
  <2>2. last' = last
    BY <2>1, PlanStays
  <2>3. QED
    BY <1>0, <2>1, <2>2 DEF CallInv, CallEnded, Started, planner
<1>6. CASE LastScanned
  <2>1. /\ call = "scanning" /\ Ended(last) /\ call' = "joining"
        /\ UNCHANGED <<given, planner, spawned, worker>>
    BY <1>6 DEF LastScanned
  <2>2. last' = last
    BY <2>1, PlanStays
  <2>3. QED
    BY <1>0, <2>1, <2>2 DEF CallInv, CallEnded, Started, Ended, planner
<1>7. CASE Return
  <2>1. /\ call = "joining" /\ Joined /\ call' \in {"returned", "rethrown"}
        /\ UNCHANGED <<given, planner, spawned, worker>>
    BY <1>7 DEF Return
  <2>2. last' = last
    BY <2>1, PlanStays
  <2>3. QED
    BY <1>0, <2>1, <2>2 DEF CallInv, CallEnded, Joined, Started, Ended, planner
<1>8. CASE Unwound
  <2>1. /\ call = "unwinding" /\ Joined /\ call' = "spawn_failed"
        /\ UNCHANGED <<given, planner, spawned, worker>>
    BY <1>8 DEF Unwound
  <2>2. last' = last
    BY <2>1, PlanStays
  <2>3. QED
    BY <1>0, <2>1, <2>2 DEF CallInv, CallEnded, Joined, Started, Ended, planner
<1>9. ASSUME NEW k \in ChunkIds, Scan(k) PROVE CallInv'
  <2>1. /\ UNCHANGED <<given, planner, call, spawned>>
        /\ worker[k] \notin {"idle", "finished", "failed"}
    BY <1>0, <1>9, WorkerSteps
  <2>2. PICK place \in {"scanning", "caught", "locked", "keeping", "finished", "failed"} :
          worker' = [worker EXCEPT ![k] = place]
    BY <1>0, <1>9, WorkerSteps
  <2>3. last' = last
    BY <2>1, PlanStays
  <2>4. \A j \in ChunkIds : /\ worker'[j] # "idle" <=> worker[j] # "idle"
                            /\ Ended(j) => worker'[j] = worker[j]
    BY <1>0, <2>1, <2>2 DEF TypeOK, Ended
  <2>5. \A j \in ChunkIds : Ended(j) => Ended(j)'
    BY <2>4 DEF Ended
  <2>6. planning = "planned" => /\ last \in ChunkIds
                                /\ \A j \in 0 .. spawned - 1 : j \in ChunkIds
    <3>1. planning = "planned" => PlanFinished /\ spawned \in 0 .. last
      BY <1>0, PlanIsFinished DEF IInv, CallInv
    <3>2. PlanFinished /\ spawned \in 0 .. last =>
            \A j \in 0 .. spawned - 1 : j \in 0 .. last
      BY <1>0 DEF PlanFinished
    <3>3. QED
      BY <3>1, <3>2 DEF PlanFinished
  <2>7. QED
    BY <1>0, <2>1, <2>3, <2>4, <2>5, <2>6 DEF CallInv, CallEnded, Joined, Started, planner
<1>10. CASE UNCHANGED vars
  <2>1. UNCHANGED <<given, planner, call, spawned, worker>>
    BY <1>10 DEF vars
  <2>2. last' = last
    BY <2>1, PlanStays
  <2>3. QED
    BY <1>0, <2>1, <2>2 DEF CallInv, CallEnded, Joined, Started, Ended, planner
<1>11. QED
  BY <1>1, <1>2, <1>3, <1>4, <1>5, <1>6, <1>7, <1>8, <1>9, <1>10 DEF Next, Call

LEMMA NextFailure == IInv /\ [Next]_vars => FailureInv'
<1> SUFFICES ASSUME IInv, [Next]_vars PROVE FailureInv'
  OBVIOUS
<1>0. /\ TypeOK /\ TypeOK' /\ CallInv /\ CallInv' /\ FailureInv
      /\ ChunkIds \subseteq Nat /\ NoChunk \notin ChunkIds
  BY NextType, NextCall, ChunkIdsAreNumbers DEF IInv
<1>1. CASE PlanStep \/ Planned \/ SpawnFails \/ LastScanned \/ Unwound
  <2>1. /\ UNCHANGED <<worker, failure_mutex, failure>>
        /\ call' \notin {"returned", "rethrown"} \/ call' = call
    BY <1>1 DEF PlanStep, Planned, SpawnFails, LastScanned, Unwound, failures
  <2>2. QED
    BY <1>0, <2>1 DEF FailureInv
<1>2. ASSUME NEW k \in ChunkIds, worker[k] = "idle",
             worker' = [worker EXCEPT ![k] = "scanning"], UNCHANGED failures,
             call' \notin {"returned", "rethrown"}
      PROVE  FailureInv'
  <2>1. failure # k
    BY <1>0, <1>2 DEF FailureInv
  <2>2. \A j \in ChunkIds :
          worker'[j] \in {"locked", "keeping", "failed"} \/
          worker[j] \in {"locked", "keeping", "failed"} => worker'[j] = worker[j]
    BY <1>0, <1>2 DEF TypeOK
  <2>3. QED
    BY <1>0, <1>2, <2>1, <2>2 DEF FailureInv, TypeOK, failures
<1>3. CASE Spawn
  <2>1. /\ worker' = [worker EXCEPT ![spawned] = "scanning"] /\ call' = "spawning"
        /\ UNCHANGED failures /\ call = "spawning" /\ spawned < last
    BY <1>3 DEF Spawn, StartScan
  <2>2. spawned \in ChunkIds /\ ~ Started(spawned)
    BY <2>1, SpawningFacts DEF Started
  <2>3. worker[spawned] = "idle"
    BY <1>0, <2>2 DEF CallInv
  <2>4. QED
    BY <1>2, <2>1, <2>2, <2>3
<1>4. CASE ScanLast
  <2>1. /\ worker' = [worker EXCEPT ![last] = "scanning"] /\ call' = "scanning"
        /\ UNCHANGED failures /\ call = "spawning" /\ spawned = last
    BY <1>4 DEF ScanLast, StartScan
  <2>2. last \in ChunkIds /\ ~ Started(last)
    BY <2>1, SpawningFacts DEF Started
  <2>3. worker[last] = "idle"
    BY <1>0, <2>2 DEF CallInv
  <2>4. QED
    BY <1>2, <2>1, <2>2, <2>3
<1>5. CASE Return
  <2>1. /\ UNCHANGED <<worker, failure_mutex, failure>>
        /\ call' = IF failure = NoChunk THEN "returned" ELSE "rethrown"
    BY <1>5 DEF Return, failures
  <2>2. QED
    BY <1>0, <2>1 DEF FailureInv
<1>6. ASSUME NEW k \in ChunkIds, Scan(k) PROVE ~ (call \in {"returned", "rethrown"})
                                               /\ call' = call
  <2>1. UNCHANGED call /\ worker[k] \notin {"idle", "finished", "failed"}
    BY <1>0, <1>6, WorkerSteps
  <2>2. Started(k)
    BY <1>0, <2>1 DEF CallInv
  <2>3. call \in {"returned", "rethrown"} => Ended(k)
    BY <1>0, <2>2 DEF CallInv, CallEnded, Joined, Started
  <2>4. QED
    BY <2>1, <2>3 DEF Ended
<1>7. ASSUME NEW k \in ChunkIds, Emit(k) PROVE FailureInv'
  BY <1>0, <1>7 DEF Emit, FailureInv, failures
<1>8. ASSUME NEW k \in ChunkIds, SinkThrows(k) \/ Finish(k) PROVE FailureInv'
  <2>1. /\ worker[k] = "scanning" /\ UNCHANGED <<call, failure_mutex, failure>>
        /\ worker' = [worker EXCEPT ![k] = "caught"] \/
           worker' = [worker EXCEPT ![k] = "finished"]
    BY <1>8 DEF SinkThrows, Finish, failures
  <2>2. failure # k
    BY <1>0, <2>1 DEF FailureInv
  <2>3. QED
    BY <1>0, <2>1, <2>2 DEF FailureInv, TypeOK
<1>9. ASSUME NEW k \in ChunkIds, Lock(k) PROVE FailureInv'
  <2>1. /\ worker[k] = "caught" /\ failure_mutex = NoChunk /\ failure_mutex' = k
        /\ UNCHANGED <<call, failure>>
        /\ worker' = [worker EXCEPT ![k] = "locked"]
    BY <1>9 DEF Lock
  <2>2. \A j \in ChunkIds : worker[j] \notin {"locked", "keeping"}
    BY <1>0, <2>1 DEF FailureInv
  <2>3. QED
    BY <1>0, <2>1, <2>2 DEF FailureInv, TypeOK
<1>10. ASSUME NEW k \in ChunkIds, Drop(k) PROVE FailureInv'
  <2>1. /\ worker[k] = "locked" /\ failure # NoChunk /\ failure_mutex' = NoChunk
        /\ UNCHANGED <<call, failure>>
        /\ worker' = [worker EXCEPT ![k] = "failed"]
    BY <1>10 DEF Drop
  <2>2. failure_mutex = k
    BY <1>0, <2>1 DEF FailureInv
  <2>3. \A j \in ChunkIds \ {k} : worker[j] \notin {"locked", "keeping"}
    BY <1>0, <2>2 DEF FailureInv
  <2>4. QED
    BY <1>0, <2>1, <2>3 DEF FailureInv, TypeOK
<1>11. ASSUME NEW k \in ChunkIds, Test(k) PROVE FailureInv'
  <2>1. /\ worker[k] = "locked" /\ failure = NoChunk
        /\ UNCHANGED <<call, failure_mutex, failure>>
        /\ worker' = [worker EXCEPT ![k] = "keeping"]
    BY <1>11 DEF Test, failures
  <2>2. QED
    BY <1>0, <2>1 DEF FailureInv, TypeOK
<1>12. ASSUME NEW k \in ChunkIds, Keep(k) PROVE FailureInv'
  <2>1. /\ worker[k] = "keeping" /\ failure_mutex' = NoChunk /\ failure' = k
        /\ call \notin {"returned", "rethrown"} /\ call' = call
        /\ worker' = [worker EXCEPT ![k] = "failed"]
    BY <1>6, <1>12 DEF Keep, Scan
  <2>2. failure_mutex = k
    BY <1>0, <2>1 DEF FailureInv
  <2>3. \A j \in ChunkIds \ {k} : worker[j] \notin {"locked", "keeping"}
    BY <1>0, <2>2 DEF FailureInv
  <2>4. QED
    BY <1>0, <2>1, <2>3 DEF FailureInv, TypeOK
<1>13. CASE UNCHANGED vars
  BY <1>0, <1>13 DEF vars, failures, FailureInv
<1>14. QED
  BY <1>1, <1>3, <1>4, <1>5, <1>7, <1>8, <1>9, <1>10, <1>11, <1>12, <1>13
     DEF Next, Call, Scan

(* One chunk's scan while another thread steps, or the plan is not made.   *)
LEMMA FollowsStays ==
  ASSUME NEW k, UNCHANGED <<given, planner>>, Follows(k),
         offset'[k] = offset[k], streams'[k] = streams[k], consumed'[k] = consumed[k],
         worker'[k] = "finished" => worker[k] = "finished"
  PROVE  Follows(k)'
<1>1. /\ tail' = tail /\ BeginOf(k)' = BeginOf(k) /\ EndOf(k)' = EndOf(k)
      /\ Chunk(k)' = Chunk(k) /\ sim' = sim
  BY PlanStays DEF given
<1>2. QED
  BY <1>1 DEF Follows

LEMMA NextStreams == IInv /\ [Next]_vars => StreamInv'
<1> SUFFICES ASSUME IInv, [Next]_vars PROVE StreamInv'
  OBVIOUS
<1>0. TypeOK /\ TypeOK' /\ CallInv /\ StreamInv /\ ChunkIds \subseteq Nat
  BY NextType, ChunkIdsAreNumbers DEF IInv
<1>1. ASSUME UNCHANGED <<given, planner, results>>,
             NEW S \in SUBSET ChunkIds,
             \A j \in S : \/ worker'[j] = worker[j]
                          \/ /\ worker[j] # "idle" /\ worker'[j] # "idle"
                             /\ worker'[j] # "finished"
      PROVE  \A j \in S : IF worker'[j] = "idle" THEN streams'[j] = << >> ELSE Follows(j)'
  BY <1>0, <1>1, FollowsStays DEF results, StreamInv
<1>2. CASE PlanStep
  <2>1. call = "planning" /\ UNCHANGED <<worker, streams>>
    BY <1>2 DEF PlanStep, results
  <2>2. \A j \in ChunkIds : worker[j] = "idle"
    BY <1>0, <2>1 DEF CallInv
  <2>3. QED
    BY <1>0, <2>1, <2>2 DEF StreamInv
<1>3. CASE Planned \/ SpawnFails \/ LastScanned \/ Return \/ Unwound
  <2>1. UNCHANGED <<given, planner, results, worker>>
    BY <1>3 DEF Planned, SpawnFails, LastScanned, Return, Unwound
  <2>2. QED
    BY <1>1, <2>1 DEF StreamInv
<1>4. ASSUME NEW k \in 0 .. last, PlanFinished, StartScan(k), worker[k] = "idle",
             UNCHANGED <<given, planner, streams, consumed>>
      PROVE  StreamInv'
  <2>1. /\ worker' = [worker EXCEPT ![k] = "scanning"]
        /\ offset' = [offset EXCEPT ![k] = BeginOf(k)]
        /\ k \in ChunkIds /\ streams[k] = << >>
        /\ BeginOf(k) \in 0 .. Len(input) /\ EndOf(k) \in BeginOf(k) .. Len(input)
    BY <1>0, <1>4 DEF StartScan, PlanFinished, StreamInv
  <2>2. Follows(k)'
    <3>1. /\ offset'[k] = BeginOf(k) /\ worker'[k] = "scanning" /\ streams'[k] = << >>
      BY <1>0, <1>4, <2>1 DEF TypeOK
    <3>2. /\ tail' = tail /\ BeginOf(k)' = BeginOf(k) /\ EndOf(k)' = EndOf(k)
      BY <1>4, PlanStays
    <3>3. tail[BeginOf(k)].stream \in Seq(Lexemes(input))
      BY <2>1, GivenTables, SerialType DEF tail
    <3>4. tail[BeginOf(k)].stream = << >> \o tail[BeginOf(k)].stream
      BY <3>3
    <3>5. BeginOf(k) \in BeginOf(k) .. EndOf(k)
      BY <2>1
    <3>6. QED
      BY <3>1, <3>2, <3>4, <3>5 DEF Follows
  <2>3. \A j \in ChunkIds \ {k} :
          IF worker'[j] = "idle" THEN streams'[j] = << >> ELSE Follows(j)'
    <3>1. \A j \in ChunkIds \ {k} :
            /\ worker'[j] = worker[j] /\ offset'[j] = offset[j]
            /\ streams'[j] = streams[j] /\ consumed'[j] = consumed[j]
      BY <1>0, <1>4, <2>1 DEF TypeOK
    <3>2. QED
      BY <1>0, <1>4, <3>1, FollowsStays DEF StreamInv
  <2>4. worker'[k] # "idle"
    BY <1>0, <2>1 DEF TypeOK
  <2>5. QED
    BY <2>2, <2>3, <2>4 DEF StreamInv
<1>5. CASE Spawn
  <2>1. /\ call = "spawning" /\ spawned < last /\ StartScan(spawned)
        /\ UNCHANGED <<given, planner, streams, consumed>>
    BY <1>5 DEF Spawn
  <2>2. spawned \in 0 .. last /\ spawned \in ChunkIds /\ PlanFinished
    BY <2>1, SpawningFacts
  <2>3. worker[spawned] = "idle"
    BY <1>0, <2>1, <2>2 DEF CallInv, Started
  <2>4. QED
    BY <1>4, <2>1, <2>2, <2>3
<1>6. CASE ScanLast
  <2>1. /\ call = "spawning" /\ spawned = last /\ StartScan(last)
        /\ UNCHANGED <<given, planner, streams, consumed>>
    BY <1>6 DEF ScanLast
  <2>2. last \in 0 .. last /\ last \in ChunkIds /\ PlanFinished
    BY <2>1, SpawningFacts
  <2>3. worker[last] = "idle"
    BY <1>0, <2>1, <2>2, SpawningFacts DEF CallInv, Started
  <2>4. QED
    BY <1>4, <2>1, <2>2, <2>3
<1>7. ASSUME NEW k \in ChunkIds, Emit(k) PROVE StreamInv'
  <2> DEFINE t == TokenAt(sim, input, offset[k])
             y == AfterTokenAt(sim, input, offset[k])
  <2>1. /\ UNCHANGED <<given, planner, call, spawned, worker, consumed, failures>>
        /\ worker[k] = "scanning"
        /\ streams' = [streams EXCEPT ![k] = Append(@, t)]
        /\ offset' = [offset EXCEPT ![k] = y]
        /\ MatchLengths(sim, input, offset[k]) # {}
        /\ offset[k] \in 0 .. Len(input)
        /\ t \in Lexemes(input)
        /\ y \in offset[k] + 1 .. EndOf(k)
    BY <1>7, EmitFacts
  <2>2. Follows(k) /\ PlanFinished /\ k \in 0 .. last
    BY <2>1, StartedChunk
  <2>3. BeginOf(k) \in 0 .. Len(input) /\ EndOf(k) \in 0 .. Len(input)
        /\ input \in Seq(Symbols) /\ Len(input) \in Nat /\ IsDfa(sim)
    BY <2>2, GivenTables DEF PlanFinished
  <2>4. y \in 0 .. Len(input) /\ y \in BeginOf(k) .. EndOf(k)
    BY <2>1, <2>2, <2>3 DEF Follows
  <2>5. tail[offset[k]] = [stream |-> <<t>> \o tail[y].stream, consumed |-> tail[y].consumed]
    BY <2>1, <2>3, SerialSteps DEF tail
  <2>6. tail[y].stream \in Seq(Lexemes(input)) /\ streams[k] \in Seq(Lexemes(input))
    BY <1>0, <2>3, <2>4, SerialType DEF tail, TypeOK
  <2>7. /\ offset'[k] = y /\ streams'[k] = Append(streams[k], t)
        /\ worker'[k] = "scanning"
    BY <1>0, <2>1 DEF TypeOK
  <2> HIDE DEF t, y
  <2>8. streams[k] \o (<<t>> \o tail[y].stream) = Append(streams[k], t) \o tail[y].stream
    <3>1. \A e \in Lexemes(input), s, u \in Seq(Lexemes(input)) :
            s \o (<<e>> \o u) = Append(s, e) \o u
      BY AppendConcat
    <3>2. QED
      BY <2>1, <2>6, <3>1, Zenon
  <2>9. /\ tail[BeginOf(k)].stream = Append(streams[k], t) \o tail[y].stream
        /\ tail[BeginOf(k)].consumed = tail[y].consumed
    <3>1. /\ tail[offset[k]].stream = <<t>> \o tail[y].stream
          /\ tail[offset[k]].consumed = tail[y].consumed
      BY <2>5
    <3>2. /\ tail[BeginOf(k)].stream = streams[k] \o tail[offset[k]].stream
          /\ tail[BeginOf(k)].consumed = tail[offset[k]].consumed
      BY <2>2 DEF Follows
    <3>3. QED
      BY <2>8, <3>1, <3>2, Zenon
  <2>10. /\ tail' = tail /\ BeginOf(k)' = BeginOf(k) /\ EndOf(k)' = EndOf(k)
    BY <2>1, PlanStays
  <2>11. Follows(k)'
    BY <2>4, <2>7, <2>9, <2>10 DEF Follows
  <2>12. \A j \in ChunkIds \ {k} :
           IF worker'[j] = "idle" THEN streams'[j] = << >> ELSE Follows(j)'
    <3>1. \A j \in ChunkIds \ {k} :
            /\ worker'[j] = worker[j] /\ offset'[j] = offset[j]
            /\ streams'[j] = streams[j] /\ consumed'[j] = consumed[j]
      BY <1>0, <2>1 DEF TypeOK
    <3>2. QED
      BY <1>0, <2>1, <3>1, FollowsStays DEF StreamInv
  <2>13. QED
    BY <2>7, <2>11, <2>12 DEF StreamInv
<1>8. ASSUME NEW k \in ChunkIds,
             SinkThrows(k) \/ Lock(k) \/ Drop(k) \/ Test(k) \/ Keep(k)
      PROVE  StreamInv'
  <2>1. /\ UNCHANGED <<given, planner, results>>
        /\ worker[k] # "idle"
        /\ \E place \in {"caught", "locked", "keeping", "failed"} :
             worker' = [worker EXCEPT ![k] = place]
    BY <1>8 DEF SinkThrows, Lock, Drop, Test, Keep
  <2>2. \A j \in ChunkIds : \/ worker'[j] = worker[j]
                            \/ /\ worker[j] # "idle" /\ worker'[j] # "idle"
                               /\ worker'[j] # "finished"
    BY <1>0, <2>1 DEF TypeOK
  <2>3. QED
    BY <1>1, <2>1, <2>2 DEF StreamInv
<1>9. ASSUME NEW k \in ChunkIds, Finish(k) PROVE StreamInv'
  <2>1. /\ UNCHANGED <<given, planner, offset, streams>>
        /\ worker[k] = "scanning"
        /\ MatchLengths(sim, Chunk(k), offset[k]) = {}
        /\ consumed' = [consumed EXCEPT ![k] = offset[k] - BeginOf(k)]
        /\ worker' = [worker EXCEPT ![k] = "finished"]
    BY <1>9 DEF Finish
  <2>2. Follows(k)
    BY <2>1, StartedChunk
  <2>3. /\ consumed'[k] = offset[k] - BeginOf(k) /\ worker'[k] = "finished"
    BY <1>0, <2>1 DEF TypeOK
  <2>4. /\ tail' = tail /\ BeginOf(k)' = BeginOf(k) /\ EndOf(k)' = EndOf(k)
        /\ Chunk(k)' = Chunk(k) /\ sim' = sim
    BY <2>1, PlanStays DEF given
  <2>5. Follows(k)'
    BY <2>1, <2>2, <2>3, <2>4 DEF Follows
  <2>6. \A j \in ChunkIds \ {k} :
          IF worker'[j] = "idle" THEN streams'[j] = << >> ELSE Follows(j)'
    <3>1. \A j \in ChunkIds \ {k} :
            /\ worker'[j] = worker[j] /\ offset'[j] = offset[j]
            /\ streams'[j] = streams[j] /\ consumed'[j] = consumed[j]
      BY <1>0, <2>1 DEF TypeOK
    <3>2. QED
      BY <1>0, <2>1, <3>1, FollowsStays DEF StreamInv
  <2>7. QED
    BY <2>3, <2>5, <2>6 DEF StreamInv
<1>10. CASE UNCHANGED vars
  <2>1. UNCHANGED <<given, planner, results, worker>>
    BY <1>10 DEF vars
  <2>2. QED
    BY <1>1, <2>1 DEF StreamInv
<1>11. QED
  BY <1>2, <1>3, <1>5, <1>6, <1>7, <1>8, <1>9, <1>10 DEF Next, Call, Scan

LEMMA IInvInvariant == Spec => []IInv
<1>1. Init => IInv
  BY InitIInv
<1>2. IInv /\ [Next]_vars => IInv'
  BY NextPlanner, NextType, NextCall, NextFailure, NextStreams DEF IInv
<1>3. QED
  BY <1>1, <1>2, PTL DEF Spec

----------------------------------------------------------------------------
(* The call ends only when no thread is left that could call a sink.       *)
THEOREM NoLateSink == Spec => []NoSinkAfterReturn
<1>1. IInv => NoSinkAfterReturn
  <2> SUFFICES ASSUME IInv, CallEnded, NEW k \in ChunkIds, worker[k] # "idle"
               PROVE  Ended(k)
    BY DEF NoSinkAfterReturn
  <2>1. Started(k) /\ Joined /\ k \in Nat /\ spawned \in Nat
    BY ChunkIdsAreNumbers DEF IInv, CallInv, TypeOK
  <2>2. CASE k < spawned
    BY <2>1, <2>2 DEF Joined
  <2>3. CASE k = last /\ call \in {"returned", "rethrown"}
    BY <2>3 DEF IInv, CallInv
  <2>4. QED
    BY <2>1, <2>2, <2>3 DEF Started, CallEnded
<1>2. QED
  BY <1>1, IInvInvariant, PTL

(* A call that returns had no sink throw, and one that rethrows rethrows   *)
(* what a sink threw.                                                      *)
THEOREM ExceptionKept == Spec => []ExceptionNeverLost
<1>1. IInv => ExceptionNeverLost
  BY DEF IInv, FailureInv, ExceptionNeverLost
<1>2. QED
  BY <1>1, IInvInvariant, PTL

(* What a chunk's scan has emitted is a part of the serial stream, if the  *)
(* serial scan comes as far as the chunk.                                  *)
LEMMA StreamInSerial ==
  ASSUME IInv, NEW k \in ChunkIds, worker[k] # "idle", tail[0].consumed >= BeginOf(k)
  PROVE  \E front \in Seq(Lexemes(input)) :
           tail[0].stream = front \o (streams[k] \o tail[offset[k]].stream)
<1>1. PlanFinished /\ k \in 0 .. last /\ Follows(k)
  BY StartedChunk
<1>2. IsDfa(sim) /\ input \in Seq(Symbols) /\ Len(input) \in Nat
  BY GivenTables
<1>3. BeginOf(k) \in 0 .. Len(input) /\ 0 \in 0 .. BeginOf(k)
  BY <1>1, <1>2 DEF PlanFinished
<1>4. /\ tail[BeginOf(k)].stream = streams[k] \o tail[offset[k]].stream
      /\ tail[BeginOf(k)].stream \in Seq(Lexemes(input))
  BY <1>1, <1>2, <1>3, SerialType DEF Follows, tail
<1>5. CASE k = 0
  <2>1. << >> \in Seq(Lexemes(input)) /\ BeginOf(k) = 0
    BY <1>1, <1>5 DEF PlanFinished
  <2>2. \A s \in Seq(Lexemes(input)) : << >> \o s = s
    OBVIOUS
  <2>3. tail[0].stream = << >> \o (streams[k] \o tail[offset[k]].stream)
    BY <1>4, <2>1, <2>2
  <2>4. QED
    BY <2>1, <2>3
<1>6. CASE k > 0
  <2>1. CertifiedAt(sim, input, BeginOf(k))
    BY <1>1, <1>6 DEF PlanFinished
  <2>2. \E front \in Seq(Lexemes(input)) : tail[0].stream = front \o tail[BeginOf(k)].stream
    BY <1>2, <1>3, <2>1, SerialPasses DEF tail
  <2>3. QED
    BY <1>4, <2>2
<1>7. k = 0 \/ k > 0
  BY ChunkIdsAreNumbers
<1>8. QED
  BY <1>5, <1>6, <1>7, Zenon

(* While the scans are on their way, each emits the tokens the serial scan *)
(* would, as long as that scan reaches the chunk's front.                  *)
THEOREM ScansFollowSerial == Spec => []ChunksFollowSerial
<1>1. serial = tail[0]
  BY DEF serial, Serial, tail
<1>2. ASSUME IInv PROVE ChunksFollowSerial
  <2> SUFFICES ASSUME planning = "planned", NEW k \in 0 .. last,
                      serial.consumed >= BeginOf(k), NEW i \in DOMAIN streams[k]
               PROVE  \E j \in DOMAIN serial.stream : serial.stream[j] = streams[k][i]
    BY DEF ChunksFollowSerial
  <2>1. k \in ChunkIds
    BY <1>2, PlanIsFinished DEF IInv, PlanFinished
  <2>2. worker[k] # "idle"
    BY <1>2, <2>1 DEF IInv, StreamInv
  <2>3. PICK front \in Seq(Lexemes(input)) :
          serial.stream = front \o (streams[k] \o tail[offset[k]].stream)
    BY <1>1, <1>2, <2>1, <2>2, StreamInSerial
  <2>4. /\ streams[k] \in Seq(Lexemes(input))
        /\ tail[offset[k]].stream \in Seq(Lexemes(input))
    BY <1>2, <2>1, GivenTables, SerialType DEF IInv, TypeOK, tail
  <2>5. \A s, t, u \in Seq(Lexemes(input)) : \A m \in DOMAIN t :
          /\ Len(s) + m \in DOMAIN (s \o (t \o u))
          /\ (s \o (t \o u))[Len(s) + m] = t[m]
    OBVIOUS
  <2> DEFINE whole == front \o (streams[k] \o tail[offset[k]].stream)
  <2>6. Len(front) + i \in DOMAIN whole /\ whole[Len(front) + i] = streams[k][i]
    BY <2>4, <2>5
  <2>7. serial.stream = whole
    BY <2>3
  <2> HIDE DEF whole
  <2>8. QED
    BY <2>6, <2>7, Zenon
<1>3. QED
  BY <1>2, IInvInvariant, PTL

----------------------------------------------------------------------------
(* What the call returns.  The chunks' streams are put together one by     *)
(* one; chunkStreams is the recursive function of Concatenation.           *)
chunkStreams ==
  CHOOSE f : f = [ k \in 0 .. count |->
                     IF k = 0 THEN << >> ELSE f[k - 1] \o streams[k - 1] ]

LEMMA ConcatenationSteps ==
  ASSUME count \in Nat
  PROVE  /\ Concatenation = chunkStreams[count]
         /\ chunkStreams[0] = << >>
         /\ \A k \in 0 .. count - 1 : chunkStreams[k + 1] = chunkStreams[k] \o streams[k]
<1> DEFINE Is(f, n) == f = [ k \in 0 .. n |->
                               IF k = 0 THEN << >> ELSE f[k - 1] \o streams[k - 1] ]
           S == { n \in 0 .. count : \E f : Is(f, n) }
<1>1. 0 \in S
  <2>1. Is([k \in 0 .. 0 |-> << >>], 0)
    OBVIOUS
  <2> HIDE DEF Is
  <2>2. QED
    BY <2>1
<1>2. ASSUME NEW n \in 0 .. count - 1, n \in S PROVE n + 1 \in S
  <2>0. n + 1 \in 0 .. count /\ n \in Nat
    OBVIOUS
  <2>1. PICK f : Is(f, n)
    BY <1>2
  <2> DEFINE nxt == f[n] \o streams[n]
             g == [ k \in 0 .. n + 1 |-> IF k = n + 1 THEN nxt ELSE f[k] ]
  <2>2. \A k \in 0 .. n : g[k] = f[k]
    BY <2>0
  <2>3. ASSUME NEW k \in 0 .. n + 1
        PROVE  g[k] = IF k = 0 THEN << >> ELSE g[k - 1] \o streams[k - 1]
    <3>1. CASE k = n + 1
      <4>1. g[k] = nxt /\ k # 0 /\ k - 1 = n /\ g[k - 1] = f[n]
        BY <2>0, <2>2, <3>1
      <4> HIDE DEF g
      <4>2. QED
        BY <4>1
    <3>2. CASE k \in 0 .. n
      <4>1. g[k] = f[k] /\ (k # 0 => k - 1 \in 0 .. n /\ g[k - 1] = f[k - 1])
        BY <2>0, <2>2, <3>2
      <4>2. f[k] = IF k = 0 THEN << >> ELSE f[k - 1] \o streams[k - 1]
        BY <2>1, <3>2
      <4> HIDE DEF g
      <4>3. QED
        BY <4>1, <4>2
    <3>3. QED
      BY <2>0, <3>1, <3>2
  <2>4. g = [ k \in 0 .. n + 1 |-> g[k] ]
    OBVIOUS
  <2>5. Is(g, n + 1)
    <3> HIDE DEF g
    <3> QED
      BY <2>3, <2>4
  <2> HIDE DEF g, Is
  <2>6. QED
    BY <2>0, <2>5
<1> HIDE DEF S
<1>3. count \in S
  BY <1>1, <1>2, UpTo
<1>4. Is(chunkStreams, count)
  <2>1. \E f : Is(f, count)
    BY <1>3 DEF S
  <2>2. chunkStreams = CHOOSE f : Is(f, count)
    BY DEF chunkStreams
  <2> HIDE DEF Is
  <2>3. QED
    BY <2>1, <2>2
<1>5. Concatenation = chunkStreams[count]
  BY DEF Concatenation, chunkStreams
<1>6. \A k \in 0 .. count :
        chunkStreams[k] = IF k = 0 THEN << >> ELSE chunkStreams[k - 1] \o streams[k - 1]
  BY <1>4
<1>7. chunkStreams[0] = << >>
  BY <1>6
<1>8. ASSUME NEW k \in 0 .. count - 1
      PROVE  chunkStreams[k + 1] = chunkStreams[k] \o streams[k]
  <2>1. k + 1 \in 0 .. count /\ k + 1 # 0 /\ (k + 1) - 1 = k
    OBVIOUS
  <2>2. QED
    BY <1>6, <2>1
<1>9. QED
  BY <1>5, <1>7, <1>8

LEMMA PrefixExtends ==
  \A S : \A s, t, u \in Seq(S) :
    /\ IsPrefix(s, s)
    /\ IsPrefix(s, t) => IsPrefix(s, t \o u)
<1> TAKE S
<1> TAKE s \in Seq(S), t \in Seq(S), u \in Seq(S)
<1>1. s = SubSeq(s, 1, Len(s)) /\ Len(s) \in Nat
  OBVIOUS
<1>2. ASSUME IsPrefix(s, t) PROVE IsPrefix(s, t \o u)
  <2>1. Len(s) <= Len(t) /\ s = SubSeq(t, 1, Len(s))
    BY <1>2 DEF IsPrefix
  <2>2. SubSeq(t \o u, 1, Len(s)) = SubSeq(t, 1, Len(s))
    BY <2>1
  <2>3. Len(s) <= Len(t \o u)
    BY <2>1
  <2>4. QED
    BY <2>1, <2>2, <2>3 DEF IsPrefix
<1>3. QED
  BY <1>1, <1>2 DEF IsPrefix

(* When the call returns, every chunk's scan has come to its end.          *)
LEMMA ReturnedFacts ==
  ASSUME IInv, call = "returned"
  PROVE  /\ PlanFinished
         /\ \A k \in 0 .. last :
              /\ Follows(k) /\ streams[k] \in Seq(Lexemes(input))
              /\ offset[k] \in 0 .. EndOf(k)
              /\ consumed[k] = offset[k] - BeginOf(k)
              /\ offset[k] < EndOf(k) =>
                   tail[offset[k]] = [stream |-> << >>, consumed |-> offset[k]]
<1>1. planning = "planned" /\ spawned = last /\ failure = NoChunk /\ Joined /\ Ended(last)
  BY DEF IInv, CallInv, FailureInv, CallEnded
<1>2. PlanFinished
  BY <1>1, PlanIsFinished DEF IInv
<1>3. IsDfa(sim) /\ input \in Seq(Symbols) /\ Len(input) \in Nat
  BY GivenTables
<1>4. ASSUME NEW k \in 0 .. last
      PROVE  /\ Follows(k) /\ streams[k] \in Seq(Lexemes(input))
             /\ offset[k] \in 0 .. EndOf(k)
             /\ consumed[k] = offset[k] - BeginOf(k)
             /\ offset[k] < EndOf(k) =>
                  tail[offset[k]] = [stream |-> << >>, consumed |-> offset[k]]
  <2>1. k \in ChunkIds /\ last \in Nat
    BY <1>2, ChunkIdsAreNumbers DEF PlanFinished
  <2>2. k \in 0 .. spawned - 1 \/ k = last
    BY <1>1, <2>1
  <2>3. worker[k] = "finished"
    BY <1>1, <2>1, <2>2 DEF Ended, Joined, IInv, FailureInv
  <2>4. /\ Follows(k) /\ MatchLengths(sim, Chunk(k), offset[k]) = {}
        /\ consumed[k] = offset[k] - BeginOf(k) /\ streams[k] \in Seq(Lexemes(input))
    BY <2>1, <2>3 DEF IInv, StreamInv, Follows, TypeOK
  <2>5. /\ BeginOf(k) \in 0 .. Len(input) /\ EndOf(k) \in BeginOf(k) .. Len(input)
        /\ CertifiedAt(sim, input, EndOf(k)) /\ offset[k] \in BeginOf(k) .. EndOf(k)
    BY <1>2, <2>4 DEF PlanFinished, Follows
  <2>6. /\ EndOf(k) \in 0 .. Len(input) /\ offset[k] \in 0 .. EndOf(k)
        /\ offset[k] \in 0 .. Len(input)
    BY <1>3, <2>5
  <2>7. offset[k] < EndOf(k) => MatchLengths(sim, input, offset[k]) = {}
    BY <1>3, <2>4, <2>5, <2>6, ScanUpToCertified DEF Chunk
  <2>8. QED
    BY <1>3, <2>4, <2>6, <2>7, SerialSteps DEF tail
<1>5. QED
  BY <1>2, <1>4, Zenon

(* The first chunks as long as their scans consume them whole, and from    *)
(* then on a stream the serial one is a prefix of.                         *)
Consumed(k) == \A j \in 0 .. k - 1 : offset[j] = EndOf(j)

PutTogether(k) ==
  /\ chunkStreams[k] \in Seq(Lexemes(input))
  /\ Consumed(k) =>
       /\ tail[0].stream = chunkStreams[k] \o tail[BeginOf(k)].stream
       /\ tail[0].consumed = tail[BeginOf(k)].consumed
  /\ ~ Consumed(k) =>
       /\ IsPrefix(tail[0].stream, chunkStreams[k])
       /\ tail[0].consumed < Len(input)

LEMMA AllPutTogether ==
  ASSUME IInv, call = "returned"
  PROVE  PutTogether(count)
<1>0. /\ PlanFinished /\ count \in Nat /\ last = count - 1
      /\ IsDfa(sim) /\ input \in Seq(Symbols) /\ Len(input) \in Nat
      /\ \A x \in 0 .. Len(input) : tail[x].stream \in Seq(Lexemes(input))
  BY ReturnedFacts, GivenTables, SerialType DEF PlanFinished, tail
<1> DEFINE S == { k \in 0 .. count : PutTogether(k) }
<1>1. 0 \in S
  <2>1. /\ chunkStreams[0] = << >> /\ BeginOf(0) = 0 /\ Consumed(0)
        /\ << >> \in Seq(Lexemes(input))
    BY <1>0, ConcatenationSteps DEF PlanFinished, Consumed
  <2>2. tail[0].stream \in Seq(Lexemes(input))
    BY <1>0
  <2>3. tail[0].stream = << >> \o tail[0].stream
    BY <2>2
  <2>4. PutTogether(0)
    BY <2>1, <2>3 DEF PutTogether
  <2>5. QED
    BY <1>0, <2>4
<1>2. ASSUME NEW k \in 0 .. count - 1, k \in S PROVE k + 1 \in S
  <2>1. /\ k \in 0 .. last /\ k \in Nat /\ k + 1 \in 0 .. count /\ PutTogether(k)
        /\ BeginOf(k + 1) = EndOf(k)
    BY <1>0, <1>2 DEF BeginOf, EndOf
  <2>2. /\ Follows(k) /\ streams[k] \in Seq(Lexemes(input))
        /\ offset[k] \in 0 .. EndOf(k)
        /\ offset[k] < EndOf(k) =>
             tail[offset[k]] = [stream |-> << >>, consumed |-> offset[k]]
    BY <2>1, ReturnedFacts
  <2>3. EndOf(k) \in 0 .. Len(input) /\ offset[k] \in 0 .. Len(input)
    BY <1>0, <2>1, <2>2 DEF PlanFinished
  <2>4. /\ chunkStreams[k + 1] = chunkStreams[k] \o streams[k]
        /\ chunkStreams[k] \in Seq(Lexemes(input))
    BY <1>0, <2>1, ConcatenationSteps DEF PutTogether
  <2>5. chunkStreams[k + 1] \in Seq(Lexemes(input))
    BY <2>2, <2>4
  <2>6. Consumed(k + 1) <=> Consumed(k) /\ offset[k] = EndOf(k)
    BY <2>1 DEF Consumed
  <2>7. /\ tail[BeginOf(k)].stream = streams[k] \o tail[offset[k]].stream
        /\ tail[BeginOf(k)].consumed = tail[offset[k]].consumed
        /\ tail[offset[k]].stream \in Seq(Lexemes(input))
    BY <1>0, <2>2, <2>3 DEF Follows
  <2>8. \A s, t, u \in Seq(Lexemes(input)) : (s \o t) \o u = s \o (t \o u)
    BY Associative
  <2>9. chunkStreams[k] \o (streams[k] \o tail[offset[k]].stream)
          = chunkStreams[k + 1] \o tail[offset[k]].stream
    <3>1. (chunkStreams[k] \o streams[k]) \o tail[offset[k]].stream
            = chunkStreams[k] \o (streams[k] \o tail[offset[k]].stream)
      BY <2>2, <2>4, <2>7, <2>8
    <3>2. QED
      BY <2>4, <3>1, Zenon
  <2>10. Consumed(k) =>
           /\ tail[0].stream = chunkStreams[k + 1] \o tail[offset[k]].stream
           /\ tail[0].consumed = tail[offset[k]].consumed
    BY <2>1, <2>7, <2>9, Zenon DEF PutTogether
  <2>11. CASE Consumed(k) /\ offset[k] = EndOf(k)
    <3>1. PutTogether(k + 1)
      BY <2>1, <2>5, <2>6, <2>10, <2>11 DEF PutTogether
    <3>2. QED
      BY <2>1, <3>1
  <2>12. CASE Consumed(k) /\ offset[k] # EndOf(k)
    <3>1. offset[k] < EndOf(k)
      BY <2>2, <2>3, <2>12
    <3>2. tail[offset[k]].stream = << >> /\ tail[offset[k]].consumed = offset[k]
      BY <2>2, <3>1
    <3>3. chunkStreams[k + 1] \o << >> = chunkStreams[k + 1]
      BY <2>5
    <3>4. tail[0].stream = chunkStreams[k + 1] /\ tail[0].consumed = offset[k]
      BY <2>10, <2>12, <3>2, <3>3
    <3>5. tail[0].consumed < Len(input)
      BY <1>0, <2>3, <3>1, <3>4
    <3>6. IsPrefix(tail[0].stream, chunkStreams[k + 1])
      BY <2>5, <3>4, PrefixExtends
    <3>7. PutTogether(k + 1)
      BY <2>5, <2>6, <2>12, <3>5, <3>6 DEF PutTogether
    <3>8. QED
      BY <2>1, <3>7
  <2>13. CASE ~ Consumed(k)
    <3>1. IsPrefix(tail[0].stream, chunkStreams[k]) /\ tail[0].consumed < Len(input)
      BY <2>1, <2>13 DEF PutTogether
    <3>2. tail[0].stream \in Seq(Lexemes(input))
      BY <1>0
    <3>3. IsPrefix(tail[0].stream, chunkStreams[k] \o streams[k])
      BY <2>2, <2>4, <3>1, <3>2, PrefixExtends
    <3>4. PutTogether(k + 1)
      BY <2>4, <2>5, <2>6, <2>13, <3>1, <3>3 DEF PutTogether
    <3>5. QED
      BY <2>1, <3>4
  <2>14. QED
    BY <2>11, <2>12, <2>13
<1> HIDE DEF S
<1>3. count \in S
  <2>1. count \in Nat
    BY <1>0
  <2>2. 0 .. count \subseteq S
    BY <1>1, <1>2, <2>1, UpTo
  <2>3. QED
    BY <2>1, <2>2
<1>4. QED
  BY <1>3 DEF S

(* The serial stream is a prefix of the concatenated streams on every      *)
(* input, malformed ones too, and all of it when the serial scan tokenizes *)
(* the input, which it does when every chunk reports its whole size        *)
(* consumed.                                                               *)
THEOREM ParallelIsSerial == Spec => []SerialIsPrefix
<1>1. ASSUME IInv, call = "returned"
      PROVE  /\ IsPrefix(serial.stream, Concatenation)
             /\ serial.consumed = Len(input) => serial.stream = Concatenation
             /\ (\A k \in 0 .. last : consumed[k] = EndOf(k) - BeginOf(k)) =>
                  serial.consumed = Len(input)
  <2>1. /\ PlanFinished /\ count \in Nat /\ last = count - 1 /\ last \in Nat
        /\ IsDfa(sim) /\ input \in Seq(Symbols) /\ Len(input) \in Nat
    BY <1>1, ReturnedFacts, GivenTables, ChunkIdsAreNumbers DEF PlanFinished
  <2>2. serial = tail[0] /\ Concatenation = chunkStreams[count] /\ PutTogether(count)
    BY <1>1, <2>1, ConcatenationSteps, AllPutTogether DEF serial, Serial, tail
  <2>3. CASE Consumed(count)
    <3>1. BeginOf(count) = Len(input)
      BY <2>1 DEF BeginOf, EndOf, PlanFinished
    <3>2. Len(input) \in 0 .. Len(input) /\ MatchLengths(sim, input, Len(input)) = {}
      BY <2>1 DEF MatchLengths
    <3>3. tail[Len(input)] = [stream |-> << >>, consumed |-> Len(input)]
      BY <2>1, <3>2, SerialSteps DEF tail
    <3>4. tail[Len(input)].stream = << >> /\ tail[Len(input)].consumed = Len(input)
      BY <3>3
    <3>5. chunkStreams[count] \o << >> = chunkStreams[count]
      BY <2>2 DEF PutTogether
    <3>6. tail[0].stream = chunkStreams[count] /\ tail[0].consumed = Len(input)
      BY <2>2, <2>3, <3>1, <3>4, <3>5 DEF PutTogether
    <3>7. IsPrefix(chunkStreams[count], chunkStreams[count])
      BY <2>2, PrefixExtends DEF PutTogether
    <3>8. QED
      BY <2>2, <3>6, <3>7
  <2>4. CASE ~ Consumed(count)
    <3>1. IsPrefix(tail[0].stream, chunkStreams[count]) /\ tail[0].consumed < Len(input)
      BY <2>2, <2>4 DEF PutTogether
    <3>2. tail[0].consumed \in Int
      BY <2>1, SerialType DEF tail
    <3>3. ASSUME \A k \in 0 .. last : consumed[k] = EndOf(k) - BeginOf(k)
          PROVE  FALSE
      <4>1. PICK k \in 0 .. last : offset[k] # EndOf(k)
        BY <2>1, <2>4 DEF Consumed
      <4>2. /\ consumed[k] = offset[k] - BeginOf(k) /\ consumed[k] = EndOf(k) - BeginOf(k)
            /\ offset[k] \in 0 .. EndOf(k)
            /\ BeginOf(k) \in 0 .. Len(input) /\ EndOf(k) \in BeginOf(k) .. Len(input)
        BY <1>1, <2>1, <3>3, ReturnedFacts DEF PlanFinished
      <4>3. QED
        BY <2>1, <4>1, <4>2
    <3>4. QED
      BY <2>1, <2>2, <3>1, <3>2, <3>3
  <2>5. QED
    BY <2>3, <2>4
<1>2. IInv => SerialIsPrefix
  BY <1>1 DEF SerialIsPrefix
<1>3. QED
  BY <1>2, IInvInvariant, PTL

(* Every variable keeps its type, and the planner's its invariants.        *)
THEOREM TypeCorrect == Spec => [](TypeOK /\ Planner!IInv)
<1>1. IInv => TypeOK /\ Planner!IInv
  BY DEF IInv
<1>2. QED
  BY <1>1, IInvInvariant, PTL
=============================================================================
