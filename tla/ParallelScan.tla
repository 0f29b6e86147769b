---------------------------- MODULE ParallelScan ----------------------------
(***************************************************************************)
(* Lexer::tokenize_all_parallel(): the input is planned into chunks, every *)
(* chunk but the last is scanned by a jthread, the last on the calling     *)
(* thread.  A worker's step is one round of run_all(), up to the sink it   *)
(* calls: what it does between two calls of the sink no other thread sees. *)
(* Sinks may throw, and starting a thread may fail.                        *)
(***************************************************************************)
EXTENDS Dfa

CONSTANTS Dfas, Inputs, MaxChunks, SizeMax,
          NoChunk       \* neither a failure nor a holder of its mutex

ASSUME ParallelAssumption ==
  /\ \A D \in Dfas : IsDfa(D)
  /\ Inputs \subseteq Seq(Symbols)
  /\ SizeMax \in Nat \ {0}
  /\ \A w \in Inputs : Len(w) \in 0 .. SizeMax
  /\ MaxChunks \in 0 .. SizeMax
  /\ NoChunk \notin Nat

VARIABLES
  sim, input, chunks,                               \* the call's arguments
  planning, targets, index, cursor, boundaries,     \* chunk_boundaries()
  call,         \* the calling thread
  spawned,      \* the number of jthreads started
  worker,       \* per chunk, where the thread that scans it is
  offset,       \* per chunk, where its scan is in the input
  streams,      \* per chunk, the sink's calls
  consumed,     \* the vector that is returned
  failure_mutex, failure

given == <<sim, input, chunks>>
planner == <<planning, targets, index, cursor, boundaries>>
results == <<offset, streams, consumed>>
failures == <<failure_mutex, failure>>
vars == <<given, planner, call, spawned, worker, results, failures>>

Plan == INSTANCE ChunkPlan WITH split_points <- sim.split_points

ChunkIds == 0 .. Plan!MaxOf(1, MaxChunks) - 1

Init ==
  /\ \E D \in Dfas : sim = Simulator(D, {})
  /\ input \in Inputs
  /\ chunks \in 0 .. MaxChunks
  /\ Plan!PlannerInit
  /\ call = "planning"
  /\ spawned = 0
  /\ worker = [k \in ChunkIds |-> "idle"]
  /\ offset = [k \in ChunkIds |-> 0]
  /\ streams = [k \in ChunkIds |-> << >>]
  /\ consumed = [k \in ChunkIds |-> 0]
  /\ failure_mutex = NoChunk
  /\ failure = NoChunk

count == Len(boundaries) - 1
last == count - 1
BeginOf(k) == boundaries[k + 1]
EndOf(k) == boundaries[k + 2]

----------------------------------------------------------------------------
(* The calling thread.                                                     *)
PlanStep ==
  /\ call = "planning"
  /\ UNCHANGED <<given, call, spawned, worker, results, failures>>
  /\ Plan!Next

Planned ==
  /\ call = "planning"
  /\ planning = "planned"
  /\ call' = "spawning"
  /\ UNCHANGED <<given, planner, spawned, worker, results, failures>>

StartScan(k) ==
  /\ worker' = [worker EXCEPT ![k] = "scanning"]
  /\ offset' = [offset EXCEPT ![k] = BeginOf(k)]

Spawn ==
  /\ call = "spawning"
  /\ spawned < last
  /\ StartScan(spawned)
  /\ spawned' = spawned + 1
  /\ UNCHANGED <<given, planner, call, streams, consumed, failures>>

(* The jthread's constructor throws: the workers started are joined as the *)
(* vector is destroyed, and the last chunk is never scanned.               *)
SpawnFails ==
  /\ call = "spawning"
  /\ spawned < last
  /\ call' = "unwinding"
  /\ UNCHANGED <<given, planner, spawned, worker, results, failures>>

ScanLast ==
  /\ call = "spawning"
  /\ spawned = last
  /\ StartScan(last)
  /\ call' = "scanning"
  /\ UNCHANGED <<given, planner, spawned, streams, consumed, failures>>

Ended(k) == worker[k] \in {"finished", "failed"}

LastScanned ==
  /\ call = "scanning"
  /\ Ended(last)
  /\ call' = "joining"
  /\ UNCHANGED <<given, planner, spawned, worker, results, failures>>

(* Threads that nobody waits for.                                          *)
JoinedDetached == TRUE

Joined == \A k \in 0 .. spawned - 1 : Ended(k)

Return ==
  /\ call = "joining"
  /\ Joined
  /\ call' = IF failure = NoChunk THEN "returned" ELSE "rethrown"
  /\ UNCHANGED <<given, planner, spawned, worker, results, failures>>

Unwound ==
  /\ call = "unwinding"
  /\ Joined
  /\ call' = "spawn_failed"
  /\ UNCHANGED <<given, planner, spawned, worker, results, failures>>

Call == \/ PlanStep \/ Planned \/ Spawn \/ SpawnFails \/ ScanLast
        \/ LastScanned \/ Return \/ Unwound

----------------------------------------------------------------------------
(* A scan that reads on to the end of the input.                           *)
ChunkToInputEnd(k) == input

(* The scan of one chunk, which sees nothing past the chunk's end.         *)
Chunk(k) == SubSeq(input, 1, EndOf(k))

Emit(k) ==
  /\ worker[k] = "scanning"
  /\ MatchLengths(sim, Chunk(k), offset[k]) # {}
  /\ LET n == LongestMatch(sim, Chunk(k), offset[k])
         s == StateAfter(sim, Chunk(k), offset[k])[n]
         token == [begin |-> offset[k], length |-> n, token |-> sim.accept[s]]
     IN /\ streams' = [streams EXCEPT ![k] = Append(@, token)]
        /\ offset' = [offset EXCEPT ![k] = @ + n]
  /\ UNCHANGED <<given, planner, call, spawned, worker, consumed, failures>>

SinkThrows(k) ==
  /\ worker[k] = "scanning"
  /\ MatchLengths(sim, Chunk(k), offset[k]) # {}
  /\ worker' = [worker EXCEPT ![k] = "caught"]
  /\ UNCHANGED <<given, planner, call, spawned, results, failures>>

Finish(k) ==
  /\ worker[k] = "scanning"
  /\ MatchLengths(sim, Chunk(k), offset[k]) = {}
  /\ consumed' = [consumed EXCEPT ![k] = offset[k] - BeginOf(k)]
  /\ worker' = [worker EXCEPT ![k] = "finished"]
  /\ UNCHANGED <<given, planner, call, spawned, offset, streams, failures>>

Lock(k) ==
  /\ worker[k] = "caught"
  /\ failure_mutex = NoChunk
  /\ failure_mutex' = k
  /\ worker' = [worker EXCEPT ![k] = "locked"]
  /\ UNCHANGED <<given, planner, call, spawned, results, failure>>

(* The test inverted.                                                      *)
DropFirst(k) ==
  /\ worker[k] = "locked"
  /\ failure = NoChunk
  /\ failure_mutex' = NoChunk
  /\ worker' = [worker EXCEPT ![k] = "failed"]
  /\ UNCHANGED <<given, planner, call, spawned, results, failure>>

(* An exception was kept already: this one is dropped.                     *)
Drop(k) ==
  /\ worker[k] = "locked"
  /\ failure # NoChunk
  /\ failure_mutex' = NoChunk
  /\ worker' = [worker EXCEPT ![k] = "failed"]
  /\ UNCHANGED <<given, planner, call, spawned, results, failure>>

Test(k) ==
  /\ worker[k] = "locked"
  /\ failure = NoChunk
  /\ worker' = [worker EXCEPT ![k] = "keeping"]
  /\ UNCHANGED <<given, planner, call, spawned, results, failures>>

(* The mutex still held after the catch block.                             *)
KeepLocked(k) ==
  /\ worker[k] = "keeping"
  /\ failure' = k
  /\ worker' = [worker EXCEPT ![k] = "failed"]
  /\ UNCHANGED <<given, planner, call, spawned, results, failure_mutex>>

Keep(k) ==
  /\ worker[k] = "keeping"
  /\ failure' = k
  /\ failure_mutex' = NoChunk
  /\ worker' = [worker EXCEPT ![k] = "failed"]
  /\ UNCHANGED <<given, planner, call, spawned, results>>

Scan(k) == \/ Emit(k) \/ SinkThrows(k) \/ Finish(k)
           \/ Lock(k) \/ Drop(k) \/ Test(k) \/ Keep(k)

Next == Call \/ \E k \in ChunkIds : Scan(k)

(* Every thread runs on, and every sink returns or throws.                 *)
Fairness == WF_vars(Call) /\ \A k \in ChunkIds : WF_vars(Scan(k))

Spec == Init /\ [][Next]_vars /\ Fairness

----------------------------------------------------------------------------
CallEnded == call \in {"returned", "rethrown", "spawn_failed"}

serial == Serial(sim, input)

Concatenation ==
  LET upTo[k \in 0 .. count] ==
        IF k = 0 THEN << >> ELSE upTo[k - 1] \o streams[k - 1]
  IN upTo[count]

IsPrefix(s, t) == Len(s) <= Len(t) /\ s = SubSeq(t, 1, Len(s))

(* The serial stream is a prefix of the concatenated streams on every      *)
(* input, malformed ones too, and all of it when the serial scan tokenizes *)
(* the input (lexer.hpp 570-574), which it does when every chunk reports   *)
(* its whole size consumed.                                                *)
SerialIsPrefix ==
  call = "returned" =>
    /\ IsPrefix(serial.stream, Concatenation)
    /\ serial.consumed = Len(input) => serial.stream = Concatenation
    /\ (\A k \in 0 .. last : consumed[k] = EndOf(k) - BeginOf(k)) =>
         serial.consumed = Len(input)

(* While the scans are on their way, each emits the tokens the serial scan *)
(* would, as long as that scan reaches the chunk's front.                  *)
ChunksFollowSerial ==
  planning = "planned" =>
    \A k \in 0 .. last :
      serial.consumed >= BeginOf(k) =>
        \A i \in DOMAIN streams[k] :
          LET token == streams[k][i]
          IN token.begin < serial.consumed =>
               \E j \in DOMAIN serial.stream : serial.stream[j] = token

(* The call ends only when no thread can call the sink any more, so the    *)
(* sink and what it refers to may be destroyed.                            *)
NoSinkAfterReturn ==
  CallEnded => \A k \in ChunkIds : worker[k] = "idle" \/ Ended(k)

(* An exception a sink throws is never lost: the call returns only if none *)
(* was thrown, and rethrows one that was.                                  *)
ExceptionNeverLost ==
  /\ call = "returned" => \A k \in ChunkIds : worker[k] # "failed"
  /\ call = "rethrown" => worker[failure] = "failed"

(* The call ends.                                                          *)
CallEnds == <>CallEnded
=============================================================================
