----------------------------- MODULE Tokenizer -----------------------------
(***************************************************************************)
(* tools::tokenizer::Tokenizer under a driver that reads token after token *)
(* and, on an error, stops or asks for the next certified start.  Between  *)
(* two reads the driver may load an input, reset or seek.                  *)
(***************************************************************************)
EXTENDS CertificateWalk

CONSTANTS Dfas, Inputs,
          Nothing,      \* std::nullopt
          MaxMoves      \* the most loads, resets and seeks

VARIABLES
  sim,
  input, offset,    \* the tokenizer
  result,           \* the kind of what next() returned last
  certified,        \* what the recovery since then answered
  driver,           \* "reads", "fails", "ends"
  moves

tokenizer == <<input, offset>>
answers == <<result, certified>>
vars == <<sim, tokenizer, answers, driver, moves>>

Init ==
  /\ \E D \in Dfas : sim = Simulator(D, {})
  /\ input \in Inputs
  /\ offset = 0
  /\ result = "none"
  /\ certified = Nothing
  /\ driver = "reads"
  /\ moves = 0

----------------------------------------------------------------------------
NextIsToken ==
  /\ driver = "reads"
  /\ MatchLengths(sim, input, offset) # {}
  /\ offset' = offset + LongestMatch(sim, input, offset)
  /\ result' = "token"
  /\ certified' = Nothing
  /\ UNCHANGED <<sim, input, driver, moves>>

NextIsEnd ==
  /\ driver = "reads"
  /\ offset >= Len(input)
  /\ result' = "end_of_input"
  /\ driver' = "ends"
  /\ UNCHANGED <<sim, tokenizer, certified, moves>>

(* No token matches, or only the empty one: the position stays.            *)
NextIsError ==
  /\ driver = "reads"
  /\ offset < Len(input)
  /\ MatchLengths(sim, input, offset) = {}
  /\ result' = IF sim.empty = NoState THEN "unrecognized" ELSE "zero_width"
  /\ driver' = "fails"
  /\ UNCHANGED <<sim, tokenizer, certified, moves>>

GiveUp ==
  /\ driver = "fails"
  /\ driver' = "ends"
  /\ UNCHANGED <<sim, tokenizer, answers, moves>>

(* Never at the failure itself, and not in bytes that may be damaged.      *)
RecoveryFrom(clean_from) == IF clean_from < offset + 1 THEN offset + 1 ELSE clean_from

(* recover() and recover_from_failure() are the case of a bound of 0.      *)
Recover(clean_from) ==
  /\ driver = "fails"
  /\ \E found \in NextCertified(sim, input, RecoveryFrom(clean_from)) :
       /\ offset' = found.start
       /\ certified' = found
  /\ driver' = "reads"
  /\ UNCHANGED <<sim, input, result, moves>>

RecoverFails(clean_from) ==
  /\ driver = "fails"
  /\ NextCertified(sim, input, RecoveryFrom(clean_from)) = {}
  /\ driver' = "ends"
  /\ UNCHANGED <<sim, tokenizer, answers, moves>>

----------------------------------------------------------------------------
Moved ==
  /\ moves < MaxMoves
  /\ moves' = moves + 1
  /\ certified' = Nothing
  /\ driver' = "reads"

Load(text) ==
  /\ Moved
  /\ input' = text
  /\ offset' = 0
  /\ UNCHANGED <<sim, result>>

Reset ==
  /\ Moved
  /\ offset' = 0
  /\ UNCHANGED <<sim, input, result>>

(* Clamped to the end of the input.                                        *)
Seek(to) ==
  /\ Moved
  /\ offset' = IF to < Len(input) THEN to ELSE Len(input)
  /\ UNCHANGED <<sim, input, result>>

(* What the driver does of its own accord, given bounds it may know; those *)
(* up to the failure say nothing.                                          *)
Drive ==
  \/ NextIsToken \/ NextIsEnd \/ NextIsError
  \/ \E clean_from \in {0} \cup (offset + 2 .. Len(input)) :
       Recover(clean_from) \/ RecoverFails(clean_from)

Next ==
  \/ Drive \/ GiveUp
  \/ \E text \in Inputs : Load(text)
  \/ Reset
  \/ \E to \in 0 .. Len(input) + 1 : Seek(to)

(* The driver reads on, and recovers or gives up.                          *)
Spec == Init /\ [][Next]_vars /\ WF_vars(Drive)

----------------------------------------------------------------------------
(* The input with the bytes before the evidence replaced.                  *)
Repaired(text) == text \o SubSeq(input, certified.evidence_begin + 1, Len(input))

(* Wherever a recovery resumes, a token begins in every repair of what was *)
(* read before its evidence that makes the whole tokenizable               *)
(* (lexer.hpp 679-682, tokenizer.hpp 157-159).                             *)
RecoveryIsRepairInvariant ==
  certified # Nothing =>
    \A text \in Inputs :
      LET serial == Serial(sim, Repaired(text))
          start == Len(text) + certified.start - certified.evidence_begin
      IN serial.consumed = Len(Repaired(text)) =>
           \E i \in 1 .. Len(serial.stream) : serial.stream[i].begin = start

(* A driver that recovers from every error it does not give up on comes to *)
(* the end: no error returns at the place it was recovered from.           *)
DriverEnds == <>[](driver = "ends")
=============================================================================
