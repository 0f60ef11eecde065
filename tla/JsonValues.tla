------------------------------ MODULE JsonValues ------------------------------
(***************************************************************************)
(* What the codecs of whole bodies (MessageCodecs) and of event streams    *)
(* (SseCodecs) have in common: values that may be missing, bodies and      *)
(* frames that may not be JSON, and choosing elements of a sequence.       *)
(***************************************************************************)
EXTENDS Integers, Sequences

CONSTANT None   \* null, not there, Option::None

\* What is not JSON.
Garbage == [garbage |-> TRUE]

\* Words the code compares: why an answer ended, for either API, and the version.
Word == {"stop", "length", "content_filter", "end_turn", "max_tokens", "stop_sequence",
         "2023-06-01"}

ASSUME NoneAssumption == None \notin Nat \cup STRING \cup Word

OrElse(value, default) == IF value = None THEN default ELSE value

\* A count of tokens as it is written down.
Count == Nat \cup {None}

WireUsage == [input : Count, output : Count]

\* A count of tokens as it is billed.
Usage == [input : Nat, output : Nat]

NoUsage == [input |-> 0, output |-> 0]

\* Slip: completion_tokens without its default.
ExtractBothCounts(json) ==
  IF json = Garbage \/ json.usage = None \/ json.usage.input = None THEN None ELSE json.usage

\* Slip: a total that is not split.
UsageOfTotal(json) ==
  IF json = Garbage \/ json.usage = None \/ json.usage.input = None
  THEN None
  ELSE [input |-> json.usage.input + OrElse(json.usage.output, 0), output |-> 0]

\* The same function in openai_compat.rs and, for a chunk, in openai_sse.rs.
extract_usage(json) ==
  IF json = Garbage \/ json.usage = None \/ json.usage.input = None
  THEN None
  ELSE [input |-> json.usage.input, output |-> OrElse(json.usage.output, 0)]

-----------------------------------------------------------------------------
\* The elements at some places, in their order: SelectSeq, by place.
At(seq, places) ==
  LET upTo[i \in 0..Len(seq)] ==
        IF i = 0 THEN <<>>
        ELSE IF i \in places THEN Append(upTo[i - 1], seq[i]) ELSE upTo[i - 1]
  IN  upTo[Len(seq)]

Without(seq, x) == At(seq, {i \in DOMAIN seq : seq[i] # x})
=============================================================================
