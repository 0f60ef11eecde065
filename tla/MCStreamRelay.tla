---------------------------- MODULE MCStreamRelay ----------------------------
(***************************************************************************)
(* Bodies of up to five frames, so that an answer with two pieces of text  *)
(* has room for a stray frame before, inside or after it.                  *)
(***************************************************************************)
EXTENDS StreamRelay

CONSTANTS i1, i2, t1, t2

MCId == {i1, i2}

MCText == {t1, t2}

Counts(input, output) == [input |-> input, output |-> output]

Chunk(text, finish, u) == [id |-> i1, text |-> text, finish |-> finish, usage |-> u]

\* The role chunk, text, reasons with and without usage, and the usage chunk
\* without choices that some upstreams send last.
MCOpenAiFrame ==
  {Chunk(None, None, None), Chunk(t1, None, None), Chunk(t2, None, Counts(1, None)),
   Chunk(None, "stop", None), Chunk(None, "length", Counts(1, 2)),
   Chunk(None, "content_filter", None), Chunk(None, None, Counts(2, 1)),
   Chunk(None, None, Counts(None, 2)), [Chunk(t1, None, None) EXCEPT !.id = i2]}

\* message_start with and without usage and id, deltas, reasons, ends with
\* and without usage, and an event the normaliser does not know.
MCAnthropicFrame ==
  {[Event("message_start") EXCEPT !.id = i1, !.usage = Counts(1, 0)],
   [Event("message_start") EXCEPT !.id = i2],
   [Event("content_block_delta") EXCEPT !.text = t1],
   [Event("content_block_delta") EXCEPT !.text = t2],
   Event("content_block_delta"),
   [Event("message_delta") EXCEPT !.stop = "end_turn", !.usage = Counts(None, 2)],
   [Event("message_delta") EXCEPT !.stop = "max_tokens"],
   [Event("message_delta") EXCEPT !.stop = "stop_sequence"],
   [Event("message_delta") EXCEPT !.stop = "tool_use", !.usage = Counts(None, 1)],
   Event("message_stop"),
   [Event("message_stop") EXCEPT !.usage = Counts(2, None)],
   Event("ping")}
=============================================================================
