--------------------------- MODULE MCWhisperFull ----------------------------
(* A small instance of WhisperFull for TLC: greedy calls on audio of two   *)
(* steps and on none, and beam search on audio of one, with more decoders  *)
(* at the first temperature than at the second. The greedy calls keep the  *)
(* text of the call before as history, as far as the context allows; the   *)
(* app asks for none, as the calls of beam search do here.                 *)
EXTENDS WhisperFull

Greedy(n) == [strategy |-> "greedy", best_of |-> 2, beam_size |-> 1,
              seek_end |-> n, no_context |-> FALSE]
Beam(n) == [strategy |-> "beam", best_of |-> 1, beam_size |-> 2,
            seek_end |-> n, no_context |-> TRUE]

MCCalls == {Greedy(0), Greedy(5), Beam(3)}
=============================================================================
