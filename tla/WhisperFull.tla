---------------------------- MODULE WhisperFull -----------------------------
(***************************************************************************)
(* whisper_full_with_state (whisper.cpp): the call with which the app      *)
(* turns a window of audio into text. It moves over the audio in steps of  *)
(* at most Chunk; at each it encodes what lies ahead and lets one or more  *)
(* decoders guess tokens one by one, again at a higher temperature if the  *)
(* guess is poor, until one result is written out and tells how far to     *)
(* move on.                                                                *)
(*                                                                         *)
(* What the network computes is left open: any token the filters of        *)
(* whisper_process_logits let through may be sampled, any decoder may      *)
(* score best. The parameters are those of jni.c, timestamps on, no        *)
(* initial prompt, grammar, callback or token limit; beam search, which    *)
(* the app does not ask for, is there because it moves the cache about.    *)
(* A segment has its end and its text; its start is left out. What comes   *)
(* before the first step and the allocation of the cache are taken to      *)
(* succeed; audio too short for a step is not.                             *)
(*                                                                         *)
(* The operators that stand before another and are named for what they get *)
(* wrong are faulty variants.                                              *)
(***************************************************************************)
EXTENDS KvCache

CONSTANTS
    Calls,          \* what the callers ask for
    MaxDecoders,    \* WHISPER_MAX_DECODERS
    Temperatures,   \* how many temperatures are tried; the first one is 0
    WithHistory,    \* how many of them are below 0.5 and use the text so far
    TextCtx,        \* n_text_ctx, the positions the model knows
    InitLen,        \* tokens of prompt_init
    Chunk,          \* 100 * WHISPER_CHUNK_SIZE: the longest step
    DeltaMin,       \* delta_min: audio not worth a step
    ShortRest,      \* the rest of the audio for which the history is dropped
    MaxInitialTs,   \* max_initial_ts
    EntropyLen      \* results longer than this may fail for their entropy

ASSUME WhisperFullAssumption ==
    /\ {MaxDecoders, Temperatures, DeltaMin} \subseteq Nat \ {0}
    /\ InitLen \in 1 .. 4
    /\ {WithHistory, ShortRest, MaxInitialTs, EntropyLen} \subseteq Nat
    /\ Chunk \in Nat /\ Chunk % 2 = 0 /\ Chunk > 0
    /\ TextCtx \in Nat /\ TextCtx \div 2 > 4
    /\ Calls \subseteq [strategy : {"greedy", "beam"}, best_of : 1 .. MaxDecoders,
                        beam_size : 1 .. MaxDecoders, seek_end : Nat,
                        no_context : BOOLEAN]

VARIABLES
    pc,          \* where the call is
    call,        \* its parameters
    seek,        \* how far it has come
    past,        \* the length of prompt_past1, the text so far
    it,          \* the temperature
    i,           \* tokens sampled at this temperature
    prompt,      \* the length of the prompt
    dec,         \* state->decoders
    kv,          \* state->kv_self
    kv_n_dec,    \* state->kv_self_n_dec: the decoders it was made for
    best,        \* best_decoder_id
    silent,      \* is_no_speech of the best decoder
    result_all,  \* the segments
    rc           \* what the last call returned

window == <<seek, past, result_all>>
attempt == <<it, i, prompt, dec, best, silent>>
memory == <<kv, kv_n_dec>>
vars == <<pc, call, window, attempt, memory, rc>>

Decoders == 0 .. MaxDecoders - 1
NMax == TextCtx \div 2 - 4
MaxPrompt == TextCtx \div 2

Text == [kind |-> "text", ts |-> 0]
Eot == [kind |-> "eot", ts |-> 0]
Ts(v) == [kind |-> "ts", ts |-> v]
Tokens == {Text, Eot} \cup {Ts(v) : v \in 0 .. Chunk \div 2}

(* A timestamp other than the first, token_beg.                            *)
IsTime(token) == token.kind = "ts" /\ token.ts > 0

Fresh ==
    [tokens |-> <<>>, result_len |-> 0, seek_delta |-> Chunk,
     failed |-> FALSE, completed |-> FALSE, has_ts |-> FALSE]

NDecoders ==
    IF call.strategy = "beam" /\ it = 1 THEN call.beam_size
    ELSE IF it = 1 THEN 1 ELSE call.best_of

Current == 0 .. NDecoders - 1
IsLive(d) == ~d.failed /\ ~d.completed
Live == {j \in Current : IsLive(dec[j])}

CacheSize(n) == TextCtx * (IF n > 1 THEN n + 2 ELSE 1)

NoAttempt ==
    /\ it' = 1 /\ i' = 0 /\ prompt' = 0 /\ best' = 0 /\ silent' = FALSE
    /\ dec' = [j \in Decoders |-> Fresh]

Init ==
    /\ pc = "idle" /\ call \in Calls
    /\ seek = 0 /\ past = 0 /\ result_all = <<>>
    /\ it = 1 /\ i = 0 /\ prompt = 0 /\ best = 0 /\ silent = FALSE
    /\ dec = [j \in Decoders |-> Fresh]
    /\ kv = NewCache(CacheSize(1)) /\ kv_n_dec = 1
    /\ rc = 0

-----------------------------------------------------------------------------
(* The call, and its end. What the decoders and the cache hold then is     *)
(* dead: both are set up again before they are read.                       *)

Full(c) ==
    /\ pc = "idle"
    /\ call' = c /\ seek' = 0 /\ result_all' = <<>> /\ rc' = 0
    /\ IF c.seek_end < DeltaMin
       THEN pc' = "idle" /\ UNCHANGED past
       ELSE pc' = "window" /\ past' = IF c.no_context THEN 0 ELSE past
    /\ UNCHANGED <<attempt, memory>>

Return(code) ==
    /\ pc' = "idle" /\ rc' = code
    /\ NoAttempt /\ kv' = Clear(kv)
    /\ UNCHANGED <<call, window, kv_n_dec>>

EndOfAudio ==
    /\ pc = "window" /\ seek + DeltaMin >= call.seek_end
    /\ Return(0)

(* whisper_encode_internal, and the history dropped before a short rest.   *)
Encode ==
    /\ pc = "window" /\ seek + DeltaMin < call.seek_end
    /\ \/ Return(-6)
       \/ /\ pc' = "temperature"
          /\ past' = IF seek > 0 /\ seek + ShortRest >= call.seek_end
                     THEN 0 ELSE past
          /\ best' = 0 /\ it' = 1
          /\ UNCHANGED <<call, seek, result_all, i, prompt, dec, silent, memory, rc>>

-----------------------------------------------------------------------------
(* A temperature: fresh decoders, the prompt, a cache for enough decoders. *)

(* The marker, as much of the history as half the context allows, and the  *)
(* tokens that start a transcription.                                      *)
PromptLenUncut ==
    InitLen + (IF it <= WithHistory /\ past > 0
               THEN 1 + Min({MaxPrompt, past}) ELSE 0)

PromptLen ==
    InitLen + (IF it <= WithHistory /\ past > 0
               THEN 1 + Min({MaxPrompt - 1, past}) ELSE 0)

PromptBatch(n) ==
    [p \in 1 .. n |-> [pos |-> p - 1, seq_id |-> {0}, tokens |-> <<>>]]

(* The decoders in a sequence, in the order the loops visit them.          *)
InOrder(decoders) ==
    [b \in 1 .. Cardinality(decoders) |->
        CHOOSE d \in decoders : Cardinality({e \in decoders : e < d}) = b - 1]

(* Every decoder starts from the prompt the first one has computed.        *)
Prompted(c, n) ==
    LET put == Put(c, PromptBatch(n))
        src == [j \in Current \ {0} |-> 0]
    IN  IF NDecoders = 1 THEN put
        ELSE Reassigned(put, [d \in Cells(put) |->
                                 SeqCp(put.cells[d].seq_id, src, Current \ {0})])

(* The cache is made anew when it is too small for the decoders.           *)
StartTemperature ==
    LET grows == kv_n_dec < NDecoders
        empty == IF grows THEN NewCache(CacheSize(NDecoders)) ELSE Clear(kv)
    IN  /\ pc = "temperature"
        /\ kv_n_dec' = IF grows THEN NDecoders ELSE kv_n_dec
        /\ \/ /\ pc' = "idle" /\ rc' = -8
              /\ NoAttempt /\ kv' = empty
              /\ UNCHANGED <<call, window>>
           \/ /\ HasSlot(empty, PromptLen)
              /\ pc' = "sample" /\ i' = 0
              /\ dec' = [j \in Decoders |-> IF j \in Current THEN Fresh ELSE dec[j]]
              /\ prompt' = PromptLen
              /\ kv' = Prompted(empty, PromptLen)
              /\ UNCHANGED <<call, window, it, best, silent, rc>>

-----------------------------------------------------------------------------
(* A token for every decoder that is not done.                             *)

(* whisper_process_logits: no end before the first token, timestamps in    *)
(* pairs but for one before the end, none too large at first, and none     *)
(* before the last one.                                                    *)
Allowed(d) ==
    LET n == Len(d.tokens)
        last == n > 0 /\ d.tokens[n].kind = "ts"
        penultimate == n < 2 \/ d.tokens[n - 1].kind = "ts"
    IN  {token \in Tokens :
            CASE token = Text -> ~last \/ penultimate
              [] token = Eot -> n > 0
              [] OTHER -> /\ ~(last /\ penultimate)
                          /\ n = 0 => token.ts <= MaxInitialTs
                          /\ d.has_ts => 2 * token.ts >= d.seek_delta}

(* What a decoder makes of its new token: the step the timestamp tells of, *)
(* and whether it has completed or failed.                                 *)
AtEnd(d) == seek + d.seek_delta + DeltaMin >= call.seek_end

TimedPastEnd(d) ==
    IF IsTime(Last(d.tokens))
    THEN [d EXCEPT !.seek_delta = 2 * Last(d.tokens).ts,
                   !.result_len = Len(d.tokens) + 1, !.has_ts = TRUE]
    ELSE d

Timed(d) ==
    IF IsTime(Last(d.tokens))
    THEN [d EXCEPT !.seek_delta = 2 * Last(d.tokens).ts,
                   !.result_len = Len(d.tokens), !.has_ts = TRUE]
    ELSE d

GoesBack(d) ==
    /\ IsTime(Last(d.tokens)) /\ d.has_ts
    /\ d.seek_delta > 2 * Last(d.tokens).ts
    /\ d.result_len < Len(d.tokens) - 1

Updated(d) ==
    LET t == Timed(d)
        ends == Last(d.tokens) = Eot \/ (t.has_ts /\ AtEnd(t))
        stuck == /\ Len(d.tokens) = NMax
                 /\ t.result_len = 0 \/ 2 * t.seek_delta < Chunk
    IN  CASE GoesBack(d) -> [d EXCEPT !.failed = TRUE]
          [] ~GoesBack(d) /\ ends /\ t.result_len = 0 /\ ~AtEnd(t) ->
                 [t EXCEPT !.failed = TRUE]
          [] ~GoesBack(d) /\ ends /\ t.result_len = 0 /\ AtEnd(t) ->
                 [t EXCEPT !.completed = TRUE, !.result_len = Len(d.tokens)]
          [] ~GoesBack(d) /\ ends /\ t.result_len > 0 ->
                 [t EXCEPT !.completed = TRUE]
          [] OTHER -> [t EXCEPT !.failed = ~GoesBack(d) /\ ~ends /\ stuck]

(* All decoders are updated; if any is left the new tokens are decoded.    *)
Sampled(new) ==
    LET after == [j \in Decoders |-> IF j \in Live THEN Updated(new[j]) ELSE dec[j]]
    IN  /\ dec' = after
        /\ pc' = IF \E j \in Current : IsLive(after[j]) THEN "decode" ELSE "rank"

SampleGreedy ==
    /\ pc = "sample" /\ call.strategy = "greedy"
    /\ \E pick \in [Live -> Tokens] :
           /\ \A j \in Live : pick[j] \in Allowed(dec[j])
           /\ Sampled([j \in Live |-> [dec[j] EXCEPT !.tokens = Append(@, pick[j])]])
    /\ UNCHANGED <<call, window, it, i, prompt, best, silent, memory, rc>>

(* Beam search: a decoder goes on with a candidate of any decoder that is  *)
(* not done; which ones score best and that equal ones are skipped is left *)
(* open. Its part of the cache follows: the candidates' sequences are      *)
(* copied aside, and then moved to their new decoders.                     *)
Aside(j) == MaxDecoders + j

MovedInPlace(from) ==
    LET Ids(c) ==
            LET upto[j \in -1 .. MaxDecoders - 1] ==
                    IF j = -1 THEN kv.cells[c].seq_id
                    ELSE IF j \in Live THEN SeqCp(SeqRm(upto[j - 1], {j}), from, {j})
                    ELSE upto[j - 1]
            IN  upto[MaxDecoders - 1]
    IN  Reassigned(kv, [c \in Cells(kv) |-> Ids(c)])

Moved(from) ==
    LET asides == {Aside(j) : j \in Live}
        CopiedAside(ids) == SeqCp(ids, [a \in asides |-> from[a - MaxDecoders]], asides)
        MovedBack(ids) ==
            SeqRm(SeqCp(SeqRm(ids, Live), [j \in Live |-> Aside(j)], Live), asides)
    IN  Reassigned(kv, [c \in Cells(kv) |-> MovedBack(CopiedAside(kv.cells[c].seq_id))])

SampleBeam ==
    /\ pc = "sample" /\ call.strategy = "beam"
    /\ \E from \in [Live -> Live] :
           /\ kv' = Moved(from)
           /\ \E pick \in [Live -> Tokens] :
                  /\ \A j \in Live : pick[j] \in Allowed(dec[from[j]])
                  /\ Sampled([j \in Live |->
                          [dec[from[j]] EXCEPT !.tokens = Append(@, pick[j])]])
    /\ UNCHANGED <<call, window, it, i, prompt, best, silent, kv_n_dec, rc>>

(* whisper_decode_internal of the new tokens, one for each decoder that is *)
(* not done. A step that fails ends the call.                              *)
Batch ==
    LET live == InOrder(Live)
    IN  [b \in DOMAIN live |-> [pos |-> prompt + i, seq_id |-> {live[b]},
                                tokens |-> dec[live[b]].tokens]]

Decode ==
    /\ pc = "decode"
    /\ \/ Return(-9)
       \/ /\ HasSlot(kv, Len(Batch))
          /\ kv' = Put(kv, Batch)
          /\ i' = i + 1
          /\ pc' = IF i + 1 < NMax THEN "sample" ELSE "rank"
          /\ UNCHANGED <<call, window, it, prompt, dec, best, silent, kv_n_dec, rc>>

-----------------------------------------------------------------------------
(* The best decoder of a temperature, and what becomes of its result.      *)

Truncated(d) == [d EXCEPT !.tokens = SubSeq(@, 1, d.result_len)]

(* fails: the decoders whose entropy is too low; low: avg_logprobs is too  *)
(* low, as it is for a decoder that was not scored; quiet: no_speech_prob  *)
(* is high.                                                                *)
Rank ==
    LET scored == {j \in Current : ~dec[j].failed}
        long == {j \in scored : dec[j].result_len > EntropyLen}
    IN  /\ pc = "rank"
        /\ \E fails \in SUBSET long, low, quiet \in BOOLEAN :
           \E b \in IF scored = fails THEN {best} ELSE scored \ fails :
               LET failed == dec[b].failed \/ b \in fails
               IN  /\ dec[b].failed => low
                   /\ dec' = [j \in Decoders |->
                                IF j \in scored
                                THEN [Truncated(dec[j]) EXCEPT !.failed = j \in fails]
                                ELSE dec[j]]
                   /\ best' = b
                   /\ IF it < Temperatures /\ (failed \/ (low /\ ~quiet))
                      THEN pc' = "temperature" /\ it' = it + 1 /\ UNCHANGED silent
                      ELSE pc' = "output" /\ silent' = (low /\ quiet) /\ UNCHANGED it
        /\ UNCHANGED <<call, window, i, prompt, memory, rc>>

(* The text between timestamps is a segment, which ends at the later one;  *)
(* of timestamps in a row the first ends a segment.                        *)
Cut(s, token) ==
    IF ~IsTime(token)
    THEN [s EXCEPT !.words = IF token = Text THEN @ + 1 ELSE @]
    ELSE [words |-> 0,
          segments |-> IF s.words = 0 THEN s.segments
                       ELSE Append(s.segments,
                                   [end |-> seek + 2 * token.ts, words |-> s.words])]

CutUp(tokens) ==
    LET cut[k \in 0 .. Len(tokens)] ==
            IF k = 0 THEN [words |-> 0, segments |-> <<>>]
            ELSE Cut(cut[k - 1], tokens[k])
    IN  cut[Len(tokens)]

SegmentsUnflushed(d) == CutUp(d.tokens).segments

Segments(d) ==
    LET s == CutUp(d.tokens)
    IN  IF s.words = 0 THEN s.segments
        ELSE Append(s.segments, [end |-> seek + d.seek_delta, words |-> s.words])

(* A result with a timestamp at its end only: the whole chunk is done.     *)
SingleTimestampEnding(tokens) ==
    /\ Len(tokens) > 1
    /\ tokens[Len(tokens) - 1].kind # "ts" /\ IsTime(Last(tokens))

StepOfText(d) ==
    IF silent THEN 0
    ELSE IF SingleTimestampEnding(d.tokens)
    THEN Min({call.seek_end - seek, Chunk}) ELSE d.seek_delta

Step(d) ==
    IF SingleTimestampEnding(d.tokens)
    THEN Min({call.seek_end - seek, Chunk}) ELSE d.seek_delta

Output ==
    LET d == dec[best]
        carried == IF prompt > InitLen THEN prompt - InitLen - 1 ELSE 0
    IN  /\ pc = "output" /\ pc' = "window"
        /\ past' = carried + (IF silent THEN 0 ELSE d.result_len)
        /\ result_all' = IF silent THEN result_all ELSE result_all \o Segments(d)
        /\ seek' = seek + Step(d)
        /\ NoAttempt /\ kv' = Clear(kv)
        /\ UNCHANGED <<call, kv_n_dec, rc>>

-----------------------------------------------------------------------------
Work ==
    \/ EndOfAudio \/ Encode \/ StartTemperature \/ SampleGreedy \/ SampleBeam
    \/ Decode \/ Rank \/ Output

Next == Work \/ \E c \in Calls : Full(c)

Spec == Init /\ [][Next]_vars

(* A call runs on its caller's thread until it returns.                    *)
FairSpec == Spec /\ WF_vars(Work)

-----------------------------------------------------------------------------
(* Every variable holds a value of its type, and no decoder's result is    *)
(* longer than its tokens, of which the code then reads the first          *)
(* result_len.                                                             *)
TypeOK ==
    /\ pc \in {"idle", "window", "temperature", "sample", "decode", "rank", "output"}
    /\ call \in Calls /\ seek \in Nat /\ past \in Nat
    /\ it \in 1 .. Temperatures /\ i \in 0 .. NMax /\ prompt \in Nat
    /\ best \in Decoders /\ silent \in BOOLEAN
    /\ dec \in [Decoders -> [tokens : Seq(Tokens), result_len : Nat,
                             seek_delta : 1 .. Chunk, failed : BOOLEAN,
                             completed : BOOLEAN, has_ts : BOOLEAN]]
    /\ \A j \in Decoders : dec[j].result_len <= Len(dec[j].tokens)
    /\ kv_n_dec \in 1 .. MaxDecoders
    /\ result_all \in Seq([end : Nat, words : Nat \ {0}])
    /\ rc \in {0, -6, -8, -9}

(* When a decoder samples, the cells it has attended to are its own        *)
(* context: one for each position, the prompt first, then what was         *)
(* computed for its own tokens so far, whichever decoders they came from   *)
(* (whisper_kv_cache_seq_cp, _seq_rm, the mask of whisper_decode_internal).*)
OwnContext ==
    pc = "sample" => \A j \in Live :
        LET seen == Visible(kv, j, prompt + i - 1)
            At(p) == {c \in seen : kv.cells[c].pos = p}
        IN  \A p \in 0 .. prompt + i - 1 :
                /\ Cardinality(At(p)) = 1
                /\ \A c \in At(p) : kv.cells[c].tokens
                       = SubSeq(dec[j].tokens, 1, IF p < prompt THEN 0 ELSE p - prompt + 1)

(* The cache always has a slot for the next batch ("overallocate to        *)
(* workaround KV cache fragmentation issues"), and no position is beyond   *)
(* those the model has embeddings for: the longest prompt and as many      *)
(* tokens as are sampled after it just fit.                                *)
CacheRoom ==
    /\ pc = "decode" => HasSlot(kv, Cardinality(Live))
    /\ pc = "temperature" => HasSlot(Clear(kv), PromptLen)
    /\ \A cell \in InUse(kv) : cell.pos < TextCtx

Words(segments) ==
    LET upto[k \in 0 .. Len(segments)] ==
            IF k = 0 THEN 0 ELSE upto[k - 1] + segments[k].words
    IN  upto[Len(segments)]
TextLen(tokens) == Cardinality({k \in DOMAIN tokens : tokens[k] = Text})

(* A step of a call only adds segments, in order of time, and adds as much *)
(* text as the best decoder's result has: none is lost between two         *)
(* timestamps or behind the last one.                                      *)
TranscriptGrows ==
    [][pc = "output" =>
          /\ IsPrefix(result_all, result_all')
          /\ \A a, b \in DOMAIN result_all' :
                 a < b => result_all'[a].end <= result_all'[b].end
          /\ Words(result_all') = Words(result_all)
                 + (IF silent THEN 0 ELSE TextLen(dec[best].tokens))]_vars

(* Every call returns.                                                     *)
CallReturns == pc # "idle" ~> pc = "idle"
=============================================================================
