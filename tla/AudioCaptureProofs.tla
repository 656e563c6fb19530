------------------------- MODULE AudioCaptureProofs -------------------------
(***************************************************************************)
(* Proofs about AudioCapture for any number of recordings, any window and  *)
(* read sizes and any recording length.                                    *)
(***************************************************************************)
EXTENDS AudioCapture, SequenceTheorems, TLAPS

(* What holds of one recording: only a full window is more than a window   *)
(* less one sample, no read in the channel is larger than a read can be,   *)
(* a window being transcribed has audio in it, nobody collects for a       *)
(* cancelled job, the audio is whole until the job is cancelled, and the   *)
(* lines so far are timed right.                                           *)
RecordingOK(s) ==
    /\ s.flow \in {"NEW", "COLLECT"} => s.samples < WindowSamples
    /\ s.samples < WindowSamples + ReadSize
    /\ \A i \in 1..Len(s.channel) : s.channel[i].len <= ReadSize
    /\ s.flow = "TRANSCRIBE" => s.chunks # <<>>
    /\ s.flow \in {"NEW", "COLLECT"} => ~s.cancelled
    /\ ~s.cancelled => /\ Covers(s.chunks, s.baseSamples, s.baseSamples + s.samples)
                       /\ Covers(s.channel, s.baseSamples + s.samples, s.position)
    /\ \A i \in 1..Len(s.lines) :
         /\ s.lines[i].startMs = s.lines[i].from \div SamplesPerMs
         /\ s.lines[i].endMs = s.lines[i].to \div SamplesPerMs

(* Whisper is called once for each recording that waits for it.            *)
CallsOK ==
    /\ \A i \in 1..Len(calls) : rec[calls[i]].flow = "TRANSCRIBE"
    /\ \A i, j \in 1..Len(calls) : i # j => calls[i] # calls[j]

CaptureInv ==
    /\ TypeOK
    /\ \A r \in Recordings : RecordingOK(rec[r])
    /\ CallsOK
    /\ captureJob # None => rec[captureJob].flow # "NEW"

-----------------------------------------------------------------------------
(* Intervals of audio.                                                     *)

(* A chunk that begins where the others end extends what they cover.       *)
LEMMA CoversAppend ==
    ASSUME NEW q \in Seq(Chunks), NEW a \in Nat, NEW b \in Nat, Covers(q, a, b),
           NEW c \in Chunks, c.at = b
    PROVE  Covers(Append(q, c), a, b + c.len)
<1>1. CASE q = <<>>
  BY <1>1 DEF Covers, Chunks
<1>2. CASE q # <<>>
  <2> DEFINE s == Append(q, c)
  <2>1. /\ Len(q) \in Nat \ {0}
        /\ Len(s) = Len(q) + 1 /\ s[Len(s)] = c
        /\ \A i \in 1..Len(q) : s[i] = q[i]
    BY <1>2, AppendProperties, EmptySeq
  <2>2. s # <<>> /\ s[1].at = a
    BY <1>2, <2>1, EmptySeq DEF Covers
  <2>3. ASSUME NEW i \in 1..Len(s) - 1 PROVE s[i].at + s[i].len = s[i + 1].at
    BY <1>2, <2>1 DEF Covers
  <2> QED
    BY <2>1, <2>2, <2>3 DEF Covers
<1> QED
  BY <1>1, <1>2

(* The first chunk begins where they begin, and the others cover the rest. *)
LEMMA CoversTail ==
    ASSUME NEW q \in Seq(Chunks), NEW a \in Nat, NEW b \in Nat, Covers(q, a, b), q # <<>>
    PROVE  /\ Head(q).at = a
           /\ Covers(Tail(q), a + Head(q).len, b)
<1>1. /\ Len(q) \in Nat \ {0} /\ Head(q) = q[1]
      /\ Tail(q) \in Seq(Chunks) /\ Len(Tail(q)) = Len(q) - 1
      /\ \A i \in 1..Len(q) - 1 : Tail(q)[i] = q[i + 1]
  BY HeadTailProperties, EmptySeq
<1>2. \A i \in 1..Len(q) : q[i].at \in Nat /\ q[i].len \in Nat
  <2>1. ASSUME NEW i \in 1..Len(q) PROVE q[i] \in Chunks
    BY ElementOfSeq
  <2> QED
    BY <2>1, SMTT(60) DEF Chunks
<1>3. /\ q[1].at = a
      /\ \A i \in 1..Len(q) - 1 : q[i].at + q[i].len = q[i + 1].at
      /\ q[Len(q)].at + q[Len(q)].len = b
  BY DEF Covers
<1>4. CASE Tail(q) = <<>>
  <2>1. Len(q) - 1 = 0
    BY <1>1, <1>4, EmptySeq, Zenon
  <2>2. Len(q) = 1
    BY <2>1, LenProperties
  <2> QED
    BY <1>1, <1>3, <1>4, <2>2 DEF Covers
<1>5. CASE Tail(q) # <<>>
  <2> DEFINE s == Tail(q)
  <2>1. Len(q) >= 2
    BY <1>1, <1>5, EmptySeq
  <2>2. s[1].at = a + Head(q).len
    BY <1>1, <1>3, <2>1
  <2>3. ASSUME NEW i \in 1..Len(s) - 1 PROVE s[i].at + s[i].len = s[i + 1].at
    <3>1. i \in 1..Len(q) - 1 /\ i + 1 \in 1..Len(q) - 1
      BY <1>1
    <3>2. s[i] = q[i + 1] /\ s[i + 1] = q[(i + 1) + 1]
      BY <1>1, <3>1
    <3> QED
      BY <1>3, <3>1, <3>2
  <2>4. s[Len(s)].at + s[Len(s)].len = b
    <3>1. Len(s) \in 1..Len(q) - 1 /\ Len(s) + 1 = Len(q)
      BY <1>1, <2>1
    <3>2. s[Len(s)] = q[Len(q)]
      BY <1>1, <3>1
    <3> QED
      BY <1>3, <3>2
  <2>5. Covers(s, a + Head(q).len, b)
    BY <1>5, <2>2, <2>3, <2>4 DEF Covers
  <2> QED
    BY <1>1, <1>3, <2>5
<1> QED
  BY <1>4, <1>5

-----------------------------------------------------------------------------
(* The invariant.                                                          *)

(* A quotient of natural numbers is one.                                   *)
LEMMA QuotientNat ==
    ASSUME NEW n \in Nat, NEW k \in Nat \ {0}
    PROVE  n \div k \in Nat
<1>1. n \div k \in Int
  OBVIOUS
<1>2. n \div k >= 0
  OBVIOUS
<1> QED
  BY <1>1, <1>2

(* The assumption on the constants, taken apart.                           *)
LEMMA ConstantTypes ==
    /\ ReadSize \in Nat \ {0} /\ WindowSamples \in Nat \ {0}
    /\ SamplesPerMs \in Nat \ {0} /\ MaxPosition \in Nat
    /\ MaxRecordings \in Nat
BY AudioCaptureAssumption

(* The initial state.                                                      *)
LEMMA InitInv == Init => CaptureInv
<1> SUFFICES ASSUME Init PROVE CaptureInv
  OBVIOUS
<1>1. <<>> \in Seq(Chunks) /\ <<>> \in Seq(Lines) /\ <<>> \in Seq(Recordings) /\ Len(<<>>) = 0
  BY EmptySeq
<1>2. Fresh \in States
  BY <1>1 DEF Fresh, States
<1>3. RecordingOK(Fresh)
  BY <1>1, ConstantTypes DEF RecordingOK, Fresh, Covers
<1>4. TypeOK
  BY <1>1, <1>2 DEF Init, TypeOK
<1>5. \A r \in Recordings : RecordingOK(rec[r])
  BY <1>3 DEF Init
<1>6. CallsOK
  <2>1. Len(calls) = 0
    BY <1>1, Zenon DEF Init
  <2> QED
    BY <2>1 DEF CallsOK
<1> QED
  BY <1>4, <1>5, <1>6 DEF CaptureInv, Init

(* A step of one recording that leaves whisper's calls alone, or adds or   *)
(* ends its own.                                                           *)
LEMMA OneRecording ==
    ASSUME CaptureInv, NEW r \in Recordings, NEW s \in States,
           rec' = [rec EXCEPT ![r] = s], RecordingOK(s),
           captureJob' \in {captureJob, None} \/ (captureJob' = r /\ s.flow # "NEW"),
           s.flow = "NEW" => rec[r].flow = "NEW", loaded' \in BOOLEAN,
           \/ calls' = calls /\ (rec[r].flow = "TRANSCRIBE" => s.flow = "TRANSCRIBE")
           \/ calls' = Append(calls, r) /\ rec[r].flow # "TRANSCRIBE" /\ s.flow = "TRANSCRIBE"
           \/ calls # <<>> /\ r = Head(calls) /\ calls' = Tail(calls)
    PROVE  CaptureInv'
<1>1. /\ rec' \in [Recordings -> States]
      /\ rec'[r] = s
      /\ \A q \in Recordings : q # r => rec'[q] = rec[q]
  BY DEF CaptureInv, TypeOK
<1>2. \A q \in Recordings : RecordingOK(rec'[q])
  BY <1>1, Zenon DEF CaptureInv
<1>3. calls \in Seq(Recordings) /\ Len(calls) \in Nat /\ \A i \in 1..Len(calls) : calls[i] \in Recordings
  BY ElementOfSeq, LenProperties DEF CaptureInv, TypeOK
<1>4. calls' \in Seq(Recordings) /\ CallsOK'
  <2>1. CASE calls' = calls /\ (rec[r].flow = "TRANSCRIBE" => s.flow = "TRANSCRIBE")
    <3>1. ASSUME NEW i \in 1..Len(calls) PROVE rec'[calls[i]].flow = "TRANSCRIBE"
      BY <1>1, <1>3, <2>1 DEF CaptureInv, CallsOK
    <3> QED
      BY <1>3, <2>1, <3>1 DEF CaptureInv, CallsOK
  <2>2. CASE calls' = Append(calls, r) /\ rec[r].flow # "TRANSCRIBE" /\ s.flow = "TRANSCRIBE"
    <3>1. /\ calls' \in Seq(Recordings) /\ Len(calls') = Len(calls) + 1
          /\ calls'[Len(calls) + 1] = r
          /\ \A i \in 1..Len(calls) : calls'[i] = calls[i]
      BY <1>3, <2>2, AppendProperties
    <3>2. \A i \in 1..Len(calls) : calls[i] # r
      BY <2>2 DEF CaptureInv, CallsOK
    <3>3. ASSUME NEW i \in 1..Len(calls') PROVE rec'[calls'[i]].flow = "TRANSCRIBE"
      BY <1>1, <1>3, <2>2, <3>1 DEF CaptureInv, CallsOK
    <3>4. ASSUME NEW i \in 1..Len(calls'), NEW j \in 1..Len(calls'), i # j
          PROVE  calls'[i] # calls'[j]
      BY <1>3, <3>1, <3>2, <3>4 DEF CaptureInv, CallsOK
    <3> QED
      BY <3>1, <3>3, <3>4 DEF CallsOK
  <2>3. CASE calls # <<>> /\ r = Head(calls) /\ calls' = Tail(calls)
    <3>1. /\ calls' \in Seq(Recordings) /\ Len(calls') = Len(calls) - 1
          /\ calls[1] = r /\ Len(calls) >= 1
          /\ \A i \in 1..Len(calls) - 1 : calls'[i] = calls[i + 1]
      BY <1>3, <2>3, HeadTailProperties, EmptySeq
    <3>2. ASSUME NEW i \in 1..Len(calls') PROVE rec'[calls'[i]].flow = "TRANSCRIBE"
      <4>1. i + 1 \in 1..Len(calls) /\ calls'[i] = calls[i + 1] /\ calls[i + 1] # r
        BY <1>3, <3>1 DEF CaptureInv, CallsOK
      <4> QED
        BY <1>1, <1>3, <4>1 DEF CaptureInv, CallsOK
    <3>3. ASSUME NEW i \in 1..Len(calls'), NEW j \in 1..Len(calls'), i # j
          PROVE  calls'[i] # calls'[j]
      BY <1>3, <3>1, <3>3, SMTT(60) DEF CaptureInv, CallsOK
    <3> QED
      BY <3>1, <3>2, <3>3 DEF CallsOK
  <2> QED
    BY <2>1, <2>2, <2>3
<1>5. captureJob' # None => rec'[captureJob'].flow # "NEW"
  BY <1>1 DEF CaptureInv, TypeOK
<1>6. TypeOK'
  BY <1>1, <1>4 DEF CaptureInv, TypeOK
<1> QED
  BY <1>2, <1>4, <1>5, <1>6 DEF CaptureInv

(* The capture job: starting.                                              *)
LEMMA StartInv ==
    ASSUME CaptureInv, NEW r \in Recordings, StartRecording(r)
    PROVE  CaptureInv'
<1> DEFINE collecting == [rec[r] EXCEPT !.flow = "COLLECT", !.mic = "OPENING"]
           failed == [rec[r] EXCEPT !.flow = "ENDED"]
<1>1. rec \in [Recordings -> States] /\ rec[r] \in States /\ RecordingOK(rec[r])
  BY DEF CaptureInv, TypeOK
<1>2. rec[r].flow = "NEW" /\ captureJob' = r /\ calls' = calls
  BY DEF StartRecording
<1>3. CASE loaded' = TRUE /\ rec' = [rec EXCEPT ![r].flow = "COLLECT", ![r].mic = "OPENING"]
  <2>1. rec' = [rec EXCEPT ![r] = collecting]
    BY <1>1, <1>3
  <2>2. collecting \in States /\ RecordingOK(collecting) /\ collecting.flow = "COLLECT"
    BY <1>1, <1>2, ZenonT(60) DEF States, RecordingOK
  <2> QED
    BY <1>2, <1>3, <2>1, <2>2, OneRecording
<1>4. CASE ~loaded /\ rec' = [rec EXCEPT ![r].flow = "ENDED"] /\ UNCHANGED loaded
  <2>1. rec' = [rec EXCEPT ![r] = failed]
    BY <1>1, <1>4
  <2>2. failed \in States /\ RecordingOK(failed) /\ failed.flow = "ENDED"
    BY <1>1, <1>2 DEF States, RecordingOK
  <2> QED
    BY <1>2, <1>4, <2>1, <2>2, OneRecording DEF CaptureInv, TypeOK
<1> QED
  BY <1>3, <1>4 DEF StartRecording

(* The capture job: stopping.                                              *)
LEMMA StopInv ==
    ASSUME CaptureInv, StopRecording
    PROVE  CaptureInv'
<1> DEFINE r == captureJob
           s == [rec[r] EXCEPT !.cancelled = TRUE, !.channel = <<>>,
                               !.flow = IF @ = "COLLECT" THEN "ENDED" ELSE @]
<1>1. r \in Recordings /\ rec \in [Recordings -> States] /\ rec[r] \in States
      /\ RecordingOK(rec[r]) /\ rec[r].flow # "NEW"
  BY DEF StopRecording, CaptureInv, TypeOK
<1>2. rec' = [rec EXCEPT ![r] = s]
  BY <1>1 DEF StopRecording
<1>3. <<>> \in Seq(Chunks) /\ Len(<<>>) = 0
  BY EmptySeq
<1>4. s \in States /\ s.flow # "NEW"
  BY <1>1, <1>3 DEF States
<1>5. RecordingOK(s)
  BY <1>1, <1>3 DEF States, RecordingOK
<1>6. captureJob' = None /\ loaded' = loaded /\ calls' = calls
  BY DEF StopRecording
<1>7. rec[r].flow = "TRANSCRIBE" => s.flow = "TRANSCRIBE"
  BY <1>1 DEF States
<1> HIDE DEF r, s
<1> QED
  BY <1>1, <1>2, <1>4, <1>5, <1>6, <1>7, OneRecording DEF CaptureInv, TypeOK

(* Taking a chunk moves it from the channel to the window.                 *)
LEMMA CollectInv ==
    ASSUME CaptureInv, NEW r \in Recordings, Collect(r)
    PROVE  CaptureInv'
<1> DEFINE old == rec[r]
           chunk == Head(old.channel)
           full == old.samples + chunk.len >= WindowSamples
           s == [old EXCEPT !.channel = Tail(@), !.chunks = Append(@, chunk),
                            !.samples = @ + chunk.len,
                            !.flow = IF full THEN "TRANSCRIBE" ELSE @]
<1>1. /\ rec \in [Recordings -> States] /\ old \in States /\ RecordingOK(old)
      /\ old.flow = "COLLECT" /\ old.channel # <<>> /\ ~old.cancelled
      /\ old.samples < WindowSamples
  BY DEF Collect, CaptureInv, TypeOK, RecordingOK
<1>2. rec' = [rec EXCEPT ![r] = s]
  BY <1>1 DEF Collect
<1>3. /\ old.channel \in Seq(Chunks) /\ old.chunks \in Seq(Chunks)
      /\ old.samples \in Nat /\ old.baseSamples \in Nat /\ old.position \in Nat
  BY <1>1 DEF States
<1>4. /\ chunk \in Chunks /\ chunk = old.channel[1] /\ Tail(old.channel) \in Seq(Chunks)
      /\ Len(old.channel) \in Nat \ {0} /\ Len(Tail(old.channel)) = Len(old.channel) - 1
      /\ \A i \in 1..Len(old.channel) - 1 : Tail(old.channel)[i] = old.channel[i + 1]
  BY <1>1, <1>3, HeadTailProperties, EmptySeq
<1>5. chunk.len \in Nat \ {0} /\ chunk.len <= ReadSize
  BY <1>1, <1>4 DEF Chunks, RecordingOK
<1>6. Append(old.chunks, chunk) \in Seq(Chunks) /\ Append(old.chunks, chunk) # <<>>
  BY <1>3, <1>4, AppendProperties, SMTT(60)
<1>7. s \in States
  <2>1. old.samples + chunk.len \in Nat
    BY <1>3, <1>5, SMTT(60)
  <2> HIDE DEF chunk, full
  <2> QED
    BY <1>1, <1>4, <1>6, <2>1, ZenonT(60) DEF States
<1>8. /\ s.flow = IF full THEN "TRANSCRIBE" ELSE "COLLECT"
      /\ s.samples = old.samples + chunk.len /\ s.cancelled = FALSE
      /\ s.channel = Tail(old.channel) /\ s.chunks = Append(old.chunks, chunk)
      /\ s.baseSamples = old.baseSamples /\ s.position = old.position
      /\ s.lines = old.lines
  BY <1>1 DEF States
<1>9. RecordingOK(s)
  <2>1. /\ Covers(old.chunks, old.baseSamples, old.baseSamples + old.samples)
        /\ Covers(old.channel, old.baseSamples + old.samples, old.position)
    BY <1>1 DEF RecordingOK
  <2> DEFINE b == old.baseSamples + old.samples
  <2>2. b \in Nat
    BY <1>3, SMTT(60)
  <2> HIDE DEF b, chunk
  <2>3. chunk.at = b /\ Covers(Tail(old.channel), b + chunk.len, old.position)
    BY <1>1, <1>3, <2>1, <2>2, CoversTail DEF b, chunk
  <2>4. Covers(Append(old.chunks, chunk), old.baseSamples, b + chunk.len)
    BY <1>3, <1>4, <2>1, <2>2, <2>3, CoversAppend DEF b
  <2>5. b + chunk.len = s.baseSamples + s.samples
    BY <1>3, <1>5, <1>8, SMTT(60) DEF b
  <2>6. s.samples < WindowSamples + ReadSize /\ (s.flow = "COLLECT" => s.samples < WindowSamples)
    BY <1>1, <1>3, <1>5, <1>8, ConstantTypes, SMTT(60)
  <2>7. \A i \in 1..Len(s.channel) : s.channel[i].len <= ReadSize
    BY <1>1, <1>4, <1>8, SMTT(60) DEF RecordingOK
  <2>8. s.flow \in {"COLLECT", "TRANSCRIBE"} /\ s.chunks # <<>>
    BY <1>6, <1>8
  <2>9. \A i \in 1..Len(s.lines) :
           /\ s.lines[i].startMs = s.lines[i].from \div SamplesPerMs
           /\ s.lines[i].endMs = s.lines[i].to \div SamplesPerMs
    BY <1>1, <1>8 DEF RecordingOK
  <2>10. /\ Covers(s.chunks, s.baseSamples, s.baseSamples + s.samples)
         /\ Covers(s.channel, s.baseSamples + s.samples, s.position)
    BY <1>8, <2>3, <2>4, <2>5
  <2> HIDE DEF s
  <2> QED
    BY <1>8, <2>6, <2>7, <2>8, <2>9, <2>10 DEF RecordingOK
<1>10. /\ captureJob' = captureJob /\ loaded' = loaded /\ loaded \in BOOLEAN
       /\ calls' = IF full THEN Append(calls, r) ELSE calls
  BY DEF Collect, CaptureInv, TypeOK
<1> HIDE DEF full, s
<1>11. s.flow # "NEW" /\ old.flow # "TRANSCRIBE"
  BY <1>1, <1>8
<1> QED
  BY <1>2, <1>7, <1>8, <1>9, <1>10, <1>11, OneRecording

(* The end of a window, and the line it makes.                             *)
LEMMA TranscribedInv ==
    ASSUME CaptureInv, NEW r \in Recordings, Transcribed(r)
    PROVE  CaptureInv'
<1> DEFINE old == rec[r]
<1>1. /\ rec \in [Recordings -> States] /\ old \in States /\ RecordingOK(old)
      /\ calls # <<>> /\ r = Head(calls) /\ calls' = Tail(calls)
      /\ captureJob' = captureJob /\ loaded' = loaded /\ loaded \in BOOLEAN
      /\ calls \in Seq(Recordings)
  BY DEF Transcribed, WhisperReturns, CaptureInv, TypeOK
<1>2. old.flow = "TRANSCRIBE"
  <2>1. Head(calls) = calls[1] /\ 1 \in 1..Len(calls)
    BY <1>1, HeadTailProperties, EmptySeq
  <2> QED
    BY <1>1, <2>1 DEF CaptureInv, CallsOK
<1>3. /\ old.chunks \in Seq(Chunks) /\ old.lines \in Seq(Lines)
      /\ old.samples \in Nat /\ old.baseSamples \in Nat /\ old.cancelled \in BOOLEAN
      /\ <<>> \in Seq(Chunks) /\ Len(<<>>) = 0
  BY <1>1, EmptySeq DEF States
<1> DEFINE silent == Committed(old, FALSE)
           spoken == Committed(old, TRUE)
           stopped == [silent EXCEPT !.flow = "ENDED"]
<1>4. \E s \in {silent, spoken, stopped} :
          /\ rec' = [rec EXCEPT ![r] = s]
          /\ old.cancelled <=> s = stopped
  <2>1. PICK says \in BOOLEAN :
           rec' = [rec EXCEPT ![r] = IF rec[r].cancelled
                                      THEN [Committed(@, FALSE) EXCEPT !.flow = "ENDED"]
                                      ELSE Committed(@, says)]
    BY DEF Transcribed
  <2>2. silent.flow = "COLLECT" /\ spoken.flow = "COLLECT" /\ stopped.flow = "ENDED"
    BY <1>1 DEF Committed, States
  <2>3. CASE old.cancelled
    BY <1>1, <2>1, <2>3
  <2>4. CASE ~old.cancelled
    <3>1. rec' = [rec EXCEPT ![r] = Committed(old, says)]
      BY <1>1, <2>1, <2>4
    <3> HIDE DEF stopped
    <3> QED
      BY <2>2, <2>4, <3>1
  <2> QED
    BY <2>3, <2>4
<1>5. PICK s \in {silent, spoken, stopped} :
          /\ rec' = [rec EXCEPT ![r] = s]
          /\ old.cancelled <=> s = stopped
  BY <1>4
<1>6. /\ Line(old) \in Lines
      /\ ~old.cancelled => /\ Line(old).startMs = Line(old).from \div SamplesPerMs
                           /\ Line(old).endMs = Line(old).to \div SamplesPerMs
  <2> DEFINE n == Len(old.chunks)
             a == old.chunks[1].at
             z == old.chunks[n].at + old.chunks[n].len
             b == old.baseSamples
             e == old.baseSamples + old.samples
  <2>1. old.chunks # <<>> /\ n \in Nat \ {0}
    BY <1>1, <1>2, <1>3, EmptySeq DEF RecordingOK
  <2>2. old.chunks[1] \in Chunks /\ old.chunks[n] \in Chunks
    BY <1>3, <2>1, ElementOfSeq
  <2>3. a \in Nat /\ z \in Nat
    BY <2>2, SMTT(60) DEF Chunks
  <2>4. b \div SamplesPerMs \in Nat /\ e \div SamplesPerMs \in Nat
    <3>1. b \in Nat /\ e \in Nat
      BY <1>3
    <3> HIDE DEF b, e
    <3> QED
      BY <3>1, ConstantTypes, QuotientNat, Zenon
  <2>5. ~old.cancelled => a = b /\ z = e
    BY <1>1, <2>1 DEF RecordingOK, Covers
  <2>6. Line(old) = [startMs |-> b \div SamplesPerMs, endMs |-> e \div SamplesPerMs,
                     from |-> a, to |-> z]
    BY DEF Line
  <2> HIDE DEF a, z, b, e
  <2> QED
    BY <2>3, <2>4, <2>5, <2>6 DEF Lines
<1>7. /\ s \in States /\ s.flow \in {"COLLECT", "ENDED"}
      /\ s.flow = "COLLECT" => ~old.cancelled
      /\ s.chunks = <<>> /\ s.samples = 0 /\ s.channel = old.channel
      /\ s.cancelled = old.cancelled /\ s.position = old.position
      /\ s.baseSamples = old.baseSamples + old.samples
      /\ s.lines \in {old.lines, Append(old.lines, Line(old))}
      /\ old.cancelled => s.lines = old.lines
  <2>1. old.baseSamples + old.samples \in Nat
    BY <1>3
  <2>2. Append(old.lines, Line(old)) \in Seq(Lines)
    BY <1>3, <1>6, AppendProperties
  <2> HIDE DEF old
  <2>3. silent.flow = "COLLECT" /\ spoken.flow = "COLLECT" /\ stopped.flow = "ENDED"
    BY <1>1 DEF Committed, States
  <2>4. s # stopped => ~old.cancelled
    BY <1>5
  <2>5. CASE s = silent
    BY <1>1, <1>3, <2>1, <2>5, <2>3, <2>4, ZenonT(60) DEF Committed, States
  <2>6. CASE s = spoken
    BY <1>1, <1>3, <2>1, <2>2, <2>6, <2>3, <2>4 DEF Committed, States
  <2>7. CASE s = stopped
    BY <1>1, <1>3, <1>5, <2>1, <2>7 DEF Committed, States
  <2> QED
    BY <2>5, <2>6, <2>7
<1>8. RecordingOK(s)
  <2>1. ASSUME NEW i \in 1..Len(s.lines)
        PROVE  /\ s.lines[i].startMs = s.lines[i].from \div SamplesPerMs
               /\ s.lines[i].endMs = s.lines[i].to \div SamplesPerMs
    <3>1. CASE s.lines = old.lines
      BY <1>1, <2>1, <3>1 DEF RecordingOK
    <3>2. CASE ~old.cancelled /\ s.lines = Append(old.lines, Line(old))
      <4>1. /\ Len(s.lines) = Len(old.lines) + 1 /\ Len(old.lines) \in Nat
            /\ s.lines[Len(old.lines) + 1] = Line(old)
            /\ \A j \in 1..Len(old.lines) : s.lines[j] = old.lines[j]
        BY <1>3, <1>6, <3>2, AppendProperties, LenProperties
      <4>2. CASE i = Len(old.lines) + 1
        BY <1>6, <3>2, <4>1, <4>2
      <4>3. CASE i \in 1..Len(old.lines)
        BY <1>1, <4>1, <4>3 DEF RecordingOK
      <4> QED
        BY <2>1, <4>1, <4>2, <4>3, SMTT(60)
    <3> QED
      BY <1>7, <3>1, <3>2
  <2>2. /\ s.samples < WindowSamples
        /\ s.baseSamples + s.samples = old.baseSamples + old.samples
    BY <1>3, <1>7, ConstantTypes, SMTT(60)
  <2> HIDE DEF old
  <2> QED
    BY <1>1, <1>7, <2>1, <2>2, ConstantTypes, SMTT(60) DEF RecordingOK, Covers
<1>9. s.flow # "NEW"
  BY <1>7
<1> HIDE DEF old
<1> QED
  BY <1>1, <1>5, <1>7, <1>8, <1>9, OneRecording

-----------------------------------------------------------------------------
(* The mic.                                                                *)

(* A step of the recorder or of the mic thread concerns neither the window *)
(* nor the lines, and only adds to the channel.                            *)
LEMMA MicStep ==
    ASSUME CaptureInv, NEW r \in Recordings, NEW s \in States,
           rec' = [rec EXCEPT ![r] = s], UNCHANGED <<captureJob, loaded, calls>>,
           s.flow = rec[r].flow, s.cancelled = rec[r].cancelled,
           s.chunks = rec[r].chunks, s.samples = rec[r].samples,
           s.baseSamples = rec[r].baseSamples, s.lines = rec[r].lines,
           \/ s.channel = rec[r].channel /\ s.position = rec[r].position
           \/ \E c \in Chunks :
                 /\ c.at = rec[r].position /\ c.len <= ReadSize
                 /\ s.channel = Append(rec[r].channel, c)
                 /\ s.position = rec[r].position + c.len
    PROVE  CaptureInv'
<1> DEFINE old == rec[r]
<1>1. old \in States /\ RecordingOK(old) /\ loaded \in BOOLEAN
  BY DEF CaptureInv, TypeOK
<1>2. RecordingOK(s)
  <2>1. CASE s.channel = old.channel /\ s.position = old.position
    BY <1>1, <2>1, SMTT(60) DEF RecordingOK
  <2>2. CASE \E c \in Chunks : /\ c.at = old.position /\ c.len <= ReadSize
                               /\ s.channel = Append(old.channel, c)
                               /\ s.position = old.position + c.len
    <3>1. PICK c \in Chunks : /\ c.at = old.position /\ c.len <= ReadSize
                               /\ s.channel = Append(old.channel, c)
                               /\ s.position = old.position + c.len
      BY <2>2
    <3>2. /\ old.channel \in Seq(Chunks)
          /\ old.baseSamples + old.samples \in Nat /\ old.position \in Nat
      BY <1>1, SMTT(60) DEF States
    <3>3. ~old.cancelled => Covers(old.channel, old.baseSamples + old.samples, old.position)
      BY <1>1 DEF RecordingOK
    <3>4. ~s.cancelled => Covers(s.channel, s.baseSamples + s.samples, s.position)
      <4> DEFINE b == old.baseSamples + old.samples
      <4> HIDE DEF b
      <4>1. Covers(old.channel, b, old.position) => Covers(Append(old.channel, c), b, old.position + c.len)
        BY <3>1, <3>2, CoversAppend, SMTT(60) DEF b
      <4> QED
        BY <3>1, <3>3, <4>1 DEF b
    <3>5. /\ Len(s.channel) = Len(old.channel) + 1 /\ Len(old.channel) \in Nat
          /\ s.channel[Len(old.channel) + 1] = c
          /\ \A i \in 1..Len(old.channel) : s.channel[i] = old.channel[i]
      BY <3>1, <3>2, AppendProperties, LenProperties
    <3>6. ASSUME NEW i \in 1..Len(s.channel) PROVE s.channel[i].len <= ReadSize
      <4>1. CASE i = Len(old.channel) + 1
        BY <3>1, <3>5, <4>1
      <4>2. CASE i \in 1..Len(old.channel)
        BY <1>1, <3>5, <4>2 DEF RecordingOK
      <4> QED
        BY <3>5, <3>6, <4>1, <4>2, SMTT(60)
    <3> QED
      BY <1>1, <3>4, <3>6 DEF RecordingOK
  <2> QED
    BY <2>1, <2>2
<1> QED
  BY <1>1, <1>2, OneRecording

(* Opening, closing and releasing the mic.                                 *)
LEMMA RecorderInv ==
    ASSUME CaptureInv, NEW r \in Recordings, Recorder(r)
    PROVE  CaptureInv'
<1> DEFINE old == rec[r]
<1>1. rec \in [Recordings -> States] /\ old \in States
  BY DEF CaptureInv, TypeOK
<1>2. UNCHANGED <<captureJob, loaded, calls>>
  BY DEF Recorder, OpenMic, CloseMic, ReleaseMic
<1>3. CASE OpenMic(r) /\ old.cancelled
  <2> DEFINE s == [old EXCEPT !.mic = "RELEASED", !.thread = "ENDED"]
  <2>1. rec' = [rec EXCEPT ![r] = s]
    BY <1>1, <1>3 DEF OpenMic
  <2>2. s \in States
    BY <1>1 DEF States
  <2> QED
    BY <1>1, <1>2, <2>1, <2>2, MicStep, ZenonT(60) DEF States
<1>4. CASE OpenMic(r) /\ ~old.cancelled
  <2> DEFINE s == [old EXCEPT !.mic = "OPEN", !.running = TRUE, !.thread = "CHECK"]
  <2>1. rec' = [rec EXCEPT ![r] = s]
    BY <1>1, <1>4 DEF OpenMic
  <2>2. s \in States
    BY <1>1 DEF States
  <2> QED
    BY <1>1, <1>2, <2>1, <2>2, MicStep, ZenonT(60) DEF States
<1>5. CASE CloseMic(r)
  <2> DEFINE s == [old EXCEPT !.running = FALSE, !.mic = "JOINING"]
  <2>1. rec' = [rec EXCEPT ![r] = s]
    BY <1>1, <1>5 DEF CloseMic
  <2>2. s \in States
    BY <1>1 DEF States
  <2> QED
    BY <1>1, <1>2, <2>1, <2>2, MicStep, ZenonT(60) DEF States
<1>6. CASE ReleaseMic(r)
  <2> DEFINE s == [old EXCEPT !.mic = "RELEASED"]
  <2>1. rec' = [rec EXCEPT ![r] = s]
    BY <1>1, <1>6 DEF ReleaseMic
  <2>2. s \in States
    BY <1>1 DEF States
  <2> QED
    BY <1>1, <1>2, <2>1, <2>2, MicStep DEF States
<1> QED
  BY <1>3, <1>4, <1>5, <1>6 DEF Recorder

(* The mic thread, which delivers what it reads unless the job is over.    *)
LEMMA MicThreadInv ==
    ASSUME CaptureInv, NEW r \in Recordings, MicThread(r)
    PROVE  CaptureInv'
<1> DEFINE old == rec[r]
<1>1. /\ rec \in [Recordings -> States] /\ old \in States
      /\ old.position \in Nat /\ old.channel \in Seq(Chunks)
  BY DEF CaptureInv, TypeOK, States
<1>2. UNCHANGED <<captureJob, loaded, calls>>
  BY DEF MicThread, ThreadChecks, ThreadReads
<1>3. CASE ThreadChecks(r)
  <2> DEFINE s == [old EXCEPT !.thread = IF old.running THEN "READ" ELSE "ENDED"]
  <2>1. rec' = [rec EXCEPT ![r] = s]
    BY <1>1, <1>3 DEF ThreadChecks
  <2>2. s \in States
    BY <1>1 DEF States
  <2> QED
    BY <1>1, <1>2, <2>1, <2>2, MicStep, ZenonT(60) DEF States
<1>4. CASE ThreadReads(r)
  <2>1. PICK n \in 0..ReadSize :
           LET sent == n > 0 /\ ~old.cancelled
               chunk == [at |-> old.position, len |-> n]
           IN  rec' = [rec EXCEPT ![r].thread = "CHECK",
                                  ![r].position = IF sent THEN @ + n ELSE @,
                                  ![r].channel = IF sent THEN Append(@, chunk) ELSE @]
    BY <1>4 DEF ThreadReads
  <2>2. CASE n > 0 /\ ~old.cancelled
    <3> DEFINE c == [at |-> old.position, len |-> n]
               s == [old EXCEPT !.thread = "CHECK", !.position = @ + n,
                                !.channel = Append(@, c)]
    <3>1. c \in Chunks /\ c.at = old.position /\ c.len = n /\ n <= ReadSize
      BY <1>1, <2>1, <2>2, ConstantTypes DEF Chunks
    <3>2. rec' = [rec EXCEPT ![r] = s]
      BY <1>1, <2>1, <2>2
    <3>3. old.position + n \in Nat /\ Append(old.channel, c) \in Seq(Chunks)
      BY <1>1, <3>1, ConstantTypes, AppendProperties
    <3> HIDE DEF c
    <3>4. /\ s \in States /\ s.flow = old.flow /\ s.cancelled = old.cancelled
          /\ s.chunks = old.chunks /\ s.samples = old.samples
          /\ s.baseSamples = old.baseSamples /\ s.lines = old.lines
          /\ s.position = old.position + c.len
          /\ s.channel = Append(old.channel, c)
      BY <1>1, <3>1, <3>3 DEF States
    <3> HIDE DEF s
    <3> QED
      BY <1>2, <3>1, <3>2, <3>4, MicStep
  <2>3. CASE ~(n > 0 /\ ~old.cancelled)
    <3> DEFINE s == [old EXCEPT !.thread = "CHECK"]
    <3>1. rec' = [rec EXCEPT ![r] = s]
      BY <1>1, <2>1, <2>3, ZenonT(60) DEF States
    <3>2. s \in States
      BY <1>1 DEF States
    <3> QED
      BY <1>1, <1>2, <3>1, <3>2, MicStep DEF States
  <2> QED
    BY <2>2, <2>3
<1> QED
  BY <1>3, <1>4 DEF MicThread

(* A recorder that cannot be made takes the process, and every recording   *)
(* in it, down.                                                            *)
LEMMA MicUnavailableInv ==
    ASSUME CaptureInv, NEW r \in Recordings, MicUnavailable(r)
    PROVE  CaptureInv'
<1> DEFINE dead(s) == [s EXCEPT !.flow = "ENDED", !.cancelled = TRUE, !.channel = <<>>,
                                !.running = FALSE, !.mic = "RELEASED", !.thread = "ENDED"]
<1>1. rec \in [Recordings -> States] /\ <<>> \in Seq(Chunks) /\ <<>> \in Seq(Recordings)
      /\ Len(<<>>) = 0
  BY EmptySeq DEF CaptureInv, TypeOK
<1>2. /\ rec' = [q \in Recordings |-> IF rec[q].flow = "NEW" THEN rec[q] ELSE dead(rec[q])]
      /\ captureJob' = None /\ loaded' = FALSE /\ calls' = <<>>
  BY DEF MicUnavailable
<1>3. ASSUME NEW q \in Recordings PROVE rec'[q] \in States /\ RecordingOK(rec'[q])
  <2>1. rec[q] \in States /\ RecordingOK(rec[q])
    BY <1>1 DEF CaptureInv
  <2>2. dead(rec[q]) \in States /\ RecordingOK(dead(rec[q]))
    <3> DEFINE s == dead(rec[q])
    <3>1. /\ s \in States /\ s.flow = "ENDED" /\ s.cancelled /\ s.channel = <<>>
          /\ s.samples = rec[q].samples /\ s.lines = rec[q].lines
      BY <1>1, <2>1 DEF States
    <3>2. ~\E i \in 1..Len(s.channel) : TRUE
      BY <1>1, <3>1
    <3> HIDE DEF s
    <3>3. RecordingOK(s)
      BY <2>1, <3>1, <3>2 DEF RecordingOK
    <3> QED
      BY <3>1, <3>3 DEF s
  <2> QED
    BY <1>2, <2>1, <2>2
<1>4. rec' \in [Recordings -> States]
  BY <1>2, <1>3
<1>5. CallsOK'
  <2>1. Len(calls') = 0
    BY <1>1, <1>2, Zenon
  <2> QED
    BY <2>1 DEF CallsOK
<1> QED
  BY <1>1, <1>2, <1>3, <1>4, <1>5 DEF CaptureInv, TypeOK

(* Every step.                                                             *)
LEMMA NextInv == CaptureInv /\ [Next]_vars => CaptureInv'
<1> SUFFICES ASSUME CaptureInv, [Next]_vars PROVE CaptureInv'
  OBVIOUS
<1>1. CASE StopRecording
  BY <1>1, StopInv
<1>2. ASSUME NEW r \in Recordings, StartRecording(r) PROVE CaptureInv'
  BY <1>2, StartInv
<1>3. ASSUME NEW r \in Recordings, MicUnavailable(r) PROVE CaptureInv'
  BY <1>3, MicUnavailableInv
<1>4. ASSUME NEW r \in Recordings, Collect(r) PROVE CaptureInv'
  BY <1>4, CollectInv
<1>5. ASSUME NEW r \in Recordings, Transcribed(r) PROVE CaptureInv'
  BY <1>5, TranscribedInv
<1>6. ASSUME NEW r \in Recordings, Recorder(r) PROVE CaptureInv'
  BY <1>6, RecorderInv
<1>7. ASSUME NEW r \in Recordings, MicThread(r) PROVE CaptureInv'
  BY <1>7, MicThreadInv
<1>8. CASE UNCHANGED vars
  BY <1>8 DEF vars, CaptureInv, TypeOK, CallsOK
<1> QED
  BY <1>1, <1>2, <1>3, <1>4, <1>5, <1>6, <1>7, <1>8 DEF Next

-----------------------------------------------------------------------------
(* Theorems.                                                               *)

(* The invariant holds of every recording made.                            *)
THEOREM Invariance == Spec => []CaptureInv
<1>1. Init => CaptureInv
  BY InitInv
<1>2. CaptureInv /\ [Next]_vars => CaptureInv'
  BY NextInv
<1> QED
  BY <1>1, <1>2, PTL DEF Spec

(* Between the mic and whisper no audio is lost, doubled or reordered      *)
(* however far whisper lags, and a window never exceeds its size by a      *)
(* whole read (AudioRecorder.stream, WhisperTranscriber.transcribe).       *)
THEOREM AudioStaysSound == Spec => []AudioSound
<1>1. CaptureInv => AudioSound
  BY DEF CaptureInv, RecordingOK, AudioSound, AudioConserved, WindowBounded
<1> QED
  BY <1>1, Invariance, PTL

(* Every line carries the times at which its audio was spoken, whatever    *)
(* windows before it were silent or failed (baseSamples in transcribe).    *)
THEOREM LinesAreTimed == Spec => []TimesAreTrue
<1>1. CaptureInv => TimesAreTrue
  BY DEF CaptureInv, RecordingOK, TimesAreTrue
<1> QED
  BY <1>1, Invariance, PTL

(* A recording that was stopped adds no line, even when whisper is in the  *)
(* middle of its window or the process dies (run returns no text to a      *)
(* cancelled job).                                                         *)
THEOREM StopSilences == Spec => NothingAfterStop
<1> DEFINE Silent == \A r \in Recordings : rec[r].cancelled => rec'[r].lines = rec[r].lines
<1>1. CaptureInv /\ [Next]_vars => [Silent]_vars
  <2> SUFFICES ASSUME CaptureInv, Next, NEW q \in Recordings, rec[q].cancelled
               PROVE  rec'[q].lines = rec[q].lines
    OBVIOUS
  <2>1. rec \in [Recordings -> States] /\ \A p \in Recordings : rec[p] \in States
    BY DEF CaptureInv, TypeOK
  <2>2. CASE StopRecording
    BY <2>1, <2>2 DEF StopRecording, States
  <2>3. ASSUME NEW r \in Recordings, StartRecording(r) PROVE rec'[q].lines = rec[q].lines
    <3>1. CASE rec' = [rec EXCEPT ![r].flow = "COLLECT", ![r].mic = "OPENING"]
      BY <2>1, <3>1, SMTT(60) DEF States
    <3>2. CASE rec' = [rec EXCEPT ![r].flow = "ENDED"]
      BY <2>1, <3>2 DEF States
    <3> QED
      BY <2>3, <3>1, <3>2 DEF StartRecording
  <2>4. ASSUME NEW r \in Recordings, MicUnavailable(r) PROVE rec'[q].lines = rec[q].lines
    BY <2>1, <2>4, ZenonT(60) DEF MicUnavailable, States
  <2>5. ASSUME NEW r \in Recordings, Collect(r) PROVE rec'[q].lines = rec[q].lines
    BY <2>1, <2>5, ZenonT(60) DEF Collect, States
  <2>6. ASSUME NEW r \in Recordings, Transcribed(r) PROVE rec'[q].lines = rec[q].lines
    <3>1. CASE q # r
      BY <2>1, <2>6, <3>1 DEF Transcribed
    <3>2. CASE q = r
      <4>1. rec' = [rec EXCEPT ![q] = [Committed(rec[q], FALSE) EXCEPT !.flow = "ENDED"]]
        BY <2>1, <2>6, <3>2 DEF Transcribed
      <4> QED
        BY <2>1, <4>1 DEF Committed, States
    <3> QED
      BY <3>1, <3>2
  <2>7. ASSUME NEW r \in Recordings, Recorder(r) PROVE rec'[q].lines = rec[q].lines
    <3>1. CASE OpenMic(r) /\ rec[r].cancelled
      BY <2>1, <3>1, SMTT(60) DEF OpenMic, States
    <3>2. CASE OpenMic(r) /\ ~rec[r].cancelled
      BY <2>1, <3>2, SMTT(60) DEF OpenMic, States
    <3>3. CASE CloseMic(r)
      BY <2>1, <3>3, SMTT(60) DEF CloseMic, States
    <3>4. CASE ReleaseMic(r)
      BY <2>1, <3>4 DEF ReleaseMic, States
    <3> QED
      BY <2>7, <3>1, <3>2, <3>3, <3>4 DEF Recorder
  <2>8. ASSUME NEW r \in Recordings, MicThread(r) PROVE rec'[q].lines = rec[q].lines
    <3>1. CASE ThreadChecks(r)
      BY <2>1, <3>1 DEF ThreadChecks, States
    <3>2. CASE ThreadReads(r)
      BY <2>1, <3>2, SMTT(60) DEF ThreadReads, States
    <3> QED
      BY <2>8, <3>1, <3>2 DEF MicThread
  <2> QED
    BY <2>2, <2>3, <2>4, <2>5, <2>6, <2>7, <2>8 DEF Next
<1> QED
  BY <1>1, Invariance, PTL DEF Spec, NothingAfterStop

=============================================================================
