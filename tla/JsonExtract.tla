---------------------------- MODULE JsonExtract ----------------------------
(***************************************************************************)
(* NotesJsonParser.extractJsonObject: finding the JSON object in the raw   *)
(* text of a small model, which may wrap it in code fences and prose.  A   *)
(* text is a sequence of the characters the scan tells apart; "x" stands   *)
(* for every other one and "fence" for a whole ``` or ```json marker.      *)
(***************************************************************************)
EXTENDS Naturals, Sequences, SequencesExt

Chars == {"{", "}", "quote", "escape", "x", "fence"}

NoObject == <<>>

(* The elements of s at the positions in I, in their order: SelectSeq over *)
(* positions, which the proofs can reason about.                           *)
Picked(s, I) ==
    LET upto[n \in 0 .. Len(s)] ==
            IF n = 0 THEN <<>>
            ELSE IF n \in I THEN Append(upto[n - 1], s[n]) ELSE upto[n - 1]
    IN  upto[Len(s)]

Where(s, test(_)) == Picked(s, {i \in DOMAIN s : test(s[i])})

(* At the start of the loop.                                               *)
Start == [depth |-> 0, inString |-> FALSE, escaped |-> FALSE, length |-> 0, done |-> FALSE]

ScanForgetsEscape(s, c) ==
    IF s.done THEN s
    ELSE [s EXCEPT
           !.length = @ + 1,
           !.inString = IF c = "quote" THEN ~@ ELSE @,
           !.depth = CASE ~s.inString /\ c = "{" -> @ + 1
                       [] ~s.inString /\ c = "}" -> @ - 1
                       [] OTHER -> @,
           !.done = ~s.inString /\ c = "}" /\ s.depth = 1]

(* One turn of the loop over the text from its first opening brace.        *)
Scan(s, c) ==
    IF s.done THEN s
    ELSE IF s.inString
      THEN [s EXCEPT !.length = @ + 1,
                     !.escaped = ~s.escaped /\ c = "escape",
                     !.inString = s.escaped \/ c # "quote"]
      ELSE [s EXCEPT !.length = @ + 1,
                     !.inString = c = "quote",
                     !.depth = CASE c = "{" -> @ + 1 [] c = "}" -> @ - 1 [] OTHER -> @,
                     !.done = c = "}" /\ s.depth = 1]

Scanned(text) ==
    LET after[n \in 0 .. Len(text)] ==
            IF n = 0 THEN Start ELSE Scan(after[n - 1], text[n])
    IN  after[Len(text)]

Defenced(raw) == Where(raw, LAMBDA c : c # "fence")

FromFirstBrace(text) ==
    LET start == SelectInSeq(text, LAMBDA c : c = "{")
    IN  IF start = 0 THEN <<>> ELSE SubSeq(text, start, Len(text))

(* The first balanced {...} block, braces inside string literals ignored.  *)
ExtractJsonObject(raw) ==
    LET rest == FromFirstBrace(Defenced(raw))
        end  == Scanned(rest)
    IN  IF end.done THEN SubSeq(rest, 1, end.length) ELSE NoObject

-----------------------------------------------------------------------------
(* The reference: a block by its grammar, not by a scan.                   *)
Concat(S, T) == {s \o t : s \in S, t \in T}

(* What may stand in a string literal: plain characters and escapes.       *)
Literals(n) ==
    LET L[k \in 0 .. n] ==
          IF k = 0 THEN {<<>>}
          ELSE L[k - 1]
               \cup Concat(L[k - 1], {<<"{">>, <<"}">>, <<"x">>})
               \cup IF k = 1 THEN {}
                    ELSE Concat(L[k - 2], {<<"escape", c>> : c \in Chars \ {"fence"}})
    IN  L[n]

(* What may stand between two braces: characters, literals and blocks.     *)
Bodies(n) ==
    LET B[k \in 0 .. n] ==
          IF k = 0 THEN {<<>>}
          ELSE B[k - 1]
               \cup Concat(B[k - 1], {<<"escape">>, <<"x">>})
               \cup UNION {Concat(B[k - 2 - m],
                                  {<<"quote">> \o t \o <<"quote">> : t \in Literals(m)}
                                  \cup {<<"{">> \o t \o <<"}">> : t \in B[m]})
                           : m \in IF k = 1 THEN {} ELSE 0 .. k - 2}
    IN  B[n]

Blocks(n) == {<<"{">> \o t \o <<"}">> : t \in Bodies(n - 2)}
=============================================================================
