---------------------------- MODULE IntakeNotes ----------------------------
(***************************************************************************)
(* From the model's raw answers to the case report: NotesJsonParser (find  *)
(* the object, salvage its fields, compute what is missing, check every    *)
(* quote), mergeWithPrior in SessionViewModel for continued consultations, *)
(* and AppContainer.buildCaseReport over the consultations of a case.      *)
(*                                                                         *)
(* A text is a sequence of atoms, stretches of characters that match only  *)
(* as a whole.  Lower gives an atom's lower-case form, Punct stands for    *)
(* any run of punctuation, Label for a copied "CLIENT:" or "LAWYER:".      *)
(* White space is left out.  What the model answers is any output and, if  *)
(* it holds an object, any of the objects the JSON library may read there. *)
(* Operators that stand before another and are named for what they get     *)
(* wrong are faulty variants some property has to catch.                   *)
(***************************************************************************)
EXTENDS JsonExtract, FiniteSets

CONSTANTS
    Lower, Punct, Label,
    Checklists,       \* sequences of items [id, label], one per matter type
    Lines,            \* texts that may be spoken
    Outputs,          \* raw outputs of the engine
    Objects,          \* what the JSON library may read in the extracted text
    MinWords,         \* MIN_TOTAL_WORDS
    MaxConsultations, \* bound on the consultations of the case
    MaxPasses,        \* bound on passes of the engine in the case
    MaxLines,         \* bound on the lines of a consultation
    MaxRaw            \* length up to which extraction is compared (a block has two characters)

Texts == Seq(DOMAIN Lower)

Fields(elements) == [is : {"ABSENT", "SCALAR", "ARRAY"}, elements : Seq(elements)]
Strings == Fields([primitive : BOOLEAN, text : Texts])
Facts == Fields([object : BOOLEAN, statement : Texts, quote : Texts])

ASSUME IntakeNotesAssumption ==
    /\ Lower \in [DOMAIN Lower -> DOMAIN Lower]
    /\ Lines \subseteq Texts
    /\ Checklists \subseteq Seq([id : Texts, label : Texts])
    /\ Objects \subseteq [valid : BOOLEAN, facts : Facts, covered : Strings,
                         missing : Strings, prompts : Strings]
    /\ MinWords \in Nat \ {0} /\ MaxConsultations \in Nat \ {0}
    /\ MaxPasses \in Nat /\ MaxLines \in Nat /\ MaxRaw \in Nat \ {0, 1}

(* No two items of a shipped checklist have the same label.                *)
ASSUME ChecklistAssumption ==
    \A list \in Checklists : \A i, j \in DOMAIN list :
        list[i].label = list[j].label => i = j

Consultations == 1 .. MaxConsultations   \* in the order of createdAtMs

VARIABLES
    checklist,   \* of the case's matter type
    current,     \* the consultation on the screen
    segments,    \* the lines of each consultation
    result,      \* SessionUiState.notesResult
    saved,       \* what each consultation's record holds as notes
    passes,      \* passes of the engine so far
    coverage     \* history: what the last usable pass of each reported

vars == <<checklist, current, segments, result, saved, passes, coverage>>

-----------------------------------------------------------------------------
(* Sequences: the list functions of Kotlin.                                *)
Mapped(f(_), s) == [i \in DOMAIN s |-> f(s[i])]

(* Keeps the first of the elements that have the same key.                 *)
DistinctBy(key(_), s) ==
    Picked(s, {i \in DOMAIN s : \A j \in 1 .. i - 1 : key(s[j]) # key(s[i])})

-----------------------------------------------------------------------------
(* Texts                                                                   *)
Lowercase(t) == [i \in DOMAIN t |-> Lower[t[i]]]

Normalize(t) == Where(Lowercase(t), LAMBDA a : a # Punct)

StripSpeakerLabel(t) == IF t # <<>> /\ Head(t) = Label THEN Tail(t) ELSE t

Occurs(t, u) ==   \* u.contains(t)
    \E i \in 0 .. Len(u) - Len(t) : SubSeq(u, i + 1, i + Len(t)) = t

PlainText(c) == FlattenSeq(segments[c])

NonBlank(texts) == Where(texts, LAMBDA t : t # <<>>)

-----------------------------------------------------------------------------
(* Results                                                                 *)
NoResult == [kind |-> "NULL", facts |-> <<>>, missing |-> <<>>, prompts |-> <<>>]

Empty(kind) == [NoResult EXCEPT !.kind = kind]

NotesOrNull(r) == IF r.kind \in {"PARSED", "PARTIAL"} THEN [r EXCEPT !.kind = "PARSED"]
                                                      ELSE NoResult

HasNotes(r) == r.kind \in {"PARSED", "PARTIAL"}

(* A field of the object: absent, not an array, or the array's elements.   *)
IsError(field) == field.is = "SCALAR"

DecodeStringList(field) ==
    NonBlank(Mapped(LAMBDA e : e.text, Where(field.elements, LAMBDA e : e.primitive)))

DecodeFactList(field) ==
    Mapped(LAMBDA e : [statement |-> e.statement, quote |-> e.quote, verified |-> TRUE],
           Where(field.elements, LAMBDA e : e.object /\ e.statement # <<>>))

-----------------------------------------------------------------------------
(* NotesJsonParser                                                         *)
CoveredByLabelOnly(item, marks) == Normalize(item.label) \in marks

Covered(item, marks) ==
    LET id == Normalize(item.id)
        label == Normalize(item.label)
    IN  \E m \in marks : m = id \/ m = label \/ Occurs(m, label) \/ Occurs(id, m)

Marks(field) == {Normalize(t) : t \in ToSet(DecodeStringList(field))} \ {<<>>}

MissingFromCoverage(field) ==
    LET marks == Marks(field)
    IN  Mapped(LAMBDA item : item.label,
               Where(checklist, LAMBDA item : ~Covered(item, marks)))

ReportsCoverage(object) == object.covered.is # "ABSENT"

Parse(raw, object) ==
    IF ExtractJsonObject(raw) = NoObject \/ ~object.valid THEN Empty("FAILED")
    ELSE LET missing == IF ReportsCoverage(object) THEN object.covered ELSE object.missing
         IN  [kind |-> IF \E f \in {object.facts, object.prompts, missing} : IsError(f)
                         THEN "PARTIAL" ELSE "PARSED",
              facts |-> DecodeFactList(object.facts),
              missing |-> IF ReportsCoverage(object)
                            THEN MissingFromCoverage(missing) ELSE DecodeStringList(missing),
              prompts |-> DecodeStringList(object.prompts)]

CheckedTrustsQuote(f, haystack) ==
    [statement |-> StripSpeakerLabel(f.statement), quote |-> StripSpeakerLabel(f.quote),
     verified |-> StripSpeakerLabel(f.quote) # <<>>]

Checked(f, haystack) ==
    LET quote == StripSpeakerLabel(f.quote)
    IN  [statement |-> StripSpeakerLabel(f.statement), quote |-> quote,
         verified |-> quote # <<>> /\ Occurs(Normalize(quote), haystack)]

VerifyQuotes(r, text) ==
    IF ~HasNotes(r) THEN r
    ELSE LET haystack == Normalize(text)
             facts == Mapped(LAMBDA f : Checked(f, haystack), r.facts)
         IN  [r EXCEPT !.facts = facts,
                       !.kind = IF \E f \in ToSet(facts) : ~f.verified THEN "PARTIAL" ELSE @]

-----------------------------------------------------------------------------
(* Merging passes and consultations                                        *)
Key(fact) == Lowercase(fact.statement)

MergeDropsPriorOnFailure(prior, r) ==
    IF ~HasNotes(r) THEN r
    ELSE [r EXCEPT !.facts = DistinctBy(Key, prior.facts \o @),
                   !.prompts = DistinctBy(LAMBDA t : t, prior.prompts \o @)]

MergeWithPrior(prior, r) ==
    IF ~HasNotes(r) THEN prior
    ELSE [r EXCEPT !.facts = DistinctBy(Key, prior.facts \o @),
                   !.prompts = DistinctBy(LAMBDA t : t, prior.prompts \o @)]

Insufficient(c) == Len(Normalize(PlainText(c))) < MinWords

NotesList == Where(saved, HasNotes)

ReportMissing(list) ==
    IF list = <<>> THEN <<>>
    ELSE Where(list[Len(list)].missing,
               LAMBDA t : \A i \in DOMAIN list : t \in ToSet(list[i].missing))

ReportFacts(list) == DistinctBy(Key, FlattenSeq(Mapped(LAMBDA n : n.facts, list)))

BuildCaseReport ==
    [facts |-> ReportFacts(NotesList),
     missing |-> ReportMissing(NotesList),
     prompts |-> DistinctBy(LAMBDA t : t, FlattenSeq(Mapped(LAMBDA n : n.prompts, NotesList)))]

-----------------------------------------------------------------------------
NoCoverage == [reported |-> FALSE, marks |-> {}]

Init ==
    /\ checklist \in Checklists
    /\ current = 1
    /\ segments = [c \in Consultations |-> <<>>]
    /\ result = NoResult
    /\ saved = [c \in Consultations |-> NoResult]
    /\ passes = 0
    /\ coverage = [c \in Consultations |-> NoCoverage]

(* A line is transcribed.                                                  *)
Hear(line) ==
    /\ Len(segments[current]) < MaxLines
    /\ segments' = [segments EXCEPT ![current] = Append(@, line)]
    /\ UNCHANGED <<checklist, current, result, saved, passes, coverage>>

(* generateNotes on too few words: a notice, the record stays as it was.   *)
TooThin ==
    /\ Insufficient(current)
    /\ result' = Empty("INSUFFICIENT")
    /\ UNCHANGED <<checklist, current, segments, saved, passes, coverage>>

(* generateNotes: one answer of the engine, parsed, checked, merged and    *)
(* saved.  An engine that fails ends as an output without an object.       *)
GenerateNotes(raw, object) ==
    LET fresh == VerifyQuotes(Parse(raw, object), PlainText(current))
        final == IF HasNotes(result) THEN MergeWithPrior(NotesOrNull(result), fresh) ELSE fresh
    IN  /\ ~Insufficient(current)
        /\ passes < MaxPasses
        /\ passes' = passes + 1
        /\ result' = final
        /\ saved' = [saved EXCEPT ![current] = NotesOrNull(final)]
        /\ coverage' = IF ~HasNotes(fresh) THEN coverage
                       ELSE [coverage EXCEPT ![current] =
                              IF ReportsCoverage(object)
                                THEN [reported |-> TRUE, marks |-> Marks(object.covered)]
                                ELSE NoCoverage]
        /\ UNCHANGED <<checklist, current, segments>>

(* Another consultation of the case is begun, or a saved one opened.       *)
Open(c) ==
    /\ c # current
    /\ current' = c
    /\ result' = saved[c]
    /\ UNCHANGED <<checklist, segments, saved, passes, coverage>>

Next ==
    \/ \E line \in Lines : Hear(line)
    \/ TooThin
    \/ \E raw \in Outputs, object \in Objects : GenerateNotes(raw, object)
    \/ \E c \in Consultations : Open(c)

Spec == Init /\ [][Next]_vars

-----------------------------------------------------------------------------
(* Properties                                                              *)
Notes == [statement : Texts, quote : Texts, verified : BOOLEAN]

Results ==
    [kind : {"NULL", "FAILED", "INSUFFICIENT", "PARTIAL", "PARSED"},
     facts : Seq(Notes), missing : Seq(Texts), prompts : Seq(Texts)]

(* Every variable holds a value of its type; a record only holds notes.    *)
TypeOK ==
    /\ checklist \in Checklists /\ current \in Consultations
    /\ segments \in [Consultations -> Seq(Lines)]
    /\ result \in Results
    /\ saved \in [Consultations -> Results]
    /\ \A c \in Consultations : saved[c].kind \in {"NULL", "PARSED"}
    /\ passes \in 0 .. MaxPasses
    /\ \A c \in Consultations : coverage[c].marks \subseteq Texts

(* extractJsonObject returns the first balanced block of the defenced text *)
(* as the grammar of braces, string literals and escapes defines it, and   *)
(* nothing when the first brace is never closed.  It depends on nothing    *)
(* but its argument, so the initial states are the ones to compare it in.  *)
ExtractionExact ==
    Init => LET blocks == Blocks(MaxRaw)
            IN  \A raw \in BoundedSeq(Chars, MaxRaw) :
                  LET rest == FromFirstBrace(Defenced(raw))
                      ends == {k \in 1 .. Len(rest) : SubSeq(rest, 1, k) \in blocks}
                  IN  ExtractJsonObject(raw) = IF ends = {} THEN NoObject
                                               ELSE SubSeq(rest, 1, CHOOSE k \in ends : TRUE)

(* A fact shown as verified quotes words of its own consultation, in every *)
(* record, through continued passes and salvaged answers (a quote of mere  *)
(* punctuation is the exception: it has no words to find).                 *)
VerifiedIsSpoken ==
    \A c \in Consultations : \A f \in ToSet(saved[c].facts) :
        f.verified => Occurs(Normalize(f.quote), Normalize(PlainText(c)))

(* The notes of every record are of their type, and what they show as      *)
(* verified is.                                                            *)
NotesSound == TypeOK /\ VerifiedIsSpoken

(* A continued consultation never loses a fact, whatever the next pass of  *)
(* the engine answers or fails to.                                         *)
FactsNeverLost ==
    [][\A c \in Consultations :
         {Key(f) : f \in ToSet(saved[c].facts)}
           \subseteq {Key(f) : f \in ToSet(saved'[c].facts)}]_vars

(* The report lists every fact of every consultation once, however its     *)
(* statement was spelt or labelled.                                        *)
ReportHoldsFactsOnce ==
    LET facts == BuildCaseReport.facts
    IN  /\ \A c \in Consultations : \A f \in ToSet(saved[c].facts) :
              \E i \in DOMAIN facts : Key(facts[i]) = Key(f)
        /\ \A i, j \in DOMAIN facts : Key(facts[i]) = Key(facts[j]) => i = j

Marked(item, c) ==
    \E t \in {item.id, item.label} : Normalize(t) \in coverage[c].marks

(* "An item is still outstanding only if every consultation left it        *)
(* uncovered": nothing a consultation marked is in the report's list.      *)
OutstandingNeverMarked ==
    LET outstanding == ToSet(BuildCaseReport.missing)
    IN  \A item \in ToSet(checklist), c \in Consultations :
            Marked(item, c) => item.label \notin outstanding

(* No id or label of one item matches another item.                        *)
AliasFree ==
    \A a, b \in ToSet(checklist) : a # b =>
        \A t \in {a.id, a.label} : ~Covered(b, {Normalize(t)})

(* On a checklist whose items do not alias, with consultations that report *)
(* coverage by ids or labels, the report's list is the set difference.     *)
ReportIsSetDifference ==
    LET noted == {c \in Consultations : HasNotes(saved[c])}
        names == {Normalize(t) : t \in UNION {{i.id, i.label} : i \in ToSet(checklist)}}
    IN  /\ noted # {}
        /\ \A c \in noted : coverage[c].reported /\ coverage[c].marks \subseteq names
        /\ AliasFree
        => ToSet(BuildCaseReport.missing) =
             {item.label : item \in {i \in ToSet(checklist) : \A c \in noted : ~Marked(i, c)}}

(* The case report: every fact once, and what is outstanding exactly.      *)
ReportExact == ReportHoldsFactsOnce /\ OutstandingNeverMarked /\ ReportIsSetDifference

(* "The checklist items whose id/label the model did NOT mark as covered": *)
(* an item that was not marked is missing.                                 *)
OnlyMarkedCovered ==
    \A item \in ToSet(checklist), c \in Consultations :
        coverage[c].reported /\ ~Marked(item, c) => item.label \in ToSet(saved[c].missing)
=============================================================================
