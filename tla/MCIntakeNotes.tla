--------------------------- MODULE MCIntakeNotes ---------------------------
(* A small instance of IntakeNotes for TLC: two of the shipped items that  *)
(* alias and two that do not, and the answers of a small model.            *)
EXTENDS IntakeNotes, TLC

MCLower ==
    [a \in {"rent", "breach", "dates", "wrong", "any", "witnesses", "address", "punct", "label"}
       |-> a] @@ ("Rent" :> "rent")

Item(id, label) == [id |-> id, label |-> label]

MCChecklists ==
    {<<Item(<<"breach">>, <<"wrong", "punct", "breach">>),
       Item(<<"breach", "punct", "dates">>, <<"dates", "breach">>)>>,
     <<Item(<<"witnesses">>, <<"any", "witnesses">>),
       Item(<<"address">>, <<"any", "address">>)>>}

MCLines == {<<"rent">>, <<"Rent", "punct", "wrong">>}

MCOutputs == {<<"x", "fence", "{", "quote", "}", "quote", "}", "fence">>, <<"{", "x">>}

Absent == [is |-> "ABSENT", elements |-> <<>>]
Scalar == [is |-> "SCALAR", elements |-> <<>>]
Array(s) == [is |-> "ARRAY", elements |-> s]
Text(t) == [primitive |-> TRUE, text |-> t]
FactOf(s, q) == [object |-> TRUE, statement |-> s, quote |-> q]

FactFields ==
    {Absent, Scalar,
     Array(<<FactOf(<<"rent">>, <<"label", "rent", "punct">>)>>),
     Array(<<FactOf(<<"label", "Rent">>, <<"wrong">>), FactOf(<<>>, <<"rent">>)>>),
     Array(<<FactOf(<<"breach">>, <<>>), FactOf(<<"dates">>, <<"punct">>),
             [object |-> FALSE, statement |-> <<>>, quote |-> <<>>]>>)}

CoverageFields ==
    [covered : {Scalar, Array(<<>>), Array(<<Text(<<"breach">>)>>),
                Array(<<Text(<<"address">>), [primitive |-> FALSE, text |-> <<>>]>>),
                Array(<<Text(<<"witnesses">>), Text(<<"punct">>)>>)},
     missing : {Absent}]
    \cup [covered : {Absent}, missing : {Absent, Array(<<Text(<<"any", "address">>)>>)}]

Object(f, c, p) ==
    [valid |-> TRUE, facts |-> f, covered |-> c.covered, missing |-> c.missing, prompts |-> p]

Uncovered == [covered |-> Absent, missing |-> Absent]

MCObjects ==
    {Object(f, c, Array(<<Text(<<"wrong">>)>>)) : f \in FactFields, c \in CoverageFields}
    \cup {Object(Absent, Uncovered, Scalar),
          [Object(Absent, Uncovered, Absent) EXCEPT !.valid = FALSE]}
=============================================================================
