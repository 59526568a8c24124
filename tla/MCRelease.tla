----------------------------- MODULE MCRelease -----------------------------
(* The constants of Release for TLC. *)
EXTENDS Release, TLC

Heading(title, indented) == [kind |-> "heading", title |-> title, indented |-> indented]
Text == [kind |-> "text"]
Blank == [kind |-> "blank"]

\* Every text of up to three lines, and the well-formed ones of four.
Lines == {Heading("Added", FALSE), Heading("Fixed", TRUE), Heading("Oops", FALSE), Text, Blank}
ShortTexts == UNION {[1..n -> Lines] : n \in 1..3}
LongTexts ==
    {t \in [1..4 -> Lines \ {Heading("Oops", FALSE)}] : t[1].kind = "heading" /\ t[2].kind # "heading"}
MCTexts ==
    1 :> (ShortTexts \cup LongTexts)
    @@ 2 :> {<<Heading("Added", FALSE), Text>>, <<Heading("Fixed", FALSE), Text>>, <<Text>>}

Ver(core, pre, build) == [core |-> core, pre |-> pre, build |-> build]
Number(n) == [kind |-> "number", rank |-> n]
Word(n) == [kind |-> "word", rank |-> n]
Padded(n) == [kind |-> "padded", rank |-> n]

\* Prereleases of 0.1.0 and the versions around it.
Identifiers == {Number(1), Number(2), Word(1), Word(2), Padded(1)}
Pres == UNION {[1..n -> Identifiers] : n \in 0..2}
MCVersions ==
    {Ver(<<0, 1, 0>>, p, FALSE) : p \in Pres}
    \cup {Ver(c, <<>>, FALSE) : c \in {<<0, 0, 2>>, <<0, 1, 1>>, <<0, 2, 0>>, <<1, 0, 0>>}}
    \cup {Ver(<<0, 1, 0>>, <<>>, TRUE)}
MCFirst == Ver(<<0, 0, 2>>, <<>>, FALSE)
MCNoteVersions == {MCFirst, Ver(<<0, 1, 0>>, <<>>, FALSE), Ver(<<1, 0, 0>>, <<>>, FALSE)}
=============================================================================
