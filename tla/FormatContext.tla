---------------------------- MODULE FormatContext ----------------------------
(***************************************************************************)
(* Retriever.FormatContext: search results as lines of text, cut to a       *)
(* budget of bytes.  A text is the sequence of the widths, in bytes, of its *)
(* characters in UTF-8.                                                     *)
(***************************************************************************)
EXTENDS Integers, Sequences, FiniteSets, SequencesExt

CONSTANT DefaultBudget   \* bytes, unless the caller says how many (4000)

ASSUME BudgetAssumption == DefaultBudget \in Nat \ {0}

Bytes(text) ==
    LET sum[k \in 0 .. Len(text)] == IF k = 0 THEN 0 ELSE sum[k - 1] + text[k]
    IN  sum[Len(text)]

\* Offsets of the bytes at which a character starts.
RuneStarts(text) == {Bytes(SubSeq(text, 1, k - 1)) : k \in DOMAIN text}

\* Seeded fault: the text is cut at the budget.
CutAnywhere(text, maxBytes) ==
    IF Bytes(text) <= maxBytes THEN Bytes(text) ELSE maxBytes

\* Bytes kept: back from maxBytes to a byte that starts a character, but not
\* as far as the first.
TruncateToValidUTF8(text, maxBytes) ==
    IF Bytes(text) <= maxBytes THEN Bytes(text)
    ELSE LET starts == RuneStarts(text) \cap 1 .. maxBytes
         IN  IF starts = {} THEN maxBytes ELSE Max(starts)

\* The lines with a newline, one byte, between them.
Join(lines) ==
    LET text[k \in 0 .. Len(lines)] ==
          IF k = 0 THEN <<>>
          ELSE text[k - 1] \o (IF k = 1 THEN <<>> ELSE <<1>>) \o lines[k]
    IN  text[Len(lines)]

FormatContext(lines, budget) ==
    IF lines = <<>> THEN 0
    ELSE TruncateToValidUTF8(Join(lines), IF budget <= 0 THEN DefaultBudget ELSE budget)
=============================================================================
