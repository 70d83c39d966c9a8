------------------------ MODULE MCMarkdownCorrection ------------------------
(* The instance of MarkdownCorrection that TLC checks. *)
EXTENDS MarkdownCorrection

CONSTANT e1

Line(e, a) == [dn |-> e, attr |-> a, new |-> TRUE]
NoBodies == {}

\* The same attribute twice, and a line of an unknown employee before one
\* without a value and one that can be applied.
TwoDocuments ==
    {<<Line(e1, "mail"), Line(e1, "mail")>>,
     <<Line(Ghost, "mail"), [Line(e1, "mail") EXCEPT !.new = FALSE],
       Line(e1, "mail")>>}
=============================================================================
