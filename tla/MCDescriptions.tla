--------------------------- MODULE MCDescriptions ---------------------------
EXTENDS Descriptions

CONSTANTS f, g, a1, a2, b, A, B, T, U, p, q, short, tidy, long, s, l

\* a1 and a2 are two files of one package.
PackageOf == [x \in Files |-> IF x = b THEN B ELSE A]
\* tidy is short with other comments.
CodeOf == [x \in Bodies |-> IF x = long THEN l ELSE s]
AtFirst == [t \in Things |-> IF t = f THEN [file |-> a1, owner |-> T, body |-> short]
                             ELSE [file |-> b, owner |-> T, body |-> long]]
=============================================================================
