----------------------------- MODULE MCEditFiles -----------------------------
EXTENDS EditFiles

CONSTANTS a, b, P, Q, x, y

OnePathEach == [n \in Paths |-> IF n = 1 THEN x ELSE y]
\* One edit; two of one file; two of one spot; and two files in either order.
SomeBatches == {<<<<1, a>>>>, <<<<1, b>>, <<1, a>>>>, <<<<1, a>>, <<1, a>>>>,
                <<<<1, a>>, <<2, a>>>>, <<<<2, a>>, <<1, b>>>>}
=============================================================================
