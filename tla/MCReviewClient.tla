--------------------------- MODULE MCReviewClient ---------------------------
EXTENDS ReviewClient

CONSTANTS c1, c2
MCChoice == {c1, c2}
=============================================================================
