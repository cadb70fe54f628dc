--------------------------- MODULE MCReceiptReviews ---------------------------
EXTENDS ReceiptReviews

CONSTANTS a, b, c, s1

\* Two sources to combine, a third that overlaps with one of them, and with the combination.
MCPairs == {{a, b}, {b, c}, {1, c}}
=============================================================================
