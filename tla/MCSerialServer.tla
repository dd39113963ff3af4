--------------------------- MODULE MCSerialServer ---------------------------
(***************************************************************************)
(* A small instance of SerialServer: chunks of two characters at most, a   *)
(* FIFO of one, a line buffer of two and words that count to five.         *)
(***************************************************************************)
EXTENDS SerialServer

CONSTANTS w1, w2, r1

\* A text of several chunks with a line feed, and one whose chunk stops at once.
SomeTexts == {<<"a", "LF", "b", "a">>, <<"NUL", "b">>}
=============================================================================
