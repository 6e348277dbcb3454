----------------------------- MODULE MCTerminal -----------------------------
(***************************************************************************)
(* A screen of three rows of two cells, the last of them the clock's; a    *)
(* prompt of two strings of one character; a line of at most six.  Four    *)
(* typed characters fill the screen, the next one clears it, and two       *)
(* backspaces after that move the cursor before the first cell.            *)
(***************************************************************************)
EXTENDS Terminal

MCPrompt == <<<<"$">>, <<">">>>>
MCOutputs == {<<>>, <<<<"o", Newline>>>>}
=============================================================================
