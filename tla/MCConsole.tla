------------------------------ MODULE MCConsole ------------------------------
\* Three lines of two: the prompt fills one, so that a line of two wraps and
\* scrolls, and the ring has room for one arrow key and nothing more.  A command
\* prints nothing, begins a sequence, leaves a number in it, or puts the
\* cursor behind the last row or behind the last column, where a byte wraps.
EXTENDS Console
MCKeys == {<<"x">>, <<Blank>>, <<Newline>>, <<Rub>>, <<Esc, Bracket, Up>>, <<Esc, Bracket, Down>>}
MCChars == Special \cup Arrows \cup {Bracket, Blank, Slash, Home, "f", Semi, "x", ">", "2", "5", "6", "9"}
MCPrompt == <<Slash, ">">>
MCOutputs == {<<>>, <<Esc>>, <<Esc, Bracket, "9", Home>>,
              <<Esc, Bracket, "2", Semi, "2", "5", "6", "f", Esc, Bracket, "5">>}
=============================================================================
