------------------------------- MODULE Console -------------------------------
(***************************************************************************)
(* From the keyboard to the screen: the interrupt handler that fills a     *)
(* ring of characters (io/keyboard.c), the shell that reads it, edits one  *)
(* line and recalls old ones (userspace/shell/shell.c), and the terminal   *)
(* that draws what it prints (io/terminal.c).                              *)
(*                                                                         *)
(* A character the shell reads, with all it prints for it, is a step, and  *)
(* a key may arrive between any two.  Only the shell, or the command it    *)
(* waits for, prints.  Shift, Ctrl and Caps Lock choose among characters   *)
(* and are left out, colours and the serial mirror as well.                *)
(***************************************************************************)
EXTENDS Integers, Sequences, SequencesExt

CONSTANTS
  Width, Height,   \* 80 and 25
  Word,            \* 2^32: a number in an escape sequence is an int
  Ring,            \* BUFFER_SIZE
  MaxLine,         \* 127 characters and the final zero
  MaxHistory,      \* MAX_HISTORY
  Chars,           \* all characters
  Letters,         \* printable ones
  Keys,            \* what a key that is pressed pushes
  Prompt,          \* the path, which begins with /, and " > "
  Outputs          \* what a command may print

Esc == "ESC"  Bracket == "["  Up == "A"  Down == "B"  Right == "C"  Left == "D"
Home == "H"  Clear == "J"  Newline == "NL"  Return == "CR"  Rub == "BS"  Tab == "TAB"
Blank == " "  Semi == ";"  Slash == "/"

Digits    == <<"0", "1", "2", "3", "4", "5", "6", "7", "8", "9">>
Arrows    == {Up, Down, Right, Left}
Special   == {Esc, Newline, Return, Rub, Tab}
Printable == Letters \cup Arrows \cup {Bracket}
Cell      == 0..(Width * Height - 1)
Byte      == 256                         \* terminal_row and terminal_column are u8

ASSUME ConsoleOK ==
  /\ Width \in 1..(Byte - 1) /\ Height \in 2..(Byte - 1) /\ Word \in Nat \ {0}
  /\ Ring \in Nat \ {0} /\ MaxLine \in Nat /\ MaxHistory \in Nat \ {0}
  /\ Special \cup Arrows \cup {Bracket, Blank, Slash} \subseteq Chars
  /\ Letters \subseteq Chars \ Special
  /\ Keys \subseteq {<<c>> : c \in Letters \cup Special} \cup {<<Esc, Bracket, a>> : a \in Arrows}
  /\ Prompt \in Seq(Chars) /\ ToSet(Prompt) \cap Special = {}
  /\ Len(Prompt) >= 2 /\ Prompt[1] = Slash
  /\ Outputs \subseteq Seq(Chars)
  /\ Len(Prompt) + MaxLine <= (Height - 1) * Width

VARIABLES
  ring,            \* keyboard_buffer from tail to head
  term,            \* the screen, the cursor and the parser's state
  pc,              \* what the shell does with the next character
  cmd,             \* the line
  history,         \* oldest first
  index,           \* history_index
  placed           \* for the properties: the last prompt began on a row of the screen

vars == <<ring, term, pc, cmd, history, index, placed>>

Parser == [state : 0..2, params : Seq(Nat)]
Text   == [state |-> 0, params |-> <<>>]       \* no escape sequence has begun

Term == [cell : [Cell -> Chars], row : 0..(Byte - 1), col : 0..(Byte - 1), ansi : Parser]

-----------------------------------------------------------------------------
(***************************************************************************)
(* The terminal.  A command may put the cursor beyond the screen; what is  *)
(* drawn there is seen only where it happens to fall on the screen.        *)
(***************************************************************************)
Position(t) == t.row * Width + t.col

Put(t, c) ==
  IF Position(t) \in Cell THEN [t EXCEPT !.cell = [@ EXCEPT ![Position(t)] = c]] ELSE t

Cleared ==              \* kprint_init
  [cell |-> [i \in Cell |-> Blank], row |-> 0, col |-> 0, ansi |-> Text]

Scrolled(t) ==
  [t EXCEPT !.cell = [i \in Cell |-> IF i + Width \in Cell THEN t.cell[i + Width] ELSE Blank],
            !.row = Height - 1]

NextLine(t) ==
  LET moved == [t EXCEPT !.col = 0, !.row = (@ + 1) % Byte]
  IN IF moved.row >= Height THEN Scrolled(moved) ELSE moved

Drawn(t, c) ==
  LET drawn == [Put(t, c) EXCEPT !.col = (@ + 1) % Byte]
  IN IF drawn.col >= Width THEN NextLine(drawn) ELSE drawn

\* Mutant: the cursor stays on its line.
RubbedInLine(t) == Put(IF t.col > 0 THEN [t EXCEPT !.col = @ - 1] ELSE t, Blank)

Rubbed(t) ==            \* terminal_backspace
  Put(IF t.col > 0 THEN [t EXCEPT !.col = @ - 1]
      ELSE IF t.row > 0 THEN [t EXCEPT !.row = @ - 1, !.col = Width - 1]
      ELSE t, Blank)

Plain(t, c) == CASE c = Newline -> NextLine(t)
                 [] c = Return  -> [t EXCEPT !.col = 0]
                 [] c = Rub     -> Rubbed(t)
                 [] OTHER       -> Drawn(t, c)

\* The numbers of an escape sequence: a fifth one takes the fourth's place.
Numbered(params, c) ==
  IF c = Semi
    THEN IF Len(params) < 4 THEN Append(params, 0) ELSE [params EXCEPT ![4] = 0]
    ELSE LET digit == CHOOSE d \in 0..9 : Digits[d + 1] = c
         IN [params EXCEPT ![Len(params)] = (10 * @ + digit) % Word]

\* Rows and columns count from one; the upper half of the words is negative.
Place(params, n) ==
  IF n <= Len(params) /\ params[n] > 0 /\ 2 * params[n] < Word THEN (params[n] - 1) % Byte ELSE 0

\* The end of an escape sequence.
Command(t, c) ==
  CASE c = Up    -> [t EXCEPT !.row = IF @ > 0 THEN @ - 1 ELSE @]
    [] c = Down  -> [t EXCEPT !.row = IF @ < Height - 1 THEN @ + 1 ELSE @]
    [] c = Right -> [t EXCEPT !.col = IF @ < Width - 1 THEN @ + 1 ELSE @]
    [] c = Left  -> [t EXCEPT !.col = IF @ > 0 THEN @ - 1 ELSE @]
    [] c \in {Home, "f"} -> [t EXCEPT !.row = Place(t.ansi.params, 1), !.col = Place(t.ansi.params, 2)]
    [] c = Clear -> Cleared
    [] OTHER     -> t

terminal_putchar(t, c) ==
  CASE t.ansi.state = 0 /\ c = Esc     -> [t EXCEPT !.ansi = [state |-> 1, params |-> <<>>]]
    [] t.ansi.state = 1 /\ c = Bracket -> [t EXCEPT !.ansi = [state |-> 2, params |-> <<0>>]]
    [] t.ansi.state = 2 /\ c \in ToSet(Digits) \cup {Semi} ->
         [t EXCEPT !.ansi = [state |-> 2, params |-> Numbered(t.ansi.params, c)]]
    [] t.ansi.state = 2 /\ c \notin ToSet(Digits) \cup {Semi} -> [Command(t, c) EXCEPT !.ansi = Text]
    [] OTHER -> Plain([t EXCEPT !.ansi = Text], c)

kprint(t, s) ==
  LET shown[i \in 0..Len(s)] == IF i = 0 THEN t ELSE terminal_putchar(shown[i - 1], s[i])
  IN shown[Len(s)]

-----------------------------------------------------------------------------
(***************************************************************************)
(* The keyboard.                                                           *)
(***************************************************************************)
\* push_char for each of them: those that find the ring full are dropped.
Pushed(r, chars) ==
  LET room == Ring - 1 - Len(r)
  IN r \o SubSeq(chars, 1, IF room < Len(chars) THEN room ELSE Len(chars))

keyboard_handler(chars) ==
  /\ ring' = Pushed(ring, chars)
  /\ UNCHANGED <<term, pc, cmd, history, index, placed>>

-----------------------------------------------------------------------------
(***************************************************************************)
(* The shell: one character is read in each of these steps.                *)
(***************************************************************************)
Reads(c) == ring # <<>> /\ c = Head(ring) /\ ring' = Tail(ring)

Init ==
  /\ ring = <<>>
  /\ \E r \in 0..(Height - 1) :    \* behind what the boot printed
       term = kprint([Cleared EXCEPT !.row = r], Prompt)
  /\ pc = "line"
  /\ cmd = <<>>
  /\ history = <<>>
  /\ index = -1
  /\ placed = TRUE

Letter ==               \* a control character is ignored
  /\ pc = "line"
  /\ \E c \in Printable \cup {Tab} :
       /\ Reads(c)
       /\ IF c # Tab /\ Len(cmd) < MaxLine
            THEN cmd' = Append(cmd, c) /\ term' = kprint(term, <<c>>)
            ELSE UNCHANGED <<cmd, term>>
  /\ UNCHANGED <<pc, history, index, placed>>

Backspace ==
  /\ pc = "line"
  /\ Reads(Rub)
  /\ IF cmd # <<>> THEN cmd' = Front(cmd) /\ term' = kprint(term, <<Rub>>)
                   ELSE UNCHANGED <<cmd, term>>
  /\ UNCHANGED <<pc, history, index, placed>>

Rubs == [i \in 1..Len(cmd) |-> Rub]

Show(line) ==           \* in the place of the line
  cmd' = line /\ term' = kprint(term, Rubs \o line)

Recalled(i) == history[Len(history) - i]

Escape ==
  /\ pc = "line"
  /\ Reads(Esc)
  /\ pc' = "escape"
  /\ UNCHANGED <<term, cmd, history, index, placed>>

Introducer ==           \* anything but a bracket is swallowed
  /\ pc = "escape"
  /\ \E c \in Printable \cup Special :
       Reads(c) /\ pc' = IF c = Bracket THEN "arrow" ELSE "line"
  /\ UNCHANGED <<term, cmd, history, index, placed>>

\* The rest of a sequence is not there yet: SYS_READ puts the shell to sleep and
\* gives it its own number, 2, when it wakes, which counts as that rest.
Woken ==
  /\ pc \in {"escape", "arrow"}
  /\ ring = <<>>
  /\ pc' = "line"
  /\ UNCHANGED <<ring, term, cmd, history, index, placed>>

Arrow ==
  /\ pc = "arrow"
  /\ pc' = "line"
  /\ \E c \in Printable \cup Special :
       /\ Reads(c)
       /\ \/ /\ c = Up /\ index < Len(history) - 1
             /\ index' = index + 1
             /\ Show(Recalled(index + 1))
          \/ /\ c = Down /\ index > -1
             /\ index' = index - 1
             /\ Show(IF index = 0 THEN <<>> ELSE Recalled(index - 1))
          \/ /\ ~(c = Up /\ index < Len(history) - 1) /\ ~(c = Down /\ index > -1)
             /\ UNCHANGED <<cmd, term, index>>
  /\ UNCHANGED <<history, placed>>

\* add_history
Added(line) ==
  IF line = <<>> \/ (history # <<>> /\ line = Last(history)) THEN history
  ELSE IF Len(history) < MaxHistory THEN Append(history, line)
  ELSE Append(Tail(history), line)

\* Nothing but blanks between its semicolons: execute_commands starts no command.
RunsNothing(line) == ToSet(line) \subseteq {Blank, Semi}

Enter ==
  /\ pc = "line"
  /\ \E c \in {Newline, Return} : Reads(c)
  /\ IF RunsNothing(cmd)
       THEN /\ term' = kprint(term, <<Newline>> \o Prompt)
            /\ placed' = TRUE
            /\ history' = Added(cmd)
            /\ cmd' = <<>>
            /\ index' = -1
            /\ UNCHANGED pc
       ELSE /\ term' = kprint(term, <<Newline>>)
            /\ pc' = "command"
            /\ UNCHANGED <<cmd, history, index, placed>>

\* The command has printed its output and is over.  execute_command flushes the
\* keyboard, unless it found no memory, and the next prompt appears.
Finish(output) ==
  /\ pc = "command"
  /\ ring' \in {<<>>, ring}
  /\ history' = Added(cmd)
  /\ cmd' = <<>>
  /\ index' = -1
  /\ LET printed == kprint(term, output)
     IN term' = kprint(printed, Prompt) /\ placed' = (printed.row < Height)
  /\ pc' = "line"

Shell == Letter \/ Backspace \/ Escape \/ Introducer \/ Woken \/ Arrow \/ Enter
         \/ \E output \in Outputs : Finish(output)

Next == Shell \/ \E chars \in Keys : keyboard_handler(chars)

Spec == Init /\ [][Next]_vars

-----------------------------------------------------------------------------
(***************************************************************************)
(* Properties.                                                             *)
(***************************************************************************)
Line == UNION {[1..n -> Printable] : n \in 0..MaxLine}

TypeOK ==
  /\ Len(ring) < Ring /\ ToSet(ring) \subseteq Printable \cup Special
  /\ term \in Term
  /\ pc \in {"line", "escape", "arrow", "command"}
  /\ cmd \in Line
  /\ Len(history) <= MaxHistory /\ ToSet(history) \subseteq Line
  /\ index \in -1..(Len(history) - 1)
  /\ placed \in BOOLEAN

\* The cursor is on the screen and the characters before it are those of the
\* line, whatever was typed, rubbed out or recalled, wherever the line was broken
\* and the screen scrolled, and whatever the last command left on the screen, in
\* the parser or as the cursor's column.  Only its row has to be one of the
\* screen's: a position (terminal.c:157-161) is not held to them, and a prompt
\* that began beyond them stays out of sight until the next Enter.
\* (shell.c:117-177, terminal.c:77-87, 119-212)
LineOnScreen ==
  pc # "command" /\ placed =>
    /\ term.row < Height /\ term.col < Width
    /\ Position(term) >= Len(cmd)
    /\ \A i \in 1..Len(cmd) : term.cell[Position(term) - Len(cmd) + i - 1] = cmd[i]
=============================================================================
