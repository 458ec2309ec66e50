--------------------------- MODULE ConsoleProofs ---------------------------
(***************************************************************************)
(* Theorems about Console for every screen, every ring, every length of    *)
(* line and history, every prompt and whatever characters commands print.  *)
(***************************************************************************)
EXTENDS Console, SequenceTheorems, WellFoundedInduction, TLAPS

Screen == [Cell -> Chars]
Typed  == Printable \cup Special             \* on the keyboard
Bytes  == 0..(Byte - 1)

-----------------------------------------------------------------------------
(***************************************************************************)
(* Printing a string is printing its characters one by one.                *)
(***************************************************************************)
LEMMA LowestNumber ==
  ASSUME NEW Z, Z \subseteq Nat, Z # {}
  PROVE  \E n \in Z : \A k \in Z : ~(k < n)
<1> DEFINE R == {ss \in Nat \X Nat : ss[1] < ss[2]}
<1>1. IsWellFoundedOn(R, Nat)
  BY NatLessThanWellFounded DEF OpToRel
<1>2. \A u, v \in Nat : u < v => <<u, v>> \in R
  OBVIOUS
<1> HIDE DEF R
<1>3. PICK n \in Z : \A k \in Z : ~(<<k, n>> \in R)
  BY <1>1, WFMin
<1> QED BY <1>2, <1>3

\* The screens that printing the first n characters of s goes through.
Through(g, n, t, s) ==
  g = [i \in 0..n |-> IF i = 0 THEN t ELSE terminal_putchar(g[i - 1], s[i])]

LEMMA ThroughExists ==
  ASSUME NEW t, NEW s, NEW n \in Nat
  PROVE  \E g : Through(g, n, t, s)
<1> DEFINE Z == {m \in Nat : ~\E g : Through(g, m, t, s)}
<1> SUFFICES ASSUME Z # {} PROVE FALSE
  OBVIOUS
<1>1. PICK m \in Z : \A k \in Z : ~(k < m)
  <2> Z \subseteq Nat
    OBVIOUS
  <2> HIDE DEF Z
  <2> QED BY LowestNumber
<1>2. CASE m = 0
  <2> DEFINE g == [i \in 0..0 |-> t]
  <2>1. g = [i \in 0..0 |-> IF i = 0 THEN t ELSE terminal_putchar(g[i - 1], s[i])]
    OBVIOUS
  <2> HIDE DEF g
  <2> QED BY <1>2, <2>1 DEF Through
<1>3. CASE m # 0
  <2>1. m - 1 \in Nat /\ m - 1 < m
    BY <1>3
  <2>2. PICK h : Through(h, m - 1, t, s)
    BY <1>1, <2>1
  <2> DEFINE g == [i \in 0..m |-> IF i < m THEN h[i] ELSE terminal_putchar(h[m - 1], s[m])]
  <2>3. \A i \in 0..(m - 1) :
          g[i] = h[i] /\ h[i] = IF i = 0 THEN t ELSE terminal_putchar(h[i - 1], s[i])
    BY <2>1, <2>2 DEF Through
  <2>4. g[m] = terminal_putchar(g[m - 1], s[m])
    BY <2>1, <2>3
  <2>5. \A i \in 0..m : g[i] = IF i = 0 THEN t ELSE terminal_putchar(g[i - 1], s[i])
    <3> TAKE i \in 0..m
    <3>1. CASE i = m
      BY <2>4, <3>1, <1>3
    <3>2. CASE i = 0
      <4>1. 0 \in 0..(m - 1) /\ i < m
        BY <3>2, <1>3
      <4> QED BY <2>3, <3>2, <4>1
    <3>3. CASE i # m /\ i # 0
      <4>1. i \in 0..(m - 1) /\ i - 1 \in 0..(m - 1)
        BY <3>3
      <4>2. g[i] = terminal_putchar(h[i - 1], s[i]) /\ g[i - 1] = h[i - 1]
        BY <4>1, <2>3, <3>3
      <4> QED BY <4>2, <3>3
    <3> QED BY <3>1, <3>2, <3>3
  <2>6. g = [i \in 0..m |-> g[i]]
    OBVIOUS
  <2> HIDE DEF g
  <2>7. [i \in 0..m |-> g[i]] = [i \in 0..m |-> IF i = 0 THEN t ELSE terminal_putchar(g[i - 1], s[i])]
    BY <2>5
  <2> QED BY <2>6, <2>7 DEF Through
<1> QED BY <1>2, <1>3

LEMMA KprintThrough ==
  ASSUME NEW t, NEW s \in Seq(Chars)
  PROVE  \E g : Through(g, Len(s), t, s) /\ kprint(t, s) = g[Len(s)]
<1> DEFINE shown[i \in 0..Len(s)] == IF i = 0 THEN t ELSE terminal_putchar(shown[i - 1], s[i])
<1>1. \E g : Through(g, Len(s), t, s)
  <2>1. Len(s) \in Nat
    OBVIOUS
  <2> QED BY <2>1, ThroughExists
<1>2. \E g : g = [i \in 0..Len(s) |-> IF i = 0 THEN t ELSE terminal_putchar(g[i - 1], s[i])]
  BY <1>1 DEF Through
<1>3. shown = [i \in 0..Len(s) |-> IF i = 0 THEN t ELSE terminal_putchar(shown[i - 1], s[i])]
  BY <1>2, Zenon
<1>4. kprint(t, s) = shown[Len(s)]
  BY Zenon DEF kprint
<1> HIDE DEF shown
<1> QED BY <1>3, <1>4 DEF Through

\* What is true of the screen before a string is printed, and stays so from
\* each character to the next, is true when it has been printed. (kprint.c:1-12)
LEMMA Printing ==
  ASSUME NEW t, NEW s \in Seq(Chars), NEW Good,
         t \in Good[0],
         \A i \in 1..Len(s) : \A u \in Good[i - 1] : terminal_putchar(u, s[i]) \in Good[i]
  PROVE  kprint(t, s) \in Good[Len(s)]
<1>1. PICK g : Through(g, Len(s), t, s) /\ kprint(t, s) = g[Len(s)]
  BY KprintThrough
<1>a. Len(s) \in Nat
  OBVIOUS
<1>2. g[0] = t /\ \A i \in 1..Len(s) : g[i] = terminal_putchar(g[i - 1], s[i])
  BY <1>a, <1>1 DEF Through
<1> DEFINE Z == {i \in 0..Len(s) : g[i] \notin Good[i]}
<1>3. Z = {}
  <2> SUFFICES ASSUME Z # {} PROVE FALSE
    OBVIOUS
  <2>1. PICK i \in Z : \A k \in Z : ~(k < i)
    <3> Z \subseteq Nat
      BY <1>a
    <3> HIDE DEF Z
    <3> QED BY LowestNumber
  <2>2. i # 0
    BY <1>2, <2>1
  <2>3. i \in 1..Len(s) /\ i - 1 \in 0..Len(s) /\ i - 1 < i
    BY <1>a, <2>1, <2>2
  <2>4. g[i - 1] \in Good[i - 1]
    BY <2>1, <2>3
  <2> QED BY <1>2, <2>1, <2>3, <2>4
<1> QED BY <1>a, <1>1, <1>3

\* Printing one string behind another is printing them together.
LEMMA Together ==
  ASSUME NEW t, NEW s \in Seq(Chars), NEW w \in Seq(Chars)
  PROVE  kprint(t, s \o w) = kprint(kprint(t, s), w)
<1>1. PICK g : Through(g, Len(s), t, s) /\ kprint(t, s) = g[Len(s)]
  BY KprintThrough
<1>2. PICK h : Through(h, Len(w), kprint(t, s), w) /\ kprint(kprint(t, s), w) = h[Len(w)]
  BY KprintThrough
<1> DEFINE n == Len(s)
           m == Len(w)
           both == s \o w
           Good == [i \in 0..(n + m) |-> IF i <= n THEN {g[i]} ELSE {h[i - n]}]
<1>3. n \in Nat /\ m \in Nat
  OBVIOUS
<1>4. g[0] = t /\ \A i \in 1..n : g[i] = terminal_putchar(g[i - 1], s[i])
  BY <1>1, <1>3 DEF Through
<1>5. h[0] = g[n] /\ \A i \in 1..m : h[i] = terminal_putchar(h[i - 1], w[i])
  <2>1. h[0] = kprint(t, s) /\ \A i \in 1..m : h[i] = terminal_putchar(h[i - 1], w[i])
    <3> DEFINE u == kprint(t, s)
    <3>1. Through(h, m, u, w)
      BY <1>2
    <3> HIDE DEF u
    <3>2. h[0] = u /\ \A i \in 1..m : h[i] = terminal_putchar(h[i - 1], w[i])
      <4> HIDE DEF m
      <4> QED BY <3>1, <1>3 DEF Through
    <3> QED BY <3>2 DEF u
  <2> QED BY <2>1, <1>1
<1>6. /\ both \in Seq(Chars) /\ Len(both) = n + m
      /\ \A i \in 1..(n + m) : both[i] = IF i <= n THEN s[i] ELSE w[i - n]
  BY ConcatProperties
<1>7. \A i \in 0..(n + m) : Good[i] = IF i <= n THEN {g[i]} ELSE {h[i - n]}
  OBVIOUS
<1> HIDE DEF Good, n, m, both
<1>8. t \in Good[0]
  <2>1. 0 \in 0..(n + m) /\ 0 <= n
    BY <1>3
  <2> QED BY <2>1, <1>4, <1>7
<1>9. \A i \in 1..Len(both) : \A u \in Good[i - 1] : terminal_putchar(u, both[i]) \in Good[i]
  <2> TAKE i \in 1..Len(both)
  <2> TAKE u \in Good[i - 1]
  <2>1. i \in 1..(n + m) /\ i \in 0..(n + m) /\ i - 1 \in 0..(n + m)
    BY <1>3, <1>6
  <2>2. CASE i <= n
    <3>1. i - 1 <= n /\ i \in 1..n
      BY <2>1, <2>2, <1>3
    <3> QED BY <3>1, <2>1, <2>2, <1>4, <1>6, <1>7
  <2>3. CASE i = n + 1
    <3>1. i - 1 = n /\ i - n = 1 /\ ~(i <= n) /\ 1 \in 1..m
      BY <2>1, <2>3, <1>3
    <3>a. Good[i - 1] = {g[i - 1]}
      <4>1. i - 1 \in 0..(n + m) /\ i - 1 <= n
        BY <3>1, <2>1, <1>3
      <4> QED BY <4>1, <1>7
    <3>b. both[i] = w[i - n]
      BY <3>1, <2>1, <1>6
    <3>2. u = g[n] /\ both[i] = w[1]
      BY <3>1, <3>a, <3>b
    <3>3. terminal_putchar(u, both[i]) = h[1]
      <4>1. h[1] = terminal_putchar(h[1 - 1], w[1])
        BY <3>1, <1>5
      <4> QED BY <4>1, <3>2, <1>5
    <3> QED BY <3>1, <3>3, <2>1, <1>7
  <2>4. CASE i > n + 1
    <3> DEFINE j == i - n
    <3>1. ~(i - 1 <= n) /\ ~(i <= n) /\ j \in 1..m /\ i - 1 - n = j - 1
      BY <2>1, <2>4, <1>3
    <3>2. Good[i - 1] = {h[i - 1 - n]} /\ Good[i] = {h[j]} /\ both[i] = w[j]
      BY <3>1, <2>1, <1>6, <1>7
    <3> HIDE DEF j
    <3>3. u = h[j - 1]
      BY <3>1, <3>2
    <3> QED BY <3>1, <3>2, <3>3, <1>5
  <2> QED BY <2>1, <2>2, <2>3, <2>4, <1>3
<1>10. kprint(t, both) \in Good[Len(both)]
  BY <1>6, <1>8, <1>9, Printing
<1>11. Good[n + m] = {h[m]}
  <2>1. CASE m = 0
    <3>1. n + m = n /\ n \in 0..(n + m)
      BY <2>1, <1>3
    <3> QED BY <3>1, <2>1, <1>5, <1>7, <1>3
  <2>2. CASE m # 0
    <3> DEFINE k == n + m
    <3>1. ~(k <= n) /\ k - n = m /\ k \in 0..(n + m)
      BY <2>2, <1>3
    <3> HIDE DEF k
    <3>2. Good[k] = {h[k - n]}
      BY <3>1, <1>7
    <3> QED BY <3>1, <3>2 DEF k
  <2> QED BY <2>1, <2>2
<1>12. kprint(kprint(t, s), w) = h[m]
  BY <1>2 DEF m
<1> QED BY <1>6, <1>10, <1>11, <1>12 DEF both

LEMMA KprintOne ==
  ASSUME NEW t, NEW c \in Chars
  PROVE  kprint(t, <<c>>) = terminal_putchar(t, c)
<1> DEFINE Good == [i \in 0..1 |-> IF i = 0 THEN {t} ELSE {terminal_putchar(t, c)}]
           s == <<c>>
<1>1. s \in Seq(Chars) /\ Len(s) = 1 /\ s[1] = c
  OBVIOUS
<1>2. Good[0] = {t} /\ Good[1] = {terminal_putchar(t, c)}
  OBVIOUS
<1> HIDE DEF Good, s
<1>3. \A i \in 1..Len(s) : \A u \in Good[i - 1] : terminal_putchar(u, s[i]) \in Good[i]
  <2> TAKE i \in 1..Len(s)
  <2>1. i = 1 /\ i - 1 = 0
    BY <1>1
  <2> QED BY <2>1, <1>1, <1>2
<1>4. kprint(t, s) \in Good[Len(s)]
  BY <1>1, <1>2, <1>3, Printing
<1> QED BY <1>1, <1>2, <1>4 DEF s

-----------------------------------------------------------------------------
(***************************************************************************)
(* One character on the terminal, wherever the cursor is.                  *)
(***************************************************************************)
Tm(a, r, c, x) == [cell |-> a, row |-> r, col |-> c, ansi |-> x]

LEMMA TmFields ==
  \A a, r, c, x : /\ Tm(a, r, c, x).cell = a /\ Tm(a, r, c, x).row = r
                  /\ Tm(a, r, c, x).col = c /\ Tm(a, r, c, x).ansi = x
BY DEF Tm

LEMMA TmSet ==
  \A a, r, c, x, v :
    /\ [Tm(a, r, c, x) EXCEPT !.cell = v] = Tm(v, r, c, x)
    /\ [Tm(a, r, c, x) EXCEPT !.row = v] = Tm(a, v, c, x)
    /\ [Tm(a, r, c, x) EXCEPT !.col = v] = Tm(a, r, v, x)
    /\ [Tm(a, r, c, x) EXCEPT !.ansi = v] = Tm(a, r, c, v)
BY DEF Tm

LEMMA Twice ==
  \A t, v, w :
    /\ [t EXCEPT !.col = v, !.row = w] = [[t EXCEPT !.col = v] EXCEPT !.row = w]
    /\ [t EXCEPT !.row = v, !.col = w] = [[t EXCEPT !.row = v] EXCEPT !.col = w]
    /\ [t EXCEPT !.cell = v, !.row = w] = [[t EXCEPT !.cell = v] EXCEPT !.row = w]
OBVIOUS

LEMMA TermFields ==
  ASSUME NEW t \in Term
  PROVE  /\ t.cell \in Screen /\ t.row \in Bytes /\ t.col \in Bytes /\ t.ansi \in Parser
         /\ t = Tm(t.cell, t.row, t.col, t.ansi)
BY DEF Term, Screen, Bytes, Tm

LEMMA TermIs ==
  ASSUME NEW a \in Screen, NEW r \in Bytes, NEW c \in Bytes, NEW x \in Parser
  PROVE  Tm(a, r, c, x) \in Term
BY DEF Term, Screen, Bytes, Tm

LEMMA Sizes ==
  /\ Width \in Nat /\ Height \in Nat /\ Width > 0 /\ Height > 1
  /\ Width < Byte /\ Height < Byte /\ Byte = 256 /\ Height - 1 \in Bytes /\ Width - 1 \in Bytes
  /\ 0 \in Bytes
BY ConsoleOK DEF Byte, Bytes

LEMMA Wraps ==
  /\ \A n \in Bytes : (n + 1) % Byte \in Bytes
  /\ \A n \in Bytes : n + 1 < Byte => (n + 1) % Byte = n + 1
  /\ \A n \in Nat : n % Byte \in Bytes
BY DEF Bytes, Byte

\* The cells after a character is put under the cursor.
Cells(t, c) == IF Position(t) \in Cell THEN [t.cell EXCEPT ![Position(t)] = c] ELSE t.cell

LEMMA PutIs ==
  ASSUME NEW t \in Term, NEW c \in Chars
  PROVE  Put(t, c) = Tm(Cells(t, c), t.row, t.col, t.ansi) /\ Cells(t, c) \in Screen
<1> DEFINE a == t.cell
           n == Position(t)
           e == Tm(t.cell, t.row, t.col, t.ansi)
<1>1. t.cell \in Screen /\ t = e
  BY TermFields
<1>2. Cells(t, c) \in Screen
  BY <1>1 DEF Cells, Screen
<1>3. CASE n \in Cell
  <2> DEFINE b == [a EXCEPT ![n] = c]
  <2>1. Put(t, c) = [t EXCEPT !.cell = [@ EXCEPT ![n] = c]]
    BY <1>3 DEF Put
  <2>2. [t EXCEPT !.cell = [@ EXCEPT ![n] = c]] = [t EXCEPT !.cell = b]
    OBVIOUS
  <2>3. [e EXCEPT !.cell = b] = Tm(b, t.row, t.col, t.ansi)
    BY TmSet
  <2>4. Cells(t, c) = b
    BY <1>3, Sizes DEF Cells
  <2> HIDE DEF b, e
  <2> QED BY <2>1, <2>2, <2>3, <2>4, <1>1, <1>2
<1>4. CASE n \notin Cell
  BY <1>1, <1>2, <1>4 DEF Put, Cells
<1> QED BY <1>3, <1>4

Raised(a) == [i \in Cell |-> IF i + Width \in Cell THEN a[i + Width] ELSE Blank]

LEMMA Strings ==
  /\ Letters \subseteq Chars /\ Printable \subseteq Chars /\ Special \subseteq Chars
  /\ Blank \in Chars /\ Slash \in Chars
  /\ Printable \cap Special = {} /\ Slash \notin Special \cup {Semi} \cup ToSet(Digits)
  /\ Rub # Esc /\ Newline # Esc /\ Rub # Newline /\ Rub # Return /\ Newline # Return
  /\ {Rub, Newline, Return, Esc, Tab} = Special
  /\ Slash \notin {Up, Down, Right, Left, Home, "f", Clear}
  /\ Bracket \notin Special
<1>1. /\ Arrows \subseteq Chars /\ Bracket \in Chars /\ Special \subseteq Chars
      /\ Blank \in Chars /\ Slash \in Chars
  BY ConsoleOK
<1>2. (Arrows \cup {Bracket, Slash}) \cap Special = {}
  BY DEF Arrows, Up, Down, Right, Left, Bracket, Special, Esc, Newline, Return, Rub, Tab, Slash
<1>3. Letters \subseteq Chars /\ Letters \cap Special = {}
  BY ConsoleOK
<1>4. Slash \notin {Semi} \cup ToSet(Digits)
  <2>1. \A i \in 1..10 : Digits[i] # "/"
    BY DEF Digits
  <2>2. DOMAIN Digits = 1..10
    BY DEF Digits
  <2> QED BY <2>1, <2>2 DEF Slash, Semi, ToSet
<1>5. /\ Rub # Esc /\ Newline # Esc /\ Rub # Newline /\ Rub # Return /\ Newline # Return
      /\ {Rub, Newline, Return, Esc, Tab} = Special
      /\ Slash \notin {Up, Down, Right, Left, Home, "f", Clear}
  BY DEF Special, Rub, Newline, Return, Esc, Tab, Slash, Up, Down, Right, Left, Home, Clear
<1> QED BY <1>1, <1>2, <1>3, <1>4, <1>5 DEF Printable

LEMMA NextLineIs ==
  ASSUME NEW a \in Screen, NEW r \in Bytes, NEW c \in Bytes, NEW x \in Parser
  PROVE  /\ NextLine(Tm(a, r, c, x)) =
              IF (r + 1) % Byte < Height THEN Tm(a, (r + 1) % Byte, 0, x)
                                         ELSE Tm(Raised(a), Height - 1, 0, x)
         /\ NextLine(Tm(a, r, c, x)) \in Term
         /\ NextLine(Tm(a, r, c, x)).row < Height
<1> DEFINE t == Tm(a, r, c, x)
           k == (r + 1) % Byte
           moved == Tm(a, k, 0, x)
<1>1. [t EXCEPT !.col = 0, !.row = (@ + 1) % Byte] = moved
  <2>1. [t EXCEPT !.col = 0, !.row = (@ + 1) % Byte] = [[t EXCEPT !.col = 0] EXCEPT !.row = (t.row + 1) % Byte]
    BY DEF Tm
  <2>2. [t EXCEPT !.col = 0] = Tm(a, r, 0, x) /\ t.row = r
    BY TmSet, TmFields
  <2>3. [Tm(a, r, 0, x) EXCEPT !.row = k] = moved
    BY TmSet
  <2> QED BY <2>1, <2>2, <2>3
<1>2. moved.row = k /\ moved.cell = a
  BY TmFields
<1>3. k \in Bytes
  BY Wraps
<1>4. Raised(a) \in Screen
  BY Strings DEF Screen, Raised
<1>5. Scrolled(moved) = Tm(Raised(a), Height - 1, 0, x)
  <2>1. Scrolled(moved) = [moved EXCEPT !.cell = Raised(a), !.row = Height - 1]
    BY <1>2 DEF Scrolled, Raised
  <2>2. [moved EXCEPT !.cell = Raised(a)] = Tm(Raised(a), k, 0, x)
    BY TmSet
  <2>3. [Tm(Raised(a), k, 0, x) EXCEPT !.row = Height - 1] = Tm(Raised(a), Height - 1, 0, x)
    BY TmSet
  <2> HIDE DEF moved
  <2> QED BY <2>1, <2>2, <2>3, Twice
<1>6. NextLine(t) = IF k >= Height THEN Scrolled(moved) ELSE moved
  BY <1>1, <1>2 DEF NextLine
<1> HIDE DEF k
<1>7. moved \in Term /\ Tm(Raised(a), Height - 1, 0, x) \in Term
  BY <1>3, <1>4, Sizes, TermIs
<1>8. Tm(Raised(a), Height - 1, 0, x).row = Height - 1
  BY TmFields
<1>9. k \in Int /\ Height \in Nat
  BY <1>3, Sizes DEF Bytes
<1> HIDE DEF moved, t
<1>10. NextLine(t) = IF k < Height THEN moved ELSE Tm(Raised(a), Height - 1, 0, x)
  BY <1>5, <1>6, <1>9
<1> QED BY <1>2, <1>7, <1>8, <1>9, <1>10 DEF t, k, moved

\* A character that is drawn takes the cursor to a column of the screen, and
\* never below it.
LEMMA DrawnIs ==
  ASSUME NEW t \in Term, NEW c \in Chars
  PROVE  /\ Drawn(t, c) =
              IF (t.col + 1) % Byte < Width THEN Tm(Cells(t, c), t.row, (t.col + 1) % Byte, t.ansi)
              ELSE IF (t.row + 1) % Byte < Height THEN Tm(Cells(t, c), (t.row + 1) % Byte, 0, t.ansi)
              ELSE Tm(Raised(Cells(t, c)), Height - 1, 0, t.ansi)
         /\ Drawn(t, c) \in Term /\ Drawn(t, c).ansi = t.ansi
         /\ t.row < Height => Drawn(t, c).row < Height
         /\ Drawn(t, c).col < Width
<1> DEFINE a == Cells(t, c)
           r == t.row
           k == (t.col + 1) % Byte
           x == t.ansi
           d == Tm(a, r, k, x)
<1>1. t.col \in Bytes /\ r \in Bytes /\ x \in Parser
  BY TermFields
<1>2. Put(t, c) = Tm(a, r, t.col, x) /\ a \in Screen
  BY PutIs
<1>3. [Put(t, c) EXCEPT !.col = (@ + 1) % Byte] = d
  <2>1. Put(t, c).col = t.col
    BY <1>2, TmFields
  <2>2. [Put(t, c) EXCEPT !.col = (@ + 1) % Byte] = [Put(t, c) EXCEPT !.col = (Put(t, c).col + 1) % Byte]
    OBVIOUS
  <2>3. [Tm(a, r, t.col, x) EXCEPT !.col = k] = d
    BY TmSet
  <2> QED BY <2>1, <2>2, <2>3, <1>2
<1>4. k \in Bytes
  BY <1>1, Wraps
<1>5. d.col = k /\ d.ansi = x /\ d.row = r
  BY TmFields
<1>6. Drawn(t, c) = IF k >= Width THEN NextLine(d) ELSE d
  BY <1>3, <1>5 DEF Drawn
<1> HIDE DEF a, r, x
<1>7. d \in Term
  BY <1>1, <1>2, <1>4, TermIs
<1>8. /\ NextLine(d) = IF (r + 1) % Byte < Height THEN Tm(a, (r + 1) % Byte, 0, x)
                                                  ELSE Tm(Raised(a), Height - 1, 0, x)
      /\ NextLine(d) \in Term /\ NextLine(d).row < Height
  BY <1>1, <1>2, <1>4, NextLineIs
<1>9. NextLine(d).ansi = x /\ NextLine(d).col = 0
  BY <1>8, TmFields
<1> HIDE DEF k, d
<1>10. k \in Int /\ Width \in Nat /\ 0 < Width
  BY <1>4, Sizes DEF Bytes
<1>11. CASE k < Width
  BY <1>11, <1>5, <1>6, <1>7, <1>10 DEF a, r, k, x, d
<1>12. CASE ~(k < Width)
  <2>1. Drawn(t, c) = NextLine(d)
    BY <1>12, <1>6, <1>10
  <2> QED BY <2>1, <1>12, <1>8, <1>9, <1>10 DEF a, r, k, x
<1> QED BY <1>11, <1>12

LEMMA RubbedIs ==
  ASSUME NEW t \in Term
  PROVE  /\ Rubbed(t) \in Term /\ Rubbed(t).ansi = t.ansi
         /\ Rubbed(t).row = (IF t.col = 0 /\ t.row > 0 THEN t.row - 1 ELSE t.row)
         /\ Rubbed(t).col = (IF t.col > 0 THEN t.col - 1 ELSE IF t.row > 0 THEN Width - 1 ELSE 0)
         /\ Rubbed(t).cell = (IF Position(Rubbed(t)) \in Cell
                                THEN [t.cell EXCEPT ![Position(Rubbed(t))] = Blank] ELSE t.cell)
<1> DEFINE r == IF t.col = 0 /\ t.row > 0 THEN t.row - 1 ELSE t.row
           c == IF t.col > 0 THEN t.col - 1 ELSE IF t.row > 0 THEN Width - 1 ELSE 0
           a == t.cell
           x == t.ansi
           back == Tm(a, r, c, x)
           moved == IF t.col > 0 THEN [t EXCEPT !.col = @ - 1]
                    ELSE IF t.row > 0 THEN [t EXCEPT !.row = @ - 1, !.col = Width - 1]
                    ELSE t
<1>1. t.cell \in Screen /\ t.row \in Bytes /\ t.col \in Bytes /\ x \in Parser /\ t = Tm(a, t.row, t.col, x)
  BY TermFields
<1>2. r \in Bytes /\ c \in Bytes
  BY <1>1, Sizes DEF Bytes
<1>3. moved = back
  <2>1. CASE t.col > 0
    <3>1. moved = [t EXCEPT !.col = t.col - 1]
      BY <2>1
    <3>2. [Tm(a, t.row, t.col, x) EXCEPT !.col = t.col - 1] = Tm(a, t.row, t.col - 1, x)
      BY TmSet
    <3>3. r = t.row /\ c = t.col - 1
      BY <2>1, <1>1 DEF Bytes
    <3> HIDE DEF moved
    <3> QED BY <3>1, <3>2, <3>3, <1>1
  <2>2. CASE ~(t.col > 0) /\ t.row > 0
    <3>1. moved = [t EXCEPT !.row = t.row - 1, !.col = Width - 1]
      BY <2>2
    <3>2. [Tm(a, t.row, t.col, x) EXCEPT !.row = t.row - 1] = Tm(a, t.row - 1, t.col, x)
      BY TmSet
    <3>3. [Tm(a, t.row - 1, t.col, x) EXCEPT !.col = Width - 1] = Tm(a, t.row - 1, Width - 1, x)
      BY TmSet
    <3>4. r = t.row - 1 /\ c = Width - 1
      BY <2>2, <1>1 DEF Bytes
    <3> HIDE DEF moved
    <3> QED BY <3>1, <3>2, <3>3, <3>4, <1>1, Twice
  <2>3. CASE ~(t.col > 0) /\ ~(t.row > 0)
    <3>1. moved = t /\ r = t.row /\ c = 0 /\ t.col = 0
      BY <2>3, <1>1 DEF Bytes
    <3> HIDE DEF moved
    <3> QED BY <3>1, <1>1
  <2> QED BY <2>1, <2>2, <2>3
<1>4. Rubbed(t) = Put(back, Blank)
  BY <1>3 DEF Rubbed
<1> HIDE DEF moved, r, c
<1>5. back \in Term /\ back.row = r /\ back.col = c /\ back.cell = a /\ back.ansi = x
  BY <1>1, <1>2, TermIs, TmFields
<1>6. Put(back, Blank) = Tm(Cells(back, Blank), r, c, x) /\ Cells(back, Blank) \in Screen
  BY <1>5, PutIs, Strings
<1>7. /\ Rubbed(t).row = r /\ Rubbed(t).col = c /\ Rubbed(t).cell = Cells(back, Blank)
      /\ Rubbed(t).ansi = x /\ Rubbed(t) \in Term
  BY <1>1, <1>2, <1>4, <1>6, TmFields, TermIs
<1>8. Position(Rubbed(t)) = Position(back)
  BY <1>5, <1>7 DEF Position
<1> HIDE DEF back
<1> QED BY <1>5, <1>7, <1>8 DEF Cells, r, c

\* What the terminal does with a character that is not part of an escape
\* sequence.
LEMMA PlainIs ==
  ASSUME NEW t \in Term, NEW c \in Chars
  PROVE  /\ Plain(t, c) \in Term /\ Plain(t, c).ansi = t.ansi
         /\ c = Newline => Plain(t, c).row < Height
         /\ c = Rub => Plain(t, c) = Rubbed(t)
         /\ c \notin {Rub, Newline, Return} => Plain(t, c) = Drawn(t, c)
<1>0. /\ t.cell \in Screen /\ t.row \in Bytes /\ t.col \in Bytes /\ t.ansi \in Parser
      /\ t = Tm(t.cell, t.row, t.col, t.ansi)
  BY TermFields
<1>1. CASE c = Newline
  <2>1. Plain(t, c) = NextLine(t)
    BY <1>1, Strings DEF Plain
  <2>2. NextLine(t) \in Term /\ NextLine(t).row < Height /\ NextLine(t).ansi = t.ansi
    BY <1>0, NextLineIs, TmFields
  <2> QED BY <2>1, <2>2, <1>1, Strings
<1>2. CASE c = Return
  <2>1. Plain(t, c) = [t EXCEPT !.col = 0]
    BY <1>2, Strings DEF Plain
  <2>2. [t EXCEPT !.col = 0] = Tm(t.cell, t.row, 0, t.ansi)
    BY <1>0, TmSet
  <2>3. Tm(t.cell, t.row, 0, t.ansi) \in Term /\ Tm(t.cell, t.row, 0, t.ansi).ansi = t.ansi
    BY <1>0, TermIs, TmFields, Sizes
  <2> QED BY <2>1, <2>2, <2>3, <1>2, Strings
<1>3. CASE c = Rub
  <2>1. Plain(t, c) = Rubbed(t)
    BY <1>3, Strings DEF Plain
  <2> QED BY <2>1, RubbedIs, <1>3, Strings
<1>4. CASE c \notin {Rub, Newline, Return}
  <2>1. Plain(t, c) = Drawn(t, c)
    BY <1>4 DEF Plain
  <2> QED BY <2>1, DrawnIs, <1>4
<1> QED BY <1>1, <1>2, <1>3, <1>4

-----------------------------------------------------------------------------
(***************************************************************************)
(* Escape sequences.                                                       *)
(***************************************************************************)
LEMMA Figure ==
  ASSUME NEW c \in ToSet(Digits)
  PROVE  (CHOOSE d \in 0..9 : Digits[d + 1] = c) \in Nat
<1>1. DOMAIN Digits = 1..10
  BY DEF Digits
<1>2. PICK i \in 1..10 : Digits[i] = c
  BY <1>1 DEF ToSet
<1>3. i - 1 \in 0..9 /\ Digits[(i - 1) + 1] = c
  BY <1>2
<1> DEFINE Is(d) == Digits[d + 1] = c
<1>4. \E d \in 0..9 : Is(d)
  BY <1>3
<1> HIDE DEF Is
<1>5. (CHOOSE d \in 0..9 : Is(d)) \in 0..9
  BY <1>4, Zenon
<1>6. (CHOOSE d \in 0..9 : Is(d)) \in Nat
  <2> DEFINE v == CHOOSE d \in 0..9 : Is(d)
  <2>1. v \in 0..9
    BY <1>5
  <2> HIDE DEF v
  <2>2. v \in Nat
    BY <2>1
  <2> QED BY <2>2 DEF v
<1> QED BY <1>6 DEF Is

LEMMA Remainder == \A n \in Nat : n % Word \in Nat
BY ConsoleOK

LEMMA NumberedType ==
  ASSUME NEW p \in Seq(Nat), NEW c \in ToSet(Digits) \cup {Semi}
  PROVE  Numbered(p, c) \in Seq(Nat)
<1> DEFINE digit == CHOOSE d \in 0..9 : Digits[d + 1] = c
           next == (10 * p[Len(p)] + digit) % Word
<1>1. CASE c = Semi /\ Len(p) < 4
  <2>1. Numbered(p, c) = Append(p, 0)
    BY <1>1 DEF Numbered
  <2> QED BY <2>1
<1>2. CASE c = Semi /\ ~(Len(p) < 4)
  <2>1. Numbered(p, c) = [p EXCEPT ![4] = 0]
    BY <1>2 DEF Numbered
  <2>2. 4 \in 1..Len(p)
    BY <1>2
  <2> QED BY <2>1, <2>2
<1>3. CASE c # Semi
  <2>1. Numbered(p, c) = [p EXCEPT ![Len(p)] = next]
    BY <1>3 DEF Numbered
  <2>2. CASE Len(p) = 0
    <3>1. p = <<>>
      BY <2>2, EmptySeq
    <3>2. [p EXCEPT ![Len(p)] = next] = p
      BY <2>2, <3>1
    <3> QED BY <2>1, <3>2
  <2>3. CASE Len(p) # 0
    <3>1. Len(p) \in 1..Len(p) /\ p[Len(p)] \in Nat
      BY <2>3
    <3>2. digit \in Nat
      BY <1>3, Figure
    <3> HIDE DEF digit
    <3>3. next \in Nat
      <4> DEFINE v == p[Len(p)]
      <4>1. v \in Nat
        BY <3>1
      <4> HIDE DEF v
      <4>2. 10 * v + digit \in Nat
        BY <4>1, <3>2
      <4> QED BY <4>2, Remainder DEF v
    <3> HIDE DEF next
    <3> QED BY <2>1, <3>1, <3>3
  <2> QED BY <2>2, <2>3
<1> QED BY <1>1, <1>2, <1>3

LEMMA PlaceType == \A p \in Seq(Nat), n \in Nat \ {0} : Place(p, n) \in Bytes
<1> SUFFICES ASSUME NEW p \in Seq(Nat), NEW n \in Nat \ {0} PROVE Place(p, n) \in Bytes
  OBVIOUS
<1>1. CASE n <= Len(p) /\ p[n] > 0 /\ 2 * p[n] < Word
  <2>1. Place(p, n) = (p[n] - 1) % Byte
    BY <1>1 DEF Place
  <2>2. p[n] - 1 \in Nat
    <3>1. p[n] \in Nat
      BY <1>1
    <3> QED BY <3>1, <1>1
  <2> QED BY <2>1, <2>2, Wraps
<1>2. CASE ~(n <= Len(p) /\ p[n] > 0 /\ 2 * p[n] < Word)
  <2>1. Place(p, n) = 0
    BY <1>2 DEF Place
  <2> QED BY <2>1, Sizes
<1> QED BY <1>1, <1>2

LEMMA Parsers ==
  /\ Text \in Parser /\ Text.state = 0
  /\ \A n \in 0..2, p \in Seq(Nat) : [state |-> n, params |-> p] \in Parser
  /\ \A x \in Parser : x.state \in 0..2 /\ x.params \in Seq(Nat)
BY DEF Text, Parser

LEMMA CommandType ==
  ASSUME NEW t \in Term, NEW c
  PROVE  Command(t, c) \in Term
<1>1. t.cell \in Screen /\ t.row \in Bytes /\ t.col \in Bytes /\ t.ansi \in Parser
  BY TermFields
<1>2. \A r, k \in Bytes :
        /\ [t EXCEPT !.row = r] \in Term /\ [t EXCEPT !.col = k] \in Term
        /\ [t EXCEPT !.row = r, !.col = k] \in Term
  BY DEF Term, Bytes
<1>3. CASE c = Up
  <2> DEFINE r == IF t.row > 0 THEN t.row - 1 ELSE t.row
  <2>1. Command(t, c) = [t EXCEPT !.row = r]
    BY <1>3 DEF Command, Up, Down, Right, Left, Home, Clear
  <2>2. r \in Bytes
    BY <1>1, Sizes DEF Bytes
  <2> QED BY <2>1, <2>2, <1>2
<1>4. CASE c = Down
  <2> DEFINE r == IF t.row < Height - 1 THEN t.row + 1 ELSE t.row
  <2>1. Command(t, c) = [t EXCEPT !.row = r]
    BY <1>4 DEF Command, Up, Down, Right, Left, Home, Clear
  <2>2. r \in Bytes
    BY <1>1, Sizes DEF Bytes
  <2> QED BY <2>1, <2>2, <1>2
<1>5. CASE c = Right
  <2> DEFINE k == IF t.col < Width - 1 THEN t.col + 1 ELSE t.col
  <2>1. Command(t, c) = [t EXCEPT !.col = k]
    BY <1>5 DEF Command, Up, Down, Right, Left, Home, Clear
  <2>2. k \in Bytes
    BY <1>1, Sizes DEF Bytes
  <2> QED BY <2>1, <2>2, <1>2
<1>6. CASE c = Left
  <2> DEFINE k == IF t.col > 0 THEN t.col - 1 ELSE t.col
  <2>1. Command(t, c) = [t EXCEPT !.col = k]
    BY <1>6 DEF Command, Up, Down, Right, Left, Home, Clear
  <2>2. k \in Bytes
    BY <1>1, Sizes DEF Bytes
  <2> QED BY <2>1, <2>2, <1>2
<1>7. CASE c \in {Home, "f"}
  <2>1. Command(t, c) = [t EXCEPT !.row = Place(t.ansi.params, 1), !.col = Place(t.ansi.params, 2)]
    BY <1>7 DEF Command, Up, Down, Right, Left, Home, Clear
  <2>2. Place(t.ansi.params, 1) \in Bytes /\ Place(t.ansi.params, 2) \in Bytes
    BY <1>1, Parsers, PlaceType
  <2> QED BY <2>1, <2>2, <1>2
<1>8. CASE c = Clear
  <2>1. Command(t, c) = Cleared
    BY <1>8 DEF Command, Up, Down, Right, Left, Home, Clear
  <2>2. Cleared \in Term
    BY Strings, Parsers, Sizes DEF Cleared, Term, Bytes
  <2> QED BY <2>1, <2>2
<1>9. CASE c \notin {Up, Down, Right, Left, Home, "f", Clear}
  BY <1>9 DEF Command, Up, Down, Right, Left, Home, Clear
<1> QED BY <1>3, <1>4, <1>5, <1>6, <1>7, <1>8, <1>9

LEMMA PutcharType ==
  ASSUME NEW t \in Term, NEW c \in Chars
  PROVE  /\ terminal_putchar(t, c) \in Term
         /\ t.ansi = Text /\ c # Esc => terminal_putchar(t, c) = Plain(t, c)
<1> DEFINE num == c \in ToSet(Digits) \cup {Semi}
           n == t.ansi.state
<1>1. n \in 0..2 /\ t.ansi.params \in Seq(Nat) /\ t = [t EXCEPT !.ansi = t.ansi]
  <2>1. t.ansi \in Parser /\ t = [t EXCEPT !.ansi = t.ansi]
    BY DEF Term
  <2> QED BY <2>1, Parsers
<1>2. \A u \in Term, x \in Parser : [u EXCEPT !.ansi = x] \in Term /\ [u EXCEPT !.ansi = x].ansi = x
  BY DEF Term
<1>3. t.ansi = Text => n = 0
  BY Parsers
<1>4. <<>> \in Seq(Nat) /\ <<0>> \in Seq(Nat) /\ 0 \in 0..2 /\ 1 \in 0..2 /\ 2 \in 0..2
  OBVIOUS
<1>5. CASE n = 0 /\ c = Esc
  <2>1. terminal_putchar(t, c) = [t EXCEPT !.ansi = [state |-> 1, params |-> <<>>]]
    BY <1>5 DEF terminal_putchar
  <2>2. [state |-> 1, params |-> <<>>] \in Parser
    <3>1. \A p \in Seq(Nat) : [state |-> 1, params |-> p] \in Parser
      BY <1>4, Parsers
    <3> QED BY <3>1, <1>4
  <2> QED BY <2>1, <2>2, <1>2, <1>5
<1>6. CASE n = 1 /\ c = Bracket
  <2>1. terminal_putchar(t, c) = [t EXCEPT !.ansi = [state |-> 2, params |-> <<0>>]]
    BY <1>6 DEF terminal_putchar
  <2>2. [state |-> 2, params |-> <<0>>] \in Parser
    <3>1. \A p \in Seq(Nat) : [state |-> 2, params |-> p] \in Parser
      BY <1>4, Parsers
    <3> QED BY <3>1, <1>4
  <2> QED BY <2>1, <2>2, <1>2, <1>3, <1>6
<1>7. CASE n = 2 /\ num
  <2>1. terminal_putchar(t, c) = [t EXCEPT !.ansi = [state |-> 2, params |-> Numbered(t.ansi.params, c)]]
    BY <1>7 DEF terminal_putchar
  <2>2. Numbered(t.ansi.params, c) \in Seq(Nat)
    BY <1>1, <1>7, NumberedType
  <2> QED BY <2>1, <2>2, <1>2, <1>3, <1>7, Parsers
<1>8. CASE n = 2 /\ ~num
  <2>1. terminal_putchar(t, c) = [Command(t, c) EXCEPT !.ansi = Text]
    BY <1>8 DEF terminal_putchar
  <2> QED BY <2>1, <1>2, <1>3, <1>8, CommandType, Parsers
<1>9. CASE ~(n = 0 /\ c = Esc) /\ ~(n = 1 /\ c = Bracket) /\ n # 2
  <2> DEFINE u == [t EXCEPT !.ansi = Text]
  <2>1. terminal_putchar(t, c) = Plain(u, c)
    BY <1>9 DEF terminal_putchar
  <2>2. u \in Term
    BY <1>2, Parsers
  <2>3. t.ansi = Text => u = t
    BY <1>1
  <2> HIDE DEF u
  <2> QED BY <2>1, <2>2, <2>3, PlainIs
<1> QED BY <1>1, <1>5, <1>6, <1>7, <1>8, <1>9

LEMMA KprintType ==
  ASSUME NEW t \in Term, NEW s \in Seq(Chars)
  PROVE  kprint(t, s) \in Term
<1> DEFINE Good == [i \in 0..Len(s) |-> Term]
<1>1. Len(s) \in Nat /\ \A i \in 1..Len(s) : s[i] \in Chars
  OBVIOUS
<1>2. \A i \in 0..Len(s) : Good[i] = Term
  OBVIOUS
<1> HIDE DEF Good
<1>3. t \in Good[0]
  BY <1>1, <1>2
<1>4. \A i \in 1..Len(s) : \A u \in Good[i - 1] : terminal_putchar(u, s[i]) \in Good[i]
  <2> TAKE i \in 1..Len(s)
  <2>1. i - 1 \in 0..Len(s) /\ i \in 0..Len(s)
    BY <1>1
  <2> QED BY <2>1, <1>1, <1>2, PutcharType
<1>5. kprint(t, s) \in Good[Len(s)]
  BY <1>3, <1>4, Printing
<1> QED BY <1>1, <1>2, <1>5

-----------------------------------------------------------------------------
(***************************************************************************)
(* One character on a terminal whose cursor is on the screen.              *)
(***************************************************************************)
OnTerm == {t \in Term : t.row < Height /\ t.col < Width}

\* Where the cursor is in the buffer.
LEMMA InTheBuffer ==
  ASSUME NEW r \in 0..(Height - 1), NEW c \in 0..(Width - 1)
  PROVE  /\ r * Width \in Nat /\ r * Width + c \in Cell
         /\ (r + 1) * Width = r * Width + Width
         /\ (Height - 1) * Width = Width * Height - Width
         /\ r > 0 => (r - 1) * Width = r * Width - Width
         /\ r = 0 => r * Width = 0
<1>1. Width \in Nat /\ Height \in Nat /\ Width > 0 /\ Height > 1
  BY Sizes
<1>2. r * Width <= (Height - 1) * Width /\ r * Width >= 0
  BY <1>1
<1>3. (Height - 1) * Width = Width * Height - Width
  BY <1>1
<1>4. r * Width \in Nat /\ (r + 1) * Width = r * Width + Width /\ (r - 1) * Width = r * Width - Width
  BY <1>1
<1>5. r * Width + c \in Cell
  <2> DEFINE a == r * Width
             b == Width * Height
  <2>1. a \in Nat /\ b \in Int /\ a <= b - Width
    BY <1>1, <1>2, <1>3, <1>4
  <2> HIDE DEF a, b
  <2>2. a + c \in 0..(b - 1)
    BY <1>1, <2>1
  <2> QED BY <2>2 DEF a, b, Cell
<1> QED BY <1>1, <1>3, <1>4, <1>5

LEMMA OnIs ==
  ASSUME NEW t \in OnTerm
  PROVE  /\ t \in Term /\ t.cell \in Screen
         /\ t.row \in 0..(Height - 1) /\ t.col \in 0..(Width - 1) /\ Position(t) \in Cell
         /\ \A c : Cells(t, c) = [t.cell EXCEPT ![Position(t)] = c]
<1>1. t \in Term /\ t.row < Height /\ t.col < Width
  BY DEF OnTerm
<1>2. t.cell \in Screen /\ t.row \in Bytes /\ t.col \in Bytes
  BY <1>1, TermFields
<1>3. t.row \in 0..(Height - 1) /\ t.col \in 0..(Width - 1)
  BY <1>1, <1>2, Sizes DEF Bytes
<1>4. Position(t) \in Cell
  BY <1>3, InTheBuffer DEF Position
<1> QED BY <1>1, <1>2, <1>3, <1>4 DEF Cells

\* A character that is drawn: either the cursor goes on by one, or the screen
\* moves up under it.
LEMMA DrawnHere ==
  ASSUME NEW t \in OnTerm, NEW c \in Chars
  PROVE  /\ Drawn(t, c) \in OnTerm /\ Drawn(t, c).ansi = t.ansi
         /\ \/ /\ Position(Drawn(t, c)) = Position(t) + 1
               /\ Drawn(t, c).cell = [t.cell EXCEPT ![Position(t)] = c]
            \/ /\ Position(Drawn(t, c)) = (Height - 1) * Width
               /\ Position(t) + 1 = Height * Width
               /\ \A i \in Cell : i + Width \in Cell =>
                    Drawn(t, c).cell[i] = [t.cell EXCEPT ![Position(t)] = c][i + Width]
<1> DEFINE a == [t.cell EXCEPT ![Position(t)] = c]
           d == Drawn(t, c)
           r == t.row
           k == t.col
<1>1. t \in Term /\ r \in 0..(Height - 1) /\ k \in 0..(Width - 1) /\ Cells(t, c) = a
  BY OnIs
<1>2. (r + 1) % Byte = r + 1 /\ (k + 1) % Byte = k + 1
  BY <1>1, Sizes, Wraps DEF Bytes
<1>3. /\ d = IF k + 1 < Width THEN Tm(a, r, k + 1, t.ansi)
             ELSE IF r + 1 < Height THEN Tm(a, r + 1, 0, t.ansi)
             ELSE Tm(Raised(a), Height - 1, 0, t.ansi)
      /\ d \in Term /\ d.ansi = t.ansi /\ d.row < Height /\ d.col < Width
  <2>1. t.row < Height
    BY DEF OnTerm
  <2> QED BY <2>1, <1>1, <1>2, DrawnIs
<1>4. d \in OnTerm
  BY <1>3 DEF OnTerm
<1>5. Position(t) = r * Width + k
  BY DEF Position
<1>6. r * Width \in Nat /\ (r + 1) * Width = r * Width + Width
  BY <1>1, InTheBuffer
<1>w. Width \in Nat /\ Width > 0 /\ Height \in Nat
  BY Sizes
<1> HIDE DEF a, d, r, k
<1>7. CASE k + 1 < Width
  <2>1. d.cell = a /\ d.row = r /\ d.col = k + 1
    BY <1>3, <1>7, TmFields
  <2>2. Position(d) = Position(t) + 1
    <3>1. Position(d) = r * Width + (k + 1)
      BY <2>1 DEF Position
    <3> QED BY <3>1, <1>1, <1>5, <1>6, <1>w
  <2> QED BY <2>1, <2>2, <1>3, <1>4 DEF a, d
<1>8. CASE ~(k + 1 < Width) /\ r + 1 < Height
  <2>1. d.cell = a /\ d.row = r + 1 /\ d.col = 0
    BY <1>3, <1>8, TmFields
  <2>2. Position(d) = Position(t) + 1
    <3>1. Position(d) = (r + 1) * Width + 0
      BY <2>1 DEF Position
    <3>2. k + 1 = Width
      BY <1>1, <1>8, <1>w
    <3> QED BY <3>1, <3>2, <1>1, <1>5, <1>6, <1>w
  <2> QED BY <2>1, <2>2, <1>3, <1>4 DEF a, d
<1>9. CASE ~(k + 1 < Width) /\ ~(r + 1 < Height)
  <2>1. d.cell = Raised(a) /\ d.row = Height - 1 /\ d.col = 0
    BY <1>3, <1>9, TmFields
  <2>2. k + 1 = Width /\ r + 1 = Height
    BY <1>1, <1>9, <1>w
  <2>3. Position(d) = (Height - 1) * Width
    <3>1. Position(d) = (Height - 1) * Width + 0
      BY <2>1 DEF Position
    <3>2. (Height - 1) * Width \in Int
      BY <1>w
    <3> QED BY <3>1, <3>2
  <2>4. Position(t) + 1 = Height * Width
    BY <2>2, <1>1, <1>5, <1>6, <1>w
  <2>5. \A i \in Cell : i + Width \in Cell => d.cell[i] = a[i + Width]
    BY <2>1 DEF Raised
  <2> QED BY <2>3, <2>4, <2>5, <1>3, <1>4 DEF a, d
<1> QED BY <1>7, <1>8, <1>9

\* A character that is rubbed out: the cursor goes back by one, unless it is
\* in the corner.
LEMMA RubbedHere ==
  ASSUME NEW t \in OnTerm
  PROVE  /\ Rubbed(t) \in OnTerm /\ Rubbed(t).ansi = t.ansi
         /\ Position(t) > 0 =>
              /\ Position(Rubbed(t)) = Position(t) - 1
              /\ Rubbed(t).cell = [t.cell EXCEPT ![Position(t) - 1] = Blank]
<1> DEFINE d == Rubbed(t)
           r == t.row
           k == t.col
<1>1. t \in Term /\ r \in 0..(Height - 1) /\ k \in 0..(Width - 1) /\ Position(t) \in Cell
  BY OnIs
<1>2. /\ d \in Term /\ d.ansi = t.ansi
      /\ d.row = (IF k = 0 /\ r > 0 THEN r - 1 ELSE r)
      /\ d.col = (IF k > 0 THEN k - 1 ELSE IF r > 0 THEN Width - 1 ELSE 0)
      /\ d.cell = IF Position(d) \in Cell THEN [t.cell EXCEPT ![Position(d)] = Blank] ELSE t.cell
  BY <1>1, RubbedIs
<1>w. Width \in Nat /\ Width > 0 /\ Height \in Nat
  BY Sizes
<1>3. Position(t) = r * Width + k /\ Position(d) = d.row * Width + d.col
  BY DEF Position
<1>4. /\ r * Width \in Nat /\ r > 0 => (r - 1) * Width = r * Width - Width
      /\ r = 0 => r * Width = 0
  BY <1>1, InTheBuffer
<1> HIDE DEF d, r, k
<1>5. d.row \in 0..(Height - 1) /\ d.col \in 0..(Width - 1)
  BY <1>1, <1>2, <1>w
<1>6. d \in OnTerm /\ Position(d) \in Cell
  <2>1. d \in OnTerm
    BY <1>2, <1>5, <1>w DEF OnTerm
  <2> QED BY <2>1, OnIs
<1>7. ASSUME Position(t) > 0 PROVE Position(d) = Position(t) - 1
  <2>1. CASE k > 0
    <3>1. d.row = r /\ d.col = k - 1
      BY <2>1, <1>1, <1>2
    <3> QED BY <3>1, <1>1, <1>3, <1>4, <1>w
  <2>2. CASE ~(k > 0) /\ r > 0
    <3>1. d.row = r - 1 /\ d.col = Width - 1 /\ k = 0
      BY <2>2, <1>1, <1>2
    <3> QED BY <3>1, <2>2, <1>1, <1>3, <1>4, <1>w
  <2>3. CASE ~(k > 0) /\ ~(r > 0)
    <3>1. r = 0 /\ k = 0
      BY <2>3, <1>1
    <3> QED BY <3>1, <1>3, <1>4, <1>7
  <2> QED BY <2>1, <2>2, <2>3
<1> QED BY <1>2, <1>6, <1>7 DEF d

-----------------------------------------------------------------------------
(***************************************************************************)
(* The line before the cursor.                                             *)
(***************************************************************************)
\* Screens on which the first n characters of a line end at the cursor.
Shown(line, n) ==
  {t \in OnTerm : /\ t.ansi = Text /\ Position(t) >= n
                  /\ \A i \in 1..n : t.cell[Position(t) - n + i - 1] = line[i]}

\* A whole line fits above the last line of the screen.
LEMMA LineFits == MaxLine <= (Height - 1) * Width
<1>1. Len(Prompt) \in Nat /\ MaxLine \in Nat /\ (Height - 1) * Width \in Int
  BY ConsoleOK, Sizes
<1>2. Len(Prompt) + MaxLine <= (Height - 1) * Width
  BY ConsoleOK
<1> QED BY <1>1, <1>2

LEMMA DrawOne ==
  ASSUME NEW line, NEW n \in 1..MaxLine, line[n] \in Printable, NEW t \in Shown(line, n - 1)
  PROVE  terminal_putchar(t, line[n]) \in Shown(line, n)
<1> DEFINE c == line[n]
           d == Drawn(t, c)
           p == Position(t)
           q == Position(d)
<1>1. /\ t \in OnTerm /\ t.ansi = Text /\ p >= n - 1
      /\ \A i \in 1..(n - 1) : t.cell[p - (n - 1) + i - 1] = line[i]
  BY DEF Shown
<1>2. c \in Chars /\ c \notin {Esc, Rub, Newline, Return}
  BY Strings
<1>3. terminal_putchar(t, c) = d
  BY <1>1, <1>2, OnIs, PutcharType, PlainIs
<1>4. /\ d \in OnTerm /\ d.ansi = Text
      /\ \/ q = p + 1 /\ d.cell = [t.cell EXCEPT ![p] = c]
         \/ /\ q = (Height - 1) * Width /\ p + 1 = Height * Width
            /\ \A i \in Cell : i + Width \in Cell =>
                 d.cell[i] = [t.cell EXCEPT ![p] = c][i + Width]
  BY <1>1, <1>2, DrawnHere
<1>5. p \in Cell /\ t.cell \in Screen /\ q \in Cell
  BY <1>1, <1>4, OnIs
<1>6. Width \in Nat /\ Width > 0 /\ n \in Nat /\ n > 0 /\ n <= MaxLine /\ MaxLine \in Nat
  BY ConsoleOK, Sizes
<1>7. \A j \in Cell : [t.cell EXCEPT ![p] = c][j] = IF j = p THEN c ELSE t.cell[j]
  BY <1>5 DEF Screen
<1> HIDE DEF c, d, p, q
<1>8. p \in Nat /\ q \in Nat
  BY <1>5, <1>6 DEF Cell
<1>9. \A i \in 1..n : LET k == p + 1 - n + i - 1
                      IN k \in Cell /\ [t.cell EXCEPT ![p] = c][k] = line[i]
  <2> TAKE i \in 1..n
  <2>1. p + 1 - n + i - 1 \in Cell
    <3> DEFINE all == Width * Height
    <3>1. p <= all - 1 /\ all \in Int
      BY <1>5, Sizes DEF Cell
    <3> HIDE DEF all
    <3>2. p + 1 - n + i - 1 \in 0..(all - 1)
      BY <3>1, <1>1, <1>6, <1>8
    <3> QED BY <3>2 DEF all, Cell
  <2>2. CASE i = n
    BY <2>1, <2>2, <1>5, <1>6, <1>7, <1>8 DEF c
  <2>3. CASE i # n
    <3>1. i \in 1..(n - 1) /\ p - (n - 1) + i - 1 = p + 1 - n + i - 1 /\ p + 1 - n + i - 1 # p
      BY <2>3, <1>6, <1>8
    <3> QED BY <3>1, <2>1, <1>1, <1>7
  <2> QED BY <2>2, <2>3
<1>10. q >= n /\ \A i \in 1..n : d.cell[q - n + i - 1] = line[i]
  <2>1. CASE q = p + 1 /\ d.cell = [t.cell EXCEPT ![p] = c]
    BY <2>1, <1>1, <1>6, <1>8, <1>9
  <2>2. CASE /\ q = (Height - 1) * Width /\ p + 1 = Height * Width
             /\ \A i \in Cell : i + Width \in Cell =>
                  d.cell[i] = [t.cell EXCEPT ![p] = c][i + Width]
    <3>1. q >= n
      <4>1. MaxLine <= (Height - 1) * Width
        BY LineFits
      <4> QED BY <4>1, <2>2, <1>6, <1>8
    <3>2. q + Width = p + 1
      <4>1. Height \in Nat
        BY Sizes
      <4> QED BY <4>1, <2>2, <1>6
    <3>3. ASSUME NEW i \in 1..n PROVE d.cell[q - n + i - 1] = line[i]
      <4>1. q - n + i - 1 \in Cell
        BY <3>1, <1>5, <1>6, <1>8, Sizes DEF Cell
      <4>2. q - n + i - 1 + Width = p + 1 - n + i - 1
        BY <3>2, <1>6, <1>8
      <4> QED BY <4>1, <4>2, <2>2, <1>9
    <3> QED BY <3>1, <3>3
  <2> QED BY <2>1, <2>2, <1>4
<1> QED BY <1>3, <1>4, <1>10 DEF Shown, c, q

LEMMA RubOne ==
  ASSUME NEW line, NEW n \in Nat \ {0}, NEW t \in Shown(line, n)
  PROVE  terminal_putchar(t, Rub) \in Shown(line, n - 1)
<1> DEFINE d == Rubbed(t)
           p == Position(t)
           q == Position(d)
<1>1. /\ t \in OnTerm /\ t.ansi = Text /\ p >= n
      /\ \A i \in 1..n : t.cell[p - n + i - 1] = line[i]
  BY DEF Shown
<1>2. terminal_putchar(t, Rub) = d
  <2>1. Rub \in Chars /\ Rub # Esc
    BY Strings
  <2>2. terminal_putchar(t, Rub) = Plain(t, Rub)
    BY <1>1, <2>1, OnIs, PutcharType
  <2> QED BY <1>1, <2>1, <2>2, OnIs, PlainIs
<1>3. p \in Cell /\ t.cell \in Screen
  BY <1>1, OnIs
<1>4. p \in Nat /\ p > 0 /\ p - 1 \in Cell
  BY <1>1, <1>3, Sizes DEF Cell
<1>5. d \in OnTerm /\ d.ansi = Text /\ q = p - 1 /\ d.cell = [t.cell EXCEPT ![p - 1] = Blank]
  BY <1>1, <1>4, RubbedHere
<1> HIDE DEF d, p, q
<1>6. ASSUME NEW i \in 1..(n - 1) PROVE d.cell[q - (n - 1) + i - 1] = line[i]
  <2>1. q - (n - 1) + i - 1 = p - n + i - 1 /\ p - n + i - 1 # p - 1 /\ i \in 1..n
    BY <1>4, <1>5
  <2>2. p - n + i - 1 \in Cell
    <3> DEFINE all == Width * Height
    <3>1. p <= all - 1 /\ all \in Int
      BY <1>3, Sizes DEF Cell
    <3> HIDE DEF all
    <3>2. p - n + i - 1 \in 0..(all - 1)
      BY <3>1, <1>1, <1>4
    <3> QED BY <3>2 DEF all, Cell
  <2>3. d.cell[p - n + i - 1] = t.cell[p - n + i - 1]
    BY <1>3, <1>5, <2>1, <2>2 DEF Screen
  <2> QED BY <2>1, <2>3, <1>1
<1>7. q >= n - 1
  BY <1>1, <1>4, <1>5
<1> QED BY <1>2, <1>5, <1>6, <1>7 DEF Shown, q


-----------------------------------------------------------------------------
(***************************************************************************)
(* What the shell prints.                                                  *)
(***************************************************************************)
\* The parser waits for an escape sequence to begin.
Quiet == {t \in Term : t.ansi = Text}

LEMMA QuietPuts ==
  ASSUME NEW t \in Quiet, NEW c \in Chars, c # Esc
  PROVE  terminal_putchar(t, c) = Plain(t, c) /\ terminal_putchar(t, c) \in Quiet
<1>1. t \in Term /\ t.ansi = Text
  BY DEF Quiet
<1>2. terminal_putchar(t, c) = Plain(t, c)
  BY <1>1, PutcharType
<1>3. Plain(t, c) \in Term /\ Plain(t, c).ansi = t.ansi
  BY <1>1, PlainIs
<1> QED BY <1>1, <1>2, <1>3 DEF Quiet

LEMMA QuietPrints ==
  ASSUME NEW t \in Quiet, NEW s \in Seq(Chars), \A i \in 1..Len(s) : s[i] # Esc
  PROVE  kprint(t, s) \in Quiet
<1> DEFINE Good == [i \in 0..Len(s) |-> Quiet]
<1>1. Len(s) \in Nat /\ \A i \in 1..Len(s) : s[i] \in Chars
  OBVIOUS
<1>2. \A i \in 0..Len(s) : Good[i] = Quiet
  OBVIOUS
<1> HIDE DEF Good
<1>3. t \in Good[0]
  BY <1>1, <1>2
<1>4. \A i \in 1..Len(s) : \A u \in Good[i - 1] : terminal_putchar(u, s[i]) \in Good[i]
  <2> TAKE i \in 1..Len(s)
  <2>1. i - 1 \in 0..Len(s) /\ i \in 0..Len(s)
    BY <1>1
  <2> QED BY <2>1, <1>1, <1>2, QuietPuts
<1>5. kprint(t, s) \in Good[Len(s)]
  BY <1>3, <1>4, Printing
<1> QED BY <1>1, <1>2, <1>5

\* The path's first character ends any sequence, or is drawn.
LEMMA SlashEnds ==
  ASSUME NEW t \in Term
  PROVE  /\ terminal_putchar(t, Slash) \in Quiet
         /\ t.row < Height => terminal_putchar(t, Slash).row < Height
<1> DEFINE u == [t EXCEPT !.ansi = Text]
<1>1. u \in Term /\ u.ansi = Text /\ u.row = t.row
  <2>1. Text \in Parser
    BY Parsers
  <2> QED BY <2>1 DEF Term
<1>2. Slash \in Chars /\ Slash \notin Special /\ Slash \notin ToSet(Digits) \cup {Semi}
  BY Strings
<1>3. Slash # Esc /\ Slash # Bracket /\ Slash \notin {Rub, Newline, Return}
  BY <1>2, Strings DEF Slash, Bracket
<1>4. CASE t.ansi.state = 2
  <2>1. terminal_putchar(t, Slash) = [Command(t, Slash) EXCEPT !.ansi = Text]
    BY <1>2, <1>4 DEF terminal_putchar
  <2>2. Command(t, Slash) = t
    BY Strings DEF Command
  <2> QED BY <2>1, <2>2, <1>1 DEF Quiet
<1>5. CASE t.ansi.state # 2
  <2>1. terminal_putchar(t, Slash) = Plain(u, Slash)
    BY <1>3, <1>5 DEF terminal_putchar
  <2> HIDE DEF u
  <2>2. Plain(u, Slash) = Drawn(u, Slash)
    BY <1>1, <1>2, <1>3, PlainIs
  <2>3. /\ Drawn(u, Slash) \in Term /\ Drawn(u, Slash).ansi = u.ansi
        /\ u.row < Height => Drawn(u, Slash).row < Height
    BY <1>1, <1>2, DrawnIs
  <2> QED BY <2>1, <2>2, <2>3, <1>1 DEF Quiet
<1> QED BY <1>4, <1>5

LEMMA PromptIs ==
  /\ Prompt \in Seq(Chars) /\ Len(Prompt) \in Nat /\ Len(Prompt) >= 2 /\ Prompt[1] = Slash
  /\ \A i \in 1..Len(Prompt) : Prompt[i] \in Chars \ Special
<1>1. Prompt \in Seq(Chars) /\ Len(Prompt) >= 2 /\ Prompt[1] = Slash /\ ToSet(Prompt) \cap Special = {}
  BY ConsoleOK
<1>2. Len(Prompt) \in Nat /\ DOMAIN Prompt = 1..Len(Prompt) /\ \A i \in 1..Len(Prompt) : Prompt[i] \in Chars
  BY <1>1
<1>3. \A i \in 1..Len(Prompt) : Prompt[i] \in ToSet(Prompt)
  BY <1>2 DEF ToSet
<1> QED BY <1>1, <1>2, <1>3

\* After a prompt the parser rests, and if it began on a row of the screen, the
\* cursor is on the screen.
LEMMA Prompted ==
  ASSUME NEW t \in Term
  PROVE  /\ kprint(t, Prompt) \in Quiet
         /\ t.row < Height => kprint(t, Prompt) \in Shown(<<>>, 0)
<1> DEFINE low == t.row < Height
           n == Len(Prompt)
           First == {u \in Term : low => u.row < Height}
           Second == {u \in Quiet : low => u.row < Height}
           Last2 == {u \in Quiet : low => u \in OnTerm}
           Good == [i \in 0..n |-> IF i = 0 THEN First ELSE IF i = 1 THEN Second ELSE Last2]
<1>1. n \in Nat /\ n >= 2
  BY PromptIs
<1>2. \A i \in 0..n : Good[i] = IF i = 0 THEN First ELSE IF i = 1 THEN Second ELSE Last2
  OBVIOUS
<1>3. t \in First
  OBVIOUS
<1>4. Last2 \subseteq Second
  BY DEF OnTerm
<1>5. \A u \in First : terminal_putchar(u, Slash) \in Second
  BY SlashEnds
<1>6. ASSUME NEW u \in Second, NEW c \in Chars \ Special
      PROVE  terminal_putchar(u, c) \in Last2
  <2>1. c # Esc /\ c \notin {Rub, Newline, Return} /\ c \in Chars
    BY Strings
  <2>2. u \in Quiet /\ u \in Term
    BY DEF Quiet
  <2>3. terminal_putchar(u, c) = Drawn(u, c) /\ terminal_putchar(u, c) \in Quiet
    BY <2>1, <2>2, QuietPuts, PlainIs
  <2>4. Drawn(u, c) \in Term /\ Drawn(u, c).col < Width /\ (u.row < Height => Drawn(u, c).row < Height)
    BY <2>1, <2>2, DrawnIs
  <2> QED BY <2>3, <2>4 DEF OnTerm
<1> HIDE DEF Good, First, Second, Last2, n
<1>7. \A i \in 1..Len(Prompt) : \A u \in Good[i - 1] : terminal_putchar(u, Prompt[i]) \in Good[i]
  <2> TAKE i \in 1..Len(Prompt)
  <2> TAKE u \in Good[i - 1]
  <2>1. i \in 1..n /\ i \in 0..n /\ i - 1 \in 0..n
    BY <1>1 DEF n
  <2>2. CASE i = 1
    <3>1. i - 1 = 0 /\ Prompt[i] = Slash
      BY <2>2, PromptIs
    <3> QED BY <3>1, <2>1, <2>2, <1>2, <1>5
  <2>3. CASE i # 1
    <3>1. i - 1 # 0 /\ i # 0 /\ Prompt[i] \in Chars \ Special
      BY <2>1, <2>3, PromptIs
    <3>2. u \in Second
      BY <3>1, <2>1, <1>2, <1>4
    <3> QED BY <3>1, <3>2, <2>1, <2>3, <1>2, <1>6
  <2> QED BY <2>2, <2>3
<1>8. t \in Good[0]
  BY <1>1, <1>2, <1>3
<1>9. kprint(t, Prompt) \in Good[Len(Prompt)]
  BY <1>7, <1>8, PromptIs, Printing
<1>10. kprint(t, Prompt) \in Last2
  <2>1. n \in 0..n /\ n # 0 /\ n # 1
    BY <1>1
  <2> QED BY <2>1, <1>2, <1>9 DEF n
<1>11. ASSUME NEW u \in OnTerm, u \in Quiet PROVE u \in Shown(<<>>, 0)
  <2>1. Position(u) \in Nat
    BY OnIs DEF Cell
  <2> QED BY <2>1, <1>11 DEF Shown, Quiet
<1> QED BY <1>10, <1>11 DEF Last2

\* Enter on an empty line brings the prompt back to the screen wherever the
\* cursor was.
LEMMA NewPrompt ==
  ASSUME NEW t \in Quiet
  PROVE  kprint(t, <<Newline>> \o Prompt) \in Shown(<<>>, 0)
<1>1. Newline \in Chars /\ Newline # Esc
  BY Strings
<1>2. <<Newline>> \in Seq(Chars)
  BY <1>1
<1> DEFINE u == kprint(t, <<Newline>>)
<1>3. kprint(t, <<Newline>> \o Prompt) = kprint(u, Prompt)
  BY <1>2, PromptIs, Together
<1>4. u = Plain(t, Newline)
  BY <1>1, KprintOne, QuietPuts
<1>5. t \in Term
  BY DEF Quiet
<1>6. u \in Term /\ u.row < Height
  BY <1>1, <1>4, <1>5, PlainIs
<1> HIDE DEF u
<1> QED BY <1>3, <1>6, Prompted

LEMMA LineIs ==
  ASSUME NEW line
  PROVE  line \in Line <=> line \in Seq(Printable) /\ Len(line) <= MaxLine
<1>1. ASSUME line \in Line PROVE line \in Seq(Printable) /\ Len(line) <= MaxLine
  <2>1. PICK n \in 0..MaxLine : line \in [1..n -> Printable]
    BY <1>1 DEF Line
  <2>2. n \in Nat /\ n <= MaxLine
    BY ConsoleOK
  <2>3. line \in Seq(Printable) /\ Len(line) = n
    BY <2>1, <2>2, SeqDef, LenProperties
  <2> QED BY <2>2, <2>3
<1>2. ASSUME line \in Seq(Printable), Len(line) <= MaxLine PROVE line \in Line
  <2>1. Len(line) \in 0..MaxLine /\ line \in [1..Len(line) -> Printable]
    BY <1>2, ConsoleOK, LenProperties
  <2> QED BY <2>1 DEF Line
<1> QED BY <1>1, <1>2

LEMMA Joined ==
  ASSUME NEW a \in Seq(Chars), NEW b \in Seq(Chars)
  PROVE  /\ a \o b \in Seq(Chars) /\ Len(a \o b) = Len(a) + Len(b)
         /\ \A i \in 1..(Len(a) + Len(b)) :
              (a \o b)[i] = IF i <= Len(a) THEN a[i] ELSE b[i - Len(a)]
BY ConcatProperties

\* Rubbing out the old line and printing another leaves the other.
LEMMA Shows ==
  ASSUME NEW t, NEW old \in Line, NEW line \in Line, t \in Shown(old, Len(old))
  PROVE  kprint(t, [i \in 1..Len(old) |-> Rub] \o line) \in Shown(line, Len(line))
<1> DEFINE n == Len(old)
           rubs == [i \in 1..n |-> Rub]
           s == rubs \o line
           Good == [i \in 0..(n + Len(line)) |-> IF i <= n THEN Shown(old, n - i) ELSE Shown(line, i - n)]
<1>1. /\ n \in Nat /\ line \in Seq(Printable) /\ Len(line) \in Nat /\ Len(line) <= MaxLine
      /\ \A i \in 1..Len(line) : line[i] \in Printable
  BY LineIs
<1>2. rubs \in Seq(Chars) /\ Len(rubs) = n /\ \A i \in 1..n : rubs[i] = Rub
  <2>0. Rub \in Chars
    BY Strings
  <2>1. rubs \in [1..n -> Chars]
    BY <2>0
  <2> QED BY <2>1, <1>1, SeqDef, LenProperties
<1>3. line \in Seq(Chars)
  BY <1>1, Strings, SeqMonotonic
<1> HIDE DEF rubs, n
<1>4. /\ s \in Seq(Chars) /\ Len(s) = n + Len(line)
      /\ \A i \in 1..(n + Len(line)) : s[i] = IF i <= n THEN rubs[i] ELSE line[i - n]
  <2>1. /\ rubs \o line \in Seq(Chars) /\ Len(rubs \o line) = Len(rubs) + Len(line)
        /\ \A i \in 1..(Len(rubs) + Len(line)) :
             (rubs \o line)[i] = IF i <= Len(rubs) THEN rubs[i] ELSE line[i - Len(rubs)]
    BY <1>2, <1>3, Joined
  <2> QED BY <2>1, <1>2
<1>5. \A i \in 0..(n + Len(line)) : Good[i] = IF i <= n THEN Shown(old, n - i) ELSE Shown(line, i - n)
  OBVIOUS
<1> HIDE DEF Good, s
<1>6. \A u : u \in Shown(old, 0) => u \in Shown(line, 0)
  BY DEF Shown
<1>7. t \in Good[0]
  <2>1. 0 \in 0..(n + Len(line)) /\ 0 <= n /\ n - 0 = n
    BY <1>1
  <2> QED BY <2>1, <1>5 DEF n
<1>8. \A i \in 1..Len(s) : \A u \in Good[i - 1] : terminal_putchar(u, s[i]) \in Good[i]
  <2> TAKE i \in 1..Len(s)
  <2> TAKE u \in Good[i - 1]
  <2>1. i \in 1..(n + Len(line)) /\ i \in 0..(n + Len(line)) /\ i - 1 \in 0..(n + Len(line))
    BY <1>1, <1>4
  <2>2. CASE i <= n
    <3>1. s[i] = Rub /\ i - 1 <= n /\ n - (i - 1) \in Nat \ {0} /\ n - (i - 1) - 1 = n - i
      BY <2>1, <2>2, <1>1, <1>2, <1>4
    <3>2. u \in Shown(old, n - (i - 1))
      BY <3>1, <2>1, <1>5
    <3>3. terminal_putchar(u, Rub) \in Shown(old, n - i)
      BY <3>1, <3>2, RubOne
    <3> QED BY <3>1, <3>3, <2>1, <2>2, <1>5
  <2>3. CASE ~(i <= n)
    <3>1. s[i] = line[i - n] /\ i - n \in 1..Len(line) /\ i - n \in 1..MaxLine /\ i - 1 - n = i - n - 1
      BY <2>1, <2>3, <1>1, <1>4, ConsoleOK
    <3>2. u \in Shown(line, i - n - 1)
      <4>1. CASE i - 1 <= n
        <5>1. i - 1 = n /\ n - (i - 1) = 0 /\ i - n - 1 = 0
          BY <4>1, <2>1, <2>3, <1>1
        <5> QED BY <5>1, <4>1, <2>1, <1>5, <1>6
      <4>2. CASE ~(i - 1 <= n)
        BY <4>2, <3>1, <2>1, <1>5
      <4> QED BY <4>1, <4>2
    <3>3. terminal_putchar(u, line[i - n]) \in Shown(line, i - n)
      BY <3>1, <3>2, <1>1, DrawOne
    <3> QED BY <3>1, <3>3, <2>1, <2>3, <1>5
  <2> QED BY <2>2, <2>3
<1>9. kprint(t, s) \in Good[Len(s)]
  BY <1>4, <1>7, <1>8, Printing
<1>10. Good[Len(s)] \subseteq Shown(line, Len(line))
  <2>1. Len(s) \in 0..(n + Len(line))
    BY <1>1, <1>4
  <2>2. CASE Len(s) <= n
    <3>1. Len(line) = 0 /\ n - Len(s) = 0
      BY <2>2, <1>1, <1>4
    <3> QED BY <3>1, <2>1, <2>2, <1>5, <1>6
  <2>3. CASE ~(Len(s) <= n)
    <3>1. Len(s) - n = Len(line)
      BY <1>1, <1>4
    <3> QED BY <3>1, <2>1, <2>3, <1>5
  <2> QED BY <2>2, <2>3
<1> QED BY <1>9, <1>10 DEF s, rubs, n

LEMMA ShowsQuiet ==
  ASSUME NEW t \in Quiet, NEW old \in Line, NEW line \in Line
  PROVE  kprint(t, [i \in 1..Len(old) |-> Rub] \o line) \in Quiet
<1> DEFINE n == Len(old)
           rubs == [i \in 1..n |-> Rub]
           s == rubs \o line
<1>1. n \in Nat /\ line \in Seq(Printable) /\ Len(line) \in Nat /\ \A i \in 1..Len(line) : line[i] \in Printable
  BY LineIs
<1>2. rubs \in Seq(Chars) /\ Len(rubs) = n /\ \A i \in 1..n : rubs[i] = Rub
  <2>0. Rub \in Chars
    BY Strings
  <2>1. rubs \in [1..n -> Chars]
    BY <2>0
  <2> QED BY <2>1, <1>1, SeqDef, LenProperties
<1>3. line \in Seq(Chars)
  BY <1>1, Strings, SeqMonotonic
<1> HIDE DEF rubs, n
<1>4. /\ s \in Seq(Chars) /\ Len(s) = n + Len(line)
      /\ \A i \in 1..(n + Len(line)) : s[i] = IF i <= n THEN rubs[i] ELSE line[i - n]
  <2>1. /\ rubs \o line \in Seq(Chars) /\ Len(rubs \o line) = Len(rubs) + Len(line)
        /\ \A i \in 1..(Len(rubs) + Len(line)) :
             (rubs \o line)[i] = IF i <= Len(rubs) THEN rubs[i] ELSE line[i - Len(rubs)]
    BY <1>2, <1>3, Joined
  <2> QED BY <2>1, <1>2
<1> HIDE DEF s
<1>5. ASSUME NEW i \in 1..Len(s) PROVE s[i] # Esc
  <2>1. i \in 1..(n + Len(line))
    BY <1>4
  <2>2. CASE i <= n
    <3>1. i \in 1..n
      BY <2>1, <2>2, <1>1
    <3> QED BY <3>1, <2>1, <2>2, <1>2, <1>4, Strings
  <2>3. CASE ~(i <= n)
    <3> DEFINE j == i - n
    <3>1. j \in 1..Len(line) /\ s[i] = line[j]
      BY <2>1, <2>3, <1>1, <1>4
    <3> HIDE DEF j
    <3>2. s[i] \in Printable
      BY <3>1, <1>1
    <3> QED BY <3>2, Strings
  <2> QED BY <2>2, <2>3
<1> QED BY <1>4, <1>5, QuietPrints DEF s, rubs, n

-----------------------------------------------------------------------------
(***************************************************************************)
(* The invariant: as long as the shell edits a line, the parser is at rest *)
(* and the line ends at the cursor, if the prompt is on the screen.        *)
(***************************************************************************)
Held(line, t, on) == t \in Quiet /\ (on => t \in Shown(line, Len(line)))

IInv ==
  /\ TypeOK
  /\ ring \in Seq(Typed) /\ history \in Seq(Line)
  /\ pc # "command" => Held(cmd, term, placed)

LEMMA ShownIsOnScreen ==
  ASSUME IInv
  PROVE  LineOnScreen
<1>1. pc # "command" /\ placed => term \in Shown(cmd, Len(cmd))
  BY DEF IInv, Held
<1>2. \A u \in Shown(cmd, Len(cmd)) : u.row < Height /\ u.col < Width
  BY DEF Shown, OnTerm
<1> QED BY <1>1, <1>2 DEF Shown, LineOnScreen

\* What TypeOK says, in the words of the proof.
TypeInv ==
  /\ ring \in Seq(Typed) /\ Len(ring) < Ring
  /\ term \in Term
  /\ pc \in {"line", "escape", "arrow", "command"}
  /\ cmd \in Line
  /\ history \in Seq(Line) /\ Len(history) <= MaxHistory
  /\ index \in -1..(Len(history) - 1)
  /\ placed \in BOOLEAN

LEMMA TypeInvIs == TypeInv <=> TypeOK /\ ring \in Seq(Typed) /\ history \in Seq(Line)
<1>1. \A S : \A s \in Seq(S) : ToSet(s) \subseteq S
  <2> TAKE S
  <2> TAKE s \in Seq(S)
  <2>1. DOMAIN s = 1..Len(s) /\ \A i \in 1..Len(s) : s[i] \in S
    OBVIOUS
  <2> QED BY <2>1 DEF ToSet
<1>2. ASSUME TypeInv PROVE TypeOK /\ ring \in Seq(Typed) /\ history \in Seq(Line)
  <2>1. ToSet(ring) \subseteq Typed /\ ToSet(history) \subseteq Line
    BY <1>1, <1>2 DEF TypeInv
  <2> QED BY <2>1, <1>2 DEF TypeInv, TypeOK, Typed
<1>3. ASSUME TypeOK, ring \in Seq(Typed), history \in Seq(Line) PROVE TypeInv
  BY <1>3 DEF TypeInv, TypeOK
<1> QED BY <1>2, <1>3

\* Reading a character leaves the others.
LEMMA ReadsOne ==
  ASSUME TypeInv, NEW c, Reads(c)
  PROVE  c \in Typed /\ ring' \in Seq(Typed) /\ Len(ring') < Ring
<1>1. ring \in Seq(Typed) /\ Len(ring) < Ring /\ ring # <<>> /\ c = Head(ring) /\ ring' = Tail(ring)
  BY DEF TypeInv, Reads
<1>2. c \in Typed /\ ring' \in Seq(Typed) /\ Len(ring') = Len(ring) - 1 /\ Len(ring) \in Nat
  BY <1>1, HeadTailProperties
<1>3. Ring \in Nat
  BY ConsoleOK
<1> QED BY <1>1, <1>2, <1>3

LEMMA EmptyLine == <<>> \in Line /\ Len(<<>>) = 0
<1>1. <<>> \in Seq(Printable) /\ Len(<<>>) = 0
  OBVIOUS
<1>2. 0 <= MaxLine
  BY ConsoleOK
<1> QED BY <1>1, <1>2, LineIs

LEMMA PushedType ==
  ASSUME TypeInv, NEW chars \in Keys
  PROVE  Pushed(ring, chars) \in Seq(Typed) /\ Len(Pushed(ring, chars)) < Ring
<1> DEFINE room == Ring - 1 - Len(ring)
           m == IF room < Len(chars) THEN room ELSE Len(chars)
           fit == SubSeq(chars, 1, m)
<1>1. ring \in Seq(Typed) /\ Len(ring) \in Nat /\ Len(ring) < Ring /\ Ring \in Nat
  BY ConsoleOK DEF TypeInv
<1>2. chars \in Seq(Typed)
  <2>1. Letters \cup Special \subseteq Typed /\ Esc \in Typed /\ Bracket \in Typed /\ Arrows \subseteq Typed
    BY Strings DEF Typed, Printable
  <2>2. \/ \E c \in Letters \cup Special : chars = <<c>>
        \/ \E a \in Arrows : chars = <<Esc, Bracket, a>>
    BY ConsoleOK
  <2>3. \A c \in Typed : <<c>> \in Seq(Typed)
    OBVIOUS
  <2>4. \A c, d, e \in Typed : <<c, d, e>> \in Seq(Typed)
    OBVIOUS
  <2>5. CASE \E c \in Letters \cup Special : chars = <<c>>
    BY <2>1, <2>3, <2>5
  <2>6. CASE \E a \in Arrows : chars = <<Esc, Bracket, a>>
    BY <2>1, <2>4, <2>6
  <2> QED BY <2>2, <2>5, <2>6
<1>3. Len(chars) \in Nat /\ m \in 0..Len(chars) /\ m <= room
  BY <1>1, <1>2
<1>4. fit \in Seq(Typed) /\ Len(fit) = m
  <2>1. \A i \in 1..m : i \in 1..Len(chars) /\ chars[i] \in Typed
    BY <1>2, <1>3
  <2> HIDE DEF m
  <2> QED BY <2>1, <1>2, <1>3, SubSeqProperties
<1>5. Pushed(ring, chars) = ring \o fit
  BY DEF Pushed
<1> HIDE DEF fit, m
<1>6. ring \o fit \in Seq(Typed) /\ Len(ring \o fit) = Len(ring) + Len(fit)
  BY <1>1, <1>4, ConcatProperties
<1> QED BY <1>1, <1>3, <1>4, <1>5, <1>6

-----------------------------------------------------------------------------
(***************************************************************************)
(* Every step keeps the invariant.                                         *)
(***************************************************************************)
Inv == TypeInv /\ (pc # "command" => Held(cmd, term, placed))

LEMMA InvIs == Inv <=> IInv
BY TypeInvIs DEF Inv, IInv

LEMMA SameStart ==
  ASSUME NEW a, NEW b, NEW n \in Nat, \A i \in 1..n : a[i] = b[i], NEW t \in Shown(a, n)
  PROVE  t \in Shown(b, n)
BY DEF Shown

LEMMA InitInv == Init => Inv
<1> SUFFICES ASSUME Init PROVE Inv
  OBVIOUS
<1>1. PICK r \in 0..(Height - 1) : term = kprint([Cleared EXCEPT !.row = r], Prompt)
  BY DEF Init
<1> DEFINE t == [Cleared EXCEPT !.row = r]
<1>2. t \in Term /\ t.row < Height
  <2>1. Cleared \in Term
    BY Strings, Parsers, Sizes DEF Cleared, Term, Bytes
  <2>2. r \in 0..(Byte - 1) /\ r < Height
    BY Sizes DEF Bytes
  <2> QED BY <2>1, <2>2 DEF Term
<1> HIDE DEF t
<1>3. term \in Quiet /\ term \in Shown(<<>>, 0)
  BY <1>1, <1>2, Prompted DEF t
<1>4. /\ ring = <<>> /\ pc = "line" /\ cmd = <<>> /\ history = <<>> /\ index = -1
      /\ placed \in BOOLEAN
  BY DEF Init
<1>5. /\ <<>> \in Seq(Typed) /\ <<>> \in Seq(Line) /\ Len(<<>>) = 0 /\ -1 \in -1..(0 - 1)
      /\ 0 < Ring /\ 0 <= MaxHistory
  BY ConsoleOK
<1>6. term \in Term
  BY <1>3 DEF Quiet
<1> QED BY <1>3, <1>4, <1>5, <1>6, EmptyLine DEF Inv, TypeInv, Held

LEMMA LetterInv == Inv /\ Letter => Inv'
<1> SUFFICES ASSUME Inv, Letter PROVE Inv'
  OBVIOUS
<1>1. PICK c \in Printable \cup {Tab} :
        /\ Reads(c)
        /\ IF c # Tab /\ Len(cmd) < MaxLine
             THEN cmd' = Append(cmd, c) /\ term' = kprint(term, <<c>>)
             ELSE UNCHANGED <<cmd, term>>
  BY DEF Letter
<1>2. pc = "line" /\ UNCHANGED <<pc, history, index, placed>>
  BY DEF Letter
<1>3. TypeInv /\ Held(cmd, term, placed)
  BY <1>2 DEF Inv
<1>4. ring' \in Seq(Typed) /\ Len(ring') < Ring
  BY <1>1, <1>3, ReadsOne
<1>5. cmd \in Seq(Printable) /\ Len(cmd) \in Nat /\ Len(cmd) <= MaxLine /\ MaxLine \in Nat
  BY <1>3, LineIs, ConsoleOK DEF TypeInv
<1>6. cmd' \in Line /\ Held(cmd', term', placed)
  <2>1. CASE c # Tab /\ Len(cmd) < MaxLine
    <3> DEFINE line == Append(cmd, c)
    <3>0. c \in Printable /\ c \in Chars /\ c # Esc
      BY <2>1, Strings
    <3>1. /\ line \in Seq(Printable) /\ Len(line) = Len(cmd) + 1 /\ line[Len(line)] = c
          /\ \A i \in 1..Len(cmd) : line[i] = cmd[i]
      BY <3>0, <1>5
    <3>2. cmd' = line /\ term' = terminal_putchar(term, c)
      BY <2>1, <1>1, <3>0, KprintOne
    <3> HIDE DEF line
    <3>3. Len(line) \in 1..MaxLine /\ Len(line) - 1 = Len(cmd)
      BY <3>1, <2>1, <1>5
    <3>4. ASSUME placed PROVE terminal_putchar(term, c) \in Shown(line, Len(line))
      <4>1. term \in Shown(cmd, Len(cmd))
        BY <3>4, <1>3 DEF Held
      <4>2. term \in Shown(line, Len(cmd))
        BY <4>1, <3>1, <1>5, SameStart
      <4> QED BY <4>2, <3>0, <3>1, <3>3, DrawOne
    <3>5. terminal_putchar(term, c) \in Quiet
      BY <3>0, <1>3, QuietPuts DEF Held
    <3>6. line \in Line
      BY <3>1, <3>3, LineIs
    <3> QED BY <3>2, <3>4, <3>5, <3>6 DEF Held
  <2>2. CASE ~(c # Tab /\ Len(cmd) < MaxLine)
    BY <2>2, <1>1, <1>3 DEF TypeInv
  <2> QED BY <2>1, <2>2
<1>7. term' \in Term
  BY <1>6 DEF Held, Quiet
<1> QED BY <1>2, <1>3, <1>4, <1>6, <1>7 DEF Inv, TypeInv

LEMMA FrontIs ==
  ASSUME NEW s \in Seq(Printable), Len(s) > 0
  PROVE  /\ Front(s) \in Seq(Printable) /\ Len(Front(s)) = Len(s) - 1
         /\ \A i \in 1..Len(Front(s)) : s[i] = Front(s)[i]
<1> DEFINE k == Len(s) - 1
<1>1. k \in Nat /\ \A i \in 1..k : s[i] \in Printable
  OBVIOUS
<1> HIDE DEF k
<1>2. /\ SubSeq(s, 1, k) \in Seq(Printable)
      /\ Len(SubSeq(s, 1, k)) = IF 1 <= k THEN k - 1 + 1 ELSE 0
      /\ \A i \in 1..(k - 1 + 1) : SubSeq(s, 1, k)[i] = s[1 + i - 1]
  BY <1>1, SubSeqProperties
<1>3. /\ SubSeq(s, 1, k) \in Seq(Printable) /\ Len(SubSeq(s, 1, k)) = k
      /\ \A i \in 1..k : SubSeq(s, 1, k)[i] = s[i]
  BY <1>1, <1>2
<1> QED BY <1>3 DEF Front, k

LEMMA BackspaceInv == Inv /\ Backspace => Inv'
<1> SUFFICES ASSUME Inv, Backspace PROVE Inv'
  OBVIOUS
<1>1. /\ Reads(Rub)
      /\ IF cmd # <<>> THEN cmd' = Front(cmd) /\ term' = kprint(term, <<Rub>>)
                       ELSE UNCHANGED <<cmd, term>>
      /\ pc = "line" /\ UNCHANGED <<pc, history, index, placed>>
  BY DEF Backspace
<1>3. TypeInv /\ Held(cmd, term, placed)
  BY <1>1 DEF Inv
<1>4. ring' \in Seq(Typed) /\ Len(ring') < Ring
  BY <1>1, <1>3, ReadsOne
<1>5. cmd \in Seq(Printable) /\ Len(cmd) \in Nat /\ Len(cmd) <= MaxLine /\ MaxLine \in Nat
  BY <1>3, LineIs, ConsoleOK DEF TypeInv
<1>6. cmd' \in Line /\ Held(cmd', term', placed)
  <2>1. CASE cmd # <<>>
    <3> DEFINE line == Front(cmd)
    <3>0. Len(cmd) > 0
      BY <2>1, <1>5
    <3>1. /\ line \in Seq(Printable) /\ Len(line) = Len(cmd) - 1
          /\ \A i \in 1..Len(line) : cmd[i] = line[i]
      BY <3>0, <1>5, FrontIs
    <3>a. Rub \in Chars /\ Rub # Esc
      BY Strings
    <3>2. cmd' = line /\ term' = terminal_putchar(term, Rub)
      BY <2>1, <1>1, <3>a, KprintOne
    <3> HIDE DEF line
    <3>3. ASSUME placed PROVE terminal_putchar(term, Rub) \in Shown(line, Len(line))
      <4>1. term \in Shown(cmd, Len(cmd))
        BY <3>3, <1>3 DEF Held
      <4>2. terminal_putchar(term, Rub) \in Shown(cmd, Len(cmd) - 1)
        BY <4>1, <3>0, <1>5, RubOne
      <4>3. Len(line) \in Nat /\ terminal_putchar(term, Rub) \in Shown(cmd, Len(line))
        BY <3>0, <3>1, <4>2, <1>5
      <4> QED BY <3>1, <4>3, SameStart
    <3>4. terminal_putchar(term, Rub) \in Quiet
      BY <3>a, <1>3, QuietPuts DEF Held
    <3>5. line \in Line
      BY <3>1, <1>5, LineIs
    <3> QED BY <3>2, <3>3, <3>4, <3>5 DEF Held
  <2>2. CASE cmd = <<>>
    BY <2>2, <1>1, <1>3 DEF TypeInv
  <2> QED BY <2>1, <2>2
<1>7. term' \in Term
  BY <1>6 DEF Held, Quiet
<1> QED BY <1>1, <1>3, <1>4, <1>6, <1>7 DEF Inv, TypeInv

LEMMA EscapeInv == Inv /\ (Escape \/ Introducer \/ Woken) => Inv'
<1> SUFFICES ASSUME Inv, Escape \/ Introducer \/ Woken PROVE Inv'
  OBVIOUS
<1>1. /\ pc \in {"line", "escape", "arrow"} /\ pc' \in {"line", "escape", "arrow"}
      /\ ring' = ring \/ \E c : Reads(c)
      /\ UNCHANGED <<term, cmd, history, index, placed>>
  BY DEF Escape, Introducer, Woken
<1>2. TypeInv /\ Held(cmd, term, placed)
  BY <1>1 DEF Inv
<1>3. ring' \in Seq(Typed) /\ Len(ring') < Ring
  BY <1>1, <1>2, ReadsOne DEF TypeInv
<1> QED BY <1>1, <1>2, <1>3 DEF Inv, TypeInv

LEMMA RecalledType ==
  ASSUME TypeInv, NEW i \in 0..(Len(history) - 1)
  PROVE  Recalled(i) \in Line
<1>1. history \in Seq(Line) /\ Len(history) \in Nat
  BY DEF TypeInv
<1>2. Len(history) - i \in 1..Len(history)
  BY <1>1
<1> QED BY <1>1, <1>2 DEF Recalled

LEMMA ArrowInv == Inv /\ Arrow => Inv'
<1> SUFFICES ASSUME Inv, Arrow PROVE Inv'
  OBVIOUS
<1>1. pc = "arrow" /\ pc' = "line" /\ history' = history /\ placed' = placed
  BY DEF Arrow
<1>2. PICK c \in Printable \cup Special :
        /\ Reads(c)
        /\ \/ /\ c = Up /\ index < Len(history) - 1
              /\ index' = index + 1
              /\ Show(Recalled(index + 1))
           \/ /\ c = Down /\ index > -1
              /\ index' = index - 1
              /\ Show(IF index = 0 THEN <<>> ELSE Recalled(index - 1))
           \/ UNCHANGED <<cmd, term, index>>
  BY DEF Arrow
<1>3. TypeInv /\ Held(cmd, term, placed)
  BY <1>1 DEF Inv
<1>4. ring' \in Seq(Typed) /\ Len(ring') < Ring
  BY <1>2, <1>3, ReadsOne
<1>5. index \in -1..(Len(history) - 1) /\ Len(history) \in Nat /\ cmd \in Line
  BY <1>3 DEF TypeInv
<1>6. ASSUME NEW line \in Line, Show(line)
      PROVE  cmd' \in Line /\ Held(cmd', term', placed)
  <2>1. cmd' = line /\ term' = kprint(term, [i \in 1..Len(cmd) |-> Rub] \o line)
    BY <1>6 DEF Show, Rubs
  <2>2. kprint(term, [i \in 1..Len(cmd) |-> Rub] \o line) \in Quiet
    BY <1>3, <1>5, ShowsQuiet DEF Held
  <2>3. ASSUME placed
        PROVE  kprint(term, [i \in 1..Len(cmd) |-> Rub] \o line) \in Shown(line, Len(line))
    <3>1. term \in Shown(cmd, Len(cmd))
      BY <2>3, <1>3 DEF Held
    <3> QED BY <3>1, <1>5, Shows
  <2> QED BY <2>1, <2>2, <2>3 DEF Held
<1>7. cmd' \in Line /\ Held(cmd', term', placed) /\ index' \in -1..(Len(history) - 1)
  <2>1. CASE c = Up /\ index < Len(history) - 1 /\ index' = index + 1 /\ Show(Recalled(index + 1))
    <3>1. index + 1 \in 0..(Len(history) - 1) /\ index + 1 \in -1..(Len(history) - 1)
      BY <2>1, <1>5
    <3>2. Recalled(index + 1) \in Line
      BY <3>1, <1>3, RecalledType
    <3> QED BY <3>1, <3>2, <2>1, <1>6
  <2>2. CASE /\ c = Down /\ index > -1 /\ index' = index - 1
             /\ Show(IF index = 0 THEN <<>> ELSE Recalled(index - 1))
    <3>1. index - 1 \in -1..(Len(history) - 1) /\ (index # 0 => index - 1 \in 0..(Len(history) - 1))
      BY <2>2, <1>5
    <3>2. (IF index = 0 THEN <<>> ELSE Recalled(index - 1)) \in Line
      BY <3>1, <1>3, RecalledType, EmptyLine
    <3> QED BY <3>1, <3>2, <2>2, <1>6
  <2>3. CASE UNCHANGED <<cmd, term, index>>
    BY <2>3, <1>3, <1>5
  <2> QED BY <2>1, <2>2, <2>3, <1>2
<1>8. term' \in Term
  BY <1>7 DEF Held, Quiet
<1> QED BY <1>1, <1>3, <1>4, <1>7, <1>8 DEF Inv, TypeInv

\* The oldest line makes room.
LEMMA AddedType ==
  ASSUME TypeInv, NEW line \in Line
  PROVE  Added(line) \in Seq(Line) /\ Len(Added(line)) <= MaxHistory
<1>1. history \in Seq(Line) /\ Len(history) <= MaxHistory /\ Len(history) \in Nat /\ MaxHistory \in Nat \ {0}
  BY ConsoleOK DEF TypeInv
<1>2. CASE line = <<>> \/ (history # <<>> /\ line = Last(history))
  BY <1>1, <1>2 DEF Added
<1>3. CASE ~(line = <<>> \/ (history # <<>> /\ line = Last(history))) /\ Len(history) < MaxHistory
  <2>1. Added(line) = Append(history, line)
    BY <1>3 DEF Added
  <2> QED BY <2>1, <1>1, <1>3
<1>4. CASE ~(line = <<>> \/ (history # <<>> /\ line = Last(history))) /\ ~(Len(history) < MaxHistory)
  <2>1. Added(line) = Append(Tail(history), line)
    BY <1>4 DEF Added
  <2>2. Tail(history) \in Seq(Line) /\ Len(Tail(history)) = Len(history) - 1
    <3>1. history # <<>>
      BY <1>1, <1>4
    <3> QED BY <3>1, <1>1, HeadTailProperties
  <2> QED BY <2>1, <2>2, <1>1
<1> QED BY <1>2, <1>3, <1>4

LEMMA EnterInv == Inv /\ Enter => Inv'
<1> SUFFICES ASSUME Inv, Enter PROVE Inv'
  OBVIOUS
<1>1. /\ pc = "line" /\ \E c : Reads(c)
      /\ IF RunsNothing(cmd)
           THEN /\ term' = kprint(term, <<Newline>> \o Prompt)
                /\ placed' = TRUE
                /\ history' = Added(cmd)
                /\ cmd' = <<>>
                /\ index' = -1
                /\ UNCHANGED pc
           ELSE /\ term' = kprint(term, <<Newline>>)
                /\ pc' = "command"
                /\ UNCHANGED <<cmd, history, index, placed>>
  BY DEF Enter
<1>2. TypeInv /\ term \in Quiet /\ term \in Term /\ cmd \in Line
  BY <1>1 DEF Inv, TypeInv, Held
<1>3. ring' \in Seq(Typed) /\ Len(ring') < Ring
  BY <1>1, <1>2, ReadsOne
<1>4. CASE RunsNothing(cmd)
  <2>1. /\ term' = kprint(term, <<Newline>> \o Prompt) /\ placed' = TRUE /\ history' = Added(cmd)
        /\ cmd' = <<>> /\ index' = -1 /\ pc' = pc
    BY <1>1, <1>4
  <2>2. term' \in Shown(<<>>, 0)
    BY <2>1, <1>2, NewPrompt
  <2>3. term' \in Quiet /\ term' \in Term
    <3>1. \A u \in Shown(<<>>, 0) : u \in Quiet /\ u \in Term
      BY DEF Shown, OnTerm, Quiet
    <3> QED BY <3>1, <2>2
  <2>4. Added(cmd) \in Seq(Line) /\ Len(Added(cmd)) <= MaxHistory
    BY <1>2, AddedType
  <2>5. -1 \in -1..(Len(Added(cmd)) - 1)
    <3>1. Len(Added(cmd)) \in Nat
      BY <2>4
    <3> QED BY <3>1
  <2> QED BY <2>1, <2>2, <2>3, <2>4, <2>5, <1>1, <1>3, EmptyLine DEF Inv, TypeInv, Held
<1>5. CASE ~RunsNothing(cmd)
  <2>1. term' = kprint(term, <<Newline>>) /\ pc' = "command" /\ UNCHANGED <<cmd, history, index, placed>>
    BY <1>1, <1>5
  <2>2. <<Newline>> \in Seq(Chars)
    <3>1. Newline \in Chars
      BY Strings
    <3> QED BY <3>1
  <2>3. term' \in Term
    BY <2>1, <2>2, <1>2, KprintType
  <2> QED BY <2>1, <2>3, <1>2, <1>3 DEF Inv, TypeInv
<1> QED BY <1>4, <1>5

LEMMA FinishInv == ASSUME NEW output \in Outputs PROVE Inv /\ Finish(output) => Inv'
<1> SUFFICES ASSUME Inv, Finish(output) PROVE Inv'
  OBVIOUS
<1> DEFINE printed == kprint(term, output)
<1>1. /\ pc' = "line" /\ ring' \in {<<>>, ring} /\ cmd' = <<>> /\ index' = -1
      /\ history' = Added(cmd) /\ term' = kprint(printed, Prompt) /\ placed' = (printed.row < Height)
  BY DEF Finish
<1>2. TypeInv /\ term \in Term /\ cmd \in Line
  BY DEF Inv, TypeInv
<1>3. output \in Seq(Chars)
  BY ConsoleOK
<1>4. printed \in Term
  BY <1>2, <1>3, KprintType
<1> HIDE DEF printed
<1>5. term' \in Quiet /\ (placed' => term' \in Shown(<<>>, 0)) /\ placed' \in BOOLEAN
  <2>1. placed' <=> printed.row < Height
    BY <1>1
  <2>2. placed' \in BOOLEAN
    <3> DEFINE low == printed.row < Height
    <3>1. low \in BOOLEAN
      BY SMT
    <3>2. placed' = low
      BY <1>1, Zenon
    <3> HIDE DEF low
    <3> QED BY <3>1, <3>2, Zenon
  <2> QED BY <2>1, <2>2, <1>1, <1>4, Prompted
<1>6. term' \in Term
  BY <1>5 DEF Quiet
<1>7. Added(cmd) \in Seq(Line) /\ Len(Added(cmd)) <= MaxHistory
  BY <1>2, AddedType
<1>8. -1 \in -1..(Len(Added(cmd)) - 1)
  <2>1. Len(Added(cmd)) \in Nat
    BY <1>7
  <2> QED BY <2>1
<1>9. ring' \in Seq(Typed) /\ Len(ring') < Ring
  <2>1. <<>> \in Seq(Typed) /\ Len(<<>>) < Ring
    BY ConsoleOK
  <2>2. ring \in Seq(Typed) /\ Len(ring) < Ring
    BY <1>2 DEF TypeInv
  <2> QED BY <2>1, <2>2, <1>1
<1> QED BY <1>1, <1>5, <1>6, <1>7, <1>8, <1>9, EmptyLine DEF Inv, TypeInv, Held

LEMMA KeyInv == ASSUME NEW chars \in Keys PROVE Inv /\ keyboard_handler(chars) => Inv'
<1> SUFFICES ASSUME Inv, keyboard_handler(chars) PROVE Inv'
  OBVIOUS
<1>1. ring' = Pushed(ring, chars) /\ UNCHANGED <<term, pc, cmd, history, index, placed>>
  BY DEF keyboard_handler
<1>2. Pushed(ring, chars) \in Seq(Typed) /\ Len(Pushed(ring, chars)) < Ring
  BY PushedType DEF Inv
<1> QED BY <1>1, <1>2 DEF Inv, TypeInv, Held

LEMMA NextInv == Inv /\ [Next]_vars => Inv'
<1> SUFFICES ASSUME Inv, [Next]_vars PROVE Inv'
  OBVIOUS
<1>1. CASE Letter
  BY <1>1, LetterInv
<1>2. CASE Backspace
  BY <1>2, BackspaceInv
<1>3. CASE Escape \/ Introducer \/ Woken
  BY <1>3, EscapeInv
<1>4. CASE Arrow
  BY <1>4, ArrowInv
<1>5. CASE Enter
  BY <1>5, EnterInv
<1>6. CASE \E output \in Outputs : Finish(output)
  BY <1>6, FinishInv
<1>7. CASE \E chars \in Keys : keyboard_handler(chars)
  BY <1>7, KeyInv
<1>8. CASE UNCHANGED vars
  BY <1>8 DEF vars, Inv, TypeInv, Held
<1> QED BY <1>1, <1>2, <1>3, <1>4, <1>5, <1>6, <1>7, <1>8 DEF Next, Shell

-----------------------------------------------------------------------------
(***************************************************************************)
(* The theorems.                                                           *)
(***************************************************************************)
\* Everything the invariant says holds of every state of the console.
THEOREM ConsoleInvariant == Spec => []IInv
<1>1. Init => IInv
  BY InitInv, InvIs
<1>2. IInv /\ [Next]_vars => IInv'
  <2>1. Inv' <=> IInv'
    BY InvIs, PTL
  <2> QED BY <2>1, InvIs, NextInv
<1> QED BY <1>1, <1>2, PTL DEF Spec

\* The ring never fills to its last place, the line fits its buffer, the history
\* its table, and a recalled line is one of the history's, whatever is typed and
\* printed. (keyboard.c:51-58, shell.c:90-177)
THEOREM ConsoleTypes == Spec => []TypeOK
<1>1. IInv => TypeOK
  BY DEF IInv
<1> QED BY <1>1, ConsoleInvariant, PTL

\* The cursor is on the screen and the characters before it are those of the
\* line that will be executed, unless the last command left the cursor on a row
\* beyond the screen. (shell.c:117-177, terminal.c:77-87, 119-212)
THEOREM LineStaysOnScreen == Spec => []LineOnScreen
<1>1. IInv => LineOnScreen
  BY ShownIsOnScreen
<1> QED BY <1>1, ConsoleInvariant, PTL
=============================================================================
