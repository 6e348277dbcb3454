--------------------------- MODULE TerminalProofs ---------------------------
(***************************************************************************)
(* The invariants of the console, for every size of the screen, every      *)
(* length of the shell's line, every prompt and whatever commands put:     *)
(* types and the key that is heard first, then the arithmetic of the       *)
(* cursor, what stands before it, and what stands behind it.               *)
(***************************************************************************)
EXTENDS Terminal, NatLemmas, SequenceTheorems

Cursors == 0 .. 255 * (RESOLUTION_WIDTH + 1)

IsDisplay(d) ==
    /\ d = [screen |-> d.screen, cursor |-> d.cursor]
    /\ d.cursor \in Cursors

LEMMA Width == RESOLUTION_WIDTH \in Nat /\ RESOLUTION_WIDTH >= 1
  BY TerminalAssumption DEF TerminalAssumption

\* The uint8_t parameters of framebuffer_set_cursor keep the cursor in the range
\* of the ports, on the screen or past its end, whatever row is asked for.
LEMMA SetCursorOK ==
    ASSUME NEW r \in Int, NEW c \in Int
    PROVE  SetCursor(r, c) \in Cursors
  <1>1. uint8(r) \in 0 .. 255 /\ uint8(c) \in 0 .. 255
    BY DEF uint8
  <1>2. \A i \in 0 .. 255 : /\ i * RESOLUTION_WIDTH \in Nat
                            /\ i * RESOLUTION_WIDTH <= 255 * RESOLUTION_WIDTH
    BY Width
  <1>3. uint8(r) * RESOLUTION_WIDTH \in 0 .. 255 * RESOLUTION_WIDTH
    BY <1>1, <1>2, Width
  <1> QED
    BY <1>1, <1>3, Width DEF SetCursor, Cursors

LEMMA RowColInt ==
    ASSUME NEW position \in Nat
    PROVE  RowOf(position) \in Nat /\ ColOf(position) \in Int
  <1>1. position \div RESOLUTION_WIDTH \in Nat
    BY Width
  <1>2. RowOf(position) \in Nat
    BY <1>1 DEF RowOf, uint8
  <1>3. RowOf(position) * RESOLUTION_WIDTH \in Nat
    BY <1>2, Width
  <1> QED
    BY <1>2, <1>3 DEF ColOf, uint8

LEMMA PutCharOK ==
    ASSUME NEW d, IsDisplay(d), NEW c
    PROVE  IsDisplay(PutChar(d, c))
  <1>1. d.cursor \in Nat
    BY Width DEF IsDisplay, Cursors
  <1>2. RowOf(d.cursor) \in Nat /\ ColOf(d.cursor) \in Int
    BY <1>1, RowColInt
  <1>3. IsDisplay(PutNewline(d))
    <2>1. SetCursor(RowOf(d.cursor) + 1, 0) \in Cursors
      BY <1>2, SetCursorOK
    <2>2. PutNewline(d) = [screen |-> d.screen,
                           cursor |-> SetCursor(RowOf(d.cursor) + 1, 0)]
      BY DEF PutNewline, IsDisplay
    <2> QED
      BY <2>1, <2>2 DEF IsDisplay
  <1>4. IsDisplay(PutBackspace(d))
    <2> DEFINE position == uint16(d.cursor - 1)
    <2>1. position \in Nat
      BY <1>1 DEF uint16
    <2>2. RowOf(position) \in Int /\ ColOf(position) \in Int
      BY <2>1, RowColInt
    <2>3. SetCursor(RowOf(position), ColOf(position)) \in Cursors
      BY <2>2, SetCursorOK
    <2> QED
      BY <2>3 DEF PutBackspace, IsDisplay
  <1>5. IsDisplay(PutPrintable(d, c))
    <2>1. SetCursor(RowOf(d.cursor), ColOf(d.cursor) + 1) \in Cursors
      BY <1>2, SetCursorOK
    <2>2. SetCursor(0, 1) \in Cursors
      BY SetCursorOK
    <2> QED
      BY <2>1, <2>2 DEF PutPrintable, IsDisplay
  <1> QED
    BY <1>3, <1>4, <1>5 DEF PutChar

-----------------------------------------------------------------------------
\* puts, whose loop the least character that would fail stands in for.
ShownBody(shown, string, i) ==
    IF i = 0 THEN Display ELSE PutChar(shown[i - 1], string[i])

LEMMA ShownExists ==
    ASSUME NEW string
    PROVE  \A n \in Nat : \E g : g = [i \in 0 .. n |-> ShownBody(g, string, i)]
  <1> DEFINE T == {n \in Nat : ~\E g : g = [i \in 0 .. n |-> ShownBody(g, string, i)]}
  <1> SUFFICES ASSUME T # {} PROVE FALSE
    OBVIOUS
  <1>1. PICK n \in T : \A m \in T : n <= m
    <2>1. T \subseteq Nat
      OBVIOUS
    <2> HIDE DEF T
    <2> QED
      BY <2>1, LeastNat
  <1>2. n \in Nat /\ ~\E g : g = [i \in 0 .. n |-> ShownBody(g, string, i)]
    OBVIOUS
  <1>3. CASE n = 0
    <2> DEFINE g == [i \in 0 .. 0 |-> Display]
    <2>1. g = [i \in 0 .. 0 |-> ShownBody(g, string, i)]
      BY DEF ShownBody
    <2> QED
      BY <1>2, <1>3, <2>1
  <1>4. CASE n # 0
    <2>1. n - 1 \in Nat /\ ~(n <= n - 1)
      BY <1>2, <1>4
    <2>2. PICK g : g = [i \in 0 .. n - 1 |-> ShownBody(g, string, i)]
      BY <1>1, <2>1
    <2> DEFINE h == [i \in 0 .. n |-> IF i = n THEN ShownBody(g, string, n) ELSE g[i]]
    <2>3. \A i \in 0 .. n : i # 0 => i - 1 \in 0 .. n - 1
      BY <1>2
    <2>4. \A i \in 0 .. n - 1 : h[i] = g[i]
      BY <1>2
    <2>5. \A i \in 0 .. n : ShownBody(h, string, i) = ShownBody(g, string, i)
      <3> HIDE DEF h
      <3> QED
        BY <2>3, <2>4 DEF ShownBody
    <2>6. \A i \in 0 .. n : i # n => i \in 0 .. n - 1
      BY <1>2
    <2>7. \A i \in 0 .. n - 1 : g[i] = ShownBody(g, string, i)
      BY <2>2
    <2>8. \A i \in 0 .. n : h[i] = ShownBody(h, string, i)
      BY <2>5, <2>6, <2>7
    <2>9. h = [i \in 0 .. n |-> ShownBody(h, string, i)]
      BY <2>8
    <2> QED
      BY <1>2, <2>9
  <1> QED
    BY <1>3, <1>4

LEMMA ShownUnfolds ==
    ASSUME NEW string, Len(string) \in Nat
    PROVE  Shown(string) = [i \in 0 .. Len(string) |-> ShownBody(Shown(string), string, i)]
  <1>1. PICK g : g = [i \in 0 .. Len(string) |-> ShownBody(g, string, i)]
    BY ShownExists
  <1>2. Shown(string) = CHOOSE h : h = [i \in 0 .. Len(string) |-> ShownBody(h, string, i)]
    BY DEF Shown, ShownBody
  <1> QED
    BY <1>1, <1>2

LEMMA ShownOK ==
    ASSUME NEW string, Len(string) \in Nat, cursor \in Cursors
    PROVE  \A i \in 0 .. Len(string) : IsDisplay(Shown(string)[i])
  <1> DEFINE T == {i \in 0 .. Len(string) : ~IsDisplay(Shown(string)[i])}
  <1> SUFFICES ASSUME T # {} PROVE FALSE
    OBVIOUS
  <1>1. PICK i \in T : \A j \in T : i <= j
    <2>1. T \subseteq Nat
      OBVIOUS
    <2> HIDE DEF T
    <2> QED
      BY <2>1, LeastNat
  <1>2. i \in 0 .. Len(string) /\ ~IsDisplay(Shown(string)[i])
    OBVIOUS
  <1>3. Shown(string)[i] = ShownBody(Shown(string), string, i)
    BY <1>2, ShownUnfolds
  <1>4. CASE i = 0
    BY <1>2, <1>3, <1>4 DEF ShownBody, IsDisplay, Display
  <1>5. CASE i # 0
    <2>1. i - 1 \in 0 .. Len(string) /\ ~(i <= i - 1)
      BY <1>2, <1>5
    <2>2. IsDisplay(Shown(string)[i - 1])
      BY <1>1, <2>1
    <2> QED
      BY <1>2, <1>3, <1>5, <2>2, PutCharOK DEF ShownBody
  <1> QED
    BY <1>4, <1>5

LEMMA PutsOK ==
    ASSUME NEW string \in Seq(STRING), cursor \in Cursors, Puts(string)
    PROVE  cursor' \in Cursors
  <1>1. Len(string) \in Nat /\ Len(string) \in 0 .. Len(string)
    OBVIOUS
  <1> QED
    BY <1>1, ShownOK DEF Puts, Show, IsDisplay

-----------------------------------------------------------------------------
\* The inductive invariant.  Before the shell turns the keyboard on the buffer is
\* empty, so that a key released then leaves nothing behind in it; what the shell
\* is about to echo is a character; and the line is one that fits input_buffer,
\* because the model follows no other: Echo leaves those to "lost".
TerminalInv ==
    /\ TypeOK
    /\ KeyIsHeld
    /\ ~keyboard_input_on => keyboard_buffer = NUL
    /\ todo \in Seq(Seq(STRING))
    /\ at = "echo" => buf \in Keys
    /\ Len(line) <= INPUT_MAX

LEMMA InitTerminalInv == Init => TerminalInv
  <1> SUFFICES ASSUME Init PROVE TerminalInv
    OBVIOUS
  <1>1. cursor \in Cursors
    BY SetCursorOK DEF Init
  <1>2. line \in Seq(Printables) /\ Len(line) = 0 /\ todo \in Seq(Seq(STRING))
    BY DEF Init
  <1>3. Len(line) <= INPUT_MAX
    BY <1>2, TerminalAssumption DEF TerminalAssumption
  <1> QED
    BY <1>1, <1>2, <1>3 DEF Init, TerminalInv, TypeOK, KeyIsHeld, Cursors

\* A key that goes down is held; one that goes up leaves a NUL.
LEMMA KeysPreserve ==
    ASSUME TerminalInv, NEW k \in Keys, Press(k) \/ Release(k)
    PROVE  TerminalInv'
  <1>1. UNCHANGED <<keyboard_input_on, screen, cursor, at, todo, buf, line>>
    BY DEF Press, Release, KeyboardIsr, screenVars, shellVars
  <1>2. /\ held' \subseteq Keys
        /\ keyboard_buffer' \in Keys \cup {NUL}
        /\ keyboard_buffer' # NUL => keyboard_buffer' \in held'
        /\ ~keyboard_input_on => keyboard_buffer' = NUL
    BY DEF TerminalInv, TypeOK, KeyIsHeld, Press, Release, KeyboardIsr
  <1> QED
    BY <1>1, <1>2 DEF TerminalInv, TypeOK, KeyIsHeld

LEMMA ActivatePreserves == TerminalInv /\ Activate => TerminalInv'
  <1> SUFFICES ASSUME TerminalInv, Activate PROVE TerminalInv'
    OBVIOUS
  <1>1. Prompt \in Seq(Seq(STRING)) /\ Prompt # <<>>
    BY TerminalAssumption DEF TerminalAssumption
  <1> QED
    BY <1>1 DEF TerminalInv, TypeOK, KeyIsHeld, Activate, screenVars

LEMMA PutNextPreserves == TerminalInv /\ PutNext => TerminalInv'
  <1> SUFFICES ASSUME TerminalInv, PutNext PROVE TerminalInv'
    OBVIOUS
  <1>1. todo # <<>> /\ todo \in Seq(Seq(STRING)) /\ cursor \in Cursors
    BY DEF TerminalInv, TypeOK, PutNext, Cursors
  <1>2. Head(todo) \in Seq(STRING) /\ Tail(todo) \in Seq(Seq(STRING))
    BY <1>1
  <1>3. cursor' \in Cursors
    BY <1>1, <1>2, PutsOK DEF PutNext
  <1> QED
    BY <1>2, <1>3 DEF TerminalInv, TypeOK, KeyIsHeld, PutNext, keyboardVars, Cursors

LEMMA ClearScreenPreserves == TerminalInv /\ ClearScreen => TerminalInv'
  <1> SUFFICES ASSUME TerminalInv, ClearScreen PROVE TerminalInv'
    OBVIOUS
  <1>1. cursor' \in Cursors
    BY SetCursorOK DEF ClearScreen, Show
  <1> QED
    BY <1>1 DEF TerminalInv, TypeOK, KeyIsHeld, ClearScreen, keyboardVars, Cursors

LEMMA PrefixOK ==
    ASSUME NEW S, NEW s \in Seq(S), NEW n \in Nat, n <= Len(s)
    PROVE  SubSeq(s, 1, n) \in Seq(S) /\ Len(SubSeq(s, 1, n)) = n
  <1>1. \A i \in 1 .. n : s[i] \in S
    OBVIOUS
  <1> QED
    BY <1>1, SubSeqProperties

LEMMA GetKeyPreserves == TerminalInv /\ GetKey => TerminalInv'
  <1> SUFFICES ASSUME TerminalInv, GetKey PROVE TerminalInv'
    OBVIOUS
  <1> DEFINE c == keyboard_buffer
  <1>1. c \in Keys \cup {NUL} /\ line \in Seq(Printables) /\ Len(line) <= INPUT_MAX
    BY DEF TerminalInv, TypeOK
  <1>2. line # <<>> => Front(line) \in Seq(Printables) /\ Len(Front(line)) <= INPUT_MAX
    <2> SUFFICES ASSUME line # <<>>
                 PROVE  Front(line) \in Seq(Printables) /\ Len(Front(line)) <= INPUT_MAX
      OBVIOUS
    <2>1. Len(line) \in Nat /\ Len(line) - 1 \in 0 .. Len(line)
      BY <1>1
    <2>2. /\ SubSeq(line, 1, Len(line) - 1) \in Seq(Printables)
          /\ Len(SubSeq(line, 1, Len(line) - 1)) = Len(line) - 1
      <3>1. Len(line) - 1 \in Nat /\ Len(line) - 1 <= Len(line)
        BY <2>1
      <3> QED
        BY <1>1, <3>1, PrefixOK
    <2>3. INPUT_MAX \in Nat
      BY TerminalAssumption DEF TerminalAssumption
    <2> QED
      BY <1>1, <2>1, <2>2, <2>3 DEF Front
  <1>3. line' \in Seq(Printables) /\ Len(line') <= INPUT_MAX
    BY <1>1, <1>2 DEF GetKey, AfterRead
  <1>4. at' \in {"poll", "echo"} /\ (at' = "echo" => c # NUL)
    BY DEF GetKey, AfterRead
  <1> QED
    BY <1>1, <1>3, <1>4 DEF TerminalInv, TypeOK, KeyIsHeld, GetKey, screenVars, Keys

LEMMA EchoPreserves == TerminalInv /\ Echo => TerminalInv'
  <1> SUFFICES ASSUME TerminalInv, Echo PROVE TerminalInv'
    OBVIOUS
  <1>1. cursor' \in Cursors
    <2>1. IsDisplay(Display)
      BY DEF TerminalInv, TypeOK, IsDisplay, Display, Cursors
    <2> QED
      BY <2>1, PutCharOK DEF Echo, Show, IsDisplay
  <1>2. /\ UNCHANGED <<held, keyboard_input_on, keyboard_buffer, buf>>
        /\ at = "echo" /\ buf \in Keys /\ todo = <<>>
        /\ line \in Seq(Printables) /\ Len(line) <= INPUT_MAX
    BY DEF TerminalInv, TypeOK, Echo, keyboardVars
  <1>3. CASE at' = "lost" /\ UNCHANGED <<todo, line>>
    BY <1>1, <1>2, <1>3 DEF TerminalInv, TypeOK, KeyIsHeld, Cursors
  <1>4. CASE /\ Fits(buf) /\ buf # Newline
             /\ at' = "poll"
             /\ line' = LineAfter(buf)
             /\ UNCHANGED todo
    <2>1. line' \in Seq(Printables) /\ Len(line') <= INPUT_MAX
      <3>1. CASE buf = Backspace
        BY <1>2, <1>4, <3>1 DEF LineAfter
      <3>2. CASE buf # Backspace
        <4>1. buf \in Printables /\ Len(line) < INPUT_MAX
          BY <1>2, <1>4, <3>2 DEF Keys, Fits
        <4>2. line' = Append(line, buf)
          BY <1>4, <3>2 DEF LineAfter
        <4>3. Len(line') = Len(line) + 1 /\ line' \in Seq(Printables) /\ Len(line) \in Nat
          BY <1>2, <4>1, <4>2
        <4> QED
          BY <4>1, <4>3, TerminalAssumption DEF TerminalAssumption
      <3> QED
        BY <3>1, <3>2
    <2> QED
      BY <1>1, <1>2, <1>4, <2>1 DEF TerminalInv, TypeOK, KeyIsHeld, Cursors
  <1>5. CASE /\ \/ at' = "put" /\ \E output \in Outputs : todo' = output \o Prompt
                \/ at' = "clear" /\ todo' = Prompt
             /\ line' = <<>>
    <2>1. /\ Prompt \in Seq(Seq(STRING)) /\ Prompt # <<>>
          /\ Outputs \subseteq Seq(Seq(STRING)) /\ INPUT_MAX \in Nat
      BY TerminalAssumption DEF TerminalAssumption
    <2>2. todo' \in Seq(Seq(STRING)) /\ todo' # <<>>
      <3>1. ASSUME NEW output \in Outputs
            PROVE  output \o Prompt \in Seq(Seq(STRING)) /\ output \o Prompt # <<>>
        <4>1. Len(output \o Prompt) = Len(output) + Len(Prompt) /\ Len(Prompt) > 0
              /\ Len(output) \in Nat /\ Len(Prompt) \in Nat
          BY <2>1
        <4> QED
          BY <2>1, <4>1
      <3> QED
        BY <1>5, <2>1, <3>1
    <2>3. line' \in Seq(Printables) /\ Len(line') <= INPUT_MAX
      BY <1>5, <2>1
    <2> QED
      BY <1>1, <1>2, <1>5, <2>2, <2>3 DEF TerminalInv, TypeOK, KeyIsHeld, Cursors
  <1> QED
    BY <1>3, <1>4, <1>5 DEF Echo

LEMMA NextTerminalInv == TerminalInv /\ [Next]_vars => TerminalInv'
  <1> SUFFICES ASSUME TerminalInv, [Next]_vars PROVE TerminalInv'
    OBVIOUS
  <1>1. ASSUME NEW k \in Keys, Press(k) \/ Release(k) PROVE TerminalInv'
    BY <1>1, KeysPreserve
  <1>2. CASE Activate
    BY <1>2, ActivatePreserves
  <1>3. CASE PutNext
    BY <1>3, PutNextPreserves
  <1>4. CASE ClearScreen
    BY <1>4, ClearScreenPreserves
  <1>5. CASE GetKey
    BY <1>5, GetKeyPreserves
  <1>6. CASE Echo
    BY <1>6, EchoPreserves
  <1>7. CASE PutClock
    BY <1>7 DEF PutClock, TerminalInv, TypeOK, KeyIsHeld, keyboardVars, shellVars
  <1>8. CASE UNCHANGED vars
    BY <1>8 DEF vars, TerminalInv, TypeOK, KeyIsHeld, keyboardVars, screenVars, shellVars
  <1> QED
    BY <1>1, <1>2, <1>3, <1>4, <1>5, <1>6, <1>7, <1>8 DEF Next, Shell

LEMMA TerminalInvariant == Spec => []TerminalInv
  BY InitTerminalInv, NextTerminalInv, PTL DEF Spec

\* The line never holds anything but printable characters: no newline, backspace
\* or empty reading of the keyboard gets into it (user-shell.c:54-69).  The cursor
\* never leaves what uint8_t rows and columns reach, and the shell has text left
\* to put exactly while it is in the middle of an output.  Nothing is said of
\* lines longer than input_buffer, which user-shell.c:66 does not check.
THEOREM ConsoleTypes == Spec => []TypeOK
  <1>1. TerminalInv => TypeOK
    BY DEF TerminalInv
  <1> QED
    BY <1>1, TerminalInvariant, PTL

\* The character in keyboard_buffer belongs to a key that is down: however
\* presses, releases and the shell's reads interleave, a key that went up is
\* never heard afterwards.
THEOREM KeyHeardIsHeld == Spec => []KeyIsHeld
  <1>1. TerminalInv => KeyIsHeld
    BY DEF TerminalInv
  <1> QED
    BY <1>1, TerminalInvariant, PTL

-----------------------------------------------------------------------------
\* The size of the screen.
W == RESOLUTION_WIDTH
H == RESOLUTION_HEIGHT

\* A product of naturals grows with its factors.
LEMMA Products ==
    ASSUME NEW a \in Nat, NEW b \in Nat, NEW c \in Nat, a <= b
    PROVE  a * c \in Nat /\ b * c \in Nat /\ a * c <= b * c
  OBVIOUS

\* Division by the width.
LEMMA Division ==
    ASSUME NEW p \in Nat, NEW w \in Nat, w >= 1
    PROVE  \E q \in Nat, r \in 0 .. w - 1 : p = q * w + r /\ p \div w = q
  OBVIOUS

LEMMA DivisionIs ==
    ASSUME NEW w \in Nat, w >= 1, NEW q \in Nat, NEW r \in 0 .. w - 1
    PROVE  (q * w + r) \div w = q
  OBVIOUS

\* The cursors from which putchar finds its way back: a row of uint8_t.
LEMMA Sizes ==
    /\ W \in 1 .. 255 /\ H \in 1 .. 255 /\ W * H \in Nat /\ H * W = W * H
    /\ W * H < 256 * W /\ INPUT_MAX \in Nat
    /\ Cells = 0 .. W * H - 1
  <1>1. W \in 1 .. 255 /\ H \in 1 .. 255
    BY TerminalAssumption DEF TerminalAssumption, W, H
  <1>2. H * W <= 255 * W
    BY <1>1, Products
  <1> QED
    BY <1>1, <1>2, TerminalAssumption DEF TerminalAssumption, W, H, Cells

LEMMA Placed ==
    ASSUME NEW p \in 0 .. 256 * W - 1
    PROVE  /\ RowOf(p) \in 0 .. 255 /\ ColOf(p) \in 0 .. W - 1
           /\ p = RowOf(p) * W + ColOf(p)
           /\ SetCursor(RowOf(p), ColOf(p)) = p
           /\ SetCursor(RowOf(p), ColOf(p) + 1) = p + 1
           /\ p < W * H <=> RowOf(p) <= H - 1
           /\ p > W * H => RowOf(p) > H - 1
  <1>1. W \in Nat /\ W >= 1 /\ W <= 255 /\ p \in Nat /\ p < 256 * W
    BY Sizes
  <1>2. PICK q \in Nat, r \in 0 .. W - 1 : p = q * W + r /\ p \div W = q
    BY <1>1, Division
  <1>3. q <= 255
    <2>1. CASE q >= 256
      <3>1. 256 * W <= q * W /\ q * W \in Nat
        BY <1>1, <2>1, Products
      <3> QED
        BY <1>1, <1>2, <3>1
    <2> QED
      BY <2>1
  <1>4. RowOf(p) = q
    BY <1>2, <1>3 DEF RowOf, uint8, W
  <1>5. q * W \in Nat
    BY <1>1
  <1>6. ColOf(p) = r
    <2>1. p - q * W = r
      BY <1>1, <1>2, <1>5
    <2>2. ColOf(p) = uint8(r)
      BY <1>4, <2>1 DEF ColOf, W
    <2> QED
      BY <1>1, <2>2 DEF uint8
  <1>7. SetCursor(q, r) = q * W + r /\ SetCursor(q, r + 1) = q * W + r + 1
    <2>1. uint8(q) = q /\ uint8(r) = r /\ uint8(r + 1) = r + 1
      BY <1>1, <1>3 DEF uint8
    <2> QED
      BY <1>5, <2>1 DEF SetCursor, W
  <1>8. p < W * H <=> q <= H - 1
    <2>1. CASE q <= H - 1
      <3>1. (q + 1) * W <= H * W /\ (q + 1) * W = q * W + W
        BY <1>1, <2>1, Products, Sizes
      <3> QED
        BY <1>1, <1>2, <1>5, <2>1, <3>1, Sizes
    <2>2. CASE q >= H
      <3>1. H * W <= q * W
        BY <1>1, <2>2, Products, Sizes
      <3> QED
        BY <1>1, <1>2, <1>5, <2>2, <3>1, Sizes
    <2> QED
      BY <2>1, <2>2, Sizes
  <1>9. p > W * H => q > H - 1
    BY <1>1, <1>8, Sizes
  <1>10. q \in 0 .. 255
    BY <1>3
  <1> QED
    BY <1>2, <1>4, <1>6, <1>7, <1>8, <1>9, <1>10

-----------------------------------------------------------------------------
\* The number of values of a uint16_t.
Word == 65536

\* Where a backspace before the first cell puts the cursor.
Wrap == SetCursor(RowOf(Word - 1), ColOf(Word - 1))

\* It is off the screen, by more than a line has characters, and not past what
\* putchar's row can hold: 4095 on a screen of 80 by 25.
WrapsOffScreen == W * H + INPUT_MAX <= Wrap /\ Wrap < 256 * W

\* The first n characters of text stand before the cursor of d, as far as the screen
\* reaches back, except where the clock is drawn.
Typed(d, text, n) ==
    \/ n = 0
    \/ /\ d.cursor <= W * H
       /\ \A i \in 1 .. n : i <= d.cursor =>
            d.screen[d.cursor - i] = text[n + 1 - i] \/ d.cursor - i \in ClockCells

\* A character that is printed comes before the cursor.
LEMMA PrintTyped ==
    ASSUME NEW d, d.cursor \in 0 .. 256 * W - 1, NEW text, NEW n \in Nat,
           Typed(d, text, n) \/ d.cursor > W * H
    PROVE  /\ Typed(PutPrintable(d, text[n + 1]), text, n + 1)
           /\ PutPrintable(d, text[n + 1]).cursor \in 1 .. W * H
  <1> DEFINE e == PutPrintable(d, text[n + 1])
             p == d.cursor
  <1>0. /\ RowOf(p) \in 0 .. 255 /\ ColOf(p) \in 0 .. W - 1
        /\ p = RowOf(p) * W + ColOf(p)
        /\ SetCursor(RowOf(p), ColOf(p) + 1) = p + 1
        /\ p < W * H <=> RowOf(p) <= H - 1
    BY Placed
  <1>1. CASE p < W * H
    <2>1. /\ e.screen = [i \in Cells |-> IF i = p THEN text[n + 1] ELSE d.screen[i]]
          /\ e.cursor = p + 1
      <3>1. RowOf(p) * RESOLUTION_WIDTH + ColOf(p) = p
        BY <1>0 DEF W
      <3>2. RowOf(p) <= RESOLUTION_HEIGHT - 1 /\ ColOf(p) <= RESOLUTION_WIDTH - 1
        BY <1>0, <1>1, Sizes DEF W, H
      <3> QED
        BY <1>0, <3>1, <3>2 DEF PutPrintable, Write
    <2>2. p \in Nat /\ p + 1 \in 1 .. W * H /\ p \in Cells
      BY <1>1, Sizes
    <2>3. ASSUME NEW i \in 1 .. n + 1, i <= p + 1
          PROVE  e.screen[p + 1 - i] = text[n + 2 - i] \/ p + 1 - i \in ClockCells
      <3>1. CASE i = 1
        BY <2>1, <2>2, <3>1
      <3>2. CASE i # 1
        <4>1. i - 1 \in 1 .. n /\ i - 1 <= p /\ n # 0
          BY <2>3, <3>2
        <4>2. d.screen[p - (i - 1)] = text[n + 1 - (i - 1)] \/ p - (i - 1) \in ClockCells
          BY <1>1, <4>1, Sizes DEF Typed
        <4>3. p - (i - 1) = p + 1 - i /\ n + 1 - (i - 1) = n + 2 - i
              /\ p + 1 - i \in Cells /\ p + 1 - i # p
          BY <2>2, <2>3, <3>2, Sizes
        <4> QED
          BY <2>1, <4>2, <4>3
      <3> QED
        BY <3>1, <3>2
    <2>4. e.cursor \in 1 .. W * H /\ e.cursor <= W * H
      BY <2>1, <2>2, Sizes
    <2>5. \A i \in 1 .. n + 1 : i <= e.cursor =>
            e.screen[e.cursor - i] = text[n + 1 + 1 - i] \/ e.cursor - i \in ClockCells
      <3> HIDE DEF e, p
      <3> SUFFICES ASSUME NEW i \in 1 .. n + 1, i <= e.cursor
                   PROVE  \/ e.screen[e.cursor - i] = text[n + 1 + 1 - i]
                          \/ e.cursor - i \in ClockCells
        OBVIOUS
      <3>1. n + 1 + 1 - i = n + 2 - i /\ i <= p + 1 /\ e.cursor - i = p + 1 - i
        BY <2>1, <2>2
      <3> QED
        BY <2>3, <3>1
    <2> QED
      BY <2>4, <2>5 DEF Typed
  <1>2. CASE ~(p < W * H)
    <2>1. e.screen = Write(Clear(d.screen), 0, 0, text[n + 1]) /\ e.cursor = SetCursor(0, 1)
      BY <1>0, <1>2, Sizes DEF PutPrintable, H
    <2>2. SetCursor(0, 1) = 1
      BY Sizes DEF SetCursor, uint8, W
    <2>3. 0 * RESOLUTION_WIDTH + 0 = 0 /\ 0 \in Cells /\ 1 \in 1 .. W * H
      <3>1. 1 * W <= H * W
        BY Sizes, Products
      <3> QED
        BY <3>1, Sizes DEF W
    <2>4. e.screen[0] = text[n + 1]
      BY <2>1, <2>3 DEF Write
    <2>5. \A i \in 1 .. n + 1 : i <= 1 => i = 1
      OBVIOUS
    <2>6. 1 - 1 = 0 /\ n + 1 + 1 - 1 = n + 1 /\ 1 <= W * H
      BY <2>3, Sizes
    <2> HIDE DEF e, p
    <2>7. \A i \in 1 .. n + 1 : i <= e.cursor =>
            e.screen[e.cursor - i] = text[n + 1 + 1 - i] \/ e.cursor - i \in ClockCells
      <3> SUFFICES ASSUME NEW i \in 1 .. n + 1, i <= e.cursor
                   PROVE  \/ e.screen[e.cursor - i] = text[n + 1 + 1 - i]
                          \/ e.cursor - i \in ClockCells
        OBVIOUS
      <3>1. e.cursor = 1 /\ i = 1
        BY <2>1, <2>2, <2>5
      <3>2. e.cursor - i = 0 /\ n + 1 + 1 - i = n + 1
        BY <2>6, <3>1
      <3> QED
        BY <2>4, <3>2
    <2>8. e.cursor \in 1 .. W * H /\ e.cursor <= W * H
      BY <2>1, <2>2, <2>3, <2>6
    <2> QED
      BY <2>7, <2>8 DEF Typed, e
  <1> QED
    BY <1>1, <1>2

\* The uint16_t position of a backspace before the first cell.
LEMMA Wraps == uint16(-1) = Word - 1 /\ Word - 1 \in Nat
  <1>1. ASSUME NEW n \in Nat, n >= 1 PROVE (-1) % n = n - 1
    BY <1>1
  <1>2. Word \in Nat /\ Word >= 1
    BY DEF Word
  <1>3. (-1) % Word = Word - 1
    BY <1>1, <1>2
  <1>4. uint16(-1) = (-1) % Word
    <2>1. ASSUME NEW x \in Int PROVE uint16(x) = x % Word
      BY DEF uint16, Word
    <2> QED
      BY <2>1
  <1> QED
    BY <1>2, <1>3, <1>4

\* A backspace moves the cursor one cell back, and before the first cell to Wrap.
LEMMA BackspacePlaces ==
    ASSUME NEW d, d.cursor \in 0 .. 256 * W - 1
    PROVE  /\ d.cursor = 0 => PutBackspace(d).cursor = Wrap
           /\ d.cursor # 0 =>
                /\ PutBackspace(d).cursor = d.cursor - 1
                /\ PutBackspace(d).screen =
                     [i \in Cells |-> IF i = d.cursor - 1 THEN Space ELSE d.screen[i]]
  <1>1. d.cursor = 0 => uint16(d.cursor - 1) = Word - 1
    BY Wraps
  <1>2. CASE d.cursor # 0
    <2> DEFINE p == d.cursor - 1
    <2>1. p \in 0 .. 256 * W - 1 /\ uint16(p) = p
      BY <1>2, Sizes DEF uint16
    <2>2. p = RowOf(p) * W + ColOf(p) /\ SetCursor(RowOf(p), ColOf(p)) = p
      BY <2>1, Placed
    <2> HIDE DEF p
    <2>3. /\ PutBackspace(d).cursor = p
          /\ PutBackspace(d).screen = [i \in Cells |-> IF i = p THEN Space ELSE d.screen[i]]
      BY <2>1, <2>2 DEF PutBackspace, Write, W, p
    <2> QED
      BY <1>2, <2>3 DEF p
  <1> QED
    BY <1>1, <1>2 DEF PutBackspace, Wrap

\* It takes the last character back, or leaves the screen for good.
LEMMA EraseTyped ==
    ASSUME NEW d, d.cursor \in 0 .. 256 * W - 1, NEW text, NEW n \in Nat,
           Typed(d, text, n + 1)
    PROVE  \/ Typed(PutBackspace(d), text, n)
           \/ d.cursor = 0 /\ PutBackspace(d).cursor = Wrap
  <1> DEFINE e == PutBackspace(d)
             p == d.cursor
  <1> SUFFICES ASSUME p # 0 PROVE Typed(e, text, n)
    BY BackspacePlaces
  <1>1. /\ e.cursor = p - 1
        /\ e.screen = [i \in Cells |-> IF i = p - 1 THEN Space ELSE d.screen[i]]
    BY BackspacePlaces
  <1>2. p \in Nat /\ p <= W * H /\ n + 1 # 0
    BY Sizes DEF Typed
  <1>3. ASSUME NEW i \in 1 .. n, i <= p - 1
        PROVE  e.screen[p - 1 - i] = text[n + 1 - i] \/ p - 1 - i \in ClockCells
    <2>1. i + 1 \in 1 .. n + 1 /\ i + 1 <= p
      BY <1>2, <1>3
    <2>2. d.screen[p - (i + 1)] = text[n + 1 + 1 - (i + 1)] \/ p - (i + 1) \in ClockCells
      BY <1>2, <2>1 DEF Typed
    <2>3. p - (i + 1) = p - 1 - i /\ n + 1 + 1 - (i + 1) = n + 1 - i
          /\ p - 1 - i \in Cells /\ p - 1 - i # p - 1
      BY <1>2, <1>3, Sizes
    <2> QED
      BY <1>1, <2>2, <2>3
  <1>4. p - 1 <= W * H
    BY <1>2, Sizes
  <1> HIDE DEF e, p
  <1> QED
    BY <1>1, <1>3, <1>4 DEF Typed

\* Wherever putchar puts the cursor, it finds its way back from there.
LEMMA CursorStays ==
    ASSUME WrapsOffScreen, NEW d, d.cursor \in 0 .. 256 * W - 1, NEW c
    PROVE  PutChar(d, c).cursor \in 0 .. 256 * W - 1
  <1>1. PutNewline(d).cursor \in 0 .. 256 * W - 1
    <2>1. RowOf(d.cursor) \in 0 .. 255
      BY Placed
    <2>2. uint8(RowOf(d.cursor) + 1) \in 0 .. 255 /\ uint8(0) = 0
      BY <2>1 DEF uint8
    <2>3. \A i \in 0 .. 255 : i * W \in Nat /\ i * W <= 255 * W
      BY Products, Sizes
    <2>4. PutNewline(d).cursor \in {d.cursor, SetCursor(RowOf(d.cursor) + 1, 0)}
      BY DEF PutNewline
    <2>5. SetCursor(RowOf(d.cursor) + 1, 0) \in 0 .. 255 * W
      <3>1. SetCursor(RowOf(d.cursor) + 1, 0) = uint8(RowOf(d.cursor) + 1) * W + uint8(0)
        BY DEF SetCursor, W
      <3>2. 255 * W \in Nat /\ W \in Nat
        BY Sizes
      <3> QED
        BY <2>2, <2>3, <3>1, <3>2
    <2> QED
      BY <2>4, <2>5, Sizes
  <1>2. PutBackspace(d).cursor \in 0 .. 256 * W - 1
    <2>1. Wrap \in Nat
      <3>1. RowOf(Word - 1) \in Int /\ ColOf(Word - 1) \in Int
        BY RowColInt, Wraps
      <3>2. SetCursor(RowOf(Word - 1), ColOf(Word - 1)) \in Cursors
        BY <3>1, SetCursorOK
      <3>3. Cursors \subseteq Nat
        BY Width DEF Cursors
      <3> QED
        BY <3>2, <3>3 DEF Wrap
    <2>2. Wrap < 256 * W
      BY DEF WrapsOffScreen
    <2>3. d.cursor # 0 => d.cursor - 1 \in 0 .. 256 * W - 1
      BY Sizes
    <2>4. 256 * W \in Nat
      BY Sizes
    <2>5. Wrap \in 0 .. 256 * W - 1
      BY <2>1, <2>2, <2>4
    <2> QED
      BY <2>3, <2>5, BackspacePlaces
  <1>3. PutPrintable(d, c).cursor \in 0 .. 256 * W - 1
    <2> DEFINE text == <<c>>
    <2>1. text[0 + 1] = c /\ Typed(d, text, 0)
      BY DEF Typed
    <2> HIDE DEF text
    <2>2. PutPrintable(d, c).cursor \in 1 .. W * H
      BY <2>1, PrintTyped
    <2> QED
      BY <2>2, Sizes
  <1> QED
    BY <1>1, <1>2, <1>3 DEF PutChar

-----------------------------------------------------------------------------
\* The first k strings of a sequence of strings, one after the other.
JoinBody(f, strings, i) == IF i = 1 THEN strings[i] ELSE f[i - 1] \o strings[i]
Joiner(strings) == CHOOSE f : f = [i \in 1 .. Len(strings) |-> JoinBody(f, strings, i)]
Joined(strings, k) == IF k = 0 THEN <<>> ELSE Joiner(strings)[k]

LEMMA JoinerExists ==
    ASSUME NEW strings
    PROVE  \A n \in Nat : \E g : g = [i \in 1 .. n |-> JoinBody(g, strings, i)]
  <1> DEFINE T == {n \in Nat : ~\E g : g = [i \in 1 .. n |-> JoinBody(g, strings, i)]}
  <1> SUFFICES ASSUME T # {} PROVE FALSE
    OBVIOUS
  <1>1. PICK n \in T : \A m \in T : n <= m
    <2>1. T \subseteq Nat
      OBVIOUS
    <2> HIDE DEF T
    <2> QED
      BY <2>1, LeastNat
  <1>2. n \in Nat /\ ~\E g : g = [i \in 1 .. n |-> JoinBody(g, strings, i)]
    OBVIOUS
  <1>3. CASE n = 0
    <2> DEFINE g == [i \in 1 .. 0 |-> 0]
    <2>1. g = [i \in 1 .. 0 |-> JoinBody(g, strings, i)]
      OBVIOUS
    <2> QED
      BY <1>2, <1>3, <2>1
  <1>4. CASE n # 0
    <2>1. n - 1 \in Nat /\ ~(n <= n - 1)
      BY <1>2, <1>4
    <2>2. PICK g : g = [i \in 1 .. n - 1 |-> JoinBody(g, strings, i)]
      BY <1>1, <2>1
    <2> DEFINE h == [i \in 1 .. n |-> IF i = n THEN JoinBody(g, strings, n) ELSE g[i]]
    <2>3. \A i \in 1 .. n : i # 1 => i - 1 \in 1 .. n - 1
      BY <1>2
    <2>4. \A i \in 1 .. n - 1 : h[i] = g[i]
      BY <1>2
    <2>5. \A i \in 1 .. n : JoinBody(h, strings, i) = JoinBody(g, strings, i)
      <3> HIDE DEF h
      <3> QED
        BY <2>3, <2>4 DEF JoinBody
    <2>6. \A i \in 1 .. n : i # n => i \in 1 .. n - 1
      BY <1>2
    <2>7. \A i \in 1 .. n - 1 : g[i] = JoinBody(g, strings, i)
      BY <2>2
    <2>8. \A i \in 1 .. n : h[i] = JoinBody(h, strings, i)
      BY <2>5, <2>6, <2>7
    <2>9. h = [i \in 1 .. n |-> JoinBody(h, strings, i)]
      BY <2>8
    <2> QED
      BY <1>2, <2>9
  <1> QED
    BY <1>3, <1>4

LEMMA JoinerUnfolds ==
    ASSUME NEW strings, Len(strings) \in Nat
    PROVE  Joiner(strings) = [i \in 1 .. Len(strings) |-> JoinBody(Joiner(strings), strings, i)]
  <1>1. \E h : h = [i \in 1 .. Len(strings) |-> JoinBody(h, strings, i)]
    BY JoinerExists
  <1> QED
    BY <1>1 DEF Joiner

\* What it is, string by string, and at the end.
LEMMA JoinedProperties ==
    ASSUME NEW A, NEW strings \in Seq(Seq(A))
    PROVE  /\ Joined(strings, 0) = <<>>
           /\ \A k \in 0 .. Len(strings) : Joined(strings, k) \in Seq(A)
           /\ \A k \in 1 .. Len(strings) :
                Joined(strings, k) = Joined(strings, k - 1) \o strings[k]
           /\ FlattenSeq(strings) = Joined(strings, Len(strings))
  <1> DEFINE N == Len(strings)
  <1>1. N \in Nat /\ \A i \in 1 .. N : strings[i] \in Seq(A)
    OBVIOUS
  <1>2. Joined(strings, 0) = <<>>
    BY DEF Joined
  <1>3. ASSUME NEW k \in 1 .. N
        PROVE  Joined(strings, k) = Joined(strings, k - 1) \o strings[k]
    <2>1. Joined(strings, k) = JoinBody(Joiner(strings), strings, k)
      BY <1>1, JoinerUnfolds DEF Joined
    <2>2. CASE k = 1
      <3>1. Joined(strings, k - 1) = <<>> /\ <<>> \o strings[k] = strings[k]
        BY <1>1, <1>2, <2>2
      <3> QED
        BY <2>1, <2>2, <3>1 DEF JoinBody
    <2>3. CASE k # 1
      <3>1. k - 1 # 0
        BY <1>1, <2>3
      <3>2. Joined(strings, k - 1) = Joiner(strings)[k - 1]
        BY <3>1 DEF Joined
      <3> QED
        BY <2>1, <2>3, <3>2 DEF JoinBody
    <2> QED
      BY <2>2, <2>3
  <1>4. ASSUME NEW k \in 0 .. N PROVE Joined(strings, k) \in Seq(A)
    <2> DEFINE T == {j \in 0 .. N : Joined(strings, j) \notin Seq(A)}
    <2> SUFFICES ASSUME T # {} PROVE FALSE
      OBVIOUS
    <2>1. PICK j \in T : \A m \in T : j <= m
      <3>1. T \subseteq Nat
        OBVIOUS
      <3> HIDE DEF T
      <3> QED
        BY <3>1, LeastNat
    <2>2. j \in 0 .. N /\ Joined(strings, j) \notin Seq(A)
      OBVIOUS
    <2>3. <<>> \in Seq(A)
      OBVIOUS
    <2>4. j # 0
      BY <1>2, <2>2, <2>3
    <2>5. j \in 1 .. N /\ j - 1 \in 0 .. N /\ ~(j <= j - 1)
      BY <1>1, <2>2, <2>4
    <2>6. Joined(strings, j - 1) \in Seq(A)
      BY <2>1, <2>5
    <2>7. Joined(strings, j - 1) \o strings[j] \in Seq(A)
      BY <1>1, <2>5, <2>6
    <2> QED
      BY <1>3, <2>2, <2>5, <2>7
  <1>5. FlattenSeq(strings) = Joined(strings, N)
    BY <1>1 DEF FlattenSeq, Joined, Joiner, JoinBody
  <1> QED
    BY <1>2, <1>3, <1>4, <1>5

\* Every such beginning is one of the whole.
LEMMA JoinedBegins ==
    ASSUME NEW A, NEW strings \in Seq(Seq(A)), NEW k \in 0 .. Len(strings)
    PROVE  /\ Len(Joined(strings, k)) <= Len(FlattenSeq(strings))
           /\ \A i \in 1 .. Len(Joined(strings, k)) :
                FlattenSeq(strings)[i] = Joined(strings, k)[i]
  <1> DEFINE N == Len(strings)
             X == FlattenSeq(strings)
             Begins(m) == /\ Len(Joined(strings, m)) <= Len(X)
                          /\ \A i \in 1 .. Len(Joined(strings, m)) : X[i] = Joined(strings, m)[i]
             T == {m \in 1 .. N : ~Begins(m)}
  <1>1. /\ N \in Nat /\ \A i \in 1 .. N : strings[i] \in Seq(A)
        /\ \A m \in 0 .. N : Joined(strings, m) \in Seq(A) /\ Len(Joined(strings, m)) \in Nat
        /\ X = Joined(strings, N)
    <2>1. /\ \A m \in 0 .. N : Joined(strings, m) \in Seq(A)
          /\ X = Joined(strings, N)
      BY JoinedProperties
    <2>2. \A m \in 0 .. N : Len(Joined(strings, m)) \in Nat
      BY <2>1
    <2>3. N \in Nat /\ \A i \in 1 .. N : strings[i] \in Seq(A)
      OBVIOUS
    <2> QED
      BY <2>1, <2>2, <2>3
  <1>2. Begins(N)
    BY <1>1
  <1>3. Begins(0)
    <2>1. Joined(strings, 0) = <<>> /\ Len(Joined(strings, 0)) = 0
      BY DEF Joined
    <2>2. N \in 0 .. N /\ Len(X) \in Nat
      BY <1>1
    <2> QED
      BY <2>1, <2>2
  <1>4. ASSUME T # {} PROVE FALSE
    <2>1. PICK m \in T : \A j \in T : m >= j
      <3>1. T \subseteq 1 .. N
        OBVIOUS
      <3> HIDE DEF T, N
      <3> QED
        BY <1>1, <1>4, <3>1, GreatestUpTo
    <2>2. m \in 1 .. N /\ ~Begins(m)
      OBVIOUS
    <2>3. m # N
      BY <1>2, <2>2
    <2>4. m + 1 \in 1 .. N /\ ~(m >= m + 1) /\ m + 1 - 1 = m /\ m \in 0 .. N /\ m + 1 \in 0 .. N
      BY <1>1, <2>2, <2>3
    <2>5. Begins(m + 1)
      BY <2>1, <2>4
    <2>6. Joined(strings, m + 1) = Joined(strings, m) \o strings[m + 1]
      <3>1. \A j \in 1 .. N : Joined(strings, j) = Joined(strings, j - 1) \o strings[j]
        BY JoinedProperties
      <3> DEFINE j == m + 1
      <3>2. j \in 1 .. N /\ j - 1 = m
        BY <2>4
      <3> HIDE DEF j, N
      <3>3. Joined(strings, j) = Joined(strings, j - 1) \o strings[j]
        BY <3>1, <3>2
      <3>4. Joined(strings, j) = Joined(strings, m) \o strings[j]
        BY <3>2, <3>3
      <3> QED
        BY <3>4 DEF j
    <2>7. /\ Joined(strings, m) \in Seq(A) /\ strings[m + 1] \in Seq(A) /\ Len(X) \in Nat
          /\ Joined(strings, m + 1) \in Seq(A)
      BY <1>1, <2>4
    <2>8. /\ Len(Joined(strings, m)) <= Len(Joined(strings, m + 1))
          /\ \A i \in 1 .. Len(Joined(strings, m)) :
               /\ i \in 1 .. Len(Joined(strings, m + 1))
               /\ Joined(strings, m + 1)[i] = Joined(strings, m)[i]
      BY <2>6, <2>7
    <2>9. Begins(m)
      <3>1. Len(Joined(strings, m)) <= Len(X)
        BY <2>5, <2>7, <2>8
      <3> HIDE DEF X
      <3> QED
        BY <2>5, <2>8, <3>1
    <2> QED
      BY <2>2, <2>9
  <1>5. k = 0 \/ k \in 1 .. N
    BY <1>1
  <1>6. Begins(k)
    <2>1. k \in 1 .. N => k \notin T
      BY <1>4
    <2> QED
      BY <1>3, <1>5, <2>1
  <1> QED
    BY <1>6

\* The next string follows.
LEMMA JoinedNext ==
    ASSUME NEW A, NEW strings \in Seq(Seq(A)), NEW k \in 1 .. Len(strings)
    PROVE  /\ Len(Joined(strings, k - 1)) \in Nat /\ Len(strings[k]) \in Nat
           /\ Len(Joined(strings, k)) = Len(Joined(strings, k - 1)) + Len(strings[k])
           /\ Len(Joined(strings, k)) <= Len(FlattenSeq(strings))
           /\ \A i \in 1 .. Len(strings[k]) :
                FlattenSeq(strings)[Len(Joined(strings, k - 1)) + i] = strings[k][i]
  <1> DEFINE before == Joined(strings, k - 1)
             s == strings[k]
  <1>1. k \in 0 .. Len(strings) /\ k - 1 \in 0 .. Len(strings) /\ s \in Seq(A)
    OBVIOUS
  <1>2. before \in Seq(A) /\ Joined(strings, k) = before \o s
    BY <1>1, JoinedProperties
  <1>3. /\ Len(Joined(strings, k)) <= Len(FlattenSeq(strings))
        /\ \A i \in 1 .. Len(Joined(strings, k)) :
             FlattenSeq(strings)[i] = Joined(strings, k)[i]
    BY <1>1, JoinedBegins
  <1> HIDE DEF before, s
  <1>4. /\ Len(before) \in Nat /\ Len(s) \in Nat
        /\ Len(before \o s) = Len(before) + Len(s)
        /\ \A i \in 1 .. Len(s) : /\ (before \o s)[Len(before) + i] = s[i]
                                  /\ Len(before) + i \in 1 .. Len(before \o s)
    BY <1>1, <1>2
  <1> QED
    BY <1>2, <1>3, <1>4 DEF before, s

-----------------------------------------------------------------------------
\* puts, character by character: where the cursor goes, and what is printed.
LEMMA ShownCursors ==
    ASSUME WrapsOffScreen, NEW string, Len(string) \in Nat, cursor \in 0 .. 256 * W - 1
    PROVE  \A i \in 0 .. Len(string) : Shown(string)[i].cursor \in 0 .. 256 * W - 1
  <1> DEFINE T == {i \in 0 .. Len(string) : ~(Shown(string)[i].cursor \in 0 .. 256 * W - 1)}
  <1> SUFFICES ASSUME T # {} PROVE FALSE
    OBVIOUS
  <1>1. PICK i \in T : \A j \in T : i <= j
    <2>1. T \subseteq Nat
      OBVIOUS
    <2> HIDE DEF T
    <2> QED
      BY <2>1, LeastNat
  <1>2. i \in 0 .. Len(string) /\ ~(Shown(string)[i].cursor \in 0 .. 256 * W - 1)
    OBVIOUS
  <1>3. Shown(string)[i] = ShownBody(Shown(string), string, i)
    BY <1>2, ShownUnfolds
  <1>4. CASE i = 0
    BY <1>2, <1>3, <1>4 DEF ShownBody, Display
  <1>5. CASE i # 0
    <2>1. i - 1 \in 0 .. Len(string) /\ ~(i <= i - 1)
      BY <1>2, <1>5
    <2>2. Shown(string)[i - 1].cursor \in 0 .. 256 * W - 1
      BY <1>1, <2>1
    <2>3. Shown(string)[i] = PutChar(Shown(string)[i - 1], string[i])
      BY <1>3, <1>5 DEF ShownBody
    <2> QED
      BY <1>2, <2>2, <2>3, CursorStays
  <1> QED
    BY <1>4, <1>5

LEMMA ShownTyped ==
    ASSUME WrapsOffScreen, NEW string, Len(string) \in Nat, cursor \in 0 .. 256 * W - 1,
           NEW text, NEW n \in Nat, Typed(Display, text, n),
           \A i \in 1 .. Len(string) : /\ string[i] \notin {Newline, Backspace}
                                       /\ text[n + i] = string[i]
    PROVE  Typed(Shown(string)[Len(string)], text, n + Len(string))
  <1> DEFINE T == {i \in 0 .. Len(string) : ~Typed(Shown(string)[i], text, n + i)}
  <1>1. ASSUME T # {} PROVE FALSE
    <2>1. PICK i \in T : \A j \in T : i <= j
      <3>1. T \subseteq Nat
        OBVIOUS
      <3> HIDE DEF T
      <3> QED
        BY <1>1, <3>1, LeastNat
    <2>2. i \in 0 .. Len(string) /\ ~Typed(Shown(string)[i], text, n + i)
      OBVIOUS
    <2>3. Shown(string)[i] = ShownBody(Shown(string), string, i)
      BY <2>2, ShownUnfolds
    <2>4. CASE i = 0
      <3>1. Shown(string)[i] = Display /\ n + i = n
        BY <2>3, <2>4 DEF ShownBody
      <3> QED
        BY <2>2, <3>1
    <2>5. CASE i # 0
      <3>1. i - 1 \in 0 .. Len(string) /\ ~(i <= i - 1) /\ i \in 1 .. Len(string)
        BY <2>2, <2>5
      <3>2. Typed(Shown(string)[i - 1], text, n + (i - 1)) /\ n + (i - 1) \in Nat
        BY <2>1, <3>1
      <3>3. Shown(string)[i] = PutChar(Shown(string)[i - 1], string[i])
        BY <2>3, <2>5 DEF ShownBody
      <3>4. PutChar(Shown(string)[i - 1], string[i]) = PutPrintable(Shown(string)[i - 1], string[i])
        BY <3>1 DEF PutChar
      <3>5. string[i] = text[n + (i - 1) + 1] /\ n + (i - 1) + 1 = n + i
        BY <3>1
      <3>6. Shown(string)[i - 1].cursor \in 0 .. 256 * W - 1
        BY <3>1, ShownCursors
      <3>7. Typed(PutPrintable(Shown(string)[i - 1], text[n + (i - 1) + 1]), text, n + (i - 1) + 1)
        BY <3>2, <3>6, PrintTyped
      <3> QED
        BY <2>2, <3>3, <3>4, <3>5, <3>7
    <2> QED
      BY <2>4, <2>5
  <1> QED
    BY <1>1

\* Texts that begin alike, and displays that differ in the clock's cells, make no
\* difference.
LEMMA TypedAgree ==
    ASSUME NEW d, NEW e, d.cursor \in Nat, e.cursor = d.cursor,
           \A j \in Cells \ ClockCells : e.screen[j] = d.screen[j],
           NEW text, NEW other, NEW n \in Nat, \A i \in 1 .. n : other[i] = text[i],
           Typed(d, text, n)
    PROVE  Typed(e, other, n)
  <1> SUFFICES ASSUME n # 0 PROVE Typed(e, other, n)
    BY DEF Typed
  <1>1. /\ d.cursor <= W * H
        /\ \A i \in 1 .. n : i <= d.cursor =>
             d.screen[d.cursor - i] = text[n + 1 - i] \/ d.cursor - i \in ClockCells
    BY DEF Typed
  <1>2. ASSUME NEW i \in 1 .. n, i <= e.cursor
        PROVE  e.screen[e.cursor - i] = other[n + 1 - i] \/ e.cursor - i \in ClockCells
    <2>1. n + 1 - i \in 1 .. n /\ d.cursor - i \in Cells
      BY <1>1, <1>2, Sizes
    <2> QED
      BY <1>1, <1>2, <2>1
  <1> QED
    BY <1>1, <1>2 DEF Typed

\* What the proof asks of the prompt: that it is printed.
PromptPrints ==
    \A i \in DOMAIN FlattenSeq(Prompt) : FlattenSeq(Prompt)[i] \notin {Newline, Backspace}

PromptText == FlattenSeq(Prompt)

LEMMA Texts ==
    ASSUME TypeOK
    PROVE  /\ Prompt \in Seq(Seq(STRING)) /\ Len(Prompt) \in Nat /\ Len(Prompt) >= 1
           /\ PromptText \in Seq(STRING) /\ Len(PromptText) \in Nat
           /\ Joined(Prompt, Len(Prompt)) = PromptText
           /\ Joined(Prompt, 0) = <<>> /\ Len(Joined(Prompt, 0)) = 0
           /\ Len(line) \in Nat
           /\ Len(Text) = Len(PromptText) + Len(line)
           /\ \A i \in 1 .. Len(PromptText) : Text[i] = PromptText[i]
           /\ \A i \in 1 .. Len(line) : Text[Len(PromptText) + i] = line[i]
  <1>1. Prompt \in Seq(Seq(STRING)) /\ Prompt # <<>>
    BY TerminalAssumption DEF TerminalAssumption
  <1>2. Len(Prompt) \in Nat /\ Len(Prompt) >= 1
    BY <1>1
  <1>3. Joined(Prompt, Len(Prompt)) = PromptText /\ PromptText \in Seq(STRING)
    <2>1. Len(Prompt) \in 0 .. Len(Prompt)
      BY <1>2
    <2> QED
      BY <1>1, <2>1, JoinedProperties DEF PromptText
  <1>4. Joined(Prompt, 0) = <<>> /\ Len(Joined(Prompt, 0)) = 0
    BY DEF Joined
  <1>5. line \in Seq(Printables) /\ Len(line) \in Nat
    BY DEF TypeOK
  <1>6. ASSUME NEW A, NEW B, NEW s \in Seq(A), NEW t \in Seq(B)
        PROVE  /\ Len(s \o t) = Len(s) + Len(t)
               /\ \A i \in 1 .. Len(s) : (s \o t)[i] = s[i]
               /\ \A i \in 1 .. Len(t) : (s \o t)[Len(s) + i] = t[i]
    BY <1>6
  <1>7. Text = PromptText \o line
    BY DEF Text, PromptText
  <1> QED
    BY <1>1, <1>2, <1>3, <1>4, <1>5, <1>6, <1>7

-----------------------------------------------------------------------------
\* The invariant: what stands before the cursor is the prompt, as far as it was put,
\* and the line; or the cursor is off the screen, and so far that the backspaces the
\* line allows do not bring it back.
EchoInv ==
    /\ TerminalInv
    /\ cursor \in 0 .. 256 * W - 1
    /\ at \in {"start", "clear", "put"} => line = <<>>
    /\ at = "clear" => todo = Prompt
    /\ at = "put" =>
         /\ \A i \in 1 .. Len(Prompt) : i <= Len(todo) =>
              todo[Len(todo) + 1 - i] = Prompt[Len(Prompt) + 1 - i]
         /\ Len(todo) <= Len(Prompt) =>
              Typed(Display, PromptText, Len(Joined(Prompt, Len(Prompt) - Len(todo))))
    /\ at = "poll" \/ (at = "echo" /\ buf \notin {Newline, Backspace}) =>
         Typed(Display, Text, Len(Text)) \/ cursor > W * H + Len(line)
    /\ at = "echo" /\ buf = Backspace =>
         /\ Len(line) < INPUT_MAX
         /\ \/ cursor > W * H + Len(line) + 1
            \/ \E text : /\ Typed(Display, text, Len(Text) + 1)
                         /\ \A i \in 1 .. Len(Text) : text[i] = Text[i]

LEMMA InitEcho == Init => EchoInv
  <1> SUFFICES ASSUME Init PROVE EchoInv
    OBVIOUS
  <1>1. SetCursor(0, 0) = 0
    BY Sizes DEF SetCursor, uint8, W
  <1>2. cursor = 0 /\ 0 \in 0 .. 256 * W - 1
    BY <1>1, Sizes DEF Init
  <1>3. at = "start" /\ line = <<>>
    BY DEF Init
  <1> QED
    BY <1>2, <1>3, InitTerminalInv DEF EchoInv

\* Keys and the clock change nothing that counts.
LEMMA EchoKeys ==
    ASSUME EchoInv, TerminalInv',
           UNCHANGED <<screen, cursor, at, todo, buf, line>>
    PROVE  EchoInv'
  <1>1. Display' = Display /\ Text' = Text
    BY DEF Display, Text
  <1> QED
    BY <1>1 DEF EchoInv

LEMMA EchoClock ==
    ASSUME EchoInv, TerminalInv', PutClock
    PROVE  EchoInv'
  <1> DEFINE e == [screen |-> screen', cursor |-> cursor]
  <1>1. UNCHANGED <<cursor, at, todo, buf, line>> /\ Text' = Text /\ Display' = e
    BY DEF PutClock, shellVars, Text, Display
  <1>2. \A j \in Cells \ ClockCells : e.screen[j] = Display.screen[j]
    BY DEF PutClock, Display
  <1>3. e.cursor = Display.cursor /\ Display.cursor \in Nat
    BY Sizes DEF Display, EchoInv
  <1> HIDE DEF e
  <1>4. ASSUME NEW text, NEW n \in Nat, Typed(Display, text, n) PROVE Typed(e, text, n)
    BY <1>2, <1>3, <1>4, TypedAgree
  <1>5. Len(Text) \in Nat /\ Len(Text) + 1 \in Nat
    BY Texts DEF EchoInv, TerminalInv
  <1>6. at = "put" /\ Len(todo) <= Len(Prompt) =>
          Len(Joined(Prompt, Len(Prompt) - Len(todo))) \in Nat
    <2> SUFFICES ASSUME at = "put", Len(todo) <= Len(Prompt)
                 PROVE  Len(Joined(Prompt, Len(Prompt) - Len(todo))) \in Nat
      OBVIOUS
    <2>1. todo \in Seq(Seq(STRING)) /\ Prompt \in Seq(Seq(STRING))
      BY Texts DEF EchoInv, TerminalInv
    <2>2. Len(Prompt) - Len(todo) \in 0 .. Len(Prompt)
      BY <2>1
    <2>3. Joined(Prompt, Len(Prompt) - Len(todo)) \in Seq(STRING)
      BY <2>1, <2>2, JoinedProperties
    <2> QED
      BY <2>3
  <1> QED
    BY <1>1, <1>4, <1>5, <1>6 DEF EchoInv

LEMMA EchoActivate ==
    ASSUME EchoInv, TerminalInv', Activate \/ ClearScreen, WrapsOffScreen
    PROVE  EchoInv'
  <1>1. at' = "put" /\ todo' = Prompt /\ line' = <<>>
    BY DEF Activate, ClearScreen, EchoInv, keyboardVars
  <1>2. cursor' \in 0 .. 256 * W - 1
    <2>1. SetCursor(0, 0) = 0
      BY Sizes DEF SetCursor, uint8, W
    <2>2. cursor' = 0 \/ cursor' = cursor
      BY <2>1 DEF Activate, ClearScreen, Show, screenVars
    <2> QED
      BY <2>2, Sizes DEF EchoInv
  <1>3. Len(Prompt) - Len(Prompt) = 0 /\ Len(Joined(Prompt, 0)) = 0
    BY Texts DEF EchoInv, TerminalInv
  <1>4. Typed(Display', PromptText, 0)
    BY DEF Typed
  <1>5. Typed(Display', PromptText, Len(Joined(Prompt, Len(Prompt) - Len(Prompt))))
    BY <1>3, <1>4
  <1> QED
    BY <1>1, <1>2, <1>5 DEF EchoInv, PromptText

\* All but the first entry, and all but the last.
LEMMA TailAndFront ==
    ASSUME NEW A, NEW s \in Seq(A), s # <<>>
    PROVE  /\ Len(s) \in Nat /\ Len(s) >= 1
           /\ Tail(s) \in Seq(A) /\ Len(Tail(s)) = Len(s) - 1
           /\ Tail(s) = <<>> <=> Len(s) = 1
           /\ \A i \in 1 .. Len(s) - 1 : Tail(s)[i] = s[i + 1]
           /\ Front(s) \in Seq(A) /\ Len(Front(s)) = Len(s) - 1
           /\ \A i \in 1 .. Len(s) - 1 : Front(s)[i] = s[i]
  <1>1. Len(s) \in Nat /\ Len(s) >= 1
    OBVIOUS
  <1>2. /\ Tail(s) \in Seq(A) /\ Len(Tail(s)) = Len(s) - 1
        /\ \A i \in 1 .. Len(s) - 1 : Tail(s)[i] = s[i + 1]
    BY HeadTailProperties
  <1>3. Len(s) - 1 \in Nat /\ Len(s) - 1 <= Len(s)
    BY <1>1
  <1>4. /\ SubSeq(s, 1, Len(s) - 1) \in Seq(A)
        /\ Len(SubSeq(s, 1, Len(s) - 1)) = Len(s) - 1
    BY <1>3, PrefixOK
  <1>5. \A i \in 1 .. Len(s) - 1 : SubSeq(s, 1, Len(s) - 1)[i] = s[i]
    BY <1>1
  <1>6. Tail(s) = <<>> <=> Len(Tail(s)) = 0
    BY <1>2, EmptySeq
  <1>7. Tail(s) = <<>> <=> Len(s) = 1
    BY <1>1, <1>2, <1>6
  <1> QED
    BY <1>1, <1>2, <1>4, <1>5, <1>7 DEF Front

\* A string of an output leaves the rest of the prompt to put; one of the prompt is
\* printed after what was printed of it.
LEMMA EchoPut ==
    ASSUME EchoInv, TerminalInv', PutNext, WrapsOffScreen, PromptPrints
    PROVE  EchoInv'
  <1> DEFINE L == Len(todo)
             M == Len(Prompt)
             s == todo[1]
  <1>1. /\ at = "put" /\ todo # <<>> /\ Head(todo) = s /\ line' = line /\ line = <<>>
        /\ todo' = Tail(todo) /\ at' = IF Tail(todo) = <<>> THEN "poll" ELSE "put"
        /\ todo \in Seq(Seq(STRING)) /\ buf' = buf
        /\ \A i \in 1 .. M : i <= L => todo[L + 1 - i] = Prompt[M + 1 - i]
    BY DEF EchoInv, TerminalInv, TypeOK, PutNext
  <1>2. L \in Nat /\ L >= 1 /\ s \in Seq(STRING) /\ Len(s) \in Nat
    BY <1>1
  <1>3. /\ Len(todo') = L - 1 /\ (Tail(todo) = <<>> <=> L = 1)
        /\ \A i \in 1 .. L - 1 : todo'[i] = todo[i + 1]
    <2>1. /\ Len(Tail(todo)) = L - 1 /\ Tail(todo) \in Seq(Seq(STRING))
          /\ \A i \in 1 .. L - 1 : Tail(todo)[i] = todo[i + 1]
      BY <1>1, TailAndFront
    <2>2. Tail(todo) = <<>> <=> L = 1
      BY <1>1, TailAndFront
    <2> QED
      BY <1>1, <1>2, <2>1, <2>2
  <1>4. Prompt \in Seq(Seq(STRING)) /\ M \in Nat /\ M >= 1
    BY Texts DEF EchoInv, TerminalInv
  <1>5. cursor \in 0 .. 256 * W - 1 /\ Len(s) \in 0 .. Len(s)
    BY <1>2 DEF EchoInv
  <1>6. screen' = Shown(s)[Len(s)].screen /\ cursor' = Shown(s)[Len(s)].cursor
    BY <1>1 DEF PutNext, Puts, Show
  <1>7. cursor' \in 0 .. 256 * W - 1
    BY <1>2, <1>5, <1>6, ShownCursors
  <1>8. \A i \in 1 .. M : i <= L - 1 => todo'[L - 1 + 1 - i] = Prompt[M + 1 - i]
    <2> SUFFICES ASSUME NEW i \in 1 .. M, i <= L - 1
                 PROVE  todo'[L - 1 + 1 - i] = Prompt[M + 1 - i]
      OBVIOUS
    <2>1. L - 1 + 1 - i \in 1 .. L - 1 /\ L - 1 + 1 - i + 1 = L + 1 - i /\ i <= L
      BY <1>2
    <2>2. todo'[L - 1 + 1 - i] = todo[L - 1 + 1 - i + 1]
      BY <1>3, <2>1
    <2> QED
      BY <1>1, <2>1, <2>2
  <1>9. CASE L > M
    <2>1. at' = "put" /\ Tail(todo) # <<>> /\ L - 1 >= M
      BY <1>1, <1>2, <1>3, <1>4, <1>9
    <2>2. L - 1 <= M => M - (L - 1) = 0
      BY <1>2, <1>4, <2>1
    <2>3. Len(Joined(Prompt, 0)) = 0 /\ Typed(Display', PromptText, 0)
      BY Texts DEF EchoInv, TerminalInv, Typed
    <2>4. L - 1 <= M => Typed(Display', PromptText, Len(Joined(Prompt, M - (L - 1))))
      BY <2>2, <2>3
    <2> QED
      BY <1>1, <1>3, <1>7, <1>8, <2>1, <2>4 DEF EchoInv, PromptText
  <1>10. CASE L <= M
    <2> DEFINE k == M - L + 1
               n == Len(Joined(Prompt, k - 1))
    <2>1. k \in 1 .. M /\ k - 1 = M - L /\ k = M - (L - 1) /\ k = M + 1 - L /\ L \in 1 .. M
      BY <1>2, <1>4, <1>10
    <2>2. s = Prompt[k]
      <3>1. L + 1 - L = 1
        BY <1>2
      <3> QED
        BY <1>1, <2>1, <3>1
    <2>3. Typed(Display, PromptText, n)
      BY <1>1, <1>10, <2>1 DEF EchoInv
    <2> HIDE DEF k, n
    <2>4. /\ Len(Joined(Prompt, k - 1)) \in Nat
          /\ Len(Joined(Prompt, k)) = Len(Joined(Prompt, k - 1)) + Len(Prompt[k])
          /\ Len(Joined(Prompt, k)) <= Len(FlattenSeq(Prompt))
          /\ \A i \in 1 .. Len(Prompt[k]) :
               FlattenSeq(Prompt)[Len(Joined(Prompt, k - 1)) + i] = Prompt[k][i]
      BY <1>4, <2>1, JoinedNext
    <2>5. /\ n \in Nat /\ Len(Joined(Prompt, k)) = n + Len(s)
          /\ n + Len(s) <= Len(PromptText)
          /\ \A i \in 1 .. Len(s) : PromptText[n + i] = s[i]
      BY <2>2, <2>4 DEF n, PromptText
    <2>6. \A i \in 1 .. Len(s) : s[i] \notin {Newline, Backspace}
      <3> SUFFICES ASSUME NEW i \in 1 .. Len(s) PROVE s[i] \notin {Newline, Backspace}
        OBVIOUS
      <3>1. PromptText \in Seq(STRING) /\ Len(PromptText) \in Nat
        BY Texts DEF EchoInv, TerminalInv
      <3>2. n + i \in 1 .. Len(PromptText)
        BY <1>2, <2>5, <3>1
      <3>3. n + i \in DOMAIN PromptText
        BY <3>1, <3>2
      <3> QED
        BY <2>5, <3>3 DEF PromptPrints, PromptText
    <2>7. Typed(Shown(s)[Len(s)], PromptText, n + Len(s))
      BY <1>2, <1>5, <2>3, <2>5, <2>6, ShownTyped
    <2>8. Typed(Display', PromptText, Len(Joined(Prompt, k)))
      BY <1>6, <2>5, <2>7 DEF Typed, Display
    <2>9. CASE L = 1
      <3>1. at' = "poll" /\ k = M
        BY <1>1, <1>3, <1>4, <2>1, <2>9
      <3>2. Text' = PromptText /\ Len(Joined(Prompt, M)) = Len(PromptText)
        <4>1. line' = <<>> /\ PromptText \in Seq(STRING) /\ Joined(Prompt, M) = PromptText
          BY <1>1, Texts DEF EchoInv, TerminalInv
        <4>2. PromptText \o <<>> = PromptText
          BY <4>1
        <4> QED
          BY <4>1, <4>2 DEF Text, PromptText
      <3>3. Typed(Display', Text', Len(Text'))
        BY <2>8, <3>1, <3>2
      <3> QED
        BY <1>7, <3>1, <3>3 DEF EchoInv
    <2>10. CASE L # 1
      <3>1. at' = "put"
        BY <1>1, <1>3, <2>10
      <3>2. Typed(Display', PromptText, Len(Joined(Prompt, M - (L - 1))))
        BY <2>1, <2>8
      <3> QED
        BY <1>1, <1>3, <1>7, <1>8, <3>1, <3>2 DEF EchoInv, PromptText
    <2> QED
      BY <2>9, <2>10
  <1> QED
    BY <1>2, <1>4, <1>9, <1>10

\* A backspace that was read takes the last character out of the line.
LEMMA EchoGetKey ==
    ASSUME EchoInv, TerminalInv', GetKey
    PROVE  EchoInv'
  <1> DEFINE c == keyboard_buffer
  <1>1. /\ at = "poll" /\ UNCHANGED <<screen, cursor, todo>> /\ buf' = c
        /\ at' = AfterRead(c).at /\ line' = AfterRead(c).line
    BY DEF GetKey, screenVars
  <1>2. Typed(Display, Text, Len(Text)) \/ cursor > W * H + Len(line)
    BY <1>1 DEF EchoInv
  <1>3. Display' = Display /\ cursor' = cursor /\ cursor \in 0 .. 256 * W - 1
    BY <1>1 DEF Display, EchoInv
  <1>4. CASE c = NUL \/ (c = Backspace /\ line = <<>>)
    <2>1. at' = "poll" /\ line' = line /\ Text' = Text
      BY <1>1, <1>4 DEF AfterRead, Text
    <2> QED
      BY <1>2, <1>3, <2>1 DEF EchoInv
  <1>5. CASE c # NUL /\ c # Backspace
    <2>1. at' = "echo" /\ line' = line /\ Text' = Text
      BY <1>1, <1>5 DEF AfterRead, Text
    <2> QED
      BY <1>1, <1>2, <1>3, <1>5, <2>1 DEF EchoInv
  <1>6. CASE c = Backspace /\ line # <<>>
    <2>1. at' = "echo" /\ line' = Front(line)
      BY <1>1, <1>6 DEF AfterRead, NUL, Backspace
    <2>2. line \in Seq(Printables) /\ Len(line) <= INPUT_MAX /\ Len(line) \in Nat /\ Len(line) >= 1
      BY <1>6 DEF EchoInv, TerminalInv, TypeOK
    <2>3. /\ Len(Front(line)) = Len(line) - 1
          /\ \A i \in 1 .. Len(line) - 1 : Front(line)[i] = line[i]
      BY <1>6, <2>2, TailAndFront
    <2>4. TypeOK /\ TypeOK'
      BY DEF EchoInv, TerminalInv
    <2>5. /\ Len(Text) = Len(PromptText) + Len(line) /\ Len(PromptText) \in Nat
          /\ \A i \in 1 .. Len(PromptText) : Text[i] = PromptText[i]
          /\ \A i \in 1 .. Len(line) : Text[Len(PromptText) + i] = line[i]
      BY <2>4, Texts
    <2>6. /\ Len(Text') = Len(PromptText) + Len(line')
          /\ \A i \in 1 .. Len(PromptText) : Text'[i] = PromptText[i]
          /\ \A i \in 1 .. Len(line') : Text'[Len(PromptText) + i] = line'[i]
      <3>1. Text' = PromptText \o line' /\ PromptText \in Seq(STRING) /\ line' \in Seq(Printables)
        BY <2>4, Texts DEF Text, PromptText, TypeOK
      <3> QED
        BY <3>1
    <2>7. Len(line') = Len(line) - 1 /\ Len(Text) = Len(Text') + 1 /\ Len(Text') \in Nat
      <3>1. Len(line') = Len(line) - 1
        BY <2>1, <2>3
      <3> QED
        BY <2>2, <2>5, <2>6, <3>1
    <2>8. \A i \in 1 .. Len(Text') : Text[i] = Text'[i]
      <3> SUFFICES ASSUME NEW i \in 1 .. Len(Text') PROVE Text[i] = Text'[i]
        OBVIOUS
      <3>1. CASE i <= Len(PromptText)
        BY <2>5, <2>6, <2>7, <3>1
      <3>2. CASE i > Len(PromptText)
        <4> DEFINE j == i - Len(PromptText)
        <4>1. j \in 1 .. Len(line') /\ j \in 1 .. Len(line) - 1 /\ j \in 1 .. Len(line)
              /\ i = Len(PromptText) + j
          BY <2>2, <2>5, <2>6, <2>7, <3>2
        <4> HIDE DEF j
        <4> QED
          BY <2>1, <2>3, <2>5, <2>6, <4>1
      <3> QED
        BY <2>5, <2>7, <3>1, <3>2
    <2>9. Len(line') < INPUT_MAX
      BY <2>2, <2>7, Sizes
    <2>10. cursor > W * H + Len(line) => cursor' > W * H + Len(line') + 1
      BY <1>3, <2>2, <2>7, Sizes
    <2>11. Typed(Display, Text, Len(Text)) => Typed(Display', Text, Len(Text') + 1)
      BY <1>3, <2>7
    <2>12. at' = "echo" /\ buf' = Backspace
      BY <1>1, <1>6, <2>1
    <2>13. \/ cursor' > W * H + Len(line') + 1
           \/ \E text : /\ Typed(Display', text, Len(Text') + 1)
                        /\ \A i \in 1 .. Len(Text') : text[i] = Text'[i]
      BY <1>2, <2>8, <2>10, <2>11
    <2> QED
      BY <1>3, <2>9, <2>12, <2>13 DEF EchoInv
  <1> QED
    BY <1>4, <1>5, <1>6

\* A character of the line is printed after it, a backspace erases the one that was
\* taken out, and a newline begins the next output.
LEMMA EchoEcho ==
    ASSUME EchoInv, TerminalInv', Echo, WrapsOffScreen
    PROVE  EchoInv'
  <1>1. /\ at = "echo" /\ buf' = buf
        /\ screen' = PutChar(Display, buf).screen /\ cursor' = PutChar(Display, buf).cursor
    BY DEF Echo, Show
  <1>2. /\ Display.cursor = cursor /\ Display.cursor \in 0 .. 256 * W - 1
        /\ cursor \in 0 .. 256 * W - 1 /\ cursor \in Nat
    BY Sizes DEF EchoInv, Display
  <1>3. cursor' \in 0 .. 256 * W - 1
    BY <1>1, <1>2, CursorStays
  <1>4. Display'.cursor = cursor' /\ Display'.screen = screen'
    BY DEF Display
  <1>5. TypeOK /\ Len(Text) \in Nat /\ Len(line) \in Nat
    <2>1. TypeOK
      BY DEF EchoInv, TerminalInv
    <2> QED
      BY <2>1, Texts
  <1>6. CASE at' = "lost"
    BY <1>3, <1>6 DEF EchoInv
  <1>7. CASE Fits(buf) /\ buf # Newline /\ at' = "poll" /\ line' = LineAfter(buf)
    <2>1. CASE buf = Backspace
      <3>1. line' = line /\ Text' = Text
        BY <1>7, <2>1 DEF LineAfter, Text
      <3>2. PutChar(Display, buf) = PutBackspace(Display)
        BY <2>1 DEF PutChar, Backspace, Newline
      <3>3. Len(line) < INPUT_MAX
        BY <1>1, <2>1 DEF EchoInv
      <3>4. CASE cursor > W * H + Len(line) + 1
        <4>1. cursor # 0 /\ cursor - 1 > W * H + Len(line)
          BY <1>2, <1>5, <3>4, Sizes
        <4>2. cursor' = cursor - 1
          BY <1>1, <1>2, <3>2, <4>1, BackspacePlaces
        <4>3. cursor' > W * H + Len(line')
          BY <3>1, <4>1, <4>2
        <4> QED
          BY <1>3, <1>7, <4>3 DEF EchoInv
      <3>5. CASE \E text : /\ Typed(Display, text, Len(Text) + 1)
                           /\ \A i \in 1 .. Len(Text) : text[i] = Text[i]
        <4>1. PICK text : /\ Typed(Display, text, Len(Text) + 1)
                          /\ \A i \in 1 .. Len(Text) : text[i] = Text[i]
          BY <3>5
        <4>2. CASE Typed(PutBackspace(Display), text, Len(Text))
          <5>1. /\ Display'.cursor = PutBackspace(Display).cursor
                /\ Display'.screen = PutBackspace(Display).screen
                /\ PutBackspace(Display).cursor \in Nat
            BY <1>1, <1>3, <1>4, <3>2, Sizes
          <5>2. Typed(Display', Text, Len(Text))
            BY <1>5, <4>1, <4>2, <5>1, TypedAgree
          <5>3. Typed(Display', Text', Len(Text'))
            BY <3>1, <5>2
          <5> QED
            BY <1>3, <1>7, <5>3 DEF EchoInv
        <4>3. CASE Display.cursor = 0 /\ PutBackspace(Display).cursor = Wrap
          <5>1. cursor' = Wrap
            BY <1>1, <3>2, <4>3
          <5>2. W * H + INPUT_MAX <= Wrap
            BY DEF WrapsOffScreen
          <5>3. cursor' > W * H + Len(line')
            BY <1>3, <1>5, <3>1, <3>3, <5>1, <5>2, Sizes
          <5> QED
            BY <1>3, <1>7, <5>3 DEF EchoInv
        <4> QED
          BY <1>2, <1>5, <4>1, <4>2, <4>3, EraseTyped
      <3> QED
        BY <1>1, <2>1, <3>4, <3>5 DEF EchoInv
    <2>2. CASE buf # Backspace
      <3>1. line' = Append(line, buf)
        BY <1>7, <2>2 DEF LineAfter
      <3>2. PutChar(Display, buf) = PutPrintable(Display, buf)
        BY <1>7, <2>2 DEF PutChar
      <3>3. Typed(Display, Text, Len(Text)) \/ cursor > W * H + Len(line)
        BY <1>1, <1>7, <2>2 DEF EchoInv
      <3>4. /\ Len(Text') = Len(Text) + 1 /\ Text'[Len(Text) + 1] = buf
            /\ \A i \in 1 .. Len(Text) : Text'[i] = Text[i]
        <4> DEFINE n == Len(PromptText)
        <4>1. /\ Len(Text) = n + Len(line) /\ n \in Nat /\ PromptText \in Seq(STRING)
              /\ \A i \in 1 .. n : Text[i] = PromptText[i]
              /\ \A i \in 1 .. Len(line) : Text[n + i] = line[i]
          BY <1>5, Texts
        <4>2. line \in Seq(Printables) /\ line' \in Seq(Printables)
          BY <1>5 DEF TerminalInv, TypeOK
        <4>3. /\ Len(line') = Len(line) + 1 /\ line'[Len(line) + 1] = buf
              /\ \A i \in 1 .. Len(line) : line'[i] = line[i]
          BY <1>5, <3>1, <4>2
        <4>4. Text' = PromptText \o line'
          BY DEF Text, PromptText
        <4>5. /\ Len(Text') = n + Len(line')
              /\ \A i \in 1 .. n : Text'[i] = PromptText[i]
              /\ \A i \in 1 .. Len(line') : Text'[n + i] = line'[i]
          BY <4>1, <4>2, <4>4
        <4> HIDE DEF n
        <4>6. Len(Text') = Len(Text) + 1
          BY <1>5, <4>1, <4>3, <4>5
        <4>7. Text'[Len(Text) + 1] = buf
          <5>1. Len(line) + 1 \in 1 .. Len(line') /\ Len(Text) + 1 = n + (Len(line) + 1)
            BY <1>5, <4>1, <4>3
          <5> QED
            BY <4>3, <4>5, <5>1
        <4>8. ASSUME NEW i \in 1 .. Len(Text) PROVE Text'[i] = Text[i]
          <5>1. CASE i <= n
            BY <4>1, <4>5, <5>1
          <5>2. CASE i > n
            <6> DEFINE j == i - n
            <6>1. j \in 1 .. Len(line) /\ j \in 1 .. Len(line') /\ i = n + j
              BY <1>5, <4>1, <4>3, <5>2
            <6> HIDE DEF j
            <6> QED
              BY <4>1, <4>3, <4>5, <6>1
          <5> QED
            BY <4>1, <5>1, <5>2
        <4> QED
          BY <4>6, <4>7, <4>8
      <3>5. Typed(Display, Text', Len(Text)) \/ Display.cursor > W * H
        <4>1. CASE Typed(Display, Text, Len(Text))
          BY <1>2, <1>5, <3>4, <4>1, TypedAgree
        <4>2. CASE cursor > W * H + Len(line)
          BY <1>2, <1>5, <4>2, Sizes
        <4> QED
          BY <3>3, <4>1, <4>2
      <3>6. Typed(PutPrintable(Display, Text'[Len(Text) + 1]), Text', Len(Text) + 1)
        <4> DEFINE text == Text'
                   n == Len(Text)
        <4> HIDE DEF text, n
        <4>1. Typed(Display, text, n) \/ Display.cursor > W * H
          BY <3>5 DEF text, n
        <4>2. n \in Nat
          BY <1>5 DEF n
        <4>3. Typed(PutPrintable(Display, text[n + 1]), text, n + 1)
          BY <1>2, <4>1, <4>2, PrintTyped
        <4> QED
          BY <4>3 DEF text, n
      <3>7. Typed(PutChar(Display, buf), Text', Len(Text'))
        BY <3>2, <3>4, <3>6
      <3>8. Typed(Display', Text', Len(Text'))
        BY <1>1, <1>4, <3>7 DEF Typed
      <3> QED
        BY <1>3, <1>7, <3>8 DEF EchoInv
    <2> QED
      BY <2>1, <2>2
  <1>8. CASE /\ \/ at' = "put" /\ \E output \in Outputs : todo' = output \o Prompt
                \/ at' = "clear" /\ todo' = Prompt
             /\ line' = <<>>
    <2> DEFINE M == Len(Prompt)
    <2>1. Prompt \in Seq(Seq(STRING)) /\ M \in Nat /\ M >= 1 /\ Len(Joined(Prompt, 0)) = 0
      BY <1>5, Texts
    <2>2. CASE at' = "clear"
      BY <1>3, <1>8, <2>2 DEF EchoInv
    <2>3. CASE at' = "put"
      <3>1. PICK output \in Outputs : todo' = output \o Prompt
        BY <1>8, <2>3
      <3>2. output \in Seq(Seq(STRING))
        BY TerminalAssumption DEF TerminalAssumption
      <3>3. /\ Len(output) \in Nat /\ Len(todo') = Len(output) + M
            /\ \A j \in 1 .. M : todo'[Len(output) + j] = Prompt[j]
        BY <2>1, <3>1, <3>2
      <3>4. \A i \in 1 .. M : i <= Len(todo') => todo'[Len(todo') + 1 - i] = Prompt[M + 1 - i]
        <4> SUFFICES ASSUME NEW i \in 1 .. M
                     PROVE  todo'[Len(todo') + 1 - i] = Prompt[M + 1 - i]
          OBVIOUS
        <4>1. M + 1 - i \in 1 .. M /\ Len(todo') + 1 - i = Len(output) + (M + 1 - i)
          BY <2>1, <3>3
        <4> QED
          BY <3>3, <4>1
      <3>5. Len(todo') <= M => Typed(Display', PromptText, Len(Joined(Prompt, M - Len(todo'))))
        <4> SUFFICES ASSUME Len(todo') <= M
                     PROVE  Typed(Display', PromptText, Len(Joined(Prompt, M - Len(todo'))))
          OBVIOUS
        <4>1. M - Len(todo') = 0
          BY <2>1, <3>3
        <4>2. Typed(Display', PromptText, 0)
          BY DEF Typed
        <4> QED
          BY <2>1, <4>1, <4>2
      <3> QED
        BY <1>3, <1>8, <2>3, <3>4, <3>5 DEF EchoInv, PromptText
    <2> QED
      BY <1>8, <2>2, <2>3
  <1> QED
    BY <1>6, <1>7, <1>8 DEF Echo

LEMMA NextEcho ==
    ASSUME WrapsOffScreen, PromptPrints, EchoInv, [Next]_vars PROVE EchoInv'
  <1>1. TerminalInv'
    BY NextTerminalInv DEF EchoInv
  <1>2. ASSUME NEW k \in Keys, Press(k) \/ Release(k) PROVE EchoInv'
    BY <1>1, <1>2, EchoKeys DEF Press, Release, screenVars, shellVars
  <1>3. CASE Shell
    BY <1>1, <1>3, EchoActivate, EchoPut, EchoGetKey, EchoEcho DEF Shell
  <1>4. CASE PutClock
    BY <1>1, <1>4, EchoClock
  <1>5. CASE UNCHANGED vars
    BY <1>1, <1>5, EchoKeys DEF vars, screenVars, shellVars
  <1> QED
    BY <1>2, <1>3, <1>4, <1>5 DEF Next

\* What stands before the cursor when the shell waits for a key is the prompt and what
\* it will run, through every mix of echoes, backspaces, full and cleared screens and
\* outputs, whatever the size of the screen and of the line, as long as the prompt is
\* printed and the cursor that a backspace wraps is off the screen.
THEOREM WhatIsSeenIsRun ==
    WrapsOffScreen /\ PromptPrints /\ Spec => []EchoMatchesLine
  <1>1. EchoInv => EchoMatchesLine
    <2> SUFFICES ASSUME EchoInv, at = "poll", NEW i \in OnScreen
                 PROVE  \/ screen[cursor - i] = Text[Len(Text) + 1 - i]
                        \/ cursor - i \in ClockCells
      BY DEF EchoMatchesLine
    <2>1. cursor - 1 \in Cells /\ i \in 1 .. Len(Text) /\ i <= cursor
      BY DEF OnScreen
    <2>2. Len(line) \in Nat /\ Len(Text) \in Nat /\ cursor \in Nat
      <3>1. TypeOK
        BY DEF EchoInv, TerminalInv
      <3> QED
        BY <3>1, Texts, Sizes DEF EchoInv
    <2>3. ~(cursor > W * H + Len(line))
      BY <2>1, <2>2, Sizes
    <2>4. Typed(Display, Text, Len(Text))
      BY <2>3 DEF EchoInv
    <2> QED
      BY <2>1, <2>2, <2>4 DEF Typed, Display
  <1>2. CASE WrapsOffScreen /\ PromptPrints
    <2>1. EchoInv /\ [Next]_vars => EchoInv'
      BY <1>2, NextEcho
    <2> QED
      BY <1>1, <2>1, InitEcho, PTL DEF Spec
  <1>3. CASE ~(WrapsOffScreen /\ PromptPrints)
    BY <1>3
  <1> QED
    BY <1>2, <1>3

-----------------------------------------------------------------------------
\* Rows grow with positions.
LEMMA QuotientsGrow ==
    ASSUME NEW w \in Nat, NEW a \in Nat, NEW b \in Nat, NEW r \in 0 .. w - 1, NEW s \in 0 .. w - 1,
           a * w + r <= b * w + s
    PROVE  a <= b
  <1>1. CASE b + 1 <= a
    <2>1. (b + 1) * w <= a * w /\ (b + 1) * w = b * w + w /\ b * w \in Nat /\ a * w \in Nat
      BY <1>1, Products
    <2> QED
      BY <2>1
  <1> QED
    BY <1>1

LEMMA RowsGrow ==
    ASSUME NEW p \in 0 .. 256 * W - 1, NEW q \in 0 .. 256 * W - 1, p <= q
    PROVE  RowOf(p) <= RowOf(q)
  <1>1. RowOf(p) \in 0 .. 255 /\ ColOf(p) \in 0 .. W - 1 /\ p = RowOf(p) * W + ColOf(p)
    BY Placed
  <1>2. RowOf(q) \in 0 .. 255 /\ ColOf(q) \in 0 .. W - 1 /\ q = RowOf(q) * W + ColOf(q)
    BY Placed
  <1>3. RowOf(p) \in Nat /\ RowOf(q) \in Nat
    <2>1. 0 .. 255 \subseteq Nat
      OBVIOUS
    <2> QED
      BY <1>1, <1>2, <2>1, Zenon
  <1>4. W \in Nat
    BY Sizes
  <1>5. RowOf(p) * W + ColOf(p) <= RowOf(q) * W + ColOf(q)
    BY <1>1, <1>2, Zenon
  <1> QED
    BY <1>1, <1>2, <1>3, <1>4, <1>5, QuotientsGrow, Zenon

LEMMA RowStarts ==
    ASSUME NEW q \in 0 .. 255
    PROVE  q * W \in 0 .. 256 * W - 1 /\ RowOf(q * W) = q /\ SetCursor(q, 0) = q * W
  <1>1. W \in Nat /\ W >= 1 /\ W <= 255
    BY Sizes
  <1>2. q * W \in Nat /\ q * W <= 255 * W
    BY <1>1, Products
  <1>3. q * W \in 0 .. 256 * W - 1
    BY <1>1, <1>2
  <1>4. (q * W + 0) \div W = q
    BY <1>1, DivisionIs
  <1>5. q * W + 0 = q * W
    BY <1>2
  <1>6. (q * W) \div W = q
    BY <1>4, <1>5
  <1>7. uint8(q) = q /\ uint8(0) = 0
    BY DEF uint8
  <1> QED
    BY <1>3, <1>5, <1>6, <1>7 DEF RowOf, SetCursor, W

-----------------------------------------------------------------------------
\* Nothing but erased cells and the clock stands behind the cursor of d.
Clean(d) ==
    \A i \in Cells : i >= d.cursor /\ i \notin ClockCells => d.screen[i] \in {NUL, Space}

\* The screen was cleared, which leaves the first cell alone.
Cleared(d) ==
    /\ d.cursor = 0
    /\ \A i \in Cells : i # 0 /\ i \notin ClockCells => d.screen[i] \in {NUL, Space}

\* Nothing but erased cells and the clock stands anywhere.
Blank(d) == \A i \in Cells : i \notin ClockCells => d.screen[i] \in {NUL, Space}

\* What the shell finds when it waits: the cursor is no further than below the last row,
\* unless backspaces brought it before the first cell, when nothing is left to see.
Settled(d) == Clean(d) /\ (Blank(d) \/ RowOf(d.cursor) <= H)

\* The last t of the first n characters of text are newlines.
Gap(text, n, t) == t \in 0 .. n /\ \A j \in 1 .. n : j > n - t => text[j] = Newline

\* What a command may put: no backspace, and no more newlines in a row than there are
\* rows of a uint8_t below the ones the line ends in.
ShortGaps(text) ==
    /\ \A i \in 1 .. Len(text) : text[i] # Backspace
    /\ \A n \in 0 .. Len(text) : \A t \in 0 .. n :
         Gap(text, n, t) => H + 1 + t <= 255

\* After n characters of text, and the newline before it, the cursor is no lower than
\* the newlines put it.
Low(d, text, n) ==
    \/ Blank(d)
    \/ \E t \in Nat : /\ Gap(text, n, t)
                      /\ RowOf(d.cursor) <= H + t + (IF t = n THEN 1 ELSE 0)

\* The positions of the screen, and the one below it.
LEMMA ScreenRows ==
    \A p \in 0 .. W * H : p \in 0 .. 256 * W - 1 /\ RowOf(p) <= H
  <1> SUFFICES ASSUME NEW p \in 0 .. W * H
               PROVE  p \in 0 .. 256 * W - 1 /\ RowOf(p) <= H
    OBVIOUS
  <1>1. p \in 0 .. 256 * W - 1
    BY Sizes
  <1>2. ASSUME NEW r \in 0 .. 255, NEW h \in 1 .. 255, r <= h - 1 PROVE r <= h
    BY <1>2
  <1>3. CASE p < W * H
    <2>1. RowOf(p) \in 0 .. 255 /\ RowOf(p) <= H - 1 /\ H \in 1 .. 255
      BY <1>1, <1>3, Placed, Sizes
    <2> QED
      BY <1>1, <1>2, <2>1, Zenon
  <1>4. CASE p = W * H
    <2>1. H \in 0 .. 255 /\ p = H * W
      BY <1>4, Sizes
    <2>2. RowOf(H * W) = H
      BY <2>1, RowStarts
    <2>3. H <= H
      BY <2>1
    <2> QED
      BY <1>1, <2>1, <2>2, <2>3, Zenon
  <1> QED
    BY <1>3, <1>4, Sizes

\* A printed character leaves a clean screen.
LEMMA PrintClean ==
    ASSUME NEW d, d.cursor \in 0 .. 256 * W - 1, Clean(d) \/ Cleared(d), NEW c
    PROVE  Clean(PutPrintable(d, c)) /\ RowOf(PutPrintable(d, c).cursor) <= H
  <1> DEFINE e == PutPrintable(d, c)
             p == d.cursor
  <1>0. /\ RowOf(p) \in 0 .. 255 /\ ColOf(p) \in 0 .. W - 1
        /\ p = RowOf(p) * W + ColOf(p)
        /\ SetCursor(RowOf(p), ColOf(p) + 1) = p + 1
        /\ p < W * H <=> RowOf(p) <= H - 1
    BY Placed
  <1>1. CASE p < W * H
    <2>1. /\ e.screen = [i \in Cells |-> IF i = p THEN c ELSE d.screen[i]]
          /\ e.cursor = p + 1
      <3>1. RowOf(p) * RESOLUTION_WIDTH + ColOf(p) = p
        BY <1>0 DEF W
      <3>2. RowOf(p) <= RESOLUTION_HEIGHT - 1 /\ ColOf(p) <= RESOLUTION_WIDTH - 1
        BY <1>0, <1>1, Sizes DEF W, H
      <3> QED
        BY <1>0, <3>1, <3>2 DEF PutPrintable, Write
    <2>2. p \in Nat /\ p + 1 \in 0 .. W * H
      BY <1>1, Sizes
    <2>3. RowOf(e.cursor) <= H
      BY <2>1, <2>2, ScreenRows
    <2>4. \A i \in Cells : i >= p + 1 => i >= p /\ i # p /\ i # 0
      BY <2>2, Sizes
    <2>5. Clean(e)
      <3> HIDE DEF e
      <3> QED
        BY <2>1, <2>4 DEF Clean, Cleared
    <2> QED
      BY <2>3, <2>5
  <1>2. CASE ~(p < W * H)
    <2>1. e.screen = Write(Clear(d.screen), 0, 0, c) /\ e.cursor = SetCursor(0, 1)
      BY <1>0, <1>2, Sizes DEF PutPrintable, H
    <2>2. SetCursor(0, 1) = 1
      BY Sizes DEF SetCursor, uint8, W
    <2>3. 0 * RESOLUTION_WIDTH + 0 = 0 /\ 1 \in 0 .. W * H
      <3>1. 1 * W <= H * W
        BY Sizes, Products
      <3> QED
        BY <3>1, Sizes DEF W
    <2>4. \A i \in Cells : i # 0 => e.screen[i] = NUL
      BY <2>1, <2>3 DEF Write, Clear
    <2>5. \A i \in Cells : i >= 1 => i # 0
      BY Sizes
    <2>6. Clean(e)
      <3> HIDE DEF e
      <3> QED
        BY <2>1, <2>2, <2>4, <2>5 DEF Clean
    <2> QED
      BY <2>1, <2>2, <2>3, <2>6, ScreenRows
  <1> QED
    BY <1>1, <1>2

\* A newline in a row that has a next one moves the cursor on.
LEMMA NewlineClean ==
    ASSUME NEW d, IsDisplay(d), d.cursor \in 0 .. 256 * W - 1, Clean(d), RowOf(d.cursor) < 255
    PROVE  Clean(PutNewline(d)) /\ RowOf(PutNewline(d).cursor) = RowOf(d.cursor) + 1
  <1> DEFINE q == RowOf(d.cursor)
             e == PutNewline(d)
  <1>1. q \in 0 .. 255 /\ ColOf(d.cursor) \in 0 .. W - 1 /\ d.cursor = q * W + ColOf(d.cursor)
    BY Placed
  <1>2. q + 1 \in 0 .. 255 /\ q \in Nat
    BY <1>1
  <1>3. SetCursor(q + 1, 0) = (q + 1) * W /\ RowOf((q + 1) * W) = q + 1
    BY <1>2, RowStarts
  <1>4. e.cursor = (q + 1) * W /\ e.screen = d.screen
    BY <1>3 DEF PutNewline, IsDisplay
  <1> HIDE DEF q, e
  <1>5. W \in Nat /\ d.cursor \in Nat
    BY Sizes
  <1>6. (q + 1) * W = q * W + W /\ q * W \in Nat
    BY <1>2, <1>5
  <1>7. d.cursor <= (q + 1) * W /\ (q + 1) * W \in Nat
    BY <1>1, <1>5, <1>6
  <1>8. \A i \in Cells : i >= e.cursor => i >= d.cursor
    BY <1>4, <1>5, <1>7, Sizes
  <1>9. Clean(e)
    BY <1>4, <1>8 DEF Clean
  <1> QED
    BY <1>3, <1>4, <1>9 DEF e, q

\* Naturals that the rows of cursors are.
LEMMA RowSums ==
    ASSUME NEW r \in 0 .. 255, NEW s \in 0 .. 255, NEW w \in 0 .. 255, NEW u \in Nat,
           NEW b \in {0, 1}
    PROVE  /\ r <= s /\ s <= w => r <= w
           /\ r <= w + (u - 1) + b /\ w + 1 + u <= 255 /\ u >= 1 => r < 255
           /\ r <= w + (u - 1) + b => r + 1 <= w + u + b
           /\ r <= w => r <= w + 0 + b
  OBVIOUS

\* A backspace erases the cell it moves to; before the first one, nothing is left.
LEMMA BackspaceClean ==
    ASSUME WrapsOffScreen, NEW d, d.cursor \in 0 .. 256 * W - 1, Settled(d)
    PROVE  Settled(PutBackspace(d))
  <1> DEFINE e == PutBackspace(d)
             p == d.cursor
  <1>1. CASE p = 0
    <2>1. Blank(d)
      BY <1>1, Sizes DEF Settled, Clean, Blank
    <2>2. \A i \in Cells : e.screen[i] \in {d.screen[i], Space}
      BY DEF PutBackspace, Write
    <2> HIDE DEF e
    <2>3. Blank(e)
      BY <2>1, <2>2 DEF Blank
    <2> QED
      BY <2>3 DEF Blank, Clean, Settled, e
  <1>2. CASE p # 0
    <2>1. /\ e.cursor = p - 1
          /\ e.screen = [i \in Cells |-> IF i = p - 1 THEN Space ELSE d.screen[i]]
      BY <1>2, BackspacePlaces
    <2>2. p \in Nat /\ p - 1 \in 0 .. 256 * W - 1 /\ p - 1 <= p
      BY <1>2, Sizes
    <2>3. RowOf(p - 1) <= RowOf(p)
      BY <2>2, RowsGrow
    <2>4. RowOf(p - 1) \in 0 .. 255 /\ RowOf(p) \in 0 .. 255 /\ H \in 0 .. 255
      <3>1. H \in 0 .. 255
        BY Sizes
      <3> QED
        BY <2>2, <3>1, Placed, Zenon
    <2>5. RowOf(p) <= H => RowOf(p - 1) <= H
      BY <2>3, <2>4, RowSums, Zenon
    <2>6. \A i \in Cells : i >= p - 1 => i = p - 1 \/ i >= p
      BY <2>2, Sizes
    <2> HIDE DEF e
    <2>7. Clean(e)
      BY <2>1, <2>6 DEF Clean, Settled
    <2>8. Blank(d) => Blank(e)
      BY <2>1 DEF Blank
    <2> QED
      BY <2>1, <2>5, <2>7, <2>8 DEF Settled, e
  <1> QED
    BY <1>1, <1>2

\* The next character of what is put.
LEMMA CharClean ==
    ASSUME WrapsOffScreen, NEW d, IsDisplay(d), d.cursor \in 0 .. 256 * W - 1,
           NEW text, NEW n \in Nat, Len(text) \in Nat, n + 1 <= Len(text), ShortGaps(text),
           Low(d, text, n), Clean(d) \/ (Cleared(d) /\ text[n + 1] # Newline)
    PROVE  /\ Clean(PutChar(d, text[n + 1]))
           /\ Low(PutChar(d, text[n + 1]), text, n + 1)
  <1> DEFINE m == n + 1
             c == text[m]
             e == PutChar(d, c)
             N == Len(text)
  <1>1. m \in 1 .. N /\ m \in 0 .. N /\ n \in 0 .. N /\ m # 0 /\ m - 1 = n
    OBVIOUS
  <1>2. c # Backspace
    BY <1>1 DEF ShortGaps
  <1>3. H \in 0 .. 255
    BY Sizes
  <1>4. Clean(d) \/ (Cleared(d) /\ c # Newline)
    OBVIOUS
  <1> HIDE DEF m, c, N
  <1>5. CASE c # Newline
    <2>1. e = PutPrintable(d, c)
      BY <1>2, <1>5 DEF PutChar
    <2>2. Clean(e) /\ RowOf(e.cursor) <= H
      BY <1>4, <2>1, PrintClean
    <2>3. Gap(text, m, 0)
      <3>1. 0 \in 0 .. m /\ \A j \in 1 .. m : ~(j > m - 0)
        BY <1>1
      <3> QED
        BY <3>1 DEF Gap
    <2>4. RowOf(e.cursor) <= H + 0 + (IF 0 = m THEN 1 ELSE 0)
      BY <1>1, <1>3, <2>2
    <2>5. Low(e, text, m)
      <3> HIDE DEF e
      <3> QED
        BY <2>3, <2>4 DEF Low
    <2> QED
      BY <2>2, <2>5 DEF c, m
  <1>6. CASE c = Newline /\ Blank(d)
    <2>1. e = PutNewline(d)
      BY <1>6 DEF PutChar, Newline, Backspace
    <2>2. e.screen = d.screen
      BY <2>1 DEF PutNewline, IsDisplay
    <2>3. Blank(e)
      <3> HIDE DEF e
      <3> QED
        BY <1>6, <2>2 DEF Blank
    <2> QED
      BY <2>3 DEF Blank, Clean, Low, c, m
  <1>7. CASE c = Newline /\ ~Blank(d)
    <2>1. e = PutNewline(d) /\ Clean(d)
      BY <1>4, <1>7 DEF PutChar, Newline, Backspace
    <2>2. PICK t \in Nat : /\ Gap(text, n, t)
                           /\ RowOf(d.cursor) <= H + t + (IF t = n THEN 1 ELSE 0)
      BY <1>7 DEF Low
    <2> DEFINE u == t + 1
    <2>3. Gap(text, m, u)
      <3>1. t \in 0 .. n /\ \A j \in 1 .. n : j > n - t => text[j] = Newline
        BY <2>2 DEF Gap
      <3>2. u \in 0 .. m
        BY <1>1, <3>1
      <3>3. ASSUME NEW j \in 1 .. m, j > m - u PROVE text[j] = Newline
        <4>1. CASE j = m
          BY <1>7, <4>1 DEF c
        <4>2. CASE j # m
          <5>1. j \in 1 .. n /\ j > n - t
            BY <1>1, <3>1, <3>3, <4>2
          <5> QED
            BY <3>1, <5>1
        <4> QED
          BY <4>1, <4>2
      <3> HIDE DEF u
      <3> QED
        BY <3>2, <3>3 DEF Gap
    <2>4. u \in Nat /\ t = u - 1 /\ (t = n <=> u = m)
      BY <1>1
    <2> HIDE DEF u
    <2>5. H + 1 + u <= 255
      <3>1. u \in 0 .. m /\ m \in 0 .. Len(text)
        BY <1>1, <2>3 DEF Gap, N
      <3> QED
        BY <2>3, <3>1 DEF ShortGaps
    <2>6. RowOf(d.cursor) \in 0 .. 255
      BY Placed
    <2> DEFINE b == IF u = m THEN 1 ELSE 0
    <2>b. /\ b \in {0, 1} /\ u >= 1
          /\ RowOf(d.cursor) <= H + (u - 1) + b
      BY <2>2, <2>4
    <2> HIDE DEF b
    <2>7. RowOf(d.cursor) < 255
      BY <1>3, <2>4, <2>5, <2>6, <2>b, RowSums
    <2>8. Clean(e) /\ RowOf(e.cursor) = RowOf(d.cursor) + 1
      BY <2>1, <2>7, NewlineClean
    <2>9. RowOf(d.cursor) + 1 <= H + u + (IF u = m THEN 1 ELSE 0)
      BY <1>3, <2>4, <2>6, <2>b, RowSums DEF b
    <2>10. Low(e, text, m)
      <3> HIDE DEF e
      <3> QED
        BY <2>3, <2>4, <2>8, <2>9 DEF Low
    <2> QED
      BY <2>8, <2>10 DEF c, m
  <1> QED
    BY <1>5, <1>6, <1>7

\* A string of it, put by one system call.
LEMMA ShownClean ==
    ASSUME WrapsOffScreen, NEW string, Len(string) \in Nat, cursor \in 0 .. 256 * W - 1,
           cursor \in Cursors,
           NEW text, NEW n \in Nat, Len(text) \in Nat, n + Len(string) <= Len(text),
           ShortGaps(text), Low(Display, text, n),
           \/ Clean(Display)
           \/ Cleared(Display) /\ Len(string) >= 1 /\ string[1] # Newline,
           \A i \in 1 .. Len(string) : text[n + i] = string[i]
    PROVE  /\ Clean(Shown(string)[Len(string)])
           /\ Low(Shown(string)[Len(string)], text, n + Len(string))
  <1> DEFINE N == Len(string)
             Good(i) == /\ Low(Shown(string)[i], text, n + i)
                        /\ Clean(Shown(string)[i]) \/ (i = 0 /\ ~Clean(Display))
             T == {i \in 0 .. N : ~Good(i)}
  <1>0. Shown(string)[0] = Display
    <2>1. 0 \in 0 .. N
      OBVIOUS
    <2>2. Shown(string)[0] = ShownBody(Shown(string), string, 0)
      BY <2>1, ShownUnfolds
    <2> QED
      BY <2>2 DEF ShownBody
  <1>1. ASSUME T # {} PROVE FALSE
    <2>1. PICK i \in T : \A j \in T : i <= j
      <3>1. T \subseteq Nat
        OBVIOUS
      <3> HIDE DEF T
      <3> QED
        BY <1>1, <3>1, LeastNat
    <2>2. i \in 0 .. N /\ ~Good(i)
      OBVIOUS
    <2>3. CASE i = 0
      <3>1. n + i = n
        BY <2>3
      <3> QED
        BY <1>0, <2>2, <2>3, <3>1
    <2>4. CASE i # 0
      <3> DEFINE h == i - 1
                 d == Shown(string)[h]
                 k == n + h
      <3>1. h \in 0 .. N /\ ~(i <= h) /\ i \in 1 .. N /\ k \in Nat /\ k + 1 = n + i
            /\ k + 1 <= Len(text)
        BY <2>2, <2>4
      <3>2. Good(h)
        BY <2>1, <3>1
      <3>3. Shown(string)[i] = PutChar(d, string[i])
        <4>1. Shown(string)[i] = ShownBody(Shown(string), string, i)
          BY <2>2, ShownUnfolds
        <4> QED
          BY <2>4, <4>1 DEF ShownBody
      <3>4. string[i] = text[k + 1]
        BY <3>1
      <3>5. d.cursor \in 0 .. 256 * W - 1 /\ IsDisplay(d)
        BY <3>1, ShownCursors, ShownOK
      <3>6. Low(d, text, k)
        BY <3>2
      <3>7. Clean(d) \/ (Cleared(d) /\ text[k + 1] # Newline)
        <4>1. CASE Clean(d)
          BY <4>1
        <4>2. CASE h = 0 /\ ~Clean(Display)
          <5>1. d = Display /\ i = 1
            BY <1>0, <2>2, <4>2
          <5> QED
            BY <3>4, <4>2, <5>1
        <4> QED
          BY <3>2, <4>1, <4>2
      <3> HIDE DEF h, d, k
      <3>8. Clean(PutChar(d, text[k + 1])) /\ Low(PutChar(d, text[k + 1]), text, k + 1)
        BY <3>1, <3>5, <3>6, <3>7, CharClean
      <3>9. Clean(Shown(string)[i]) /\ Low(Shown(string)[i], text, n + i)
        BY <3>1, <3>3, <3>4, <3>8
      <3> QED
        BY <2>2, <3>9
    <2> QED
      BY <2>3, <2>4
  <1>2. Good(N)
    BY <1>1
  <1>3. N = 0 => Clean(Display)
    OBVIOUS
  <1> QED
    BY <1>2, <1>3

\* The last character is the one of the last string.
LEMMA JoinedEnds ==
    ASSUME NEW A, NEW strings \in Seq(Seq(A)), NEW k \in 1 .. Len(strings),
           k = Len(strings), strings[k] # <<>>
    PROVE  /\ FlattenSeq(strings) \in Seq(A)
           /\ Len(FlattenSeq(strings)) \in Nat /\ Len(FlattenSeq(strings)) >= 1
           /\ Len(strings[k]) >= 1 /\ Len(strings[k]) \in Nat
           /\ FlattenSeq(strings)[Len(FlattenSeq(strings))] = strings[k][Len(strings[k])]
  <1> DEFINE X == FlattenSeq(strings)
             s == strings[k]
             n == Len(Joined(strings, k - 1))
  <1>1. X = Joined(strings, k) /\ X \in Seq(A)
    <2>1. k \in 0 .. Len(strings)
      OBVIOUS
    <2> QED
      BY <2>1, JoinedProperties
  <1>2. /\ n \in Nat /\ Len(s) \in Nat /\ Len(Joined(strings, k)) = n + Len(s)
        /\ \A i \in 1 .. Len(s) : X[n + i] = s[i]
    BY JoinedNext
  <1>3. s \in Seq(A) /\ s # <<>>
    OBVIOUS
  <1>4. Len(s) >= 1
    BY <1>3, EmptySeq
  <1> HIDE DEF n, s, X
  <1>5. Len(X) = n + Len(s) /\ Len(s) \in 1 .. Len(s)
    BY <1>1, <1>2, <1>4
  <1>6. Len(X) \in Nat /\ Len(X) >= 1
    BY <1>2, <1>4, <1>5
  <1>7. X[Len(X)] = s[Len(s)]
    BY <1>2, <1>5
  <1> QED
    BY <1>1, <1>2, <1>4, <1>6, <1>7 DEF X, s

-----------------------------------------------------------------------------
\* What the shell puts between two lines: what a command puts, and the prompt.
Scripts == {output \o Prompt : output \in Outputs \cup {<<>>}}

\* What the proof asks of them: that the prompt begins and ends with a character, and
\* that nothing put in between has a backspace, or as many newlines in a row as bring
\* the row round.
PromptEnds == Prompt[1] # <<>> /\ Prompt[Len(Prompt)] # <<>>

OutputsFlow == \A script \in Scripts : ShortGaps(FlattenSeq(script))

LEMMA PromptStarts ==
    ASSUME PromptPrints, PromptEnds
    PROVE  /\ Prompt \in Seq(Seq(STRING)) /\ Len(Prompt) \in Nat /\ Len(Prompt) >= 1
           /\ Len(Prompt[1]) >= 1 /\ Prompt[1][1] # Newline
           /\ FlattenSeq(Prompt)[Len(FlattenSeq(Prompt))] # Newline
           /\ FlattenSeq(Prompt)[Len(FlattenSeq(Prompt))]
                = Prompt[Len(Prompt)][Len(Prompt[Len(Prompt)])]
  <1> DEFINE X == FlattenSeq(Prompt)
             M == Len(Prompt)
  <1>1. Prompt \in Seq(Seq(STRING)) /\ Prompt # <<>>
    BY TerminalAssumption DEF TerminalAssumption
  <1>2. M \in Nat /\ M >= 1 /\ 1 \in 1 .. M /\ M \in 1 .. M
    BY <1>1
  <1>3. Prompt[1] \in Seq(STRING) /\ Prompt[1] # <<>>
    BY <1>1, <1>2 DEF PromptEnds
  <1>4. Len(Prompt[1]) \in Nat /\ Len(Prompt[1]) >= 1
    BY <1>3, EmptySeq
  <1>5. /\ X \in Seq(STRING) /\ Len(X) \in Nat /\ Len(X) >= 1
        /\ X[Len(X)] = Prompt[M][Len(Prompt[M])]
    BY <1>1, <1>2, JoinedEnds DEF PromptEnds
  <1>6. X[Len(X)] # Newline
    <2>1. Len(X) \in DOMAIN X
      BY <1>5
    <2> QED
      BY <2>1 DEF PromptPrints
  <1>7. Prompt[1][1] # Newline
    <2> DEFINE k == 1
               n == Len(Joined(Prompt, k - 1))
    <2>1. k \in 1 .. M /\ k - 1 = 0
      BY <1>2
    <2>2. n = 0
      <3>1. Joined(Prompt, 0) = <<>>
        BY DEF Joined
      <3> QED
        BY <2>1, <3>1
    <2>3. /\ n \in Nat /\ Len(Prompt[k]) \in Nat
          /\ Len(Joined(Prompt, k)) = n + Len(Prompt[k])
          /\ Len(Joined(Prompt, k)) <= Len(X)
          /\ \A i \in 1 .. Len(Prompt[k]) : X[n + i] = Prompt[k][i]
      BY <1>1, <2>1, JoinedNext
    <2>4. 1 \in 1 .. Len(Prompt[k]) /\ 1 \in DOMAIN X /\ n + 1 = 1
      BY <1>4, <1>5, <2>2
    <2>5. X[1] = Prompt[1][1]
      BY <2>3, <2>4
    <2> QED
      BY <2>4, <2>5 DEF PromptPrints
  <1> QED
    BY <1>1, <1>2, <1>4, <1>5, <1>6, <1>7

LEMMA ScriptEnds ==
    ASSUME PromptPrints, PromptEnds, NEW script \in Scripts
    PROVE  /\ script \in Seq(Seq(STRING)) /\ Len(script) \in Nat /\ Len(script) >= 1
           /\ Len(FlattenSeq(script)) \in Nat /\ Len(FlattenSeq(script)) >= 1
           /\ FlattenSeq(script)[Len(FlattenSeq(script))] # Newline
  <1> DEFINE M == Len(Prompt)
             N == Len(script)
             X == FlattenSeq(script)
  <1>1. PICK output \in Outputs \cup {<<>>} : script = output \o Prompt
    BY DEF Scripts
  <1>2. /\ Prompt \in Seq(Seq(STRING)) /\ M \in Nat /\ M >= 1
        /\ output \in Seq(Seq(STRING))
    <2>1. <<>> \in Seq(Seq(STRING))
      OBVIOUS
    <2>2. output \in Seq(Seq(STRING))
      BY <2>1, TerminalAssumption DEF TerminalAssumption
    <2> QED
      BY <2>2, PromptStarts
  <1>3. /\ script \in Seq(Seq(STRING)) /\ N = Len(output) + M /\ Len(output) \in Nat
        /\ \A i \in 1 .. M : script[Len(output) + i] = Prompt[i]
    BY <1>1, <1>2
  <1>4. N \in Nat /\ N >= 1 /\ N \in 1 .. N /\ script[N] = Prompt[M]
    <2>1. M \in 1 .. M
      BY <1>2
    <2>2. script[Len(output) + M] = Prompt[M]
      BY <1>3, <2>1
    <2> HIDE DEF M, N
    <2>3. N \in Nat /\ N >= 1
      BY <1>2, <1>3
    <2>4. script[N] = Prompt[M]
      BY <1>3, <2>2
    <2> QED
      BY <2>3, <2>4
  <1>5. /\ Len(X) \in Nat /\ Len(X) >= 1
        /\ X[Len(X)] = script[N][Len(script[N])]
    <2>1. script[N] # <<>>
      BY <1>4 DEF PromptEnds
    <2> QED
      BY <1>3, <1>4, <2>1, JoinedEnds
  <1>6. X[Len(X)] # Newline
    BY <1>4, <1>5, PromptStarts
  <1> QED
    BY <1>3, <1>4, <1>5, <1>6

-----------------------------------------------------------------------------
\* The invariant: when the shell waits or echoes, nothing stands behind the cursor, which
\* is no lower than below the last row, or nothing is left on the screen; while it puts
\* a script, the cursor is lower by the newlines just put.
BehindInv ==
    /\ EchoInv
    /\ at = "start" => Cleared(Display)
    /\ at \in {"poll", "echo"} => Settled(Display)
    /\ at = "put" =>
         /\ Clean(Display) \/ (Cleared(Display) /\ todo = Prompt)
         /\ \E script \in Scripts :
              /\ Len(todo) <= Len(script)
              /\ \A i \in 1 .. Len(todo) : todo[i] = script[Len(script) - Len(todo) + i]
              /\ Low(Display, FlattenSeq(script),
                     Len(Joined(script, Len(script) - Len(todo))))

\* A script of which nothing was put.
LEMMA ScriptBegins ==
    ASSUME PromptPrints, PromptEnds, NEW script \in Scripts, NEW d,
           Blank(d) \/ RowOf(d.cursor) <= H + 1
    PROVE  /\ Len(script) <= Len(script)
           /\ \A i \in 1 .. Len(script) : script[i] = script[Len(script) - Len(script) + i]
           /\ Low(d, FlattenSeq(script), Len(Joined(script, Len(script) - Len(script))))
  <1>1. Len(script) \in Nat
    BY ScriptEnds
  <1>2. Len(script) - Len(script) = 0 /\ \A i \in 1 .. Len(script) : 0 + i = i
    BY <1>1
  <1>3. Joined(script, 0) = <<>> /\ Len(<<>>) = 0
    BY DEF Joined
  <1>4. Gap(FlattenSeq(script), 0, 0)
    BY DEF Gap
  <1>5. Low(d, FlattenSeq(script), 0)
    <2>0. CASE Blank(d)
      BY <2>0 DEF Low
    <2>1. H + 0 + (IF 0 = 0 THEN 1 ELSE 0) = H + 1
      <3>1. H \in Int
        BY Sizes
      <3> QED
        BY <3>1
    <2> QED
      BY <1>4, <2>0, <2>1 DEF Low
  <1> QED
    BY <1>1, <1>2, <1>3, <1>5

LEMMA PromptIsScript == Prompt \in Scripts
  <1>1. <<>> \o Prompt = Prompt
    BY TerminalAssumption DEF TerminalAssumption
  <1> QED
    BY <1>1 DEF Scripts

LEMMA ClearClears ==
    ASSUME NEW cells
    PROVE  Cleared([screen |-> Clear(cells), cursor |-> SetCursor(0, 0)])
  <1>1. SetCursor(0, 0) = 0
    BY Sizes DEF SetCursor, uint8, W
  <1> QED
    BY <1>1 DEF Cleared, Clear

\* The top left corner.
LEMMA TopRow == RowOf(0) <= H + 1
  <1>1. 0 \in 0 .. W * H
    BY Sizes
  <1>2. RowOf(0) <= H /\ RowOf(0) \in 0 .. 255
    BY <1>1, ScreenRows, Placed, Zenon
  <1>3. ASSUME NEW r \in 0 .. 255, NEW h \in 1 .. 255, r <= h PROVE r <= h + 1
    BY <1>3
  <1>4. H \in 1 .. 255
    BY Sizes
  <1> QED
    BY <1>2, <1>3, <1>4, Zenon

LEMMA InitBehind == Init => BehindInv
  <1> SUFFICES ASSUME Init PROVE BehindInv
    OBVIOUS
  <1>1. Cleared(Display)
    BY ClearClears DEF Init, Display
  <1> QED
    BY <1>1, InitEcho DEF Init, BehindInv

LEMMA BehindKeys ==
    ASSUME BehindInv, EchoInv', UNCHANGED <<screen, cursor, at, todo>>
    PROVE  BehindInv'
  <1>1. Display' = Display
    BY DEF Display
  <1> QED
    BY <1>1 DEF BehindInv

LEMMA BehindClock ==
    ASSUME BehindInv, EchoInv', PutClock
    PROVE  BehindInv'
  <1> DEFINE e == [screen |-> screen', cursor |-> cursor]
  <1>1. UNCHANGED <<cursor, at, todo>> /\ Display' = e
    BY DEF PutClock, shellVars, Display
  <1>2. \A j \in Cells \ ClockCells : e.screen[j] = Display.screen[j]
    BY DEF PutClock, Display
  <1>3. e.cursor = Display.cursor
    BY DEF Display
  <1> HIDE DEF e
  <1>4. Clean(Display) => Clean(e)
    BY <1>2, <1>3 DEF Clean
  <1>5. Cleared(Display) => Cleared(e)
    BY <1>2, <1>3 DEF Cleared
  <1>6. Blank(Display) => Blank(e)
    BY <1>2 DEF Blank
  <1>7. Settled(Display) => Settled(e)
    BY <1>3, <1>4, <1>6 DEF Settled
  <1>8. ASSUME NEW text, NEW n, Low(Display, text, n) PROVE Low(e, text, n)
    BY <1>3, <1>6, <1>8 DEF Low
  <1> QED
    BY <1>1, <1>4, <1>5, <1>7, <1>8 DEF BehindInv

\* The prompt after the screen was cleared.
LEMMA BehindClear ==
    ASSUME WrapsOffScreen, PromptPrints, PromptEnds, BehindInv, EchoInv',
           Activate \/ ClearScreen
    PROVE  BehindInv'
  <1>1. at' = "put" /\ todo' = Prompt
    BY DEF Activate, ClearScreen, BehindInv, EchoInv
  <1>2. Cleared(Display')
    <2>1. CASE Activate
      BY <2>1 DEF Activate, BehindInv, Display, screenVars
    <2>2. CASE ClearScreen
      BY <2>2, ClearClears DEF ClearScreen, Show, Display
    <2> QED
      BY <2>1, <2>2
  <1> DEFINE e == Display'
  <1>3. RowOf(e.cursor) <= H + 1
    BY <1>2, TopRow DEF Cleared
  <1> HIDE DEF e
  <1>4. /\ Len(Prompt) <= Len(Prompt)
        /\ \A i \in 1 .. Len(Prompt) : Prompt[i] = Prompt[Len(Prompt) - Len(Prompt) + i]
        /\ Low(e, FlattenSeq(Prompt), Len(Joined(Prompt, Len(Prompt) - Len(Prompt))))
    BY <1>3, PromptIsScript, ScriptBegins
  <1> QED
    BY <1>1, <1>2, <1>4, PromptIsScript DEF BehindInv, e

LEMMA BehindGetKey ==
    ASSUME BehindInv, EchoInv', GetKey
    PROVE  BehindInv'
  <1>1. at = "poll" /\ UNCHANGED <<screen, cursor, todo>> /\ at' = AfterRead(keyboard_buffer).at
    BY DEF GetKey, screenVars
  <1>2. at' \in {"poll", "echo"}
    BY <1>1 DEF AfterRead
  <1>3. Display' = Display
    BY <1>1 DEF Display
  <1> QED
    BY <1>1, <1>2, <1>3 DEF BehindInv

\* A system call of a script puts its next string.
LEMMA BehindPut ==
    ASSUME WrapsOffScreen, PromptPrints, PromptEnds, OutputsFlow,
           BehindInv, EchoInv', PutNext
    PROVE  BehindInv'
  <1> DEFINE L == Len(todo)
             s == todo[1]
  <1>1. /\ at = "put" /\ todo # <<>> /\ Head(todo) = s
        /\ todo' = Tail(todo) /\ at' = IF Tail(todo) = <<>> THEN "poll" ELSE "put"
        /\ todo \in Seq(Seq(STRING))
    BY DEF BehindInv, EchoInv, TerminalInv, TypeOK, PutNext
  <1>2. L \in Nat /\ L >= 1 /\ s \in Seq(STRING) /\ Len(s) \in Nat
    BY <1>1
  <1>3. /\ Len(todo') = L - 1 /\ (Tail(todo) = <<>> <=> L = 1)
        /\ \A i \in 1 .. L - 1 : todo'[i] = todo[i + 1]
    <2>1. /\ Len(Tail(todo)) = L - 1 /\ Tail(todo) \in Seq(Seq(STRING))
          /\ \A i \in 1 .. L - 1 : Tail(todo)[i] = todo[i + 1]
      BY <1>1, TailAndFront
    <2>2. Tail(todo) = <<>> <=> L = 1
      BY <1>1, TailAndFront
    <2> QED
      BY <1>1, <1>2, <2>1, <2>2
  <1>4. PICK script \in Scripts :
          /\ L <= Len(script)
          /\ \A i \in 1 .. L : todo[i] = script[Len(script) - L + i]
          /\ Low(Display, FlattenSeq(script), Len(Joined(script, Len(script) - L)))
    BY <1>1 DEF BehindInv
  <1> DEFINE N == Len(script)
             X == FlattenSeq(script)
             k == N - L + 1
             n == Len(Joined(script, k - 1))
  <1>5. /\ script \in Seq(Seq(STRING)) /\ N \in Nat /\ N >= 1
        /\ Len(X) \in Nat /\ Len(X) >= 1 /\ X[Len(X)] # Newline
    BY ScriptEnds
  <1>6. k \in 1 .. N /\ k - 1 = N - L /\ k = N - (L - 1) /\ script[k] = s
    <2>1. k \in 1 .. N /\ k - 1 = N - L /\ k = N - (L - 1) /\ 1 \in 1 .. L
      BY <1>2, <1>4, <1>5
    <2> QED
      BY <1>4, <2>1
  <1>7. Low(Display, X, n) /\ ShortGaps(X)
    BY <1>4, <1>6 DEF OutputsFlow
  <1> HIDE DEF k
  <1>8. /\ n \in Nat /\ Len(Joined(script, k)) = n + Len(s)
        /\ n + Len(s) <= Len(X)
        /\ \A i \in 1 .. Len(s) : X[n + i] = s[i]
    <2>0. k \in 1 .. Len(script) /\ script \in Seq(Seq(STRING))
      BY <1>5, <1>6
    <2> HIDE DEF n, X, N, s
    <2>1. /\ Len(Joined(script, k - 1)) \in Nat
          /\ Len(Joined(script, k)) = Len(Joined(script, k - 1)) + Len(script[k])
          /\ Len(Joined(script, k)) <= Len(FlattenSeq(script))
          /\ \A i \in 1 .. Len(script[k]) :
               FlattenSeq(script)[Len(Joined(script, k - 1)) + i] = script[k][i]
      BY <2>0, JoinedNext
    <2>2. script[k] = s
      BY <1>6
    <2> QED
      BY <2>1, <2>2 DEF n, X
  <1>9. Clean(Display) \/ (Cleared(Display) /\ Len(s) >= 1 /\ s[1] # Newline)
    <2>1. CASE Clean(Display)
      BY <2>1
    <2>2. CASE Cleared(Display) /\ todo = Prompt
      BY <2>2, PromptStarts
    <2> QED
      BY <1>1, <2>1, <2>2 DEF BehindInv
  <1>10. cursor \in 0 .. 256 * W - 1 /\ cursor \in Cursors
    BY DEF BehindInv, EchoInv, TerminalInv, TypeOK, Cursors
  <1> HIDE DEF n, X, N
  <1>11. Clean(Shown(s)[Len(s)]) /\ Low(Shown(s)[Len(s)], X, n + Len(s))
    BY <1>2, <1>5, <1>7, <1>8, <1>9, <1>10, ShownClean
  <1> DEFINE e == Display'
  <1>12. /\ screen' = Shown(s)[Len(s)].screen /\ cursor' = Shown(s)[Len(s)].cursor
         /\ e.screen = screen' /\ e.cursor = cursor'
    BY <1>1 DEF PutNext, Puts, Show, Display
  <1> HIDE DEF e
  <1>13. Clean(e) /\ Low(e, X, n + Len(s))
    BY <1>11, <1>12 DEF Clean, Low, Blank
  <1>14. CASE L = 1
    <2>1. at' = "poll" /\ k = N
      BY <1>1, <1>3, <1>5, <1>6, <1>14
    <2>2. Joined(script, N) = X
      BY <1>5, JoinedProperties DEF N, X
    <2>3. n + Len(s) = Len(X)
      BY <1>8, <2>1, <2>2
    <2>4. Blank(e) \/ RowOf(e.cursor) <= H
      <3> SUFFICES ASSUME ~Blank(e) PROVE RowOf(e.cursor) <= H
        OBVIOUS
      <3>1. PICK t \in Nat : /\ Gap(X, Len(X), t)
                             /\ RowOf(e.cursor) <= H + t + (IF t = Len(X) THEN 1 ELSE 0)
        BY <1>13, <2>3 DEF Low
      <3>2. t = 0
        <4>1. CASE t # 0
          <5>1. Len(X) \in 1 .. Len(X) /\ Len(X) > Len(X) - t
            BY <1>5, <4>1
          <5> QED
            BY <1>5, <3>1, <5>1 DEF Gap
        <4> QED
          BY <4>1
      <3>3. t # Len(X) /\ H \in 0 .. 255
        BY <1>5, <3>2, Sizes
      <3>4. RowOf(e.cursor) <= H + 0 + 0
        BY <3>1, <3>2, <3>3
      <3> QED
        BY <3>3, <3>4
    <2> QED
      BY <1>12, <1>13, <2>1, <2>4 DEF BehindInv, Settled, e
  <1>15. CASE L # 1
    <2>1. at' = "put"
      BY <1>1, <1>3, <1>15
    <2>2. Len(todo') <= Len(script)
      BY <1>2, <1>3, <1>4, <1>5
    <2>3. ASSUME NEW i \in 1 .. Len(todo') PROVE todo'[i] = script[Len(script) - Len(todo') + i]
      <3>1. i \in 1 .. L - 1 /\ i + 1 \in 1 .. L
            /\ Len(script) - L + (i + 1) = Len(script) - Len(todo') + i
        BY <1>2, <1>3, <1>5 DEF N
      <3>2. todo'[i] = todo[i + 1] /\ todo[i + 1] = script[Len(script) - L + (i + 1)]
        BY <1>3, <1>4, <3>1
      <3> QED
        BY <3>1, <3>2
    <2>4. Low(e, FlattenSeq(script), Len(Joined(script, Len(script) - Len(todo'))))
      <3>1. Len(script) - Len(todo') = k
        BY <1>3, <1>6 DEF N
      <3> QED
        BY <1>8, <1>13, <3>1 DEF X
    <2> QED
      BY <1>13, <2>1, <2>2, <2>3, <2>4 DEF BehindInv, e
  <1> QED
    BY <1>14, <1>15

\* The echo of a key.
LEMMA BehindEcho ==
    ASSUME WrapsOffScreen, PromptPrints, PromptEnds, OutputsFlow,
           BehindInv, EchoInv', Echo
    PROVE  BehindInv'
  <1> DEFINE e == Display'
  <1>1. /\ at = "echo" /\ Settled(Display)
        /\ screen' = PutChar(Display, buf).screen /\ cursor' = PutChar(Display, buf).cursor
        /\ e.screen = screen' /\ e.cursor = cursor'
    BY DEF Echo, Show, BehindInv, Display
  <1>2. /\ Display.cursor = cursor /\ Display.cursor \in 0 .. 256 * W - 1
        /\ IsDisplay(Display)
    BY DEF BehindInv, EchoInv, TerminalInv, TypeOK, Cursors, Display, IsDisplay
  <1> HIDE DEF e
  <1>3. CASE at' = "lost"
    BY <1>3 DEF BehindInv
  <1>4. CASE buf # Newline /\ at' = "poll"
    <2> DEFINE f == PutChar(Display, buf)
    <2>1. ASSUME buf = Backspace PROVE Settled(f)
      <3>1. f = PutBackspace(Display)
        BY <2>1 DEF PutChar, Newline, Backspace
      <3> QED
        BY <1>1, <1>2, <3>1, BackspaceClean
    <2>2. ASSUME buf # Backspace PROVE Settled(f)
      <3>1. f = PutPrintable(Display, buf)
        BY <1>4, <2>2 DEF PutChar
      <3>2. Clean(PutPrintable(Display, buf)) /\ RowOf(PutPrintable(Display, buf).cursor) <= H
        BY <1>1, <1>2, PrintClean DEF Settled
      <3> QED
        BY <3>1, <3>2 DEF Settled
    <2>3. Settled(f)
      BY <2>1, <2>2
    <2> HIDE DEF f
    <2>4. e.screen = f.screen /\ e.cursor = f.cursor
      BY <1>1 DEF f
    <2>5. Settled(e)
      BY <2>3, <2>4 DEF Settled, Clean, Blank
    <2> QED
      BY <1>4, <2>5 DEF BehindInv, e
  <1>5. CASE at' = "clear"
    BY <1>5 DEF BehindInv
  <1>6. CASE buf = Newline /\ at' = "put" /\ \E output \in Outputs : todo' = output \o Prompt
    <2>1. todo' \in Scripts
      BY <1>6 DEF Scripts
    <2>2. e.screen = PutNewline(Display).screen /\ e.cursor = PutNewline(Display).cursor
      BY <1>1, <1>6 DEF PutChar, Newline, Backspace
    <2>3. H + 1 <= 255 /\ H \in 0 .. 255
      <3>1. Gap(FlattenSeq(todo'), 0, 0)
        BY DEF Gap
      <3>2. 0 \in 0 .. Len(FlattenSeq(todo')) /\ 0 \in 0 .. 0
        BY <2>1, ScriptEnds
      <3>3. H + 1 + 0 <= 255
        BY <2>1, <3>1, <3>2 DEF OutputsFlow, ShortGaps
      <3> QED
        BY <3>3, Sizes
    <2>4. Clean(e) /\ (Blank(e) \/ RowOf(e.cursor) <= H + 1)
      <3>1. CASE Blank(Display)
        <4>1. PutNewline(Display).screen = Display.screen
          BY DEF PutNewline, Display
        <4> QED
          BY <2>2, <3>1, <4>1 DEF Blank, Clean
      <3>2. CASE RowOf(cursor) <= H
        <4>1. RowOf(cursor) \in 0 .. 255
          BY <1>2, Placed
        <4>2. RowOf(Display.cursor) < 255
          BY <1>2, <2>3, <3>2, <4>1
        <4>3. Clean(PutNewline(Display)) /\ RowOf(PutNewline(Display).cursor) = RowOf(cursor) + 1
          BY <1>1, <1>2, <4>2, NewlineClean DEF Settled
        <4>4. Clean(e)
          BY <2>2, <4>3 DEF Clean
        <4> QED
          BY <2>2, <2>3, <3>2, <4>1, <4>3, <4>4
      <3> QED
        BY <1>1, <1>2, <3>1, <3>2 DEF Settled
    <2> DEFINE script == todo'
    <2> HIDE DEF script
    <2>5. script \in Scripts
      BY <2>1 DEF script
    <2>6. /\ Len(script) <= Len(script)
          /\ \A i \in 1 .. Len(script) : script[i] = script[Len(script) - Len(script) + i]
          /\ Low(e, FlattenSeq(script), Len(Joined(script, Len(script) - Len(script))))
      BY <2>4, <2>5, ScriptBegins
    <2> QED
      BY <1>6, <2>4, <2>5, <2>6 DEF BehindInv, e, script
  <1> QED
    BY <1>3, <1>4, <1>5, <1>6 DEF Echo

LEMMA NextBehind ==
    ASSUME WrapsOffScreen, PromptPrints, PromptEnds, OutputsFlow, BehindInv, [Next]_vars
    PROVE  BehindInv'
  <1>1. EchoInv'
    BY NextEcho DEF BehindInv
  <1>2. ASSUME NEW k \in Keys, Press(k) \/ Release(k) PROVE BehindInv'
    BY <1>1, <1>2, BehindKeys DEF Press, Release, screenVars, shellVars
  <1>3. CASE Shell
    BY <1>1, <1>3, BehindClear, BehindPut, BehindGetKey, BehindEcho DEF Shell
  <1>4. CASE PutClock
    BY <1>1, <1>4, BehindClock
  <1>5. CASE UNCHANGED vars
    BY <1>1, <1>5, BehindKeys DEF vars, screenVars, shellVars
  <1> QED
    BY <1>2, <1>3, <1>4, <1>5 DEF Next

\* Nothing but erased cells and the clock stands behind the cursor when the shell waits
\* for a key, whatever the size of the screen and of the line, as long as the prompt
\* begins, ends and goes on with characters that are printed, what commands put has no
\* backspace and no run of newlines that brings the row of putchar round, and the cursor
\* that a backspace wraps is off the screen.
THEOREM NothingStandsBehind ==
    WrapsOffScreen /\ PromptPrints /\ PromptEnds /\ OutputsFlow /\ Spec
      => []NothingBehindCursor
  <1>1. BehindInv => NothingBehindCursor
    BY DEF BehindInv, NothingBehindCursor, Settled, Clean, Display
  <1>2. CASE WrapsOffScreen /\ PromptPrints /\ PromptEnds /\ OutputsFlow
    <2>1. BehindInv /\ [Next]_vars => BehindInv'
      BY <1>2, NextBehind
    <2> QED
      BY <1>1, <2>1, InitBehind, PTL DEF Spec
  <1>3. CASE ~(WrapsOffScreen /\ PromptPrints /\ PromptEnds /\ OutputsFlow)
    BY <1>3
  <1> QED
    BY <1>2, <1>3
=============================================================================
