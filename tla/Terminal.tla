------------------------------ MODULE Terminal ------------------------------
(***************************************************************************)
(* The console of MeongOS: the keyboard's interrupt handler with its       *)
(* buffer of one character (keyboard.c), putchar and puts (kernelutils.c)  *)
(* over the text framebuffer and its cursor (framebuffer.c), the shell's   *)
(* line editor (user-shell.c), and the clock that another process draws    *)
(* into the corner of the same screen (put_clock).                         *)
(*                                                                         *)
(* A system call and an interrupt handler are one action each.  Between    *)
(* two system calls the shell touches its own memory only, so what it does *)
(* there belongs to the action of the call before it.                      *)
(***************************************************************************)
EXTENDS Integers, Sequences, FiniteSets, SequencesExt

CONSTANTS
    RESOLUTION_WIDTH,   \* columns (80)
    RESOLUTION_HEIGHT,  \* rows (25)
    CLOCK_WIDTH,        \* cells of "HH:MM:SS" (8)
    INPUT_MAX,          \* bytes of the shell's input_buffer (256)
    Printables,         \* keys that stand for themselves
    Prompt,             \* what the shell puts before a line: a sequence of
                        \* strings, one system call each
    Outputs,            \* what commands put: sequences of strings
    MaxHeld             \* bound: keys held down at the same time

ASSUME TerminalAssumption ==
    /\ RESOLUTION_WIDTH \in 1 .. 255
    /\ RESOLUTION_HEIGHT \in 1 .. 255
    /\ CLOCK_WIDTH \in 1 .. RESOLUTION_WIDTH
    /\ INPUT_MAX \in Nat \ {0}
    /\ Prompt \in Seq(Seq(STRING)) /\ Prompt # <<>>
    /\ Outputs \subseteq Seq(Seq(STRING))
    /\ MaxHeld \in Nat \ {0}

NUL == "nul"
Newline == "\n"
Backspace == "backspace"
Space == " "
Digit == "0"       \* whatever the clock shows
Leftover == "?"    \* what the BIOS left on the screen

Keys == Printables \cup {Newline, Backspace}
Cells == 0 .. RESOLUTION_WIDTH * RESOLUTION_HEIGHT - 1

VARIABLES
    held,               \* the keys that are down
    keyboard_input_on,
    keyboard_buffer,    \* one character, or NUL
    screen,             \* the character of every cell
    cursor,             \* the cursor's position, as the ports hold it
    at,                 \* the shell's next system call: "start", "clear",
                        \* "put", "poll", "echo"; or "lost"
    todo,               \* the strings it has yet to put
    buf,                \* the character it read
    line                \* input_buffer[0 .. last_idx]

keyboardVars == <<keyboard_input_on, keyboard_buffer>>
screenVars == <<screen, cursor>>
shellVars == <<at, todo, buf, line>>
vars == <<held, keyboardVars, screenVars, shellVars>>

-----------------------------------------------------------------------------
\* framebuffer.c and kernelutils.c.  A display is a record [screen, cursor].

uint8(n) == n % 256
uint16(n) == n % 65536

\* Where a position is, in the uint8_t row and col of putchar.
RowOf(position) == uint8(position \div RESOLUTION_WIDTH)
ColOf(position) == uint8(position - RowOf(position) * RESOLUTION_WIDTH)

\* framebuffer_set_cursor, whose arguments are uint8_t too.
SetCursor(r, c) == uint8(r) * RESOLUTION_WIDTH + uint8(c)

\* framebuffer_write: past the last row it writes memory nobody looks at.
Write(cells, row, col, c) ==
    [i \in Cells |-> IF i = row * RESOLUTION_WIDTH + col THEN c ELSE cells[i]]

\* A mutant of Clear: the loop ends a row too early.
ClearShort(cells) ==
    [i \in Cells |->
       IF i = 0 \/ i >= RESOLUTION_WIDTH * (RESOLUTION_HEIGHT - 1)
         THEN cells[i] ELSE NUL]

\* framebuffer_clear: its loop starts at byte 1, and the character of the first
\* cell is byte 0.
Clear(cells) == [i \in Cells |-> IF i = 0 THEN cells[0] ELSE NUL]

PutNewline(d) == [d EXCEPT !.cursor = SetCursor(RowOf(d.cursor) + 1, 0)]

PutBackspace(d) ==
    LET position == uint16(d.cursor - 1)
    IN  [screen |-> Write(d.screen, RowOf(position), ColOf(position), Space),
         cursor |-> SetCursor(RowOf(position), ColOf(position))]

\* A mutant of PutPrintable: the screen is not cleared when it is full.
PutPrintableOver(d, c) ==
    LET row == RowOf(d.cursor)
        col == ColOf(d.cursor)
    IN  IF row <= RESOLUTION_HEIGHT - 1 /\ col <= RESOLUTION_WIDTH - 1
          THEN [screen |-> Write(d.screen, row, col, c), cursor |-> SetCursor(row, col + 1)]
          ELSE [screen |-> Write(d.screen, 0, 0, c), cursor |-> SetCursor(0, 1)]

\* On the screen the character goes to the cursor; past its end the screen is
\* cleared first and the character goes to the first cell.
PutPrintable(d, c) ==
    LET row == RowOf(d.cursor)
        col == ColOf(d.cursor)
    IN  IF row <= RESOLUTION_HEIGHT - 1 /\ col <= RESOLUTION_WIDTH - 1
          THEN [screen |-> Write(d.screen, row, col, c),
                cursor |-> SetCursor(row, col + 1)]
          ELSE [screen |-> Write(Clear(d.screen), 0, 0, c), cursor |-> SetCursor(0, 1)]

PutChar(d, c) == CASE c = Newline   -> PutNewline(d)
                   [] c = Backspace -> PutBackspace(d)
                   [] OTHER         -> PutPrintable(d, c)

Display == [screen |-> screen, cursor |-> cursor]

Show(d) == screen' = d.screen /\ cursor' = d.cursor

\* puts: the display after each character of the string.
Shown(string) ==
    LET shown[i \in 0 .. Len(string)] ==
          IF i = 0 THEN Display ELSE PutChar(shown[i - 1], string[i])
    IN  shown

Puts(string) == Show(Shown(string)[Len(string)])

ClockCells ==
    {RESOLUTION_WIDTH * RESOLUTION_HEIGHT - i : i \in 1 .. CLOCK_WIDTH}

-----------------------------------------------------------------------------
\* The keyboard's interrupt.

\* A mutant of KeyboardIsr: a release code is skipped.
KeyboardIsrSkipsRelease(mapped) ==
    /\ keyboard_buffer' = IF keyboard_input_on /\ mapped # NUL
                            THEN mapped ELSE keyboard_buffer
    /\ UNCHANGED keyboard_input_on

\* keyboard_isr: the scancode's character, or the 0 that every release code maps
\* to, takes the place of whatever the buffer held.
KeyboardIsr(mapped) ==
    /\ keyboard_buffer' = IF keyboard_input_on THEN mapped ELSE keyboard_buffer
    /\ UNCHANGED keyboard_input_on

\* A key goes down, or repeats while it is down.
Press(k) ==
    /\ Cardinality(held \cup {k}) <= MaxHeld
    /\ held' = held \cup {k}
    /\ KeyboardIsr(k)
    /\ UNCHANGED <<screenVars, shellVars>>

Release(k) ==
    /\ k \in held
    /\ held' = held \ {k}
    /\ KeyboardIsr(NUL)
    /\ UNCHANGED <<screenVars, shellVars>>

-----------------------------------------------------------------------------
\* The shell's main loop.

\* Syscall 7.
Activate ==
    /\ at = "start"
    /\ keyboard_input_on' = TRUE
    /\ at' = "put"
    /\ todo' = Prompt
    /\ UNCHANGED <<held, keyboard_buffer, screenVars, buf, line>>

\* Syscall 6: the next string of a command's output or of the prompt, which
\* comes last.
PutNext ==
    /\ at = "put"
    /\ Puts(Head(todo))
    /\ todo' = Tail(todo)
    /\ at' = IF Tail(todo) = <<>> THEN "poll" ELSE "put"
    /\ UNCHANGED <<held, keyboardVars, buf, line>>

\* Syscall 8, in the command "clear".
ClearScreen ==
    /\ at = "clear"
    /\ Show([screen |-> Clear(screen), cursor |-> SetCursor(0, 0)])
    /\ at' = "put"
    /\ UNCHANGED <<held, keyboardVars, todo, buf, line>>

\* A mutant of AfterRead: a backspace on an empty line is echoed.
AfterReadErasesPrompt(c) ==
    IF c = NUL THEN [at |-> "poll", line |-> line]
    ELSE IF c = Backspace /\ line # <<>> THEN [at |-> "echo", line |-> Front(line)]
    ELSE [at |-> "echo", line |-> line]

\* What the shell goes on with, and the line it has, once it read c.  A
\* backspace on an empty line is ignored.
AfterRead(c) ==
    IF c = NUL \/ (c = Backspace /\ line = <<>>) THEN [at |-> "poll", line |-> line]
    ELSE IF c = Backspace THEN [at |-> "echo", line |-> Front(line)]
    ELSE [at |-> "echo", line |-> line]

\* Syscall 4, get_keyboard_buffer: read and flush.
GetKey ==
    /\ at = "poll"
    /\ buf' = keyboard_buffer
    /\ keyboard_buffer' = NUL
    /\ at' = AfterRead(keyboard_buffer).at
    /\ line' = AfterRead(keyboard_buffer).line
    /\ UNCHANGED <<held, keyboard_input_on, screenVars, todo>>

\* A mutant of LineAfter: a backspace joins the line too.
LineAfterKeepsBackspace(c) == Append(line, c)

\* input_buffer once a character other than newline was echoed.
LineAfter(c) == IF c = Backspace THEN line ELSE Append(line, c)

Fits(c) == c = Backspace \/ Len(line) < INPUT_MAX

\* Syscall 5 echoes the character, which then joins the line; a newline joins it
\* too, ends it, and the command runs.  The one that does not fit overruns
\* input_buffer, and the shell's stack is lost.
Echo ==
    /\ at = "echo"
    /\ Show(PutChar(Display, buf))
    /\ \/ /\ ~Fits(buf)
          /\ at' = "lost"
          /\ UNCHANGED <<todo, line>>
       \/ /\ Fits(buf) /\ buf # Newline
          /\ at' = "poll"
          /\ line' = LineAfter(buf)
          /\ UNCHANGED todo
       \/ /\ Fits(buf) /\ buf = Newline
          /\ \/ at' = "put" /\ \E output \in Outputs : todo' = output \o Prompt
             \/ at' = "clear" /\ todo' = Prompt
          /\ line' = <<>>
    /\ UNCHANGED <<held, keyboardVars, buf>>

-----------------------------------------------------------------------------
\* Syscall 13, from the clock's process: put_clock.
PutClock ==
    /\ screen' = [i \in Cells |-> IF i \in ClockCells THEN Digit ELSE screen[i]]
    /\ UNCHANGED <<held, keyboardVars, cursor, shellVars>>

-----------------------------------------------------------------------------
\* After kernel_setup has cleared the screen.
Init ==
    /\ held = {}
    /\ keyboard_input_on = FALSE
    /\ keyboard_buffer = NUL
    /\ screen = Clear([i \in Cells |-> Leftover])
    /\ cursor = SetCursor(0, 0)
    /\ at = "start"
    /\ todo = <<>>
    /\ buf = NUL
    /\ line = <<>>

Shell == Activate \/ PutNext \/ ClearScreen \/ GetKey \/ Echo

Next ==
    \/ \E k \in Keys : Press(k) \/ Release(k)
    \/ Shell
    \/ PutClock

Spec == Init /\ [][Next]_vars

-----------------------------------------------------------------------------
TypeOK ==
    /\ held \subseteq Keys
    /\ keyboard_input_on \in BOOLEAN
    /\ keyboard_buffer \in Keys \cup {NUL}
    /\ cursor \in 0 .. 255 * (RESOLUTION_WIDTH + 1)
    /\ at \in {"start", "clear", "put", "poll", "echo", "lost"}
    /\ at \in {"clear", "put"} <=> todo # <<>>
    /\ buf \in Keys \cup {NUL}
    /\ line \in Seq(Printables)

\* The character the shell will read belongs to a key that is down: a key that
\* went up is never heard afterwards, whatever the shell was doing meanwhile.
KeyIsHeld == keyboard_buffer # NUL => keyboard_buffer \in held

\* What the user sees as the line: the prompt and what was typed; the places of
\* it, counted from the end, that the screen still shows.
Text == FlattenSeq(Prompt) \o line
OnScreen == IF cursor - 1 \in Cells THEN {i \in 1 .. Len(Text) : i <= cursor} ELSE {}

\* What stands before the cursor is the prompt and what the shell will run, no
\* more and no less, through every mix of echoes, backspaces, full screens and
\* cleared ones, except where the clock is drawn over it.
EchoMatchesLine ==
    at = "poll" =>
      \A i \in OnScreen :
        \/ screen[cursor - i] = Text[Len(Text) + 1 - i]
        \/ cursor - i \in ClockCells

\* Nothing but erased cells, and the clock, stands behind the cursor when the
\* shell waits: no text is left over from before the screen was cleared.
NothingBehindCursor ==
    at = "poll" =>
      \A i \in Cells : i >= cursor /\ i \notin ClockCells => screen[i] \in {NUL, Space}
=============================================================================
