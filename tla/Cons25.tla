------------------------------ MODULE Cons25 ------------------------------
(***************************************************************************)
(* The terminal of the console program: cons25::OutputChar, a state        *)
(* machine for escape sequences, on a Windows screen buffer of Cols by     *)
(* Rows cells whose last Height rows are the screen.                       *)
(*                                                                         *)
(* A character is what the machine tells apart: an escape, "[", "=", ";",  *)
(* a digit, a command letter, text, and the control characters that are    *)
(* always obeyed.  Of what is on the screen the model keeps the cells that *)
(* the last command cleared or moved.                                      *)
(***************************************************************************)
EXTENDS Integers, Sequences, SequencesExt

CONSTANTS
    Cols, Rows, Height,
    Digit,       \* digits that programs send, as characters
    Byte,        \* a parameter is a BYTE, below this
    Word,        \* the count of cells to clear is a WORD, below this
    MaxSeq       \* bound: characters in an escape sequence

Clears == {"J", "K"}
\* "col" is the back quote, ESC [ n `.
Moves == {"col", "H", "A", "B", "C", "D", "E"}
Scrolls == {"P", "M", "@", "L"}
Always == {"BS", "CR", "LF"}
Input == {"ESC", "[", "=", ";", "x", "m"} \union Digit \union Clears \union Moves
            \union Scrolls \union Always

VARIABLES
    state,       \* m_OutputState: "text", "ESC", "[" or "="
    count,       \* m_OutputStateData[0]
    param,       \* m_OutputStateData[1..]
    cursor,
    attr,        \* attributes of text: "INTENSITY", "REVERSE"
    touched,     \* cells that the last command cleared or moved
    seq          \* history: the sequence so far, without control characters

xvars == <<state, count, param, cursor, attr, touched, seq>>

Slots == 1..(MaxSeq + 1)
NoParams == [k \in Slots |-> 0]
Inside(x, y) == x \in 0..(Cols - 1) /\ y \in 0..(Rows - 1)
Cells == (0..(Cols - 1)) \X (0..(Rows - 1))
Here == <<cursor.x, cursor.y>>

Cons25Init ==
    /\ state = "text" /\ count = 0 /\ param = NoParams
    /\ cursor = [x |-> 0, y |-> Rows - 1] /\ attr = {}
    /\ touched = {} /\ seq = <<>>

\* WriteConsole: lines wrap, and the buffer scrolls at its end.
WriteConsole(c) ==
    LET down == IF cursor.y = Rows - 1 THEN cursor.y ELSE cursor.y + 1
    IN  CASE c = "CR" -> [cursor EXCEPT !.x = 0]
          [] c = "BS" -> [cursor EXCEPT !.x = IF @ = 0 THEN 0 ELSE @ - 1]
          [] c = "LF" \/ cursor.x = Cols - 1 -> [x |-> 0, y |-> down]
          [] OTHER -> [cursor EXCEPT !.x = @ + 1]

EndSequence == state' = "text" /\ seq' = <<>> /\ UNCHANGED <<count, param>>

\* "some characters are always special", also inside a sequence.
Control(c) ==
    /\ c \in Always
    /\ cursor' = WriteConsole(c)
    /\ touched' = {}
    /\ UNCHANGED <<state, count, param, attr, seq>>

\* No special state, and after ESC.
Text(c) ==
    /\ state = "text" /\ c \notin Always
    /\ IF c = "ESC" THEN /\ state' = "ESC" /\ seq' = <<c>> /\ UNCHANGED cursor
       ELSE cursor' = WriteConsole(c) /\ UNCHANGED <<state, seq>>
    /\ touched' = {}
    /\ UNCHANGED <<count, param, attr>>

\* Mutant of Escape: the parameters of the last sequence are kept.
EscapeNoReset(c) ==
    /\ state = "ESC" /\ c \notin Always
    /\ IF c = "[" THEN state' = "[" /\ seq' = Append(seq, c) /\ UNCHANGED <<count, param>>
       ELSE EndSequence
    /\ touched' = {}
    /\ UNCHANGED <<cursor, attr>>

Escape(c) ==
    /\ state = "ESC" /\ c \notin Always
    /\ IF c = "[" THEN /\ state' = "[" /\ seq' = Append(seq, c)
                       /\ count' = 0 /\ param' = NoParams
       ELSE EndSequence
    /\ touched' = {}
    /\ UNCHANGED <<cursor, attr>>

Value(d) == (CHOOSE n \in 1..10 : <<"0", "1", "2", "3", "4", "5", "6", "7", "8", "9">>[n] = d) - 1

\* "collect numeric parameters", in BYTEs; ";" is the "number seperator".
Collect(c) ==
    /\ state \in {"[", "="} /\ Len(seq) < MaxSeq
    /\ \/ c \in Digit /\ param' = [param EXCEPT ![count + 1] = (@ * 10 + Value(c)) % Byte]
          /\ UNCHANGED count
       \/ c = ";" /\ count' = count + 1 /\ UNCHANGED param
    /\ seq' = Append(seq, c)
    /\ touched' = {}
    /\ UNCHANGED <<state, cursor, attr>>

\* FillConsoleOutputCharacter: from the cursor on, to the end of the buffer.
Fill(len) ==
    LET at(cell) == cell[2] * Cols + cell[1]
    IN  {cell \in Cells : at(cell) >= at(Here) /\ at(cell) < at(Here) + len}

\* The number of cells that ESC [ J clears, a WORD.
ToEndOfScreen == (Cols - cursor.x + (Rows - cursor.y) * Cols) % Word

\* ESC [ J and ESC [ K
Clear(c) ==
    /\ state = "[" /\ c \in Clears
    /\ touched' = Fill(IF c = "J" THEN ToEndOfScreen ELSE Cols - cursor.x)
    /\ EndSequence
    /\ UNCHANGED <<cursor, attr>>

FirstY == Rows - Height - 1

\* How far A, B, C and D move: one, unless there was a separator.
Distance == IF count = 0 THEN 1 ELSE param[1]

\* SetConsoleCursorPosition refuses a position outside the buffer.
At(x, y) == IF Inside(x, y) THEN [x |-> x, y |-> y] ELSE cursor

\* The commands that move the cursor.
Move(c) ==
    /\ state = "[" /\ c \in Moves
    /\ cursor' = CASE c = "col" -> At(param[1] - 1, cursor.y)
                   [] c = "H" -> IF count = 0 THEN At(0, FirstY)
                                 ELSE At(param[2] - 1, param[1] - 1 + FirstY)
                   [] c = "A" -> At(cursor.x, cursor.y - Distance)
                   [] c = "B" -> At(cursor.x, cursor.y + Distance)
                   [] c = "C" -> At(cursor.x + Distance, cursor.y)
                   [] c = "D" -> At(cursor.x - Distance, cursor.y)
                   [] c = "E" -> WriteConsole("LF")
    /\ touched' = {}
    /\ EndSequence
    /\ UNCHANGED attr

\* ScrollConsoleScreenBuffer: the rectangle is clipped to the buffer and goes
\* with its corner to a cell; both places change.
Moved(left, top, bottom, x, y) ==
    LET from == {cell \in Cells : cell[1] >= left /\ cell[2] \in top..bottom}
    IN  from \union {<<cell[1] + x - left, cell[2] + y - top>> : cell \in from}

\* Delete and insert a character; delete and insert a line.
ScrollArea(c) ==
    CASE c = "P" -> Moved(cursor.x + 1, cursor.y, cursor.y, cursor.x, cursor.y)
      [] c = "@" -> Moved(cursor.x, cursor.y, cursor.y, cursor.x + 1, cursor.y)
      [] c = "M" -> Moved(0, cursor.y + 1, Rows, 0, cursor.y)
      [] c = "L" -> Moved(0, cursor.y, Rows, 0, cursor.y + 1)

Scroll(c) ==
    /\ state = "[" /\ c \in Scrolls
    /\ touched' = ScrollArea(c) \intersect Cells
    /\ EndSequence
    /\ UNCHANGED <<cursor, attr>>

\* ESC [ n m
Attributes(c) ==
    /\ state = "[" /\ c = "m"
    /\ attr' = CASE param[1] = 0 -> attr \ {"INTENSITY"}
                 [] param[1] = 1 -> attr \union {"INTENSITY"}
                 [] param[1] = 2 -> attr \ {"INTENSITY"}
                 [] param[1] = 7 -> attr \union {"REVERSE"}
                 [] OTHER -> attr
    /\ touched' = {}
    /\ EndSequence
    /\ UNCHANGED cursor

\* ESC [ =, and what is not known, which ends the sequence; so does the
\* command of ESC [ =, which leaves the cursor visible as it is.
Other(c) ==
    /\ \/ /\ state = "[" /\ c = "="
          /\ state' = "=" /\ seq' = Append(seq, c)
          /\ UNCHANGED <<count, param>>
       \/ state = "[" /\ c \in {"ESC", "[", "x"} /\ EndSequence
       \/ state = "=" /\ c \notin Digit \union Always \union {";"} /\ EndSequence
    /\ touched' = {}
    /\ UNCHANGED <<cursor, attr>>

OutputChar(c) ==
    \/ Control(c) \/ Text(c) \/ Escape(c) \/ Collect(c) \/ Clear(c) \/ Move(c)
    \/ Scroll(c) \/ Attributes(c) \/ Other(c)

Cons25Next == \E c \in Input : OutputChar(c)

Cons25Spec == Cons25Init /\ [][Cons25Next]_xvars

-----------------------------------------------------------------------------
(* Properties                                                              *)

\* The cursor is in the buffer and parameters are BYTEs.
Cons25TypeOK ==
    /\ state \in {"text", "ESC", "[", "="} /\ count \in 0..MaxSeq
    /\ \A k \in Slots : param[k] \in 0..(Byte - 1)
    /\ Inside(cursor.x, cursor.y) /\ attr \subseteq {"INTENSITY", "REVERSE"}
    /\ touched \subseteq Cells

\* The k-th field of the sequence, as the number its digits make.
Field(k) ==
    LET at(n) == Len(SelectSeq(SubSeq(seq, 1, n), LAMBDA c : c = ";"))
        upto[n \in 0..Len(seq)] ==
            IF n = 0 THEN 0
            ELSE IF seq[n] \in Digit /\ at(n) = k - 1
                 THEN upto[n - 1] * 10 + Value(seq[n]) ELSE upto[n - 1]
    IN  upto[Len(seq)]

\* While a sequence is read, its parameters are the numbers written in it
\* (modulo the size of a BYTE), field by field, whatever control characters
\* come in between (OutputChar, "collect numeric parameters").
ParamsAreFields ==
    state \in {"[", "="} => \A k \in Slots : param[k] = Field(k) % Byte

\* The machine always knows where in a sequence it is: the state is the one
\* that the characters since ESC lead to, so text is never taken for a
\* command, nor a command's letter shown as text.
StateIsPrefix ==
    /\ (state = "text") = (seq = <<>>)
    /\ (state = "ESC") = (seq = <<"ESC">>)
    /\ state = "[" => seq[2] = "[" /\ ~Contains(seq, "=")
    /\ state = "=" => Contains(seq, "=")

\* No command that clears or moves text changes a line above the cursor's
\* (ESC [ J, K, P, M, @ and L), wherever earlier sequences left the cursor.
TouchesRest ==
    \A cell \in touched : cell[2] >= cursor.y

\* ESC [ J "clear to end of screen", counted in a WORD: on the rows of the
\* screen the count does not overflow, and all that follows is cleared.
ClearsToEnd ==
    cursor.y >= FirstY =>
        Fill(ToEndOfScreen) = {cell \in Cells : \/ cell[2] > cursor.y
                                                \/ cell[2] = cursor.y /\ cell[1] >= cursor.x}

\* OutputChar follows the sequences it is sent, and what a command clears or
\* moves is what it should.
TerminalObeys == ParamsAreFields /\ StateIsPrefix /\ TouchesRest /\ ClearsToEnd
=============================================================================
