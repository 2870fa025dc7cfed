------------------------------ MODULE Console -------------------------------
(***************************************************************************)
(* The text console: ConsoleStream::write, the cursor and Console::Clear   *)
(* (std/stdio.cpp).  The buffer is video memory, two rows of which behind  *)
(* the screen matter because scrolling copies from there.  Of a cell only  *)
(* the character is kept, not its colour; 0 is the empty cell.  The state  *)
(* begins as begin() leaves it, after Console::Init and Console::Clear.    *)
(***************************************************************************)
EXTENDS Integers, Sequences

CONSTANTS
    columns, rows,
    Chars         \* printable characters

Empty == "empty"
Junk == "junk"   \* what video memory holds behind the screen

ASSUME ConsoleAssumption ==
    /\ columns \in Nat \ {0, 1} /\ rows \in Nat \ {0}
    /\ {Empty, Junk} \cap Chars = {}

VARIABLES
    buffer,
    x, y,    \* the cursor
    torn,    \* history: a line has filled its row since the last Clear
    unset     \* history: an uninitialised variable has been used

vars == <<buffer, x, y, torn, unset>>

Offset(cx, cy) == cy * columns + cx
Screen == 0 .. rows * columns - 1
Cells == 0 .. (rows + 2) * columns - 1

Init ==
    /\ buffer = [o \in Cells |-> IF o \in Screen THEN Empty ELSE Junk]
    /\ x = 0 /\ y = 0
    /\ torn = FALSE /\ unset = FALSE

-----------------------------------------------------------------------------
\* Mutant of CopyRows: the copy begins a cell late.
CopyLate(b, r) ==
    [o \in Cells |-> IF o \in Offset(1, r) .. Offset(0, r) + 2 * columns - 1
                     THEN b[o + columns] ELSE b[o]]

\* memcpyw of 4 * columns bytes: two rows, from the row below.
CopyRows(b, r) ==
    [o \in Cells |-> IF o \in Offset(0, r) .. Offset(0, r) + 2 * columns - 1
                     THEN b[o + columns] ELSE b[o]]

\* Mutant of Scrolled: the last row keeps what was copied into it.
ScrolledOnly(b) ==
    LET copied[r \in 0 .. rows] == IF r = 0 THEN b ELSE CopyRows(copied[r - 1], r - 1)
    IN copied[rows]

\* The loop over all rows, then the last one is cleared.
Scrolled(b) ==
    LET copied[r \in 0 .. rows] == IF r = 0 THEN b ELSE CopyRows(copied[r - 1], r - 1)
    IN [o \in Cells |-> IF o \in Offset(0, rows - 1) .. Offset(0, rows) - 1
                        THEN Empty ELSE copied[rows][o]]

\* Mutant of MoveOrScroll: the screen ends a cell later.
MoveOrScrollLate(b, cx, cy) ==
    IF Offset(cx, cy) > rows * columns
    THEN buffer' = Scrolled(b) /\ x' = 0 /\ y' = rows - 1
    ELSE buffer' = b /\ x' = cx /\ y' = cy

\* The cursor moves; behind the last cell the screen scrolls.
MoveOrScroll(b, cx, cy) ==
    IF Offset(cx, cy) >= rows * columns
    THEN buffer' = Scrolled(b) /\ x' = 0 /\ y' = rows - 1
    ELSE buffer' = b /\ x' = cx /\ y' = cy

Newline ==
    /\ ~unset
    /\ MoveOrScroll(buffer, 0, y + 1)
    /\ UNCHANGED <<torn, unset>>

\* A line that is too long goes on in the row below, but y stays.
Put(c) ==
    /\ ~unset
    /\ MoveOrScroll([buffer EXCEPT ![Offset(x, y)] = c], x + 1, y)
    /\ torn' = (torn \/ x + 1 >= columns)
    /\ UNCHANGED unset

\* '\b' behind the beginning of a line empties the cell before the cursor.
Erase ==
    /\ ~unset /\ x > 0
    /\ x' = x - 1
    /\ buffer' = [buffer EXCEPT ![Offset(x - 1, y)] = Empty]
    /\ UNCHANGED <<y, torn, unset>>

\* At the beginning it looks for the first empty cell of the row above and
\* leaves last_x unset when there is none.  The cell found is emptied again.
Join ==
    LET ends == {c \in 0 .. columns - 1 : buffer[Offset(c, y - 1)] = Empty} IN
    /\ ~unset /\ x = 0 /\ y > 0
    /\ y' = y - 1
    /\ \/ \E last_x \in ends :
             /\ \A c \in ends : last_x <= c
             /\ x' = last_x
             /\ UNCHANGED unset
       \/ ends = {} /\ unset' = TRUE /\ UNCHANGED x
    /\ UNCHANGED <<buffer, torn>>

Clear ==
    /\ ~unset
    /\ x' = 0 /\ y' = 0
    /\ buffer' = [o \in Cells |-> IF o \in Screen THEN Empty ELSE buffer[o]]
    /\ torn' = FALSE
    /\ UNCHANGED unset

Next == Newline \/ (\E c \in Chars : Put(c)) \/ Erase \/ Join \/ Clear

Spec == Init /\ [][Next]_vars

-----------------------------------------------------------------------------
\* Whatever is printed, the cell the next character goes to is on the screen
\* (the index into buffer in ConsoleStream::write stays in video memory).
CursorOnScreen == ~unset => Offset(x, y) \in Screen

\* Nothing from behind the screen is ever scrolled into view, although the last
\* copy of the scroll loop reads there.
NoJunk == \A o \in Screen : buffer[o] # Junk

\* The text of a row: what stands before its first empty cell.
Row(r) ==
    LET len == CHOOSE n \in 0 .. columns :
                 /\ \A c \in 0 .. n - 1 : buffer[Offset(c, r)] # Empty
                 /\ n < columns => buffer[Offset(n, r)] = Empty
    IN [k \in 1 .. len |-> buffer[Offset(k - 1, r)]]

\* Nothing but the texts of the rows down to the cursor is on the screen.
Tidy ==
    \A r \in 0 .. rows - 1, c \in 0 .. columns - 1 :
        buffer[Offset(c, r)] # Empty => r <= y /\ c < Len(Row(r))

\* The lines on the screen, and no lines at all when they cannot be told.
Shown == IF torn THEN << <<>> >>
         ELSE IF Tidy /\ ~unset THEN [n \in 1 .. y + 1 |-> Row(n - 1)] ELSE <<>>

Screenful == INSTANCE Terminal WITH Columns <- columns, Rows <- rows, lines <- Shown

\* As long as lines are shorter than the screen is wide, the screen shows the
\* last lines of what was printed, backspaces included, and nothing else; and the
\* column a backspace moves to (last_x in ConsoleStream::write) is never unset.
ImplementsTerminal == Screenful!Spec
=============================================================================
