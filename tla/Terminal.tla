------------------------------ MODULE Terminal ------------------------------
(***************************************************************************)
(* What the text console promises to whoever prints: the screen shows the  *)
(* last lines of the text, the last one being written to.  The promise is  *)
(* off from the first line as long as the screen is wide until the screen  *)
(* is cleared.                                                             *)
(***************************************************************************)
EXTENDS Naturals, Sequences, SequencesExt

CONSTANTS Columns, Rows, Chars

VARIABLES lines, torn

Blank == << <<>> >>

Init == lines = Blank /\ torn = FALSE

\* A character goes to the end of the last line.
Put(c) ==
    LET line == Append(Last(lines), c) IN
    /\ ~torn
    /\ torn' = (Len(line) >= Columns)
    /\ lines' = IF torn' THEN Blank ELSE [lines EXCEPT ![Len(lines)] = line]

\* A new line begins; the first one leaves the screen when it is full.
Newline ==
    /\ ~torn
    /\ lines' = Append(IF Len(lines) = Rows THEN Tail(lines) ELSE lines, <<>>)
    /\ UNCHANGED torn

\* The last character is taken back.
Erase ==
    /\ ~torn /\ Last(lines) # <<>>
    /\ lines' = [lines EXCEPT ![Len(lines)] = Front(@)]
    /\ UNCHANGED torn

\* An empty line is given up, and the one above is written to again.
Join ==
    /\ ~torn /\ Last(lines) = <<>> /\ Len(lines) > 1
    /\ lines' = Front(lines)
    /\ UNCHANGED torn

Clear == lines' = Blank /\ torn' = FALSE

Next == (\E c \in Chars : Put(c)) \/ Newline \/ Erase \/ Join \/ Clear

Spec == Init /\ [][Next]_<<lines, torn>>
=============================================================================
