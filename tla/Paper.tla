-------------------------------- MODULE Paper --------------------------------
(***************************************************************************)
(* What the editor of #GETL promises (src/src/screen.c): the screen is a   *)
(* sheet of lines of text, each as long as a number of rows, and a key     *)
(* changes the line the cursor is in, the other lines only moving up or    *)
(* down.  No rows, no marks, no terminal.                                  *)
(*                                                                         *)
(* A sheet is [lines, at, pos]: the lines from the top, the one with the   *)
(* cursor, and the number of characters left of it.                        *)
(***************************************************************************)
EXTENDS Integers, Sequences, SequencesExt

CONSTANTS
    Height,         \* rows of the screen
    Space           \* the blank character

Blanks(n) == [i \in 1 .. n |-> Space]

(* A line as the program is given it.                                      *)
Trim(l) ==
    SubSeq(l, 1, SelectLastInSeq(l, LAMBDA c : c # Space))

Here(d) == d.lines[d.at]
Edited(d, l, p) == [d EXCEPT !.lines[d.at] = l, !.pos = p]

(* A sheet that has become one row too long: it loses its last row, or its *)
(* first when the cursor is in the last line.                              *)
Fit(d, w) ==
    LET n == Len(d.lines)
        bottom == d.lines[n]
        top == d.lines[1]
    IN IF FoldLeft(LAMBDA m, l : m + Len(l), 0, d.lines) <= Height * w THEN d
       ELSE IF d.at < n THEN
         [d EXCEPT !.lines = IF Len(bottom) = w THEN Front(d.lines)
                             ELSE [d.lines EXCEPT ![n] = SubSeq(bottom, 1, Len(bottom) - w)]]
       ELSE IF Len(top) = w THEN
         [d EXCEPT !.lines = Tail(d.lines), !.at = d.at - 1]
       ELSE
         [d EXCEPT !.lines[1] = SubSeq(top, w + 1, Len(top)),
                   !.pos = IF d.at = 1 THEN d.pos - w ELSE d.pos]

(* c before the character at the cursor.  A line grows by a row when its   *)
(* last character would be lost, and when it is typed at its very end.     *)
Inserted(d, c, w) ==
    LET l == InsertAt(Here(d), d.pos + 1, c)
        grows == Last(l) # Space \/ d.pos + 1 = Len(Here(d))
    IN Fit(Edited(d, IF grows THEN l \o Blanks(w - 1) ELSE Front(l), d.pos + 1), w)

Deleted(d) ==
    Edited(d, Append(RemoveAt(Here(d), d.pos + 1), Space), d.pos)

(* At the start of a line the line above is joined to it, and its last     *)
(* character is the one that goes.                                         *)
Erased(d) ==
    IF d.pos > 0 THEN Deleted([d EXCEPT !.pos = d.pos - 1])
    ELSE IF d.at = 1 THEN Deleted(d)
    ELSE LET above == d.lines[d.at - 1]
         IN Deleted([lines |-> ReplaceAt(RemoveAt(d.lines, d.at), d.at - 1,
                                         above \o Here(d)),
                     at |-> d.at - 1, pos |-> Len(above) - 1])

Killed(d) ==
    Edited(d, SubSeq(Here(d), 1, d.pos) \o Blanks(Len(Here(d)) - d.pos), d.pos)

Cut(d) == Trim(SubSeq(Here(d), d.pos + 1, Len(Here(d))))

ToStart(d) == [d EXCEPT !.pos = 0]

(* Right of the last visible character if there is room, and at the very   *)
(* end of a blank line.                                                    *)
ToEnd(d) ==
    LET n == Len(Trim(Here(d)))
    IN [d EXCEPT !.pos = IF 0 < n /\ n < Len(Here(d)) THEN n
                         ELSE Len(Here(d)) - 1]

(* RETURN: on to the next line, which is a new one at the bottom.          *)
Entered(d, w) ==
    IF d.at < Len(d.lines) THEN [d EXCEPT !.at = d.at + 1, !.pos = 0]
    ELSE Fit([lines |-> Append(d.lines, Blanks(w)), at |-> d.at + 1, pos |-> 0], w)
=============================================================================
