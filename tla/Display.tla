------------------------------- MODULE Display -------------------------------
(***************************************************************************)
(* What the screen system calls of S-OS promise: a grid of characters with *)
(* a cursor, rows that are joined into longer lines when text runs over    *)
(* the right edge, and a terminal that shows the grid whenever no call is  *)
(* in progress.  No dirty marks, no flushing, no believed cursor: Console  *)
(* is shown to implement this.                                             *)
(***************************************************************************)
EXTENDS Integers

CONSTANTS
    Height,         \* number of rows
    WidthSet,       \* the selectable widths
    Letter,         \* the characters
    Space           \* the blank one

VARIABLES
    text,           \* text[row][column]
    w,              \* the width
    cx, cy,         \* the cursor; cx = w is a place right of the grid
    joined,         \* the rows that go on in the next row
    shown,          \* what the terminal shows of the grid
    busy            \* a call of several characters is in progress

dvars == <<text, w, cx, cy, joined, shown, busy>>

Line == 0 .. Height - 1
BlankGrid(v) == [r \in Line |-> [x \in 0 .. v - 1 |-> Space]]

(* The grid, and the joins, one row up: a new last row is not joined.      *)
Scrolled(t) == [r \in Line |-> IF r < Height - 1 THEN t[r + 1]
                               ELSE [x \in 0 .. w - 1 |-> Space]]
Rolled(J) == {r \in 0 .. Height - 2 : r + 1 \in J}

(* A call of one character ends with the grid on the terminal; during a    *)
(* longer call the terminal may lag behind in any way.                     *)
Settle == busy' = busy /\ (busy \/ shown' = text')

DInit ==
    /\ w \in WidthSet
    /\ text = BlankGrid(w)
    /\ cx = 0 /\ cy = 0
    /\ joined = {}
    /\ shown = text
    /\ busy = FALSE

(* The cursor to column x of the row after row y, on a grid t with joins J *)
Feed(t, J, y, x) ==
    /\ cx' = x
    /\ IF y + 1 < Height
         THEN text' = t /\ joined' = J /\ cy' = y + 1
         ELSE text' = Scrolled(t) /\ joined' = Rolled(J) /\ cy' = y

Put(c) ==
    LET t == IF cx < w THEN [text EXCEPT ![cy][cx] = c] ELSE text
    IN /\ IF cx + 1 < w
            THEN text' = t /\ cx' = cx + 1 /\ UNCHANGED <<cy, joined>>
            ELSE Feed(t, joined \cup {cy}, cy, 0)
       /\ UNCHANGED w
       /\ Settle

(* A line feed goes to the row after the last row joined to this one.      *)
LineFeed ==
    /\ \E e \in cy .. Height - 1 :
          /\ \A r \in cy .. e - 1 : r \in joined
          /\ e \notin joined
          /\ Feed(text, joined, e, 0)
    /\ UNCHANGED w
    /\ Settle

(* The cursor one row down, whether the row is joined or not.              *)
Down ==
    /\ Feed(text, joined, cy, cx)
    /\ UNCHANGED w
    /\ Settle

(* The cursor off the right edge, without joining the rows.                *)
Over ==
    /\ cx + 1 >= w
    /\ Feed(text, joined, cy, 0)
    /\ UNCHANGED w
    /\ Settle

MoveTo(y, x) ==
    /\ cy' = y /\ cx' = x
    /\ UNCHANGED <<text, joined, w>>
    /\ Settle

Wipe(v) ==
    /\ w' = v
    /\ text' = BlankGrid(v)
    /\ cx' = 0 /\ cy' = 0
    /\ joined' = {}
    /\ Settle

Begin ==
    /\ ~busy /\ busy' = TRUE
    /\ UNCHANGED <<text, w, cx, cy, joined, shown>>

End ==
    /\ busy /\ busy' = FALSE
    /\ shown' = text
    /\ UNCHANGED <<text, w, cx, cy, joined>>

DNext ==
    \/ \E c \in Letter : Put(c)
    \/ LineFeed
    \/ Down
    \/ Over
    \/ \E y \in Line, x \in 0 .. w : MoveTo(y, x)
    \/ \E v \in WidthSet : Wipe(v)
    \/ Begin
    \/ End

DSpec == DInit /\ [][DNext]_dvars
=============================================================================
