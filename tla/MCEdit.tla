-------------------------------- MODULE MCEdit --------------------------------
(***************************************************************************)
(* The editor of LineEdit against the sheet of lines of Paper: what the    *)
(* keys of #GETL promise, and what is on the terminal after each of them.  *)
(***************************************************************************)
EXTENDS LineEdit

P == INSTANCE Paper WITH Height <- VH, Space <- Blank

(* The sheet that the rows and their joins stand for.                      *)
Sheet(s) ==
    LET tops == {r \in Rows : r = 0 \/ r - 1 \notin s.cont}
    IN [lines |-> FoldLeft(LAMBDA ls, r :
                               Append(ls, TextOf(s, r, GroupEnd(s.cont, r))),
                           <<>>, SetToSortSeq(tops, <)),
        at |-> Cardinality({r \in tops : r <= s.vy}),
        pos |-> (s.vy - TopRow(s)) * s.vw + s.vx]

(* The screen s stands for the sheet d, or the key has left the arrays.    *)
Shows(s, d) == Outside(s) \/ Sheet(s) = d

(* Characters put one after the other before the cursor.                   *)
Typed(d, text) ==
    FoldLeft(LAMBDA e, c : P!Inserted(e, c, scr.vw), d, text)

TabBlanks ==
    IF scr.vx + TabWidth(scr) >= scr.vw THEN <<>>
    ELSE [i \in 1 .. TabWidth(scr) |-> Blank]

(* The last row is marked as joined to a row that is not there: typing in  *)
(* the line that ends there loses its last character.                      *)
Stuck(s) == VH - 1 \in s.cont

-----------------------------------------------------------------------------
(* In insert mode every key does to the sheet of lines what Paper says,    *)
(* over any number of joined rows, at the edges of the screen and while it *)
(* scrolls; no other line changes, and RETURN gives the program the line   *)
(* of the cursor and goes to the next one.                                 *)
KeysEditTheSheet ==
    LET d == Sheet(scr)
    IN editing /\ imode =>
        /\ Shows(Backspace(scr), P!Erased(d))
        /\ Shows(Delete(scr), P!Deleted(d))
        /\ Shows(Kill(scr), P!Killed(d)) /\ KilledText(scr) = P!Cut(d)
        /\ Shows(ToTop(scr), P!ToStart(d))
        /\ Shows(ToEnd(scr), P!ToEnd(d))
        /\ LineText(scr) = P!Trim(P!Here(d))
        /\ ~Stuck(scr) =>
             /\ \A c \in Char : Shows(InsCh(scr, c), P!Inserted(d, c, scr.vw))
             /\ LET s == Yank(scr, cut) IN Stuck(s) \/ Shows(s, Typed(d, cut))
             /\ Shows(KeyTab(scr), Typed(d, TabBlanks))
             /\ Shows(VCrlf(scr, TRUE), P!Entered(d, scr.vw))

(* The terminal shows the virtual screen and nothing waits to be drawn,    *)
(* the real cursor is at the virtual one, and so are the bytes at XYADR.   *)
EditIsShown ==
    /\ \A r \in Rows, x \in 0 .. scr.vw - 1 :
          scr.glass[r][x] = scr.chr[r][x] /\ x \notin scr.dirty[r]
    /\ scr.vis => scr.gx = scr.vx /\ scr.gy = scr.vy
    /\ scr.xy = <<scr.vx, scr.vy>>

(* Two keys may leave the terminal behind: the C-y of a text longer than a *)
(* row inserts two rows, and the second copies the flags of the first over *)
(* those of a row that is yet to be drawn; the redraw of C-l draws from    *)
(* where it believes the cursor was (Suspend).  Where that happens the     *)
(* sheet goes on as promised but the terminal shows another until the next *)
(* clear, and the model does not follow it.                                *)
MayLeaveOld == (Len(cut) > scr.vw /\ KeyYank) \/ KeyRedraw

MCSpec == Init /\ [][Next /\ (~EditIsShown' => ~MayLeaveOld)]_vars

(* Every other key and every character of the program leaves its changes   *)
(* shown, whatever was joined, marked or scrolled before.                  *)
StaysShown == [][EditIsShown => EditIsShown']_vars

(* In insert mode C-y right after C-k gives back the line, as long as it   *)
(* does not reach the last row, whose growth scrolls the screen.           *)
YankUndoesKill ==
    editing /\ imode /\ EndRow(scr) < VH - 1 =>
        LineText(Yank(Kill(scr), KilledText(scr))) = LineText(scr)

=============================================================================
