------------------------------- MODULE LineEdit -------------------------------
(***************************************************************************)
(* The line editor of #GETL (scr_getl in src/src/screen.c) on the screen   *)
(* of ScreenOps.  The user moves over the whole screen and edits; RETURN   *)
(* gives the program the text of the joined rows the cursor is in.  The    *)
(* loops of the code over the cells of these rows are written as one new   *)
(* picture of them.                                                        *)
(***************************************************************************)
EXTENDS ScreenOps, Sequences, SequencesExt

CONSTANTS
    TabLen,         \* SCR_TABLEN
    CutMax,         \* bound: the longest text that C-k cuts
    Null            \* no line was given to the program

ASSUME TabAssumption == TabLen \in Nat \ {0} /\ CutMax \in Nat

VARIABLES
    scr,            \* the screen, see ScreenOps
    cut,            \* scr_cutbuf
    imode,          \* scr_mode_insert
    editing,        \* #GETL is in progress
    line,           \* the text the last #GETL put into the program's buffer
    alive           \* no array was left: after that anything may happen

vars == <<scr, cut, imode, editing, line, alive>>

-----------------------------------------------------------------------------
(* The cells of the joined rows, in reading order.                         *)

TopRow(s) == Max({r \in 0 .. s.vy : r = 0 \/ r - 1 \notin s.cont})
EndRow(s) == GroupEnd(s.cont, s.vy)

(* The rows a to b as one text.                                            *)
TextOf(s, a, b) ==
    [i \in 1 .. (b - a + 1) * s.vw |->
        s.chr[a + (i - 1) \div s.vw][(i - 1) % s.vw]]

(* Cells of the group at or behind the cursor.                             *)
Behind(s, r, x) ==
    /\ x < s.vw /\ r <= EndRow(s)
    /\ r > s.vy \/ (r = s.vy /\ x >= s.vx)

(* Left of a blank: the text as the program and the cut buffer get it.     *)
Trimmed(t) ==
    SubSeq(t, 1, Max({0} \cup {i \in DOMAIN t : t[i] # Blank}))

(* New cells, the changed ones marked.                                     *)
Redrawn(s, new) ==
    [s EXCEPT !.chr = new,
              !.dirty = [r \in Rows |-> @[r] \cup
                                {x \in Cols : new[r][x] # s.chr[r][x]}]]

Changed(s, new) == {r \in Rows : new[r] # s.chr[r]}

-----------------------------------------------------------------------------
(* Inserting.                                                              *)

(* scr_vinsline: the flags of a row become those of the row above, then    *)
(* it is dirty if a cell differs.                                          *)
VInsLine(s, iy) ==
    LET new == [r \in Rows |-> IF r < iy THEN s.chr[r] ELSE
                  [x \in Cols |-> IF x >= s.vw THEN s.chr[r][x]
                                  ELSE IF r = iy THEN Blank ELSE s.chr[r - 1][x]]]
        moved(S) == {r \in Rows : (r < iy /\ r \in S) \/ (r > iy /\ r - 1 \in S)}
    IN [Redrawn(s, new) EXCEPT
          !.cont = moved(s.cont),
          !.ldirty = moved(s.ldirty) \cup (Changed(s, new) \cap iy .. VH) \cup {iy}]

PushedRight(s) ==
    [r \in Rows |-> [x \in Cols |->
        IF ~Behind(s, r, x) THEN s.chr[r][x]
        ELSE IF r = s.vy /\ x = s.vx THEN Blank
        ELSE IF x > 0 THEN s.chr[r][x - 1]
        ELSE s.chr[r - 1][s.vw - 1]]]

Carried(s, r, c) ==
    IF c = Blank THEN s
    ELSE [s EXCEPT !.chr[r][0] = c, !.dirty[r] = @ \cup {0},
                   !.ldirty = @ \cup {r}]

(* scr_insert of one blank.  When the last character of the group falls    *)
(* out, or the cursor is on its cell, the group gets another row: one      *)
(* inserted below it or, at the bottom, one the screen scrolls for.  A     *)
(* last row that is marked as joined loses the character.                  *)
InsertOne(s) ==
    LET e == EndRow(s)
        out == s.chr[e][s.vw - 1]
        t == [Redrawn(s, PushedRight(s)) EXCEPT
                 !.ldirty = @ \cup Changed(s, PushedRight(s))]
        joined == [t EXCEPT !.cont = @ \cup {e}]
    IN IF e \in s.cont THEN t
       ELSE IF out = Blank /\ ~(s.vx = s.vw - 1 /\ s.vy = e) THEN t
       ELSE IF e + 1 < VH THEN Carried(VInsLine(joined, e + 1), e + 1, out)
       ELSE Carried([Scroll(joined) EXCEPT !.vy = s.vy - 1], VH - 1, out)

(* A cursor above the first row: the next access is outside the arrays.    *)
Outside(s) == s.vy < 0

(* scr_insert: num blanks, one after the other.                            *)
Insert(s, num) ==
    LET after[n \in 0 .. num] ==
          IF n = 0 THEN s
          ELSE IF Outside(after[n - 1]) THEN after[n - 1]
          ELSE InsertOne(after[n - 1])
    IN after[num]

InsCh(s, c) ==
    LET t == InsertOne(s) IN IF Outside(t) THEN t ELSE VPutc(t, c, FALSE)

(* A character of the cut buffer, inserted or put over the one there.      *)
YankOne(s, c) ==
    IF Outside(s) THEN s ELSE IF imode THEN InsCh(s, c) ELSE VPutc(s, c, FALSE)

(* scr_yank *)
Yank(s, text) ==
    LET after[n \in 0 .. Len(text)] ==
          IF n = 0 THEN s ELSE YankOne(after[n - 1], text[n])
    IN after[Len(text)]

-----------------------------------------------------------------------------
(* Deleting.                                                               *)

PulledLeft(s) ==
    [r \in Rows |-> [x \in Cols |->
        IF ~Behind(s, r, x) THEN s.chr[r][x]
        ELSE IF x + 1 < s.vw THEN s.chr[r][x + 1]
        ELSE IF r < EndRow(s) THEN s.chr[r + 1][0]
        ELSE Blank]]

(* A bug it could have: only the row of the cursor is marked.              *)
DeleteMarkingOne(s) ==
    Flush([Redrawn(s, PulledLeft(s)) EXCEPT !.ldirty = @ \cup {s.vy}])

(* scr_delete *)
Delete(s) ==
    Flush([Redrawn(s, PulledLeft(s)) EXCEPT
              !.ldirty = @ \cup s.vy .. EndRow(s)])

(* A bug it could have: the rows are not joined.                           *)
BackspaceUnjoined(s) == Delete(VLeft(s, FALSE))

(* scr_backspace: over the left edge it joins the rows.                    *)
Backspace(s) ==
    LET t == VLeft(s, FALSE)
    IN Delete(IF t.vy # s.vy THEN [t EXCEPT !.cont = @ \cup {t.vy}] ELSE t)

(* scr_vkill *)
Kill(s) ==
    Flush([Redrawn(s, [r \in Rows |-> [x \in Cols |->
                          IF Behind(s, r, x) THEN Blank ELSE s.chr[r][x]]])
           EXCEPT !.ldirty = @ \cup s.vy .. EndRow(s)])

(* A bug it could have: only the row of the cursor is cut.                 *)
KilledRow(s) ==
    Trimmed(SubSeq(TextOf(s, s.vy, s.vy), s.vx + 1, s.vw))

KilledText(s) ==
    Trimmed(SubSeq(TextOf(s, s.vy, EndRow(s)), s.vx + 1,
                   (EndRow(s) - s.vy + 1) * s.vw))

-----------------------------------------------------------------------------
(* Moving within the group.                                                *)

MovedTo(s, y, x) == XySync(Show([s EXCEPT !.vy = y, !.vx = x], TRUE))

(* scr_top *)
ToTop(s) == MovedTo(s, TopRow(s), 0)

(* A bug it could have: right of the last character, room or not.          *)
ToEndOutside(s) ==
    LET n == Len(Trimmed(TextOf(s, TopRow(s), EndRow(s))))
    IN MovedTo(s, TopRow(s) + n \div s.vw, n % s.vw)

(* scr_end: right of the last visible character; on the last cell of the   *)
(* group if that is the last one or there is none.                         *)
ToEnd(s) ==
    LET n == Len(Trimmed(TextOf(s, TopRow(s), EndRow(s))))
        cells == (EndRow(s) - TopRow(s) + 1) * s.vw
        p == IF 0 < n /\ n < cells THEN n ELSE cells - 1
    IN MovedTo(s, TopRow(s) + p \div s.vw, p % s.vw)

(* scr_key_tab: blanks up to the next tab stop, unless it is off the row.  *)
TabWidth(s) == TabLen - (s.vx % TabLen)

KeyTab(s) ==
    LET t == Insert(s, TabWidth(s))
    IN IF s.vx + TabWidth(s) >= s.vw THEN s
       ELSE IF Outside(t) THEN t
       ELSE XySync(Flush([t EXCEPT !.vx = t.vx + TabWidth(s)]))

-----------------------------------------------------------------------------
(* The calls of the program and the keys of the user.                      *)

(* What RETURN gives to the program.                                       *)
LineText(s) == Trimmed(TextOf(s, TopRow(s), EndRow(s)))

TypeOK ==
    /\ scr \in Screen
    /\ cut \in Seq(Char) /\ Len(cut) <= VH * MaxW
    /\ imode \in BOOLEAN /\ editing \in BOOLEAN /\ alive \in BOOLEAN
    /\ line \in Seq(Char) \cup {Null}

Init ==
    /\ scr = InitScreen
    /\ cut = <<>> /\ imode = TRUE /\ editing = FALSE
    /\ line = Null
    /\ alive = TRUE

(* The program puts a character between two lines.                         *)
Put(c) ==
    /\ alive /\ ~editing
    /\ scr' = Putch(scr, c, TRUE)
    /\ line' = Null
    /\ UNCHANGED <<cut, imode, editing, alive>>

(* scr_getl; the cursor is shown before the first key.                     *)
Getl ==
    /\ alive /\ ~editing
    /\ editing' = TRUE
    /\ scr' = Visible(scr)
    /\ line' = Null
    /\ UNCHANGED <<cut, imode, alive>>

(* Nothing is known of a program that has left its arrays: the user starts *)
(* the emulator again.                                                     *)
Fault ==
    /\ alive' = FALSE
    /\ scr' = InitScreen
    /\ cut' = <<>> /\ imode' = TRUE /\ editing' = FALSE /\ line' = Null

(* A key that changes the screen, and the cut buffer.                      *)
Key(t, text) ==
    /\ alive /\ editing
    /\ IF Outside(t) THEN Fault
       ELSE /\ scr' = t /\ cut' = text
            /\ UNCHANGED <<imode, editing, line, alive>>

Flushed(s) == IF Outside(s) THEN s ELSE Flush(s)

(* A character that is shown; codes above 0xa0 show as Star.               *)
KeyChar(c) ==
    Key(IF imode THEN Flushed(InsCh(scr, c)) ELSE VPutc(scr, c, TRUE), cut)

KeyKill ==
    /\ Len(KilledText(scr)) <= CutMax
    /\ Key(Kill(scr), KilledText(scr))

KeyYank == Key(Flushed(Yank(scr, cut)), cut)
KeyErase == Key(Backspace(scr), cut)
KeyDelete == Key(Delete(scr), cut)
KeyTop == Key(ToTop(scr), cut)
KeyEnd == Key(ToEnd(scr), cut)
KeyTabulate == Key(KeyTab(scr), cut)

KeyMove ==
    \E t \in {VUp(scr, TRUE), VDown(scr, TRUE), VRight(scr, TRUE), VLeft(scr, TRUE)} :
        Key(t, cut)

KeyClear == Key(Clear(scr), cut)
KeyRedraw == Key(Redraw(scr), cut)

KeyImode ==
    /\ alive /\ editing
    /\ imode' = ~imode
    /\ UNCHANGED <<scr, cut, editing, line, alive>>

(* A control key that is mapped to nothing reads behind the key table:     *)
(* what is there is no function (NULL) or anything.                        *)
KeyUnmapped ==
    /\ alive /\ editing
    /\ \/ UNCHANGED vars
       \/ Fault

(* RETURN, or a key that is negative as a char.  A text as long as the     *)
(* screen leaves no room for the '\0' in the buffer of sos_getl.           *)
KeyEnter ==
    /\ alive /\ editing
    /\ \/ /\ scr' = VCrlf(scr, TRUE)
          /\ editing' = FALSE
          /\ line' = LineText(scr)
          /\ UNCHANGED <<cut, imode, alive>>
       \/ Len(LineText(scr)) = VH * MaxW /\ Fault

(* The break key: the cursor stays.                                        *)
KeyBreak ==
    /\ alive /\ editing
    /\ editing' = FALSE
    /\ UNCHANGED <<scr, cut, imode, line, alive>>

Restart == ~alive /\ alive' = TRUE /\ UNCHANGED <<scr, cut, imode, editing, line>>

EditKey ==
    \/ \E c \in Char : KeyChar(c)
    \/ KeyKill \/ KeyYank \/ KeyErase \/ KeyDelete
    \/ KeyTop \/ KeyEnd \/ KeyTabulate \/ KeyMove
    \/ KeyClear \/ KeyRedraw \/ KeyImode \/ KeyUnmapped
    \/ KeyEnter \/ KeyBreak

Next ==
    \/ \E c \in Char \cup {"cr"} : Put(c)
    \/ Getl
    \/ EditKey
    \/ Restart

Spec == Init /\ [][Next]_vars
=============================================================================
