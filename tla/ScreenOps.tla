------------------------------ MODULE ScreenOps ------------------------------
(***************************************************************************)
(* The screen of the emulator (src/src/screen.c) as operators on one       *)
(* record.  The program keeps a virtual screen (scr_vchr), a dirty mark    *)
(* per cell (scr_vattr) and two flags per row (scr_vlattr); the terminal   *)
(* it draws on has cells and a cursor of its own, and the program only     *)
(* holds a belief about where that cursor is (scr_px, scr_py).  The two    *)
(* bytes at XYADR in the memory of the Z80 mirror the virtual cursor.      *)
(*                                                                         *)
(* An operator s -> s' stands for one C function; `imm' is its flag        *)
(* argument, SCR_F_IMM or SCR_F_NONE.  No operator is RECURSIVE.           *)
(***************************************************************************)
EXTENDS Integers, FiniteSetsExt

CONSTANTS
    VH,         \* EM_MAXLN: rows of the virtual screen
    NarrowW,    \* the width #WIDCH selects for A <= 40
    MaxW,       \* EM_WIDTH = SCR_MAXWIDTH: the other width, and the first one
    PH, PW,     \* scr_ph, scr_pw: size of the terminal
    Char,       \* what scr_vputc may be asked to put
    Blank,      \* ' '
    Star,       \* '*', shown for every code above 0xa0
    Nul         \* the '\0' stored right of the last column

Control == {"ignored", "cls", "cr", "right", "left", "up", "down", "graph"}

ASSUME SizeAssumption ==
    /\ VH \in 2 .. 255 /\ PH \in Nat /\ PH >= VH
    /\ NarrowW \in 1 .. 255 /\ MaxW \in 1 .. 255 /\ NarrowW <= MaxW
    /\ PW \in Nat /\ PW >= MaxW

ASSUME CharAssumption ==
    /\ Blank \in Char /\ Star \in Char
    /\ Nul \notin Char
    /\ Char \cap Control = {}

Widths == {NarrowW, MaxW}
Rows == 0 .. VH - 1
Cols == 0 .. MaxW               \* column scr_vw holds the terminator
PRows == 0 .. PH - 1
PCols == 0 .. PW - 1
Byte == 0 .. 255
Cell == Char \cup {Nul}
Code == Char \cup Control

Screen ==
    [vw : Widths,                       \* scr_vw
     chr : [Rows -> [Cols -> Cell]],    \* scr_vchr
     dirty : [Rows -> SUBSET Cols],     \* cells marked SCR_A_DIRTY
     ldirty : SUBSET Rows,              \* rows with SCR_LA_DIRTY
     cont : SUBSET Rows,                \* rows with SCR_LA_CONT
     vx : Cols, vy : Rows,              \* scr_vx, scr_vy
     vis : BOOLEAN,                     \* scr_cur_visible
     xy : Byte \X Byte,                 \* the bytes at EM_XYADR
     px : -1 .. MaxW + 1, py : -1 .. PH, \* scr_px, scr_py; -1: unknown
     glass : [PRows -> [PCols -> Cell]],
     gx : 0 .. PW, gy : PRows]          \* gx = PW: behind the last column

BlankGlass == [y \in PRows |-> [x \in PCols |-> Blank]]

-----------------------------------------------------------------------------
(* The terminal.                                                           *)

(* scr_pmove: nothing is sent when the cursor is believed to be there.  A  *)
(* terminal keeps the cursor it is sent on its screen.                     *)
Pmove(s, y, x) ==
    IF s.py = y /\ s.px = x THEN s
    ELSE [s EXCEPT !.py = y, !.px = x,
                   !.gy = IF y < PH THEN y ELSE PH - 1,
                   !.gx = IF x < PW THEN x ELSE PW - 1]

(* The terminal draws c where its cursor is.                               *)
Emit(s, c) ==
    [s EXCEPT !.glass[s.gy][IF s.gx < PW THEN s.gx ELSE PW - 1] = c,
              !.gx = IF s.gx < PW THEN s.gx + 1 ELSE PW]

(* scr_pput: the belief is dropped on the right margin.                    *)
Pput(s, y, x, c) ==
    LET t == Emit(Pmove(s, y, x), c)
    IN [t EXCEPT !.px = IF x + 1 >= PW THEN -1 ELSE x + 1]

(* The columns of row r from the first to the last member of cells[r].     *)
Under(cells, r, x) == \E a, b \in cells[r] : a <= x /\ x <= b

(* The loop of scr_flush and of scr_redraw: every row with a member in     *)
(* cells is written from its first to its last one.  Only the first        *)
(* scr_pmove may be skipped, so only the first row can land elsewhere: at  *)
(* the place where the cursor of the terminal really is.                   *)
WriteSpans(s, cells) ==
    LET rows == {r \in Rows : cells[r] # {}}
        top  == Min(rows)
        bot  == Max(rows)
        m    == Pmove(s, top, Min(cells[top]))
        from == Min(cells[top]) - m.gx
        end  == IF bot = top THEN Max(cells[top]) + 1 - from
                             ELSE Max(cells[bot]) + 1
    IN IF rows = {} THEN s
       ELSE [s EXCEPT
               !.glass = [y \in PRows |-> [x \in PCols |->
                   IF y \in rows \ {top} /\ Under(cells, y, x)
                     THEN s.chr[y][x]
                   ELSE IF y = m.gy /\ Under(cells, top, x + from)
                     THEN s.chr[top][x + from]
                   ELSE s.glass[y][x]]],
               !.gy = IF bot = top THEN m.gy ELSE bot,
               !.gx = IF end < PW THEN end ELSE PW,
               !.py = bot,
               !.px = Min(cells[bot])]

-----------------------------------------------------------------------------
(* Whole-screen functions.                                                 *)

(* sync_xyadr, through trap_write_workarea_without_sync.                   *)
XySync(s) == [s EXCEPT !.xy = <<s.vx % 256, s.vy % 256>>]

(* "move the cursor if it is visible and the caller wants it now"          *)
Show(s, imm) == IF s.vis /\ imm THEN Pmove(s, s.vy, s.vx) ELSE s

BlankLine(s, row) ==
    [x \in Cols |-> IF x < s.vw THEN Blank
                    ELSE IF x = s.vw THEN Nul ELSE row[x]]

Clear(s) ==
    XySync([s EXCEPT
        !.chr = [r \in Rows |-> BlankLine(s, s.chr[r])],
        !.dirty = [r \in Rows |-> s.dirty[r] \ (0 .. s.vw)],
        !.ldirty = {}, !.cont = {},
        !.vx = 0, !.vy = 0, !.px = 0, !.py = 0,
        !.glass = BlankGlass, !.gx = 0, !.gy = 0])

(* A bug it could have: the flags stay where they are.                      *)
ShiftUpNot(S) == S

(* The flags of every row move up; those of the last row stay, because the *)
(* reset after the loop is to scr_vlattr[scr_vh].                          *)
ShiftUp(S) == {r \in Rows : IF r < VH - 1 THEN r + 1 \in S ELSE r \in S}

Scroll(s) ==
    [s EXCEPT
        !.chr = [r \in Rows |-> IF r < VH - 1 THEN s.chr[r + 1]
                                ELSE BlankLine(s, s.chr[0])],
        !.dirty = [r \in Rows |-> IF r < VH - 1 THEN s.dirty[r + 1]
                                  ELSE s.dirty[0] \ (0 .. s.vw)],
        !.ldirty = ShiftUp(s.ldirty), !.cont = ShiftUp(s.cont),
        !.glass = [y \in PRows |-> IF y < PH - 1 THEN s.glass[y + 1]
                                   ELSE [x \in PCols |-> Blank]],
        !.gy = PH - 1, !.gx = 0, !.px = -1, !.py = -1]

(* scr_flush; scr_sync.                                                    *)
Flush(s) ==
    LET cells == [r \in Rows |-> IF r \in s.ldirty
                                 THEN s.dirty[r] \cap (0 .. s.vw - 1) ELSE {}]
        rows == {r \in Rows : cells[r] # {}}
    IN Pmove([WriteSpans(s, cells) EXCEPT
                 !.dirty = [r \in Rows |-> s.dirty[r] \ cells[r]],
                 !.ldirty = s.ldirty \ rows,
                 !.px = IF rows = {} THEN s.px ELSE -1],
             s.vy, s.vx)

(* scr_redraw: clears the terminal, then writes what is not blank.  The    *)
(* belief about the cursor is the one from before the clear.               *)
Redraw(s) ==
    LET cells == [r \in Rows |-> {x \in 0 .. s.vw - 1 : s.chr[r][x] # Blank}]
        rows == {r \in Rows : cells[r] # {}}
    IN Pmove([WriteSpans([s EXCEPT !.glass = BlankGlass, !.gy = 0, !.gx = 0],
                         cells) EXCEPT
                 !.dirty = [r \in Rows |-> IF r \in rows
                              THEN s.dirty[r] \ (0 .. s.vw - 1) ELSE s.dirty[r]],
                 !.ldirty = s.ldirty \ rows],
             s.vy, s.vx)

(* A bug it could have: the cursor is not moved back into place.           *)
VisibleInPlace(s) == [s EXCEPT !.vis = TRUE]

Visible(s) ==
    IF s.vis THEN s ELSE Pmove([s EXCEPT !.vis = TRUE], s.vy, s.vx)

Invisible(s) == [s EXCEPT !.vis = FALSE]

-----------------------------------------------------------------------------
(* The virtual cursor.                                                     *)

(* scr_fixxy clamps to scr_vw and scr_vh themselves.                       *)
Fix(n, limit) == IF n >= limit THEN limit ELSE IF n < 0 THEN 0 ELSE n

Locate(s, y, x) ==
    LET t == [s EXCEPT !.vy = Fix(y, VH), !.vx = Fix(x, s.vw)]
    IN IF s.vis THEN Pmove(t, t.vy, t.vx) ELSE t

Loc(s, y, x) == XySync(Locate(s, y, x))

(* A bug it could have: no scroll below the last row.                      *)
RowDownFree(s) == [s EXCEPT !.vy = s.vy + 1]

RowDown(s) ==
    IF s.vy + 1 < VH THEN [s EXCEPT !.vy = s.vy + 1]
    ELSE [Scroll(s) EXCEPT !.vy = VH - 1]

(* A bug it could have: > for >= at the right edge.                        *)
VRightLate(s, imm) ==
    LET t == IF s.vx + 1 <= s.vw THEN [s EXCEPT !.vx = s.vx + 1]
             ELSE RowDown([s EXCEPT !.vx = 0])
    IN XySync(Show(t, imm))

VRight(s, imm) ==
    LET t == IF s.vx + 1 < s.vw THEN [s EXCEPT !.vx = s.vx + 1]
             ELSE RowDown([s EXCEPT !.vx = 0])
    IN XySync(Show(t, imm))

VLeft(s, imm) ==
    LET t == IF s.vx > 0 THEN [s EXCEPT !.vx = s.vx - 1]
             ELSE IF s.vy > 0 THEN [s EXCEPT !.vx = s.vw - 1, !.vy = s.vy - 1]
             ELSE s
    IN XySync(Show(t, imm))

(* A bug it could have: XYADR is not written back.                         *)
VUpUnsynced(s, imm) ==
    Show([s EXCEPT !.vy = IF s.vy > 0 THEN s.vy - 1 ELSE 0], imm)

VUp(s, imm) ==
    XySync(Show([s EXCEPT !.vy = IF s.vy > 0 THEN s.vy - 1 ELSE 0], imm))

VDown(s, imm) == XySync(Show(RowDown(s), imm))

(* A bug it could have: the joins are not followed.                        *)
GroupEndHere(cont, y) == y

(* The last row of the group of joined rows that row y belongs to.         *)
GroupEnd(cont, y) == Min({r \in y .. VH - 1 : r = VH - 1 \/ r \notin cont})

(* A bug it could have: one row down, whatever is joined.                  *)
VCrlfOneRow(s, imm) == VDown([s EXCEPT !.vx = 0], imm)

VCrlf(s, imm) ==
    LET y == GroupEnd(s.cont, s.vy)
        t == [s EXCEPT !.vx = 0, !.vy = y]
    IN VDown(IF y = s.vy THEN t ELSE XySync(Show(t, imm)), imm)

-----------------------------------------------------------------------------
(* Putting characters.                                                     *)

PutCell(s, c, imm) ==
    LET w == [s EXCEPT !.chr[s.vy][s.vx] = c]
    IN IF s.chr[s.vy][s.vx] = c THEN s
       ELSE IF imm
         THEN [Pput(w, s.vy, s.vx, c) EXCEPT !.dirty[s.vy] = @ \ {s.vx}]
         ELSE [w EXCEPT !.dirty[s.vy] = @ \cup {s.vx},
                        !.ldirty = @ \cup {s.vy}]

(* A bug it could have: the row is marked by its number before the scroll. *)
AdvanceMarksOld(s) ==
    IF s.vx + 1 < s.vw THEN [s EXCEPT !.vx = s.vx + 1]
    ELSE [RowDown([s EXCEPT !.vx = 0]) EXCEPT !.cont = @ \cup {s.vy}]

(* The step of the cursor behind a character: off the right edge it joins  *)
(* the row to the next one.                                                *)
Advance(s) ==
    IF s.vx + 1 < s.vw THEN [s EXCEPT !.vx = s.vx + 1]
    ELSE IF s.vy + 1 < VH
      THEN [s EXCEPT !.vx = 0, !.vy = s.vy + 1, !.cont = @ \cup {s.vy}]
      ELSE [Scroll(s) EXCEPT !.vx = 0, !.vy = VH - 1,
                             !.cont = @ \cup {s.vy - 1}]

VPutc(s, c, imm) == XySync(Show(Advance(PutCell(s, c, imm)), imm))

(* scr_putch, with scr_sostoascii for the codes above 0xa0.                *)
Putch(s, c, imm) ==
    CASE c = "cls"   -> Clear(s)
      [] c = "cr"    -> VCrlf(s, imm)
      [] c = "right" -> VRight(s, imm)
      [] c = "left"  -> VLeft(s, imm)
      [] c = "up"    -> VUp(s, imm)
      [] c = "down"  -> VDown(s, imm)
      [] c = "graph" -> VPutc(s, Star, imm)
      [] c \in Char  -> VPutc(s, c, imm)
      [] OTHER       -> s

(* scr_initx: the screen after scr_clear.                                  *)
InitScreen ==
    Clear([vw |-> MaxW,
           chr |-> [r \in Rows |-> [x \in Cols |-> Nul]],
           dirty |-> [r \in Rows |-> {}], ldirty |-> {}, cont |-> {},
           vx |-> 0, vy |-> 0, vis |-> TRUE, xy |-> <<0, 0>>,
           px |-> 0, py |-> 0,
           glass |-> BlankGlass, gx |-> 0, gy |-> 0])

Width(s, w) == Clear([s EXCEPT !.vw = w])

-----------------------------------------------------------------------------
(* What holds of a screen whatever is done to it, named for the            *)
(* invariants of the modules that use it.                                  *)

ScreenCols(s) == 0 .. s.vw - 1

(* Where scr_pmove believes the cursor of the terminal to be, it is: the   *)
(* move it leaves out is never missed.                                     *)
Tracked(s) == s.px # -1 /\ s.py # -1 => s.gx = s.px /\ s.gy = s.py

(* A screen with the cursor in a column every screen width has, and a      *)
(* character in every cell of the screen; the terminal is blank below it.  *)
Sound(s) ==
    /\ s \in Screen
    /\ s.vx < MaxW
    /\ Tracked(s)
    /\ \A r \in Rows, x \in ScreenCols(s) : s.chr[r][x] # Nul
    /\ \A y \in VH .. PH - 1, x \in PCols : s.glass[y][x] = Blank

(* The cells the terminal does not show are marked, and so are the rows of *)
(* marked cells.                                                           *)
Mirror(s) ==
    \A r \in Rows, x \in ScreenCols(s) :
        /\ s.glass[r][x] # s.chr[r][x] => x \in s.dirty[r]
        /\ x \in s.dirty[r] => r \in s.ldirty

(* The terminal shows the virtual screen and nothing waits to be drawn.    *)
Fresh(s) ==
    \A r \in Rows, x \in ScreenCols(s) :
        s.glass[r][x] = s.chr[r][x] /\ x \notin s.dirty[r]
=============================================================================
