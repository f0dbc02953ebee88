------------------------------- MODULE Console -------------------------------
(***************************************************************************)
(* The screen system calls a Z80 program makes (src/src/trap.c), each one  *)
(* an action on the screen of ScreenOps, with the work area bytes #WIDTH   *)
(* and XYADR.                                                              *)
(*                                                                         *)
(* #MSG, #MSX, #MPRNT and #TAB put their characters without showing them   *)
(* and flush once at the end, so between two characters the terminal lags  *)
(* behind: they are several steps here.                                    *)
(***************************************************************************)
EXTENDS ScreenOps

CONSTANTS
    MaxTab,     \* bound: the largest column given to #TAB
    MaxPuts     \* bound: characters of one string

ASSUME BoundAssumption == MaxTab \in Nat /\ MaxPuts \in Nat

VARIABLES
    scr,        \* the screen, see ScreenOps
    width,      \* the byte at #WIDTH (SOS_WIDTH)
    phase,      \* "idle", or inside "string" or "tab"
    todo        \* puts left of the string (bound) or of the tab

vars == <<scr, width, phase, todo>>

TypeOK ==
    /\ scr \in Screen
    /\ width \in Widths
    /\ phase \in {"idle", "string", "tab"}
    /\ todo \in Nat

Init ==
    /\ scr = InitScreen
    /\ width = MaxW
    /\ phase = "idle"
    /\ todo = 0

-----------------------------------------------------------------------------
(* One call, one character.                                                *)

(* #PRINT, #PRNTS, and #LTNL with c = "cr".                                *)
PutChar(c) ==
    /\ phase = "idle"
    /\ scr' = Putch(scr, c, TRUE)
    /\ UNCHANGED <<width, phase, todo>>

(* #NL: a new line unless the cursor is in the first column.               *)
NewLine ==
    /\ phase = "idle"
    /\ scr.vx # 0
    /\ scr' = VCrlf(scr, TRUE)
    /\ UNCHANGED <<width, phase, todo>>

-----------------------------------------------------------------------------
(* #MSG, #MSX, #MPRNT.                                                     *)

StringStart ==
    /\ phase = "idle"
    /\ phase' = "string"
    /\ todo' = MaxPuts
    /\ UNCHANGED <<scr, width>>

StringPut(c) ==
    /\ phase = "string"
    /\ todo > 0
    /\ scr' = Putch(scr, c, FALSE)
    /\ todo' = todo - 1
    /\ UNCHANGED <<width, phase>>

(* The terminating byte was read: scr_sync.                                *)
StringSync ==
    /\ phase = "string"
    /\ scr' = Flush(scr)
    /\ phase' = "idle"
    /\ todo' = 0
    /\ UNCHANGED width

-----------------------------------------------------------------------------
(* #TAB: the number of blanks is computed once, before the first.          *)

Tab(x) ==
    /\ phase = "idle"
    /\ phase' = "tab"
    /\ todo' = IF x > scr.vx THEN x - scr.vx ELSE 0
    /\ UNCHANGED <<scr, width>>

TabPut ==
    /\ phase = "tab"
    /\ todo > 0
    /\ scr' = Putch(scr, Blank, FALSE)
    /\ todo' = todo - 1
    /\ UNCHANGED <<width, phase>>

TabSync ==
    /\ phase = "tab"
    /\ todo = 0
    /\ scr' = Flush(scr)
    /\ phase' = "idle"
    /\ UNCHANGED <<width, todo>>

-----------------------------------------------------------------------------
(* Position and width.                                                     *)

(* #LOC checks its arguments against the work area, not against the screen *)
LocAccepts(y, x) == x < width /\ y < VH

LocCall(y, x) ==
    /\ phase = "idle"
    /\ LocAccepts(y, x)
    /\ scr' = Loc(scr, y, x)
    /\ UNCHANGED <<width, phase, todo>>

(* A store to XYADR or XYADR + 1: sync_workarea moves the cursor and leaves *)
(* the bytes as the program wrote them.  Programs store positions of the   *)
(* screen #WIDTH describes.                                                *)
PokeX(x) ==
    /\ phase = "idle"
    /\ x < width
    /\ scr' = Locate([scr EXCEPT !.xy[1] = x], scr.vy, x)
    /\ UNCHANGED <<width, phase, todo>>

PokeY(y) ==
    /\ phase = "idle"
    /\ y < VH
    /\ scr' = Locate([scr EXCEPT !.xy[2] = y], y, scr.vx)
    /\ UNCHANGED <<width, phase, todo>>

(* #WIDCH *)
Widch(w) ==
    /\ phase = "idle"
    /\ scr' = Width(scr, w)
    /\ width' = w
    /\ UNCHANGED <<phase, todo>>

(* #COLD, #BOOT: trap_init rewrites #WIDTH and leaves the screen alone.    *)
Cold ==
    /\ phase = "idle"
    /\ width' = MaxW
    /\ UNCHANGED <<scr, phase, todo>>

(* A program starts to wait for a key with the cursor on (#GETL, #FLGET)   *)
ShowCursor ==
    /\ phase = "idle"
    /\ scr' = Visible(scr)
    /\ UNCHANGED <<width, phase, todo>>

(* or off (#INKEY, #GETKY, #PAUSE).                                        *)
HideCursor ==
    /\ phase = "idle"
    /\ scr' = Invisible(scr)
    /\ UNCHANGED <<width, phase, todo>>

-----------------------------------------------------------------------------
Next ==
    \/ \E c \in Code : PutChar(c) \/ StringPut(c)
    \/ NewLine
    \/ StringStart \/ StringSync
    \/ \E x \in 0 .. MaxTab : Tab(x)
    \/ TabPut \/ TabSync
    \/ \E y \in Rows, x \in 0 .. MaxW - 1 : LocCall(y, x)
    \/ \E x \in 0 .. MaxW - 1 : PokeX(x)
    \/ \E y \in Rows : PokeY(y)
    \/ \E w \in Widths : Widch(w)
    \/ Cold
    \/ ShowCursor \/ HideCursor

Spec == Init /\ [][Next]_vars

-----------------------------------------------------------------------------
(* Safety.                                                                 *)

(* As long as #WIDTH and the screen agree, the virtual cursor is on the    *)
(* virtual screen: scr_vputc indexes its row and column unchecked.         *)
CursorOnScreen == width = scr.vw => scr.vx < scr.vw

(* As long as they agree, a program that reads the bytes at XYADR reads    *)
(* the cursor, whichever call or store moved it last.                      *)
XyInSync == width = scr.vw => scr.xy = <<scr.vx, scr.vy>>

(* The cursor of the terminal is where scr_pmove believes it to be, and    *)
(* between calls a visible one is where the virtual cursor is.             *)
CursorTracked ==
    /\ Tracked(scr)
    /\ phase = "idle" /\ scr.vis => scr.gx = scr.vx /\ scr.gy = scr.vy

(* A cell the terminal does not show yet is one scr_flush will find: it    *)
(* is marked dirty, and so is its row.  Between calls there is none.       *)
Stale(s) == {p \in Rows \X ScreenCols(s) : s.glass[p[1]][p[2]] # s.chr[p[1]][p[2]]}

ScreenMirrored ==
    /\ \A p \in Stale(scr) : p[1] \in scr.ldirty /\ p[2] \in scr.dirty[p[1]]
    /\ phase = "idle" => Stale(scr) = {}

(* The last row is never joined to the row below the screen, so #GETL and  *)
(* a line feed find the end of every line on the screen.                   *)
LastRowNotJoined == VH - 1 \notin scr.cont

-----------------------------------------------------------------------------
(* The inductive invariant behind these.                                   *)

(* Every step keeps this, and it gives the invariants above.  Beyond them: *)
(* the screen is never wider than #WIDTH says, the cursor is in a column   *)
(* both widths have room to the right of, and the terminal is blank below  *)
(* the virtual screen, so a scroll brings in a blank row.                  *)
IInv ==
    /\ TypeOK
    /\ Sound(scr) /\ Mirror(scr)
    /\ LastRowNotJoined
    /\ scr.vw <= width
    /\ width = scr.vw => scr.vx < scr.vw /\ scr.xy = <<scr.vx, scr.vy>>
    /\ phase = "idle" =>
          Fresh(scr) /\ (scr.vis => scr.gx = scr.vx /\ scr.gy = scr.vy)

-----------------------------------------------------------------------------
(* A line feed leaves the cursor at the start of a line: in column 0 of a  *)
(* row that the row above is not joined to.                                *)
FeedStartsLine ==
    [][(PutChar("cr") \/ NewLine) =>
           scr'.vx = 0 /\ (scr'.vy - 1) \notin scr'.cont]_vars

(* The program sees the promised display: the grid of characters, the      *)
(* cursor and the joins behave as Display says, and the terminal shows     *)
(* the grid whenever no call is in progress.                               *)
Grid(cells) == [r \in Rows |-> [x \in ScreenCols(scr) |-> cells[r][x]]]

Abstract == INSTANCE Display WITH
    Height <- VH, WidthSet <- Widths, Letter <- Char, Space <- Blank,
    text <- Grid(scr.chr), w <- scr.vw, cx <- scr.vx, cy <- scr.vy,
    joined <- scr.cont, shown <- Grid(scr.glass), busy <- (phase # "idle")

ImplementsDisplay == Abstract!DSpec

(* Each call takes the step of Display that is named for it: a character   *)
(* is put, a line feed goes behind the joined rows, the cursor codes move  *)
(* by one cell, and #LOC moves where it was asked to go.                   *)
PutAs(c, A) == (PutChar(c) \/ StringPut(c)) => A

CallsKeepPromises ==
    [][/\ \A c \in Char : PutAs(c, Abstract!Put(c))
       /\ PutAs("graph", Abstract!Put(Star))
       /\ PutAs("cr", Abstract!LineFeed)
       /\ PutAs("cls", Abstract!Wipe(scr.vw))
       /\ PutAs("down", Abstract!Down)
       /\ PutAs("right", Abstract!Over \/ Abstract!MoveTo(scr.vy, scr.vx + 1))
       /\ PutAs("left", \/ Abstract!MoveTo(scr.vy, scr.vx - 1)
                        \/ scr.vx = 0 /\ Abstract!MoveTo(scr.vy - 1, scr.vw - 1)
                        \/ scr.vx = 0 /\ scr.vy = 0 /\ Abstract!MoveTo(0, 0))
       /\ \A y \in Rows, x \in ScreenCols(scr) :
             LocCall(y, x) => Abstract!MoveTo(y, x)
      ]_vars
=============================================================================
