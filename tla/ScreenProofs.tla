---------------------------- MODULE ScreenProofs ----------------------------
(***************************************************************************)
(* What the operators of ScreenOps do to the cells, the marks, the cursors *)
(* and the terminal, for every size of the screen, of the terminal and of  *)
(* the alphabet: one lemma for each operator.  ConsoleProofs and EditProofs*)
(* build the invariants of their modules from them.                        *)
(***************************************************************************)
EXTENDS ScreenOps, WellFoundedInduction, TLAPS

(* What every operator but Clear keeps: the width, the cursor on the       *)
(* screen if it is there, and a last row that is not joined.               *)
Keeps(s, t) ==
    /\ t.vw = s.vw
    /\ t.vis = s.vis
    /\ s.vx < s.vw => t.vx < t.vw
    /\ VH - 1 \notin s.cont => VH - 1 \notin t.cont

(* The virtual half of two screens is the same.                            *)
SameVirtual(s, t) ==
    /\ t.vw = s.vw /\ t.vx = s.vx /\ t.vy = s.vy /\ t.vis = s.vis
    /\ t.chr = s.chr /\ t.cont = s.cont /\ t.xy = s.xy
    /\ t.dirty = s.dirty /\ t.ldirty = s.ldirty

SameTerminal(s, t) ==
    /\ t.glass = s.glass /\ t.gx = s.gx /\ t.gy = s.gy
    /\ t.px = s.px /\ t.py = s.py

(* Everything an operator carries over from screen s to screen t.          *)
Carries(s, t) ==
    /\ Sound(t)
    /\ Keeps(s, t)
    /\ Mirror(s) => Mirror(t)

(* The ranges of the screen and of the terminal, from the sizes.           *)
LEMMA SizeFacts ==
    /\ \A x \in Cols : x < MaxW => x \in PCols /\ x \in 0 .. PW /\ x + 1 \in Cols
    /\ \A y \in Rows : y \in PRows /\ y \in -1 .. PH
    /\ \A x \in Cols : x \in -1 .. MaxW + 1 /\ x + 1 \in -1 .. MaxW + 1
    /\ 0 \in Cols /\ 0 \in Rows /\ 0 \in PRows /\ 0 \in 0 .. PW
    /\ PH - 1 \in PRows /\ PW - 1 \in PCols /\ PW - 1 \in 0 .. PW
    /\ VH - 1 \in Rows
    /\ -1 \in -1 .. MaxW + 1 /\ -1 \in -1 .. PH
    /\ 0 \in -1 .. MaxW + 1 /\ 0 \in -1 .. PH
    /\ MaxW \in Nat /\ VH \in Nat /\ PH \in Nat /\ PW \in Nat
    /\ Widths \subseteq 1 .. MaxW /\ MaxW \in Widths
  BY SizeAssumption DEF Cols, Rows, PRows, PCols, Widths

(* The columns of a screen are columns of the arrays and of the terminal.  *)
LEMMA ColumnFacts ==
    ASSUME NEW s \in Screen
    PROVE  /\ s.vw \in 1 .. MaxW /\ 0 \in ScreenCols(s) /\ s.vw - 1 \in ScreenCols(s)
           /\ \A x \in ScreenCols(s) : x \in Cols /\ x \in PCols /\ x < MaxW
  <1>1. s.vw \in 1 .. MaxW
    BY SizeFacts DEF Screen
  <1> QED BY <1>1, SizeAssumption DEF ScreenCols, Cols, PCols

(* A screen before a terminal that did not change.                         *)
LEMMA SoundAgain ==
    ASSUME NEW s, Sound(s), NEW t \in Screen, t.vx < MaxW,
           t.glass = s.glass, Tracked(t),
           \A r \in Rows, x \in ScreenCols(t) : t.chr[r][x] # Nul
    PROVE  Sound(t)
  BY Zenon DEF Sound

LEMMA TrackedAgain ==
    ASSUME NEW s, Tracked(s), NEW t, SameTerminal(s, t)
    PROVE  Tracked(t) /\ t.glass = s.glass
  BY Zenon DEF Tracked, SameTerminal

(* Another cursor, the same cells.                                         *)
LEMMA SoundMoved ==
    ASSUME NEW s, Sound(s), NEW t \in Screen, SameTerminal(s, t), t.vx < MaxW,
           t.vw = s.vw, t.chr = s.chr
    PROVE  Sound(t)
  <1>1. \A r \in Rows, x \in ScreenCols(s) : s.chr[r][x] # Nul
    BY DEF Sound
  <1>2. \A r \in Rows, x \in ScreenCols(t) : t.chr[r][x] # Nul
    BY <1>1, Zenon DEF ScreenCols
  <1>3. Tracked(s)
    BY DEF Sound
  <1> QED BY <1>2, <1>3, TrackedAgain, SoundAgain

(* What the terminal shows of the grid does not depend on the cursor.      *)
LEMMA SameDisplay ==
    ASSUME NEW s, NEW t, t.vw = s.vw, t.chr = s.chr, t.glass = s.glass,
           t.dirty = s.dirty, t.ldirty = s.ldirty
    PROVE  (Mirror(s) => Mirror(t)) /\ (Fresh(s) => Fresh(t))
  <1>1. Mirror(s) => Mirror(t)
    BY Zenon DEF Mirror, ScreenCols
  <1>2. Fresh(s) => Fresh(t)
    BY Zenon DEF Fresh, ScreenCols
  <1> QED BY <1>1, <1>2

-----------------------------------------------------------------------------
(* The terminal.                                                           *)

(* scr_pmove to a place of the screen: the terminal gets there, tracked.   *)
LEMMA PmoveFacts ==
    ASSUME NEW s \in Screen, NEW y \in PRows, NEW x \in Cols, x < MaxW
    PROVE  /\ Pmove(s, y, x) \in Screen
           /\ SameVirtual(s, Pmove(s, y, x))
           /\ Pmove(s, y, x).glass = s.glass
           /\ Pmove(s, y, x).px = x /\ Pmove(s, y, x).py = y
           /\ Tracked(s) => /\ Pmove(s, y, x).gx = x
                            /\ Pmove(s, y, x).gy = y
  <1>1. /\ y \in PRows /\ y \in -1 .. PH /\ y < PH
        /\ x \in 0 .. PW /\ x \in -1 .. MaxW + 1 /\ x < PW
        /\ x # -1 /\ y # -1
    BY SizeAssumption DEF PRows, Cols
  <1>2. CASE s.py = y /\ s.px = x
    <2>1. Pmove(s, y, x) = s
      BY <1>2 DEF Pmove
    <2> QED BY <1>1, <1>2, <2>1 DEF SameVirtual, Tracked
  <1>3. CASE ~(s.py = y /\ s.px = x)
    <2>1. Pmove(s, y, x) = [s EXCEPT !.py = y, !.px = x, !.gy = y, !.gx = x]
      BY <1>1, <1>3, Zenon DEF Pmove
    <2> DEFINE t == [s EXCEPT !.py = y, !.px = x, !.gy = y, !.gx = x]
    <2>2. t \in Screen /\ t.px = x /\ t.py = y /\ t.gx = x /\ t.gy = y
      BY <1>1, Zenon DEF Screen
    <2>3. SameVirtual(s, t) /\ t.glass = s.glass
      BY Zenon DEF Screen, SameVirtual
    <2> QED BY <2>1, <2>2, <2>3
  <1> QED BY <1>2, <1>3

(* scr_pput draws one cell, and drops its belief at the right margin.      *)
LEMMA PputFacts ==
    ASSUME NEW s \in Screen, Tracked(s),
           NEW y \in Rows, NEW x \in Cols, x < MaxW, NEW c \in Char
    PROVE  /\ Pput(s, y, x, c) \in Screen
           /\ SameVirtual(s, Pput(s, y, x, c))
           /\ Pput(s, y, x, c).glass = [s.glass EXCEPT ![y][x] = c]
           /\ Tracked(Pput(s, y, x, c))
  <1> DEFINE m == Pmove(s, y, x)
             e == Emit(m, c)
             g == [s.glass EXCEPT ![y][x] = c]
             p == IF x + 1 >= PW THEN -1 ELSE x + 1
  <1>1. /\ y \in PRows /\ x \in PCols /\ x < PW
        /\ x + 1 \in 0 .. PW /\ p \in -1 .. MaxW + 1
        /\ p # -1 => p = x + 1
    BY SizeAssumption DEF Rows, PRows, PCols, Cols
  <1>2. /\ m \in Screen /\ SameVirtual(s, m) /\ m.glass = s.glass
        /\ m.gx = x /\ m.gy = y /\ m.py = y
    BY <1>1, PmoveFacts
  <1>3. g \in [PRows -> [PCols -> Cell]]
    <2>1. s.glass \in [PRows -> [PCols -> Cell]]
      BY DEF Screen
    <2> QED BY <2>1, <1>1 DEF Cell
  <1>4. e = [m EXCEPT !.glass = g, !.gx = x + 1]
    BY <1>1, <1>2, Zenon DEF Emit, Screen
  <1>5. Pput(s, y, x, c) = [e EXCEPT !.px = p]
    BY Zenon DEF Pput
  <1> HIDE DEF m, e, g, p
  <1>6. /\ e \in Screen /\ SameVirtual(m, e)
        /\ e.glass = g /\ e.gx = x + 1 /\ e.gy = m.gy /\ e.py = m.py
    BY <1>1, <1>2, <1>3, <1>4, Zenon DEF Screen, SameVirtual
  <1>7. /\ [e EXCEPT !.px = p] \in Screen /\ SameVirtual(e, [e EXCEPT !.px = p])
        /\ [e EXCEPT !.px = p].glass = e.glass
        /\ [e EXCEPT !.px = p].gx = e.gx /\ [e EXCEPT !.px = p].gy = e.gy
        /\ [e EXCEPT !.px = p].py = e.py /\ [e EXCEPT !.px = p].px = p
    BY <1>1, <1>6, Zenon DEF Screen, SameVirtual
  <1>8. Tracked([e EXCEPT !.px = p])
    BY <1>1, <1>2, <1>6, <1>7 DEF Tracked
  <1>9. SameVirtual(s, [e EXCEPT !.px = p])
    BY <1>2, <1>6, <1>7, Zenon DEF SameVirtual
  <1> QED BY <1>5, <1>6, <1>7, <1>8, <1>9, Zenon DEF g

-----------------------------------------------------------------------------
(* The cursor bytes, and showing the cursor.                               *)

(* sync_xyadr writes the cursor to XYADR and touches nothing else; no      *)
(* position is longer than a byte.                                         *)
LEMMA XySyncFacts ==
    ASSUME NEW s \in Screen
    PROVE  /\ XySync(s) \in Screen
           /\ XySync(s).xy = <<s.vx, s.vy>>
           /\ SameTerminal(s, XySync(s))
           /\ XySync(s).vw = s.vw /\ XySync(s).vis = s.vis
           /\ XySync(s).vx = s.vx /\ XySync(s).vy = s.vy
           /\ XySync(s).chr = s.chr /\ XySync(s).cont = s.cont
           /\ XySync(s).dirty = s.dirty /\ XySync(s).ldirty = s.ldirty
  <1>1. s.vx \in Cols /\ s.vy \in Rows
    BY DEF Screen
  <1>2. s.vx % 256 = s.vx /\ s.vy % 256 = s.vy
    BY <1>1, SizeAssumption DEF Cols, Rows
  <1>3. <<s.vx, s.vy>> \in Byte \X Byte
    BY <1>1, SizeAssumption DEF Cols, Rows, Byte
  <1>4. XySync(s) = [s EXCEPT !.xy = <<s.vx, s.vy>>]
    BY <1>2, Zenon DEF XySync
  <1> DEFINE t == [s EXCEPT !.xy = <<s.vx, s.vy>>]
  <1>5. t \in Screen /\ t.xy = <<s.vx, s.vy>>
    BY <1>3, Zenon DEF Screen
  <1>6. /\ SameTerminal(s, t) /\ t.vw = s.vw /\ t.vis = s.vis
        /\ t.vx = s.vx /\ t.vy = s.vy /\ t.chr = s.chr /\ t.cont = s.cont
        /\ t.dirty = s.dirty /\ t.ldirty = s.ldirty
    BY Zenon DEF Screen, SameTerminal
  <1> QED BY <1>4, <1>5, <1>6

(* So it carries a screen over.                                            *)
LEMMA XySyncCarries ==
    ASSUME NEW s, Sound(s)
    PROVE  /\ Carries(s, XySync(s))
           /\ Fresh(s) => Fresh(XySync(s))
  <1> DEFINE t == XySync(s)
  <1>1. /\ t \in Screen /\ SameTerminal(s, t) /\ t.vw = s.vw /\ t.vis = s.vis
        /\ t.vx = s.vx /\ t.chr = s.chr /\ t.cont = s.cont
        /\ t.dirty = s.dirty /\ t.ldirty = s.ldirty
    BY XySyncFacts DEF Sound
  <1> HIDE DEF t
  <1>2. t.glass = s.glass /\ t.vx < MaxW
    BY <1>1 DEF SameTerminal, Sound
  <1>3. Sound(t) /\ Keeps(s, t)
    BY <1>1, <1>2, SoundMoved DEF Keeps
  <1>4. (Mirror(s) => Mirror(t)) /\ (Fresh(s) => Fresh(t))
    BY <1>1, <1>2, SameDisplay
  <1> QED BY <1>3, <1>4 DEF Carries, t

(* Showing the cursor draws nothing.                                       *)
LEMMA ShowFacts ==
    ASSUME NEW s, Sound(s), NEW imm \in BOOLEAN
    PROVE  /\ Carries(s, Show(s, imm))
           /\ Fresh(s) => Fresh(Show(s, imm))
           /\ SameVirtual(s, Show(s, imm))
           /\ Show(s, imm).glass = s.glass
           /\ s.vis /\ imm => /\ Show(s, imm).gx = s.vx
                              /\ Show(s, imm).gy = s.vy
  <1>1. /\ s \in Screen /\ s.vy \in PRows /\ s.vx \in Cols /\ s.vx < MaxW
        /\ Tracked(s)
    BY SizeFacts DEF Sound, Screen
  <1>2. CASE s.vis /\ imm
    <2>1. Show(s, imm) = Pmove(s, s.vy, s.vx)
      BY <1>2 DEF Show
    <2>2. Tracked(Pmove(s, s.vy, s.vx))
      BY <1>1, PmoveFacts DEF Tracked
    <2> DEFINE t == Pmove(s, s.vy, s.vx)
    <2>3. /\ t \in Screen /\ SameVirtual(s, t) /\ t.glass = s.glass
          /\ t.gx = s.vx /\ t.gy = s.vy
      BY <1>1, PmoveFacts
    <2> HIDE DEF t
    <2>4. Sound(t) /\ Keeps(s, t)
      <3>1. \A r \in Rows, x \in ScreenCols(t) : t.chr[r][x] # Nul
        BY <2>3 DEF Sound, SameVirtual, ScreenCols
      <3>2. t.vx < MaxW /\ Tracked(t)
        BY <1>1, <2>2, <2>3 DEF SameVirtual, t
      <3> QED BY <2>3, <3>1, <3>2, SoundAgain DEF Keeps, SameVirtual
    <2>5. (Mirror(s) => Mirror(t)) /\ (Fresh(s) => Fresh(t))
      BY <2>3, SameDisplay DEF SameVirtual
    <2> QED BY <2>1, <2>3, <2>4, <2>5 DEF Carries, t
  <1>3. CASE ~(s.vis /\ imm)
    BY <1>3, Zenon DEF Show, Sound, Carries, Keeps, Fresh, SameVirtual
  <1> QED BY <1>2, <1>3

-----------------------------------------------------------------------------
(* Scrolling.                                                              *)

(* A cleared line is blank in every column of the screen.                  *)
LEMMA BlankLineFacts ==
    ASSUME NEW s \in Screen, NEW row \in [Cols -> Cell]
    PROVE  /\ BlankLine(s, row) \in [Cols -> Cell]
           /\ \A x \in ScreenCols(s) : BlankLine(s, row)[x] = Blank
  <1>1. s.vw \in 1 .. MaxW
    BY SizeFacts DEF Screen
  <1> QED
    BY <1>1, SizeAssumption, CharAssumption DEF BlankLine, Cell, ScreenCols, Cols

(* scr_scroll moves cells, marks and flags of the virtual screen and the   *)
(* rows of the terminal together, so what was marked stays marked.         *)
LEMMA ScrollFacts ==
    ASSUME NEW s, Sound(s)
    PROVE  /\ Carries(s, Scroll(s))
           /\ Fresh(s) /\ Mirror(s) => Fresh(Scroll(s))
           /\ Scroll(s).vx = s.vx /\ Scroll(s).vy = s.vy
           /\ Scroll(s).cont = ShiftUp(s.cont)
  <1> DEFINE chr == [r \in Rows |-> IF r < VH - 1 THEN s.chr[r + 1]
                                    ELSE BlankLine(s, s.chr[0])]
             drt == [r \in Rows |-> IF r < VH - 1 THEN s.dirty[r + 1]
                                    ELSE s.dirty[0] \ (0 .. s.vw)]
             gls == [y \in PRows |-> IF y < PH - 1 THEN s.glass[y + 1]
                                     ELSE [x \in PCols |-> Blank]]
             t == Scroll(s)
  <1>1. /\ s \in Screen /\ s.vw \in 1 .. MaxW
        /\ s.chr \in [Rows -> [Cols -> Cell]]
        /\ s.dirty \in [Rows -> SUBSET Cols]
        /\ s.glass \in [PRows -> [PCols -> Cell]]
        /\ s.ldirty \subseteq Rows /\ s.cont \subseteq Rows
    BY SizeFacts DEF Sound, Screen
  <1>2. /\ \A r \in Rows : r < VH - 1 => r + 1 \in Rows
        /\ \A y \in PRows : y < PH - 1 => y + 1 \in PRows
        /\ 0 \in Rows
    BY SizeAssumption DEF Rows, PRows
  <1>3. chr \in [Rows -> [Cols -> Cell]]
    <2>1. BlankLine(s, s.chr[0]) \in [Cols -> Cell]
      BY <1>1, <1>2, BlankLineFacts
    <2> QED BY <1>1, <1>2, <2>1
  <1>4. drt \in [Rows -> SUBSET Cols]
    BY <1>1, <1>2
  <1>5. gls \in [PRows -> [PCols -> Cell]]
    BY <1>1, <1>2, CharAssumption DEF Cell
  <1>6. ShiftUp(s.ldirty) \in SUBSET Rows /\ ShiftUp(s.cont) \in SUBSET Rows
    BY DEF ShiftUp
  <1>7. t = [s EXCEPT !.chr = chr, !.dirty = drt,
                      !.ldirty = ShiftUp(s.ldirty), !.cont = ShiftUp(s.cont),
                      !.glass = gls, !.gy = PH - 1, !.gx = 0,
                      !.px = -1, !.py = -1]
    BY Zenon DEF Scroll
  <1> HIDE DEF chr, drt, gls, t
  <1>8. /\ t \in Screen
        /\ t.chr = chr /\ t.dirty = drt /\ t.glass = gls
        /\ t.ldirty = ShiftUp(s.ldirty) /\ t.cont = ShiftUp(s.cont)
        /\ t.px = -1 /\ t.vw = s.vw /\ t.vx = s.vx /\ t.vy = s.vy
        /\ t.vis = s.vis
    BY <1>1, <1>3, <1>4, <1>5, <1>6, <1>7, SizeFacts, Zenon DEF Screen
  <1>9. VH - 1 \notin s.cont => VH - 1 \notin t.cont
    BY <1>8, SizeAssumption DEF ShiftUp
  <1>10. Sound(t) /\ Keeps(s, t)
    <2>1. ASSUME NEW r \in Rows, NEW x \in ScreenCols(s)
          PROVE  t.chr[r][x] # Nul
      <3>1. CASE r < VH - 1
        BY <1>2, <1>8, <3>1 DEF chr, Sound
      <3>2. CASE ~(r < VH - 1)
        BY <1>1, <1>2, <1>8, <3>2, BlankLineFacts, CharAssumption DEF chr
      <3> QED BY <3>1, <3>2
    <2>2. ASSUME NEW y \in VH .. PH - 1, NEW x \in PCols
          PROVE  t.glass[y][x] = Blank
      <3>1. y \in PRows /\ (y < PH - 1 => y + 1 \in VH .. PH - 1)
        BY SizeAssumption DEF PRows
      <3> QED BY <1>8, <3>1 DEF gls, Sound
    <2> QED
      BY <1>8, <1>9, <2>1, <2>2, Zenon DEF Sound, Keeps, Tracked, ScreenCols
  <1>11. ASSUME Mirror(s) PROVE Mirror(t) /\ (Fresh(s) => Fresh(t))
    <2>2. ASSUME NEW r \in Rows, NEW x \in ScreenCols(t)
          PROVE  /\ t.glass[r][x] # t.chr[r][x] => x \in t.dirty[r]
                 /\ x \in t.dirty[r] => r \in t.ldirty
                 /\ Fresh(s) => /\ t.glass[r][x] = t.chr[r][x]
                                /\ x \notin t.dirty[r]
      <3>1. /\ x \in ScreenCols(s) /\ x \in PCols /\ r \in PRows
            /\ r < VH - 1 => r < PH - 1 /\ r + 1 \in Rows
            /\ ~(r < VH - 1) => r = VH - 1
        BY <1>1, <1>8, SizeAssumption DEF ScreenCols, PCols, PRows, Rows
      <3>2. CASE r < VH - 1
        <4>1. t.glass[r] = s.glass[r + 1] /\ t.chr[r] = s.chr[r + 1]
              /\ t.dirty[r] = s.dirty[r + 1]
          BY <1>8, <3>1, <3>2 DEF gls, chr, drt
        <4>2. r + 1 \in s.ldirty => r \in t.ldirty
          BY <1>8, <3>2 DEF ShiftUp
        <4>3. /\ s.glass[r + 1][x] # s.chr[r + 1][x] => x \in s.dirty[r + 1]
              /\ x \in s.dirty[r + 1] => r + 1 \in s.ldirty
          BY <1>11, <3>1, <3>2 DEF Mirror
        <4>4. Fresh(s) => /\ s.glass[r + 1][x] = s.chr[r + 1][x]
                          /\ x \notin s.dirty[r + 1]
          BY <3>1, <3>2 DEF Fresh
        <4> QED BY <4>1, <4>2, <4>3, <4>4
      <3>3. CASE ~(r < VH - 1)
        <4>1. t.chr[r] = BlankLine(s, s.chr[0])
          BY <1>8, <3>3 DEF chr
        <4>2. s.chr[0] \in [Cols -> Cell]
          BY <1>1, <1>2
        <4>3. t.chr[r][x] = Blank
          BY <1>1, <3>1, <4>1, <4>2, BlankLineFacts
        <4>4. t.glass[r][x] = Blank
          <5>1. r < PH - 1 => r + 1 \in VH .. PH - 1
            BY <3>1, <3>3, SizeAssumption DEF Rows
          <5> QED BY <1>8, <3>1, <5>1 DEF gls, Sound
        <4>5. x \notin t.dirty[r]
          <5>1. x \in 0 .. s.vw
            BY <1>1, <3>1 DEF ScreenCols
          <5> QED BY <1>8, <3>3, <5>1 DEF drt
        <4> QED BY <4>3, <4>4, <4>5
      <3> QED BY <3>2, <3>3
    <2>3. ScreenCols(t) = ScreenCols(s)
      BY <1>8 DEF ScreenCols
    <2> QED BY <2>2, <2>3, Zenon DEF Mirror, Fresh
  <1> QED BY <1>8, <1>10, <1>11, Zenon DEF Carries, t

(* A change of the cursor and of the joins alone.                          *)
LEMMA CursorCarries ==
    ASSUME NEW s, Sound(s), NEW t, t \in Screen,
           SameTerminal(s, t), t.vw = s.vw, t.vis = s.vis, t.chr = s.chr,
           t.dirty = s.dirty, t.ldirty = s.ldirty,
           VH - 1 \notin s.cont => VH - 1 \notin t.cont,
           t.vx < MaxW, s.vx < s.vw => t.vx < t.vw
    PROVE  Carries(s, t) /\ (Fresh(s) => Fresh(t))
  <1>1. Sound(t) /\ Keeps(s, t)
    BY SoundMoved DEF Keeps
  <1>2. (Mirror(s) => Mirror(t)) /\ (Fresh(s) => Fresh(t))
    BY SameDisplay DEF SameTerminal
  <1> QED BY <1>1, <1>2 DEF Carries

(* What two operators carry over, both do.                                 *)
LEMMA CarriesTransitive ==
    ASSUME NEW s, NEW t, NEW u, Carries(s, t), Carries(t, u)
    PROVE  Carries(s, u)
  BY Zenon DEF Carries, Keeps

(* The row below, or a scroll on the last one.                             *)
LEMMA RowDownFacts ==
    ASSUME NEW s, Sound(s)
    PROVE  /\ Carries(s, RowDown(s))
           /\ Fresh(s) /\ Mirror(s) => Fresh(RowDown(s))
           /\ RowDown(s).vx = s.vx
           /\ RowDown(s).vy = IF s.vy + 1 < VH THEN s.vy + 1 ELSE VH - 1
           /\ RowDown(s).cont = IF s.vy + 1 < VH THEN s.cont ELSE ShiftUp(s.cont)
  <1>1. s \in Screen /\ s.vy \in Rows
    BY DEF Sound, Screen
  <1>2. CASE s.vy + 1 < VH
    <2> DEFINE t == [s EXCEPT !.vy = s.vy + 1]
    <2>1. s.vy + 1 \in Rows
      BY <1>1, <1>2, SizeAssumption DEF Rows
    <2>2. RowDown(s) = t
      BY <1>2 DEF RowDown
    <2>3. /\ t \in Screen /\ SameTerminal(s, t) /\ t.vy = s.vy + 1
          /\ t.vw = s.vw /\ t.vis = s.vis /\ t.chr = s.chr /\ t.vx = s.vx
          /\ t.dirty = s.dirty /\ t.ldirty = s.ldirty /\ t.cont = s.cont
      BY <1>1, <2>1, Zenon DEF Screen, SameTerminal
    <2> HIDE DEF t
    <2>4. Carries(s, t) /\ (Fresh(s) => Fresh(t))
      BY <2>3, CursorCarries, Zenon DEF Sound
    <2> QED BY <1>2, <2>2, <2>3, <2>4
  <1>3. CASE ~(s.vy + 1 < VH)
    <2> DEFINE u == Scroll(s)
               t == [u EXCEPT !.vy = VH - 1]
    <2>1. RowDown(s) = t
      BY <1>3, Zenon DEF RowDown
    <2>2. /\ Carries(s, u) /\ (Fresh(s) /\ Mirror(s) => Fresh(u))
          /\ u.vx = s.vx /\ u.cont = ShiftUp(s.cont)
      BY ScrollFacts
    <2> HIDE DEF u
    <2>3. u \in Screen /\ Sound(u)
      BY <2>2 DEF Carries, Sound
    <2>4. /\ t \in Screen /\ SameTerminal(u, t) /\ t.vy = VH - 1
          /\ t.vw = u.vw /\ t.vis = u.vis /\ t.chr = u.chr /\ t.vx = u.vx
          /\ t.dirty = u.dirty /\ t.ldirty = u.ldirty /\ t.cont = u.cont
      BY <2>3, SizeFacts, Zenon DEF Screen, SameTerminal
    <2> HIDE DEF t
    <2>5. Carries(u, t) /\ (Fresh(u) => Fresh(t))
      BY <2>3, <2>4, CursorCarries, Zenon DEF Sound
    <2> QED BY <1>3, <2>1, <2>2, <2>4, <2>5, CarriesTransitive, Zenon
  <1> QED BY <1>2, <1>3

(* How every call on the virtual cursor ends: the cursor shown if wanted,  *)
(* its position written to XYADR.                                          *)
Ended(s, imm) ==
    /\ s.xy = <<s.vx, s.vy>>
    /\ s.vis /\ imm => s.gx = s.vx /\ s.gy = s.vy

(* Show the cursor, then write it to XYADR: how every call ends.           *)
LEMMA EndFacts ==
    ASSUME NEW s, NEW t, Carries(s, t), NEW imm \in BOOLEAN
    PROVE  /\ Carries(s, XySync(Show(t, imm)))
           /\ Fresh(t) => Fresh(XySync(Show(t, imm)))
           /\ Ended(XySync(Show(t, imm)), imm)
           /\ XySync(Show(t, imm)).vx = t.vx
           /\ XySync(Show(t, imm)).vy = t.vy
           /\ XySync(Show(t, imm)).cont = t.cont
  <1> DEFINE u == Show(t, imm)
             v == XySync(u)
  <1>1. Sound(t)
    BY DEF Carries
  <1>2. /\ Carries(t, u) /\ (Fresh(t) => Fresh(u)) /\ SameVirtual(t, u)
        /\ t.vis /\ imm => u.gx = t.vx /\ u.gy = t.vy
    BY <1>1, ShowFacts
  <1> HIDE DEF u
  <1>3. Sound(u) /\ u \in Screen
    BY <1>2 DEF Carries, Sound
  <1>4. Carries(u, v) /\ (Fresh(u) => Fresh(v))
    BY <1>3, XySyncCarries
  <1>5. /\ v.xy = <<u.vx, u.vy>> /\ v.vx = u.vx /\ v.vy = u.vy /\ v.vis = u.vis
        /\ v.cont = u.cont /\ v.gx = u.gx /\ v.gy = u.gy
    BY <1>3, XySyncFacts DEF SameTerminal
  <1> HIDE DEF v
  <1>6. Carries(s, v)
    BY <1>2, <1>4, CarriesTransitive
  <1>7. Ended(v, imm)
    BY <1>2, <1>5, Zenon DEF SameVirtual, Ended
  <1> QED
    BY <1>2, <1>4, <1>5, <1>6, <1>7, Zenon DEF SameVirtual, u, v

-----------------------------------------------------------------------------
(* The calls on the virtual cursor.                                        *)

(* scr_vdown.                                                              *)
LEMMA VDownFacts ==
    ASSUME NEW s, Sound(s), NEW imm \in BOOLEAN
    PROVE  /\ Carries(s, VDown(s, imm))
           /\ Fresh(s) /\ Mirror(s) => Fresh(VDown(s, imm))
           /\ Ended(VDown(s, imm), imm)
           /\ VDown(s, imm).vx = s.vx
           /\ VDown(s, imm).vy = IF s.vy + 1 < VH THEN s.vy + 1 ELSE VH - 1
           /\ VDown(s, imm).cont = IF s.vy + 1 < VH THEN s.cont ELSE ShiftUp(s.cont)
  <1>1. /\ Carries(s, RowDown(s))
        /\ Fresh(s) /\ Mirror(s) => Fresh(RowDown(s))
        /\ RowDown(s).vx = s.vx
        /\ RowDown(s).vy = IF s.vy + 1 < VH THEN s.vy + 1 ELSE VH - 1
        /\ RowDown(s).cont = IF s.vy + 1 < VH THEN s.cont ELSE ShiftUp(s.cont)
    BY RowDownFacts
  <1> QED BY <1>1, EndFacts, Zenon DEF VDown

(* scr_vup.                                                                *)
LEMMA VUpFacts ==
    ASSUME NEW s, Sound(s), NEW imm \in BOOLEAN
    PROVE  /\ Carries(s, VUp(s, imm))
           /\ Fresh(s) => Fresh(VUp(s, imm))
           /\ Ended(VUp(s, imm), imm)
  <1> DEFINE y == IF s.vy > 0 THEN s.vy - 1 ELSE 0
             t == [s EXCEPT !.vy = y]
  <1>1. s \in Screen /\ y \in Rows
    <2>1. s \in Screen /\ s.vy \in Rows
      BY DEF Sound, Screen
    <2> QED BY <2>1, SizeAssumption DEF Rows
  <1> HIDE DEF y
  <1>2. /\ t \in Screen /\ SameTerminal(s, t)
        /\ t.vw = s.vw /\ t.vis = s.vis /\ t.chr = s.chr /\ t.vx = s.vx
        /\ t.dirty = s.dirty /\ t.ldirty = s.ldirty /\ t.cont = s.cont
    BY <1>1, Zenon DEF Screen, SameTerminal
  <1>3. VUp(s, imm) = XySync(Show(t, imm))
    BY DEF VUp, y
  <1> HIDE DEF t
  <1>4. Carries(s, t) /\ (Fresh(s) => Fresh(t))
    BY <1>2, CursorCarries, Zenon DEF Sound
  <1> QED BY <1>3, <1>4, EndFacts, Zenon

(* A step to the left: within the row, or to the end of the row above.     *)
LEMMA VLeftFacts ==
    ASSUME NEW s, Sound(s), NEW imm \in BOOLEAN
    PROVE  /\ Carries(s, VLeft(s, imm))
           /\ Fresh(s) => Fresh(VLeft(s, imm))
           /\ Ended(VLeft(s, imm), imm)
           /\ \/ VLeft(s, imm).vy = s.vy
              \/ VLeft(s, imm).vy = s.vy - 1 /\ s.vy > 0
  <1> DEFINE t == IF s.vx > 0 THEN [s EXCEPT !.vx = s.vx - 1]
                  ELSE IF s.vy > 0
                    THEN [s EXCEPT !.vx = s.vw - 1, !.vy = s.vy - 1]
                  ELSE s
  <1>1. s \in Screen /\ s.vx \in Cols /\ s.vy \in Rows /\ s.vw \in 1 .. MaxW
        /\ s.vx < MaxW
    BY SizeFacts DEF Sound, Screen
  <1>2. /\ t \in Screen /\ SameTerminal(s, t)
        /\ t.vw = s.vw /\ t.vis = s.vis /\ t.chr = s.chr
        /\ t.dirty = s.dirty /\ t.ldirty = s.ldirty /\ t.cont = s.cont
        /\ t.vx < MaxW /\ (s.vx < s.vw => t.vx < t.vw)
        /\ t.vy = s.vy \/ (t.vy = s.vy - 1 /\ s.vy > 0)
    <2>1. CASE s.vx > 0
      <3> DEFINE a == s.vx - 1
      <3>1. a \in Cols /\ a < MaxW /\ (s.vx < s.vw => a < s.vw)
        BY <1>1, <2>1, SizeAssumption DEF Cols
      <3>2. t = [s EXCEPT !.vx = a]
        BY <2>1
      <3> HIDE DEF a, t
      <3> QED BY <1>1, <3>1, <3>2, Zenon DEF Screen, SameTerminal
    <2>2. CASE ~(s.vx > 0) /\ s.vy > 0
      <3> DEFINE a == s.vw - 1
                 b == s.vy - 1
      <3>1. a \in Cols /\ a < MaxW /\ a < s.vw /\ b \in Rows
        BY <1>1, <2>2, SizeAssumption DEF Cols, Rows
      <3>2. t = [s EXCEPT !.vx = a, !.vy = b]
        BY <2>2
      <3>3. b = s.vy - 1 /\ s.vy > 0
        BY <2>2
      <3> HIDE DEF a, b, t
      <3> QED BY <1>1, <3>1, <3>2, <3>3, Zenon DEF Screen, SameTerminal
    <2>3. CASE ~(s.vx > 0) /\ ~(s.vy > 0)
      BY <1>1, <2>3 DEF SameTerminal
    <2> QED BY <2>1, <2>2, <2>3
  <1>3. VLeft(s, imm) = XySync(Show(t, imm))
    BY DEF VLeft
  <1> HIDE DEF t
  <1>4. Carries(s, t) /\ (Fresh(s) => Fresh(t))
    BY <1>2, CursorCarries, Zenon DEF Sound
  <1> QED BY <1>2, <1>3, <1>4, EndFacts, Zenon

(* A step to the right: within the row, or to the start of the row below.  *)
LEMMA VRightFacts ==
    ASSUME NEW s, Sound(s), NEW imm \in BOOLEAN
    PROVE  /\ Carries(s, VRight(s, imm))
           /\ Fresh(s) /\ Mirror(s) => Fresh(VRight(s, imm))
           /\ Ended(VRight(s, imm), imm)
  <1>1. s \in Screen /\ s.vx \in Cols /\ s.vw \in 1 .. MaxW /\ s.vx < MaxW
    BY SizeFacts DEF Sound, Screen
  <1> DEFINE a == IF s.vx + 1 < s.vw THEN s.vx + 1 ELSE 0
             u == [s EXCEPT !.vx = a]
  <1>2. a \in Cols /\ a < MaxW /\ a < s.vw
    BY <1>1, SizeAssumption DEF Cols
  <1> HIDE DEF a
  <1>3. /\ u \in Screen /\ SameTerminal(s, u)
        /\ u.vw = s.vw /\ u.vis = s.vis /\ u.chr = s.chr /\ u.vx = a
        /\ u.dirty = s.dirty /\ u.ldirty = s.ldirty /\ u.cont = s.cont
    BY <1>1, <1>2, Zenon DEF Screen, SameTerminal
  <1>4. VRight(s, imm) =
          XySync(Show(IF s.vx + 1 < s.vw THEN u ELSE RowDown(u), imm))
    BY DEF VRight, a
  <1> HIDE DEF u
  <1>5. Carries(s, u) /\ (Fresh(s) => Fresh(u))
    BY <1>2, <1>3, CursorCarries, Zenon DEF Sound
  <1>6. /\ Carries(u, RowDown(u))
        /\ Fresh(u) /\ Mirror(u) => Fresh(RowDown(u))
    BY <1>5, RowDownFacts DEF Carries
  <1>7. Carries(s, RowDown(u))
    BY <1>5, <1>6, CarriesTransitive
  <1>8. Fresh(s) /\ Mirror(s) => Fresh(RowDown(u))
    BY <1>5, <1>6 DEF Carries
  <1> QED BY <1>4, <1>5, <1>7, <1>8, EndFacts, Zenon

-----------------------------------------------------------------------------
(* Putting a character.                                                    *)

(* The cell under the cursor: drawn at once, or marked with its row.       *)
LEMMA PutCellFacts ==
    ASSUME NEW s, Sound(s), NEW c \in Char, NEW imm \in BOOLEAN
    PROVE  /\ Carries(s, PutCell(s, c, imm))
           /\ imm /\ Fresh(s) => Fresh(PutCell(s, c, imm))
           /\ PutCell(s, c, imm).vx = s.vx /\ PutCell(s, c, imm).vy = s.vy
           /\ PutCell(s, c, imm).cont = s.cont
  <1> DEFINE y == s.vy
             x == s.vx
             ch == [s.chr EXCEPT ![y][x] = c]
             w == [s EXCEPT !.chr = ch]
  <1>1. /\ s \in Screen /\ y \in Rows /\ x \in Cols /\ x < MaxW
        /\ s.chr \in [Rows -> [Cols -> Cell]] /\ s.dirty \in [Rows -> SUBSET Cols]
        /\ s.ldirty \in SUBSET Rows /\ s.vw \in 1 .. MaxW
        /\ s.glass \in [PRows -> [PCols -> Cell]]
    BY SizeFacts DEF Sound, Screen
  <1>2. ch \in [Rows -> [Cols -> Cell]]
    BY <1>1 DEF Cell
  <1>3. /\ ch[y][x] = c
        /\ \A r \in Rows, z \in Cols : r # y \/ z # x => ch[r][z] = s.chr[r][z]
    BY <1>1
  <1>4. PutCell(s, c, imm) =
          IF s.chr[y][x] = c THEN s
          ELSE IF imm THEN [Pput(w, y, x, c) EXCEPT !.dirty[y] = @ \ {x}]
          ELSE [w EXCEPT !.dirty[y] = @ \cup {x}, !.ldirty = @ \cup {y}]
    BY Zenon DEF PutCell
  <1>4a. \A r \in Rows, z \in ScreenCols(s) : ch[r][z] # Nul
    <2>1. \A z \in ScreenCols(s) : z \in Cols
      BY <1>1, ColumnFacts
    <2> QED BY <1>3, <2>1, CharAssumption DEF Sound
  <1> HIDE DEF ch
  <1>5. /\ w \in Screen /\ SameTerminal(s, w)
        /\ w.vw = s.vw /\ w.vis = s.vis /\ w.vx = x /\ w.vy = y
        /\ w.chr = ch /\ w.cont = s.cont
        /\ w.dirty = s.dirty /\ w.ldirty = s.ldirty
    BY <1>1, <1>2, Zenon DEF Screen, SameTerminal
  <1> HIDE DEF w
  <1>6. CASE s.chr[y][x] = c
    <2>1. PutCell(s, c, imm) = s
      BY <1>4, <1>6
    <2> QED BY <2>1, Zenon DEF Carries, Keeps
  <1>7. CASE s.chr[y][x] # c /\ imm
    <2> DEFINE p == Pput(w, y, x, c)
               d == [s.dirty EXCEPT ![y] = @ \ {x}]
               t == [p EXCEPT !.dirty = d]
    <2>1. Tracked(w)
      BY <1>5, Zenon DEF Sound, Tracked, SameTerminal, ScreenCols
    <2>2. /\ p \in Screen /\ SameVirtual(w, p) /\ Tracked(p)
          /\ p.glass = [s.glass EXCEPT ![y][x] = c]
      BY <1>1, <1>5, <2>1, PputFacts DEF SameTerminal
    <2>3. PutCell(s, c, imm) = [p EXCEPT !.dirty[y] = @ \ {x}]
      BY <1>4, <1>7
    <2> HIDE DEF p
    <2>4. d \in [Rows -> SUBSET Cols]
      BY <1>1
    <2>5. PutCell(s, c, imm) = t
      BY <1>5, <2>2, <2>3, Zenon DEF SameVirtual
    <2> HIDE DEF d
    <2>6. /\ t \in Screen /\ SameTerminal(p, t)
          /\ t.vw = p.vw /\ t.vis = p.vis /\ t.vx = p.vx /\ t.vy = p.vy
          /\ t.chr = p.chr /\ t.cont = p.cont
          /\ t.dirty = d /\ t.ldirty = p.ldirty
      BY <2>2, <2>4, Zenon DEF Screen, SameTerminal
    <2> HIDE DEF t
    <2>7. /\ t.vw = s.vw /\ t.vis = s.vis /\ t.vx = x /\ t.vy = y
          /\ t.chr = ch /\ t.cont = s.cont /\ t.ldirty = s.ldirty
          /\ t.glass = [s.glass EXCEPT ![y][x] = c]
      BY <1>5, <2>2, <2>6, Zenon DEF SameVirtual, SameTerminal
    <2>8. y \in PRows /\ x \in PCols
      BY <1>1, SizeFacts
    <2>9. \A r \in PRows, z \in PCols :
              t.glass[r][z] = IF r = y /\ z = x THEN c ELSE s.glass[r][z]
      BY <1>1, <2>7, <2>8
    <2>10. Sound(t) /\ Keeps(s, t)
      <3>1. \A r \in Rows, z \in ScreenCols(t) : t.chr[r][z] # Nul
        BY <1>4a, <2>7, Zenon DEF ScreenCols
      <3>2. ASSUME NEW r \in VH .. PH - 1, NEW z \in PCols
            PROVE  t.glass[r][z] = Blank
        <4>1. r \in PRows /\ r # s.vy
          BY <1>1, SizeAssumption DEF PRows, Rows
        <4> QED BY <2>9, <4>1 DEF Sound
      <3> QED
        BY <1>1, <2>2, <2>6, <2>7, <3>1, <3>2, Zenon
        DEF Keeps, Sound, Tracked, SameTerminal
    <2>11. \A r \in Rows, z \in Cols :
              t.dirty[r] = (IF r = y THEN s.dirty[r] \ {x} ELSE s.dirty[r])
      BY <1>1, <2>6 DEF d
    <2>12. \A r \in Rows, z \in ScreenCols(t) :
              z \in ScreenCols(s) /\ r \in PRows /\ z \in PCols /\ z \in Cols
      BY <1>1, <2>7, SizeAssumption DEF ScreenCols, Rows, PRows, PCols, Cols
    <2>13. Mirror(s) => Mirror(t)
      <3>1. SUFFICES ASSUME Mirror(s) PROVE Mirror(t)
        OBVIOUS
      <3>3. ASSUME NEW r \in Rows, NEW z \in ScreenCols(t),
                   t.glass[r][z] # t.chr[r][z]
            PROVE  z \in t.dirty[r]
        <4>1. /\ z \in ScreenCols(s) /\ r \in PRows /\ z \in PCols /\ z \in Cols
          BY <2>12
        <4>2. ~(r = y /\ z = x)
          BY <1>3, <2>7, <2>9, <3>3, <4>1
        <4>3. s.glass[r][z] # s.chr[r][z]
          BY <1>3, <2>7, <2>9, <3>3, <4>1, <4>2
        <4>4. z \in s.dirty[r]
          BY <3>1, <4>1, <4>3 DEF Mirror
        <4> QED BY <2>11, <4>1, <4>2, <4>4
      <3>4. ASSUME NEW r \in Rows, NEW z \in ScreenCols(t), z \in t.dirty[r]
            PROVE  r \in t.ldirty
        <4>1. z \in ScreenCols(s) /\ z \in Cols
          BY <2>12
        <4>2. z \in s.dirty[r]
          BY <2>11, <3>4, <4>1
        <4> QED BY <2>7, <3>1, <4>1, <4>2 DEF Mirror
      <3> QED BY <3>3, <3>4, Zenon DEF Mirror
    <2>14. Fresh(s) => Fresh(t)
      <3>1. SUFFICES ASSUME Fresh(s), NEW r \in Rows, NEW z \in ScreenCols(t)
                     PROVE  t.glass[r][z] = t.chr[r][z] /\ z \notin t.dirty[r]
        BY Zenon DEF Fresh
      <3>2. /\ z \in ScreenCols(s) /\ r \in PRows /\ z \in PCols /\ z \in Cols
        BY <2>12
      <3>3. s.glass[r][z] = s.chr[r][z] /\ z \notin s.dirty[r]
        BY <3>1, <3>2 DEF Fresh
      <3>4. z \notin t.dirty[r]
        BY <2>11, <3>2, <3>3
      <3>5. t.glass[r][z] = t.chr[r][z]
        BY <1>3, <2>7, <2>9, <3>2, <3>3
      <3> QED BY <3>4, <3>5
    <2> QED
      BY <2>5, <2>7, <2>10, <2>13, <2>14, Zenon DEF Carries
  <1>8. CASE s.chr[y][x] # c /\ ~imm
    <2> DEFINE d == [s.dirty EXCEPT ![y] = @ \cup {x}]
               l == s.ldirty \cup {y}
               t == [w EXCEPT !.dirty = d, !.ldirty = l]
    <2>1. d \in [Rows -> SUBSET Cols] /\ l \in SUBSET Rows
      BY <1>1
    <2>2. PutCell(s, c, imm) = t
      BY <1>4, <1>5, <1>8, Zenon
    <2>3. /\ \A r \in Rows : s.dirty[r] \subseteq d[r]
          /\ \A r \in Rows : \A z : z \in d[r] => z \in s.dirty[r] \/ r = y
          /\ x \in d[y] /\ y \in l
      BY <1>1
    <2> HIDE DEF d
    <2>4. \A r \in s.ldirty : r \in l
      OBVIOUS
    <2> HIDE DEF l
    <2>5. /\ t \in Screen /\ SameTerminal(w, t)
          /\ t.vw = w.vw /\ t.vis = w.vis /\ t.vx = w.vx /\ t.vy = w.vy
          /\ t.chr = w.chr /\ t.cont = w.cont
          /\ t.dirty = d /\ t.ldirty = l
      BY <1>5, <2>1, Zenon DEF Screen, SameTerminal
    <2> HIDE DEF t
    <2>6. Sound(t) /\ Keeps(s, t)
      <3>1. \A r \in Rows, z \in ScreenCols(t) : t.chr[r][z] # Nul
        BY <1>5, <1>4a, <2>5, Zenon DEF ScreenCols
      <3>2. Tracked(t) /\ t.glass = s.glass
        <4>1. SameTerminal(s, t) /\ Tracked(s)
          BY <1>5, <2>5 DEF SameTerminal, Sound
        <4> QED BY <4>1, TrackedAgain
      <3>3. Sound(t)
        BY <1>1, <1>5, <2>5, <3>1, <3>2, SoundAgain
      <3> QED BY <1>5, <2>5, <3>3, Zenon DEF Keeps
    <2>7. \A z \in ScreenCols(s) : z \in Cols
      BY <1>1, ColumnFacts
    <2>8. t.glass = s.glass /\ t.chr = ch /\ ScreenCols(t) = ScreenCols(s)
      BY <1>5, <2>5, Zenon DEF SameTerminal, ScreenCols
    <2>9. Mirror(s) => Mirror(t)
      <3>1. SUFFICES ASSUME Mirror(s), NEW r \in Rows, NEW z \in ScreenCols(s)
                     PROVE  /\ s.glass[r][z] # ch[r][z] => z \in d[r]
                            /\ z \in d[r] => r \in l
        BY <2>5, <2>8, Zenon DEF Mirror
      <3>2. CASE r = y /\ z = x
        BY <2>3, <3>2
      <3>3. CASE ~(r = y /\ z = x)
        BY <1>3, <2>3, <2>4, <2>7, <3>1, <3>3 DEF Mirror
      <3> QED BY <3>2, <3>3
    <2> QED
      BY <1>5, <1>8, <2>2, <2>5, <2>6, <2>9, Zenon DEF Carries
  <1> QED BY <1>6, <1>7, <1>8

(* The step behind a character joins the row it leaves, never the last     *)
(* one: when it is the last, the scroll comes first.                       *)
LEMMA AdvanceFacts ==
    ASSUME NEW s, Sound(s)
    PROVE  /\ Carries(s, Advance(s))
           /\ Fresh(s) /\ Mirror(s) => Fresh(Advance(s))
  <1>1. /\ s \in Screen /\ s.vx \in Cols /\ s.vy \in Rows /\ s.vw \in 1 .. MaxW
        /\ s.vx < MaxW /\ s.cont \in SUBSET Rows
    BY SizeFacts DEF Sound, Screen
  <1>2. CASE s.vx + 1 < s.vw
    <2> DEFINE a == s.vx + 1
               t == [s EXCEPT !.vx = a]
    <2>1. a \in Cols /\ a < MaxW /\ a < s.vw /\ Advance(s) = t
      BY <1>1, <1>2, SizeAssumption DEF Cols, Advance
    <2> HIDE DEF a
    <2>2. /\ t \in Screen /\ SameTerminal(s, t)
          /\ t.vw = s.vw /\ t.vis = s.vis /\ t.chr = s.chr /\ t.vx = a
          /\ t.dirty = s.dirty /\ t.ldirty = s.ldirty /\ t.cont = s.cont
      BY <1>1, <2>1, Zenon DEF Screen, SameTerminal
    <2> HIDE DEF t
    <2>3. Carries(s, t) /\ (Fresh(s) => Fresh(t))
      BY <2>1, <2>2, CursorCarries, Zenon DEF Sound
    <2> QED BY <2>1, <2>3
  <1>3. CASE ~(s.vx + 1 < s.vw) /\ s.vy + 1 < VH
    <2> DEFINE b == s.vy + 1
               j == s.cont \cup {s.vy}
               t == [s EXCEPT !.vx = 0, !.vy = b, !.cont = j]
    <2>1. /\ b \in Rows /\ j \in SUBSET Rows
          /\ VH - 1 \notin s.cont => VH - 1 \notin j
      BY <1>1, <1>3, SizeAssumption DEF Rows
    <2>2. Advance(s) = t
      BY <1>3, Zenon DEF Advance
    <2> HIDE DEF b, j
    <2>3. /\ t \in Screen /\ SameTerminal(s, t)
          /\ t.vw = s.vw /\ t.vis = s.vis /\ t.chr = s.chr /\ t.vx = 0
          /\ t.dirty = s.dirty /\ t.ldirty = s.ldirty /\ t.cont = j
      BY <1>1, <2>1, SizeFacts, Zenon DEF Screen, SameTerminal
    <2> HIDE DEF t
    <2>4. 0 < MaxW /\ 0 < t.vw
      BY <1>1, <2>3, SizeAssumption
    <2>5. Carries(s, t) /\ (Fresh(s) => Fresh(t))
      BY <2>1, <2>3, <2>4, CursorCarries, Zenon DEF Sound
    <2> QED BY <2>2, <2>5
  <1>4. CASE ~(s.vx + 1 < s.vw) /\ ~(s.vy + 1 < VH)
    <2> DEFINE u == Scroll(s)
               j == u.cont \cup {s.vy - 1}
               t == [u EXCEPT !.vx = 0, !.vy = VH - 1, !.cont = j]
    <2>1. Carries(s, u) /\ (Fresh(s) /\ Mirror(s) => Fresh(u))
      BY ScrollFacts
    <2>2. Advance(s) = t
      BY <1>3, <1>4, Zenon DEF Advance
    <2> HIDE DEF u
    <2>3. Sound(u) /\ u \in Screen /\ u.cont \in SUBSET Rows
          /\ u.vw \in 1 .. MaxW
      BY <2>1, SizeFacts DEF Carries, Sound, Screen
    <2>4. j \in SUBSET Rows /\ (VH - 1 \notin u.cont => VH - 1 \notin j)
      BY <1>1, <1>4, <2>3, SizeAssumption DEF Rows
    <2> HIDE DEF j
    <2>5. /\ t \in Screen /\ SameTerminal(u, t)
          /\ t.vw = u.vw /\ t.vis = u.vis /\ t.chr = u.chr /\ t.vx = 0
          /\ t.dirty = u.dirty /\ t.ldirty = u.ldirty /\ t.cont = j
      BY <2>3, <2>4, SizeFacts, Zenon DEF Screen, SameTerminal
    <2> HIDE DEF t
    <2>6. 0 < MaxW /\ 0 < t.vw
      BY <2>3, <2>5, SizeAssumption
    <2>7. Carries(u, t) /\ (Fresh(u) => Fresh(t))
      BY <2>3, <2>4, <2>5, <2>6, CursorCarries, Zenon
    <2> QED BY <2>1, <2>2, <2>7, CarriesTransitive, Zenon
  <1> QED BY <1>2, <1>3, <1>4

(* scr_vputc.                                                              *)
LEMMA VPutcFacts ==
    ASSUME NEW s, Sound(s), NEW c \in Char, NEW imm \in BOOLEAN
    PROVE  /\ Carries(s, VPutc(s, c, imm))
           /\ imm /\ Fresh(s) /\ Mirror(s) => Fresh(VPutc(s, c, imm))
           /\ Ended(VPutc(s, c, imm), imm)
  <1> DEFINE p == PutCell(s, c, imm)
             a == Advance(p)
  <1>1. Carries(s, p) /\ (imm /\ Fresh(s) => Fresh(p))
    BY PutCellFacts
  <1> HIDE DEF p
  <1>2. Carries(p, a) /\ (Fresh(p) /\ Mirror(p) => Fresh(a))
    BY <1>1, AdvanceFacts DEF Carries
  <1>3. VPutc(s, c, imm) = XySync(Show(a, imm))
    BY DEF VPutc, p
  <1> HIDE DEF a
  <1>4. Carries(s, a)
    BY <1>1, <1>2, CarriesTransitive
  <1>5. Mirror(s) => Mirror(p)
    BY <1>1 DEF Carries
  <1> QED BY <1>1, <1>2, <1>3, <1>4, <1>5, EndFacts, Zenon

-----------------------------------------------------------------------------
(* Least and greatest elements.                                            *)

(* A set of naturals has a least element, and Min is it.                   *)
LEMMA MinFacts ==
    ASSUME NEW S, S \subseteq Nat, S # {}
    PROVE  Min(S) \in S /\ \A n \in S : Min(S) <= n
  <1> DEFINE R == OpToRel(<, Nat)
  <1>1. \A n, m \in Nat : n < m => <<n, m>> \in R
    BY DEF OpToRel
  <1>2. IsWellFoundedOn(R, Nat)
    BY NatLessThanWellFounded
  <1> HIDE DEF R
  <1>3. PICK m \in S : \A n \in S : ~(<<n, m>> \in R)
    BY <1>2, WFMin
  <1>4. \A n \in S : m <= n
    <2>1. SUFFICES ASSUME NEW n \in S PROVE m <= n
      OBVIOUS
    <2>2. ~(n < m)
      <3>1. n \in Nat /\ m \in Nat
        OBVIOUS
      <3> QED BY <1>1, <1>3, <3>1, Zenon
    <2> QED BY <2>2
  <1> QED BY <1>4 DEF Min

(* A bounded one has a greatest element, and Max is it.                    *)
LEMMA MaxFacts ==
    ASSUME NEW S, NEW k \in Nat, S \subseteq 0 .. k, S # {}
    PROVE  Max(S) \in S /\ \A n \in S : n <= Max(S)
  <1> DEFINE D == {k - n : n \in S}
  <1>1. D \subseteq Nat /\ D # {}
    <2>1. \A n \in S : k - n \in Nat
      OBVIOUS
    <2>2. PICK n \in S : TRUE
      OBVIOUS
    <2>3. k - n \in D
      BY <2>2
    <2> QED BY <2>1, <2>3
  <1>2. PICK d \in D : \A e \in D : d <= e
    BY <1>1, MinFacts
  <1>3. PICK m \in S : d = k - m
    BY <1>2
  <1>4. \A n \in S : n <= m
    <2>1. SUFFICES ASSUME NEW n \in S PROVE n <= m
      OBVIOUS
    <2>2. d <= k - n
      BY <1>2
    <2> QED BY <1>3, <2>2
  <1> QED BY <1>4 DEF Max

-----------------------------------------------------------------------------
(* Line feeds.                                                             *)

(* The end of a group of joined rows is on the screen.                     *)
LEMMA GroupEndFacts ==
    ASSUME NEW cont, NEW y \in Rows
    PROVE  /\ GroupEnd(cont, y) \in Rows
           /\ GroupEnd(cont, y) = VH - 1 \/ GroupEnd(cont, y) \notin cont
           /\ GroupEnd(cont, y) >= y
           /\ \A r \in y .. GroupEnd(cont, y) - 1 : r \in cont
  <1> DEFINE S == {r \in y .. VH - 1 : r = VH - 1 \/ r \notin cont}
  <1>1. S \subseteq Nat /\ VH - 1 \in S
    BY SizeAssumption DEF Rows
  <1>2. Min(S) \in S /\ \A n \in S : Min(S) <= n
    BY <1>1, MinFacts
  <1>3. GroupEnd(cont, y) = Min(S)
    BY DEF GroupEnd
  <1>4. \A r \in y .. Min(S) - 1 : r \in cont
    <2>1. SUFFICES ASSUME NEW r \in y .. Min(S) - 1, r \notin cont PROVE FALSE
      OBVIOUS
    <2>2. r \in S /\ r < Min(S)
      BY <1>2, <2>1, SizeAssumption DEF Rows
    <2> QED BY <1>2, <2>2
  <1> QED BY <1>2, <1>3, <1>4, SizeAssumption DEF Rows

(* scr_vcrlf ends in column 0 of a row the row above is not joined to.     *)
LEMMA VCrlfFacts ==
    ASSUME NEW s, Sound(s), NEW imm \in BOOLEAN
    PROVE  /\ Carries(s, VCrlf(s, imm))
           /\ Fresh(s) /\ Mirror(s) => Fresh(VCrlf(s, imm))
           /\ Ended(VCrlf(s, imm), imm)
           /\ VCrlf(s, imm).vx = 0
           /\ VH - 1 \notin s.cont =>
                 (VCrlf(s, imm).vy - 1) \notin VCrlf(s, imm).cont
  <1> DEFINE e == GroupEnd(s.cont, s.vy)
             t == [s EXCEPT !.vx = 0, !.vy = e]
             u == IF e = s.vy THEN t ELSE XySync(Show(t, imm))
             v == VDown(u, imm)
  <1>1. s \in Screen /\ s.vy \in Rows /\ s.vw \in 1 .. MaxW
    BY SizeFacts DEF Sound, Screen
  <1>2. /\ e \in Rows
        /\ e = VH - 1 \/ e \notin s.cont
    BY <1>1, GroupEndFacts
  <1>3. VCrlf(s, imm) = v
    BY DEF VCrlf
  <1> HIDE DEF e
  <1>4. /\ t \in Screen /\ SameTerminal(s, t) /\ t.vx = 0 /\ t.vy = e
        /\ t.vw = s.vw /\ t.vis = s.vis /\ t.chr = s.chr
        /\ t.dirty = s.dirty /\ t.ldirty = s.ldirty /\ t.cont = s.cont
    BY <1>1, <1>2, SizeFacts, Zenon DEF Screen, SameTerminal
  <1> HIDE DEF t
  <1>5. 0 < MaxW /\ 0 < t.vw
    BY <1>1, <1>4, SizeAssumption
  <1>6. Carries(s, t) /\ (Fresh(s) => Fresh(t))
    BY <1>4, <1>5, CursorCarries, Zenon DEF Sound
  <1>7. /\ Carries(s, u) /\ (Fresh(s) => Fresh(u))
        /\ u.vx = 0 /\ u.vy = e /\ u.cont = s.cont
    BY <1>4, <1>6, EndFacts, Zenon
  <1> HIDE DEF u
  <1>8. Sound(u) /\ (Mirror(s) => Mirror(u))
    BY <1>7 DEF Carries
  <1>9. /\ Carries(u, v) /\ (Fresh(u) /\ Mirror(u) => Fresh(v)) /\ Ended(v, imm)
        /\ v.vx = 0
        /\ v.vy = IF e + 1 < VH THEN e + 1 ELSE VH - 1
        /\ v.cont = IF e + 1 < VH THEN s.cont ELSE ShiftUp(s.cont)
    BY <1>7, <1>8, VDownFacts
  <1> HIDE DEF v
  <1>10. VH - 1 \notin s.cont => (v.vy - 1) \notin v.cont
    BY <1>1, <1>2, <1>9, SizeAssumption DEF Rows, ShiftUp
  <1> QED BY <1>3, <1>7, <1>8, <1>9, <1>10, CarriesTransitive

-----------------------------------------------------------------------------
(* Flushing.                                                               *)

(* The first and the last row of the write loop, and the span of each row. *)
LEMMA SpanFacts ==
    ASSUME NEW s \in Screen, NEW cells \in [Rows -> SUBSET ScreenCols(s)],
           NEW rows, rows = {r \in Rows : cells[r] # {}}, rows # {}
    PROVE  /\ Min(rows) \in rows /\ Max(rows) \in rows
           /\ \A r \in rows : /\ Min(cells[r]) \in ScreenCols(s)
                              /\ Max(cells[r]) \in ScreenCols(s)
           /\ \A r \in Rows : \A x : Under(cells, r, x) => r \in rows
           /\ \A r \in rows, x \in Int : Under(cells, r, x) => x \in Cols
  <1>1. /\ ScreenCols(s) \subseteq Nat /\ ScreenCols(s) \subseteq 0 .. MaxW
        /\ Rows \subseteq Nat /\ Rows \subseteq 0 .. VH
        /\ MaxW \in Nat /\ VH \in Nat
    BY ColumnFacts, SizeAssumption DEF ScreenCols, Rows
  <1>2. rows \subseteq Rows
    OBVIOUS
  <1>3. Min(rows) \in rows /\ Max(rows) \in rows
    BY <1>1, <1>2, MinFacts, MaxFacts
  <1>4. ASSUME NEW r \in rows
        PROVE  Min(cells[r]) \in ScreenCols(s) /\ Max(cells[r]) \in ScreenCols(s)
    <2>1. cells[r] # {} /\ cells[r] \subseteq ScreenCols(s)
      OBVIOUS
    <2>2. cells[r] \subseteq Nat /\ cells[r] \subseteq 0 .. MaxW
      BY <1>1, <2>1
    <2>3. Min(cells[r]) \in cells[r] /\ Max(cells[r]) \in cells[r]
      BY <1>1, <2>1, <2>2, MinFacts, MaxFacts
    <2> QED BY <2>1, <2>3
  <1>5. \A r \in Rows : \A x : Under(cells, r, x) => r \in rows
    BY DEF Under
  <1>6. ASSUME NEW r \in rows, NEW x \in Int, Under(cells, r, x)
        PROVE  x \in Cols
    <2>1. PICK a, b \in cells[r] : a <= x /\ x <= b
      BY <1>6 DEF Under
    <2>2. a \in ScreenCols(s) /\ b \in ScreenCols(s)
      OBVIOUS
    <2>3. a \in 0 .. MaxW /\ b \in 0 .. MaxW
      BY <1>1, <2>2
    <2> QED BY <1>1, <2>1, <2>3 DEF Cols
  <1> QED BY <1>3, <1>4, <1>5, <1>6

(* The write loop stays in the rows of the virtual screen, wherever in     *)
(* them the terminal has its cursor, and touches the terminal only.        *)
LEMMA WriteSpansTypes ==
    ASSUME NEW s \in Screen, s.gy \in Rows \/ Tracked(s),
           NEW cells \in [Rows -> SUBSET ScreenCols(s)]
    PROVE  /\ WriteSpans(s, cells) \in Screen
           /\ SameVirtual(s, WriteSpans(s, cells))
           /\ \A y \in VH .. PH - 1, x \in PCols :
                 WriteSpans(s, cells).glass[y][x] = s.glass[y][x]
  <1> DEFINE rows == {r \in Rows : cells[r] # {}}
             top  == Min(rows)
             bot  == Max(rows)
             lo   == Min(cells[top])
             m    == Pmove(s, top, lo)
             from == lo - m.gx
             end  == IF bot = top THEN Max(cells[top]) + 1 - from
                                  ELSE Max(cells[bot]) + 1
             gls  == [y \in PRows |-> [x \in PCols |->
                        IF y \in rows \ {top} /\ Under(cells, y, x)
                          THEN s.chr[y][x]
                        ELSE IF y = m.gy /\ Under(cells, top, x + from)
                          THEN s.chr[top][x + from]
                        ELSE s.glass[y][x]]]
             gy   == IF bot = top THEN m.gy ELSE bot
             gx   == IF end < PW THEN end ELSE PW
             t    == [s EXCEPT !.glass = gls, !.gy = gy, !.gx = gx,
                               !.py = bot, !.px = Min(cells[bot])]
  <1>1. /\ s.chr \in [Rows -> [Cols -> Cell]]
        /\ s.glass \in [PRows -> [PCols -> Cell]]
    BY DEF Screen
  <1>2. CASE rows = {}
    <2>1. WriteSpans(s, cells) = s
      BY <1>2, Zenon DEF WriteSpans
    <2> QED BY <2>1, Zenon DEF SameVirtual
  <1>3. CASE rows # {}
    <2>1. WriteSpans(s, cells) = t
      BY <1>3, Zenon DEF WriteSpans
    <2>2. /\ top \in rows /\ bot \in rows /\ lo \in ScreenCols(s)
          /\ Max(cells[top]) \in ScreenCols(s)
          /\ Min(cells[bot]) \in ScreenCols(s) /\ Max(cells[bot]) \in ScreenCols(s)
          /\ \A r \in rows, x \in Int : Under(cells, r, x) => x \in Cols
      BY <1>3, SpanFacts
    <2>3. rows \subseteq Rows
      OBVIOUS
    <2> HIDE DEF rows, top, bot, lo
    <2>4. /\ top \in PRows /\ bot \in PRows /\ bot \in -1 .. PH
          /\ lo \in Cols /\ lo < MaxW
      BY <2>2, <2>3, SizeFacts, ColumnFacts
    <2>5. m \in Screen /\ m.gy \in Rows
      <3>1. m \in Screen
        BY <2>4, PmoveFacts
      <3>2. CASE Tracked(s)
        BY <2>2, <2>3, <2>4, <3>1, <3>2, PmoveFacts
      <3>3. CASE s.gy \in Rows
        <4>1. m.gy = s.gy \/ m.gy = top
          <5>1. CASE s.py = top /\ s.px = lo
            BY <5>1 DEF Pmove
          <5>2. CASE ~(s.py = top /\ s.px = lo)
            <6>1. m = [s EXCEPT !.py = top, !.px = lo,
                                !.gy = IF top < PH THEN top ELSE PH - 1,
                                !.gx = IF lo < PW THEN lo ELSE PW - 1]
              BY <5>2, Zenon DEF Pmove
            <6>2. m.gy = IF top < PH THEN top ELSE PH - 1
              BY <6>1, Zenon DEF Screen
            <6> QED BY <2>4, <6>2, SizeAssumption DEF PRows
          <5> QED BY <5>1, <5>2
        <4> QED BY <2>2, <2>3, <3>1, <3>3, <4>1
      <3> QED BY <3>1, <3>2, <3>3
    <2>6. m.gx \in 0 .. PW
      BY <2>5 DEF Screen
    <2>7. from \in Int /\ gx \in 0 .. PW /\ gy \in PRows
      <3>1. /\ lo \in 0 .. MaxW /\ Max(cells[top]) \in 0 .. MaxW
            /\ Max(cells[bot]) \in 0 .. MaxW
        BY <2>2, ColumnFacts DEF Cols
      <3>2. lo <= Max(cells[top])
        <4>1. cells[top] # {} /\ cells[top] \subseteq Nat /\ cells[top] \subseteq 0 .. MaxW
          BY <2>2, ColumnFacts, SizeAssumption DEF rows, Cols
        <4> QED BY <4>1, MinFacts, MaxFacts, SizeAssumption DEF lo
      <3>3. from \in Int /\ end \in Nat
        BY <2>6, <3>1, <3>2, SizeAssumption
      <3>4. m.gy \in PRows
        BY <2>5, SizeFacts
      <3> QED BY <2>4, <3>3, <3>4, SizeAssumption
    <2> HIDE DEF m, from, gx, gy
    <2>8. gls \in [PRows -> [PCols -> Cell]]
      <3>1. ASSUME NEW y \in PRows, NEW x \in PCols
            PROVE  (IF y \in rows \ {top} /\ Under(cells, y, x)
                      THEN s.chr[y][x]
                    ELSE IF y = m.gy /\ Under(cells, top, x + from)
                      THEN s.chr[top][x + from]
                    ELSE s.glass[y][x]) \in Cell
        <4>1. x \in Int /\ x + from \in Int
          BY <2>7, SizeAssumption DEF PCols
        <4> QED BY <1>1, <2>2, <2>3, <4>1
      <3> QED BY <3>1
    <2>9. \A y \in VH .. PH - 1, x \in PCols : gls[y][x] = s.glass[y][x]
      <3>1. SUFFICES ASSUME NEW y \in VH .. PH - 1, NEW x \in PCols
                     PROVE  gls[y][x] = s.glass[y][x]
        OBVIOUS
      <3>2. y \in PRows /\ y \notin rows /\ y # m.gy
        BY <2>3, <2>5, SizeAssumption DEF PRows, Rows
      <3> QED BY <3>2
    <2> HIDE DEF gls
    <2>10. /\ t \in Screen /\ SameVirtual(s, t) /\ t.glass = gls
      <3>1. Min(cells[bot]) \in -1 .. MaxW + 1
        BY <2>2, ColumnFacts, SizeFacts
      <3> QED
        BY <2>4, <2>7, <2>8, <3>1, Zenon DEF Screen, SameVirtual
    <2> HIDE DEF t
    <2> QED BY <2>1, <2>9, <2>10
  <1> QED BY <1>2, <1>3

(* From a place it knows it draws the spans of cells and nothing else.     *)
LEMMA WriteSpansFacts ==
    ASSUME NEW s, Sound(s), NEW cells \in [Rows -> SUBSET ScreenCols(s)]
    PROVE  /\ WriteSpans(s, cells) \in Screen
           /\ SameVirtual(s, WriteSpans(s, cells))
           /\ \A y \in VH .. PH - 1, x \in PCols :
                 WriteSpans(s, cells).glass[y][x] = s.glass[y][x]
           /\ \A r \in Rows, x \in ScreenCols(s) :
                 WriteSpans(s, cells).glass[r][x] =
                    IF Under(cells, r, x) THEN s.chr[r][x] ELSE s.glass[r][x]
           /\ (\A r \in Rows : cells[r] = {}) => WriteSpans(s, cells) = s
  <1> DEFINE rows == {r \in Rows : cells[r] # {}}
             top  == Min(rows)
             bot  == Max(rows)
             lo   == Min(cells[top])
             m    == Pmove(s, top, lo)
             from == lo - m.gx
             end  == IF bot = top THEN Max(cells[top]) + 1 - from
                                  ELSE Max(cells[bot]) + 1
             gls  == [y \in PRows |-> [x \in PCols |->
                        IF y \in rows \ {top} /\ Under(cells, y, x)
                          THEN s.chr[y][x]
                        ELSE IF y = m.gy /\ Under(cells, top, x + from)
                          THEN s.chr[top][x + from]
                        ELSE s.glass[y][x]]]
             gy   == IF bot = top THEN m.gy ELSE bot
             gx   == IF end < PW THEN end ELSE PW
             t    == [s EXCEPT !.glass = gls, !.gy = gy, !.gx = gx,
                               !.py = bot, !.px = Min(cells[bot])]
  <1>1. s \in Screen /\ Tracked(s)
    BY DEF Sound
  <1>2. /\ WriteSpans(s, cells) \in Screen
        /\ SameVirtual(s, WriteSpans(s, cells))
        /\ \A y \in VH .. PH - 1, x \in PCols :
              WriteSpans(s, cells).glass[y][x] = s.glass[y][x]
    BY <1>1, WriteSpansTypes
  <1>3. CASE rows = {}
    <2>1. WriteSpans(s, cells) = s
      BY <1>3, Zenon DEF WriteSpans
    <2>2. \A r \in Rows : \A x : ~Under(cells, r, x)
      BY <1>3 DEF Under
    <2> QED BY <1>2, <2>1, <2>2, Zenon
  <1>4. CASE rows # {}
    <2>1. WriteSpans(s, cells) = t
      BY <1>4, Zenon DEF WriteSpans
    <2>2. /\ top \in rows /\ lo \in ScreenCols(s)
          /\ \A r \in Rows : \A x : Under(cells, r, x) => r \in rows
      BY <1>1, <1>4, SpanFacts
    <2>3. top \in PRows /\ lo \in Cols /\ lo < MaxW
      BY <1>1, <2>2, SizeFacts, ColumnFacts
    <2>4. ~(\A r \in Rows : cells[r] = {})
      BY <1>4
    <2> HIDE DEF rows, top, lo
    <2>5. m.gx = lo /\ m.gy = top
      BY <1>1, <2>3, PmoveFacts
    <2>6. from = 0
      BY <2>3, <2>5, SizeAssumption DEF Cols
    <2>7. t.glass = gls
      BY <1>1, Zenon DEF Screen
    <2> HIDE DEF m, from, t
    <2>8. ASSUME NEW r \in Rows, NEW x \in ScreenCols(s)
          PROVE  t.glass[r][x] =
                    IF Under(cells, r, x) THEN s.chr[r][x] ELSE s.glass[r][x]
      <3>1. r \in PRows /\ x \in PCols
        BY <1>1, SizeFacts, ColumnFacts
      <3>2. x + from = x
        BY <2>6, <3>1, SizeAssumption DEF PCols
      <3>3. t.glass[r][x] =
              IF r \in rows \ {top} /\ Under(cells, r, x)
                THEN s.chr[r][x]
              ELSE IF r = m.gy /\ Under(cells, top, x + from)
                THEN s.chr[top][x + from]
              ELSE s.glass[r][x]
        BY <2>7, <3>1
      <3> QED BY <2>2, <2>5, <3>2, <3>3, Zenon
    <2> QED BY <1>2, <2>1, <2>4, <2>8
  <1> QED BY <1>3, <1>4

(* After a flush the terminal has the cursor in its place and, if what it  *)
(* did not show was marked, it shows every cell; the virtual screen is     *)
(* what it was.                                                            *)
LEMMA FlushFacts ==
    ASSUME NEW s, Sound(s)
    PROVE  /\ Carries(s, Flush(s))
           /\ Mirror(s) => Fresh(Flush(s))
           /\ Flush(s).vx = s.vx /\ Flush(s).vy = s.vy /\ Flush(s).xy = s.xy
           /\ Flush(s).gx = s.vx /\ Flush(s).gy = s.vy
           /\ Flush(s).chr = s.chr /\ Flush(s).cont = s.cont
  <1> DEFINE cells == [r \in Rows |-> IF r \in s.ldirty
                         THEN s.dirty[r] \cap (0 .. s.vw - 1) ELSE {}]
             rows == {r \in Rows : cells[r] # {}}
             w == WriteSpans(s, cells)
             d == [r \in Rows |-> s.dirty[r] \ cells[r]]
             l == s.ldirty \ rows
             p == IF rows = {} THEN s.px ELSE -1
             t == [w EXCEPT !.dirty = d, !.ldirty = l, !.px = p]
             u == Pmove(t, s.vy, s.vx)
  <1>1. /\ s \in Screen /\ Tracked(s) /\ s.vw \in 1 .. MaxW
        /\ s.dirty \in [Rows -> SUBSET Cols] /\ s.ldirty \in SUBSET Rows
        /\ s.px \in -1 .. MaxW + 1
        /\ s.vx \in Cols /\ s.vx < MaxW /\ s.vy \in Rows
    BY SizeFacts DEF Sound, Screen
  <1>2. cells \in [Rows -> SUBSET ScreenCols(s)]
    BY <1>1 DEF ScreenCols
  <1>3. \A r \in Rows, x \in ScreenCols(s) :
           r \in s.ldirty /\ x \in s.dirty[r] => x \in cells[r]
    BY DEF ScreenCols
  <1>4. d \in [Rows -> SUBSET Cols] /\ l \in SUBSET Rows /\ p \in -1 .. MaxW + 1
    BY <1>1, SizeFacts
  <1>5. Flush(s) = u
    BY Zenon DEF Flush
  <1>6. rows = {} => \A r \in Rows : cells[r] = {}
    OBVIOUS
  <1>7. rows # {} => p = -1
    OBVIOUS
  <1>8. rows = {} => p = s.px
    OBVIOUS
  <1> HIDE DEF cells, rows, d, l, p
  <1>9. /\ w \in Screen /\ SameVirtual(s, w)
        /\ \A y \in VH .. PH - 1, x \in PCols : w.glass[y][x] = s.glass[y][x]
        /\ \A r \in Rows, x \in ScreenCols(s) :
              w.glass[r][x] = IF Under(cells, r, x)
                                THEN s.chr[r][x] ELSE s.glass[r][x]
        /\ (\A r \in Rows : cells[r] = {}) => w = s
    BY <1>2, WriteSpansFacts
  <1> HIDE DEF w
  <1>10. /\ t \in Screen
         /\ t.vw = w.vw /\ t.vis = w.vis /\ t.vx = w.vx /\ t.vy = w.vy
         /\ t.chr = w.chr /\ t.cont = w.cont /\ t.xy = w.xy
         /\ t.glass = w.glass /\ t.gx = w.gx /\ t.gy = w.gy
         /\ t.px = p /\ t.py = w.py /\ t.dirty = d
    BY <1>4, <1>9, Zenon DEF Screen
  <1> HIDE DEF t
  <1>11. Tracked(t)
    <2>1. CASE rows = {}
      BY <1>1, <1>6, <1>8, <1>9, <1>10, <2>1, Zenon DEF Tracked
    <2>2. CASE rows # {}
      BY <1>7, <1>10, <2>2, Zenon DEF Tracked
    <2> QED BY <2>1, <2>2
  <1>12. s.vy \in PRows
    BY <1>1, SizeFacts
  <1>13. /\ u \in Screen /\ SameVirtual(t, u) /\ u.glass = t.glass
         /\ u.gx = s.vx /\ u.gy = s.vy /\ u.px = s.vx /\ u.py = s.vy
    BY <1>1, <1>10, <1>11, <1>12, PmoveFacts
  <1> HIDE DEF u
  <1>14. /\ u.vw = s.vw /\ u.vis = s.vis /\ u.vx = s.vx /\ u.vy = s.vy
         /\ u.chr = s.chr /\ u.cont = s.cont /\ u.xy = s.xy
         /\ u.glass = w.glass /\ ScreenCols(u) = ScreenCols(s) /\ u.dirty = d
    BY <1>9, <1>10, <1>13, Zenon DEF SameVirtual, ScreenCols
  <1>15. Sound(u) /\ Keeps(s, u)
    <2>1. \A y \in VH .. PH - 1, x \in PCols : u.glass[y][x] = Blank
      BY <1>9, <1>14 DEF Sound
    <2>2. \A r \in Rows, x \in ScreenCols(u) : u.chr[r][x] # Nul
      BY <1>14, Zenon DEF Sound
    <2> QED BY <1>1, <1>13, <1>14, <2>1, <2>2, Zenon DEF Sound, Keeps, Tracked
  <1>16. \A r \in Rows, x \in ScreenCols(s) :
            x \in d[r] => x \in s.dirty[r] /\ x \notin cells[r]
    BY DEF d
  <1>17. ASSUME Mirror(s) PROVE Fresh(u)
    <2>1. SUFFICES ASSUME NEW r \in Rows, NEW x \in ScreenCols(s)
                   PROVE  w.glass[r][x] = s.chr[r][x] /\ x \notin d[r]
      BY <1>14, Zenon DEF Fresh
    <2>4. x \notin d[r]
      BY <1>3, <1>16, <1>17 DEF Mirror
    <2>2. CASE Under(cells, r, x)
      BY <1>9, <2>2, <2>4
    <2>3. CASE ~Under(cells, r, x)
      <3>1. x \notin cells[r]
        BY <2>3 DEF Under, ScreenCols
      <3>2. s.glass[r][x] = s.chr[r][x]
        BY <1>3, <1>17, <3>1 DEF Mirror
      <3> QED BY <1>9, <2>3, <2>4, <3>2
    <2> QED BY <2>2, <2>3
  <1>18. ASSUME Mirror(s) PROVE Mirror(u)
    BY <1>17, <1>18, Zenon DEF Mirror, Fresh
  <1> QED BY <1>5, <1>13, <1>14, <1>15, <1>17, <1>18, Zenon DEF Carries

(* scr_redraw rewrites the terminal and sends the cursor to its place; it  *)
(* keeps the virtual screen, whatever it leaves on the terminal.           *)
LEMMA RedrawFacts ==
    ASSUME NEW s, Sound(s)
    PROVE  /\ Redraw(s) \in Screen
           /\ Redraw(s).vw = s.vw /\ Redraw(s).vis = s.vis
           /\ Redraw(s).vx = s.vx /\ Redraw(s).vy = s.vy
           /\ Redraw(s).chr = s.chr /\ Redraw(s).xy = s.xy
           /\ Redraw(s).cont = s.cont
           /\ Redraw(s).px = s.vx /\ Redraw(s).py = s.vy
           /\ \A y \in VH .. PH - 1, x \in PCols : Redraw(s).glass[y][x] = Blank
  <1> DEFINE cells == [r \in Rows |->
                         {x \in 0 .. s.vw - 1 : s.chr[r][x] # Blank}]
             rows == {r \in Rows : cells[r] # {}}
             b == [s EXCEPT !.glass = BlankGlass, !.gy = 0, !.gx = 0]
             w == WriteSpans(b, cells)
             d == [r \in Rows |-> IF r \in rows
                     THEN s.dirty[r] \ (0 .. s.vw - 1) ELSE s.dirty[r]]
             l == s.ldirty \ rows
             t == [w EXCEPT !.dirty = d, !.ldirty = l]
  <1>1. /\ s \in Screen /\ s.vx \in Cols /\ s.vx < MaxW /\ s.vy \in PRows
        /\ s.dirty \in [Rows -> SUBSET Cols] /\ s.ldirty \in SUBSET Rows
    BY SizeFacts DEF Sound, Screen
  <1>2. d \in [Rows -> SUBSET Cols] /\ l \in SUBSET Rows
    BY <1>1
  <1>3. /\ BlankGlass \in [PRows -> [PCols -> Cell]]
        /\ \A y \in PRows, x \in PCols : BlankGlass[y][x] = Blank
    BY CharAssumption DEF BlankGlass, Cell
  <1>4. /\ b \in Screen /\ b.gy = 0 /\ b.glass = BlankGlass
        /\ b.vw = s.vw /\ b.vis = s.vis /\ b.vx = s.vx /\ b.vy = s.vy
        /\ b.chr = s.chr /\ b.xy = s.xy /\ b.cont = s.cont
    BY <1>1, <1>3, SizeFacts, Zenon DEF Screen
  <1>5. cells \in [Rows -> SUBSET ScreenCols(b)]
    BY <1>4 DEF ScreenCols
  <1>6. Redraw(s) = Pmove(t, s.vy, s.vx)
    BY Zenon DEF Redraw
  <1> HIDE DEF cells, rows, b, d, l
  <1>7. /\ w \in Screen /\ SameVirtual(b, w)
        /\ \A y \in VH .. PH - 1, x \in PCols : w.glass[y][x] = b.glass[y][x]
    BY <1>4, <1>5, SizeFacts, WriteSpansTypes
  <1> HIDE DEF w
  <1>8. /\ t \in Screen /\ t.glass = w.glass
        /\ t.vw = w.vw /\ t.vis = w.vis /\ t.vx = w.vx /\ t.vy = w.vy
        /\ t.chr = w.chr /\ t.xy = w.xy /\ t.cont = w.cont
    BY <1>2, <1>7, Zenon DEF Screen
  <1> HIDE DEF t
  <1> DEFINE u == Pmove(t, s.vy, s.vx)
  <1>9. /\ u \in Screen /\ SameVirtual(t, u) /\ u.glass = t.glass
        /\ u.px = s.vx /\ u.py = s.vy
    BY <1>1, <1>8, PmoveFacts
  <1> HIDE DEF u
  <1>10. \A y \in VH .. PH - 1, x \in PCols : u.glass[y][x] = Blank
    <2>1. \A y \in VH .. PH - 1 : y \in PRows
      BY SizeAssumption DEF PRows
    <2> QED BY <1>3, <1>4, <1>7, <1>8, <1>9, <2>1
  <1>11. /\ u.vw = s.vw /\ u.vis = s.vis /\ u.vx = s.vx /\ u.vy = s.vy
         /\ u.chr = s.chr /\ u.xy = s.xy /\ u.cont = s.cont
    BY <1>4, <1>7, <1>8, <1>9 DEF SameVirtual
  <1>12. Redraw(s) = u
    BY <1>6 DEF u
  <1> QED BY <1>9, <1>10, <1>11, <1>12, Zenon

-----------------------------------------------------------------------------
(* Clearing, and the width.                                                *)

(* scr_clear: blank, in step with the terminal, cursor at home.            *)
LEMMA ClearFacts ==
    ASSUME NEW s \in Screen
    PROVE  /\ Sound(Clear(s)) /\ Mirror(Clear(s)) /\ Fresh(Clear(s))
           /\ Clear(s).vw = s.vw /\ Clear(s).vis = s.vis
           /\ Clear(s).vx = 0 /\ Clear(s).vy = 0
           /\ Clear(s).gx = 0 /\ Clear(s).gy = 0
           /\ Clear(s).xy = <<0, 0>>
           /\ Clear(s).cont = {}
           /\ \A r \in Rows, x \in ScreenCols(s) : Clear(s).chr[r][x] = Blank
  <1> DEFINE ch == [r \in Rows |-> BlankLine(s, s.chr[r])]
             d == [r \in Rows |-> s.dirty[r] \ (0 .. s.vw)]
             t == [s EXCEPT !.chr = ch, !.dirty = d, !.ldirty = {}, !.cont = {},
                            !.vx = 0, !.vy = 0, !.px = 0, !.py = 0,
                            !.glass = BlankGlass, !.gx = 0, !.gy = 0]
             u == XySync(t)
  <1>1. /\ s.chr \in [Rows -> [Cols -> Cell]] /\ s.vw \in 1 .. MaxW
        /\ s.dirty \in [Rows -> SUBSET Cols]
    BY SizeFacts DEF Screen
  <1>2. /\ ch \in [Rows -> [Cols -> Cell]]
        /\ \A r \in Rows, x \in ScreenCols(s) : ch[r][x] = Blank
    BY <1>1, BlankLineFacts
  <1>3. /\ d \in [Rows -> SUBSET Cols]
        /\ \A r \in Rows, x \in ScreenCols(s) : x \notin d[r]
    BY <1>1 DEF ScreenCols
  <1>4. /\ BlankGlass \in [PRows -> [PCols -> Cell]]
        /\ \A y \in PRows, x \in PCols : BlankGlass[y][x] = Blank
    BY CharAssumption DEF BlankGlass, Cell
  <1>5. Clear(s) = u
    BY Zenon DEF Clear
  <1> HIDE DEF ch, d
  <1>6. /\ t \in Screen
        /\ t.vw = s.vw /\ t.vis = s.vis /\ t.vx = 0 /\ t.vy = 0
        /\ t.chr = ch /\ t.cont = {} /\ t.px = 0 /\ t.py = 0
        /\ t.glass = BlankGlass /\ t.gx = 0 /\ t.gy = 0 /\ t.dirty = d
    <2>1. {} \in SUBSET Rows
      OBVIOUS
    <2> QED BY <1>2, <1>3, <1>4, <2>1, SizeFacts, Zenon DEF Screen
  <1> HIDE DEF t
  <1>7. /\ u \in Screen /\ u.xy = <<0, 0>> /\ SameTerminal(t, u)
        /\ u.vw = s.vw /\ u.vis = s.vis /\ u.vx = 0 /\ u.vy = 0
        /\ u.chr = ch /\ u.cont = {} /\ u.dirty = d
    BY <1>6, XySyncFacts
  <1> HIDE DEF u
  <1>8. /\ u.glass = BlankGlass /\ u.gx = 0 /\ u.gy = 0 /\ u.px = 0 /\ u.py = 0
    BY <1>6, <1>7, Zenon DEF SameTerminal
  <1>9. Sound(u)
    <2>1. 0 < MaxW
      BY SizeAssumption
    <2>2. \A r \in Rows, x \in ScreenCols(u) : u.chr[r][x] # Nul
      BY <1>2, <1>7, CharAssumption DEF ScreenCols
    <2>3. \A y \in VH .. PH - 1, x \in PCols : BlankGlass[y][x] = Blank
      BY <1>4, SizeAssumption DEF PRows
    <2> QED BY <1>7, <1>8, <2>1, <2>2, <2>3, Zenon DEF Sound, Tracked
  <1>10. Fresh(u)
    <2>1. SUFFICES ASSUME NEW r \in Rows, NEW x \in ScreenCols(s)
                   PROVE  BlankGlass[r][x] = ch[r][x] /\ x \notin d[r]
      BY <1>7, <1>8, Zenon DEF Fresh, ScreenCols
    <2>2. r \in PRows
      BY SizeFacts
    <2>3. x \in PCols
      BY <1>1, SizeAssumption DEF PCols, ScreenCols
    <2> QED BY <1>2, <1>3, <1>4, <2>2, <2>3
  <1>11. Mirror(u)
    BY <1>10, Zenon DEF Mirror, Fresh
  <1> QED BY <1>2, <1>5, <1>7, <1>8, <1>9, <1>10, <1>11

(* scr_width: the same on a screen of the new width.                       *)
LEMMA WidthFacts ==
    ASSUME NEW s \in Screen, NEW w \in Widths
    PROVE  /\ Sound(Width(s, w)) /\ Mirror(Width(s, w)) /\ Fresh(Width(s, w))
           /\ Width(s, w).vw = w /\ Width(s, w).vis = s.vis
           /\ Width(s, w).vx = 0 /\ Width(s, w).vy = 0
           /\ Width(s, w).gx = 0 /\ Width(s, w).gy = 0
           /\ Width(s, w).xy = <<0, 0>> /\ Width(s, w).cont = {}
  <1> DEFINE t == [s EXCEPT !.vw = w]
  <1>1. t \in Screen /\ t.vw = w /\ t.vis = s.vis
    BY Zenon DEF Screen
  <1>2. Width(s, w) = Clear(t)
    BY DEF Width
  <1> HIDE DEF t
  <1> QED BY <1>1, <1>2, ClearFacts

(* scr_initx: the same at the start.                                       *)
LEMMA InitScreenFacts ==
    /\ Sound(InitScreen) /\ Mirror(InitScreen) /\ Fresh(InitScreen)
    /\ InitScreen.vw = MaxW /\ InitScreen.vx = 0 /\ InitScreen.vy = 0
    /\ InitScreen.gx = 0 /\ InitScreen.gy = 0 /\ InitScreen.xy = <<0, 0>>
    /\ InitScreen.vis = TRUE /\ InitScreen.cont = {}
  <1> DEFINE ch == [r \in Rows |-> [x \in Cols |-> Nul]]
             d == [r \in Rows |-> {}]
             s == [vw |-> MaxW, chr |-> ch, dirty |-> d, ldirty |-> {},
                   cont |-> {}, vx |-> 0, vy |-> 0, vis |-> TRUE,
                   xy |-> <<0, 0>>, px |-> 0, py |-> 0,
                   glass |-> BlankGlass, gx |-> 0, gy |-> 0]
  <1>1. /\ ch \in [Rows -> [Cols -> Cell]] /\ d \in [Rows -> SUBSET Cols]
        /\ BlankGlass \in [PRows -> [PCols -> Cell]]
        /\ {} \in SUBSET Rows /\ TRUE \in BOOLEAN /\ <<0, 0>> \in Byte \X Byte
    BY CharAssumption DEF Cell, BlankGlass, Byte
  <1>2. InitScreen = Clear(s)
    BY Zenon DEF InitScreen
  <1> HIDE DEF ch, d
  <1>3. s \in Screen /\ s.vw = MaxW /\ s.vis = TRUE
    BY <1>1, SizeFacts, Zenon DEF Screen
  <1> HIDE DEF s
  <1> QED BY <1>2, <1>3, ClearFacts

-----------------------------------------------------------------------------
(* The character codes, and the position calls.                            *)

(* scr_putch, whatever the code.                                           *)
LEMMA PutchFacts ==
    ASSUME NEW s, Sound(s), NEW c \in Code, NEW imm \in BOOLEAN
    PROVE  /\ Carries(s, Putch(s, c, imm))
           /\ imm /\ Fresh(s) /\ Mirror(s) => Fresh(Putch(s, c, imm))
           /\ Putch(s, c, imm) = s \/ Ended(Putch(s, c, imm), imm)
  <1> USE CharAssumption DEF Control
  <1>0. c \in Char \/ c \in Control
    BY DEF Code
  <1>1. CASE c = "cls"
    <2> DEFINE t == Clear(s)
    <2>1. Putch(s, c, imm) = t
      BY <1>1 DEF Putch
    <2>2. /\ Sound(t) /\ Mirror(t) /\ Fresh(t)
          /\ t.vw = s.vw /\ t.vis = s.vis /\ t.vx = 0 /\ t.vy = 0
          /\ t.gx = 0 /\ t.gy = 0 /\ t.xy = <<0, 0>> /\ t.cont = {}
      BY ClearFacts DEF Sound
    <2> HIDE DEF t
    <2>3. 0 < t.vw
      BY <2>2, SizeAssumption DEF Sound, Screen, Widths
    <2> QED BY <2>1, <2>2, <2>3, Zenon DEF Carries, Keeps, Ended
  <1>2. CASE c = "cr"
    <2>1. Putch(s, c, imm) = VCrlf(s, imm)
      BY <1>2 DEF Putch
    <2> QED BY <2>1, VCrlfFacts, Zenon
  <1>3. CASE c = "right"
    <2>1. Putch(s, c, imm) = VRight(s, imm)
      BY <1>3 DEF Putch
    <2> QED BY <2>1, VRightFacts, Zenon
  <1>4. CASE c = "left"
    <2>1. Putch(s, c, imm) = VLeft(s, imm)
      BY <1>4 DEF Putch
    <2> QED BY <2>1, VLeftFacts, Zenon
  <1>5. CASE c = "up"
    <2>1. Putch(s, c, imm) = VUp(s, imm)
      BY <1>5 DEF Putch
    <2> QED BY <2>1, VUpFacts, Zenon
  <1>6. CASE c = "down"
    <2>1. Putch(s, c, imm) = VDown(s, imm)
      BY <1>6 DEF Putch
    <2> QED BY <2>1, VDownFacts, Zenon
  <1>7. CASE c = "graph"
    <2>1. Putch(s, c, imm) = VPutc(s, Star, imm)
      BY <1>7 DEF Putch
    <2> QED BY <2>1, VPutcFacts, Zenon
  <1>8. CASE c \in Char
    <2>1. Putch(s, c, imm) = VPutc(s, c, imm)
      BY <1>8 DEF Putch
    <2> QED BY <1>8, <2>1, VPutcFacts, Zenon
  <1>9. CASE c = "ignored"
    <2>1. Putch(s, c, imm) = s
      BY <1>9 DEF Putch
    <2> QED BY <2>1, Zenon DEF Carries, Keeps
  <1> QED
    BY <1>0, <1>1, <1>2, <1>3, <1>4, <1>5, <1>6, <1>7, <1>8, <1>9

(* The screen with its cursor somewhere else.                              *)
Placed(s, y, x) == [s EXCEPT !.vy = y, !.vx = x]

(* Moving the virtual cursor changes nothing else of the screen.           *)
LEMMA PlacedFacts ==
    ASSUME NEW s \in Screen, NEW y \in Rows, NEW x \in Cols
    PROVE  LET t == Placed(s, y, x)
           IN /\ t \in Screen /\ SameTerminal(s, t) /\ t.vx = x /\ t.vy = y
              /\ t.vw = s.vw /\ t.vis = s.vis /\ t.chr = s.chr /\ t.xy = s.xy
              /\ t.dirty = s.dirty /\ t.ldirty = s.ldirty /\ t.cont = s.cont
  <1> DEFINE r == [s EXCEPT !.vy = y]
             t == Placed(s, y, x)
  <1>1. /\ r \in Screen /\ SameTerminal(s, r) /\ r.vy = y
        /\ r.vw = s.vw /\ r.vis = s.vis /\ r.chr = s.chr /\ r.xy = s.xy
        /\ r.dirty = s.dirty /\ r.ldirty = s.ldirty /\ r.cont = s.cont
    BY Zenon DEF Screen, SameTerminal
  <1>2. t = [r EXCEPT !.vx = x]
    BY Zenon DEF Screen, Placed
  <1> HIDE DEF r, t
  <1>3. /\ t \in Screen /\ SameTerminal(r, t) /\ t.vx = x /\ t.vy = r.vy
        /\ t.vw = r.vw /\ t.vis = r.vis /\ t.chr = r.chr /\ t.xy = r.xy
        /\ t.dirty = r.dirty /\ t.ldirty = r.ldirty /\ t.cont = r.cont
    BY <1>1, <1>2, Zenon DEF Screen, SameTerminal
  <1> QED BY <1>1, <1>3, Zenon DEF SameTerminal, t

(* Showing the cursor at once sends it to its place if it is visible.      *)
LEMMA ShowNow ==
    ASSUME NEW t
    PROVE  Show(t, TRUE) = IF t.vis THEN Pmove(t, t.vy, t.vx) ELSE t
  BY Zenon DEF Show

(* A position of the screen #WIDTH describes: its column is taken over if  *)
(* the screen has it, and is the one right of the screen otherwise.        *)
LEMMA LocateFacts ==
    ASSUME NEW s, Sound(s), NEW y \in Rows, NEW x \in 0 .. MaxW - 1
    PROVE  /\ Sound(Locate(s, y, x))
           /\ Mirror(s) => Mirror(Locate(s, y, x))
           /\ Fresh(s) => Fresh(Locate(s, y, x))
           /\ Locate(s, y, x).vw = s.vw /\ Locate(s, y, x).vis = s.vis
           /\ Locate(s, y, x).vy = y
           /\ Locate(s, y, x).vx = IF x < s.vw THEN x ELSE s.vw
           /\ Locate(s, y, x).xy = s.xy /\ Locate(s, y, x).cont = s.cont
           /\ s.vis => /\ Locate(s, y, x).gx = Locate(s, y, x).vx
                       /\ Locate(s, y, x).gy = Locate(s, y, x).vy
  <1> DEFINE a == IF x < s.vw THEN x ELSE s.vw
             t == Placed(s, y, a)
             u == Show(t, TRUE)
  <1>1. /\ s \in Screen /\ s.vw \in 1 .. MaxW /\ y \in Rows
    BY SizeFacts DEF Sound, Screen
  <1>2. Fix(x, s.vw) = a /\ Fix(y, VH) = y /\ a \in Cols /\ a < MaxW
    BY <1>1, SizeAssumption DEF Fix, Rows, Cols
  <1> HIDE DEF a
  <1>3. Locate(s, y, x) = IF s.vis THEN Pmove(t, t.vy, t.vx) ELSE t
    <2>1. Locate(s, y, x) =
             LET v == Placed(s, Fix(y, VH), Fix(x, s.vw))
             IN  IF s.vis THEN Pmove(v, v.vy, v.vx) ELSE v
      BY Zenon DEF Locate, Placed
    <2>2. Placed(s, Fix(y, VH), Fix(x, s.vw)) = t
      BY <1>2, Zenon
    <2> QED BY <2>1, <2>2, Zenon
  <1>4. /\ t \in Screen /\ SameTerminal(s, t) /\ t.vx = a /\ t.vy = y
        /\ t.vw = s.vw /\ t.vis = s.vis /\ t.chr = s.chr /\ t.xy = s.xy
        /\ t.dirty = s.dirty /\ t.ldirty = s.ldirty /\ t.cont = s.cont
    BY <1>1, <1>2, PlacedFacts
  <1> HIDE DEF t
  <1>5. Locate(s, y, x) = u
    BY <1>3, <1>4, ShowNow, Zenon
  <1>6. Sound(t)
    BY <1>2, <1>4, SoundMoved
  <1>7. (Mirror(s) => Mirror(t)) /\ (Fresh(s) => Fresh(t))
    BY <1>4, SameDisplay, Zenon DEF SameTerminal
  <1>8. /\ Carries(t, u) /\ (Fresh(t) => Fresh(u)) /\ SameVirtual(t, u)
        /\ t.vis => u.gx = t.vx /\ u.gy = t.vy
    BY <1>6, ShowFacts
  <1> HIDE DEF u
  <1> QED
    BY <1>4, <1>5, <1>6, <1>7, <1>8, Zenon DEF Carries, SameVirtual, a

(* scr_visible puts the cursor back where it belongs.                      *)
LEMMA VisibleFacts ==
    ASSUME NEW s, Sound(s), s.vis => s.gx = s.vx /\ s.gy = s.vy
    PROVE  /\ Sound(Visible(s))
           /\ Mirror(s) => Mirror(Visible(s))
           /\ Fresh(s) => Fresh(Visible(s))
           /\ Visible(s).vw = s.vw /\ Visible(s).vx = s.vx
           /\ Visible(s).xy = s.xy /\ Visible(s).vy = s.vy
           /\ Visible(s).cont = s.cont /\ Visible(s).vis = TRUE
           /\ Visible(s).gx = s.vx /\ Visible(s).gy = s.vy
  <1>1. CASE s.vis
    BY <1>1, Zenon DEF Visible
  <1>2. CASE ~s.vis
    <2> DEFINE t == [s EXCEPT !.vis = TRUE]
               u == Show(t, TRUE)
    <2>1. /\ t \in Screen /\ SameTerminal(s, t) /\ t.vx = s.vx /\ t.vy = s.vy
          /\ t.vw = s.vw /\ t.vis = TRUE /\ t.chr = s.chr /\ t.xy = s.xy
          /\ t.dirty = s.dirty /\ t.ldirty = s.ldirty /\ t.cont = s.cont
      BY Zenon DEF Sound, Screen, SameTerminal
    <2>2. Visible(s) = Pmove(t, s.vy, s.vx)
      BY <1>2, Zenon DEF Visible
    <2> HIDE DEF t
    <2>3. Visible(s) = u
      BY <2>1, <2>2, ShowNow, Zenon
    <2>4. Sound(t)
      <3>1. t.vx < MaxW
        BY <2>1 DEF Sound
      <3> QED BY <2>1, <3>1, SoundMoved
    <2>5. (Mirror(s) => Mirror(t)) /\ (Fresh(s) => Fresh(t))
      BY <2>1, SameDisplay, Zenon DEF SameTerminal
    <2>6. /\ Carries(t, u) /\ (Fresh(t) => Fresh(u)) /\ SameVirtual(t, u)
          /\ t.vis => u.gx = t.vx /\ u.gy = t.vy
      BY <2>4, ShowFacts
    <2> HIDE DEF u
    <2> QED BY <2>1, <2>3, <2>5, <2>6, Zenon DEF Carries, SameVirtual
  <1> QED BY <1>1, <1>2

(* scr_invisible moves nothing.                                            *)
LEMMA InvisibleFacts ==
    ASSUME NEW s, Sound(s)
    PROVE  /\ Sound(Invisible(s))
           /\ Mirror(s) => Mirror(Invisible(s))
           /\ Fresh(s) => Fresh(Invisible(s))
           /\ Invisible(s).vw = s.vw /\ Invisible(s).vx = s.vx
           /\ Invisible(s).xy = s.xy /\ Invisible(s).vy = s.vy
           /\ Invisible(s).vis = FALSE /\ Invisible(s).cont = s.cont
  <1> DEFINE t == Invisible(s)
  <1>1. /\ t \in Screen /\ SameTerminal(s, t) /\ t.vx = s.vx /\ t.vy = s.vy
        /\ t.vw = s.vw /\ t.vis = FALSE /\ t.chr = s.chr /\ t.xy = s.xy
        /\ t.dirty = s.dirty /\ t.ldirty = s.ldirty /\ t.cont = s.cont
    BY Zenon DEF Sound, Screen, SameTerminal, Invisible
  <1> HIDE DEF t
  <1>2. t.vx < MaxW /\ t.glass = s.glass
    BY <1>1 DEF Sound, SameTerminal
  <1>3. Sound(t)
    BY <1>1, <1>2, SoundMoved
  <1>4. (Mirror(s) => Mirror(t)) /\ (Fresh(s) => Fresh(t))
    BY <1>1, <1>2, SameDisplay
  <1> QED BY <1>1, <1>3, <1>4, Zenon DEF t
=============================================================================
