---------------------------- MODULE ConsoleProofs ----------------------------
(***************************************************************************)
(* Theorems about Console for every size of the screen, the terminal and   *)
(* the alphabet.  For each operator of ScreenOps there is one lemma: what  *)
(* it keeps of a screen.  The theorems at the end put them together.       *)
(***************************************************************************)
EXTENDS Console, ScreenProofs

-----------------------------------------------------------------------------
(* The invariant.                                                          *)

(* The initial state satisfies the invariant.                              *)
LEMMA InitIInv == Init => IInv
  <1> SUFFICES ASSUME Init PROVE IInv
    OBVIOUS
  <1>1. /\ scr = InitScreen /\ width = MaxW /\ phase = "idle" /\ todo = 0
    BY DEF Init
  <1>2. TypeOK
    BY <1>1, InitScreenFacts, SizeFacts DEF TypeOK, Sound
  <1>3. scr.vx < scr.vw /\ scr.vw <= width
    BY <1>1, InitScreenFacts, SizeAssumption
  <1>4. scr.xy = <<scr.vx, scr.vy>> /\ scr.gx = scr.vx /\ scr.gy = scr.vy
    BY <1>1, InitScreenFacts
  <1>5. LastRowNotJoined
    BY <1>1, InitScreenFacts DEF LastRowNotJoined
  <1> QED BY <1>1, <1>2, <1>3, <1>4, <1>5, InitScreenFacts DEF IInv

(* A call of one character keeps the invariant: it carries the screen over *)
(* and ends with the cursor and its bytes in place.                        *)
LEMMA OneCall ==
    ASSUME IInv, phase = "idle", UNCHANGED <<width, phase, todo>>,
           Carries(scr, scr'), Fresh(scr'), scr' = scr \/ Ended(scr', TRUE)
    PROVE  IInv'
  <1>1. /\ Sound(scr') /\ Mirror(scr') /\ scr'.vw = scr.vw
        /\ scr'.vis = scr.vis /\ (scr.vx < scr.vw => scr'.vx < scr'.vw)
        /\ LastRowNotJoined'
    BY DEF IInv, Carries, Keeps, LastRowNotJoined
  <1>2. TypeOK'
    BY <1>1 DEF IInv, TypeOK, Sound
  <1>3. /\ (width = scr.vw)' => scr'.vx < scr'.vw /\ scr'.xy = <<scr'.vx, scr'.vy>>
        /\ scr'.vw <= width'
        /\ scr'.vis => scr'.gx = scr'.vx /\ scr'.gy = scr'.vy
    BY <1>1 DEF IInv, Ended
  <1> QED BY <1>1, <1>2, <1>3, Zenon
    DEF IInv, Sound, Mirror, Fresh, ScreenCols, LastRowNotJoined

(* A character of a longer call keeps it too: the terminal may lag behind. *)
LEMMA OnePut ==
    ASSUME IInv, phase # "idle", UNCHANGED <<width, phase>>, todo' \in Nat,
           Carries(scr, scr'), scr' = scr \/ Ended(scr', FALSE)
    PROVE  IInv'
  <1>1. /\ Sound(scr') /\ Mirror(scr') /\ scr'.vw = scr.vw
        /\ (scr.vx < scr.vw => scr'.vx < scr'.vw) /\ LastRowNotJoined'
    BY DEF IInv, Carries, Keeps, LastRowNotJoined
  <1>2. TypeOK'
    BY <1>1 DEF IInv, TypeOK, Sound
  <1>3. /\ (width = scr.vw)' => scr'.vx < scr'.vw /\ scr'.xy = <<scr'.vx, scr'.vy>>
        /\ scr'.vw <= width'
    BY <1>1 DEF IInv, Ended
  <1> QED BY <1>1, <1>2, <1>3, Zenon
    DEF IInv, Sound, Mirror, Fresh, ScreenCols, LastRowNotJoined

(* And so does the flush at the end of one.                                *)
LEMMA OneSync ==
    ASSUME IInv, scr' = Flush(scr), phase' = "idle", todo' \in Nat,
           UNCHANGED width
    PROVE  IInv'
  <1>1. /\ Carries(scr, scr') /\ Fresh(scr')
        /\ scr'.vx = scr.vx /\ scr'.vy = scr.vy /\ scr'.xy = scr.xy
        /\ scr'.gx = scr.vx /\ scr'.gy = scr.vy
    BY FlushFacts DEF IInv
  <1>2. /\ Sound(scr') /\ Mirror(scr') /\ scr'.vw = scr.vw
        /\ LastRowNotJoined'
    BY <1>1 DEF IInv, Carries, Keeps, LastRowNotJoined
  <1>3. TypeOK'
    BY <1>2 DEF IInv, TypeOK, Sound
  <1>4. /\ (width = scr.vw)' => scr'.vx < scr'.vw /\ scr'.xy = <<scr'.vx, scr'.vy>>
        /\ scr'.vw <= width'
    BY <1>1, <1>2 DEF IInv
  <1> QED BY <1>1, <1>2, <1>3, <1>4, Zenon
    DEF IInv, Sound, Mirror, Fresh, ScreenCols, LastRowNotJoined

(* A call that puts the cursor somewhere keeps the invariant if, on a      *)
(* screen as wide as #WIDTH says, that is a place of the screen.           *)
LEMMA OnePlace ==
    ASSUME IInv, UNCHANGED <<phase, todo>>, width' \in Widths,
           Sound(scr'), Mirror(scr'), Fresh(scr'), LastRowNotJoined',
           scr'.vw <= width',
           width' = scr'.vw => scr'.vx < scr'.vw /\ scr'.xy = <<scr'.vx, scr'.vy>>,
           scr'.vis => scr'.gx = scr'.vx /\ scr'.gy = scr'.vy
    PROVE  IInv'
  <1>1. TypeOK'
    BY DEF IInv, TypeOK, Sound
  <1> QED BY <1>1, Zenon
    DEF IInv, Sound, Mirror, Fresh, ScreenCols, LastRowNotJoined

(* #LOC keeps the invariant: an accepted position is on the screen if      *)
(* #WIDTH is its width.                                                    *)
LEMMA LocCallKeepsIInv ==
    ASSUME IInv, NEW y \in Rows, NEW x \in 0 .. MaxW - 1, LocCall(y, x)
    PROVE  IInv'
  <1> DEFINE t == Locate(scr, y, x)
             u == XySync(t)
  <1>1. /\ phase = "idle" /\ x < width /\ scr' = u
        /\ UNCHANGED <<width, phase, todo>>
    BY DEF LocCall, LocAccepts, Loc
  <1>2. /\ Sound(scr) /\ Mirror(scr) /\ Fresh(scr) /\ scr.vw <= width
        /\ width \in Widths /\ VH - 1 \notin scr.cont
    BY <1>1 DEF IInv, TypeOK, LastRowNotJoined
  <1>3. /\ Sound(t) /\ Mirror(t) /\ Fresh(t) /\ t.vw = scr.vw /\ t.vis = scr.vis
        /\ t.cont = scr.cont
        /\ t.vx = (IF x < scr.vw THEN x ELSE scr.vw)
        /\ t.vis => t.gx = t.vx /\ t.gy = t.vy
    BY <1>2, LocateFacts
  <1> HIDE DEF t
  <1>4. /\ Sound(u) /\ Mirror(u) /\ Fresh(u)
    BY <1>3, XySyncCarries DEF Carries
  <1>5. /\ u.vw = scr.vw /\ u.xy = <<u.vx, u.vy>> /\ u.vis = scr.vis
        /\ u.vx = t.vx /\ u.vy = t.vy /\ u.gx = t.gx /\ u.gy = t.gy
        /\ u.cont = t.cont
    BY <1>3, XySyncFacts DEF Sound, SameTerminal
  <1> HIDE DEF u
  <1>6. width = u.vw => u.vx < u.vw
    BY <1>1, <1>3, <1>5
  <1>7. u.vis => u.gx = u.vx /\ u.gy = u.vy
    BY <1>3, <1>5, Zenon
  <1>8. LastRowNotJoined'
    BY <1>1, <1>2, <1>3, <1>5 DEF LastRowNotJoined
  <1> QED BY <1>1, <1>2, <1>4, <1>5, <1>6, <1>7, <1>8, OnePlace

(* Storing a position of the screen #WIDTH describes, one byte at a time.  *)
LEMMA PokeKeepsIInv ==
    ASSUME IInv, phase = "idle", UNCHANGED <<width, phase, todo>>,
           NEW y \in Rows, NEW x \in 0 .. MaxW - 1, x < width \/ x = scr.vx,
           NEW b \in Byte \X Byte,
           width = scr.vw => b = <<x, y>>,
           scr' = Locate([scr EXCEPT !.xy = b], y, x)
    PROVE  IInv'
  <1> DEFINE s == [scr EXCEPT !.xy = b]
             t == Locate(s, y, x)
  <1>1. scr \in Screen
    BY DEF IInv, Sound
  <1>2. /\ s \in Screen /\ SameTerminal(scr, s) /\ s.vx = scr.vx /\ s.vy = scr.vy
        /\ s.vw = scr.vw /\ s.vis = scr.vis /\ s.chr = scr.chr /\ s.xy = b
        /\ s.dirty = scr.dirty /\ s.ldirty = scr.ldirty /\ s.cont = scr.cont
    BY <1>1, Zenon DEF Screen, SameTerminal
  <1> HIDE DEF s
  <1>3. Sound(s)
    <2>1. Sound(scr) /\ s.vx < MaxW
      BY <1>2 DEF IInv, Sound
    <2> QED BY <1>2, <2>1, SoundMoved
  <1>4. Mirror(s) /\ Fresh(s)
    BY <1>2, SameDisplay, Zenon DEF SameTerminal, IInv
  <1>5. /\ Sound(t) /\ Mirror(t) /\ Fresh(t) /\ t.vw = scr.vw /\ t.vis = scr.vis
        /\ t.vx = (IF x < scr.vw THEN x ELSE scr.vw) /\ t.vy = y /\ t.xy = b
        /\ t.cont = s.cont
        /\ t.vis => t.gx = t.vx /\ t.gy = t.vy
    BY <1>2, <1>3, <1>4, LocateFacts
  <1>6. scr' = t
    BY Zenon DEF s
  <1> HIDE DEF t
  <1>7. scr.vw <= width /\ width \in Widths
    BY DEF IInv, TypeOK
  <1>8. width = scr.vw => x < scr.vw
    BY <1>7 DEF IInv
  <1>9. width = t.vw => t.vx < t.vw /\ t.xy = <<t.vx, t.vy>>
    BY <1>5, <1>8
  <1>10. LastRowNotJoined'
    BY <1>2, <1>5, <1>6 DEF IInv, LastRowNotJoined
  <1> QED BY <1>5, <1>6, <1>7, <1>9, <1>10, OnePlace

(* A store to XYADR keeps it,                                              *)
LEMMA PokeXKeepsIInv ==
    ASSUME IInv, NEW x \in 0 .. MaxW - 1, PokeX(x)
    PROVE  IInv'
  <1> DEFINE b == [scr.xy EXCEPT ![1] = x]
  <1>1. scr \in Screen /\ scr.xy \in Byte \X Byte /\ scr.vy \in Rows
    BY DEF IInv, Sound, Screen
  <1>2. x \in Byte
    BY SizeAssumption DEF Byte
  <1>3. b \in Byte \X Byte /\ b = <<x, scr.xy[2]>>
    BY <1>1, <1>2
  <1>4. width = scr.vw => b = <<x, scr.vy>>
    BY <1>3 DEF IInv
  <1>5. /\ phase = "idle" /\ x < width /\ UNCHANGED <<width, phase, todo>>
        /\ scr' = Locate([scr EXCEPT !.xy = b], scr.vy, x)
    BY Zenon DEF PokeX
  <1> HIDE DEF b
  <1> QED BY <1>1, <1>3, <1>4, <1>5, PokeKeepsIInv

(* and a store to XYADR + 1.                                               *)
LEMMA PokeYKeepsIInv ==
    ASSUME IInv, NEW y \in Rows, PokeY(y)
    PROVE  IInv'
  <1> DEFINE b == [scr.xy EXCEPT ![2] = y]
  <1>1. /\ scr \in Screen /\ scr.xy \in Byte \X Byte
        /\ scr.vx \in Cols /\ scr.vx < MaxW
    BY DEF IInv, Sound, Screen
  <1>2. y \in Byte /\ scr.vx \in 0 .. MaxW - 1
    BY <1>1, SizeAssumption DEF Byte, Rows, Cols
  <1>3. b \in Byte \X Byte /\ b = <<scr.xy[1], y>>
    BY <1>1, <1>2
  <1>4. width = scr.vw => b = <<scr.vx, y>>
    BY <1>3 DEF IInv
  <1>5. /\ phase = "idle" /\ UNCHANGED <<width, phase, todo>>
        /\ scr' = Locate([scr EXCEPT !.xy = b], y, scr.vx)
    BY Zenon DEF PokeY
  <1> HIDE DEF b
  <1> QED BY <1>2, <1>3, <1>4, <1>5, PokeKeepsIInv

(* #WIDCH keeps it: screen and #WIDTH change together.                     *)
LEMMA WidchKeepsIInv ==
    ASSUME IInv, NEW w \in Widths, Widch(w)
    PROVE  IInv'
  <1>1. /\ scr \in Screen /\ scr' = Width(scr, w) /\ width' = w
        /\ UNCHANGED <<phase, todo>>
    BY DEF IInv, Sound, Widch
  <1>2. w \in 1 .. MaxW
    BY SizeFacts
  <1>3. LastRowNotJoined'
    BY <1>1, WidthFacts DEF LastRowNotJoined
  <1> QED BY <1>1, <1>2, <1>3, WidthFacts, OnePlace

(* After a cold start #WIDTH may say more columns than the screen has, and *)
(* never fewer.                                                            *)
LEMMA ColdKeepsIInv ==
    ASSUME IInv, Cold
    PROVE  IInv'
  <1>1. /\ phase = "idle" /\ width' = MaxW /\ UNCHANGED <<scr, phase, todo>>
    BY DEF Cold
  <1>2. /\ Sound(scr') /\ Mirror(scr') /\ Fresh(scr')
        /\ scr'.vis => scr'.gx = scr'.vx /\ scr'.gy = scr'.vy
        /\ LastRowNotJoined'
    BY <1>1 DEF IInv, Sound, Mirror, Fresh, ScreenCols, LastRowNotJoined
  <1>3. width \in Widths /\ scr.vw <= width /\ scr.vw \in Widths
    BY DEF IInv, TypeOK, Screen
  <1>4. MaxW \in Widths /\ scr.vw <= MaxW /\ (MaxW = scr.vw => width = MaxW)
    BY <1>3, SizeAssumption DEF Widths
  <1>5. width' = scr'.vw => scr'.vx < scr'.vw /\ scr'.xy = <<scr'.vx, scr'.vy>>
    BY <1>1, <1>4 DEF IInv
  <1> QED BY <1>1, <1>2, <1>4, <1>5, OnePlace

(* Turning the cursor on and off keeps it.                                 *)
LEMMA ShowHideKeepsIInv ==
    ASSUME IInv, ShowCursor \/ HideCursor
    PROVE  IInv'
  <1>1. /\ phase = "idle" /\ UNCHANGED <<width, phase, todo>>
    BY DEF ShowCursor, HideCursor
  <1>2. /\ Sound(scr) /\ Mirror(scr) /\ Fresh(scr) /\ width \in Widths
        /\ scr.vis => scr.gx = scr.vx /\ scr.gy = scr.vy
        /\ VH - 1 \notin scr.cont
    BY <1>1 DEF IInv, TypeOK, LastRowNotJoined
  <1>3. CASE ShowCursor
    <2>1. scr' = Visible(scr)
      BY <1>3 DEF ShowCursor
    <2>2. /\ Sound(scr') /\ Mirror(scr') /\ Fresh(scr')
          /\ scr'.vw = scr.vw /\ scr'.vx = scr.vx /\ scr'.vy = scr.vy
          /\ scr'.xy = scr.xy /\ scr'.gx = scr.vx /\ scr'.gy = scr.vy
          /\ LastRowNotJoined'
      BY <1>2, <2>1, VisibleFacts DEF LastRowNotJoined
    <2> QED BY <1>1, <1>2, <2>2, OnePlace DEF IInv
  <1>4. CASE HideCursor
    <2>1. scr' = Invisible(scr)
      BY <1>4 DEF HideCursor
    <2>2. /\ Sound(scr') /\ Mirror(scr') /\ Fresh(scr')
          /\ scr'.vw = scr.vw /\ scr'.vx = scr.vx /\ scr'.vy = scr.vy
          /\ scr'.xy = scr.xy /\ scr'.vis = FALSE /\ LastRowNotJoined'
      BY <1>2, <2>1, InvisibleFacts DEF LastRowNotJoined
    <2> QED BY <1>1, <1>2, <2>2, OnePlace DEF IInv
  <1> QED BY <1>3, <1>4

(* A character between two calls, and the line feeds.                      *)
LEMMA PrintKeepsIInv ==
    ASSUME IInv, NEW c \in Code, PutChar(c) \/ NewLine
    PROVE  IInv'
  <1>1. /\ phase = "idle" /\ UNCHANGED <<width, phase, todo>>
    BY DEF PutChar, NewLine
  <1>2. Sound(scr) /\ Mirror(scr) /\ Fresh(scr)
    BY <1>1 DEF IInv
  <1>3. CASE PutChar(c)
    <2>1. scr' = Putch(scr, c, TRUE)
      BY <1>3 DEF PutChar
    <2> QED BY <1>1, <1>2, <2>1, PutchFacts, OneCall
  <1>4. CASE NewLine
    <2>1. scr' = VCrlf(scr, TRUE)
      BY <1>4 DEF NewLine
    <2> QED BY <1>1, <1>2, <2>1, VCrlfFacts, OneCall
  <1> QED BY <1>3, <1>4

(* The steps of a longer call.                                             *)
LEMMA LongCallKeepsIInv ==
    ASSUME IInv,
           \/ StringStart \/ StringSync \/ TabPut \/ TabSync
           \/ \E c \in Code : StringPut(c)
           \/ \E x \in 0 .. MaxTab : Tab(x)
    PROVE  IInv'
  <1>1. /\ Sound(scr) /\ Mirror(scr) /\ TypeOK /\ todo \in Nat
        /\ scr.vx \in Nat
    BY SizeAssumption DEF IInv, TypeOK, Sound, Screen, Cols
  <1>2. CASE StringStart \/ \E x \in 0 .. MaxTab : Tab(x)
    <2>1. UNCHANGED <<scr, width>> /\ phase' \in {"string", "tab"}
      BY <1>2 DEF StringStart, Tab
    <2>2. todo' \in Nat
      <3>1. CASE StringStart
        BY <3>1, BoundAssumption DEF StringStart
      <3>2. CASE \E x \in 0 .. MaxTab : Tab(x)
        BY <1>1, <3>2, BoundAssumption DEF Tab
      <3> QED BY <1>2, <3>1, <3>2
    <2>3. /\ Sound(scr') /\ Mirror(scr') /\ TypeOK' /\ phase' # "idle"
      BY <1>1, <2>1, <2>2 DEF TypeOK, Sound, Mirror, ScreenCols
    <2> QED BY <2>1, <2>3 DEF IInv, LastRowNotJoined
  <1>3. CASE \E c \in Code : StringPut(c)
    <2>1. PICK c \in Code : StringPut(c)
      BY <1>3
    <2>2. /\ scr' = Putch(scr, c, FALSE) /\ phase # "idle"
          /\ todo' \in Nat /\ UNCHANGED <<width, phase>>
      BY <1>1, <2>1 DEF StringPut
    <2> QED BY <1>1, <2>2, PutchFacts, OnePut
  <1>4. CASE TabPut
    <2>1. /\ scr' = Putch(scr, Blank, FALSE) /\ phase # "idle"
          /\ todo' \in Nat /\ UNCHANGED <<width, phase>>
      BY <1>1, <1>4 DEF TabPut
    <2> QED BY <1>1, <2>1, PutchFacts, OnePut, CharAssumption DEF Code
  <1>5. CASE StringSync \/ TabSync
    <2>1. /\ scr' = Flush(scr) /\ phase' = "idle" /\ todo' \in Nat
          /\ UNCHANGED width
      BY <1>1, <1>5 DEF StringSync, TabSync
    <2> QED BY <2>1, OneSync
  <1> QED BY <1>2, <1>3, <1>4, <1>5

(* Every step keeps the invariant.                                         *)
LEMMA StepIInv == IInv /\ [Next]_vars => IInv'
  <1> SUFFICES ASSUME IInv, [Next]_vars PROVE IInv'
    OBVIOUS
  <1>1. CASE \E c \in Code : PutChar(c) \/ StringPut(c)
    BY <1>1, PrintKeepsIInv, LongCallKeepsIInv
  <1>2. CASE NewLine
    BY <1>2, PrintKeepsIInv DEF Code, Control
  <1>3. CASE StringStart \/ StringSync \/ TabPut \/ TabSync
    BY <1>3, LongCallKeepsIInv
  <1>4. CASE \E x \in 0 .. MaxTab : Tab(x)
    BY <1>4, LongCallKeepsIInv
  <1>5. CASE \E y \in Rows, x \in 0 .. MaxW - 1 : LocCall(y, x)
    BY <1>5, LocCallKeepsIInv
  <1>6. CASE \E x \in 0 .. MaxW - 1 : PokeX(x)
    BY <1>6, PokeXKeepsIInv
  <1>7. CASE \E y \in Rows : PokeY(y)
    BY <1>7, PokeYKeepsIInv
  <1>8. CASE \E w \in Widths : Widch(w)
    BY <1>8, WidchKeepsIInv
  <1>9. CASE Cold
    BY <1>9, ColdKeepsIInv
  <1>10. CASE ShowCursor \/ HideCursor
    BY <1>10, ShowHideKeepsIInv
  <1>11. CASE UNCHANGED vars
    BY <1>11
    DEF vars, IInv, TypeOK, LastRowNotJoined, Sound, Mirror, Fresh, Tracked,
        ScreenCols
  <1> QED
    BY <1>1, <1>2, <1>3, <1>4, <1>5, <1>6, <1>7, <1>8, <1>9, <1>10, <1>11
    DEF Next

-----------------------------------------------------------------------------
(* The theorems.                                                           *)

(* The inductive invariant holds in every reachable state, whatever the    *)
(* calls, the sizes and the alphabet.                                      *)
THEOREM Invariant == Spec => []IInv
  <1> QED BY InitIInv, StepIInv, PTL DEF Spec

(* Every reachable screen is one: the cells, marks, cursor and terminal    *)
(* stay in the ranges that the arrays of screen.c have.                    *)
THEOREM TypeCorrect == Spec => []TypeOK
  <1>1. IInv => TypeOK
    BY DEF IInv
  <1> QED BY Invariant, <1>1, PTL

(* While #WIDTH is the width of the screen, scr_vputc is never called with *)
(* the cursor right of it.                                                 *)
THEOREM CursorStaysOnScreen == Spec => []CursorOnScreen
  <1>1. IInv => CursorOnScreen
    BY DEF IInv, CursorOnScreen
  <1> QED BY Invariant, <1>1, PTL

(* While #WIDTH is the width of the screen, the bytes at XYADR are the     *)
(* cursor, after every call and between the characters of a string.        *)
THEOREM XyStaysInSync == Spec => []XyInSync
  <1>1. IInv => XyInSync
    BY DEF IInv, XyInSync
  <1> QED BY Invariant, <1>1, PTL

(* The cursor of the terminal is where scr_px and scr_py say, and between  *)
(* calls a visible one is where the virtual cursor is: no scr_pmove that   *)
(* is skipped was needed.                                                  *)
THEOREM CursorIsTracked == Spec => []CursorTracked
  <1>1. IInv => CursorTracked
    BY DEF IInv, CursorTracked, Sound
  <1> QED BY Invariant, <1>1, PTL

(* Whatever the terminal does not show is marked for scr_flush, and        *)
(* between calls the terminal shows the whole virtual screen.              *)
THEOREM ScreenIsMirrored == Spec => []ScreenMirrored
  <1>1. ASSUME IInv PROVE ScreenMirrored
    <2>1. ASSUME NEW p \in Stale(scr)
          PROVE  /\ p[1] \in scr.ldirty /\ p[2] \in scr.dirty[p[1]]
                 /\ phase # "idle"
      <3>1. /\ p[1] \in Rows /\ p[2] \in ScreenCols(scr)
            /\ scr.glass[p[1]][p[2]] # scr.chr[p[1]][p[2]]
        BY <2>1 DEF Stale
      <3> QED BY <1>1, <3>1, Zenon DEF IInv, Mirror, Fresh
    <2> QED BY <2>1 DEF ScreenMirrored
  <1> QED BY Invariant, <1>1, PTL

(* The flags of the last row, which scr_scroll does not reset, never say   *)
(* that it goes on below the screen.                                       *)
THEOREM LastRowStaysFree == Spec => []LastRowNotJoined
  <1>1. IInv => LastRowNotJoined
    BY DEF IInv
  <1> QED BY Invariant, <1>1, PTL

(* A line feed leaves the cursor in column 0 of a row the row above does   *)
(* not go on in, however many rows were joined and whether it scrolled.    *)
THEOREM FeedsStartLines == Spec => FeedStartsLine
  <1>1. IInv /\ [Next]_vars =>
          [(PutChar("cr") \/ NewLine) =>
              scr'.vx = 0 /\ (scr'.vy - 1) \notin scr'.cont]_vars
    <2>1. ASSUME IInv, PutChar("cr") \/ NewLine
          PROVE  scr'.vx = 0 /\ (scr'.vy - 1) \notin scr'.cont
      <3>1. scr' = VCrlf(scr, TRUE)
        BY <2>1, CharAssumption DEF PutChar, NewLine, Putch, Control
      <3>2. Sound(scr) /\ VH - 1 \notin scr.cont
        BY <2>1 DEF IInv, LastRowNotJoined
      <3> QED BY <3>1, <3>2, VCrlfFacts
    <2> QED BY <2>1
  <1> QED BY Invariant, <1>1, PTL DEF Spec, FeedStartsLine

-----------------------------------------------------------------------------
(* Console implements Display: every call takes the step of Display that   *)
(* is named for it.  The lemmas say what each operator of ScreenOps does   *)
(* to the text, the cursor and the joins, the part of the screen a program *)
(* sees.                                                                   *)

(* The text of the screen; the text and the joins one row up.              *)
Text(s) == [r \in Rows |-> [x \in ScreenCols(s) |-> s.chr[r][x]]]

UpOne(s, T) == [r \in Rows |-> IF r < VH - 1 THEN T[r + 1]
                               ELSE [x \in ScreenCols(s) |-> Blank]]

RollOne(J) == {r \in 0 .. VH - 2 : r + 1 \in J}

(* A program does not see a difference between the two screens.            *)
Alike(s, t) ==
    /\ t.vw = s.vw /\ t.vx = s.vx /\ t.vy = s.vy /\ t.cont = s.cont
    /\ Text(t) = Text(s)

(* Screen t is what is left when the cursor goes to column x of the row    *)
(* after row y, on a screen like s with the text T and the joins J.        *)
Feeds(s, T, J, y, x, t) ==
    /\ t.vw = s.vw /\ t.vx = x
    /\ y + 1 < VH => Text(t) = T /\ t.cont = J /\ t.vy = y + 1
    /\ ~(y + 1 < VH) => Text(t) = UpOne(s, T) /\ t.cont = RollOne(J) /\ t.vy = y

(* Only the cursor has moved.                                              *)
Moves(s, y, x, t) ==
    /\ t.vw = s.vw /\ t.vx = x /\ t.vy = y /\ t.cont = s.cont
    /\ Text(t) = Text(s)

-----------------------------------------------------------------------------
(* The operators.                                                          *)

(* Screens with the same cells and width have the same text.               *)
LEMMA SameText ==
    ASSUME NEW s, NEW t, t.chr = s.chr, t.vw = s.vw
    PROVE  Text(t) = Text(s)
  BY Zenon DEF Text, ScreenCols

(* Showing the cursor and writing XYADR changes nothing a program sees.    *)
LEMMA EndAlike ==
    ASSUME NEW s, Sound(s), NEW imm \in BOOLEAN
    PROVE  Alike(s, XySync(Show(s, imm)))
  <1> DEFINE t == Show(s, imm)
             u == XySync(t)
  <1>1. SameVirtual(s, t) /\ t \in Screen
    BY ShowFacts DEF Carries, Sound
  <1> HIDE DEF t
  <1>2. /\ u.vw = t.vw /\ u.vx = t.vx /\ u.vy = t.vy
        /\ u.chr = t.chr /\ u.cont = t.cont
    BY <1>1, XySyncFacts
  <1> HIDE DEF u
  <1>3. Text(u) = Text(s)
    BY <1>1, <1>2, SameText DEF SameVirtual
  <1> QED BY <1>1, <1>2, <1>3, Zenon DEF SameVirtual, Alike, t, u

(* scr_scroll moves the text and the joins one row up.                     *)
LEMMA ScrollText ==
    ASSUME NEW s, Sound(s), VH - 1 \notin s.cont
    PROVE  /\ Text(Scroll(s)) = UpOne(s, Text(s))
           /\ Scroll(s).cont = RollOne(s.cont)
           /\ Scroll(s).vw = s.vw
           /\ Scroll(s) \in Screen
  <1> DEFINE t == Scroll(s)
             chr == [r \in Rows |-> IF r < VH - 1 THEN s.chr[r + 1]
                                    ELSE BlankLine(s, s.chr[0])]
  <1>1. /\ s \in Screen /\ s.chr \in [Rows -> [Cols -> Cell]]
        /\ VH - 1 \notin s.cont /\ 0 \in Rows
    BY SizeFacts DEF Sound, Screen
  <1>2. t \in Screen /\ t.vw = s.vw /\ t.cont = ShiftUp(s.cont)
    BY ScrollFacts DEF Carries, Sound, Keeps
  <1>3. t.chr = chr
    BY <1>1, Zenon DEF Scroll, Screen
  <1>4. ShiftUp(s.cont) = RollOne(s.cont)
    BY <1>1, SizeAssumption DEF ShiftUp, RollOne, Rows
  <1>5. ASSUME NEW r \in Rows
        PROVE  [x \in ScreenCols(t) |-> t.chr[r][x]] = UpOne(s, Text(s))[r]
    <2>1. CASE r < VH - 1
      <3>1. r + 1 \in Rows
        BY <2>1, SizeAssumption DEF Rows
      <3>2. t.chr[r] = s.chr[r + 1]
        BY <1>3, <2>1
      <3> HIDE DEF t
      <3> QED BY <1>2, <2>1, <3>1, <3>2 DEF UpOne, Text, ScreenCols
    <2>2. CASE ~(r < VH - 1)
      <3>1. s.chr[0] \in [Cols -> Cell]
        BY <1>1
      <3>2. t.chr[r] = BlankLine(s, s.chr[0])
        BY <1>3, <2>2
      <3>3. \A x \in ScreenCols(s) : t.chr[r][x] = Blank
        BY <1>1, <3>1, <3>2, BlankLineFacts
      <3> HIDE DEF t
      <3> QED BY <1>2, <2>2, <3>3 DEF UpOne, ScreenCols
    <2> QED BY <2>1, <2>2
  <1> HIDE DEF t
  <1>6. Text(t) = UpOne(s, Text(s))
    BY <1>5 DEF Text, UpOne
  <1> QED BY <1>2, <1>4, <1>6 DEF t

(* The row below, scrolled in if need be.                                  *)
LEMMA RowDownFeeds ==
    ASSUME NEW s, Sound(s), VH - 1 \notin s.cont
    PROVE  Feeds(s, Text(s), s.cont, s.vy, s.vx, RowDown(s))
  <1>1. s \in Screen /\ s.vy \in Rows
    BY DEF Sound, Screen
  <1>2. CASE s.vy + 1 < VH
    <2> DEFINE t == [s EXCEPT !.vy = s.vy + 1]
    <2>1. RowDown(s) = t
      BY <1>2 DEF RowDown
    <2>2. /\ t.vw = s.vw /\ t.vx = s.vx /\ t.vy = s.vy + 1 /\ t.cont = s.cont
          /\ t.chr = s.chr
      BY <1>1, Zenon DEF Screen
    <2> HIDE DEF t
    <2>3. Text(t) = Text(s)
      BY <2>2, SameText
    <2> QED BY <1>2, <2>1, <2>2, <2>3 DEF Feeds
  <1>3. CASE ~(s.vy + 1 < VH)
    <2> DEFINE u == Scroll(s)
               t == [u EXCEPT !.vy = VH - 1]
    <2>1. RowDown(s) = t
      BY <1>3, Zenon DEF RowDown
    <2>2. /\ u \in Screen /\ u.vw = s.vw /\ u.cont = RollOne(s.cont)
          /\ Text(u) = UpOne(s, Text(s)) /\ u.vx = s.vx
      BY ScrollText, ScrollFacts
    <2> HIDE DEF u
    <2>3. /\ t.vw = u.vw /\ t.vx = u.vx /\ t.vy = VH - 1 /\ t.cont = u.cont
          /\ t.chr = u.chr
      BY <2>2, Zenon DEF Screen
    <2> HIDE DEF t
    <2>4. Text(t) = Text(u)
      BY <2>3, SameText
    <2>5. s.vy = VH - 1
      BY <1>1, <1>3, SizeAssumption DEF Rows
    <2> QED BY <1>3, <2>1, <2>2, <2>3, <2>4, <2>5, Zenon DEF Feeds
  <1> QED BY <1>2, <1>3

(* What is fed is fed when the call has ended.                             *)
LEMMA EndFeeds ==
    ASSUME NEW s, NEW T, NEW J, NEW y, NEW x, NEW t, Sound(t),
           Feeds(s, T, J, y, x, t), NEW imm \in BOOLEAN
    PROVE  Feeds(s, T, J, y, x, XySync(Show(t, imm)))
  <1> DEFINE u == XySync(Show(t, imm))
  <1>1. Alike(t, u)
    BY EndAlike
  <1> HIDE DEF u
  <1> QED BY <1>1, Zenon DEF Alike, Feeds, u

(* What moves the cursor still does when it is shown and noted at XYADR.   *)
LEMMA EndMoves ==
    ASSUME NEW s, NEW y, NEW x, NEW t, Sound(t), Moves(s, y, x, t),
           NEW imm \in BOOLEAN
    PROVE  Moves(s, y, x, XySync(Show(t, imm)))
  <1> DEFINE u == XySync(Show(t, imm))
  <1>1. Alike(t, u)
    BY EndAlike
  <1> HIDE DEF u
  <1> QED BY <1>1, Zenon DEF Alike, Moves, u

(* scr_vdown.                                                              *)
LEMMA VDownFeeds ==
    ASSUME NEW s, Sound(s), VH - 1 \notin s.cont, NEW imm \in BOOLEAN
    PROVE  Feeds(s, Text(s), s.cont, s.vy, s.vx, VDown(s, imm))
  <1>1. Sound(RowDown(s))
    BY RowDownFacts DEF Carries
  <1> QED BY <1>1, RowDownFeeds, EndFeeds DEF VDown

(* A screen whose cursor alone differs.                                    *)
LEMMA CursorMoves ==
    ASSUME NEW s, Sound(s), NEW t, t \in Screen, SameTerminal(s, t),
           t.vw = s.vw, t.chr = s.chr, t.cont = s.cont, t.vx < MaxW
    PROVE  Sound(t) /\ Moves(s, t.vy, t.vx, t)
  <1>1. Text(t) = Text(s)
    BY SameText
  <1>2. Sound(t)
    BY Zenon DEF Sound, Tracked, SameTerminal, ScreenCols
  <1> QED BY <1>1, <1>2 DEF Moves

(* What a screen feeds after its cursor has moved.                         *)
LEMMA MovesThenFeeds ==
    ASSUME NEW s, NEW y, NEW x, NEW t, Moves(s, y, x, t),
           NEW u, Feeds(t, Text(t), t.cont, t.vy, t.vx, u)
    PROVE  Feeds(s, Text(s), s.cont, y, x, u)
  <1>1. UpOne(t, Text(s)) = UpOne(s, Text(s))
    BY Zenon DEF Moves, UpOne, ScreenCols
  <1> QED BY <1>1, Zenon DEF Moves, Feeds

(* scr_vright: to the right, or off the edge without a join.               *)
LEMMA VRightSteps ==
    ASSUME NEW s, Sound(s), VH - 1 \notin s.cont, NEW imm \in BOOLEAN
    PROVE  \/ s.vx + 1 < s.vw /\ Moves(s, s.vy, s.vx + 1, VRight(s, imm))
           \/ /\ s.vx + 1 >= s.vw
              /\ Feeds(s, Text(s), s.cont, s.vy, 0, VRight(s, imm))
  <1>1. s \in Screen /\ s.vx \in Cols /\ s.vw \in 1 .. MaxW /\ s.vx < MaxW
    BY SizeFacts DEF Sound, Screen
  <1> DEFINE a == IF s.vx + 1 < s.vw THEN s.vx + 1 ELSE 0
             u == [s EXCEPT !.vx = a]
  <1>2. a \in Cols /\ a < MaxW
    BY <1>1, SizeAssumption DEF Cols
  <1>3. VRight(s, imm) =
          XySync(Show(IF s.vx + 1 < s.vw THEN u ELSE RowDown(u), imm))
    BY DEF VRight
  <1> HIDE DEF a
  <1>4. /\ u \in Screen /\ SameTerminal(s, u) /\ u.vw = s.vw /\ u.chr = s.chr
        /\ u.cont = s.cont /\ u.vx = a /\ u.vy = s.vy
    BY <1>1, <1>2, Zenon DEF Screen, SameTerminal
  <1> HIDE DEF u
  <1>5. Sound(u) /\ Moves(s, s.vy, a, u)
    BY <1>2, <1>4, CursorMoves
  <1>6. CASE s.vx + 1 < s.vw
    BY <1>3, <1>5, <1>6, EndMoves DEF a
  <1>7. CASE ~(s.vx + 1 < s.vw)
    <2>1. Feeds(s, Text(s), s.cont, s.vy, a, RowDown(u))
      BY <1>4, <1>5, RowDownFeeds, MovesThenFeeds
    <2>2. Sound(RowDown(u))
      BY <1>5, RowDownFacts DEF Carries
    <2>3. Feeds(s, Text(s), s.cont, s.vy, a, XySync(Show(RowDown(u), imm)))
      BY <2>1, <2>2, EndFeeds
    <2>4. a = 0 /\ s.vx + 1 >= s.vw
      BY <1>1, <1>7 DEF a, Cols
    <2> QED BY <1>3, <1>7, <2>3, <2>4
  <1> QED BY <1>6, <1>7

(* scr_vleft: to the left, or to the end of the row above.                 *)
LEMMA VLeftSteps ==
    ASSUME NEW s, Sound(s), NEW imm \in BOOLEAN
    PROVE  \/ s.vx > 0 /\ Moves(s, s.vy, s.vx - 1, VLeft(s, imm))
           \/ /\ s.vx = 0 /\ s.vy > 0
              /\ Moves(s, s.vy - 1, s.vw - 1, VLeft(s, imm))
           \/ s.vx = 0 /\ s.vy = 0 /\ Moves(s, 0, 0, VLeft(s, imm))
  <1>0. /\ s \in Screen /\ s.vw \in 1 .. MaxW
        /\ s.vx \in Cols /\ s.vy \in Rows /\ s.vx < MaxW
    BY SizeFacts DEF Sound, Screen
  <1>1. /\ s \in Screen /\ s.vx \in Nat /\ s.vy \in Nat /\ s.vw \in 1 .. MaxW
        /\ s.vx \in Cols /\ s.vy \in Rows /\ s.vx < MaxW
    BY <1>0, SizeAssumption DEF Cols, Rows
  <1>2. CASE s.vx > 0
    <2> DEFINE a == s.vx - 1
               t == [s EXCEPT !.vx = a]
    <2>1. a \in Cols /\ a < MaxW
      BY <1>1, <1>2, SizeAssumption DEF Cols
    <2>2. VLeft(s, imm) = XySync(Show(t, imm))
      BY <1>2 DEF VLeft
    <2> HIDE DEF a
    <2>3. /\ t \in Screen /\ SameTerminal(s, t) /\ t.vw = s.vw /\ t.chr = s.chr
          /\ t.cont = s.cont /\ t.vx = a /\ t.vy = s.vy
      BY <1>1, <2>1, Zenon DEF Screen, SameTerminal
    <2> HIDE DEF t
    <2>4. Sound(t) /\ Moves(s, s.vy, a, t)
      BY <2>1, <2>3, CursorMoves
    <2> QED BY <1>2, <2>2, <2>4, EndMoves DEF a
  <1>3. CASE ~(s.vx > 0) /\ s.vy > 0
    <2> DEFINE a == s.vw - 1
               b == s.vy - 1
               t == [s EXCEPT !.vx = a, !.vy = b]
    <2>1. a \in Cols /\ a < MaxW /\ b \in Rows /\ s.vx = 0
      BY <1>1, <1>3, SizeAssumption DEF Cols, Rows
    <2>2. VLeft(s, imm) = XySync(Show(t, imm))
      BY <1>3 DEF VLeft
    <2> HIDE DEF a, b
    <2>3. /\ t \in Screen /\ SameTerminal(s, t) /\ t.vw = s.vw /\ t.chr = s.chr
          /\ t.cont = s.cont /\ t.vx = a /\ t.vy = b
      BY <1>1, <2>1, Zenon DEF Screen, SameTerminal
    <2> HIDE DEF t
    <2>4. Sound(t) /\ Moves(s, b, a, t)
      BY <2>1, <2>3, CursorMoves
    <2> QED BY <1>3, <2>1, <2>2, <2>4, EndMoves DEF a, b
  <1>4. CASE ~(s.vx > 0) /\ ~(s.vy > 0)
    <2>1. VLeft(s, imm) = XySync(Show(s, imm)) /\ s.vx = 0 /\ s.vy = 0
      BY <1>1, <1>4 DEF VLeft
    <2>2. Moves(s, 0, 0, s)
      BY <2>1 DEF Moves
    <2> QED BY <2>1, <2>2, EndMoves
  <1> QED BY <1>2, <1>3, <1>4

(* scr_vup.                                                                *)
LEMMA VUpMoves ==
    ASSUME NEW s, Sound(s), NEW imm \in BOOLEAN
    PROVE  \E y \in Rows : Moves(s, y, s.vx, VUp(s, imm))
  <1> DEFINE y == IF s.vy > 0 THEN s.vy - 1 ELSE 0
             t == [s EXCEPT !.vy = y]
  <1>1. s \in Screen /\ y \in Rows /\ s.vx < MaxW
    <2>1. s \in Screen /\ s.vy \in Rows /\ s.vx < MaxW
      BY DEF Sound, Screen
    <2> QED BY <2>1, SizeAssumption DEF Rows
  <1>2. VUp(s, imm) = XySync(Show(t, imm))
    BY DEF VUp
  <1> HIDE DEF y
  <1>3. /\ t \in Screen /\ SameTerminal(s, t) /\ t.vw = s.vw /\ t.chr = s.chr
        /\ t.cont = s.cont /\ t.vx = s.vx /\ t.vy = y
    BY <1>1, Zenon DEF Screen, SameTerminal
  <1> HIDE DEF t
  <1>4. Sound(t) /\ Moves(s, y, s.vx, t)
    BY <1>1, <1>3, CursorMoves
  <1> QED BY <1>1, <1>2, <1>4, EndMoves

(* scr_vcrlf goes to the row behind the group of joined rows.              *)
LEMMA VCrlfFeeds ==
    ASSUME NEW s, Sound(s), VH - 1 \notin s.cont, NEW imm \in BOOLEAN
    PROVE  \E e \in s.vy .. VH - 1 :
             /\ \A r \in s.vy .. e - 1 : r \in s.cont
             /\ e \notin s.cont
             /\ Feeds(s, Text(s), s.cont, e, 0, VCrlf(s, imm))
  <1> DEFINE e == GroupEnd(s.cont, s.vy)
             t == [s EXCEPT !.vx = 0, !.vy = e]
             u == IF e = s.vy THEN t ELSE XySync(Show(t, imm))
             v == VDown(u, imm)
  <1>1. /\ s \in Screen /\ s.vy \in Rows /\ s.vw \in 1 .. MaxW
        /\ VH - 1 \notin s.cont
    BY SizeFacts DEF Sound, Screen
  <1>2. /\ e \in Rows /\ e >= s.vy /\ e \notin s.cont
        /\ \A r \in s.vy .. e - 1 : r \in s.cont
    BY <1>1, GroupEndFacts
  <1>3. VCrlf(s, imm) = v
    BY DEF VCrlf
  <1> HIDE DEF e
  <1>4. /\ t \in Screen /\ SameTerminal(s, t) /\ t.vx = 0 /\ t.vy = e
        /\ t.vw = s.vw /\ t.chr = s.chr /\ t.cont = s.cont
    BY <1>1, <1>2, SizeFacts, Zenon DEF Screen, SameTerminal
  <1> HIDE DEF t
  <1>5. 0 < MaxW
    BY SizeAssumption
  <1>6. Sound(t) /\ Moves(s, e, 0, t)
    BY <1>4, <1>5, CursorMoves
  <1>7. Sound(u) /\ Moves(s, e, 0, u) /\ u.cont = s.cont
    <2>1. Sound(XySync(Show(t, imm)))
      BY <1>6, ShowFacts, XySyncCarries DEF Carries
    <2>2. Moves(s, e, 0, u)
      BY <1>6, EndMoves
    <2> QED BY <1>6, <2>1, <2>2 DEF Moves
  <1> HIDE DEF u
  <1>8. Feeds(u, Text(u), u.cont, u.vy, u.vx, v)
    BY <1>7, VDownFeeds
  <1> HIDE DEF v
  <1>9. Feeds(s, Text(s), s.cont, e, 0, v)
    BY <1>7, <1>8, MovesThenFeeds
  <1>10. e \in s.vy .. VH - 1
    BY <1>1, <1>2, SizeAssumption DEF Rows
  <1> QED BY <1>2, <1>3, <1>9, <1>10

-----------------------------------------------------------------------------
(* Putting a character.                                                    *)

(* The text with c under the cursor, if the cursor is on the screen.       *)
Written(s, c) ==
    IF s.vx < s.vw THEN [Text(s) EXCEPT ![s.vy][s.vx] = c] ELSE Text(s)

(* scr_vputc on a screen like s: the character, and the cursor behind it.  *)
Puts(s, c, t) ==
    IF s.vx + 1 < s.vw
      THEN /\ t.vw = s.vw /\ t.vx = s.vx + 1 /\ t.vy = s.vy /\ t.cont = s.cont
           /\ Text(t) = Written(s, c)
      ELSE Feeds(s, Written(s, c), s.cont \cup {s.vy}, s.vy, 0, t)

(* The cell under the cursor, drawn or marked, is part of the text.        *)
LEMMA PutCellText ==
    ASSUME NEW s, Sound(s), NEW c \in Char, NEW imm \in BOOLEAN
    PROVE  /\ Text(PutCell(s, c, imm)) = Written(s, c)
           /\ PutCell(s, c, imm).vw = s.vw
  <1> DEFINE y == s.vy
             x == s.vx
             ch == [s.chr EXCEPT ![y][x] = c]
             w == [s EXCEPT !.chr = ch]
             p == PutCell(s, c, imm)
  <1>1. /\ s \in Screen /\ y \in Rows /\ x \in Cols /\ x < MaxW
        /\ s.chr \in [Rows -> [Cols -> Cell]] /\ s.vw \in 1 .. MaxW
    BY SizeFacts DEF Sound, Screen
  <1>2. ch \in [Rows -> [Cols -> Cell]]
    BY <1>1 DEF Cell
  <1>3. /\ ch[y][x] = c
        /\ \A r \in Rows, z \in Cols : r # y \/ z # x => ch[r][z] = s.chr[r][z]
    BY <1>1
  <1>4. p = IF s.chr[y][x] = c THEN s
            ELSE IF imm THEN [Pput(w, y, x, c) EXCEPT !.dirty[y] = @ \ {x}]
            ELSE [w EXCEPT !.dirty[y] = @ \cup {x}, !.ldirty = @ \cup {y}]
    BY Zenon DEF PutCell
  <1> HIDE DEF ch
  <1>5. /\ w \in Screen /\ SameTerminal(s, w)
        /\ w.vw = s.vw /\ w.vx = x /\ w.vy = y /\ w.chr = ch
    BY <1>1, <1>2, Zenon DEF Screen, SameTerminal
  <1> HIDE DEF w
  <1>6. /\ p.vw = s.vw
        /\ p.chr = ch \/ (p.chr = s.chr /\ s.chr[y][x] = c)
    <2>1. CASE s.chr[y][x] = c
      BY <1>4, <2>1
    <2>2. CASE s.chr[y][x] # c /\ imm
      <3> DEFINE q == Pput(w, y, x, c)
      <3>1. Tracked(w)
        BY <1>5, Zenon DEF Sound, Tracked, SameTerminal
      <3>2. q \in Screen /\ SameVirtual(w, q)
        BY <1>1, <1>5, <3>1, PputFacts
      <3>3. p = [q EXCEPT !.dirty[y] = @ \ {x}]
        BY <1>4, <2>2
      <3> HIDE DEF q, p
      <3>4. p.vw = q.vw /\ p.chr = q.chr
        BY <3>2, <3>3, Zenon DEF Screen
      <3> QED BY <1>5, <3>2, <3>4, Zenon DEF SameVirtual
    <2>3. CASE s.chr[y][x] # c /\ ~imm
      <3>1. p = [w EXCEPT !.dirty[y] = @ \cup {x}, !.ldirty = @ \cup {y}]
        BY <1>4, <2>3
      <3> HIDE DEF p
      <3> QED BY <1>5, <3>1, Zenon DEF Screen
    <2> QED BY <2>1, <2>2, <2>3
  <1> HIDE DEF p
  <1>7. ASSUME NEW r \in Rows PROVE Text(p)[r] = Written(s, c)[r]
    <2>1. \A z \in Cols : p.chr[r][z] = IF r = y /\ z = x THEN c ELSE s.chr[r][z]
      BY <1>3, <1>6
    <2>2. \A z \in ScreenCols(s) : z \in Cols
      BY ColumnFacts DEF Sound
    <2>3. ScreenCols(p) = ScreenCols(s)
      BY <1>6 DEF ScreenCols
    <2>4. x \in ScreenCols(s) <=> x < s.vw
      BY <1>1 DEF ScreenCols, Cols
    <2>5. Text(p)[r] =
            [z \in ScreenCols(s) |-> IF r = y /\ z = x THEN c ELSE s.chr[r][z]]
      BY <2>1, <2>2, <2>3 DEF Text
    <2> QED BY <1>1, <2>4, <2>5, ZenonT(40) DEF Written, Text
  <1>8. Text(p) = Written(s, c)
    BY <1>1, <1>7 DEF Text, Written
  <1> QED BY <1>6, <1>8 DEF p

(* The step behind a character.                                            *)
LEMMA AdvanceSteps ==
    ASSUME NEW s, Sound(s), VH - 1 \notin s.cont
    PROVE  IF s.vx + 1 < s.vw
             THEN Moves(s, s.vy, s.vx + 1, Advance(s))
             ELSE Feeds(s, Text(s), s.cont \cup {s.vy}, s.vy, 0, Advance(s))
  <1>1. /\ s \in Screen /\ s.vy \in Rows
    BY DEF Sound, Screen
  <1>2. CASE s.vx + 1 < s.vw
    <2> DEFINE t == [s EXCEPT !.vx = s.vx + 1]
    <2>1. Advance(s) = t
      BY <1>2 DEF Advance
    <2>2. /\ t.vw = s.vw /\ t.vx = s.vx + 1 /\ t.vy = s.vy /\ t.cont = s.cont
          /\ t.chr = s.chr
      BY <1>1, Zenon DEF Screen
    <2> HIDE DEF t
    <2> QED BY <1>2, <2>1, <2>2, SameText DEF Moves
  <1>3. CASE ~(s.vx + 1 < s.vw) /\ s.vy + 1 < VH
    <2> DEFINE t == [s EXCEPT !.vx = 0, !.vy = s.vy + 1, !.cont = @ \cup {s.vy}]
    <2>1. Advance(s) = t
      BY <1>3, Zenon DEF Advance
    <2>2. /\ t.vw = s.vw /\ t.vx = 0 /\ t.vy = s.vy + 1 /\ t.chr = s.chr
          /\ t.cont = s.cont \cup {s.vy}
      BY <1>1, Zenon DEF Screen
    <2> HIDE DEF t
    <2> QED BY <1>3, <2>1, <2>2, SameText DEF Feeds
  <1>4. CASE ~(s.vx + 1 < s.vw) /\ ~(s.vy + 1 < VH)
    <2> DEFINE u == Scroll(s)
               t == [u EXCEPT !.vx = 0, !.vy = VH - 1, !.cont = @ \cup {s.vy - 1}]
    <2>1. Advance(s) = t
      BY <1>4, Zenon DEF Advance
    <2>2. /\ u \in Screen /\ u.vw = s.vw /\ u.cont = RollOne(s.cont)
          /\ Text(u) = UpOne(s, Text(s))
      BY ScrollText
    <2> HIDE DEF u
    <2>3. /\ t.vw = u.vw /\ t.vx = 0 /\ t.vy = VH - 1 /\ t.chr = u.chr
          /\ t.cont = u.cont \cup {s.vy - 1}
      BY <2>2, Zenon DEF Screen
    <2> HIDE DEF t
    <2>4. Text(t) = Text(u)
      BY <2>3, SameText
    <2>5. s.vy = VH - 1
      BY <1>1, <1>4, SizeAssumption DEF Rows
    <2>6. RollOne(s.cont \cup {s.vy}) = RollOne(s.cont) \cup {s.vy - 1}
      BY <2>5, SizeAssumption DEF RollOne
    <2>7. t.vw = s.vw /\ t.cont = RollOne(s.cont \cup {s.vy}) /\ t.vy = s.vy
      BY <2>2, <2>3, <2>5, <2>6
    <2> QED BY <1>4, <2>1, <2>2, <2>3, <2>4, <2>7, Zenon DEF Feeds
  <1> QED BY <1>2, <1>3, <1>4

(* scr_vputc.                                                              *)
LEMMA VPutcPuts ==
    ASSUME NEW s, Sound(s), VH - 1 \notin s.cont, NEW c \in Char, NEW imm \in BOOLEAN
    PROVE  Puts(s, c, VPutc(s, c, imm))
  <1> DEFINE p == PutCell(s, c, imm)
             a == Advance(p)
             u == XySync(Show(a, imm))
  <1>1. /\ Sound(p) /\ p.vx = s.vx /\ p.vy = s.vy /\ p.cont = s.cont
        /\ p.vw = s.vw /\ Text(p) = Written(s, c)
    BY PutCellFacts, PutCellText DEF Carries
  <1>2. VPutc(s, c, imm) = u
    BY DEF VPutc
  <1> HIDE DEF p
  <1>3. IF p.vx + 1 < p.vw
          THEN Moves(p, p.vy, p.vx + 1, a)
          ELSE Feeds(p, Text(p), p.cont \cup {p.vy}, p.vy, 0, a)
    BY <1>1, AdvanceSteps
  <1>4. Sound(a)
    BY <1>1, AdvanceFacts DEF Carries
  <1> HIDE DEF a
  <1>5. Alike(a, u)
    BY <1>4, EndAlike
  <1> HIDE DEF u
  <1>6. \A T : UpOne(p, T) = UpOne(s, T)
    BY <1>1, Zenon DEF UpOne, ScreenCols
  <1>7. CASE s.vx + 1 < s.vw
    <2>1. Moves(p, p.vy, p.vx + 1, a)
      BY <1>1, <1>3, <1>7
    <2> QED BY <1>1, <1>2, <1>5, <1>7, <2>1, Zenon DEF Moves, Alike, Puts
  <1>8. CASE ~(s.vx + 1 < s.vw)
    <2>1. Feeds(p, Text(p), p.cont \cup {p.vy}, p.vy, 0, a)
      BY <1>1, <1>3, <1>8
    <2>2. Feeds(s, Written(s, c), s.cont \cup {s.vy}, s.vy, 0, a)
      BY <1>1, <1>6, <2>1, Zenon DEF Feeds
    <2>3. Feeds(s, Written(s, c), s.cont \cup {s.vy}, s.vy, 0, u)
      BY <1>5, <2>2, Zenon DEF Feeds, Alike
    <2> QED BY <1>2, <1>8, <2>3, Zenon DEF Puts
  <1> QED BY <1>7, <1>8

-----------------------------------------------------------------------------
(* Whole-screen functions and placing the cursor.                          *)

(* A blank screen of width v, the cursor at home and nothing joined.       *)
Blanked(v, t) ==
    /\ t.vw = v /\ t.vx = 0 /\ t.vy = 0 /\ t.cont = {}
    /\ Text(t) = [r \in Rows |-> [x \in 0 .. v - 1 |-> Blank]]

(* scr_clear.                                                              *)
LEMMA ClearBlanks ==
    ASSUME NEW s \in Screen
    PROVE  Blanked(s.vw, Clear(s))
  <1> DEFINE t == Clear(s)
  <1>1. /\ t.vw = s.vw /\ t.vx = 0 /\ t.vy = 0 /\ t.cont = {}
        /\ \A r \in Rows, x \in ScreenCols(s) : t.chr[r][x] = Blank
    BY ClearFacts
  <1> HIDE DEF t
  <1>2. Text(t) = [r \in Rows |-> [x \in 0 .. s.vw - 1 |-> Blank]]
    BY <1>1 DEF Text, ScreenCols
  <1> QED BY <1>1, <1>2 DEF Blanked, t

(* scr_flush draws, and a program sees nothing of it.                      *)
LEMMA FlushAlike ==
    ASSUME NEW s, Sound(s), Mirror(s)
    PROVE  Alike(s, Flush(s))
  <1> DEFINE cells == [r \in Rows |-> IF r \in s.ldirty
                         THEN s.dirty[r] \cap (0 .. s.vw - 1) ELSE {}]
             rows == {r \in Rows : cells[r] # {}}
             w == WriteSpans(s, cells)
             d == [r \in Rows |-> s.dirty[r] \ cells[r]]
             l == s.ldirty \ rows
             p == IF rows = {} THEN s.px ELSE -1
             t == [w EXCEPT !.dirty = d, !.ldirty = l, !.px = p]
  <1>1. cells \in [Rows -> SUBSET ScreenCols(s)] /\ s \in Screen
    BY DEF ScreenCols, Sound
  <1>2. w \in Screen /\ SameVirtual(s, w)
    BY <1>1, WriteSpansFacts
  <1>3. Flush(s) = Pmove(t, s.vy, s.vx)
    BY Zenon DEF Flush
  <1> HIDE DEF w, d, l, p
  <1>4. /\ t.vw = w.vw /\ t.vx = w.vx /\ t.vy = w.vy
        /\ t.chr = w.chr /\ t.cont = w.cont
        /\ t = [w EXCEPT !.dirty = d, !.ldirty = l, !.px = p]
    BY <1>2, Zenon DEF Screen
  <1>5. /\ s.vx \in Cols /\ s.vx < MaxW /\ s.vy \in PRows
    BY SizeFacts DEF Sound, Screen
  <1>6. t \in Screen
    <2>1. d \in [Rows -> SUBSET Cols]
      BY <1>1 DEF d, Screen
    <2>2. l \in SUBSET Rows
      BY <1>1 DEF l, Screen
    <2>3. p \in -1 .. MaxW + 1
      BY <1>1, SizeFacts DEF p, Screen
    <2> QED BY <1>2, <2>1, <2>2, <2>3, Zenon DEF Screen
  <1> HIDE DEF t
  <1>7. SameVirtual(t, Pmove(t, s.vy, s.vx))
    BY <1>5, <1>6, PmoveFacts
  <1> DEFINE u == Pmove(t, s.vy, s.vx)
  <1> HIDE DEF u
  <1>8. /\ u.vw = s.vw /\ u.vx = s.vx /\ u.vy = s.vy
        /\ u.chr = s.chr /\ u.cont = s.cont
    BY <1>2, <1>4, <1>7, Zenon DEF SameVirtual, u
  <1> QED BY <1>3, <1>8, SameText DEF Alike, u

(* scr_locate moves where it was asked to go, or right of the screen.      *)
LEMMA LocateMoves ==
    ASSUME NEW s, Sound(s), NEW y \in Rows, NEW x \in 0 .. MaxW - 1
    PROVE  Moves(s, y, IF x < s.vw THEN x ELSE s.vw, Locate(s, y, x))
  <1> DEFINE a == IF x < s.vw THEN x ELSE s.vw
             t == Placed(s, y, a)
             u == Locate(s, y, x)
  <1>1. /\ s \in Screen /\ s.vw \in 1 .. MaxW
    BY SizeFacts DEF Sound, Screen
  <1>2. Fix(x, s.vw) = a /\ Fix(y, VH) = y /\ a \in Cols /\ a < MaxW
    BY <1>1, SizeAssumption DEF Fix, Rows, Cols
  <1> HIDE DEF a
  <1>3. u = IF s.vis THEN Pmove(t, t.vy, t.vx) ELSE t
    <2>1. u = LET v == Placed(s, Fix(y, VH), Fix(x, s.vw))
              IN  IF s.vis THEN Pmove(v, v.vy, v.vx) ELSE v
      BY Zenon DEF Locate, Placed
    <2>2. Placed(s, Fix(y, VH), Fix(x, s.vw)) = t
      BY <1>2, Zenon
    <2> QED BY <2>1, <2>2, Zenon
  <1>4. /\ t \in Screen /\ SameTerminal(s, t) /\ t.vx = a /\ t.vy = y
        /\ t.vw = s.vw /\ t.chr = s.chr /\ t.cont = s.cont
    BY <1>1, <1>2, PlacedFacts
  <1> HIDE DEF t
  <1>5. y \in PRows
    BY SizeFacts
  <1>6. SameVirtual(t, Pmove(t, y, a))
    BY <1>2, <1>4, <1>5, PmoveFacts
  <1>7. u = t \/ SameVirtual(t, u)
    BY <1>3, <1>4, <1>6, Zenon
  <1> HIDE DEF u
  <1>8. /\ u.vw = s.vw /\ u.vx = a /\ u.vy = y
        /\ u.chr = s.chr /\ u.cont = s.cont
    BY <1>4, <1>7, Zenon DEF SameVirtual
  <1> QED BY <1>8, SameText DEF Moves, a, u

(* scr_visible and scr_invisible.                                          *)
LEMMA VisibleAlike ==
    ASSUME NEW s, Sound(s)
    PROVE  Alike(s, Visible(s)) /\ Alike(s, Invisible(s))
  <1>1. s \in Screen /\ s.vx \in Cols /\ s.vx < MaxW /\ s.vy \in PRows
    BY SizeFacts DEF Sound, Screen
  <1>2. ASSUME NEW b \in BOOLEAN
        PROVE  /\ [s EXCEPT !.vis = b] \in Screen
               /\ Alike(s, [s EXCEPT !.vis = b])
    <2> DEFINE t == [s EXCEPT !.vis = b]
    <2>1. /\ t \in Screen /\ t.vw = s.vw /\ t.vx = s.vx /\ t.vy = s.vy
          /\ t.chr = s.chr /\ t.cont = s.cont
      BY <1>1, <1>2, Zenon DEF Screen
    <2> HIDE DEF t
    <2> QED BY <2>1, SameText DEF Alike, t
  <1>3. Alike(s, Invisible(s))
    BY <1>2 DEF Invisible
  <1>4. CASE s.vis
    BY <1>3, <1>4 DEF Visible, Alike
  <1>5. CASE ~s.vis
    <2> DEFINE t == [s EXCEPT !.vis = TRUE]
               u == Pmove(t, s.vy, s.vx)
    <2>1. t \in Screen /\ Alike(s, t)
      BY <1>2
    <2>2. Visible(s) = u
      BY <1>5, Zenon DEF Visible
    <2> HIDE DEF t
    <2>3. SameVirtual(t, u)
      BY <1>1, <2>1, PmoveFacts
    <2> HIDE DEF u
    <2>4. Text(u) = Text(t)
      BY <2>3, SameText DEF SameVirtual
    <2>5. Alike(s, u)
      BY <2>1, <2>3, <2>4, Zenon DEF Alike, SameVirtual
    <2> QED BY <1>3, <2>2, <2>5
  <1> QED BY <1>4, <1>5

-----------------------------------------------------------------------------
(* The steps of Display.                                                   *)

(* The grids that Display is given are the text and what is shown of it.   *)
LEMMA GridIsText ==
    /\ Grid(scr.chr) = Text(scr)
    /\ Grid(scr.chr)' = Text(scr')
    /\ Fresh(scr) => Grid(scr.glass) = Text(scr)
    /\ Fresh(scr') => Grid(scr.glass)' = Text(scr')
  <1>1. Grid(scr.chr) = Text(scr) /\ Grid(scr.chr)' = Text(scr')
    BY DEF Grid, Text, ScreenCols
  <1>2. Fresh(scr) => Grid(scr.glass) = Text(scr)
    BY Zenon DEF Grid, Text, Fresh
  <1>3. Fresh(scr') => Grid(scr.glass)' = Text(scr')
    BY Zenon DEF Grid, Text, Fresh, ScreenCols
  <1> QED BY <1>1, <1>2, <1>3

(* A call inside which the terminal may lag, or one that has shown its     *)
(* work.                                                                   *)
LEMMA CallSettles ==
    ASSUME IInv', phase' = phase
    PROVE  Abstract!Settle
  <1>1. phase' = "idle" => Fresh(scr')
    BY DEF IInv, Fresh
  <1> QED BY <1>1, GridIsText DEF Abstract!Settle

(* A screen that is fed as the abstract one is takes Display's Feed.       *)
LEMMA FeedIsFeed ==
    ASSUME NEW STATE T, NEW STATE J, NEW STATE y, NEW STATE x,
           Feeds(scr, T, J, y, x, scr')
    PROVE  Abstract!Feed(T, J, y, x)
  <1>1. UpOne(scr, T) = Abstract!Scrolled(T)
    BY DEF UpOne, Abstract!Scrolled, Rows, Abstract!Line, ScreenCols
  <1>2. RollOne(J) = Abstract!Rolled(J)
    BY DEF RollOne, Abstract!Rolled
  <1> QED BY <1>1, <1>2, GridIsText DEF Feeds, Abstract!Feed

(* scr_vcrlf takes the step LineFeed, a cleared screen is wiped.           *)
LEMMA FedLine ==
    ASSUME IInv, IInv', phase' = phase, NEW imm \in BOOLEAN,
           scr' = VCrlf(scr, imm)
    PROVE  Abstract!LineFeed
  <1>1. Sound(scr) /\ VH - 1 \notin scr.cont
    BY DEF IInv, LastRowNotJoined
  <1>2. PICK e \in scr.vy .. VH - 1 :
             /\ \A r \in scr.vy .. e - 1 : r \in scr.cont
             /\ e \notin scr.cont
             /\ Feeds(scr, Text(scr), scr.cont, e, 0, scr')
    BY <1>1, VCrlfFeeds
  <1>3. Abstract!Feed(Grid(scr.chr), scr.cont, e, 0) /\ scr'.vw = scr.vw
    BY <1>2, FeedIsFeed, GridIsText DEF Feeds
  <1> QED BY <1>2, <1>3, CallSettles DEF Abstract!LineFeed

(* A screen left blank takes Display's Wipe: scr_clear and #WIDCH.         *)
LEMMA BlankIsWipe ==
    ASSUME IInv', phase' = phase, NEW v, Blanked(v, scr')
    PROVE  Abstract!Wipe(v)
  BY CallSettles, GridIsText
     DEF Blanked, Abstract!Wipe, Abstract!BlankGrid, Abstract!Line, Rows

(* A call that only moves the cursor takes Display's MoveTo.               *)
LEMMA MoveIsMove ==
    ASSUME IInv', phase' = phase, NEW STATE y, NEW STATE x,
           Moves(scr, y, x, scr')
    PROVE  Abstract!MoveTo(y, x)
  BY CallSettles, GridIsText DEF Moves, Abstract!MoveTo

(* A character put on the screen, with the line feed behind the last       *)
(* column, takes Display's Put.                                            *)
LEMMA PutIsPut ==
    ASSUME IInv', phase' = phase, NEW c \in Char, Puts(scr, c, scr')
    PROVE  Abstract!Put(c)
  <1> DEFINE t == IF scr.vx < scr.vw THEN [Grid(scr.chr) EXCEPT ![scr.vy][scr.vx] = c]
                  ELSE Grid(scr.chr)
  <1>1. t = Written(scr, c)
    BY GridIsText DEF Written
  <1>2. Abstract!Settle
    BY CallSettles
  <1> HIDE DEF t
  <1>3. CASE scr.vx + 1 < scr.vw
    <2>1. /\ Grid(scr.chr)' = t /\ scr'.vx = scr.vx + 1 /\ scr'.vy = scr.vy
          /\ scr'.vw = scr.vw /\ scr'.cont = scr.cont
      BY <1>1, <1>3, GridIsText DEF Puts
    <2> QED BY <1>2, <1>3, <2>1 DEF Abstract!Put, t
  <1>4. CASE ~(scr.vx + 1 < scr.vw)
    <2>1. Feeds(scr, t, scr.cont \cup {scr.vy}, scr.vy, 0, scr')
      BY <1>1, <1>4 DEF Puts
    <2>2. Abstract!Feed(t, scr.cont \cup {scr.vy}, scr.vy, 0)
      BY <2>1, FeedIsFeed
    <2>3. scr'.vw = scr.vw
      BY <2>1 DEF Feeds
    <2> QED BY <1>2, <1>4, <2>2, <2>3 DEF Abstract!Put, t
  <1> QED BY <1>3, <1>4

(* One character of a call, shown at once or later.                        *)
LEMMA CharacterSteps ==
    ASSUME IInv, IInv', NEW c \in Code, PutChar(c) \/ StringPut(c)
    PROVE  /\ c \in Char => Abstract!Put(c)
           /\ c = "graph" => Abstract!Put(Star)
           /\ c = "cr" => Abstract!LineFeed
           /\ c = "cls" => Abstract!Wipe(scr.vw)
           /\ c = "down" => Abstract!Down
           /\ c = "right" => \/ Abstract!Over
                             \/ /\ scr.vx + 1 < scr.vw
                                /\ Abstract!MoveTo(scr.vy, scr.vx + 1)
           /\ c = "left" =>
                 \/ scr.vx > 0 /\ Abstract!MoveTo(scr.vy, scr.vx - 1)
                 \/ /\ scr.vx = 0 /\ scr.vy > 0
                    /\ Abstract!MoveTo(scr.vy - 1, scr.vw - 1)
                 \/ scr.vx = 0 /\ scr.vy = 0 /\ Abstract!MoveTo(0, 0)
           /\ c = "up" => \E y \in Rows : Abstract!MoveTo(y, scr.vx)
           /\ c = "ignored" => scr' = scr
  <1> USE CharAssumption DEF Control
  <1>1. PICK imm \in BOOLEAN : scr' = Putch(scr, c, imm)
    BY DEF PutChar, StringPut
  <1>2. /\ phase' = phase /\ Sound(scr) /\ scr \in Screen
        /\ VH - 1 \notin scr.cont
    BY DEF PutChar, StringPut, IInv, Sound, LastRowNotJoined
  <1>3. Abstract!Settle
    BY <1>2, CallSettles
  <1>4. ASSUME c \in Char PROVE Abstract!Put(c)
    <2>1. scr' = VPutc(scr, c, imm)
      BY <1>1, <1>4 DEF Putch
    <2> QED BY <1>2, <1>4, <2>1, VPutcPuts, PutIsPut
  <1>5. ASSUME c = "graph" PROVE Abstract!Put(Star)
    <2>1. scr' = VPutc(scr, Star, imm)
      BY <1>1, <1>5 DEF Putch
    <2> QED BY <1>2, <2>1, VPutcPuts, PutIsPut
  <1>6. ASSUME c = "cr" PROVE Abstract!LineFeed
    <2>1. scr' = VCrlf(scr, imm)
      BY <1>1, <1>6 DEF Putch
    <2> QED BY <1>2, <2>1, FedLine
  <1>7. ASSUME c = "cls" PROVE Abstract!Wipe(scr.vw)
    <2>1. scr' = Clear(scr)
      BY <1>1, <1>7 DEF Putch
    <2>2. Blanked(scr.vw, scr')
      BY <1>2, <2>1, ClearBlanks
    <2> QED BY <1>2, <2>2, BlankIsWipe
  <1>8. ASSUME c = "down" PROVE Abstract!Down
    <2>1. scr' = VDown(scr, imm)
      BY <1>1, <1>8 DEF Putch
    <2>2. Feeds(scr, Text(scr), scr.cont, scr.vy, scr.vx, scr')
      BY <1>2, <2>1, VDownFeeds
    <2>3. Abstract!Feed(Grid(scr.chr), scr.cont, scr.vy, scr.vx)
      BY <2>2, FeedIsFeed, GridIsText
    <2> QED BY <1>3, <2>2, <2>3 DEF Abstract!Down, Feeds
  <1>9. ASSUME c = "right"
        PROVE  \/ Abstract!Over
               \/ /\ scr.vx + 1 < scr.vw
                  /\ Abstract!MoveTo(scr.vy, scr.vx + 1)
    <2>1. scr' = VRight(scr, imm)
      BY <1>1, <1>9 DEF Putch
    <2>2. CASE scr.vx + 1 < scr.vw /\ Moves(scr, scr.vy, scr.vx + 1, scr')
      BY <1>2, <2>2, MoveIsMove
    <2>3. CASE /\ scr.vx + 1 >= scr.vw
               /\ Feeds(scr, Text(scr), scr.cont, scr.vy, 0, scr')
      <3>1. Abstract!Feed(Grid(scr.chr), scr.cont, scr.vy, 0)
        BY <2>3, FeedIsFeed, GridIsText
      <3> QED BY <1>3, <2>3, <3>1 DEF Abstract!Over, Feeds
    <2> QED BY <1>2, <2>1, <2>2, <2>3, VRightSteps
  <1>10. ASSUME c = "left"
         PROVE  \/ scr.vx > 0 /\ Abstract!MoveTo(scr.vy, scr.vx - 1)
                \/ /\ scr.vx = 0 /\ scr.vy > 0
                   /\ Abstract!MoveTo(scr.vy - 1, scr.vw - 1)
                \/ scr.vx = 0 /\ scr.vy = 0 /\ Abstract!MoveTo(0, 0)
    <2>1. scr' = VLeft(scr, imm)
      BY <1>1, <1>10 DEF Putch
    <2> QED BY <1>2, <2>1, VLeftSteps, MoveIsMove
  <1>11. ASSUME c = "up" PROVE \E y \in Rows : Abstract!MoveTo(y, scr.vx)
    <2>1. scr' = VUp(scr, imm)
      BY <1>1, <1>11 DEF Putch
    <2> QED BY <1>2, <2>1, VUpMoves, MoveIsMove
  <1>12. c = "ignored" => scr' = scr
    BY <1>1 DEF Putch
  <1> QED
    BY <1>4, <1>5, <1>6, <1>7, <1>8, <1>9, <1>10, <1>11, <1>12

(* #LOC and stores to XYADR move to a place of the grid, or right of it.   *)
LEMMA LocIsMove ==
    ASSUME IInv, IInv', NEW y \in Rows, NEW x \in 0 .. MaxW - 1, LocCall(y, x)
    PROVE  Abstract!MoveTo(y, IF x < scr.vw THEN x ELSE scr.vw)
  <1> DEFINE a == IF x < scr.vw THEN x ELSE scr.vw
             t == Locate(scr, y, x)
  <1>1. Sound(scr) /\ scr' = XySync(t) /\ phase' = phase
    BY DEF IInv, LocCall, Loc
  <1>2. Sound(t) /\ Moves(scr, y, a, t)
    BY <1>1, LocateMoves, LocateFacts
  <1> HIDE DEF t, a
  <1>3. t \in Screen
    BY <1>2 DEF Sound
  <1>4. Moves(scr, y, a, scr')
    <2>1. /\ scr'.vw = t.vw /\ scr'.vx = t.vx /\ scr'.vy = t.vy
          /\ scr'.chr = t.chr /\ scr'.cont = t.cont
      BY <1>1, <1>3, XySyncFacts
    <2>2. Text(scr') = Text(t)
      BY <2>1, SameText
    <2> QED BY <1>2, <2>1, <2>2, Zenon DEF Moves
  <1> QED BY <1>1, <1>4, MoveIsMove DEF a

(* A store to XYADR is a move of the cursor: sync_workarea.                *)
LEMMA PokeIsMove ==
    ASSUME IInv, IInv', phase' = phase,
           NEW STATE y, y \in Rows, NEW STATE x, x \in 0 .. MaxW - 1,
           NEW STATE b, b \in Byte \X Byte,
           scr' = Locate([scr EXCEPT !.xy = b], y, x)
    PROVE  Abstract!MoveTo(y, IF x < scr.vw THEN x ELSE scr.vw)
  <1> DEFINE s == [scr EXCEPT !.xy = b]
  <1>1. scr \in Screen /\ Sound(scr)
    BY DEF IInv, Sound
  <1>2. /\ s \in Screen /\ SameTerminal(scr, s) /\ s.vw = scr.vw
        /\ s.chr = scr.chr /\ s.cont = scr.cont /\ s.vx = scr.vx
    BY <1>1, Zenon DEF Screen, SameTerminal
  <1> HIDE DEF s
  <1>3. Sound(s) /\ Text(s) = Text(scr)
    <2>1. s.vx < MaxW
      BY <1>1, <1>2 DEF Sound
    <2> QED BY <1>1, <1>2, <2>1, SoundMoved, SameText
  <1>4. Moves(s, y, IF x < s.vw THEN x ELSE s.vw, scr')
    BY <1>3, LocateMoves DEF s
  <1>5. Moves(scr, y, IF x < scr.vw THEN x ELSE scr.vw, scr')
    BY <1>2, <1>3, <1>4 DEF Moves
  <1> QED BY <1>5, MoveIsMove

(* #WIDCH.                                                                 *)
LEMMA WidthBlanks ==
    ASSUME NEW s \in Screen, NEW v \in Widths
    PROVE  Blanked(v, Width(s, v))
  <1> DEFINE t == [s EXCEPT !.vw = v]
  <1>1. t \in Screen /\ t.vw = v
    BY Zenon DEF Screen
  <1>2. Width(s, v) = Clear(t)
    BY DEF Width
  <1> HIDE DEF t
  <1> QED BY <1>1, <1>2, ClearBlanks

-----------------------------------------------------------------------------
(* The theorems.                                                           *)

(* The cursor Display moves is on its grid or right of it.  With this the  *)
(* places that it moves to are among those of DNext.                       *)
RInv == IInv /\ scr.vx <= scr.vw

(* Every step of Display keeps it.                                         *)
LEMMA DisplayKeepsCursor ==
    ASSUME IInv, IInv', scr.vx <= scr.vw, Abstract!DNext
    PROVE  scr'.vx <= scr'.vw
  <1>1. /\ scr.vw \in Nat /\ scr.vx \in Nat /\ scr'.vw \in Nat
        /\ scr.vw >= 1 /\ scr'.vw >= 1
    <2>1. scr \in Screen /\ scr' \in Screen
      BY DEF IInv, Sound
    <2>2. scr.vw \in 1 .. MaxW /\ scr'.vw \in 1 .. MaxW /\ scr.vx \in Cols
      BY <2>1, SizeFacts DEF Screen
    <2> QED BY <2>2, SizeAssumption DEF Cols
  <1>2. ASSUME NEW c \in Char, Abstract!Put(c) PROVE scr'.vx <= scr'.vw
    BY <1>1, <1>2 DEF Abstract!Put, Abstract!Feed
  <1>3. CASE Abstract!LineFeed
    BY <1>1, <1>3 DEF Abstract!LineFeed, Abstract!Feed
  <1>4. CASE Abstract!Down
    BY <1>4 DEF Abstract!Down, Abstract!Feed
  <1>5. CASE Abstract!Over
    BY <1>1, <1>5 DEF Abstract!Over, Abstract!Feed
  <1>6. ASSUME NEW y, NEW x \in 0 .. scr.vw, Abstract!MoveTo(y, x)
        PROVE  scr'.vx <= scr'.vw
    BY <1>1, <1>6 DEF Abstract!MoveTo
  <1>7. ASSUME NEW v, Abstract!Wipe(v) PROVE scr'.vx <= scr'.vw
    BY <1>1, <1>7 DEF Abstract!Wipe
  <1>8. CASE Abstract!Begin \/ Abstract!End
    BY <1>8 DEF Abstract!Begin, Abstract!End
  <1> QED
    BY <1>2, <1>3, <1>4, <1>5, <1>6, <1>7, <1>8 DEF Abstract!DNext

(* A cursor that moves within the grid is a step of Display.               *)
LEMMA MoveIsStep ==
    ASSUME NEW STATE y, y \in Rows, NEW STATE x, x \in 0 .. scr.vw,
           Abstract!MoveTo(y, x)
    PROVE  Abstract!DNext
  BY DEF Abstract!DNext, Abstract!Line, Rows

(* What a program does not see is a step of the cursor to where it is.     *)
LEMMA AlikeIsStep ==
    ASSUME RInv, IInv', phase' = phase, Alike(scr, scr')
    PROVE  Abstract!DNext
  <1>1. Moves(scr, scr.vy, scr.vx, scr')
    BY Zenon DEF Alike, Moves
  <1>2. scr \in Screen /\ scr.vx <= scr.vw
    BY DEF RInv, IInv, Sound
  <1>3. scr.vy \in Rows /\ scr.vx \in Cols /\ scr.vw \in 1 .. MaxW
    BY <1>2, SizeFacts DEF Screen
  <1>4. scr.vx \in 0 .. scr.vw
    BY <1>2, <1>3, SizeAssumption DEF Cols
  <1> QED BY <1>1, <1>3, <1>4, MoveIsMove, MoveIsStep

(* The end of a longer call: the terminal has caught up.                   *)
LEMMA SyncIsEnd ==
    ASSUME IInv, IInv', phase # "idle", phase' = "idle", scr' = Flush(scr)
    PROVE  Abstract!End
  <1>1. Alike(scr, scr')
    BY FlushAlike DEF IInv
  <1>2. Fresh(scr')
    BY DEF IInv, Fresh
  <1> QED BY <1>1, <1>2, GridIsText DEF Alike, Abstract!End

(* Every step of Console is one of Display, or none.                       *)
LEMMA StepImplements ==
    ASSUME RInv, IInv', [Next]_vars
    PROVE  [Abstract!DNext]_(Abstract!dvars)
  <1>1. /\ IInv /\ scr \in Screen /\ scr.vx <= scr.vw
        /\ scr.vy \in Rows /\ scr.vx \in Cols /\ scr.vw \in 1 .. MaxW
    BY SizeFacts DEF RInv, IInv, Sound, Screen
  <1>2. scr.vx \in 0 .. scr.vw /\ scr.vw \in Nat /\ scr.vx \in Nat /\ scr.vy \in Nat
    BY <1>1, SizeAssumption DEF Cols, Rows
  <1>3. ASSUME scr' = scr, (phase' = "idle") = (phase = "idle")
        PROVE  UNCHANGED Abstract!dvars
    BY <1>3 DEF Abstract!dvars, Grid, ScreenCols
  <1>4. ASSUME NEW c \in Code, PutChar(c) \/ StringPut(c)
        PROVE  [Abstract!DNext]_(Abstract!dvars)
    <2>1. c \in Char => Abstract!DNext
      BY <1>1, <1>4, CharacterSteps DEF Abstract!DNext
    <2>2. c \in {"graph", "cr", "down"} => Abstract!DNext
      BY <1>1, <1>4, CharacterSteps, CharAssumption DEF Abstract!DNext
    <2>3. c = "cls" => Abstract!DNext
      <3>1. scr.vw \in Widths
        BY <1>1 DEF Screen
      <3> QED BY <1>1, <1>4, <3>1, CharacterSteps DEF Abstract!DNext
    <2>4. c = "right" => Abstract!DNext
      <3>1. scr.vx + 1 < scr.vw => scr.vx + 1 \in 0 .. scr.vw
        BY <1>2
      <3> QED BY <1>1, <1>4, <3>1, CharacterSteps, MoveIsStep DEF Abstract!DNext
    <2>5. c = "left" => Abstract!DNext
      <3>1. /\ scr.vx > 0 => scr.vx - 1 \in 0 .. scr.vw
            /\ scr.vy > 0 => scr.vy - 1 \in Rows
            /\ scr.vw - 1 \in 0 .. scr.vw /\ 0 \in 0 .. scr.vw /\ 0 \in Rows
        BY <1>1, <1>2, SizeAssumption DEF Rows
      <3> QED BY <1>1, <1>4, <3>1, CharacterSteps, MoveIsStep
    <2>6. c = "up" => Abstract!DNext
      BY <1>1, <1>2, <1>4, CharacterSteps, MoveIsStep
    <2>7. c = "ignored" => UNCHANGED Abstract!dvars
      BY <1>1, <1>3, <1>4, CharacterSteps DEF PutChar, StringPut
    <2> QED
      BY <2>1, <2>2, <2>3, <2>4, <2>5, <2>6, <2>7 DEF Code, Control
  <1>5. CASE NewLine
    BY <1>1, <1>5, FedLine DEF NewLine, Abstract!DNext
  <1>6. ASSUME StringStart \/ \E x \in 0 .. MaxTab : Tab(x)
        PROVE  Abstract!DNext
    <2>1. scr' = scr /\ phase = "idle" /\ phase' # "idle"
      BY <1>6 DEF StringStart, Tab
    <2> QED BY <2>1 DEF Abstract!DNext, Abstract!Begin, Grid, ScreenCols
  <1>7. CASE StringSync \/ TabSync
    BY <1>1, <1>7, SyncIsEnd DEF StringSync, TabSync, Abstract!DNext
  <1>8. CASE TabPut
    <2>1. scr' = VPutc(scr, Blank, FALSE) /\ phase' = phase
      BY <1>8, CharAssumption DEF TabPut, Putch, Control
    <2>2. Abstract!Put(Blank)
      BY <1>1, <2>1, CharAssumption, VPutcPuts, PutIsPut DEF IInv, LastRowNotJoined
    <2> QED BY <2>2, CharAssumption DEF Abstract!DNext
  <1>9. ASSUME NEW y \in Rows, NEW x \in 0 .. MaxW - 1, LocCall(y, x)
        PROVE  Abstract!DNext
    BY <1>1, <1>2, <1>9, LocIsMove, MoveIsStep
  <1>10. ASSUME NEW x \in 0 .. MaxW - 1, PokeX(x) PROVE Abstract!DNext
    <2> DEFINE b == [scr.xy EXCEPT ![1] = x]
               a == IF x < scr.vw THEN x ELSE scr.vw
    <2>1. scr.xy \in Byte \X Byte /\ x \in Byte
      BY <1>1, SizeAssumption DEF Screen, Byte
    <2>2. b \in Byte \X Byte /\ a \in 0 .. scr.vw
      BY <1>2, <2>1
    <2>3. phase' = phase /\ scr' = Locate([scr EXCEPT !.xy = b], scr.vy, x)
      BY <1>10, Zenon DEF PokeX
    <2> HIDE DEF b
    <2>4. Abstract!MoveTo(scr.vy, a)
      BY <1>1, <2>2, <2>3, PokeIsMove
    <2> HIDE DEF a
    <2> QED BY <1>1, <2>2, <2>4, MoveIsStep
  <1>11. ASSUME NEW y \in Rows, PokeY(y) PROVE Abstract!DNext
    <2> DEFINE b == [scr.xy EXCEPT ![2] = y]
               a == IF scr.vx < scr.vw THEN scr.vx ELSE scr.vw
    <2>1. scr.xy \in Byte \X Byte /\ y \in Byte /\ scr.vx \in 0 .. MaxW - 1
      <3>1. scr.vx < MaxW
        BY <1>1 DEF IInv, Sound
      <3> QED BY <1>1, <1>2, <3>1, SizeAssumption DEF Screen, Byte, Rows
    <2>2. b \in Byte \X Byte /\ a \in 0 .. scr.vw
      BY <1>2, <2>1
    <2>3. phase' = phase /\ scr' = Locate([scr EXCEPT !.xy = b], y, scr.vx)
      BY <1>11, Zenon DEF PokeY
    <2> HIDE DEF b
    <2>4. Abstract!MoveTo(y, a)
      BY <1>1, <2>1, <2>2, <2>3, PokeIsMove
    <2> HIDE DEF a
    <2> QED BY <1>1, <2>2, <2>4, MoveIsStep
  <1>12. ASSUME NEW v \in Widths, Widch(v) PROVE Abstract!DNext
    <2>1. phase' = phase /\ scr' = Width(scr, v)
      BY <1>12 DEF Widch
    <2>2. Blanked(v, scr')
      BY <1>1, <2>1, WidthBlanks
    <2> QED BY <2>1, <2>2, BlankIsWipe DEF Abstract!DNext
  <1>13. CASE Cold
    BY <1>3, <1>13 DEF Cold
  <1>14. CASE ShowCursor \/ HideCursor
    BY <1>1, <1>14, VisibleAlike, AlikeIsStep DEF ShowCursor, HideCursor, IInv
  <1>15. CASE UNCHANGED vars
    BY <1>3, <1>15 DEF vars
  <1> QED
    BY <1>4, <1>5, <1>6, <1>7, <1>8, <1>9, <1>10, <1>11, <1>12, <1>13, <1>14,
       <1>15 DEF Next

(* The screen of scr_initx.                                                *)
LEMMA InitBlanks == Blanked(MaxW, InitScreen)
  <1> DEFINE ch == [r \in Rows |-> [x \in Cols |-> Nul]]
             d == [r \in Rows |-> {}]
             s == [vw |-> MaxW, chr |-> ch, dirty |-> d, ldirty |-> {},
                   cont |-> {}, vx |-> 0, vy |-> 0, vis |-> TRUE,
                   xy |-> <<0, 0>>, px |-> 0, py |-> 0,
                   glass |-> BlankGlass, gx |-> 0, gy |-> 0]
  <1>1. /\ ch \in [Rows -> [Cols -> Cell]] /\ d \in [Rows -> SUBSET Cols]
        /\ BlankGlass \in [PRows -> [PCols -> Cell]]
        /\ {} \in SUBSET Rows /\ TRUE \in BOOLEAN /\ <<0, 0>> \in Byte \X Byte
    BY CharAssumption, SizeFacts DEF Cell, BlankGlass, Byte
  <1>2. InitScreen = Clear(s)
    BY DEF InitScreen
  <1> HIDE DEF ch, d
  <1>3. s \in Screen /\ s.vw = MaxW
    BY <1>1, SizeFacts, Zenon DEF Screen
  <1> HIDE DEF s
  <1> QED BY <1>2, <1>3, ClearBlanks

(* The screen starts as a blank grid that is shown.                        *)
LEMMA InitImplements == Init => Abstract!DInit /\ RInv
  <1> SUFFICES ASSUME Init PROVE Abstract!DInit /\ RInv
    OBVIOUS
  <1>1. IInv /\ phase = "idle" /\ scr = InitScreen
    BY InitIInv DEF Init
  <1>2. /\ Fresh(scr) /\ Blanked(MaxW, scr)
    BY <1>1, InitScreenFacts, InitBlanks
  <1>3. MaxW \in Widths /\ 0 <= MaxW
    BY SizeAssumption DEF Widths
  <1> QED
    BY <1>1, <1>2, <1>3, GridIsText
       DEF RInv, Blanked, Abstract!DInit, Abstract!BlankGrid, Abstract!Line, Rows

(* Together with the step before, this makes RInv an invariant.            *)
LEMMA StepRInv == RInv /\ [Next]_vars => RInv'
  <1> SUFFICES ASSUME RInv, [Next]_vars PROVE RInv'
    OBVIOUS
  <1>1. IInv /\ IInv'
    BY StepIInv DEF RInv
  <1>2. scr'.vx <= scr'.vw
    <2>1. CASE Abstract!DNext
      BY <1>1, <2>1, DisplayKeepsCursor DEF RInv
    <2>2. CASE UNCHANGED Abstract!dvars
      BY <2>2 DEF Abstract!dvars, RInv
    <2> QED BY <1>1, <2>1, <2>2, StepImplements
  <1> QED BY <1>1, <1>2 DEF RInv

(* Console implements Display: what the calls do with marks, flushes, a    *)
(* believed cursor and skipped moves, a program and its user see as a grid *)
(* with a cursor and joined rows that the terminal shows between calls.    *)
THEOREM ConsoleImplementsDisplay == Spec => ImplementsDisplay
  <1>1. RInv /\ [Next]_vars => RInv' /\ [Abstract!DNext]_(Abstract!dvars)
    BY StepRInv, StepImplements DEF RInv
  <1> QED
    BY <1>1, InitImplements, PTL DEF Spec, ImplementsDisplay, Abstract!DSpec

(* Each call takes the step of Display it is named for: scr_vputc puts,    *)
(* scr_vcrlf goes behind the joined rows, scr_vright and scr_vleft move by *)
(* a cell, scr_locate moves where #LOC was asked to go.                    *)
THEOREM CallsAreKept == Spec => CallsKeepPromises
  <1> DEFINE Kept ==
        /\ \A c \in Char : PutAs(c, Abstract!Put(c))
        /\ PutAs("graph", Abstract!Put(Star))
        /\ PutAs("cr", Abstract!LineFeed)
        /\ PutAs("cls", Abstract!Wipe(scr.vw))
        /\ PutAs("down", Abstract!Down)
        /\ PutAs("right", Abstract!Over \/ Abstract!MoveTo(scr.vy, scr.vx + 1))
        /\ PutAs("left", \/ Abstract!MoveTo(scr.vy, scr.vx - 1)
                         \/ scr.vx = 0 /\ Abstract!MoveTo(scr.vy - 1, scr.vw - 1)
                         \/ scr.vx = 0 /\ scr.vy = 0 /\ Abstract!MoveTo(0, 0))
        /\ \A y \in Rows, x \in ScreenCols(scr) :
              LocCall(y, x) => Abstract!MoveTo(y, x)
  <1>1. ASSUME IInv, IInv' PROVE Kept
    <2>1. {"graph", "cr", "cls", "down", "right", "left"} \cup Char \subseteq Code
      BY DEF Code, Control
    <2>2. \A c \in Char : PutAs(c, Abstract!Put(c))
      BY <1>1, <2>1, CharacterSteps DEF PutAs
    <2>3. /\ PutAs("graph", Abstract!Put(Star))
          /\ PutAs("cr", Abstract!LineFeed)
          /\ PutAs("cls", Abstract!Wipe(scr.vw))
          /\ PutAs("down", Abstract!Down)
      BY <1>1, <2>1, CharacterSteps DEF PutAs
    <2>4. PutAs("right", Abstract!Over \/ Abstract!MoveTo(scr.vy, scr.vx + 1))
      BY <1>1, <2>1, CharacterSteps DEF PutAs
    <2>5. PutAs("left", \/ Abstract!MoveTo(scr.vy, scr.vx - 1)
                        \/ scr.vx = 0 /\ Abstract!MoveTo(scr.vy - 1, scr.vw - 1)
                        \/ scr.vx = 0 /\ scr.vy = 0 /\ Abstract!MoveTo(0, 0))
      BY <1>1, <2>1, CharacterSteps DEF PutAs
    <2>6. ASSUME NEW y \in Rows, NEW x \in ScreenCols(scr), LocCall(y, x)
          PROVE  Abstract!MoveTo(y, x)
      <3>1. scr.vw \in 1 .. MaxW
        BY <1>1, SizeFacts DEF IInv, Sound, Screen
      <3>2. x \in 0 .. MaxW - 1 /\ x < scr.vw
        BY <3>1, SizeAssumption DEF ScreenCols
      <3> QED BY <1>1, <2>6, <3>2, LocIsMove
    <2> QED BY <2>2, <2>3, <2>4, <2>5, <2>6
  <1>2. IInv /\ IInv' => [Kept]_vars
    BY <1>1
  <1> HIDE DEF Kept
  <1>3. Spec => [][Kept]_vars
    BY <1>2, Invariant, PTL
  <1> QED BY <1>3 DEF CallsKeepPromises, Kept
=============================================================================
