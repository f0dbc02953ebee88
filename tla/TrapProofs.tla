----------------------------- MODULE TrapProofs -----------------------------
(***************************************************************************)
(* Proofs about TrapLoop, for any memory, any program and any addresses of *)
(* the functions: the types, and that every function returns to where it   *)
(* was called from, or behind its arguments, as long as the program leaves *)
(* the functions alone.                                                    *)
(***************************************************************************)
EXTENDS TrapLoop, SequenceTheorems, WellFoundedInduction, TLAPS

Memory == [Addr -> Byte]
WordValue == {x \in Nat : x < 65536}

(* The numbers of the functions are bytes, and different.                  *)
LEMMA FunctionNumbers ==
    /\ Function = {0, 3, 9, 18, 37, 39, 58} /\ Handler = {0, 3, 9, 18, 37, 58}
    /\ DOMAIN At = Function \cup {HOT} /\ Function \subseteq Byte
BY MachineAssumption
DEF Function, Handler, COLD, HOT, PRINT, MPRNT, PAUSE, MON, GETPC, BOOT, Byte

(* Where things are.                                                       *)
LEMMA Places ==
    /\ Top \in 8 .. 255 /\ Usr \in 0 .. Top - 1 /\ StkAd \in 2 .. Top
    /\ Hot \in 0 .. Top /\ Org \in 0 .. Top
    /\ \A n \in Function \cup {HOT} : At[n] \in 0 .. Top - 2
BY MachineAssumption DEF Function, Addr

(* A word is made of two bytes, *)
LEMMA WordType ==
    ASSUME ram \in Memory, NEW a \in 0 .. Top - 1
    PROVE  Word(a) \in WordValue
<1>1. a \in Addr /\ a + 1 \in Addr
  BY Places DEF Addr
<1>2. ram[a] \in 0 .. 255 /\ ram[a + 1] \in 0 .. 255
  BY <1>1 DEF Memory, Byte
<1> DEFINE x == ram[a]
           y == ram[a + 1]
<1>3. x \in 0 .. 255 /\ y \in 0 .. 255 /\ Word(a) = x + 256 * y
  BY <1>2 DEF Word
<1> HIDE DEF x, y
<1> QED
  BY <1>3 DEF WordValue

(* and taken apart into them.                                              *)
LEMMA Halves ==
    ASSUME NEW x \in WordValue
    PROVE  /\ x % 256 \in Byte /\ x \div 256 \in Byte
           /\ (x % 256) + 256 * (x \div 256) = x
BY DEF WordValue, Byte

(* What a store of a word changes.                                         *)
LEMMA PutWordFacts ==
    ASSUME NEW m \in Memory, NEW a \in 0 .. Top - 1, NEW x \in WordValue
    PROVE  LET n == PutWord(m, a, x)
           IN /\ n \in Memory /\ n[a] + 256 * n[a + 1] = x
              /\ \A b \in Addr \ {a, a + 1} : n[b] = m[b]
<1> DEFINE n == PutWord(m, a, x)
           lo == x % 256
           hi == x \div 256
<1>1. lo \in Byte /\ hi \in Byte /\ lo + 256 * hi = x
  BY Halves
<1> HIDE DEF lo, hi
<1>2. n = [m EXCEPT ![a] = lo, ![a + 1] = hi]
  BY DEF PutWord, lo, hi
<1> HIDE DEF n
<1>3. a \in Addr /\ a + 1 \in Addr /\ a # a + 1
  BY Places DEF Addr
<1>4. n \in Memory
  BY <1>1, <1>2, <1>3 DEF Memory
<1>5. n[a] = lo /\ n[a + 1] = hi /\ \A b \in Addr \ {a, a + 1} : n[b] = m[b]
  BY <1>2, <1>3 DEF Memory
<1> QED
  BY <1>1, <1>4, <1>5 DEF n

(* The same of the memory after a step.                                    *)
LEMMA StoreWord ==
    ASSUME ram \in Memory, NEW a \in 0 .. Top - 1, NEW x \in WordValue,
           ram' = PutWord(ram, a, x)
    PROVE  /\ ram' \in Memory /\ Word(a)' = x
           /\ \A b \in Addr \ {a, a + 1} : ram'[b] = ram[b]
<1>1. Word(a)' = ram'[a] + 256 * ram'[a + 1]
  BY DEF Word
<1> QED
  BY <1>1, PutWordFacts

(* The entries are installed in any memory.                                *)
LEMMA InstalledType == ASSUME NEW m \in Memory PROVE Installed(m) \in Memory
<1> DEFINE Entry(a) == {n \in DOMAIN At : a \in At[n] .. At[n] + 2}
           table == [a \in Addr |->
                       IF Entry(a) = {} THEN m[a]
                       ELSE LET n == CHOOSE n \in Entry(a) : TRUE
                            IN CodeOf(n)[a - At[n] + 1]]
<1>1. ASSUME NEW n \in DOMAIN At, NEW i \in 1 .. 3 PROVE CodeOf(n)[i] \in Byte
  <2>1. n \in Byte /\ Hot \in Byte
    BY FunctionNumbers, Places DEF Byte, HOT
  <2>2. {0, HALT, RET, JP, POPHL, JPHL} \subseteq Byte
    BY DEF HALT, RET, JP, POPHL, JPHL, Byte
  <2>3. i = 1 \/ i = 2 \/ i = 3
    OBVIOUS
  <2> QED
    BY <2>1, <2>2, <2>3 DEF CodeOf
<1>2. table \in Memory
  <2> SUFFICES ASSUME NEW a \in Addr, Entry(a) # {}
               PROVE  LET n == CHOOSE n \in Entry(a) : TRUE
                      IN CodeOf(n)[a - At[n] + 1] \in Byte
    BY DEF Memory
  <2> DEFINE n == CHOOSE n \in Entry(a) : TRUE
  <2>1. n \in Entry(a)
    OBVIOUS
  <2> HIDE DEF n
  <2>2. n \in DOMAIN At /\ a \in At[n] .. At[n] + 2 /\ At[n] \in Nat /\ a \in Nat
    BY <2>1, FunctionNumbers, Places DEF Addr
  <2>3. a - At[n] + 1 \in 1 .. 3
    BY <2>2
  <2> QED
    BY <1>1, <2>2, <2>3 DEF n
<1> HIDE DEF table
<1>3. At[HOT] \in WordValue /\ Usr \in 0 .. Top - 1
  <2>1. At[HOT] \in 0 .. Top - 2 /\ Top \in 8 .. 255
    BY Places
  <2> QED
    BY <2>1, Places DEF WordValue
<1>4. Installed(m) = PutWord(table, Usr, At[HOT])
  BY DEF Installed, table
<1> QED
  BY <1>2, <1>3, <1>4, PutWordFacts

(* A set of naturals has a least element, and Min is it.                   *)
LEMMA MinFacts ==
    ASSUME NEW S, S \subseteq Nat, S # {}
    PROVE  Min(S) \in S /\ \A n \in S : Min(S) <= n
  <1> DEFINE R == OpToRel(<, Nat)
  <1>1. \A n, m \in Nat : n < m => <<n, m>> \in R
    BY DEF OpToRel
  <1>2. IsWellFoundedOn(R, Nat)
    BY NatLessThanWellFounded, Zenon
  <1> HIDE DEF R
  <1>3. PICK m \in S : \A n \in S : ~(<<n, m>> \in R)
    BY <1>2, WFMin
  <1>4. \A n \in S : m <= n
    <2>1. SUFFICES ASSUME NEW n \in S PROVE m <= n
      OBVIOUS
    <2>2. ~(n < m)
      <3>1. n \in Nat /\ m \in Nat
        OBVIOUS
      <3> QED BY <1>1, <1>3, <3>1, Zenon
    <2> QED BY <2>2
  <1> QED BY <1>4 DEF Min

(* The text that #MPRNT prints ends at its first 0.                        *)
LEMMA BehindFacts ==
    ASSUME NEW a \in Addr, \E b \in a .. Top : ram[b] = 0
    PROVE  LET e == BehindText(a)
           IN /\ e \in a + 1 .. Top + 1 /\ ram[e - 1] = 0
              /\ \A b \in a .. e - 2 : ram[b] # 0
<1> DEFINE S == {b \in a .. Top : ram[b] = 0}
           m == Min(S)
<1>1. S # {} /\ S \in SUBSET Nat /\ Top \in Nat /\ a \in Nat
  BY Places DEF Addr
<1>2. m \in S /\ \A y \in S : m <= y
  BY <1>1, MinFacts
<1>3. BehindText(a) = m + 1
  BY DEF BehindText
<1> HIDE DEF m
<1>4. m \in a .. Top /\ ram[m] = 0 /\ \A b \in a .. Top : ram[b] = 0 => m <= b
  BY <1>2
<1> HIDE DEF S
<1> QED
  BY <1>1, <1>3, <1>4

-----------------------------------------------------------------------------
(* The types.                                                              *)
CallRecord == [to : Addr, ret : Addr, sp : 0 .. Top + 1]

(* What is left of the calls when the last has returned.                   *)
LEMMA OverFacts ==
    ASSUME calls \in Seq(CallRecord), Over
    PROVE  /\ calls' \in Seq(CallRecord) /\ Len(calls') <= Len(calls)
           /\ calls # <<>> => Len(calls') = Len(calls) - 1
           /\ \A k \in DOMAIN calls' : k \in DOMAIN calls /\ calls'[k] = calls[k]
<1>1. CASE calls = <<>>
  <2>1. calls' = calls
    BY <1>1 DEF Over
  <2> QED BY <1>1, <2>1
<1>2. CASE calls # <<>>
  <2> DEFINE n == Len(calls) - 1
  <2>1. calls' = SubSeq(calls, 1, n)
    BY <1>2 DEF Over
  <2>2. Len(calls) \in Nat /\ Len(calls) >= 1 /\ DOMAIN calls = 1 .. Len(calls)
    BY <1>2
  <2>3. /\ calls' \in Seq(CallRecord) /\ Len(calls') = n
        /\ \A k \in 1 .. n : calls'[k] = calls[k]
    BY <2>1, <2>2
  <2>4. DOMAIN calls' = 1 .. n
    BY <2>2, <2>3
  <2> QED
    BY <1>2, <2>2, <2>3, <2>4
<1> QED
  BY <1>1, <1>2

(* A word of the stack that can be popped.                                 *)
LEMMA PopFacts ==
    ASSUME TypeOK, CanPop
    PROVE  sp \in 0 .. Top - 1 /\ sp + 2 \in 0 .. Top + 1 /\ Word(sp) \in Addr
BY Places DEF TypeOK, CanPop

LEMMA MachineTypes == TypeOK /\ (Processor \/ Handlers) =>
    /\ ram' \in Memory /\ pc' \in Addr /\ hl' \in Addr /\ de' \in Target
    /\ sp' \in 0 .. Top + 1 /\ mode' \in {"run", "trap", "quit"} /\ broke' \in BOOLEAN
    /\ calls' \in Seq(CallRecord) /\ strayed' \subseteq Addr
<1> SUFFICES ASSUME TypeOK, Processor \/ Handlers
             PROVE  /\ ram' \in Memory /\ pc' \in Addr /\ hl' \in Addr /\ de' \in Target
                    /\ sp' \in 0 .. Top + 1 /\ mode' \in {"run", "trap", "quit"}
                    /\ broke' \in BOOLEAN
                    /\ calls' \in Seq(CallRecord) /\ strayed' \subseteq Addr
  OBVIOUS
<1> USE Places
<1>0. /\ ram \in Memory /\ pc \in Addr /\ hl \in Addr /\ de \in Target /\ de \in Addr
      /\ sp \in 0 .. Top + 1 /\ mode \in {"run", "trap", "quit"} /\ broke \in BOOLEAN
      /\ calls \in Seq(CallRecord) /\ strayed \subseteq Addr
  BY MachineAssumption DEF TypeOK, Memory, CallRecord
<1>1. CASE Call
  <2>1. sp - 2 \in 0 .. Top - 1 /\ pc + 3 \in WordValue /\ pc + 3 \in Addr
    BY <1>0, <1>1 DEF Call, Addr, WordValue
  <2>2. ram' \in Memory
    BY <1>0, <1>1, <2>1, PutWordFacts DEF Call
  <2>3. [to |-> Word(pc + 1), ret |-> pc + 3, sp |-> sp] \in CallRecord
    BY <1>0, <1>1, <2>1 DEF Call, CallRecord
  <2> QED
    BY <1>0, <1>1, <2>1, <2>2, <2>3 DEF Call, Goes
<1>2. CASE Ret
  BY <1>0, <1>2, OverFacts, PopFacts DEF Ret, Goes
<1>3. CASE Jump
  BY <1>0, <1>3 DEF Jump, Goes
<1>4. CASE PopHl
  BY <1>0, <1>4, PopFacts DEF PopHl, Goes, Addr
<1>5. CASE JumpHl
  BY <1>0, <1>5, OverFacts DEF JumpHl, Goes
<1>6. CASE StoreA
  <2>1. PICK a \in {NOP, CALL} : ram' = [ram EXCEPT ![de] = a]
    BY <1>6 DEF StoreA
  <2>2. ram' \in Memory
    BY <1>0, <2>1 DEF Memory, Byte, NOP, CALL
  <2> QED
    BY <1>0, <1>6, <2>2 DEF StoreA, Goes, Addr
<1>7. CASE StoreHl
  <2>1. pc + 1 \in 0 .. Top - 1 /\ hl \in WordValue
    BY <1>0, <1>7 DEF StoreHl, Addr, WordValue
  <2>2. Word(pc + 1) \in 0 .. Top - 1
    BY <1>0, <1>7, <2>1, WordType DEF StoreHl, WordValue
  <2>3. ram' \in Memory
    BY <1>0, <1>7, <2>1, <2>2, PutWordFacts DEF StoreHl
  <2> QED
    BY <1>0, <1>7, <2>3 DEF StoreHl, Goes, Addr
<1>8. CASE Halt
  BY <1>0, <1>8 DEF Halt, Addr
<1>9. ASSUME NEW a \in {"next", "hold"}, Continue(a)
      PROVE  pc' \in Addr /\ mode' = "run"
  BY <1>0, <1>9 DEF Continue, Addr
<1>10. CASE Plain
  BY <1>0, <1>9, <1>10 DEF Plain
<1>11. CASE Mprint
  <2>1. sp \in 0 .. Top - 1 /\ Word(sp) \in Addr
    BY <1>11, PopFacts DEF Mprint
  <2>2. BehindText(Word(sp)) \in Word(sp) + 1 .. Top + 1
    BY <1>11, <2>1, BehindFacts DEF Mprint
  <2>3. BehindText(Word(sp)) \in WordValue
    BY <2>1, <2>2 DEF Addr, WordValue
  <2>4. ram' \in Memory
    BY <1>0, <1>11, <2>1, <2>3, PutWordFacts DEF Mprint
  <2> QED
    BY <1>0, <1>9, <1>11, <2>4 DEF Mprint
<1>12. CASE Pause
  <2>1. sp \in 0 .. Top - 1 /\ Word(sp) \in 0 .. Top - 1
    BY <1>12, PopFacts DEF Pause, Addr
  <2>2. PICK break \in BOOLEAN :
          /\ ram' = PutWord(ram, sp, IF break THEN Word(Word(sp)) ELSE Word(sp) + 2)
          /\ Continue(PauseAnswer(break)) /\ broke' = break
    BY <1>12 DEF Pause
  <2> DEFINE x == IF break THEN Word(Word(sp)) ELSE Word(sp) + 2
  <2>3. x \in WordValue
    <3>1. Word(Word(sp)) \in WordValue
      BY <1>0, <2>1, WordType
    <3>2. Word(sp) + 2 \in WordValue
      BY <2>1 DEF WordValue
    <3> QED BY <3>1, <3>2
  <2>4. ram' \in Memory
    BY <1>0, <2>1, <2>2, <2>3, PutWordFacts
  <2>5. pc' \in Addr /\ mode' = "run"
    BY <1>9, <2>2 DEF PauseAnswer
  <2> QED
    BY <1>0, <1>12, <2>2, <2>4, <2>5 DEF Pause
<1>13. ASSUME Restart, pc' \in Addr
       PROVE  /\ ram' \in Memory /\ sp' \in 0 .. Top + 1 /\ mode' = "run"
              /\ calls' \in Seq(CallRecord)
  BY <1>0, <1>13, InstalledType DEF Restart
<1>14. CASE Cold
  BY <1>0, <1>13, <1>14 DEF Cold, Restart
<1>15. CASE Invalid
  BY <1>0, <1>13, <1>15 DEF Invalid, Restart
<1>16. CASE Quit
  BY <1>0, <1>16 DEF Quit
<1> QED
  BY <1>1, <1>2, <1>3, <1>4, <1>5, <1>6, <1>7, <1>8, <1>10, <1>11, <1>12,
     <1>14, <1>15, <1>16 DEF Processor, Handlers

LEMMA TypesInit == Init => TypeOK
<1> SUFFICES ASSUME Init PROVE TypeOK
  OBVIOUS
<1> USE Places
<1>1. PICK m \in Image : ram = PutWord(Installed(m), StkAd - 2, At[BOOT])
  BY DEF Init, Start
<1>2. m \in Memory
  BY MachineAssumption DEF Memory
<1>3. At[BOOT] \in Addr /\ At[BOOT] \in WordValue /\ StkAd - 2 \in 0 .. Top - 1
  BY FunctionNumbers DEF BOOT, Addr, WordValue
<1>4. ram \in Memory
  BY <1>1, <1>2, <1>3, InstalledType, PutWordFacts
<1>5. [to |-> Org, ret |-> At[BOOT], sp |-> StkAd] \in CallRecord
  BY <1>3 DEF CallRecord, Addr
<1>6. calls \in Seq(CallRecord)
  BY <1>5 DEF Init, Start
<1>7. tidy \in BOOLEAN
  BY DEF Init, Tidy
<1>8. /\ pc \in Addr /\ hl \in Addr /\ de \in Target /\ sp \in 0 .. Top + 1
      /\ mode = "run" /\ broke = FALSE /\ strayed = {}
  BY <1>3 DEF Init, Start, Addr
<1> QED
  BY <1>4, <1>6, <1>7, <1>8 DEF TypeOK, Memory, CallRecord

LEMMA TypesNext == TypeOK /\ [Next]_vars => TypeOK'
<1> SUFFICES ASSUME TypeOK, [Next]_vars PROVE TypeOK'
  OBVIOUS
<1>1. CASE Next
  <2>1. tidy' \in BOOLEAN
    BY <1>1 DEF Next, Tidy, TypeOK
  <2> QED
    BY <1>1, <2>1, MachineTypes DEF Next, TypeOK, Memory, CallRecord
<1>2. CASE UNCHANGED vars
  BY <1>2 DEF vars, machine, TypeOK
<1> QED
  BY <1>1, <1>2

(* Whatever it executes, the machine keeps its types: the processor and    *)
(* the handlers stay in the memory, or stop.                               *)
THEOREM TrapTypes == Spec => []TypeOK
BY TypesInit, TypesNext, PTL DEF Spec

-----------------------------------------------------------------------------
(* The functions.                                                          *)

(* What is in the entry of a function that was left alone.                 *)
LEMMA Entries ==
    ASSUME Tidy
    PROVE  /\ \A n \in Handler :
                 ram[At[n]] = HALT /\ ram[At[n] + 1] = n /\ ram[At[n] + 2] = RET
           /\ ram[At[GETPC]] = POPHL /\ ram[At[GETPC] + 1] = JPHL
<1>1. \A n \in Function, i \in 1 .. 3 : ram[At[n] + i - 1] = CodeOf(n)[i]
  BY DEF Tidy
<1>2. ASSUME NEW n \in Function
      PROVE  /\ ram[At[n]] = CodeOf(n)[1] /\ ram[At[n] + 1] = CodeOf(n)[2]
             /\ ram[At[n] + 2] = CodeOf(n)[3]
  <2>1. At[n] \in Int
    BY <1>2, Places
  <2>2. At[n] + 1 - 1 = At[n] /\ At[n] + 2 - 1 = At[n] + 1 /\ At[n] + 3 - 1 = At[n] + 2
    BY <2>1
  <2>3. 1 \in 1 .. 3 /\ 2 \in 1 .. 3 /\ 3 \in 1 .. 3
    OBVIOUS
  <2> QED
    BY <1>1, <2>2, <2>3
<1>3. ASSUME NEW n \in Handler PROVE CodeOf(n) = <<HALT, n, RET>>
  BY <1>3, FunctionNumbers DEF CodeOf, HOT, GETPC
<1>4. CodeOf(GETPC) = <<POPHL, JPHL, RET>>
  BY DEF CodeOf, HOT, GETPC
<1>5. GETPC \in Function /\ Handler \subseteq Function
  BY DEF Function
<1> QED
  BY <1>2, <1>3, <1>4, <1>5

(* The entries are at different addresses.                                 *)
LEMMA EntriesDiffer ==
    ASSUME Tidy, NEW n \in Function
    PROVE  /\ At[n] = At[MPRNT] => n = MPRNT
           /\ At[n] = At[PAUSE] => n = PAUSE
<1>1. MPRNT \in Handler /\ PAUSE \in Handler /\ (n \in Handler \/ n = GETPC)
  BY DEF Handler, Function
<1>2. POPHL # HALT
  BY DEF POPHL, HALT
<1> QED
  BY <1>1, <1>2, Entries

(* With an instruction of the entries under the program counter there is   *)
(* only one step.                                                          *)
LEMMA OneStep ==
    ASSUME Processor \/ Handlers
    PROVE  /\ mode = "run" /\ ram[pc] = HALT => Halt
           /\ mode = "run" /\ ram[pc] = RET => Ret
           /\ mode = "run" /\ ram[pc] = POPHL => PopHl
           /\ mode = "run" /\ ram[pc] = JPHL => JumpHl
           /\ mode = "run" /\ ram[pc] = LDDEA => StoreA
           /\ mode = "trap" => Handlers
           /\ mode # "quit"
BY DEF Processor, Handlers, Call, Ret, Jump, PopHl, JumpHl, StoreA, StoreHl, Halt,
       Plain, Mprint, Pause, Cold, Invalid, Quit, Opcode, Trap,
       HALT, RET, POPHL, JPHL, LDDEA, JP, CALL, LDHL

(* A trap has the handler of its number.                                   *)
LEMMA OneHandler ==
    ASSUME Handlers, NEW n \in Handler, ram[pc] = n
    PROVE  /\ n \in {PRINT, MON} => Plain
           /\ n = MPRNT => Mprint
           /\ n = PAUSE => Pause
           /\ n = COLD => Cold
           /\ n = BOOT => Quit
BY FunctionNumbers
DEF Handlers, Plain, Mprint, Pause, Cold, Invalid, Quit, Trap,
    PRINT, MON, MPRNT, PAUSE, COLD, BOOT

(* The step in which a function ends, one that is part of it, and one      *)
(* after which there are no calls.                                         *)
Ends(c) == (Ret \/ JumpHl) /\ sp' = c.sp /\ Returns(c, pc')
GoesOn(c, n) == ~(Ret \/ JumpHl) /\ calls' = calls /\ InFunction(c, n)'
Clears == ~(Ret \/ JumpHl) /\ calls' = <<>>

(* #MPRNT goes on behind its text, which the new return address is not in. *)
LEMMA MprintStep ==
    ASSUME TypeOK, Tidy, NEW c \in CallRecord, c.to = At[MPRNT],
           Word(sp) = c.ret, Mprint
    PROVE  Returns(c, Word(sp))'
<1> DEFINE e == BehindText(Word(sp))
<1>1. sp \in 0 .. Top - 1 /\ Word(sp) \in Addr
  BY PopFacts DEF Mprint
<1>2. e \in Word(sp) + 1 .. Top + 1 /\ ram[e - 1] = 0 /\ \A b \in Word(sp) .. e - 2 : ram[b] # 0
  BY <1>1, BehindFacts DEF Mprint
<1>3. sp \notin Word(sp) .. e - 1 /\ sp + 1 \notin Word(sp) .. e - 1
  <2>1. Trap(MPRNT) /\ ~Trap(PAUSE)
    BY DEF Mprint, Trap, MPRNT, PAUSE
  <2>2. Arguments = Word(sp) .. e - 1
    BY <2>1 DEF Arguments
  <2>3. {sp, sp + 1} \cap Arguments = {}
    BY DEF Tidy
  <2> QED BY <2>2, <2>3, Zenon
<1> HIDE DEF e
<1>4. e \in WordValue
  BY <1>1, <1>2, Places DEF Addr, WordValue
<1>5. ram' = PutWord(ram, sp, e)
  BY DEF Mprint, e
<1>6. Word(sp)' = e /\ \A b \in Addr \ {sp, sp + 1} : ram'[b] = ram[b]
  <2>1. sp' = sp
    BY DEF Mprint
  <2>2. PICK s \in 0 .. Top - 1 : s = sp
    BY <1>1
  <2>3. /\ Word(s)' = e /\ \A b \in Addr \ {s, s + 1} : ram'[b] = ram[b]
    <3>1. ram \in Memory
      BY DEF TypeOK, Memory
    <3>2. PICK x \in WordValue : x = e
      BY <1>4
    <3>3. ram' = PutWord(ram, s, x)
      BY <1>5, <2>2, <3>2
    <3> QED BY <3>1, <3>2, <3>3, StoreWord
  <2> QED BY <2>1, <2>2, <2>3 DEF Word
<1>7. \A b \in c.ret .. e - 1 : ram'[b] = ram[b]
  <2> SUFFICES ASSUME NEW b \in c.ret .. e - 1 PROVE ram'[b] = ram[b]
    OBVIOUS
  <2>1. b \in Addr /\ b # sp /\ b # sp + 1
    BY <1>1, <1>2, <1>3, Places DEF Addr
  <2> QED BY <1>6, <2>1
<1>8. c.ret \in Nat /\ e \in Nat /\ e - 1 \in c.ret .. e - 1
  BY <1>1, <1>2, Places DEF Addr
<1>9. e > c.ret /\ ram'[e - 1] = 0 /\ \A b \in c.ret .. e - 2 : ram'[b] # 0
  <2>1. \A b \in c.ret .. e - 2 : b \in c.ret .. e - 1
    BY <1>8
  <2> QED BY <1>2, <1>7, <1>8, <2>1
<1>10. At[PAUSE] # At[MPRNT]
  BY EntriesDiffer DEF Function, Handler, MPRNT, PAUSE
<1> QED
  BY <1>6, <1>9, <1>10 DEF Returns

(* #PAUSE goes on behind its argument, or where it says.                   *)
LEMMA PauseStep ==
    ASSUME TypeOK, Tidy, NEW c \in CallRecord, c.to = At[PAUSE],
           Word(sp) = c.ret, Pause
    PROVE  /\ Returns(c, Word(sp))'
           /\ mode' = "run" /\ pc' = IF broke' THEN pc ELSE pc + 1
<1>1. sp \in 0 .. Top - 1 /\ c.ret \in 0 .. Top - 1
  BY PopFacts, Places DEF Pause, Addr
<1>2. PICK break \in BOOLEAN :
         /\ ram' = PutWord(ram, sp, IF break THEN Word(c.ret) ELSE c.ret + 2)
         /\ Continue(PauseAnswer(break)) /\ broke' = break
  <2>1. PICK break \in BOOLEAN :
           /\ ram' = PutWord(ram, sp, IF break THEN Word(Word(sp)) ELSE Word(sp) + 2)
           /\ Continue(PauseAnswer(break)) /\ broke' = break
    BY DEF Pause
  <2> QED BY <2>1
<1>3. PICK s \in 0 .. Top - 1 : s = sp
  BY <1>1
<1>4. PICK x : x = IF break THEN Word(c.ret) ELSE c.ret + 2
  OBVIOUS
<1>5. ram \in Memory
  BY DEF TypeOK, Memory
<1>6. x \in WordValue
  <2>1. Word(c.ret) \in WordValue
    BY <1>1, <1>5, WordType
  <2>2. c.ret + 2 \in WordValue
    BY <1>1, Places DEF WordValue
  <2> QED BY <1>4, <2>1, <2>2
<1>7. ram' = PutWord(ram, s, x)
  BY <1>2, <1>3, <1>4
<1>8. Word(s)' = x /\ \A b \in Addr \ {s, s + 1} : ram'[b] = ram[b]
  BY <1>5, <1>6, <1>7, StoreWord
<1>9. c.ret \notin {s, s + 1} /\ c.ret + 1 \notin {s, s + 1}
  <2>1. Trap(PAUSE) /\ ~Trap(MPRNT)
    BY DEF Pause, Trap, PAUSE, MPRNT
  <2>2. Arguments = {c.ret, c.ret + 1}
    BY <2>1 DEF Arguments
  <2>3. {s, s + 1} \cap Arguments = {}
    BY <1>3 DEF Tidy
  <2> QED BY <2>2, <2>3, Zenon
<1>10. Word(c.ret)' = Word(c.ret)
  <2>1. c.ret \in Addr \ {s, s + 1} /\ c.ret + 1 \in Addr \ {s, s + 1}
    BY <1>1, <1>9, Places DEF Addr
  <2> QED BY <1>8, <2>1 DEF Word
<1>11. Word(sp)' = x /\ (break => x = Word(c.ret)') /\ (~break => x = c.ret + 2)
  <2>1. sp' = sp
    BY DEF Pause
  <2> QED BY <1>3, <1>4, <1>8, <1>10, <2>1 DEF Word
<1>12. At[PAUSE] # At[MPRNT]
  BY EntriesDiffer DEF Function, Handler, MPRNT, PAUSE
<1>13. Returns(c, Word(sp))'
  BY <1>2, <1>11, <1>12 DEF Returns
<1>14. mode' = "run" /\ pc' = IF break THEN pc ELSE pc + 1
  BY <1>2 DEF Continue, PauseAnswer
<1> QED
  BY <1>2, <1>13, <1>14

(* A step while a function runs is the next of the function, up to the one *)
(* that returns; or there are no calls any more.                           *)
LEMMA FunctionStep ==
    ASSUME TypeOK, Tidy, Processor \/ Handlers,
           NEW c \in CallRecord, NEW n \in Function, c.to = At[n],
           calls # <<>>, c = LastCall, InFunction(c, n)
    PROVE  Ends(c) \/ GoesOn(c, n) \/ Clears
<1> USE Places
<1>0. /\ ram \in Memory /\ At[n] \in 0 .. Top - 2 /\ c.sp \in Int /\ sp \in Int
      /\ calls \in Seq(CallRecord) /\ pc \in Int
  BY DEF TypeOK, Memory, CallRecord, Addr
<1>1. n \in Handler \/ n = GETPC
  BY DEF Function
<1>2. PRINT \in Handler /\ MPRNT \in Handler /\ PAUSE \in Handler /\ MON \in Handler
  BY DEF Handler
<1>3. ASSUME pc = At[n], mode = "run", sp = c.sp - 2, Word(sp) = c.ret
      PROVE  GoesOn(c, n)
  <2>1. CASE n \in Handler
    <3>1. Halt
      BY <1>3, <2>1, Entries, OneStep
    <3>2. /\ pc' = At[n] + 1 /\ mode' = "trap" /\ sp' = sp /\ Word(sp)' = Word(sp)
          /\ calls' = calls /\ ~(Ret \/ JumpHl)
      BY <1>3, <3>1 DEF Halt, Word, Ret, JumpHl, Opcode, HALT, RET, JPHL
    <3> QED BY <1>3, <2>1, <3>2 DEF GoesOn, InFunction
  <2>2. CASE n = GETPC
    <3>1. PopHl
      BY <1>3, <2>2, Entries, OneStep
    <3>2. /\ pc' = At[n] + 1 /\ mode' = "run" /\ sp' = c.sp /\ hl' = c.ret
          /\ calls' = calls /\ ~(Ret \/ JumpHl)
      BY <1>0, <1>3, <3>1 DEF PopHl, Goes, Ret, JumpHl, Opcode, POPHL, RET, JPHL
    <3> QED BY <1>3, <2>2, <3>2 DEF GoesOn, InFunction
  <2> QED BY <1>1, <2>1, <2>2
<1>4. ASSUME pc = At[n] + 2, mode = "run", n \in {PRINT, MPRNT, PAUSE, MON},
             sp = c.sp - 2, Returns(c, Word(sp))
      PROVE  Ends(c)
  <2>1. Ret
    BY <1>2, <1>4, Entries, OneStep
  <2>2. sp' = c.sp /\ pc' = Word(sp)
    BY <1>0, <1>4, <2>1 DEF Ret, Goes
  <2> QED BY <1>4, <2>1, <2>2 DEF Ends
<1>5. ASSUME pc = At[n] + 1, mode = "run", n = PAUSE, broke,
             sp = c.sp - 2, Returns(c, Word(sp))
      PROVE  GoesOn(c, n)
  <2>1. ram[pc] = LDDEA
    BY <1>2, <1>5, Entries DEF PAUSE, LDDEA
  <2>2. StoreA
    BY <1>5, <2>1, OneStep
  <2>3. /\ pc' = At[n] + 2 /\ mode' = "run" /\ sp' = sp /\ broke' = broke
        /\ calls' = calls /\ ~(Ret \/ JumpHl)
    BY <1>0, <1>5, <2>2 DEF StoreA, Goes, Ret, JumpHl, Opcode, LDDEA, RET, JPHL
  <2>4. de \notin {sp, sp + 1, c.ret, c.ret + 1}
    <3>1. Opcode(LDDEA) /\ calls # <<>>
      BY <1>5, <2>1 DEF Opcode
    <3>2. Opcode(LDDEA) /\ calls # <<>> =>
             de \notin {sp, sp + 1, LastCall.ret, LastCall.ret + 1}
      BY DEF Tidy
    <3> QED BY <3>1, <3>2
  <2>5. \A b : b # de => ram'[b] = ram[b]
    <3>1. PICK a \in {NOP, CALL} : ram' = [ram EXCEPT ![de] = a]
      BY <2>2 DEF StoreA
    <3> QED BY <1>0, <3>1 DEF Memory
  <2>6. Word(sp)' = Word(sp) /\ Word(c.ret)' = Word(c.ret)
    BY <2>3, <2>4, <2>5 DEF Word
  <2>7. c.to # At[MPRNT]
    BY <1>5, EntriesDiffer DEF Function, Handler, MPRNT, PAUSE
  <2>8. Returns(c, Word(sp))'
    BY <1>5, <2>3, <2>6, <2>7 DEF Returns
  <2> QED
    BY <1>5, <2>3, <2>8 DEF GoesOn, InFunction
<1>6. ASSUME pc = At[n] + 1, mode = "run", n = GETPC, sp = c.sp, hl = c.ret
      PROVE  Ends(c)
  <2>1. JumpHl
    BY <1>6, Entries, OneStep
  <2>2. sp' = c.sp /\ pc' = c.ret
    BY <1>6, <2>1 DEF JumpHl, Goes
  <2>3. c.to \notin {At[MPRNT], At[PAUSE]}
    BY <1>6, EntriesDiffer DEF MPRNT, PAUSE, GETPC
  <2> QED BY <2>1, <2>2, <2>3 DEF Ends, Returns
<1>7. ASSUME mode = "trap", pc = At[n] + 1, n \in Handler, sp = c.sp - 2,
             Word(sp) = c.ret
      PROVE  GoesOn(c, n) \/ Clears
  <2>1. ram[pc] = n /\ Handlers /\ ~(Ret \/ JumpHl)
    BY <1>7, Entries, OneStep DEF Ret, JumpHl, Opcode
  <2>2. CASE n \in {PRINT, MON}
    <3>1. Plain
      BY <1>7, <2>1, <2>2, OneHandler
    <3>2. /\ pc' = At[n] + 2 /\ mode' = "run" /\ sp' = sp /\ Word(sp)' = Word(sp)
          /\ calls' = calls
      BY <1>0, <1>7, <3>1 DEF Plain, Continue, Word
    <3>3. c.to \notin {At[MPRNT], At[PAUSE]}
      BY <2>2, EntriesDiffer DEF MPRNT, PAUSE, PRINT, MON
    <3>4. Returns(c, Word(sp))'
      BY <1>7, <3>2, <3>3 DEF Returns
    <3> QED BY <1>7, <2>1, <2>2, <3>2, <3>4 DEF GoesOn, InFunction
  <2>3. CASE n = MPRNT
    <3>1. Mprint
      BY <1>7, <2>1, <2>3, OneHandler
    <3>2. pc' = At[n] + 2 /\ mode' = "run" /\ sp' = sp /\ calls' = calls
      BY <1>0, <1>7, <3>1 DEF Mprint, Continue
    <3>3. Returns(c, Word(sp))'
      BY <1>7, <2>3, <3>1, MprintStep
    <3> QED BY <1>7, <2>1, <2>3, <3>2, <3>3 DEF GoesOn, InFunction
  <2>4. CASE n = PAUSE
    <3>1. Pause
      BY <1>7, <2>1, <2>4, OneHandler
    <3>2. /\ Returns(c, Word(sp))'
          /\ mode' = "run" /\ pc' = IF broke' THEN pc ELSE pc + 1
      BY <1>7, <2>4, <3>1, PauseStep
    <3>3. sp' = sp /\ calls' = calls /\ broke' \in BOOLEAN
      BY <3>1 DEF Pause
    <3> QED
      BY <1>0, <1>7, <2>1, <2>4, <3>2, <3>3 DEF GoesOn, InFunction
  <2>5. CASE n = COLD
    <3>1. Cold
      BY <1>7, <2>1, <2>5, OneHandler
    <3> QED BY <2>1, <3>1 DEF Clears, Cold, Restart
  <2>6. CASE n = BOOT
    <3>1. Quit
      BY <1>7, <2>1, <2>6, OneHandler
    <3>2. mode' = "quit" /\ calls' = calls
      BY <3>1 DEF Quit
    <3> QED BY <2>1, <3>2 DEF GoesOn, InFunction
  <2> QED BY <1>7, <2>2, <2>3, <2>4, <2>5, <2>6 DEF Handler
<1>8. mode = "run" \/ mode = "trap"
  BY OneStep DEF TypeOK
<1> QED
  BY <1>3, <1>4, <1>5, <1>6, <1>7, <1>8 DEF InFunction

(* While no call of a function is there, only a call makes one.            *)
LEMMA QuietStep ==
    ASSUME TypeOK, Processor \/ Handlers,
           \A k \in DOMAIN calls, n \in Function : calls[k].to # At[n]
    PROVE  FunctionInv'
<1>0. calls \in Seq(CallRecord) /\ DOMAIN calls = 1 .. Len(calls) /\ Len(calls) \in Nat
  BY DEF TypeOK, CallRecord
<1>1. CASE Call
  <2> DEFINE c == [to |-> Word(pc + 1), ret |-> pc + 3, sp |-> sp]
  <2>1. /\ Word(pc + 1) \in Addr /\ pc + 3 \in WordValue /\ sp - 2 \in 0 .. Top - 1
        /\ ram \in Memory /\ pc + 3 \in Addr /\ sp \in 0 .. Top + 1
    <3>1. /\ ram \in Memory /\ pc \in 0 .. Top /\ sp \in 0 .. Top + 1
      BY DEF TypeOK, Addr, Memory
    <3>2. pc + 3 <= Top /\ Word(pc + 1) \in Addr /\ sp >= 2
      BY <1>1 DEF Call
    <3>3. sp - 2 \in 0 .. Top - 1 /\ pc + 3 \in Addr
      BY <3>1, <3>2, Places DEF Addr
    <3> QED BY <3>1, <3>2, <3>3, Places DEF Addr, WordValue
  <2>2. c \in CallRecord
    BY <2>1 DEF CallRecord
  <2>3. calls' = Append(calls, c)
    BY <1>1 DEF Call
  <2>4. PICK d : d = c
    OBVIOUS
  <2>5. /\ Len(calls') = Len(calls) + 1 /\ calls'[Len(calls')] = d
        /\ \A k \in 1 .. Len(calls) : calls'[k] = calls[k]
        /\ DOMAIN calls' = 1 .. Len(calls')
    <3>1. d \in CallRecord /\ calls' = Append(calls, d)
      BY <2>2, <2>3, <2>4
    <3> QED BY <1>0, <3>1
  <2>6. pc' = d.to /\ sp' = d.sp - 2 /\ mode' = "run" /\ Word(sp)' = d.ret
    <3>1. pc' = c.to /\ sp' = c.sp - 2 /\ mode' = "run"
      BY <1>1 DEF Call, Goes, Opcode
    <3>2. PICK s \in 0 .. Top - 1 : s = sp - 2
      BY <2>1
    <3>3. PICK x \in WordValue : x = pc + 3
      BY <2>1
    <3>4. ram' = PutWord(ram, s, x)
      BY <1>1, <3>2, <3>3 DEF Call
    <3>5. Word(s)' = x
      BY <2>1, <3>4, StoreWord
    <3>6. Word(sp)' = c.ret
      BY <3>1, <3>2, <3>3, <3>5 DEF Word
    <3> QED BY <2>4, <3>1, <3>6
  <2>7. ASSUME NEW n \in Function, d.to = At[n] PROVE InFunction(d, n)'
    BY <2>6, <2>7 DEF InFunction
  <2>8. ASSUME NEW k \in DOMAIN calls', NEW n \in Function, calls'[k].to = At[n]
        PROVE  k = Len(calls') /\ calls'[k] = d
    <3>1. k \in 1 .. Len(calls) => calls'[k].to # At[n]
      BY <1>0, <2>5
    <3> QED BY <1>0, <2>5, <2>8, <3>1
  <2> QED BY <2>7, <2>8 DEF FunctionInv, InFunction, Returns, Word
<1>2. ASSUME ~Call
      PROVE  \A k \in DOMAIN calls' : k \in DOMAIN calls /\ calls'[k] = calls[k]
  <2>1. calls' = calls \/ calls' = <<>> \/ Over
    BY <1>2 DEF Processor, Handlers, Ret, Jump, PopHl, JumpHl, StoreA, StoreHl, Halt,
                Plain, Mprint, Pause, Cold, Invalid, Quit, Restart
  <2>2. calls' = <<>> => DOMAIN calls' = {}
    OBVIOUS
  <2> QED BY <1>0, <2>1, <2>2, OverFacts, Zenon
<1>3. CASE ~Call
  BY <1>2, <1>3 DEF FunctionInv
<1> QED
  BY <1>1, <1>3

-----------------------------------------------------------------------------
FInv == TypeOK /\ (tidy => Tidy) /\ FunctionInv

LEMMA FunctionInit == Init => FInv
<1> SUFFICES ASSUME Init PROVE FInv
  OBVIOUS
<1>1. TypeOK /\ tidy = Tidy
  BY TypesInit DEF Init
<1>2. ASSUME NEW k \in DOMAIN calls, NEW n \in Function, calls[k].to = At[n]
      PROVE  k = Len(calls) /\ InFunction(calls[k], n)
  <2> DEFINE c == [to |-> Org, ret |-> At[BOOT], sp |-> StkAd]
  <2>1. calls = <<c>> /\ mode = "run" /\ pc = Org /\ sp = StkAd - 2
    BY DEF Init, Start
  <2>2. k = Len(calls) /\ calls[k] = c
    BY <1>2, <2>1
  <2>3. Word(sp) = At[BOOT]
    <3>1. PICK m \in Image : ram = PutWord(Installed(m), StkAd - 2, At[BOOT])
      BY DEF Init, Start
    <3>2. m \in Memory
      BY MachineAssumption DEF Memory
    <3>3. At[BOOT] \in WordValue /\ StkAd - 2 \in 0 .. Top - 1
      BY FunctionNumbers, Places DEF BOOT, WordValue
    <3> QED
      BY <2>1, <3>1, <3>2, <3>3, InstalledType, PutWordFacts DEF Word
  <2>4. InFunction(c, n)
    BY <1>2, <2>1, <2>2, <2>3 DEF InFunction
  <2> QED BY <2>2, <2>4
<1> QED
  BY <1>1, <1>2 DEF FInv, FunctionInv

(* A step in which the functions are left alone, from a state with calls   *)
(* of functions or without.                                                *)
LEMMA FunctionNext == FInv /\ [Next]_vars => FInv' /\ [FunctionReturns]_vars
<1> SUFFICES ASSUME FInv, [Next]_vars PROVE FInv' /\ [FunctionReturns]_vars
  OBVIOUS
<1> USE DEF FInv
<1>1. TypeOK'
  BY TypesNext
<1>2. CASE UNCHANGED vars
  <2>1. UNCHANGED <<ram, pc, sp, hl, de, mode, broke, calls, strayed, tidy>>
    BY <1>2 DEF vars, machine
  <2>2. Tidy' <=> Tidy
    BY <2>1 DEF Tidy, Arguments, Trap, Opcode, Word, BehindText, LastCall
  <2>3. FunctionInv'
    BY <2>1 DEF FunctionInv, InFunction, Returns, Word
  <2> QED BY <1>1, <1>2, <2>1, <2>2, <2>3
<1>3. CASE Next
  <2>1. (Processor \/ Handlers) /\ (tidy' <=> tidy /\ Tidy')
    BY <1>3 DEF Next
  <2>2. CASE ~tidy
    BY <1>1, <2>1, <2>2 DEF FunctionInv, FunctionReturns
  <2>3. CASE tidy
    <3>0. Tidy /\ calls \in Seq(CallRecord) /\ DOMAIN calls = 1 .. Len(calls) /\ Len(calls) \in Nat
      BY <2>3 DEF TypeOK, CallRecord
    <3>1. CASE \A k \in DOMAIN calls, n \in Function : calls[k].to # At[n]
      <4>1. FunctionInv'
        BY <2>1, <3>1, QuietStep
      <4>2. calls # <<>> => LastCall.to \notin {At[n] : n \in Function}
        <5>1. calls # <<>> => Len(calls) \in DOMAIN calls
          BY <3>0
        <5> QED BY <3>1, <5>1 DEF LastCall
      <4> QED BY <1>1, <2>1, <4>1, <4>2 DEF FunctionReturns
    <3>2. CASE \E k \in DOMAIN calls, n \in Function : calls[k].to = At[n]
      <4>1. PICK k \in DOMAIN calls, n \in Function : calls[k].to = At[n]
        BY <3>2
      <4>2. k = Len(calls) /\ InFunction(calls[k], n) /\ calls # <<>>
        BY <2>3, <3>0, <4>1 DEF FunctionInv
      <4>3. PICK c \in CallRecord : c = calls[k]
        BY <3>0, <4>1
      <4>4. c = LastCall /\ c.to = At[n] /\ InFunction(c, n)
        BY <4>1, <4>2, <4>3 DEF LastCall
      <4>5. Ends(c) \/ GoesOn(c, n) \/ Clears
        BY <2>1, <3>0, <4>2, <4>4, FunctionStep
      <4>6. FunctionReturns
        BY <4>4, <4>5 DEF FunctionReturns, Ends, GoesOn, Clears
      <4>7. CASE Ends(c)
        <5>1. Over
          BY <4>7 DEF Ends, Ret, JumpHl
        <5>2. ASSUME NEW i \in DOMAIN calls', NEW m \in Function
              PROVE  calls'[i].to # At[m]
          <6>1. /\ Len(calls') = Len(calls) - 1 /\ calls' \in Seq(CallRecord)
                /\ i \in DOMAIN calls /\ calls'[i] = calls[i]
            BY <3>0, <4>2, <5>1, OverFacts, Zenon
          <6>2. i <= Len(calls) - 1
            BY <3>0, <6>1
          <6>3. i # Len(calls)
            BY <3>0, <6>2
          <6> QED BY <2>3, <6>1, <6>3 DEF FunctionInv
        <5> QED BY <1>1, <2>1, <4>6, <5>2 DEF FunctionInv
      <4>8. CASE Clears
        <5>1. DOMAIN calls' = {}
          BY <4>8 DEF Clears
        <5> QED BY <1>1, <2>1, <4>6, <5>1 DEF FunctionInv
      <4>9. CASE GoesOn(c, n)
        <5>1. calls' = calls /\ InFunction(c, n)'
          BY <4>9 DEF GoesOn
        <5>2. ASSUME NEW i \in DOMAIN calls', NEW m \in Function,
                     calls'[i].to = At[m]
              PROVE  i = Len(calls') /\ calls'[i] = c /\ InFunction(c, m)'
          <6>1. i = Len(calls') /\ calls'[i] = c
            BY <2>3, <4>2, <4>3, <5>1, <5>2 DEF FunctionInv
          <6>2. InFunction(calls[i], m) /\ calls[i] = c
            BY <2>3, <4>3, <5>1, <5>2, <6>1 DEF FunctionInv
          <6>3. c.to = At[m] /\ InFunction(c, m)
            BY <5>2, <6>1, <6>2
          <6>4. Ends(c) \/ GoesOn(c, m) \/ Clears
            BY <2>1, <3>0, <4>2, <4>4, <6>3, FunctionStep
          <6>5. InFunction(c, m)'
            BY <4>2, <4>9, <5>1, <6>4 DEF Ends, GoesOn, Clears
          <6> QED BY <6>1, <6>5
        <5>3. FunctionInv'
          BY <5>2 DEF FunctionInv, InFunction, Returns, Word
        <5> QED BY <1>1, <2>1, <4>6, <5>3
      <4> QED BY <4>5, <4>7, <4>8, <4>9
    <3> QED BY <3>1, <3>2
  <2> QED BY <2>2, <2>3
<1> QED
  BY <1>2, <1>3

(* A function that was called runs alone, and only its own code until it   *)
(* returns.                                                                *)
THEOREM FunctionsRunAlone == Spec => []FunctionInv
<1>1. FInv => FunctionInv
  BY DEF FInv
<1> QED
  BY <1>1, FunctionInit, FunctionNext, PTL DEF Spec

(* For any program that leaves the entries and the return address of the   *)
(* function alone, every call of a function comes back behind the call, or *)
(* behind its text or argument, with the stack as it was.                  *)
THEOREM EveryFunctionReturns == Spec => FunctionsReturn
BY FunctionInit, FunctionNext, PTL DEF Spec, FunctionsReturn
=============================================================================
