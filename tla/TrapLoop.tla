------------------------------- MODULE TrapLoop -------------------------------
(***************************************************************************)
(* How a program calls the emulator (z80loop in src/src/sos.c, trap in     *)
(* src/src/trap.c, HALT in src/src/simz80.c).  The entry of a function is  *)
(* HALT, its number and RET: the processor stops with the program counter  *)
(* on the number, the handler runs and answers where to go on.  #MPRNT and *)
(* #PAUSE take arguments from behind the call, and so move the return      *)
(* address.                                                                *)
(*                                                                         *)
(* Of the processor there are the instructions of the entries and those a  *)
(* program needs to call them.  A program that gets to any other, or out   *)
(* of the memory, has left the model and stops in it.                      *)
(***************************************************************************)
EXTENDS Integers, Sequences, FiniteSets, FiniteSetsExt

CONSTANTS
    Top,            \* bound: the last address; the high byte of a word is 0
    At,             \* calladdr: where the entries of the functions are
    Hot,            \* the code of the DOS module that #HOT jumps to
    Usr, StkAd,     \* #USR, EM_STKAD
    Image,          \* the memories a program may be started in
    Org,            \* where it starts
    Target          \* values of DE

Addr == 0 .. Top
Byte == 0 .. 255

(* Numbers of functions are indices of sos_funcs.                          *)
COLD == 0  HOT == 1  PRINT == 3  MPRNT == 9  PAUSE == 18  MON == 37
GETPC == 39  BOOT == 58
Handler == {COLD, PRINT, MPRNT, PAUSE, MON, BOOT}

(* Opcodes.                                                                *)
NOP == 0  LDDEA == 18  LDHL == 34  HALT == 118  JP == 195  RET == 201  CALL == 205
POPHL == 225  JPHL == 233

ASSUME MachineAssumption ==
    /\ Top \in 8 .. 255
    /\ At \in [Handler \cup {HOT, GETPC} -> 0 .. Top - 2]
    /\ Hot \in Addr /\ Org \in Addr /\ Usr \in 0 .. Top - 1
    /\ StkAd \in 2 .. Top
    /\ Image \subseteq [Addr -> Byte]
    /\ Target \subseteq Addr

VARIABLES
    ram, pc, sp,
    hl, de,
    mode,           \* "run"; "trap": stopped by HALT; "quit"
    broke,          \* the last #PAUSE was answered with the break key
    calls,          \* history: the calls that have not returned
    strayed,        \* history: where LD (DE),A has stored
    tidy            \* history: the functions were left alone

machine == <<ram, pc, sp, hl, de, mode, broke, calls, strayed>>
vars == <<machine, tidy>>

-----------------------------------------------------------------------------
Word(a) == ram[a] + 256 * ram[a + 1]

(* A bug it could have: the word is not cut to its low byte.               *)
PutWordWide(m, a, x) == [m EXCEPT ![a] = x, ![a + 1] = x \div 256]

PutWord(m, a, x) == [m EXCEPT ![a] = x % 256, ![a + 1] = x \div 256]

(* trap_init: the entries, the two tricks for #GETPC and the word #USR.    *)
CodeOf(n) ==
    CASE n = HOT -> <<JP, Hot, 0>>
      [] n = GETPC -> <<POPHL, JPHL, RET>>
      [] OTHER -> <<HALT, n, RET>>

Installed(m) ==
    LET Entry(a) == {n \in DOMAIN At : a \in At[n] .. At[n] + 2}
        table == [a \in Addr |->
                    IF Entry(a) = {} THEN m[a]
                    ELSE LET n == CHOOSE n \in Entry(a) : TRUE
                         IN CodeOf(n)[a - At[n] + 1]]
    IN PutWord(table, Usr, At[HOT])

TypeOK ==
    /\ ram \in [Addr -> Byte]
    /\ pc \in Addr /\ hl \in Addr /\ de \in Target
    /\ sp \in 0 .. Top + 1
    /\ mode \in {"run", "trap", "quit"}
    /\ broke \in BOOLEAN
    /\ calls \in Seq([to : Addr, ret : Addr, sp : 0 .. Top + 1])
    /\ strayed \subseteq Addr
    /\ tidy \in BOOLEAN

(* main with -j: the program is loaded, and returns to #BOOT.              *)
Start ==
    /\ \E m \in Image :
          ram = PutWord(Installed(m), StkAd - 2, At[BOOT])
    /\ pc = Org /\ sp = StkAd - 2
    /\ hl = 0 /\ de \in Target
    /\ mode = "run" /\ broke = FALSE
    /\ calls = <<[to |-> Org, ret |-> At[BOOT], sp |-> StkAd]>>
    /\ strayed = {}

-----------------------------------------------------------------------------
(* The processor.                                                          *)

Goes(a) == pc' = a /\ UNCHANGED mode

(* The last call has returned.                                             *)
Over == calls' = IF calls = <<>> THEN calls ELSE SubSeq(calls, 1, Len(calls) - 1)

Opcode(op) == mode = "run" /\ ram[pc] = op

Call ==
    /\ Opcode(CALL)
    /\ pc + 3 <= Top /\ Word(pc + 1) \in Addr /\ sp >= 2
    /\ ram' = PutWord(ram, sp - 2, pc + 3)
    /\ sp' = sp - 2
    /\ Goes(Word(pc + 1))
    /\ calls' = Append(calls, [to |-> Word(pc + 1), ret |-> pc + 3, sp |-> sp])
    /\ UNCHANGED <<hl, de, broke, strayed>>

CanPop == sp < Top /\ Word(sp) \in Addr

Ret ==
    /\ Opcode(RET) /\ CanPop
    /\ sp' = sp + 2
    /\ Goes(Word(sp))
    /\ Over
    /\ UNCHANGED <<ram, hl, de, broke, strayed>>

Jump ==
    /\ Opcode(JP)
    /\ pc + 2 <= Top /\ Word(pc + 1) \in Addr
    /\ Goes(Word(pc + 1))
    /\ UNCHANGED <<ram, sp, hl, de, broke, calls, strayed>>

(* POP HL and JP (HL), by which #GETPC returns.                            *)
PopHl ==
    /\ Opcode(POPHL) /\ CanPop /\ pc < Top
    /\ hl' = Word(sp) /\ sp' = sp + 2
    /\ Goes(pc + 1)
    /\ UNCHANGED <<ram, de, broke, calls, strayed>>

JumpHl ==
    /\ Opcode(JPHL)
    /\ Goes(hl)
    /\ Over
    /\ UNCHANGED <<ram, sp, hl, de, broke, strayed>>

StoreA ==
    /\ Opcode(LDDEA) /\ pc < Top
    /\ \E a \in {NOP, CALL} : ram' = [ram EXCEPT ![de] = a]
    /\ strayed' = strayed \cup {de}
    /\ Goes(pc + 1)
    /\ UNCHANGED <<sp, hl, de, broke, calls>>

(* LD (nn),HL, by which a program hooks #USR.                              *)
StoreHl ==
    /\ Opcode(LDHL)
    /\ pc + 3 <= Top /\ Word(pc + 1) < Top
    /\ ram' = PutWord(ram, Word(pc + 1), hl)
    /\ Goes(pc + 3)
    /\ UNCHANGED <<sp, hl, de, broke, calls, strayed>>

(* HALT: simz80 returns the address behind it.                             *)
Halt ==
    /\ Opcode(HALT) /\ pc < Top
    /\ pc' = pc + 1 /\ mode' = "trap"
    /\ UNCHANGED <<ram, sp, hl, de, broke, calls, strayed>>

-----------------------------------------------------------------------------
(* The handlers, and what z80loop does with their answers.                 *)

Trap(n) == mode = "trap" /\ ram[pc] = n

(* TRAP_NEXT and TRAP_HOLD.                                                *)
Continue(answer) ==
    /\ answer = "next" => pc < Top
    /\ mode' = "run"
    /\ pc' = IF answer = "next" THEN pc + 1 ELSE pc

(* TRAP_COLD: the work area and the stack are set up again.                *)
Restart ==
    /\ mode' = "run"
    /\ ram' = Installed(ram) /\ sp' = StkAd
    /\ calls' = <<>>
    /\ UNCHANGED <<hl, de, broke, strayed>>

(* A function that takes and leaves no more than registers; the monitor,   *)
(* after which the program goes on too.                                    *)
Plain ==
    /\ Trap(PRINT) \/ Trap(MON)
    /\ Continue("next")
    /\ UNCHANGED <<ram, sp, hl, de, broke, calls, strayed>>

(* The bug it could have: the 0 is not skipped.                            *)
BehindTextAtEnd(a) == Min({b \in a .. Top : ram[b] = 0})

(* The address behind the 0 that ends the text at a.                       *)
BehindText(a) == Min({b \in a .. Top : ram[b] = 0}) + 1

Mprint ==
    /\ Trap(MPRNT) /\ CanPop
    /\ \E b \in Word(sp) .. Top : ram[b] = 0
    /\ ram' = PutWord(ram, sp, BehindText(Word(sp)))
    /\ Continue("next")
    /\ UNCHANGED <<sp, hl, de, broke, calls, strayed>>

(* A bug it could have: the same answer in both cases.                     *)
PauseHolds(break) == "hold"

(* #PAUSE answers TRAP_HOLD to a break: its own number is executed next.   *)
PauseAnswer(break) == IF break THEN "hold" ELSE "next"

Pause ==
    /\ Trap(PAUSE) /\ CanPop /\ Word(sp) < Top
    /\ \E break \in BOOLEAN :
          /\ ram' = PutWord(ram, sp, IF break THEN Word(Word(sp)) ELSE Word(sp) + 2)
          /\ Continue(PauseAnswer(break))
          /\ broke' = break
    /\ UNCHANGED <<sp, hl, de, calls, strayed>>

(* #COLD goes on at the address in #USR, which is read before it is reset. *)
Cold ==
    /\ Trap(COLD) /\ Word(Usr) \in Addr
    /\ pc' = Word(Usr)
    /\ Restart

(* "Invalid trap": the program counter stays on the number.                *)
Invalid ==
    /\ mode = "trap" /\ ram[pc] >= 72
    /\ UNCHANGED pc
    /\ Restart

Quit ==
    /\ Trap(BOOT)
    /\ mode' = "quit"
    /\ UNCHANGED <<ram, pc, sp, hl, de, broke, calls, strayed>>

(* What a program must leave alone if the functions are to return: the     *)
(* entries, and the return address of the one that runs, which is not in   *)
(* its arguments and not where DE points when a #PAUSE is broken.          *)
Function == Handler \cup {GETPC}
LastCall == calls[Len(calls)]

Arguments ==
    CASE Trap(MPRNT) -> Word(sp) .. BehindText(Word(sp)) - 1
      [] Trap(PAUSE) -> {Word(sp), Word(sp) + 1}
      [] OTHER -> {}

Tidy ==
    /\ \A n \in Function, i \in 1 .. 3 : ram[At[n] + i - 1] = CodeOf(n)[i]
    /\ {sp, sp + 1} \cap Arguments = {}
    /\ Opcode(LDDEA) /\ calls # <<>> =>
          de \notin {sp, sp + 1, LastCall.ret, LastCall.ret + 1}

-----------------------------------------------------------------------------
Processor == Call \/ Ret \/ Jump \/ PopHl \/ JumpHl \/ StoreA \/ StoreHl \/ Halt
Handlers == Plain \/ Mprint \/ Pause \/ Cold \/ Invalid \/ Quit

Init == Start /\ tidy = Tidy

Next == (Processor \/ Handlers) /\ tidy' = (tidy /\ Tidy')

Spec == Init /\ [][Next]_vars

-----------------------------------------------------------------------------
(* What #PAUSE leaves behind when it is broken is only a store of A at DE; *)
(* as long as that goes behind the stack, to nothing of the program:       *)
Harmless == \A a \in strayed : a > StkAd + 1

(* A call c returns to a: behind its text for #MPRNT, behind the address   *)
(* or to the address for #PAUSE.                                           *)
Returns(c, a) ==
    /\ c.to = At[MPRNT] =>
          /\ a > c.ret /\ ram[a - 1] = 0
          /\ \A b \in c.ret .. a - 2 : ram[b] # 0
    /\ c.to = At[PAUSE] => a = IF broke THEN Word(c.ret) ELSE c.ret + 2
    /\ c.to \notin {At[MPRNT], At[PAUSE]} => a = c.ret

(* Every call a program makes, to the emulator or to itself, comes back    *)
(* where it should with the stack as it was, through any nesting of calls, *)
(* texts that are instructions, breaks, resets and traps the program makes *)
(* itself.                                                                 *)
CallsReturn ==
    [][(Ret \/ JumpHl) /\ calls # <<>> /\ Harmless =>
         LET c == calls[Len(calls)] IN sp' = c.sp /\ Returns(c, pc')]_vars

(* The number in an entry is executed for an instruction only when a       *)
(* #PAUSE was broken: there it is LD (DE),A.  All other calls store        *)
(* nothing but their return address.                                       *)
NumberNotExecuted ==
    mode = "run" /\ Harmless =>
        \A n \in Handler : pc = At[n] + 1 => n = PAUSE /\ broke

(* Whatever the program is, as long as it has left them alone every        *)
(* function comes back where it should with the stack as it was.           *)
FunctionReturns ==
    (Ret \/ JumpHl) /\ tidy /\ calls # <<>> /\ LastCall.to \in {At[n] : n \in Function}
        => sp' = LastCall.sp /\ Returns(LastCall, pc')

FunctionsReturn == [][FunctionReturns]_vars

(* Where the processor is in function n while c, its call, is the last one *)
(* that has not returned, and where the return address is.                 *)
InFunction(c, n) ==
    LET handled == sp = c.sp - 2 /\ Returns(c, Word(sp))
        fresh == sp = c.sp - 2 /\ Word(sp) = c.ret
    IN /\ mode = "run" =>
             \/ pc = At[n] /\ fresh
             \/ pc = At[n] + 2 /\ n \in {PRINT, MPRNT, PAUSE, MON} /\ handled
             \/ pc = At[n] + 1 /\ n = PAUSE /\ broke /\ handled
             \/ pc = At[n] + 1 /\ n = GETPC /\ sp = c.sp /\ hl = c.ret
       /\ mode = "trap" => pc = At[n] + 1 /\ n \in Handler /\ fresh

(* A function that was called runs alone, and nothing but its own code is  *)
(* executed until it has returned.                                         *)
FunctionInv ==
    tidy => \A k \in DOMAIN calls, n \in Function :
                calls[k].to = At[n] => k = Len(calls) /\ InFunction(calls[k], n)
=============================================================================
