------------------------------ MODULE BreakKey ------------------------------
(***************************************************************************)
(* The keyboard of the emulator (src/src/screen.c): the input queue of the *)
(* terminal, the break flag, the calls that read keys and the handler of   *)
(* SIGINT, which may run between any two steps of a call.                  *)
(*                                                                         *)
(* A break reaches a program in two ways.  The key ESC is a byte of the    *)
(* queue.  SIGINT sets the flag, empties the queue and pushes the same     *)
(* byte into it with TIOCSTI, where the system allows that.  The one who   *)
(* reads the byte has to guess from the flag which of the two it was.      *)
(***************************************************************************)
EXTENDS Integers, Sequences, FiniteSets

CONSTANTS
    Pushes,         \* whether TIOCSTI works: the outcomes the host can have
    QueueCap,       \* bound: keys in the queue
    MaxPress        \* bound: breaks pressed

ASSUME KeyAssumption ==
    Pushes \subseteq BOOLEAN /\ QueueCap \in Nat /\ MaxPress \in Nat

(* "mute": a key that #INKEY skips and that does not end a line.           *)
Key == {"cr", "space", "mute", "esc"}
Symbol == Key \cup {"push"}             \* "push": the byte of the handler
Break == {"esc", "push"}                \* both read as SCR_SOS_BREAK
Caller == {"inkey", "getl", "getky", "brkey", "pause"}

VARIABLES
    queue,          \* what the terminal holds for read()
    breaked,
    call,           \* the call in progress; #FLGET is like #INKEY
    pc,             \* the place in scr_winkey, getky_internal or scr_brkey
    c,              \* the byte that was read; "none": there was none
    presses,        \* history: breaks pressed,
    reports,        \* breaks the program was told of,
    owed            \* and whether one came by SIGINT since the last of these

keyboard == <<queue, breaked>>
history == <<presses, reports, owed>>
vars == <<keyboard, call, pc, c, history>>

TypeOK ==
    /\ queue \in Seq(Symbol)
    /\ breaked \in BOOLEAN
    /\ call \in Caller
    /\ pc \in {"idle", "wait", "waited", "poll", "test", "clear", "set",
               "polled", "end"}
    /\ c \in Symbol \cup {"none"}
    /\ presses \in Nat /\ reports \in Nat
    /\ owed \in BOOLEAN

Init ==
    /\ queue = <<>> /\ breaked = FALSE
    /\ call = "brkey" /\ pc = "idle" /\ c = "none"
    /\ presses = 0 /\ reports = 0 /\ owed = FALSE

-----------------------------------------------------------------------------
(* The user.                                                               *)

Type(k) ==
    /\ Len(queue) < QueueCap
    /\ k = "esc" => presses < MaxPress
    /\ queue' = Append(queue, k)
    /\ presses' = IF k = "esc" THEN presses + 1 ELSE presses
    /\ UNCHANGED <<breaked, call, pc, c, reports, owed>>

(* A bug it could have: the byte is pushed first, and flushed with the     *)
(* queue.                                                                  *)
PushedFirst(between, pushes) == between

(* The queue after the handler: emptied, and the byte behind what was      *)
(* typed since.                                                            *)
Pushed(between, pushes) ==
    between \o (IF pushes THEN <<"push">> ELSE <<>>)

(* scr_intr, where the host takes the byte (p) or not.                     *)
InterruptBy(p) ==
    \E between \in {<<>>} \cup {<<k>> : k \in Key} :
        LET n == IF between = <<"esc">> THEN 2 ELSE 1 IN
        /\ presses + n <= MaxPress
        /\ breaked' = TRUE
        /\ queue' = Pushed(between, p)
        /\ presses' = presses + n
        /\ owed' = TRUE
        /\ UNCHANGED <<call, pc, c, reports>>

Interrupt == \E p \in Pushes : InterruptBy(p)

-----------------------------------------------------------------------------
(* The calls.                                                              *)

Goto(place) == pc' = place /\ UNCHANGED <<call, history>>

(* The call is over; it may have told the program of a break.              *)
Return(break) ==
    /\ pc' = "idle"
    /\ reports' = IF break THEN reports + 1 ELSE reports
    /\ owed' = (owed /\ ~break)
    /\ UNCHANGED <<call, presses>>

(* #INKEY and #GETL wait for a key; #GETKY, #BRKEY and #PAUSE look for one *)
(* and #BRKEY only when the flag is set.                                   *)
Call(f) ==
    /\ pc = "idle"
    /\ f = "brkey" => breaked
    /\ call' = f
    /\ pc' = IF f \in {"inkey", "getl"} THEN "wait" ELSE "poll"
    /\ c' = "none"
    /\ UNCHANGED <<keyboard, history>>

(* scr_winkey: read() is repeated until there is a byte.                   *)
Wait ==
    /\ pc = "wait"
    /\ queue # <<>>
    /\ c' = Head(queue) /\ queue' = Tail(queue)
    /\ UNCHANGED breaked
    /\ Goto("waited")

(* A bug it could have: any key takes the flag with it.                    *)
ClearedByAny == FALSE

ClearedBy == IF c \in Break THEN FALSE ELSE breaked

(* The byte goes to #INKEY, which skips some, to the editor of #GETL or to *)
(* #PAUSE.                                                                 *)
Waited ==
    /\ pc = "waited"
    /\ breaked' = ClearedBy
    /\ IF \/ call = "getl" /\ c \in {"mute", "space"}
          \/ call = "inkey" /\ c = "mute"
         THEN Goto("wait") ELSE Return(c \in Break)
    /\ UNCHANGED <<queue, c>>

(* getky_internal: read() without waiting,                                 *)
Poll ==
    /\ pc = "poll"
    /\ c' = IF queue = <<>> THEN "none" ELSE Head(queue)
    /\ queue' = IF queue = <<>> THEN queue ELSE Tail(queue)
    /\ UNCHANGED breaked
    /\ Goto(IF c' \in Break THEN "test" ELSE "polled")

(* the look at the flag,                                                   *)
Test ==
    /\ pc = "test"
    /\ UNCHANGED <<keyboard, c>>
    /\ Goto(IF breaked THEN "clear" ELSE "set")

(* and the change of it.                                                   *)
Mark ==
    /\ pc \in {"clear", "set"}
    /\ breaked' = (pc = "set")
    /\ UNCHANGED <<queue, c>>
    /\ Goto("polled")

(* The byte goes to #GETKY, to #BRKEY, which eats keys up to a break or    *)
(* the end of the queue, or to #PAUSE, which eats them up to a blank too.  *)
Polled ==
    /\ pc = "polled"
    /\ UNCHANGED <<keyboard, c>>
    /\ CASE call = "getky" -> Return(c \in Break)
         [] call = "brkey" ->
              Goto(IF c \in Break \cup {"none"} THEN "end" ELSE "poll")
         [] call = "pause" ->
              IF c = "space" THEN Goto("wait")
              ELSE IF c \in Break \cup {"none"} THEN Return(c \in Break)
              ELSE Goto("poll")

(* A bug it could have: the flag is left as getky_internal left it.        *)
FlagKept == breaked

FlagTaken == FALSE

(* scr_brkey after its loop: the answer is a break.                        *)
EndBrkey ==
    /\ pc = "end"
    /\ breaked' = FlagTaken
    /\ Return(TRUE)
    /\ UNCHANGED <<queue, c>>

-----------------------------------------------------------------------------
Inside == Wait \/ Waited \/ Poll \/ Test \/ Mark \/ Polled \/ EndBrkey

Next ==
    \/ \E k \in Key : Type(k)
    \/ Interrupt
    \/ \E f \in Caller : Call(f)
    \/ Inside

Spec == Init /\ [][Next]_vars

(* The emulator runs, and its program goes on asking for keys.             *)
Fairness == WF_vars(Inside) /\ WF_vars(\E f \in Caller : Call(f))
FairSpec == Spec /\ Fairness

-----------------------------------------------------------------------------
(* Safety and liveness.                                                    *)

Queued == \E i \in DOMAIN queue : queue[i] \in Break

(* An interrupt the program has not been told of is not forgotten, at      *)
(* whatever place it came: between calls the flag is set for #BRKEY, and   *)
(* the byte is in the queue for the others if the host takes it.           *)
HeldUntilReported ==
    pc = "idle" /\ owed => breaked /\ (FALSE \notin Pushes => Queued)

(* No break comes from nothing: a program is told of one at most twice     *)
(* (ESC, once by the call that reads it and once by #BRKEY).               *)
NoPhantom == reports <= 2 * presses

-----------------------------------------------------------------------------
(* The inductive invariants behind these.                                  *)

(* Where each call can be, and what it has read there.                     *)
Places ==
    /\ pc \in {"wait", "waited"} => call \in {"inkey", "getl", "pause"}
    /\ pc \in {"poll", "test", "clear", "set", "polled"} =>
          call \in {"getky", "brkey", "pause"}
    /\ pc = "end" => call = "brkey" /\ c \in Break \cup {"none"}
    /\ pc = "waited" => c # "none"
    /\ pc \in {"test", "clear", "set"} => c \in Break

(* The byte of a break has been read and not been reported.                *)
InHand == c \in Break /\ pc \notin {"idle", "wait", "poll"}

(* An interrupt is in the flag and in the queue until its byte is read.    *)
HeldInv ==
    /\ TypeOK /\ Places
    /\ owed => breaked \/ InHand
    /\ owed /\ FALSE \notin Pushes => Queued \/ InHand

(* The breaks the program may still be told of: one for every byte in the  *)
(* queue or in hand and one for the flag they can set, and the one #BRKEY  *)
(* is about to report when it has found the queue empty.                   *)
Breaks(q) == Cardinality({i \in DOMAIN q : q[i] \in Break})
Bytes == Breaks(queue) + (IF InHand THEN 1 ELSE 0)
Certain == call = "brkey" /\ pc \in {"polled", "end"} /\ c = "none"
Credit ==
    IF Certain THEN 1 + Bytes + (IF Bytes > 0 THEN 1 ELSE 0)
    ELSE Bytes + (IF Bytes > 0 \/ breaked THEN 1 ELSE 0)

PhantomInv ==
    /\ TypeOK /\ Places
    /\ call = "brkey" /\ pc \in {"poll", "polled"} /\ ~InHand => breaked
    /\ reports + Credit <= 2 * presses
=============================================================================
