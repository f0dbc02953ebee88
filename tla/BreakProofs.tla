----------------------------- MODULE BreakProofs -----------------------------
(***************************************************************************)
(* Proofs about BreakKey, for a queue of any length, any number of breaks  *)
(* and a host where TIOCSTI works, fails or does either.                   *)
(***************************************************************************)
EXTENDS MCBreak, FiniteSetTheorems, FunctionTheorems, TLAPS

(* The places in a queue of the bytes of breaks.                           *)
At(q) == {i \in DOMAIN q : q[i] \in Break}

(* They are finitely many.                                                 *)
LEMMA AtFinite ==
    ASSUME NEW q \in Seq(Symbol)
    PROVE  IsFiniteSet(At(q)) /\ Breaks(q) = Cardinality(At(q))
           /\ Breaks(q) \in Nat /\ (Breaks(q) = 0 <=> At(q) = {})
<1>1. IsFiniteSet(1 .. Len(q)) /\ At(q) \in SUBSET (1 .. Len(q))
  BY FS_Interval DEF At
<1>2. IsFiniteSet(At(q))
  BY <1>1, FS_Subset
<1> QED
  BY <1>2, FS_CardinalityType, FS_EmptySet DEF Breaks, At

(* An empty queue holds none.                                              *)
LEMMA BreaksEmpty == Breaks(<<>>) = 0
<1>1. At(<<>>) = {} /\ <<>> \in Seq(Symbol)
  BY DEF At
<1> QED
  BY <1>1, AtFinite

(* A byte more in the queue.                                               *)
LEMMA BreaksAppend ==
    ASSUME NEW q \in Seq(Symbol), NEW k \in Symbol
    PROVE  Breaks(Append(q, k)) = Breaks(q) + (IF k \in Break THEN 1 ELSE 0)
<1> DEFINE r == Append(q, k)
           n == Len(q) + 1
<1>1. r \in Seq(Symbol) /\ Len(r) = n /\ r[n] = k /\ n \in Nat
      /\ \A i \in 1 .. Len(q) : r[i] = q[i]
  OBVIOUS
<1>2. n \notin At(q)
  BY DEF At
<1>3. IsFiniteSet(At(q)) /\ Breaks(q) = Cardinality(At(q)) /\ Breaks(q) \in Nat
      /\ Breaks(r) = Cardinality(At(r))
  BY <1>1, AtFinite
<1>4. CASE k \in Break
  <2>1. At(r) = At(q) \cup {n}
    BY <1>1, <1>4 DEF At
  <2>2. Cardinality(At(q) \cup {n}) = Cardinality(At(q)) + 1
    BY <1>2, <1>3, FS_AddElement
  <2> QED
    BY <1>3, <1>4, <2>1, <2>2
<1>5. CASE k \notin Break
  <2>1. At(r) = At(q)
    BY <1>1, <1>5 DEF At
  <2> QED
    BY <1>3, <1>5, <2>1
<1> QED
  BY <1>4, <1>5

(* The first byte of the queue is read.                                    *)
LEMMA BreaksTail ==
    ASSUME NEW q \in Seq(Symbol), q # <<>>
    PROVE  Breaks(Tail(q)) = Breaks(q) - (IF Head(q) \in Break THEN 1 ELSE 0)
<1> DEFINE t == Tail(q)
           S == At(q) \ {1}
           f == [i \in At(t) |-> i + 1]
<1>1. t \in Seq(Symbol) /\ Len(t) = Len(q) - 1 /\ Len(q) \in Nat \ {0}
      /\ \A i \in 1 .. Len(t) : t[i] = q[i + 1]
  OBVIOUS
<1>2. \A i \in At(t) : i \in Nat /\ i + 1 \in S
  BY <1>1 DEF At
<1>3. \A j \in S : j - 1 \in At(t) /\ f[j - 1] = j
  BY <1>1 DEF At
<1>4. f \in Bijection(At(t), S)
  <2>1. f \in Injection(At(t), S)
    BY <1>2 DEF Injection, IsInjective
  <2>2. f \in Surjection(At(t), S)
    BY <1>2, <1>3 DEF Surjection
  <2> QED
    BY <2>1, <2>2 DEF Bijection
<1>5. Breaks(t) = Cardinality(S)
  <2>1. IsFiniteSet(At(t)) /\ Breaks(t) = Cardinality(At(t))
    BY <1>1, AtFinite
  <2>2. ExistsBijection(At(t), S)
    BY <1>4 DEF ExistsBijection
  <2> HIDE DEF t, S
  <2> QED
    BY <2>1, <2>2, FS_Bijection
<1>6. /\ IsFiniteSet(At(q)) /\ Breaks(q) = Cardinality(At(q)) /\ Breaks(q) \in Nat
      /\ (1 \in At(q) <=> Head(q) \in Break)
  BY <1>1, AtFinite DEF At
<1>7. Cardinality(S) = IF 1 \in At(q) THEN Breaks(q) - 1 ELSE Breaks(q)
  BY <1>6, FS_RemoveElement
<1> QED
  BY <1>5, <1>6, <1>7

(* There is such a byte if and only if the count is not 0.                 *)
LEMMA QueuedCounts ==
    ASSUME queue \in Seq(Symbol)
    PROVE  Queued <=> Breaks(queue) > 0
<1>1. Queued <=> At(queue) # {}
  BY DEF Queued, At
<1> QED
  BY <1>1, AtFinite

(* And the same after a step.                                              *)
LEMMA QueuedCountsNext ==
    ASSUME queue' \in Seq(Symbol)
    PROVE  Queued' <=> Breaks(queue') > 0
<1>1. Queued' <=> At(queue') # {}
  BY DEF Queued, At
<1> QED
  BY <1>1, AtFinite

(* What the handler leaves in the queue: at most the breaks pressed.       *)
LEMMA PushedFacts ==
    ASSUME NEW between \in {<<>>} \cup {<<k>> : k \in Key}, NEW p \in BOOLEAN
    PROVE  /\ Pushed(between, p) \in Seq(Symbol)
           /\ Breaks(Pushed(between, p)) \in Nat
           /\ Breaks(Pushed(between, p)) <= IF between = <<"esc">> THEN 2 ELSE 1
           /\ p => Breaks(Pushed(between, p)) > 0
<1>1. between \in Seq(Symbol) /\ "push" \in Symbol /\ "push" \in Break
  <2>1. CASE between = <<>>
    BY <2>1 DEF Symbol, Break
  <2>2. CASE between # <<>>
    <3>1. PICK k \in Key : between = <<k>>
      BY <2>2
    <3> QED
      BY <3>1 DEF Symbol, Break
  <2> QED
    BY <2>1, <2>2
<1>2. Breaks(between) \in Nat
      /\ Breaks(between) <= IF between = <<"esc">> THEN 1 ELSE 0
  <2>1. CASE between = <<>>
    BY <2>1, BreaksEmpty
  <2>2. CASE between # <<>>
    <3>1. PICK k \in Key : between = Append(<<>>, k)
      BY <2>2
    <3>2. /\ <<>> \in Seq(Symbol) /\ k \in Symbol
          /\ k \in Break <=> k = "esc"
      BY DEF Symbol, Key, Break
    <3>3. Breaks(between) = IF k \in Break THEN 1 ELSE 0
      <4>1. Breaks(Append(<<>>, k)) = Breaks(<<>>) + IF k \in Break THEN 1 ELSE 0
        BY <3>2, BreaksAppend
      <4> QED
        BY <3>1, <4>1, BreaksEmpty
    <3>4. between = <<"esc">> <=> k = "esc"
      BY <3>1
    <3> QED
      BY <3>2, <3>3, <3>4
  <2> QED
    BY <2>1, <2>2
<1>3. CASE p
  <2>1. Pushed(between, p) = Append(between, "push")
    BY <1>1, <1>3 DEF Pushed
  <2>2. Breaks(Append(between, "push")) = Breaks(between) + 1
    BY <1>1, BreaksAppend
  <2>3. Append(between, "push") \in Seq(Symbol)
    BY <1>1
  <2> QED
    BY <1>2, <2>1, <2>2, <2>3
<1>4. CASE ~p
  <2>1. Pushed(between, p) = between
    BY <1>1, <1>4 DEF Pushed
  <2> QED
    BY <1>1, <1>2, <1>4, <2>1
<1> QED
  BY <1>3, <1>4

-----------------------------------------------------------------------------
(* The types and the places.                                               *)

(* The program starts with them.                                           *)
LEMMA PlacesInit == Init => TypeOK /\ Places
<1>1. Init => TypeOK
  <2> SUFFICES ASSUME Init PROVE TypeOK
    OBVIOUS
  <2>1. <<>> \in Seq(Symbol)
    OBVIOUS
  <2>2. queue \in Seq(Symbol)
    BY <2>1 DEF Init
  <2>3. call \in Caller /\ c \in Symbol \cup {"none"}
        /\ pc \in {"idle", "wait", "waited", "poll", "test", "clear", "set",
                   "polled", "end"}
    BY DEF Init, Caller
  <2>4. breaked \in BOOLEAN /\ owed \in BOOLEAN
        /\ presses \in Nat /\ reports \in Nat
    BY DEF Init
  <2> QED
    BY <2>2, <2>3, <2>4 DEF TypeOK
<1>2. Init => Places
  BY DEF Init, Places
<1> QED
  BY <1>1, <1>2

(* A call returns.                                                         *)
LEMMA ReturnFacts ==
    ASSUME NEW b \in BOOLEAN, Return(b), reports \in Nat, owed \in BOOLEAN
    PROVE  /\ pc' = "idle" /\ UNCHANGED <<call, presses>>
           /\ reports' \in Nat /\ owed' \in BOOLEAN
           /\ owed' => owed /\ ~b
<1>1. /\ pc' = "idle" /\ UNCHANGED <<call, presses>>
      /\ reports' = IF b THEN reports + 1 ELSE reports
      /\ owed' = (owed /\ ~b)
  BY DEF Return
<1>2. reports' \in Nat
  BY <1>1
<1>3. owed' \in BOOLEAN /\ (owed' => owed /\ ~b)
  BY <1>1, Zenon
<1> QED
  BY <1>1, <1>2, <1>3

(* Every step keeps them.                                                  *)
LEMMA PlacesStep == TypeOK /\ Places /\ [Next]_vars => TypeOK' /\ Places'
<1> SUFFICES ASSUME TypeOK, Places, [Next]_vars PROVE TypeOK' /\ Places'
  OBVIOUS
<1> USE DEF TypeOK, Places
<1>1. ASSUME NEW k \in Key, Type(k) PROVE TypeOK' /\ Places'
  BY <1>1 DEF Type, Symbol
<1>2. CASE Interrupt
  <2>1. PICK between \in {<<>>} \cup {<<k>> : k \in Key}, p \in Pushes :
          /\ queue' = Pushed(between, p)
          /\ presses' = presses + IF between = <<"esc">> THEN 2 ELSE 1
          /\ breaked' = TRUE /\ owed' = TRUE
          /\ UNCHANGED <<call, pc, c, reports>>
    BY <1>2 DEF Interrupt, InterruptBy
  <2>2. queue' \in Seq(Symbol)
    BY <2>1, PushedFacts, KeyAssumption
  <2> QED
    BY <2>1, <2>2
<1>3. ASSUME NEW f \in Caller, Call(f) PROVE TypeOK' /\ Places'
  BY <1>3 DEF Call, keyboard, history, Caller
<1>4. CASE Wait
  <2>1. Head(queue) \in Symbol /\ Tail(queue) \in Seq(Symbol)
    BY <1>4 DEF Wait
  <2>2. "none" \notin Symbol
    BY DEF Symbol, Key
  <2> QED
    BY <1>4, <2>1, <2>2 DEF Wait, Goto, history
<1>5. CASE Waited
  <2>1. breaked' \in BOOLEAN /\ UNCHANGED <<queue, c>> /\ pc = "waited"
    BY <1>5 DEF Waited, ClearedBy
  <2>2. Goto("wait") \/ Return(c \in Break)
    BY <1>5 DEF Waited
  <2>3. CASE Goto("wait")
    BY <2>1, <2>3 DEF Goto, history
  <2>4. CASE Return(c \in Break)
    <3>1. (c \in Break) \in BOOLEAN
      OBVIOUS
    <3> QED
      BY <2>1, <2>4, <3>1, ReturnFacts
  <2> QED
    BY <2>2, <2>3, <2>4
<1>6. CASE Poll
  <2>1. c' \in Symbol \cup {"none"} /\ queue' \in Seq(Symbol)
    BY <1>6 DEF Poll
  <2> QED
    BY <1>6, <2>1 DEF Poll, Goto, history
<1>7. CASE Test
  BY <1>7 DEF Test, Goto, keyboard, history
<1>8. CASE Mark
  BY <1>8 DEF Mark, Goto, history
<1>9. CASE Polled
  <2>1. UNCHANGED <<queue, breaked, c>> /\ pc = "polled"
    BY <1>9 DEF Polled, keyboard
  <2>2. \/ Return(c \in Break)
        \/ call = "brkey" /\ c \in Break \cup {"none"} /\ Goto("end")
        \/ Goto("poll")
        \/ call = "pause" /\ Goto("wait")
    BY <1>9 DEF Polled
  <2>3. CASE Return(c \in Break)
    <3>1. (c \in Break) \in BOOLEAN
      OBVIOUS
    <3>2. pc' = "idle" /\ UNCHANGED <<call, presses>>
          /\ reports' \in Nat /\ owed' \in BOOLEAN
      BY <2>3, <3>1, ReturnFacts
    <3> QED
      BY <2>1, <3>2
  <2>4. CASE call = "brkey" /\ c \in Break \cup {"none"} /\ Goto("end")
    BY <2>1, <2>4 DEF Goto, history
  <2>5. CASE Goto("poll")
    BY <2>1, <2>5 DEF Goto, history
  <2>6. CASE call = "pause" /\ Goto("wait")
    BY <2>1, <2>6 DEF Goto, history
  <2> QED
    BY <2>2, <2>3, <2>4, <2>5, <2>6
<1>10. CASE EndBrkey
  <2>1. breaked' = FALSE /\ UNCHANGED <<queue, c>> /\ Return(TRUE)
    BY <1>10 DEF EndBrkey, FlagTaken
  <2> QED
    BY <2>1, ReturnFacts
<1>11. CASE UNCHANGED vars
  BY <1>11 DEF vars, keyboard, history
<1> QED
  BY <1>1, <1>2, <1>3, <1>4, <1>5, <1>6, <1>7, <1>8, <1>9, <1>10, <1>11
  DEF Next, Inside
-----------------------------------------------------------------------------
(* No interrupt is forgotten.                                              *)

(* Every key typed and every step of a call keeps it, in the flag and, if  *)
(* b, in the queue.                                                        *)
LEMMA HeldByCalls ==
    ASSUME NEW b \in BOOLEAN, TypeOK, Places,
           owed => breaked \/ InHand,
           owed /\ b => Queued \/ InHand,
           (\E k \in Key : Type(k)) \/ (\E f \in Caller : Call(f)) \/ Inside
    PROVE  /\ owed' => breaked' \/ InHand'
           /\ owed' /\ b => Queued' \/ InHand'
<1>1. TypeOK /\ Places /\ TypeOK' /\ Places'
  BY PlacesStep DEF Next
<1>2. /\ Queued <=> Breaks(queue) > 0
      /\ Queued' <=> Breaks(queue') > 0
      /\ queue \in Seq(Symbol) /\ Breaks(queue) \in Nat
  BY <1>1, QueuedCounts, QueuedCountsNext, AtFinite DEF TypeOK
<1>3. /\ owed => breaked \/ InHand
      /\ owed /\ b => Queued \/ InHand
  OBVIOUS
<1> DEFINE Held == /\ owed' => breaked' \/ InHand'
                   /\ owed' /\ b => Queued' \/ InHand'
<1> SUFFICES Held
  OBVIOUS
<1>4. ASSUME NEW k \in Key, Type(k) PROVE Held
  <2>1. k \in Symbol /\ queue' = Append(queue, k)
    BY <1>4 DEF Type, Symbol
  <2>2. Breaks(queue') >= Breaks(queue)
    BY <1>2, <2>1, BreaksAppend
  <2>3. Breaks(queue') \in Nat
    BY <1>1, AtFinite DEF TypeOK
  <2>4. Queued => Queued'
    BY <1>2, <2>2, <2>3
  <2>5. UNCHANGED <<breaked, owed, pc, c>>
    BY <1>4 DEF Type
  <2>6. (breaked' <=> breaked) /\ (owed' <=> owed) /\ (InHand' <=> InHand)
    BY <2>5 DEF InHand
  <2> QED
    BY <1>3, <2>4, <2>6, Zenon
<1>6. ASSUME NEW f \in Caller, Call(f) PROVE Held
  BY <1>1, <1>3, <1>6 DEF Call, keyboard, history, InHand, Queued
<1>7. CASE Wait
  <2>1. Breaks(queue') = Breaks(queue) - IF c' \in Break THEN 1 ELSE 0
    BY <1>2, <1>7, BreaksTail DEF Wait
  <2>2. pc = "wait" /\ pc' = "waited" /\ UNCHANGED <<breaked, owed>>
    BY <1>7 DEF Wait, Goto, history
  <2>3. (InHand' <=> c' \in Break) /\ ~InHand
        /\ (breaked' <=> breaked) /\ (owed' <=> owed)
    BY <2>2 DEF InHand
  <2>4. Queued => Queued' \/ InHand'
    BY <1>2, <2>1, <2>3
  <2> QED
    BY <1>3, <2>3, <2>4, Zenon
<1>8. CASE Waited
  <2>1. CASE c \in Break
    BY <1>8, <2>1 DEF Waited, Return, Break
  <2>2. CASE c \notin Break
    BY <1>3, <1>8, <2>2
    DEF Waited, Return, Goto, ClearedBy, history, InHand, Queued
  <2> QED
    BY <2>1, <2>2
<1>9. CASE Poll
  <2>1. UNCHANGED <<breaked, owed>> /\ pc = "poll"
        /\ pc' \in {"test", "polled"}
    BY <1>9 DEF Poll, Goto, history
  <2>2. (InHand' <=> c' \in Break) /\ ~InHand
        /\ (breaked' <=> breaked) /\ (owed' <=> owed)
    BY <2>1 DEF InHand
  <2>3. Queued => Queued' \/ InHand'
    <3>1. CASE queue = <<>>
      BY <1>9, <3>1 DEF Poll, Queued
    <3>2. CASE queue # <<>>
      <4>1. Breaks(queue') = Breaks(queue) - IF c' \in Break THEN 1 ELSE 0
        BY <1>2, <1>9, <3>2, BreaksTail DEF Poll
      <4> QED
        BY <1>2, <2>2, <4>1
    <3> QED
      BY <3>1, <3>2
  <2> QED
    BY <1>3, <2>2, <2>3, Zenon
<1>10. CASE Test
  BY <1>3, <1>10 DEF Test, Goto, keyboard, history, InHand, Queued
<1>11. CASE Mark
  BY <1>1, <1>11 DEF Mark, Goto, history, InHand, Places
<1>12. CASE Polled
  <2>1. UNCHANGED <<queue, breaked, c>> /\ pc = "polled"
        /\ call \in {"getky", "brkey", "pause"}
    BY <1>1, <1>12 DEF Polled, keyboard, Places
  <2>2. (Queued' <=> Queued) /\ (breaked' <=> breaked)
    BY <2>1 DEF Queued
  <2>3. CASE Return(c \in Break)
    <3>1. owed' => owed /\ c \notin Break
      <4>1. (c \in Break) \in BOOLEAN /\ reports \in Nat /\ owed \in BOOLEAN
        BY <1>1 DEF TypeOK
      <4> QED
        BY <2>3, <4>1, ReturnFacts, Zenon
    <3>2. owed' => ~InHand
      BY <3>1 DEF InHand
    <3> QED
      BY <1>3, <2>2, <3>1, <3>2, Zenon
  <2>4. CASE Goto("end") \/ ((Goto("poll") \/ Goto("wait")) /\ c \notin Break)
    <3>1. (owed' <=> owed) /\ (InHand' <=> InHand)
      BY <2>1, <2>4 DEF Goto, history, InHand
    <3> QED
      BY <1>3, <2>2, <3>1, Zenon
  <2>5. Return(c \in Break) \/ Goto("end")
          \/ ((Goto("poll") \/ Goto("wait")) /\ c \notin Break)
    BY <1>12, <2>1 DEF Polled, Break
  <2> QED
    BY <2>3, <2>4, <2>5
<1>13. CASE EndBrkey
  BY <1>13 DEF EndBrkey, Return
<1> QED
  BY <1>4, <1>6, <1>7, <1>8, <1>9, <1>10, <1>11, <1>12, <1>13 DEF Inside

(* The handler sets the flag, and the byte is in the queue if the host     *)
(* takes it.                                                               *)
LEMMA HeldByHandler ==
    ASSUME NEW p \in Pushes, InterruptBy(p), TypeOK, Places
    PROVE  breaked' /\ (p => Queued')
<1>1. PICK between \in {<<>>} \cup {<<k>> : k \in Key} :
        breaked' = TRUE /\ queue' = Pushed(between, p)
  BY DEF InterruptBy
<1>2. p \in BOOLEAN
  BY KeyAssumption
<1>3. p => Breaks(queue') > 0
  BY <1>1, <1>2, PushedFacts
<1>4. queue' \in Seq(Symbol)
  BY <1>1, <1>2, PushedFacts
<1> QED
  BY <1>1, <1>3, <1>4, QueuedCountsNext

(* So every step of a user, the handler or a call keeps the interrupt.     *)
LEMMA HeldStep == HeldInv /\ [Next]_vars => HeldInv'
<1> SUFFICES ASSUME HeldInv, [Next]_vars PROVE HeldInv'
  OBVIOUS
<1>1. TypeOK /\ Places /\ TypeOK' /\ Places'
  BY PlacesStep DEF HeldInv
<1>2. /\ owed => breaked \/ InHand
      /\ owed /\ FALSE \notin Pushes => Queued \/ InHand
  BY DEF HeldInv
<1>3. CASE (\E k \in Key : Type(k)) \/ (\E f \in Caller : Call(f)) \/ Inside
  <2>1. (FALSE \notin Pushes) \in BOOLEAN
    OBVIOUS
  <2>2. /\ owed' => breaked' \/ InHand'
        /\ owed' /\ FALSE \notin Pushes => Queued' \/ InHand'
    BY <1>1, <1>2, <1>3, <2>1, HeldByCalls, Zenon
  <2> QED
    BY <1>1, <2>2 DEF HeldInv
<1>4. CASE Interrupt
  <2>1. PICK p \in Pushes : InterruptBy(p)
    BY <1>4 DEF Interrupt
  <2>2. breaked' /\ (p => Queued')
    BY <1>1, <2>1, HeldByHandler
  <2>3. FALSE \notin Pushes => p
    BY <2>1, KeyAssumption
  <2> QED
    BY <1>1, <2>2, <2>3 DEF HeldInv
<1>5. CASE UNCHANGED vars
  <2>1. UNCHANGED <<queue, breaked, owed, pc, c>>
    BY <1>5 DEF vars, keyboard, history
  <2> QED
    BY <1>1, <1>2, <2>1 DEF HeldInv, InHand, Queued
<1> QED
  BY <1>3, <1>4, <1>5 DEF Next

(* Whenever no call is in progress and the program has not been told of an *)
(* interrupt, #BRKEY will tell it of one, and so will the other calls      *)
(* where TIOCSTI works: the handler may have run at any place of any call. *)
THEOREM InterruptsAreHeld == Spec => [](HeldInv /\ HeldUntilReported)
<1>1. Init => HeldInv
  BY PlacesInit DEF HeldInv, Init
<1>2. HeldInv /\ [Next]_vars => HeldInv'
  BY HeldStep
<1>3. HeldInv => HeldUntilReported
  BY DEF HeldInv, HeldUntilReported, InHand
<1> QED
  BY <1>1, <1>2, <1>3, PTL DEF Spec

(* A host may take the byte of one interrupt and refuse that of another:   *)
(* one that was taken waits in the queue for the calls that only read keys *)
(* until it is reported, unless one was refused.                           *)
THEOREM InterruptsAreQueued == MCFairSpec => []HeldInQueue
<1> DEFINE Inv == HeldInv /\ (owed /\ ~refused => Queued \/ InHand)
<1>1. MCInit => Inv
  BY PlacesInit DEF HeldInv, MCInit, Init
<1>2. Inv /\ [MCNext]_<<vars, refused>> => Inv'
  <2> SUFFICES ASSUME Inv, [MCNext]_<<vars, refused>> PROVE Inv'
    OBVIOUS
  <2>1. [Next]_vars
    BY DEF MCNext, Next, Interrupt
  <2>2. HeldInv' /\ TypeOK /\ Places
    BY <2>1, HeldStep DEF HeldInv
  <2>3. owed => breaked \/ InHand
    BY DEF HeldInv
  <2>4. ASSUME owed', ~refused' PROVE Queued' \/ InHand'
    <3>1. ASSUME NEW p \in Pushes, InterruptBy(p), refused' = (refused \/ ~p)
          PROVE  Queued'
      BY <2>2, <2>4, <3>1, HeldByHandler, KeyAssumption
    <3>2. CASE /\ \/ \E k \in Key : Type(k)
                  \/ \E f \in Caller : Call(f)
                  \/ Inside
               /\ UNCHANGED refused
      <4>1. owed /\ TRUE => Queued \/ InHand
        BY <2>4, <3>2
      <4> QED
        BY <2>2, <2>3, <2>4, <3>2, <4>1, HeldByCalls, Zenon
    <3>3. CASE UNCHANGED <<vars, refused>>
      <4>1. UNCHANGED <<queue, breaked, owed, pc, c>>
        BY <3>3 DEF vars, keyboard, history
      <4> QED
        BY <2>4, <3>3, <4>1 DEF InHand, Queued
    <3> QED
      BY <3>1, <3>2, <3>3 DEF MCNext
  <2> QED
    BY <2>2, <2>4
<1>3. Inv => HeldInQueue
  BY DEF HeldInQueue, InHand
<1> QED
  BY <1>1, <1>2, <1>3, PTL DEF MCFairSpec
-----------------------------------------------------------------------------
(* No break comes from nothing.                                            *)

(* What a break that is known of is worth: n bytes, the flag f, and whether *)
(* #BRKEY is certain to report one.                                        *)
Worth(n, f, certain) ==
    IF certain THEN 1 + n + (IF n > 0 THEN 1 ELSE 0)
    ELSE n + (IF n > 0 \/ f THEN 1 ELSE 0)

Hand(held) == IF held THEN 1 ELSE 0

(* The credit of a state, and of the next one.                             *)
LEMMA CreditIsWorth ==
    /\ Credit = Worth(Breaks(queue) + Hand(InHand), breaked, Certain)
    /\ Credit' = Worth(Breaks(queue') + Hand(InHand'), breaked', Certain')
<1>1. Credit = Worth(Breaks(queue) + Hand(InHand), breaked, Certain)
  BY DEF Credit, Worth, Hand, Bytes
<1>2. Credit' = Worth(Breaks(queue') + Hand(InHand'), breaked', Certain')
  BY DEF Credit, Worth, Hand, Bytes, Breaks
<1> QED
  BY <1>1, <1>2

(* No step adds to reports and credit more than two for a break pressed.   *)
LEMMA PhantomStep == PhantomInv /\ [Next]_vars => PhantomInv'
<1> SUFFICES ASSUME PhantomInv, [Next]_vars PROVE PhantomInv'
  OBVIOUS
<1>1. TypeOK /\ Places /\ TypeOK' /\ Places'
  BY PlacesStep DEF PhantomInv
<1> DEFINE B == Breaks(queue)
           Bn == Breaks(queue')
           Was == Worth(B + Hand(InHand), breaked, Certain)
           Is == Worth(Bn + Hand(InHand'), breaked', Certain')
<1>2. /\ B \in Nat /\ Bn \in Nat /\ queue \in Seq(Symbol)
      /\ presses \in Nat /\ reports \in Nat
      /\ breaked \in BOOLEAN
  BY <1>1, AtFinite DEF TypeOK
<1>3. /\ call = "brkey" /\ pc \in {"poll", "polled"} /\ ~InHand => breaked
      /\ reports + Was <= 2 * presses
  BY CreditIsWorth DEF PhantomInv
<1> DEFINE Flag == call' = "brkey" /\ pc' \in {"poll", "polled"} /\ ~InHand'
                     => breaked'
           Count == reports' + Is <= 2 * presses'
<1> SUFFICES Flag /\ Count
  BY <1>1, CreditIsWorth DEF PhantomInv
<1> HIDE DEF B, Bn
<1>5. ASSUME NEW k \in Key, Type(k) PROVE Flag /\ Count
  <2>1. k \in Symbol /\ (k \in Break <=> k = "esc")
    BY DEF Symbol, Key, Break
  <2>2. Bn = B + IF k = "esc" THEN 1 ELSE 0
    BY <1>2, <1>5, <2>1, BreaksAppend DEF Type, B, Bn
  <2>3. /\ InHand' = InHand /\ Certain' = Certain
        /\ UNCHANGED <<breaked, reports, call, pc>>
        /\ presses' = presses + IF k = "esc" THEN 1 ELSE 0
    BY <1>2, <1>5 DEF Type, InHand, Certain
  <2>4. Flag
    BY <1>3, <2>3
  <2>5. Count
    BY <1>2, <1>3, <2>2, <2>3 DEF Worth, Hand
  <2> QED
    BY <2>4, <2>5
<1>6. CASE Interrupt
  <2>1. PICK between \in {<<>>} \cup {<<k>> : k \in Key}, p \in Pushes :
          /\ queue' = Pushed(between, p)
          /\ presses' = presses + IF between = <<"esc">> THEN 2 ELSE 1
          /\ breaked' = TRUE
          /\ UNCHANGED <<call, pc, c, reports>>
    BY <1>6 DEF Interrupt, InterruptBy
  <2>2. Bn <= IF between = <<"esc">> THEN 2 ELSE 1
    BY <2>1, PushedFacts, KeyAssumption DEF Bn
  <2>3. InHand' = InHand /\ Certain' = Certain
    BY <2>1 DEF InHand, Certain
  <2>4. Count
    BY <1>2, <1>3, <2>1, <2>2, <2>3 DEF Worth, Hand
  <2> QED
    BY <2>1, <2>4
<1>7. ASSUME NEW f \in Caller, Call(f) PROVE Flag /\ Count
  <2>1. /\ ~InHand /\ ~InHand' /\ ~Certain /\ ~Certain' /\ Bn = B
        /\ UNCHANGED <<breaked, reports, presses>>
        /\ call' = "brkey" => breaked
    BY <1>7 DEF Call, keyboard, history, InHand, Certain, Break, B, Bn
  <2>2. Count
    BY <1>2, <1>3, <2>1 DEF Worth, Hand
  <2>3. Flag
    BY <2>1, Zenon
  <2> QED
    BY <2>2, <2>3
<1>8. CASE Wait
  <2>1. Bn = B - IF c' \in Break THEN 1 ELSE 0
    BY <1>2, <1>8, BreaksTail DEF Wait, B, Bn
  <2>2. pc = "wait" /\ pc' = "waited"
        /\ UNCHANGED <<breaked, call, reports, presses>>
    BY <1>8 DEF Wait, Goto, history
  <2>3. (InHand' <=> c' \in Break) /\ ~InHand /\ ~Certain /\ ~Certain'
    BY <2>2 DEF InHand, Certain
  <2>4. Count
    BY <1>2, <1>3, <2>1, <2>2, <2>3 DEF Worth, Hand
  <2> QED
    BY <2>2, <2>4
<1>9. CASE Waited
  <2>1. ~Certain /\ ~Certain' /\ ~InHand' /\ Bn = B /\ presses' = presses
        /\ pc' \in {"wait", "idle"}
    <3>1. pc' \in {"wait", "idle"} /\ UNCHANGED <<queue, c, presses>>
          /\ pc = "waited"
      BY <1>9 DEF Waited, Goto, Return, history
    <3> QED
      BY <3>1 DEF InHand, Certain, B, Bn
  <2>2. CASE c \in Break
    <3>1. InHand /\ breaked' = FALSE /\ reports' = reports + 1
      BY <1>9, <2>2 DEF Waited, ClearedBy, Return, InHand, Break
    <3> QED
      BY <1>2, <1>3, <2>1, <3>1 DEF Worth, Hand
  <2>3. CASE c \notin Break
    <3>1. ~InHand /\ UNCHANGED <<breaked, reports>>
      BY <1>9, <2>3 DEF Waited, ClearedBy, Return, Goto, history, InHand
    <3> QED
      BY <1>2, <1>3, <2>1, <3>1 DEF Worth, Hand
  <2> QED
    BY <2>2, <2>3
<1>10. CASE Poll
  <2>1. /\ UNCHANGED <<breaked, call, reports, presses>> /\ pc = "poll"
        /\ pc' = IF c' \in Break THEN "test" ELSE "polled"
    BY <1>10 DEF Poll, Goto, history
  <2>2. (InHand' <=> c' \in Break) /\ ~InHand /\ ~Certain
    BY <2>1 DEF InHand, Certain
  <2>3. Flag
    BY <1>3, <2>1, <2>2
  <2>4. CASE queue = <<>>
    <3>1. c' = "none" /\ B = 0 /\ Bn = 0
      BY <1>10, <2>4, BreaksEmpty DEF Poll, B, Bn
    <3>2. ~InHand' /\ (Certain' => breaked)
      BY <1>3, <2>1, <2>2, <3>1 DEF Certain, Break
    <3>3. Count
      BY <1>2, <1>3, <2>1, <2>2, <3>1, <3>2 DEF Worth, Hand
    <3> QED
      BY <2>3, <3>3
  <2>5. CASE queue # <<>>
    <3>1. Bn = B - IF c' \in Break THEN 1 ELSE 0
      BY <1>2, <1>10, <2>5, BreaksTail DEF Poll, B, Bn
    <3>2. c' \in Symbol /\ "none" \notin Symbol
      BY <1>2, <1>10, <2>5 DEF Poll, Symbol, Key
    <3>3. ~Certain'
      BY <3>2 DEF Certain
    <3>4. Count
      BY <1>2, <1>3, <2>1, <2>2, <3>1, <3>3 DEF Worth, Hand
    <3> QED
      BY <2>3, <3>4
  <2> QED
    BY <2>4, <2>5
<1>11. CASE Test
  <2>1. /\ pc = "test" /\ pc' \in {"clear", "set"} /\ Bn = B
        /\ UNCHANGED <<breaked, call, c, reports, presses>>
    BY <1>11 DEF Test, Goto, keyboard, history, B, Bn
  <2>2. InHand /\ InHand' /\ ~Certain /\ ~Certain'
    BY <1>1, <2>1 DEF Places, InHand, Certain
  <2>3. Count
    BY <1>2, <1>3, <2>1, <2>2 DEF Worth, Hand
  <2> QED
    BY <2>2, <2>3
<1>12. CASE Mark
  <2>1. /\ pc \in {"clear", "set"} /\ pc' = "polled" /\ Bn = B
        /\ UNCHANGED <<call, c, reports, presses>> /\ breaked' \in BOOLEAN
    BY <1>12 DEF Mark, Goto, history, B, Bn
  <2>2. InHand /\ InHand' /\ ~Certain /\ ~Certain'
    BY <1>1, <2>1 DEF Places, InHand, Certain, Break
  <2>3. Is = Was
    BY <1>2, <2>1, <2>2 DEF Worth, Hand
  <2> QED
    BY <1>3, <2>1, <2>2, <2>3
<1>13. CASE Polled
  <2>1. /\ pc = "polled" /\ Bn = B /\ UNCHANGED <<breaked, call, c, presses>>
        /\ call \in {"getky", "brkey", "pause"}
    BY <1>1, <1>13 DEF Polled, Goto, Return, keyboard, history, Places, B, Bn
  <2>2. CASE call = "brkey"
    <3>1. /\ pc' = IF c \in Break \cup {"none"} THEN "end" ELSE "poll"
          /\ reports' = reports
      BY <1>13, <2>2 DEF Polled, Goto, history
    <3>2. InHand' = InHand /\ Certain' = Certain
      BY <2>1, <2>2, <3>1 DEF InHand, Certain, Break
    <3> QED
      BY <1>3, <2>1, <2>2, <3>1, <3>2
  <2>3. CASE call # "brkey"
    <3>1. ~Certain /\ ~Certain' /\ call' # "brkey"
      BY <2>1, <2>3 DEF Certain
    <3>2. CASE c \in Break
      <4>1. InHand /\ ~InHand' /\ reports' = reports + 1
        BY <1>13, <2>1, <2>3, <3>2 DEF Polled, Return, InHand, Break
      <4> QED
        BY <1>2, <1>3, <2>1, <3>1, <4>1 DEF Worth, Hand
    <3>3. CASE c \notin Break
      <4>1. ~InHand /\ ~InHand' /\ reports' = reports
        BY <1>13, <2>1, <2>3, <3>3 DEF Polled, Return, Goto, history, InHand
      <4> QED
        BY <1>2, <1>3, <2>1, <3>1, <4>1 DEF Worth, Hand
    <3> QED
      BY <3>2, <3>3
  <2> QED
    BY <2>2, <2>3
<1>14. CASE EndBrkey
  <2>1. /\ pc = "end" /\ pc' = "idle" /\ Bn = B /\ breaked' = FALSE
        /\ reports' = reports + 1 /\ UNCHANGED <<call, c, presses>>
    BY <1>14 DEF EndBrkey, FlagTaken, Return, B, Bn
  <2>2. ~InHand' /\ ~Certain' /\ (InHand \/ Certain) /\ ~(InHand /\ Certain)
    BY <1>1, <2>1 DEF Places, InHand, Certain, Break
  <2>3. Count
    BY <1>2, <1>3, <2>1, <2>2 DEF Worth, Hand
  <2> QED
    BY <2>1, <2>3
<1>15. CASE UNCHANGED vars
  <2>1. UNCHANGED <<queue, breaked, call, pc, c, presses, reports>>
    BY <1>15 DEF vars, keyboard, history
  <2>2. InHand' = InHand /\ Certain' = Certain /\ Bn = B
    BY <2>1 DEF InHand, Certain, B, Bn
  <2> QED
    BY <1>3, <2>1, <2>2
<1> QED
  BY <1>5, <1>6, <1>7, <1>8, <1>9, <1>10, <1>11, <1>12, <1>13, <1>14, <1>15
  DEF Next, Inside

(* A program is told of a break at most twice as often as one was pressed, *)
(* however interrupts, keys and calls interleave.                          *)
THEOREM NoPhantomBreaks == Spec => [](PhantomInv /\ NoPhantom)
<1>1. Init => PhantomInv
  <2>1. ASSUME Init PROVE Credit = 0 /\ reports = 0 /\ presses = 0
    <3>1. Breaks(queue) = 0 /\ ~InHand /\ ~Certain /\ ~breaked
      BY <2>1, BreaksEmpty DEF Init, InHand, Certain
    <3>2. Credit = 0
      BY <3>1, CreditIsWorth DEF Worth, Hand
    <3> QED
      BY <2>1, <3>2 DEF Init
  <2> QED
    <3>1. ASSUME Init PROVE PhantomInv
      <4>1. reports + Credit <= 2 * presses
        BY <2>1, <3>1
      <4>2. ~(pc \in {"poll", "polled"})
        BY <3>1 DEF Init
      <4> QED
        BY <3>1, <4>1, <4>2, PlacesInit DEF PhantomInv
    <3> QED
      BY <3>1
<1>2. PhantomInv /\ [Next]_vars => PhantomInv'
  BY PhantomStep
<1>3. PhantomInv => NoPhantom
  <2> SUFFICES ASSUME PhantomInv PROVE NoPhantom
    OBVIOUS
  <2>1. /\ reports \in Nat /\ presses \in Nat /\ Breaks(queue) \in Nat
    BY AtFinite DEF PhantomInv, TypeOK
  <2>2. reports + Worth(Breaks(queue) + Hand(InHand), breaked, Certain)
          <= 2 * presses
    BY CreditIsWorth DEF PhantomInv
  <2> QED
    BY <2>1, <2>2 DEF Worth, Hand, NoPhantom
<1> QED
  BY <1>1, <1>2, <1>3, PTL DEF Spec
==============================================================================
