------------------------------ MODULE Cassette ------------------------------
(***************************************************************************)
(* What the file calls of S-OS promise a program: recordings by name, each *)
(* as it is in memory after it has been loaded.  A text ends in NUL and    *)
(* has CR between its lines; data is kept as it is.  No host files, no     *)
(* conversion, no directory stream.                                        *)
(***************************************************************************)
EXTENDS Integers, Sequences

CONSTANTS
    Name,           \* the recordings there can be
    Datum, CR, LF, NUL,
    Null,           \* no recording, nothing open
    Cap             \* the largest size

VARIABLES
    store,          \* store[name]: attribute and image, or Null
    tray,           \* the recording that is open and how: "r" or "w"
    memory, count   \* where the program keeps data, and how many

cvars == <<store, tray, memory, count>>

Image == UNION {[1 .. n -> Datum] : n \in 0 .. Cap}
Recording == [attr : {"asc", "bin"}, image : Image]

(* The image of the first n bytes of m as a text: at most Cap with its NUL *)
AsText(m, n) ==
    LET chars == IF m[n] = NUL THEN n - 1 ELSE n
        room == IF chars < Cap THEN chars ELSE Cap - 1
    IN Append([i \in 1 .. room |-> IF m[i] = LF THEN CR ELSE m[i]], NUL)

Recorded(a, m, n) ==
    IF a = "asc" THEN AsText(m, n) ELSE [i \in 1 .. n |-> m[i]]

(* A text of no bytes is asked for: nothing is promised of it.             *)
NoText(a) == a = "asc" /\ count = 0

CInit ==
    /\ store \in [Name -> Recording \cup {Null}]
    /\ tray = Null
    /\ memory \in [1 .. Cap -> Datum]
    /\ count \in 0 .. Cap

(* Open to save: what was recorded under the name is gone.                 *)
New(u, a) ==
    /\ store' = [store EXCEPT ![u] =
                   [attr |-> a, image |-> IF a = "asc" THEN <<NUL>> ELSE <<>>]]
    /\ tray' = [file |-> u, mode |-> "w"]
    /\ UNCHANGED <<memory, count>>

Save ==
    /\ tray # Null /\ tray.mode = "w"
    /\ LET a == store[tray.file].attr
       IN \E i \in IF NoText(a) THEN Image ELSE {Recorded(a, memory, count)} :
             store' = [store EXCEPT ![tray.file].image = i]
    /\ tray' = Null
    /\ UNCHANGED <<memory, count>>

(* Open to load: count is what it takes to load all of it.                 *)
Play(u) ==
    /\ store[u] # Null
    /\ tray' = [file |-> u, mode |-> "r"]
    /\ count' = Len(store[u].image)
    /\ UNCHANGED <<store, memory>>

(* The first count bytes of the image, of a text with NUL as the last, and *)
(* nothing behind them.                                                    *)
Load ==
    /\ tray # Null /\ tray.mode = "r"
    /\ LET r == store[tray.file]
       IN /\ count <= Len(r.image) /\ ~NoText(r.attr)
          /\ memory' = [i \in 1 .. Cap |->
                 IF i > count THEN memory[i]
                 ELSE IF r.attr = "asc" /\ i = count THEN NUL ELSE r.image[i]]
    /\ tray' = Null
    /\ UNCHANGED <<store, count>>

(* Closed without a transfer; a load that fails may have begun.            *)
Eject ==
    /\ tray' = Null
    /\ memory' \in [1 .. Cap -> Datum]
    /\ count = 0 \/ \A i \in count + 1 .. Cap : memory'[i] = memory[i]
    /\ UNCHANGED <<store, count>>

(* The program uses its memory.                                            *)
Use ==
    /\ memory' \in [1 .. Cap -> Datum]
    /\ count' \in 0 .. Cap
    /\ UNCHANGED <<store, tray>>

(* The machine is switched off and on.  A recording that was open to save  *)
(* has become an empty text.                                               *)
Reset ==
    /\ tray' = Null
    /\ memory' \in [1 .. Cap -> Datum] /\ count' \in 0 .. Cap
    /\ \/ UNCHANGED store
       \/ /\ tray # Null /\ tray.mode = "w"
          /\ store' = [store EXCEPT ![tray.file] =
                         [attr |-> "asc", image |-> <<NUL>>]]

CNext ==
    \/ \E u \in Name, a \in {"asc", "bin"} : New(u, a)
    \/ \E u \in Name : Play(u)
    \/ Save \/ Load \/ Eject \/ Use \/ Reset

CSpec == CInit /\ [][CNext]_cvars
=============================================================================
