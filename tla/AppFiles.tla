------------------------------- MODULE AppFiles -------------------------------
(***************************************************************************)
(* The list of files of cAppWindow (omx.cpp) and the two threads that use  *)
(* it without a mutex: the play thread (player), which plays one file      *)
(* after the other, and the main thread (run, pollKeyboard), which moves   *)
(* mFileNum and rereads the directory at key presses.                      *)
(*                                                                         *)
(* A file is a number; what playing it does is in PlayLoop.  The shared    *)
(* variables are read and written where the -O2 build does: mFileNum is    *)
(* loaded once for its test and its increment and stored in a later step.  *)
(* The list itself is a std::vector: where both threads are in it at once  *)
(* and one of them changes it, anything between the right answer and the   *)
(* loss of the process is possible, and overlapped remembers it.           *)
(***************************************************************************)
EXTENDS Integers, Sequences, SequencesExt, FiniteSets

CONSTANTS
    First,      \* bound on the files in the directory when the program starts
    MaxFiles,   \* bound on the files in the directory (recordings are added to it)
    Keys,       \* the keys that are pressed: subset of {"prev", "next", "enter", "exit"}
    MaxKeys     \* bound on key presses

ASSUME BoundsAssumption == First \in Nat /\ MaxFiles \in Nat /\ First <= MaxFiles /\ MaxKeys \in Nat
ASSUME KeysAssumption == Keys \subseteq {"prev", "next", "enter", "exit"}

VARIABLES
    dir,         \* the directory, in the order nftw walks it
    first,       \* history: the files it held when the program started
    mFileNames, mFileNum, mEntered,
    mExit,       \* mExit or gAbort
    pc, scan,    \* per thread: where it is, how much of the directory nftw has walked
    loaded,      \* per thread: the mFileNum it is about to store a neighbour of, else 0
    fileName,    \* the file the play thread plays
    played,      \* history: the places of the list whose file was played to its end
    keys, nexts, \* keys pressed; history: those that were NEXT
    overlapped   \* history: a thread used mFileNames while the other was rereading it

listVars == <<mFileNames, scan>>
keyVars == <<mEntered, mExit, keys, nexts>>
playVars == <<fileName, played>>
vars == <<dir, first, overlapped, listVars, mFileNum, keyVars, pc, loaded, playVars>>

Threads == {"main", "play"}

\* run has read the directory once and starts the play thread.
Init ==
    /\ first \in 0..First /\ overlapped = FALSE
    /\ dir = [i \in 1..first |-> i] /\ mFileNames = dir
    /\ scan = [t \in Threads |-> 0]
    /\ mFileNum = 0 /\ loaded = [t \in Threads |-> 0]
    /\ mEntered = FALSE /\ mExit = FALSE /\ keys = 0 /\ nexts = 0
    /\ pc = [t \in Threads |-> IF t = "main" THEN "poll" ELSE "name"]
    /\ fileName = 0 /\ played = {}

Goto(t, label) == pc' = [pc EXCEPT ![t] = label]
\* Undefined behaviour: the process is lost.
Crash == pc' = [t \in Threads |-> "crashed"]

\* cDvb records a programme to a new file, somewhere in the walk's order.
Record ==
    /\ Len(dir) < MaxFiles
    /\ \E i \in 1..(Len(dir) + 1) : dir' = InsertAt(dir, i, Len(dir) + 1)
    /\ UNCHANGED <<first, overlapped, listVars, mFileNum, keyVars, pc, loaded, playVars>>

-------------------------------------------------------------------------------
(* updateFileNames, by either thread *)

AfterScan(t) == IF t = "main" THEN "poll" ELSE "check"

\* Thread t uses the list, whatever the other thread is doing to it.
Uses(t) == overlapped' = (overlapped \/ \E u \in Threads \ {t} : pc[u] = "walk")

Clear(t) ==
    /\ pc[t] = "update" /\ Uses(t)
    /\ mFileNames' = <<>>
    /\ scan' = [scan EXCEPT ![t] = 0]
    /\ Goto(t, "walk")
    /\ UNCHANGED <<dir, first, mFileNum, keyVars, loaded, playVars>>

AddFile(t) ==
    /\ pc[t] = "walk"
    /\ IF scan[t] < Len(dir)
       THEN /\ mFileNames' = Append(mFileNames, dir[scan[t] + 1])
            /\ scan' = [scan EXCEPT ![t] = @ + 1]
            /\ UNCHANGED pc
       ELSE Goto(t, AfterScan(t)) /\ scan' = [scan EXCEPT ![t] = 0] /\ UNCHANGED mFileNames
    /\ UNCHANGED <<dir, first, overlapped, mFileNum, keyVars, loaded, playVars>>

-------------------------------------------------------------------------------
(* pollKeyboard, in the main thread *)

\* mFileNames.size()-1 is unsigned: an empty list has no last place.
AtEndOffByOne(n) == mFileNames # <<>> /\ n >= Len(mFileNames)
AtEnd(n) == mFileNames # <<>> /\ n >= Len(mFileNames) - 1

Press == pc["main"] = "poll" /\ keys < MaxKeys /\ keys' = keys + 1

Move(key, allowed) ==
    /\ key \in Keys /\ Press
    /\ IF allowed
       THEN Goto("main", key) /\ loaded' = [loaded EXCEPT !["main"] = mFileNum]
       ELSE UNCHANGED <<pc, loaded>>
    /\ nexts' = IF key = "next" THEN nexts + 1 ELSE nexts
    /\ UNCHANGED <<dir, first, listVars, mFileNum, mEntered, mExit, playVars>>

HasPrev == mFileNum > 0

PrevFile == Move("prev", HasPrev) /\ UNCHANGED overlapped
NextFile == Move("next", ~AtEnd(mFileNum)) /\ Uses("main")

Moved ==
    /\ pc["main"] \in {"prev", "next"}
    /\ mFileNum' = IF pc["main"] = "prev" THEN loaded["main"] - 1 ELSE loaded["main"] + 1
    /\ loaded' = [loaded EXCEPT !["main"] = 0]
    /\ Goto("main", "update")
    /\ UNCHANGED <<dir, first, overlapped, listVars, keyVars, playVars>>

Enter ==
    /\ "enter" \in Keys /\ Press
    /\ mEntered' = TRUE
    /\ UNCHANGED <<dir, first, overlapped, listVars, mFileNum, mExit, nexts, pc, loaded, playVars>>

Exit ==
    /\ "exit" \in Keys /\ Press
    /\ mExit' = TRUE
    /\ UNCHANGED <<dir, first, overlapped, listVars, mFileNum, mEntered, nexts, pc, loaded, playVars>>

-------------------------------------------------------------------------------
(* player, in the play thread *)

\* An index outside the list is undefined behaviour too.
ReadName ==
    /\ pc["play"] = "name" /\ Uses("play")
    /\ IF mFileNum < Len(mFileNames)
       THEN Goto("play", "play") /\ fileName' = mFileNames[mFileNum + 1]
       ELSE Crash /\ UNCHANGED fileName
    /\ UNCHANGED <<dir, first, listVars, mFileNum, keyVars, loaded, played>>

\* open, beginPlay, playLoop, endPlay.  A file that does not open is passed over.
PlayFile ==
    /\ pc["play"] = "play"
    /\ played' = IF mEntered \/ mExit THEN played ELSE played \union {fileName}
    /\ Goto("play", "update")
    /\ UNCHANGED <<dir, first, overlapped, listVars, mFileNum, keyVars, loaded, fileName>>

\* After ENTER the play thread plays the file the keyboard has chosen, if any.
EnterForgotten == FALSE
Chosen == mEntered

Check ==
    /\ pc["play"] = "check"
    /\ \/ mExit /\ Goto("play", "leave") /\ UNCHANGED <<mEntered, loaded, overlapped>>
       \/ /\ ~mExit /\ Chosen /\ mEntered' = FALSE
          /\ Goto("play", "name") /\ UNCHANGED <<loaded, overlapped>>
       \/ /\ ~mExit /\ ~Chosen /\ UNCHANGED mEntered /\ Uses("play")
          /\ \/ AtEnd(mFileNum) /\ Goto("play", "leave") /\ UNCHANGED loaded
             \/ ~AtEnd(mFileNum) /\ Goto("play", "next") /\ loaded' = [loaded EXCEPT !["play"] = mFileNum]
    /\ UNCHANGED <<dir, first, listVars, mFileNum, mExit, keys, nexts, playVars>>

Stays(n) == n
Following(n) == n + 1

Advance ==
    /\ pc["play"] = "next"
    /\ mFileNum' = Following(loaded["play"])
    /\ loaded' = [loaded EXCEPT !["play"] = 0]
    /\ Goto("play", "name")
    /\ UNCHANGED <<dir, first, overlapped, listVars, keyVars, playVars>>

\* The name is read once more, then the exit is made known.
LastName ==
    /\ pc["play"] = "leave" /\ Uses("play")
    /\ IF mFileNum < Len(mFileNames)
       THEN Goto("play", "exit") /\ mExit' = TRUE
       ELSE Crash /\ UNCHANGED mExit
    /\ UNCHANGED <<dir, first, listVars, mFileNum, mEntered, keys, nexts, loaded, playVars>>

-------------------------------------------------------------------------------
(* Both threads are in the list at the same moment, one of them changing    *)
(* it: the vector may lose its storage under the other.                     *)

Rereads(t) == pc[t] \in {"update", "walk"}
Reads(t) ==
    IF t = "play" THEN pc[t] \in {"name", "check", "leave"}
    ELSE pc[t] = "poll" /\ "next" \in Keys /\ keys < MaxKeys

Race ==
    /\ \E t \in Threads : Rereads(t) /\ \A u \in Threads \ {t} : Rereads(u) \/ Reads(u)
    /\ Crash /\ overlapped' = TRUE
    /\ UNCHANGED <<dir, first, listVars, mFileNum, keyVars, loaded, playVars>>

-------------------------------------------------------------------------------
Play == ReadName \/ PlayFile \/ Check \/ Advance \/ LastName
          \/ Clear("play") \/ AddFile("play")
Main == PrevFile \/ NextFile \/ Moved \/ Enter \/ Exit
          \/ Clear("main") \/ AddFile("main")
Next == Record \/ Play \/ Main \/ Race

Spec == Init /\ [][Next]_vars
\* Both threads are scheduled; keys need not be pressed.
FairSpec ==
    /\ Spec
    /\ WF_vars(Play)
    /\ WF_vars(Moved \/ Clear("main") \/ AddFile("main"))

-------------------------------------------------------------------------------
(* Properties *)

\* Type invariant; the current place is never negative.
TypeOK ==
    /\ dir \in Seq(1..MaxFiles) /\ mFileNames \in Seq(1..MaxFiles)
    /\ mFileNum \in Nat /\ loaded \in [Threads -> Nat]
    /\ scan \in [Threads -> 0..MaxFiles]
    /\ mEntered \in BOOLEAN /\ mExit \in BOOLEAN /\ keys \in 0..MaxKeys /\ nexts \in Nat
    /\ first \in 0..First /\ overlapped \in BOOLEAN
    /\ pc["main"] \in {"poll", "prev", "next", "update", "walk", "crashed"}
    /\ pc["play"] \in {"name", "play", "update", "walk", "check", "next", "leave", "exit", "crashed"}
    /\ fileName \in 0..MaxFiles /\ played \subseteq 1..MaxFiles

\* There was a file to begin with, and no thread has used the list while the other was
\* rereading it.
Orderly == first # 0 /\ ~overlapped

\* Where the play thread reads mFileNames beyond its end, or the process is lost in the
\* list, there has been an overlap of the two threads or the directory was empty: nothing
\* else the keyboard does to mFileNum between the play thread's tests and increments can
\* carry it there.
InRange == pc["play"] = "crashed" => ~Orderly

\* In a directory that stays as it is the play thread, when it ends by itself, has missed no
\* more files than NEXT was pressed, unless it has tested a list that the other thread was
\* refilling: PREV and ENTER repeat files but skip none, whatever of the two threads' reads
\* and writes of mFileNum is lost.
NoneSkipped ==
    pc["play"] = "leave" /\ ~mExit /\ Len(dir) = first /\ ~overlapped
        => Cardinality((1..first) \ played) <= nexts

\* Whatever is recorded, pressed and reread, the play thread reaches the line that makes
\* "sure everybody sees exit" (player), if it is not lost in the list.
ExitSeen == <>(mExit \/ pc["play"] = "crashed")
===============================================================================
