---------------------------- MODULE AppFilesProofs ----------------------------
(***************************************************************************)
(* Proofs about AppFiles, for directories of any size, the empty one       *)
(* included: where the play thread reads mFileNames beyond its end, or     *)
(* skips a file it was not asked to skip, a thread has used the list while *)
(* the other was rereading it, or there was no file.                       *)
(*                                                                         *)
(* The invariant behind it bounds every place a thread may still store in  *)
(* mFileNum, by the list while it is whole and by the directory while it   *)
(* is being reread; the directory only grows.  It holds until the first    *)
(* overlap: what is left of a place after one may lie behind any list.     *)
(***************************************************************************)
EXTENDS AppFiles, SequenceTheorems, FiniteSetTheorems, TLAPS

Labels == {"poll", "prev", "next", "update", "walk", "name", "play", "check", "leave",
           "exit", "crashed"}

Walking(t) == pc[t] = "walk"
Whole == \A t \in Threads : ~Walking(t)

\* The place that a thread in the middle of an increment or decrement will store.
Bounded(n) ==
    /\ mFileNum < n
    /\ pc["main"] = "prev" => loaded["main"] \in 1..n
    /\ \A t \in Threads : pc[t] = "next" => loaded[t] + 1 < n

InOrder ==
    /\ Bounded(Len(dir))
    /\ Whole => Bounded(Len(mFileNames))
    /\ \A t \in Threads : Walking(t) => scan[t] = Len(mFileNames)
    /\ ~(Walking("main") /\ Walking("play"))
    /\ Len(mFileNames) <= Len(dir)
    /\ pc["play"] # "crashed"

Steady ==
    /\ pc["play"] = "play" => fileName # 0
    /\ pc["main"] = "prev" => loaded["main"] > 0
    /\ first <= Len(dir) /\ Len(dir) <= MaxFiles
    /\ \A t \in Threads : scan[t] <= Len(dir)

IndInv == TypeOK /\ pc \in [Threads -> Labels] /\ Steady /\ (Orderly => InOrder)

\* InsertAt puts one element into a sequence of the same kind.
LEMMA InsertAtType ==
    ASSUME NEW S, NEW s \in Seq(S), NEW e \in S, NEW i \in 1..(Len(s) + 1)
    PROVE  InsertAt(s, i, e) \in Seq(S) /\ Len(InsertAt(s, i, e)) = Len(s) + 1
<1>1. Len(s) \in Nat /\ i \in Nat /\ \A k \in 1..Len(s) : s[k] \in S
  OBVIOUS
<1>2. SubSeq(s, 1, i - 1) \in Seq(S) /\ Len(SubSeq(s, 1, i - 1)) = i - 1
  BY <1>1
<1>3. SubSeq(s, i, Len(s)) \in Seq(S) /\ Len(SubSeq(s, i, Len(s))) = Len(s) - i + 1
  BY <1>1
<1> DEFINE front == SubSeq(s, 1, i - 1)
           rest == SubSeq(s, i, Len(s))
<1>4. InsertAt(s, i, e) = (front \o <<e>>) \o rest
  BY DEF InsertAt
<1>5. <<e>> \in Seq(S) /\ Len(<<e>>) = 1
  OBVIOUS
<1>8. front \in Seq(S) /\ Len(front) = i - 1 /\ rest \in Seq(S) /\ Len(rest) = Len(s) - i + 1
  BY <1>2, <1>3
<1> HIDE DEF front, rest
<1>6. front \o <<e>> \in Seq(S) /\ Len(front \o <<e>>) = Len(front) + 1
  BY <1>5, <1>8, ConcatProperties
<1>7. (front \o <<e>>) \o rest \in Seq(S)
      /\ Len((front \o <<e>>) \o rest) = Len(front \o <<e>>) + Len(rest)
  BY <1>6, <1>8, ConcatProperties
<1>9. Len((front \o <<e>>) \o rest) = Len(s) + 1
  BY <1>1, <1>6, <1>7, <1>8
<1> QED
  BY <1>4, <1>7, <1>9

\* The first scan, by run, has found what is in the directory.
LEMMA InitInv == Init => IndInv
<1>1. SUFFICES ASSUME Init PROVE IndInv
  OBVIOUS
<1>2. dir \in Seq(1..MaxFiles) /\ Len(dir) = first /\ first \in 0..First /\ First \in Nat
  <2>1. dir = [i \in 1..first |-> i] /\ first \in Nat /\ \A i \in 1..first : i \in 1..MaxFiles
    BY <1>1, BoundsAssumption DEF Init
  <2> QED
    BY <1>1, <2>1, BoundsAssumption DEF Init
<1>3. TypeOK
  <2>1. /\ mFileNum \in Nat /\ loaded \in [Threads -> Nat] /\ scan \in [Threads -> 0..MaxFiles]
        /\ mFileNames \in Seq(1..MaxFiles) /\ keys \in 0..MaxKeys /\ nexts \in Nat
        /\ fileName \in 0..MaxFiles /\ played \subseteq 1..MaxFiles
    BY <1>1, <1>2, BoundsAssumption DEF Init, Threads
  <2>2. mEntered \in BOOLEAN /\ mExit \in BOOLEAN /\ overlapped \in BOOLEAN
    BY <1>1 DEF Init
  <2>3. pc["main"] = "poll" /\ pc["play"] = "name"
    BY <1>1 DEF Init, Threads
  <2> QED
    BY <1>2, <2>1, <2>2, <2>3 DEF TypeOK
<1>4. pc \in [Threads -> Labels]
  BY <1>1 DEF Init, Threads, Labels
<1>5. Steady
  BY <1>1, <1>2, BoundsAssumption DEF Init, Steady, Threads
<1>6. Orderly => InOrder
  BY <1>1, <1>2, BoundsAssumption DEF Init, Orderly, InOrder, Bounded, Whole, Walking, Threads
<1> QED
  BY <1>3, <1>4, <1>5, <1>6 DEF IndInv

\* A step is orderly only after orderly ones.
LEMMA StaysDisorderly ==
    ASSUME [Next]_vars, overlapped \in BOOLEAN
    PROVE  (Orderly' => Orderly) /\ first' = first
<1>1. first' = first /\ (overlapped' = overlapped \/ overlapped' = TRUE
        \/ \E t \in Threads : Uses(t))
  BY DEF Next, Record, Play, Main, Race, ReadName, PlayFile, Check, Advance, LastName, Clear,
     AddFile, PrevFile, NextFile, Move, Press, Moved, Enter, Exit, vars, Threads
<1>2. overlapped => overlapped'
  BY <1>1 DEF Uses
<1> QED
  BY <1>1, <1>2 DEF Orderly

\* Every step of either thread keeps the invariant.
LEMMA StepInv == IndInv /\ [Next]_vars => IndInv'
<1> SUFFICES ASSUME IndInv, [Next]_vars PROVE IndInv'
  OBVIOUS
<1> USE BoundsAssumption
<1> USE DEF listVars, keyVars, playVars, Goto, Labels
<1>a. /\ Len(dir) \in Nat /\ Len(mFileNames) \in Nat /\ mFileNum \in Nat
      /\ loaded \in [Threads -> Nat] /\ scan \in [Threads -> 0..MaxFiles]
      /\ pc \in [Threads -> Labels] /\ first \in Nat /\ overlapped \in BOOLEAN
      /\ MaxFiles \in Nat /\ "main" \in Threads /\ "play" \in Threads
  BY DEF IndInv, TypeOK, Threads
<1>b. TypeOK /\ Steady /\ (Orderly => InOrder)
  BY DEF IndInv
<1>d. (Orderly' => Orderly /\ InOrder) /\ first' = first
  BY <1>a, <1>b, StaysDisorderly
<1>c. ASSUME TypeOK', pc' \in [Threads -> Labels], Steady', Orderly' => InOrder' PROVE IndInv'
  BY <1>c DEF IndInv
\* Where a thread uses the list and the step is orderly, the other is not in it.
<1>u. ASSUME NEW t \in Threads, Uses(t)
      PROVE  overlapped' \in BOOLEAN /\ (Orderly' => \A u \in Threads \ {t} : ~Walking(u))
  BY <1>a, <1>u DEF Uses, Orderly, Walking
<1>1. CASE Record
  <2>1. PICK i \in 1..(Len(dir) + 1) : dir' = InsertAt(dir, i, Len(dir) + 1)
    BY <1>1 DEF Record
  <2>2. dir \in Seq(1..MaxFiles) /\ Len(dir) + 1 \in 1..MaxFiles
    BY <1>1, <1>a, <1>b DEF Record, TypeOK
  <2>3. dir' \in Seq(1..MaxFiles) /\ Len(dir') = Len(dir) + 1
    BY <2>1, <2>2, InsertAtType
  <2>4. TypeOK'
    BY <1>1, <1>b, <2>3 DEF Record, TypeOK
  <2>5. Steady'
    BY <1>1, <1>a, <1>b, <2>2, <2>3 DEF Record, Steady, Threads
  <2>6. Orderly' => InOrder'
    BY <1>1, <1>a, <1>d, <2>2, <2>3 DEF Record, InOrder, Bounded, Whole, Walking, Threads
  <2> QED
    BY <1>1, <1>a, <1>c, <2>4, <2>5, <2>6 DEF Record
<1>2. ASSUME NEW t \in Threads, Clear(t) PROVE IndInv'
  <2>1. overlapped' \in BOOLEAN /\ (Orderly' => \A u \in Threads \ {t} : ~Walking(u))
    BY <1>2, <1>u DEF Clear
  <2>2. /\ pc' = [pc EXCEPT ![t] = "walk"] /\ scan' = [scan EXCEPT ![t] = 0]
        /\ mFileNames' = <<>> /\ Len(mFileNames') = 0
    BY <1>2 DEF Clear
  <2>3. TypeOK'
    BY <1>2, <1>a, <1>b, <2>1, <2>2 DEF Clear, TypeOK, Threads
  <2>4. Steady'
    BY <1>2, <1>a, <1>b, <2>2 DEF Clear, Steady, Threads
  <2>5. Orderly' => InOrder'
    BY <1>2, <1>a, <1>d, <2>1, <2>2 DEF Clear, InOrder, Bounded, Whole, Walking, Threads
  <2> QED
    BY <1>a, <1>c, <2>2, <2>3, <2>4, <2>5
<1>3. ASSUME NEW t \in Threads, AddFile(t) PROVE IndInv'
  <2>1. Walking(t) /\ scan[t] <= Len(dir)
    BY <1>3, <1>b DEF AddFile, Steady, Walking
  <2>0. Orderly' => scan[t] = Len(mFileNames) /\ \A u \in Threads \ {t} : ~Walking(u)
    BY <1>d, <2>1 DEF InOrder, Threads
  <2>2. CASE scan[t] < Len(dir)
    <3>1. dir[scan[t] + 1] \in 1..MaxFiles
      BY <1>a, <1>b, <2>2 DEF TypeOK
    <3>2. /\ mFileNames' = Append(mFileNames, dir[scan[t] + 1])
          /\ scan' = [scan EXCEPT ![t] = scan[t] + 1] /\ pc' = pc
      BY <1>3, <2>2 DEF AddFile
    <3>3. mFileNames' \in Seq(1..MaxFiles) /\ Len(mFileNames') = Len(mFileNames) + 1
      BY <1>b, <3>1, <3>2 DEF TypeOK
    <3>4. scan[t] + 1 \in 0..MaxFiles
      BY <1>a, <1>b, <2>2 DEF Steady
    <3>5. TypeOK'
      BY <1>3, <1>a, <1>b, <3>2, <3>3, <3>4 DEF AddFile, TypeOK
    <3>6. Steady'
      BY <1>3, <1>a, <1>b, <2>2, <3>2 DEF AddFile, Steady, Threads
    <3>7. Orderly' => InOrder'
      BY <1>3, <1>a, <1>d, <2>0, <2>1, <2>2, <3>2, <3>3
         DEF AddFile, InOrder, Bounded, Whole, Walking, Threads
    <3> QED
      BY <1>a, <1>c, <3>2, <3>5, <3>6, <3>7
  <2>3. CASE ~(scan[t] < Len(dir))
    <3>1. /\ pc' = [pc EXCEPT ![t] = AfterScan(t)] /\ mFileNames' = mFileNames
          /\ scan' = [scan EXCEPT ![t] = 0]
      BY <1>3, <2>3 DEF AddFile
    <3>2. Orderly' => Len(mFileNames) = Len(dir)
      BY <1>a, <2>0, <2>1, <2>3
    <3>3. TypeOK'
      BY <1>3, <1>a, <1>b, <3>1 DEF AddFile, AfterScan, TypeOK, Threads
    <3>4. Steady'
      BY <1>3, <1>a, <1>b, <3>1 DEF AddFile, AfterScan, Steady, Threads
    <3>5. Orderly' => InOrder'
      BY <1>3, <1>a, <1>d, <2>0, <3>1, <3>2
         DEF AddFile, AfterScan, InOrder, Bounded, Whole, Walking, Threads
    <3> QED
      BY <1>a, <1>c, <3>1, <3>3, <3>4, <3>5 DEF AfterScan
  <2> QED
    BY <2>2, <2>3
<1>4. CASE PrevFile \/ NextFile
  <2>1. /\ overlapped' \in BOOLEAN /\ pc["main"] = "poll"
        /\ NextFile /\ Orderly' => ~Walking("play")
    BY <1>4, <1>a, <1>u DEF PrevFile, NextFile, Move, Press, Threads
  <2>2. UNCHANGED <<dir, first, listVars, mFileNum, playVars, mEntered, mExit>>
        /\ keys' \in 0..MaxKeys /\ nexts' \in Nat
    BY <1>4, <1>b DEF PrevFile, NextFile, Move, Press, TypeOK
  <2>3. CASE pc' = pc /\ loaded' = loaded
    <3>1. TypeOK' /\ pc' \in [Threads -> Labels]
      BY <1>a, <1>b, <2>1, <2>2, <2>3 DEF TypeOK
    <3>2. Steady'
      BY <1>b, <2>2, <2>3 DEF Steady
    <3>3. Orderly' => InOrder'
      BY <1>d, <2>2, <2>3 DEF InOrder, Bounded, Whole, Walking
    <3> QED
      BY <1>c, <3>1, <3>2, <3>3
  <2>4. ASSUME NEW key \in {"prev", "next"},
               key = "prev" => mFileNum > 0,
               key = "next" /\ Orderly' => mFileNum + 1 < Len(mFileNames),
               pc' = [pc EXCEPT !["main"] = key], loaded' = [loaded EXCEPT !["main"] = mFileNum]
        PROVE  IndInv'
    <3>1. TypeOK' /\ pc' \in [Threads -> Labels]
      BY <1>a, <1>b, <2>1, <2>2, <2>4 DEF TypeOK, Threads
    <3>2. Steady'
      BY <1>a, <1>b, <2>2, <2>4 DEF Steady, Threads
    <3>3. Orderly' => InOrder'
      BY <1>a, <1>d, <2>1, <2>2, <2>4 DEF InOrder, Bounded, Whole, Walking, Threads
    <3> QED
      BY <1>c, <3>1, <3>2, <3>3
  <2>5. NextFile /\ Orderly' /\ ~AtEnd(mFileNum) => mFileNum + 1 < Len(mFileNames)
    BY <2>1, <1>a, <1>d DEF AtEnd, InOrder, Whole, Walking, Bounded, Threads
  <2> QED
    BY <1>4, <2>3, <2>4, <2>5 DEF PrevFile, NextFile, Move, HasPrev
<1>5. CASE Moved
  <2>1. /\ mFileNum' \in Nat /\ pc' = [pc EXCEPT !["main"] = "update"]
        /\ loaded' = [loaded EXCEPT !["main"] = 0]
    BY <1>5, <1>a, <1>b DEF Moved, Steady
  <2>2. TypeOK' /\ pc' \in [Threads -> Labels]
    BY <1>5, <1>a, <1>b, <2>1 DEF Moved, TypeOK, Threads
  <2>3. Steady'
    BY <1>5, <1>a, <1>b, <2>1 DEF Moved, Steady, Threads
  <2>4. Orderly' => InOrder'
    <3>1. ASSUME NEW n \in Nat, Bounded(n)
          PROVE  mFileNum' < n /\ (pc'["play"] = "next" => loaded'["play"] + 1 < n)
      BY <1>5, <1>a, <2>1, <3>1 DEF Moved, Bounded, Threads
    <3> QED
      BY <1>5, <1>a, <1>d, <2>1, <3>1 DEF Moved, InOrder, Bounded, Whole, Walking, Threads
  <2> QED
    BY <1>c, <2>2, <2>3, <2>4
<1>6. CASE Enter \/ Exit
  <2>1. UNCHANGED <<dir, first, overlapped, listVars, mFileNum, nexts, pc, loaded, playVars>>
        /\ keys' \in 0..MaxKeys
    BY <1>6, <1>b DEF Enter, Exit, Press, TypeOK
  <2>2. mEntered' \in BOOLEAN /\ mExit' \in BOOLEAN
    BY <1>6, <1>b DEF Enter, Exit, TypeOK
  <2>3. TypeOK' /\ Steady'
    BY <1>b, <2>1, <2>2 DEF TypeOK, Steady
  <2>4. Orderly' => InOrder'
    BY <1>d, <2>1 DEF InOrder, Bounded, Whole, Walking
  <2> QED
    BY <1>a, <1>c, <2>1, <2>3, <2>4
\* A crash keeps what a crash cannot disturb.
<1>x. ASSUME Crash, UNCHANGED <<dir, first, listVars, mFileNum, loaded, playVars>>
      PROVE  pc' \in [Threads -> Labels] /\ Steady'
  BY <1>a, <1>b, <1>x DEF Crash, Steady, Threads
<1>7. CASE ReadName
  <2>0. overlapped' \in BOOLEAN /\ (Orderly' => ~Walking("play") /\ ~Walking("main"))
    BY <1>7, <1>u DEF ReadName, Walking, Threads
  <2>1. Orderly' => mFileNum < Len(mFileNames)
    BY <2>0, <1>d DEF InOrder, Whole, Bounded, Threads
  <2>2. CASE mFileNum < Len(mFileNames)
    <3>1. fileName' = mFileNames[mFileNum + 1] /\ fileName' \in 1..MaxFiles
      BY <1>7, <1>a, <1>b, <2>2 DEF ReadName, TypeOK
    <3>2. pc' = [pc EXCEPT !["play"] = "play"]
      BY <1>7, <2>2 DEF ReadName
    <3>3. TypeOK' /\ pc' \in [Threads -> Labels]
      BY <1>7, <1>a, <1>b, <2>0, <3>1, <3>2 DEF ReadName, TypeOK, Threads
    <3>4. Steady'
      BY <1>7, <1>a, <1>b, <3>1, <3>2 DEF ReadName, Steady, Threads
    <3>5. Orderly' => InOrder'
      BY <1>7, <1>a, <1>d, <2>0, <3>2 DEF ReadName, InOrder, Bounded, Whole, Walking, Threads
    <3> QED
      BY <1>c, <3>3, <3>4, <3>5
  <2>3. CASE ~(mFileNum < Len(mFileNames))
    <3>1. Crash /\ UNCHANGED <<dir, first, listVars, mFileNum, keyVars, loaded, playVars>>
      BY <1>7, <2>3 DEF ReadName
    <3>2. TypeOK'
      BY <1>b, <2>0, <3>1 DEF Crash, TypeOK, Threads
    <3> QED
      BY <1>c, <1>x, <2>1, <2>3, <3>1, <3>2
  <2> QED
    BY <2>2, <2>3
<1>8. CASE PlayFile
  <2>1. pc' = [pc EXCEPT !["play"] = "update"] /\ pc["play"] = "play" /\ fileName \in 1..MaxFiles
    BY <1>8, <1>b DEF PlayFile, TypeOK, Steady
  <2>2. TypeOK' /\ pc' \in [Threads -> Labels]
    BY <1>8, <1>a, <1>b, <2>1 DEF PlayFile, TypeOK, Threads
  <2>3. Steady'
    BY <1>8, <1>a, <1>b, <2>1 DEF PlayFile, Steady, Threads
  <2>4. Orderly' => InOrder'
    BY <1>8, <1>a, <1>d, <2>1 DEF PlayFile, InOrder, Bounded, Whole, Walking, Threads
  <2> QED
    BY <1>c, <2>2, <2>3, <2>4
<1>9. CASE Check
  <2>1. /\ UNCHANGED <<dir, first, listVars, mFileNum, mExit, keys, nexts, playVars>>
        /\ mEntered' \in BOOLEAN /\ overlapped' \in BOOLEAN /\ pc["play"] = "check"
    BY <1>9, <1>a, <1>b, <1>u DEF Check, TypeOK
  <2>2. \/ pc' = [pc EXCEPT !["play"] = "leave"] /\ loaded' = loaded
        \/ pc' = [pc EXCEPT !["play"] = "name"] /\ loaded' = loaded
        \/ /\ pc' = [pc EXCEPT !["play"] = "next"] /\ loaded' = [loaded EXCEPT !["play"] = mFileNum]
           /\ Uses("play") /\ ~AtEnd(mFileNum)
    BY <1>9 DEF Check
  <2>3. Uses("play") /\ ~AtEnd(mFileNum) /\ Orderly' => mFileNum + 1 < Len(mFileNames) /\ Whole
    <3>1. Uses("play") /\ Orderly' => ~Walking("main") /\ ~Walking("play")
      BY <1>u, <2>1 DEF Walking, Threads
    <3> QED
      BY <3>1, <1>a, <1>d DEF AtEnd, InOrder, Whole, Bounded, Threads
  <2>5. TypeOK' /\ pc' \in [Threads -> Labels]
    BY <1>a, <1>b, <2>1, <2>2 DEF TypeOK, Threads
  <2>6. Steady'
    BY <1>a, <1>b, <2>1, <2>2 DEF Steady, Threads
  <2>7. Orderly' => InOrder'
    BY <1>a, <1>d, <2>1, <2>2, <2>3 DEF InOrder, Bounded, Whole, Walking, Threads
  <2> QED
    BY <1>c, <2>5, <2>6, <2>7
<1>10. CASE Advance
  <2>1. /\ pc' = [pc EXCEPT !["play"] = "name"] /\ pc["play"] = "next"
        /\ mFileNum' = loaded["play"] + 1 /\ loaded' = [loaded EXCEPT !["play"] = 0]
    BY <1>10 DEF Advance, Following
  <2>2. TypeOK' /\ pc' \in [Threads -> Labels]
    BY <1>10, <1>a, <1>b, <2>1 DEF Advance, TypeOK, Threads
  <2>3. Steady'
    BY <1>10, <1>a, <1>b, <2>1 DEF Advance, Steady, Threads
  <2>4. Orderly' => InOrder'
    BY <1>10, <1>a, <1>d, <2>1 DEF Advance, InOrder, Bounded, Whole, Walking, Threads
  <2> QED
    BY <1>c, <2>2, <2>3, <2>4
<1>11. CASE LastName
  <2>0. overlapped' \in BOOLEAN /\ (Orderly' => ~Walking("play") /\ ~Walking("main"))
    BY <1>11, <1>u DEF LastName, Walking, Threads
  <2>1. Orderly' => mFileNum < Len(mFileNames)
    BY <2>0, <1>d DEF InOrder, Whole, Bounded, Threads
  <2>2. CASE mFileNum < Len(mFileNames)
    <3>1. pc' = [pc EXCEPT !["play"] = "exit"] /\ mExit' = TRUE
      BY <1>11, <2>2 DEF LastName
    <3>2. mExit' \in BOOLEAN
      BY <3>1
    <3>3. TypeOK' /\ pc' \in [Threads -> Labels]
      BY <1>11, <1>a, <1>b, <2>0, <3>1, <3>2 DEF LastName, TypeOK, Threads
    <3>4. Steady'
      BY <1>11, <1>a, <1>b, <3>1 DEF LastName, Steady, Threads
    <3>5. Orderly' => InOrder'
      BY <1>11, <1>a, <1>d, <2>0, <3>1 DEF LastName, InOrder, Bounded, Whole, Walking, Threads
    <3> QED
      BY <1>c, <3>3, <3>4, <3>5
  <2>3. CASE ~(mFileNum < Len(mFileNames))
    <3>1. Crash /\ UNCHANGED <<dir, first, listVars, mFileNum, keyVars, loaded, playVars>>
      BY <1>11, <2>3 DEF LastName
    <3>2. TypeOK'
      BY <1>b, <2>0, <3>1 DEF Crash, TypeOK, Threads
    <3> QED
      BY <1>c, <1>x, <2>1, <2>3, <3>1, <3>2
  <2> QED
    BY <2>2, <2>3
<1>12. CASE Race
  <2>1. Crash /\ UNCHANGED <<dir, first, listVars, mFileNum, keyVars, loaded, playVars>>
        /\ overlapped' \in BOOLEAN /\ ~Orderly'
    BY <1>12 DEF Race, Orderly
  <2>2. TypeOK'
    BY <1>b, <2>1 DEF Crash, TypeOK, Threads
  <2> QED
    BY <1>c, <1>x, <2>1, <2>2
<1>13. CASE UNCHANGED vars
  <2>1. TypeOK' /\ pc' \in [Threads -> Labels]
    BY <1>13, <1>a, <1>b DEF vars, TypeOK
  <2>2. Steady'
    BY <1>13, <1>b DEF vars, Steady
  <2>3. Orderly' => InOrder'
    BY <1>13, <1>d DEF vars, InOrder, Bounded, Whole, Walking
  <2> QED
    BY <1>c, <2>1, <2>2, <2>3
<1> QED
  BY <1>1, <1>2, <1>3, <1>4, <1>5, <1>6, <1>7, <1>8, <1>9, <1>10, <1>11, <1>12, <1>13
     DEF Next, Play, Main, Threads

\* The invariant holds of every behaviour.
THEOREM FilesInvariant == Spec => []IndInv
BY InitInv, StepInv, PTL DEF Spec

\* player's reads of mFileNames[mFileNum] stay inside the list, whatever the keyboard does
\* to mFileNum between its tests and its increments, until a thread uses the list while
\* the other rereads it; and there must have been a file (player, updateFileNames).
THEOREM NeverBeyond == Spec => []InRange
<1>1. IndInv => InRange
  BY DEF IndInv, InOrder, InRange
<1> QED
  BY <1>1, FilesInvariant, PTL

-------------------------------------------------------------------------------
(* What is skipped.  NEXT presses that the main thread has carried out      *)
(* allow for every file that lies behind mFileNum, or behind a place some   *)
(* thread may still store there, and has not been played.                   *)

InFile == {"play", "update", "walk", "check", "next"}

\* The files at the first n places that have not been played.
Missed(n) == (1..n) \ played
\* NEXT presses that have been carried out.
Moves == IF pc["main"] = "next" THEN nexts - 1 ELSE nexts
Few(S, n) == IsFiniteSet(S) /\ Cardinality(S) <= n
Allowed(S) == Few(S, Moves)

\* The list is the directory as it was, or the part of it that is read again.
Unchanged ==
    /\ \A i \in 1..Len(dir) : dir[i] = i
    /\ \A i \in 1..Len(mFileNames) : mFileNames[i] = i
    /\ Whole => Len(mFileNames) = first

\* What lies behind mFileNum is allowed for; while a file is in the play thread's hands
\* also what lies behind the next place, that file excepted; and what lies behind a place
\* that is loaded but not yet stored.
Counted ==
    /\ nexts \in Nat /\ Moves \in Nat
    /\ Allowed(Missed(mFileNum))
    /\ pc["play"] \in InFile => Allowed(Missed(mFileNum + 1) \ {fileName})
    /\ pc["play"] = "next" => fileName \in played /\ Allowed(Missed(loaded["play"] + 1))
    /\ pc["play"] \in {"update", "walk", "check"} => fileName \in played \/ mEntered \/ mExit
    /\ pc["main"] = "next" =>
          loaded["main"] = mFileNum \/ Allowed(Missed(loaded["main"] + 1))
    /\ pc["main"] = "prev" => Allowed(Missed(loaded["main"]))
    /\ pc["play"] = "leave" /\ ~mExit => Allowed(Missed(first))

SkipInv == Orderly /\ Len(dir) = first => Unchanged /\ Counted

\* Fewer files are few, and one file is one more.
LEMMA FewerAreFew ==
    ASSUME NEW S, NEW T, T \subseteq S, NEW m \in Int, NEW n \in Int, m <= n, Few(S, m)
    PROVE  Few(T, n)
<1>1. IsFiniteSet(T) /\ Cardinality(T) <= Cardinality(S)
  BY FS_Subset DEF Few
<1>2. Cardinality(S) \in Nat /\ Cardinality(T) \in Nat
  BY <1>1, FS_CardinalityType DEF Few
<1> QED
  BY <1>1, <1>2 DEF Few

LEMMA OneMoreIsFew ==
    ASSUME NEW S, NEW x, NEW n \in Int, NEW m \in Int, m = n + 1, Few(S, n)
    PROVE  Few(S \union {x}, m)
<1>1. IsFiniteSet(S) /\ IsFiniteSet(S \union {x})
      /\ Cardinality(S \union {x}) = IF x \in S THEN Cardinality(S) ELSE Cardinality(S) + 1
  BY FS_AddElement DEF Few
<1>2. Cardinality(S) \in Nat
  BY <1>1, FS_CardinalityType
<1> QED
  BY <1>1, <1>2 DEF Few

\* While nothing is recorded the list stays a part of the directory, and is all of it
\* where no thread is in the middle of reading it.
LEMMA UnchangedStep ==
    ASSUME IndInv, InOrder, Unchanged, Len(dir) = first, dir' = dir, Orderly', [Next]_vars
    PROVE  Unchanged'
<1> USE DEF listVars, keyVars, playVars, Goto
<1>1. pc \in [Threads -> Labels] /\ "main" \in Threads /\ "play" \in Threads
      /\ Len(mFileNames) \in Nat /\ Len(dir) \in Nat /\ mFileNames \in Seq(1..MaxFiles)
      /\ scan \in [Threads -> 0..MaxFiles] /\ first' = first
  BY StaysDisorderly DEF IndInv, TypeOK, Threads
<1>2. ASSUME mFileNames' = mFileNames, \A t \in Threads : Walking(t) => Walking(t)'
      PROVE  Unchanged'
  BY <1>1, <1>2 DEF Unchanged, Whole
<1>3. ASSUME NEW t \in Threads, Clear(t) PROVE Unchanged'
  <2>1. mFileNames' = <<>> /\ Walking(t)'
    BY <1>1, <1>3 DEF Clear, Walking
  <2> QED
    BY <2>1 DEF Unchanged, Whole
<1>4. ASSUME NEW t \in Threads, AddFile(t) PROVE Unchanged'
  <2>1. Walking(t) /\ scan[t] = Len(mFileNames) /\ scan[t] <= Len(dir)
        /\ Len(mFileNames) <= Len(dir)
    BY <1>4 DEF AddFile, IndInv, Steady, InOrder, Walking
  <2>2. CASE scan[t] < Len(dir)
    <3>1. mFileNames' = Append(mFileNames, dir[scan[t] + 1]) /\ pc' = pc
      BY <1>4, <2>2 DEF AddFile
    <3>2. dir[scan[t] + 1] = Len(mFileNames) + 1
      BY <1>1, <2>1, <2>2 DEF Unchanged
    <3>3. \A i \in 1..Len(mFileNames') : mFileNames'[i] = i
      BY <1>1, <3>1, <3>2 DEF Unchanged
    <3>4. Walking(t)'
      BY <2>1, <3>1 DEF Walking
    <3> QED
      BY <3>3, <3>4 DEF Unchanged, Whole
  <2>3. CASE ~(scan[t] < Len(dir))
    <3>1. mFileNames' = mFileNames
      BY <1>4, <2>3 DEF AddFile
    <3>2. Len(mFileNames) = first
      BY <1>1, <2>1, <2>3
    <3> QED
      BY <1>1, <3>1, <3>2 DEF Unchanged
  <2> QED
    BY <2>2, <2>3
<1>5. CASE PrevFile \/ NextFile \/ Moved \/ Enter \/ Exit
  <2>1. mFileNames' = mFileNames /\ pc["main"] # "walk"
        /\ (pc' = pc \/ \E l \in {"prev", "next", "update"} : pc' = [pc EXCEPT !["main"] = l])
    BY <1>5 DEF PrevFile, NextFile, Move, Press, Moved, Enter, Exit
  <2> QED
    BY <1>1, <1>2, <2>1 DEF Walking, Threads
<1>8. pc'["play"] # "crashed" /\ ~Race
  BY StepInv DEF IndInv, InOrder, Race, Orderly
<1>6. CASE ReadName \/ PlayFile \/ Check \/ Advance \/ LastName
  <2>0. ~Crash
    <3>1. pc'["play"] # "crashed"
      BY <1>8
    <3> QED
      BY <1>1, <3>1 DEF Crash
  <2>1. mFileNames' = mFileNames /\ pc["play"] # "walk"
        /\ \E l \in Labels : pc' = [pc EXCEPT !["play"] = l]
    BY <1>6, <2>0 DEF ReadName, PlayFile, Check, Advance, LastName, Labels
  <2> QED
    BY <1>1, <1>2, <2>1 DEF Walking, Threads
<1>7. CASE Record \/ UNCHANGED vars
  <2>1. mFileNames' = mFileNames /\ pc' = pc
    BY <1>7 DEF Record, vars
  <2> QED
    BY <1>2, <2>1 DEF Walking
<1> QED
  BY <1>3, <1>4, <1>5, <1>6, <1>7, <1>8 DEF Next, Play, Main, Threads

\* No step leaves more files behind than NEXT presses allow for.
LEMMA CountedStep ==
    ASSUME IndInv, InOrder, Unchanged, Len(dir) = first, Counted, dir' = dir, Orderly', [Next]_vars
    PROVE  Counted'
<1> USE DEF listVars, keyVars, playVars, Goto
<1>1. /\ pc \in [Threads -> Labels] /\ loaded \in [Threads -> Nat]
      /\ "main" \in Threads /\ "play" \in Threads /\ "main" # "play"
      /\ mFileNum \in Nat /\ nexts \in Nat /\ Moves \in Nat
      /\ loaded["main"] \in Nat /\ loaded["play"] \in Nat
      /\ Len(mFileNames) \in Nat /\ first \in Nat /\ first' = first
      /\ pc'["play"] # "crashed" /\ ~Race
  <2>1. first' = first /\ overlapped \in BOOLEAN
    BY StaysDisorderly DEF IndInv, TypeOK
  <2>2. pc'["play"] # "crashed" /\ ~Race
    BY StepInv DEF IndInv, InOrder, Race, Orderly
  <2> QED
    BY <2>1, <2>2, BoundsAssumption DEF IndInv, TypeOK, Threads, Counted
\* Where a thread uses the list, no thread is rereading it.
<1>u. ASSUME NEW t \in Threads, Uses(t) PROVE \A u \in Threads \ {t} : ~Walking(u)
  BY <1>u DEF Uses, Orderly, Walking
<1>2. ASSUME Moves' \in Nat, Moves <= Moves', played \subseteq played'
      PROVE  /\ \A m, n \in Nat : n <= m /\ Allowed(Missed(m)) => Few((1..n) \ played', Moves')
             /\ \A m, n \in Nat : \A f : n <= m /\ Allowed(Missed(m) \ {f})
                                        => Few(((1..n) \ played') \ {f}, Moves')
  <2>1. ASSUME NEW m \in Nat, NEW n \in Nat, n <= m, Allowed(Missed(m))
        PROVE  Few((1..n) \ played', Moves')
    <3>1. (1..n) \ played' \subseteq Missed(m)
      BY <1>2, <2>1 DEF Missed
    <3> QED
      BY <1>1, <1>2, <2>1, <3>1, FewerAreFew DEF Allowed
  <2>2. ASSUME NEW m \in Nat, NEW n \in Nat, NEW f, n <= m, Allowed(Missed(m) \ {f})
        PROVE  Few(((1..n) \ played') \ {f}, Moves')
    <3>1. ((1..n) \ played') \ {f} \subseteq Missed(m) \ {f}
      BY <1>2, <2>2 DEF Missed
    <3> QED
      BY <1>1, <1>2, <2>2, <3>1, FewerAreFew DEF Allowed
  <2> QED
    BY <2>1, <2>2
<1>a. ASSUME Moves' \in Nat, Moves <= Moves', played \subseteq played'
      PROVE  /\ \A n \in Nat : Allowed(Missed(n)) => Few((1..n) \ played', Moves')
             /\ \A n \in Nat : \A f : Allowed(Missed(n) \ {f}) => Few(((1..n) \ played') \ {f}, Moves')
  <2>1. ASSUME NEW n \in Nat PROVE n <= n
    OBVIOUS
  <2>2. ASSUME NEW n \in Nat, Allowed(Missed(n)) PROVE Few((1..n) \ played', Moves')
    BY <1>2, <1>a, <2>1, <2>2
  <2>3. ASSUME NEW n \in Nat, NEW f, Allowed(Missed(n) \ {f})
        PROVE  Few(((1..n) \ played') \ {f}, Moves')
    BY <1>2, <1>a, <2>1, <2>3
  <2> QED
    BY <2>2, <2>3
\* Steps that move nothing and play nothing.
<1>3. ASSUME UNCHANGED <<played, mFileNum, loaded, fileName>>,
             nexts' \in Nat, Moves' \in Nat, Moves <= Moves',
             \/ pc'["play"] = pc["play"]
             \/ pc["play"] \in {"update", "walk"} /\ pc'["play"] \in {"walk", "check"},
             pc'["main"] = "next" => pc["main"] = "next",
             pc'["main"] = "prev" => pc["main"] = "prev",
             mEntered => mEntered', mExit => mExit'
      PROVE  Counted'
  <2>1. /\ \A n \in Nat : Allowed(Missed(n)) => Few((1..n) \ played', Moves')
        /\ \A n \in Nat : \A f : Allowed(Missed(n) \ {f}) => Few(((1..n) \ played') \ {f}, Moves')
    BY <1>a, <1>3
  <2>2. (Allowed(Missed(mFileNum)))'
    BY <1>1, <1>3, <2>1 DEF Counted, Allowed, Missed
  <2>3. (pc["play"] \in InFile => Allowed(Missed(mFileNum + 1) \ {fileName}))'
    <3>1. pc'["play"] \in InFile => pc["play"] \in InFile
      BY <1>3 DEF InFile
    <3>2. mFileNum + 1 \in Nat
      BY <1>1
    <3> QED
      BY <1>3, <2>1, <3>1, <3>2 DEF Counted, Allowed, Missed
  <2>4. (pc["play"] = "next" => fileName \in played /\ Allowed(Missed(loaded["play"] + 1)))'
    <3>1. loaded["play"] + 1 \in Nat
      BY <1>1
    <3> QED
      BY <1>3, <2>1, <3>1 DEF Counted, Allowed, Missed
  <2>5. (pc["play"] \in {"update", "walk", "check"} => fileName \in played \/ mEntered \/ mExit)'
    BY <1>3 DEF Counted
  <2>6. (pc["main"] = "next" =>
            loaded["main"] = mFileNum \/ Allowed(Missed(loaded["main"] + 1)))'
    <3>1. loaded["main"] + 1 \in Nat
      BY <1>1
    <3> QED
      BY <1>3, <2>1, <3>1 DEF Counted, Allowed, Missed
  <2>7. (pc["main"] = "prev" => Allowed(Missed(loaded["main"])))'
    BY <1>1, <1>3, <2>1 DEF Counted, Allowed, Missed
  <2>8. (pc["play"] = "leave" /\ ~mExit => Allowed(Missed(first)))'
    BY <1>1, <1>3, <2>1 DEF Counted, Allowed, Missed
  <2> QED
    BY <1>3, <2>2, <2>3, <2>4, <2>5, <2>6, <2>7, <2>8 DEF Counted
<1>4. ASSUME NEW t \in Threads, Clear(t) \/ AddFile(t) PROVE Counted'
  <2>1. UNCHANGED <<nexts, played, mFileNum, loaded, fileName, mEntered, mExit>>
    BY <1>4 DEF Clear, AddFile
  <2>2. CASE t = "main"
    <3>1. pc["main"] \in {"update", "walk"} /\ pc'["main"] \in {"walk", "poll"}
          /\ pc'["play"] = pc["play"]
      BY <1>1, <1>4, <2>2 DEF Clear, AddFile, AfterScan
    <3>2. Moves' = Moves
      BY <2>1, <3>1 DEF Moves
    <3> QED
      BY <1>1, <1>3, <2>1, <3>1, <3>2
  <2>3. CASE t = "play"
    <3>1. pc["play"] \in {"update", "walk"} /\ pc'["play"] \in {"walk", "check"}
          /\ pc'["main"] = pc["main"]
      BY <1>1, <1>4, <2>3 DEF Clear, AddFile, AfterScan
    <3>2. Moves' = Moves
      BY <2>1, <3>1 DEF Moves
    <3> QED
      BY <1>1, <1>3, <2>1, <3>1, <3>2
  <2> QED
    BY <2>2, <2>3 DEF Threads
<1>5. CASE Enter \/ Exit \/ UNCHANGED vars
  <2>1. UNCHANGED <<pc, nexts, played, mFileNum, loaded, fileName>>
        /\ (mEntered => mEntered') /\ (mExit => mExit')
    BY <1>5 DEF Enter, Exit, vars
  <2>2. Moves' = Moves
    BY <2>1 DEF Moves
  <2> QED
    BY <1>1, <1>3, <2>1, <2>2
<1>6. CASE PrevFile \/ NextFile
  <2>1. /\ UNCHANGED <<played, mFileNum, fileName, mEntered, mExit>>
        /\ nexts' \in {nexts, nexts + 1} /\ pc["main"] = "poll"
    BY <1>6 DEF PrevFile, NextFile, Move, Press
  <2>2. CASE pc' = pc /\ loaded' = loaded
    <3>1. Moves = nexts /\ Moves' = nexts'
      BY <2>1, <2>2 DEF Moves
    <3>2. nexts' \in Nat /\ nexts <= nexts'
      BY <1>1, <2>1
    <3> QED
      BY <1>3, <2>1, <2>2, <3>1, <3>2
  <2>3. ASSUME NEW key \in {"prev", "next"}, pc' = [pc EXCEPT !["main"] = key],
               loaded' = [loaded EXCEPT !["main"] = mFileNum],
               nexts' = IF key = "next" THEN nexts + 1 ELSE nexts
        PROVE  Counted'
    <3>1. pc'["main"] = key /\ pc'["play"] = pc["play"] /\ loaded'["main"] = mFileNum
          /\ loaded'["play"] = loaded["play"]
      BY <1>1, <2>3
    <3>2. Moves' = Moves /\ nexts' \in Nat
      BY <1>1, <2>1, <2>3, <3>1 DEF Moves
    <3> QED
      BY <1>1, <2>1, <3>1, <3>2 DEF Counted, Allowed, Missed
  <2> QED
    BY <1>6, <2>2, <2>3 DEF PrevFile, NextFile, Move
<1>7. CASE Moved
  <2>1. /\ UNCHANGED <<nexts, played, fileName, mEntered, mExit>>
        /\ loaded'["play"] = loaded["play"]
        /\ pc["main"] \in {"prev", "next"} /\ pc'["main"] = "update" /\ pc'["play"] = pc["play"]
    BY <1>1, <1>7 DEF Moved
  <2>2. Moves' = nexts /\ Moves' \in Nat /\ Moves <= Moves'
    BY <1>1, <2>1 DEF Moves
  <2>3. /\ \A m, n \in Nat : n <= m /\ Allowed(Missed(m)) => Few((1..n) \ played', Moves')
        /\ \A m, n \in Nat : \A f : n <= m /\ Allowed(Missed(m) \ {f})
                                   => Few(((1..n) \ played') \ {f}, Moves')
    BY <1>2, <2>1, <2>2
  <2>4. /\ (Allowed(Missed(mFileNum)))'
        /\ (pc["play"] \in InFile => Allowed(Missed(mFileNum + 1) \ {fileName}))'
    <3>1. CASE pc["main"] = "prev"
      <4> DEFINE l == loaded["main"]
      <4>1. mFileNum' = l - 1 /\ l \in Nat /\ l > 0
        BY <1>7, <3>1, <1>1 DEF Moved, IndInv, Steady
      <4>2. Few((1..l) \ played', Moves') /\ Few((1..(l - 1)) \ played', Moves')
        <5>1. Allowed(Missed(l))
          BY <3>1 DEF Counted
        <5>2. l - 1 \in Nat /\ l - 1 <= l /\ l <= l
          BY <4>1
        <5> QED
          BY <2>3, <4>1, <5>1, <5>2
      <4>3. Few(((1..l) \ played') \ {fileName}, Moves')
        <5>1. ((1..l) \ played') \ {fileName} \subseteq (1..l) \ played'
          OBVIOUS
        <5>2. Moves' \in Int /\ Moves' <= Moves'
          BY <2>2
        <5> QED
          BY <4>2, <5>1, <5>2, FewerAreFew
      <4>4. mFileNum' + 1 = l
        BY <4>1
      <4> HIDE DEF l
      <4> QED
        BY <2>1, <4>1, <4>2, <4>3, <4>4 DEF Allowed, Missed
    <3>2. CASE pc["main"] = "next"
      <4> DEFINE l == loaded["main"]
      <4>1. mFileNum' = l + 1 /\ l \in Nat
        BY <1>7, <3>2, <1>1 DEF Moved
      <4>2. Moves' = Moves + 1
        BY <1>1, <2>1, <3>2 DEF Moves
      <4>3. l = mFileNum \/ Allowed(Missed(l + 1))
        BY <3>2 DEF Counted
      <4>a. Moves \in Int /\ Moves' \in Int /\ Moves' <= Moves'
        BY <1>1, <4>2
      <4> HIDE DEF l
      <4>4. Few((1..(l + 1)) \ played', Moves')
        <5>1. CASE l = mFileNum
          <6>1. Few(Missed(l), Moves)
            BY <5>1 DEF Counted, Allowed
          <6>2. (1..(l + 1)) \ played' \subseteq Missed(l) \union {l + 1}
            BY <2>1, <4>1 DEF Missed
          <6>3. Few(Missed(l) \union {l + 1}, Moves')
            BY <4>2, <4>a, <6>1, OneMoreIsFew
          <6> QED
            BY <4>a, <6>2, <6>3, FewerAreFew
        <5>2. CASE Allowed(Missed(l + 1))
          BY <2>3, <4>1, <5>2
        <5> QED
          BY <4>3, <5>1, <5>2
      <4>5. pc["play"] \in InFile => Few(((1..(l + 2)) \ played') \ {fileName}, Moves')
        <5> SUFFICES ASSUME pc["play"] \in InFile
                     PROVE  Few(((1..(l + 2)) \ played') \ {fileName}, Moves')
          OBVIOUS
        <5>1. CASE l = mFileNum
          <6>1. Few(Missed(l + 1) \ {fileName}, Moves)
            BY <5>1 DEF Counted, Allowed
          <6>2. ((1..(l + 2)) \ played') \ {fileName} \subseteq (Missed(l + 1) \ {fileName}) \union {l + 2}
            BY <2>1, <4>1 DEF Missed
          <6>3. Few((Missed(l + 1) \ {fileName}) \union {l + 2}, Moves')
            BY <4>2, <4>a, <6>1, OneMoreIsFew
          <6> QED
            BY <4>a, <6>2, <6>3, FewerAreFew
        <5>2. CASE Allowed(Missed(l + 1))
          <6>1. Few(Missed(l + 1), Moves)
            BY <5>2 DEF Allowed
          <6>2. ((1..(l + 2)) \ played') \ {fileName} \subseteq Missed(l + 1) \union {l + 2}
            BY <2>1, <4>1 DEF Missed
          <6>3. Few(Missed(l + 1) \union {l + 2}, Moves')
            BY <4>2, <4>a, <6>1, OneMoreIsFew
          <6> QED
            BY <4>a, <6>2, <6>3, FewerAreFew
        <5> QED
          BY <4>3, <5>1, <5>2
      <4>6. mFileNum' + 1 = l + 2
        BY <4>1
      <4> QED
        BY <2>1, <4>1, <4>4, <4>5, <4>6 DEF Allowed, Missed
    <3> QED
      BY <2>1, <3>1, <3>2
  <2>5. (pc["play"] = "next" => fileName \in played /\ Allowed(Missed(loaded["play"] + 1)))'
    <3>1. loaded["play"] + 1 \in Nat /\ loaded["play"] + 1 <= loaded["play"] + 1
      BY <1>1
    <3> QED
      BY <2>1, <2>3, <3>1 DEF Counted, Allowed, Missed
  <2>6. (pc["play"] = "leave" /\ ~mExit => Allowed(Missed(first)))'
    <3>1. first \in Nat /\ first <= first
      BY <1>1
    <3> QED
      BY <1>1, <2>1, <2>3, <3>1 DEF Counted, Allowed, Missed
  <2> QED
    BY <1>1, <2>1, <2>2, <2>4, <2>5, <2>6 DEF Counted
<1>8. CASE ReadName
  <2>1. ~Walking("play") /\ ~Walking("main") /\ mFileNum < Len(mFileNames)
    <3>1. ~Walking("play") /\ ~Walking("main")
      BY <1>8, <1>u DEF ReadName, Walking, Threads
    <3>2. Whole
      BY <3>1 DEF Whole, Threads
    <3> QED
      BY <3>1, <3>2 DEF InOrder, Bounded
  <2>2. UNCHANGED <<nexts, played, mFileNum, loaded, mEntered, mExit>>
        /\ pc'["play"] = "play" /\ pc'["main"] = pc["main"]
    BY <1>1, <1>8, <2>1 DEF ReadName
  <2>3. fileName' = mFileNum + 1
    <3>1. mFileNum + 1 \in 1..Len(mFileNames)
      BY <1>1, <2>1
    <3>2. fileName' = mFileNames[mFileNum + 1]
      BY <1>8, <2>1 DEF ReadName
    <3> QED
      BY <3>1, <3>2 DEF Unchanged
  <2>4. Moves' = Moves
    BY <2>2 DEF Moves
  <2>5. Few(((1..(mFileNum + 1)) \ played) \ {mFileNum + 1}, Moves)
    <3>1. ((1..(mFileNum + 1)) \ played) \ {mFileNum + 1} \subseteq Missed(mFileNum)
      BY <1>1 DEF Missed
    <3>2. Few(Missed(mFileNum), Moves) /\ Moves <= Moves
      BY <1>1 DEF Counted, Allowed
    <3> QED
      BY <1>1, <3>1, <3>2, FewerAreFew
  <2> QED
    BY <2>2, <2>3, <2>4, <2>5 DEF Counted, Allowed, Missed
<1>9. CASE PlayFile
  <2>1. /\ UNCHANGED <<nexts, mFileNum, loaded, mEntered, mExit, fileName>>
        /\ pc["play"] = "play" /\ pc'["play"] = "update" /\ pc'["main"] = pc["main"]
        /\ played' = IF mEntered \/ mExit THEN played ELSE played \union {fileName}
    BY <1>1, <1>9 DEF PlayFile
  <2>2. Moves' = Moves /\ played \subseteq played'
    BY <2>1 DEF Moves
  <2>3. /\ \A n \in Nat : Allowed(Missed(n)) => Few((1..n) \ played', Moves')
        /\ \A n \in Nat : \A f : Allowed(Missed(n) \ {f}) => Few(((1..n) \ played') \ {f}, Moves')
    <3>1. Moves' \in Nat /\ Moves <= Moves'
      BY <1>1, <2>2
    <3> QED
      BY <1>a, <2>2, <3>1
  <2>4. (Allowed(Missed(mFileNum)))'
    BY <1>1, <2>1, <2>3 DEF Counted, Allowed, Missed
  <2>5. (Allowed(Missed(mFileNum + 1) \ {fileName}))'
    <3>1. mFileNum + 1 \in Nat /\ pc["play"] \in InFile
      BY <1>1, <2>1 DEF InFile
    <3> QED
      BY <2>1, <2>3, <3>1 DEF Counted, Allowed, Missed
  <2>6. (pc["main"] = "next" =>
            loaded["main"] = mFileNum \/ Allowed(Missed(loaded["main"] + 1)))'
    <3>1. loaded["main"] + 1 \in Nat
      BY <1>1
    <3> QED
      BY <2>1, <2>3, <3>1 DEF Counted, Allowed, Missed
  <2>7. (pc["main"] = "prev" => Allowed(Missed(loaded["main"])))'
    BY <1>1, <2>1, <2>3 DEF Counted, Allowed, Missed
  <2>8. fileName' \in played' \/ mEntered' \/ mExit'
    BY <2>1
  <2> QED
    BY <1>1, <2>1, <2>2, <2>4, <2>5, <2>6, <2>7, <2>8 DEF Counted
<1>10. CASE Check
  <2>1. /\ UNCHANGED <<nexts, mFileNum, fileName, mExit, played>>
        /\ pc["play"] = "check" /\ pc'["main"] = pc["main"]
    BY <1>1, <1>10 DEF Check
  <2>2. Moves' = Moves /\ loaded'["main"] = loaded["main"]
    BY <1>1, <1>10, <2>1 DEF Moves, Check
  <2>3. /\ Allowed(Missed(mFileNum)) /\ Allowed(Missed(mFileNum + 1) \ {fileName})
        /\ fileName \in played \/ mEntered \/ mExit
    BY <2>1 DEF Counted, InFile
  <2>4. ~mExit /\ ~mEntered => fileName \in played /\ Allowed(Missed(mFileNum + 1))
    <3> SUFFICES ASSUME ~mExit, ~mEntered PROVE fileName \in played /\ Allowed(Missed(mFileNum + 1))
      OBVIOUS
    <3>1. fileName \in played
      BY <2>3
    <3>2. Missed(mFileNum + 1) \ {fileName} = Missed(mFileNum + 1)
      BY <3>1 DEF Missed
    <3> QED
      BY <2>3, <3>1, <3>2
  <2>5. CASE pc'["play"] = "next"
    <3>1. ~mExit /\ ~mEntered /\ loaded'["play"] = mFileNum
      BY <1>1, <1>10, <2>5 DEF Check, Chosen
    <3> QED
      BY <1>1, <2>1, <2>2, <2>3, <2>4, <2>5, <3>1 DEF Counted, Allowed, Missed, InFile
  <2>6. CASE pc'["play"] = "name"
    BY <1>1, <2>1, <2>2, <2>3, <2>6 DEF Counted, Allowed, Missed, InFile
  <2>7. CASE pc'["play"] = "leave"
    <3>1. ~mExit => ~mEntered /\ AtEnd(mFileNum) /\ Uses("play")
      BY <1>1, <1>10, <2>7 DEF Check, Chosen
    <3>2. ~mExit => Allowed(Missed(first))
      <4> SUFFICES ASSUME ~mExit PROVE Allowed(Missed(first))
        OBVIOUS
      <4>1. Len(mFileNames) = first
        <5>1. ~Walking("play") /\ ~Walking("main")
          BY <1>1, <1>u, <2>1, <3>1 DEF Threads, Walking
        <5> QED
          BY <5>1 DEF Unchanged, Whole, Threads
      <4>2. Missed(first) \subseteq Missed(mFileNum + 1)
        BY <1>1, <3>1, <4>1 DEF AtEnd, Missed
      <4>3. Few(Missed(mFileNum + 1), Moves) /\ Moves <= Moves
        BY <1>1, <2>4, <3>1 DEF Allowed
      <4> QED
        BY <1>1, <4>2, <4>3, FewerAreFew DEF Allowed
    <3> QED
      BY <1>1, <2>1, <2>2, <2>3, <2>7, <3>2 DEF Counted, Allowed, Missed, InFile
  <2>8. pc'["play"] \in {"next", "name", "leave"}
    BY <1>1, <1>10 DEF Check
  <2> QED
    BY <2>5, <2>6, <2>7, <2>8
<1>11. CASE Advance
  <2>1. /\ UNCHANGED <<nexts, fileName, mExit, mEntered, played>>
        /\ loaded'["main"] = loaded["main"] /\ pc["play"] = "next" /\ pc'["play"] = "name" /\ pc'["main"] = pc["main"]
        /\ mFileNum' = loaded["play"] + 1
    BY <1>1, <1>11 DEF Advance, Following
  <2>2. Moves' = Moves
    BY <2>1 DEF Moves
  <2>3. /\ Allowed(Missed(loaded["play"] + 1)) /\ Allowed(Missed(mFileNum + 1) \ {fileName})
        /\ fileName \in played
    BY <2>1 DEF Counted, InFile
  <2>4. Missed(mFileNum + 1) \ {fileName} = Missed(mFileNum + 1)
    BY <2>3 DEF Missed
  <2>5. (pc["main"] = "next" => Allowed(Missed(loaded["main"] + 1)))'
    BY <2>1, <2>2, <2>3, <2>4 DEF Counted, Allowed, Missed
  <2> QED
    BY <1>1, <2>1, <2>2, <2>3, <2>5 DEF Counted, Allowed, Missed, InFile
<1>12. CASE LastName
  <2>1. /\ UNCHANGED <<nexts, loaded, mFileNum, fileName, played>>
        /\ pc'["play"] = "exit" /\ pc'["main"] = pc["main"]
    BY <1>1, <1>12 DEF LastName, Crash
  <2>2. Moves' = Moves
    BY <2>1 DEF Moves
  <2> QED
    BY <1>1, <2>1, <2>2 DEF Counted, Allowed, Missed, InFile
<1>13. CASE Record
  <2>1. PICK i \in 1..(Len(dir) + 1) : dir' = InsertAt(dir, i, Len(dir) + 1)
    BY <1>13 DEF Record
  <2>2. dir \in Seq(1..MaxFiles) /\ Len(dir) + 1 \in 1..MaxFiles
    BY <1>13, BoundsAssumption DEF Record, IndInv, TypeOK
  <2>3. InsertAt(dir, i, Len(dir) + 1) \in Seq(1..MaxFiles)
        /\ Len(InsertAt(dir, i, Len(dir) + 1)) = Len(dir) + 1
    BY <2>2, InsertAtType
  <2>4. Len(dir) \in Nat
    BY <2>2
  <2> QED
    BY <2>1, <2>3, <2>4
<1> QED
  BY <1>1, <1>4, <1>5, <1>6, <1>7, <1>8, <1>9, <1>10, <1>11, <1>12, <1>13
     DEF Next, Play, Main, Threads

\* The directory only grows.
LEMMA DirStep ==
    ASSUME IndInv, [Next]_vars
    PROVE  dir' = dir \/ Len(dir') = Len(dir) + 1
<1>1. CASE Record
  <2>1. PICK i \in 1..(Len(dir) + 1) : dir' = InsertAt(dir, i, Len(dir) + 1)
    BY <1>1 DEF Record
  <2>2. dir \in Seq(1..MaxFiles) /\ Len(dir) + 1 \in 1..MaxFiles
    BY <1>1, BoundsAssumption DEF Record, IndInv, TypeOK
  <2> QED
    BY <2>1, <2>2, InsertAtType
<1>2. CASE Play \/ Main \/ Race \/ UNCHANGED vars
  BY <1>2 DEF Play, Main, Race, ReadName, PlayFile, Check, Advance, LastName, Clear, AddFile,
     PrevFile, NextFile, Move, Moved, Enter, Exit, vars
<1> QED
  BY <1>1, <1>2 DEF Next

\* In a directory that stays as it is the play thread, when it ends by itself, has missed
\* no more files than NEXT was pressed, whatever of the two threads' unlocked reads and
\* writes of mFileNum (player, pollKeyboard) is lost, as long as neither has used the list
\* while the other was rereading it.
THEOREM NothingSkipped == Spec => []NoneSkipped
<1>1. Init => SkipInv
  <2> SUFFICES ASSUME Init PROVE SkipInv
    OBVIOUS
  <2>1. first \in Nat /\ dir = [i \in 1..first |-> i] /\ mFileNames = dir /\ Len(dir) = first
    BY BoundsAssumption DEF Init
  <2>2. Unchanged
    BY <2>1 DEF Unchanged
  <2>3. pc["main"] = "poll" /\ pc["play"] = "name" /\ Moves = 0 /\ nexts = 0 /\ mFileNum = 0
    BY DEF Init, Threads, Moves
  <2>4. Missed(mFileNum) = {}
    BY <2>3 DEF Missed
  <2>5. Few({}, 0)
    BY FS_EmptySet DEF Few
  <2>6. Counted
    BY <2>3, <2>4, <2>5 DEF Counted, Allowed, InFile
  <2> QED
    BY <2>2, <2>6 DEF SkipInv
<1>2. IndInv /\ SkipInv /\ [Next]_vars => SkipInv'
  <2> SUFFICES ASSUME IndInv, SkipInv, [Next]_vars, Orderly', Len(dir') = first'
               PROVE  Unchanged' /\ Counted'
    BY DEF SkipInv
  <2>1. Len(dir) \in Nat /\ first \in Nat /\ first <= Len(dir) /\ overlapped \in BOOLEAN
    BY BoundsAssumption DEF IndInv, TypeOK, Steady
  <2>2. first' = first /\ Orderly /\ InOrder
    BY <2>1, StaysDisorderly DEF IndInv
  <2>3. dir' = dir
    BY <2>1, <2>2, DirStep
  <2> QED
    BY <2>2, <2>3, UnchangedStep, CountedStep DEF SkipInv
<1>3. IndInv /\ SkipInv => NoneSkipped
  <2> SUFFICES ASSUME IndInv, SkipInv, pc["play"] = "leave", ~mExit, Len(dir) = first, ~overlapped
               PROVE  Cardinality((1..first) \ played) <= nexts
    BY DEF NoneSkipped
  <2>1. CASE first = 0
    <3>1. (1..first) \ played = {} /\ nexts \in Nat
      BY <2>1 DEF IndInv, TypeOK
    <3> QED
      BY <3>1, FS_EmptySet
  <2>2. CASE first # 0
    <3>0. Counted
      BY <2>2 DEF SkipInv, Orderly
    <3>1. Few((1..first) \ played, Moves) /\ Moves \in Nat /\ nexts \in Nat /\ Moves <= nexts
      BY <3>0 DEF Counted, Allowed, Missed, Moves
    <3>2. Few((1..first) \ played, nexts)
      BY <3>1, FewerAreFew
    <3> QED
      BY <3>2 DEF Few
  <2> QED
    BY <2>1, <2>2
<1> QED
  BY <1>1, <1>2, <1>3, FilesInvariant, PTL DEF Spec
===============================================================================
