-------------------------- MODULE SuperBlockProofs --------------------------
(***************************************************************************)
(* Proofs about the super block: whatever the number of slots, the modulus *)
(* of seq_no and the number of updates, killed processes and failed calls, *)
(* an open finds the newest super block that was flushed (Healed), and the *)
(* slots implement one value that is replaced as a whole (ImplementsCell). *)
(***************************************************************************)
EXTENDS SuperBlock, TLAPS, WellFoundedInduction

-----------------------------------------------------------------------------
(***************************************************************************)
(* The numbers the slots hold when n is the next one to be written: slots  *)
(* before Slot(n) were written in this turn, the others in the last one.   *)
(***************************************************************************)
SeqNos == 0 .. SeqMod - 1

\* The numbers of the first slot in this turn and in the last one.
Base(n) == n - Slot(n)
LastBase(n) == IF Base(n) = 0 THEN SeqMod - Cnt ELSE Base(n) - Cnt

SeqAt(n, i) == IF i < Slot(n) THEN Base(n) + i ELSE LastBase(n) + i

\* How many updates ago slot i was written, and the slot of the last update.
Ago(n, i) == IF i < Slot(n) THEN Slot(n) - i ELSE Slot(n) - i + Cnt
Newest(n) == IF Slot(n) = 0 THEN Cnt - 1 ELSE Slot(n) - 1

\* A slot written whole under number k, and one whose write was cut off.
Numbered(s, k) == s.blk_id /\ s.seq_no = k /\ s.foot = k
Cut(s, n) == s.blk_id /\ s.seq_no = n /\ s.foot # n

\* The last r updates are on disk.  In the first turn the slots from n on may
\* not have been written yet, and the write of n itself may have been cut off.
Recent(n, r) ==
  \A i \in Index : Ago(n, i) <= r =>
    \/ Numbered(slots[i], SeqAt(n, i))
    \/ 0 < n /\ n <= i /\ slots[i] = Blank
    \/ i = Slot(n) /\ Cut(slots[i], n)

\* And the last of them holds version d.
Fresh(n, r, d) ==
  /\ Recent(n, r)
  /\ r > 0 => /\ Numbered(slots[Newest(n)], SeqAt(n, Newest(n)))
              /\ slots[Newest(n)].data = d
              /\ d >= 0

Content == {d \in Int : d >= Torn}

SlotSet == [blk_id : BOOLEAN, seq_no : SeqNos, foot : SeqNos, data : Content]

TypeInv ==
  /\ slots \in [Index -> SlotSet]
  /\ pend \in SlotSet
  /\ sb = Closed \/ sb \in [seq_no : SeqNos, data : Content]
  /\ acked \in Content
  /\ settled \in Content
  /\ round \in 0 .. Cnt
  /\ faults \in Nat

\* Nothing was written before the container was created.
UnwrittenInv ==
  ~written => /\ slots = [i \in Index |-> Blank]
              /\ sb = Closed
              /\ acked = Torn
              /\ settled = Torn
              /\ round = Cnt

\* The first update that is not on disk: the one in the buffer, or the next.
DiskNext == IF Counts THEN pend.seq_no ELSE sb.seq_no

\* An open super block knows where the next update goes; the block on disk
\* shows all updates but the one in the buffer.
OpenInv ==
  sb # Closed =>
    /\ settled <= acked /\ acked <= sb.data
    /\ Counts => /\ sb.seq_no = NextSeq(pend.seq_no)
                 /\ pend.foot = pend.seq_no
                 /\ settled < acked
    /\ ~Counts /\ pend.blk_id => round = 0
    /\ round > 0 => acked = sb.data /\ (~Counts => settled = acked)
    /\ Fresh(DiskNext, round, settled)

\* After a close or a crash the block still shows it, once it has healed.
ClosedInv ==
  sb = Closed =>
    /\ pend = Blank
    /\ written /\ round = Cnt =>
         \E n \in SeqNos : LET d == slots[Newest(n)].data
                           IN  d >= settled /\ Fresh(n, Cnt, d)

IInv == TypeInv /\ UnwrittenInv /\ OpenInv /\ ClosedInv
-----------------------------------------------------------------------------
(***************************************************************************)
(* Numbers and slots.                                                      *)
(***************************************************************************)

\* A number is a multiple of the slots and its slot (calc_position in ofs_block_rw.c).
LEMMA Division ==
  ASSUME NEW n \in Nat
  PROVE  /\ Slot(n) \in Index
         /\ \E k \in Nat : n = k * Cnt + Slot(n)
<1> DEFINE k == n \div Cnt
           r == n % Cnt
<1>1. k \in Nat /\ r \in 0 .. Cnt - 1 /\ n = (Cnt * k) + r
  BY SuperBlockAssumption
<1>2. n = (k * Cnt) + r
  <2>. HIDE DEF k, r
  <2>. QED BY <1>1, SuperBlockAssumption
<1>. HIDE DEF k
<1>. QED BY <1>1, <1>2 DEF Slot, Index

\* In only one way.
LEMMA OneRemainder ==
  ASSUME NEW k \in Int, NEW r \in Index, NEW m \in Int, NEW q \in Index,
         k * Cnt + r = m * Cnt + q
  PROVE  k = m /\ r = q
<1>1. (k - m) * Cnt = q - r
  BY SuperBlockAssumption DEF Index
<1>2. CASE k > m
  <2>1. (k - m - 1) * Cnt >= 0
    BY <1>2, SuperBlockAssumption
  <2>. QED BY <1>1, <1>2, <2>1, SuperBlockAssumption DEF Index
<1>3. CASE k < m
  <2>1. (m - k - 1) * Cnt >= 0
    BY <1>3, SuperBlockAssumption
  <2>. QED BY <1>1, <1>3, <2>1, SuperBlockAssumption DEF Index
<1>. QED BY <1>1, <1>2, <1>3, SuperBlockAssumption DEF Index

\* Read from right to left.
LEMMA SlotIs ==
  ASSUME NEW k \in Nat, NEW r \in Index
  PROVE  Slot(k * Cnt + r) = r
<1>1. k * Cnt + r \in Nat
  BY SuperBlockAssumption DEF Index
<1>2. PICK m \in Nat : k * Cnt + r = m * Cnt + Slot(k * Cnt + r)
  BY <1>1, Division
<1>3. Slot(k * Cnt + r) \in Index
  BY <1>1, Division
<1>. QED BY <1>2, <1>3, OneRemainder

\* seq_no wraps at the end of a turn: slot 0 always comes after the last.
LEMMA Turns == \E t \in Nat : SeqMod = t * Cnt
<1>1. PICK t \in Nat : SeqMod = t * Cnt + Slot(SeqMod)
  BY Division, SuperBlockAssumption
<1>. QED BY <1>1, SuperBlockAssumption DEF Slot

\* A turn starts at a multiple of the slots, and the last one ends with SeqMod.
LEMMA Turn ==
  ASSUME NEW n \in SeqNos
  PROVE  /\ Slot(n) \in Index
         /\ Base(n) \in Nat
         /\ Base(n) <= SeqMod - Cnt
         /\ \E k \in Nat : Base(n) = k * Cnt
         /\ Base(n) # 0 => Base(n) >= Cnt
<1>1. n \in Nat /\ n < SeqMod
  BY SuperBlockAssumption DEF SeqNos
<1>2. PICK k \in Nat : n = k * Cnt + Slot(n)
  BY <1>1, Division
<1>3. Slot(n) \in Index
  BY <1>1, Division
<1>4. PICK t \in Nat : SeqMod = t * Cnt
  BY Turns
<1>5. Base(n) = k * Cnt /\ Base(n) \in Nat
  BY <1>1, <1>2, <1>3, SuperBlockAssumption DEF Base, Index
<1>6. k < t
  <2>1. SUFFICES ASSUME k >= t PROVE FALSE
    OBVIOUS
  <2>2. (k - t) * Cnt >= 0
    BY <2>1, SuperBlockAssumption
  <2>. QED BY <1>1, <1>2, <1>3, <1>4, <2>2, SuperBlockAssumption DEF Index
<1>7. Base(n) <= SeqMod - Cnt
  <2>1. (t - k - 1) * Cnt >= 0
    BY <1>6, SuperBlockAssumption
  <2>. QED BY <1>4, <1>5, <2>1, SuperBlockAssumption
<1>8. Base(n) # 0 => Base(n) >= Cnt
  <2>1. k # 0 => (k - 1) * Cnt >= 0
    BY SuperBlockAssumption
  <2>. QED BY <1>5, <2>1, SuperBlockAssumption
<1>. QED BY <1>3, <1>5, <1>7, <1>8

\* seq_no + 1 goes to the next slot of this turn, or to slot 0 of the next one.
LEMMA NextNumber ==
  ASSUME NEW n \in SeqNos
  PROVE  /\ NextSeq(n) \in SeqNos
         /\ NextSeq(n) = IF n = SeqMod - 1 THEN 0 ELSE n + 1
         /\ Slot(n) < Cnt - 1 => /\ Slot(NextSeq(n)) = Slot(n) + 1
                                 /\ Base(NextSeq(n)) = Base(n)
         /\ Slot(n) = Cnt - 1 =>
              /\ Slot(NextSeq(n)) = 0
              /\ Base(NextSeq(n)) = IF Base(n) = SeqMod - Cnt
                                    THEN 0 ELSE Base(n) + Cnt
<1>1. n \in Nat /\ n < SeqMod
  BY SuperBlockAssumption DEF SeqNos
<1>2. PICK k \in Nat : Base(n) = k * Cnt
  BY Turn
<1>3. /\ Slot(n) \in Index /\ Base(n) \in Nat
      /\ Base(n) <= SeqMod - Cnt /\ n = Base(n) + Slot(n)
  BY Turn, <1>1, SuperBlockAssumption DEF Base, Index
<1>4. NextSeq(n) = IF n = SeqMod - 1 THEN 0 ELSE n + 1
  BY <1>1, SuperBlockAssumption DEF NextSeq
<1>5. NextSeq(n) \in SeqNos
  BY <1>1, <1>4, SuperBlockAssumption DEF SeqNos
<1>6. ASSUME Slot(n) < Cnt - 1
      PROVE  Slot(NextSeq(n)) = Slot(n) + 1 /\ Base(NextSeq(n)) = Base(n)
  <2>1. NextSeq(n) = k * Cnt + (Slot(n) + 1)
    BY <1>1, <1>2, <1>3, <1>4, <1>6, SuperBlockAssumption DEF Index
  <2>2. Slot(n) + 1 \in Index
    BY <1>3, <1>6, SuperBlockAssumption DEF Index
  <2>3. Slot(NextSeq(n)) = Slot(n) + 1
    BY <2>1, <2>2, SlotIs
  <2>. QED BY <2>1, <2>3, <1>2, <1>3 DEF Base, Index
<1>7. ASSUME Slot(n) = Cnt - 1, Base(n) = SeqMod - Cnt
      PROVE  Slot(NextSeq(n)) = 0 /\ Base(NextSeq(n)) = 0
  <2>1. NextSeq(n) = 0 * Cnt + 0
    BY <1>3, <1>4, <1>7, SuperBlockAssumption
  <2>2. Slot(NextSeq(n)) = 0
    BY <2>1, SlotIs, SuperBlockAssumption DEF Index
  <2>. QED BY <2>1, <2>2, SuperBlockAssumption DEF Base
<1>8. ASSUME Slot(n) = Cnt - 1, Base(n) # SeqMod - Cnt
      PROVE  Slot(NextSeq(n)) = 0 /\ Base(NextSeq(n)) = Base(n) + Cnt
  <2>1. NextSeq(n) = n + 1
    BY <1>3, <1>4, <1>8, SuperBlockAssumption
  <2>2. NextSeq(n) = (k + 1) * Cnt + 0
    BY <1>2, <1>3, <1>8, <2>1, SuperBlockAssumption
  <2>3. Slot(NextSeq(n)) = 0
    <3>1. 0 \in Index /\ k + 1 \in Nat
      BY SuperBlockAssumption DEF Index
    <3>. QED BY <2>2, <3>1, SlotIs
  <2>. QED BY <1>3, <1>8, <2>1, <2>3, SuperBlockAssumption DEF Base
<1>. QED BY <1>4, <1>5, <1>6, <1>7, <1>8

\* What SeqAt, Ago and Newest say of the slots: along the block the numbers
\* are consecutive, but not from the last update to the slot after it.
LEMMA SlotNumbers ==
  ASSUME NEW n \in SeqNos
  PROVE  /\ Newest(n) \in Index
         /\ \A i \in Index : Ago(n, i) \in 1 .. Cnt /\ SeqAt(n, i) \in SeqNos
         /\ Ago(n, Newest(n)) = 1
         /\ NextSeq(SeqAt(n, Newest(n))) = n
         /\ \A i \in Index : i # 0 /\ i # Slot(n) =>
              SeqAt(n, i) = SeqAt(n, i - 1) + 1
         /\ \A i \in Index : i >= Slot(n) =>
              SeqAt(n, i) # Base(n) + i /\ SeqAt(n, i) # n
         /\ \A i \in Index : i < Slot(n) => SeqAt(n, i) = Base(n) + i
<1>1. /\ Slot(n) \in Index /\ Base(n) \in Nat /\ Base(n) <= SeqMod - Cnt
      /\ Base(n) # 0 => Base(n) >= Cnt
      /\ n = Base(n) + Slot(n) /\ n \in Nat /\ n < SeqMod
  BY Turn, SuperBlockAssumption DEF Base, Index, SeqNos
<1>2. Newest(n) \in Index
  BY <1>1, SuperBlockAssumption DEF Newest, Index
<1>3. \A i \in Index : Ago(n, i) \in 1 .. Cnt /\ SeqAt(n, i) \in SeqNos
  BY <1>1, SuperBlockAssumption DEF Ago, SeqAt, LastBase, Index, SeqNos
<1>4. Ago(n, Newest(n)) = 1
  BY <1>1, SuperBlockAssumption DEF Ago, Newest, Index
<1>5. SeqAt(n, Newest(n)) = IF n = 0 THEN SeqMod - 1 ELSE n - 1
  BY <1>1, SuperBlockAssumption DEF SeqAt, Newest, LastBase, Index
<1>6. NextSeq(SeqAt(n, Newest(n))) = n
  <2>1. SeqAt(n, Newest(n)) \in SeqNos
    BY <1>2, <1>3
  <2>. QED BY <1>1, <1>5, <2>1, NextNumber, SuperBlockAssumption
<1>7. \A i \in Index : i # 0 /\ i # Slot(n) =>
        SeqAt(n, i) = SeqAt(n, i - 1) + 1
  BY <1>1, SuperBlockAssumption DEF SeqAt, LastBase, Index
<1>8. \A i \in Index : i >= Slot(n) =>
        SeqAt(n, i) # Base(n) + i /\ SeqAt(n, i) # n
  BY <1>1, SuperBlockAssumption DEF SeqAt, LastBase, Index
<1>9. \A i \in Index : i < Slot(n) => SeqAt(n, i) = Base(n) + i
  BY DEF SeqAt
<1>. QED BY <1>2, <1>3, <1>4, <1>6, <1>7, <1>8, <1>9
-----------------------------------------------------------------------------
(***************************************************************************)
(* get_last_correct_block.                                                 *)
(***************************************************************************)

\* The first loop stops at the first slot that does not continue the run.
LEMMA RunEndIs ==
  ASSUME NEW e \in Index, InRun(e),
         e + 1 \in Index => ~ /\ slots[e + 1].blk_id
                              /\ slots[e + 1].seq_no = slots[e].seq_no + 1
  PROVE  RunEnd = e
<1>1. ASSUME NEW j \in Index, InRun(j) PROVE j <= e
  <2>1. SUFFICES ASSUME j > e PROVE FALSE
    BY SuperBlockAssumption DEF Index
  <2>2. PICK i \in 0 .. j : i = e + 1
    BY <2>1, SuperBlockAssumption DEF Index
  <2>3. i \in Index /\ i # 0 /\ i - 1 = e
    BY <2>1, <2>2, SuperBlockAssumption DEF Index
  <2>4. slots[i].blk_id /\ slots[i].seq_no = slots[i - 1].seq_no + 1
    BY <1>1, <2>3 DEF InRun
  <2>. QED BY <2>2, <2>3, <2>4
<1> DEFINE run == {i \in Index : InRun(i)}
           last == CHOOSE i \in run : \A j \in run : j <= i
<1>2. e \in run /\ \A j \in run : j <= e
  BY <1>1
<1>3. last \in run /\ \A j \in run : j <= last
  BY <1>2
<1>4. last = e
  <2>1. last \in Index /\ last <= e /\ e <= last
    BY <1>2, <1>3
  <2>. QED BY <2>1, SuperBlockAssumption DEF Index
<1>. QED BY <1>2, <1>4 DEF RunEnd

\* The second loop ends at one slot at most.
LEMMA OneCorrect ==
  ASSUME NEW d \in Correct
  PROVE  LastCorrect = {slots[Back(RunEnd, d)]} /\ readback = slots[Back(RunEnd, d)].data
<1>1. ASSUME NEW c \in Correct PROVE c = d
  <2>1. c \in 0 .. Cnt - 1 /\ d \in 0 .. Cnt - 1
    BY DEF Correct, Index
  <2>2. ~(c < d)
    <3>1. c < d => c \in 0 .. d - 1
      BY <2>1
    <3>. QED BY <3>1 DEF Correct
  <2>3. ~(d < c)
    <3>1. d < c => d \in 0 .. c - 1
      BY <2>1
    <3>. QED BY <3>1 DEF Correct
  <2>. QED BY <2>1, <2>2, <2>3
<1>2. LastCorrect = {slots[Back(RunEnd, d)]}
  BY <1>1 DEF LastCorrect
<1>. QED BY <1>2 DEF readback

\* It starts at the end of the run and goes on, around the block, to the slot
\* before it.
LEMMA BackIs ==
  ASSUME RunEnd \in Index
  PROVE  /\ Back(RunEnd, 0) = RunEnd
         /\ Back(RunEnd, 1) = IF RunEnd = 0 THEN Cnt - 1 ELSE RunEnd - 1
<1>1. \A r \in Index : (1 * Cnt + r) % Cnt = r /\ (0 * Cnt + r) % Cnt = r
  BY SlotIs DEF Slot
<1>2. RunEnd - 0 + Cnt = 1 * Cnt + RunEnd
  BY SuperBlockAssumption DEF Index
<1>3. Back(RunEnd, 0) = RunEnd
  BY <1>1, <1>2 DEF Back
<1>4. CASE RunEnd = 0
  <2>1. RunEnd - 1 + Cnt = 0 * Cnt + (Cnt - 1) /\ Cnt - 1 \in Index
    BY <1>4, SuperBlockAssumption DEF Index
  <2>2. Back(RunEnd, 1) = Cnt - 1
    BY <1>1, <2>1 DEF Back
  <2>. QED BY <1>3, <1>4, <2>2
<1>5. CASE RunEnd # 0
  <2>1. RunEnd - 1 + Cnt = 1 * Cnt + (RunEnd - 1) /\ RunEnd - 1 \in Index
    BY <1>5, SuperBlockAssumption DEF Index
  <2>2. Back(RunEnd, 1) = RunEnd - 1
    BY <1>1, <2>1 DEF Back
  <2>. QED BY <1>3, <1>5, <2>2
<1>. QED BY <1>4, <1>5

\* An open of a block that shows the last Cnt updates returns the last one.
Shows(n) ==
  /\ LastCorrect = {slots[Newest(n)]}
  /\ readback = slots[Newest(n)].data

\* After any writes, the newest readable slot shows what was written last.
LEMMA ReadsNewest ==
  \A n \in SeqNos, d \in Content : TypeInv /\ Fresh(n, Cnt, d) => Shows(n)
<1>. SUFFICES ASSUME NEW n \in SeqNos, NEW d \in Content,
                     TypeInv, Fresh(n, Cnt, d)
              PROVE  Shows(n)
  OBVIOUS
<1> DEFINE p == Slot(n)
           cut == Cut(slots[p], n)
           e == IF cut THEN p ELSE Newest(n)
<1>1. /\ p \in Index /\ Base(n) \in Nat /\ (Base(n) # 0 => Base(n) >= Cnt)
      /\ n = Base(n) + p /\ n \in Nat
  BY Turn, SuperBlockAssumption DEF Base, Index, SeqNos
<1>2. /\ Newest(n) \in Index /\ Ago(n, Newest(n)) = 1
      /\ \A i \in Index : Ago(n, i) \in 1 .. Cnt
  BY SlotNumbers
<1>3. \A i \in Index : \/ Numbered(slots[i], SeqAt(n, i))
                       \/ 0 < n /\ n <= i /\ slots[i] = Blank
                       \/ i = p /\ cut
  BY <1>2, SuperBlockAssumption DEF Fresh, Recent
<1>4. \A i \in Index : i < p => Numbered(slots[i], Base(n) + i)
  <2>1. SUFFICES ASSUME NEW i \in Index, i < p
                 PROVE  Numbered(slots[i], Base(n) + i)
    OBVIOUS
  <2>2. Numbered(slots[i], SeqAt(n, i))
    BY <1>1, <1>3, <2>1, SuperBlockAssumption DEF Index
  <2>. QED BY <2>1, <2>2, SlotNumbers
<1>5. Numbered(slots[Newest(n)], SeqAt(n, Newest(n)))
  BY SuperBlockAssumption DEF Fresh
<1>6. e \in Index
  BY <1>1, <1>2
<1>7. InRun(e)
  <2>1. CASE p # 0
    <3>1. e <= p /\ (e = p => cut)
      BY <1>1, <2>1, SuperBlockAssumption DEF Newest, Index
    <3>2. ASSUME NEW j \in 0 .. e
          PROVE  slots[j].blk_id /\ slots[j].seq_no = Base(n) + j
      <4>1. j \in Index /\ (j < p \/ j = p)
        BY <1>1, <1>6, <3>1, SuperBlockAssumption DEF Index
      <4>2. CASE j < p
        BY <4>1, <4>2, <1>4 DEF Numbered
      <4>3. CASE j = p
        <5>1. cut
          BY <1>1, <1>6, <3>1, <4>3, SuperBlockAssumption DEF Index
        <5>. QED BY <1>1, <4>3, <5>1 DEF Cut
      <4>. QED BY <4>1, <4>2, <4>3
    <3>3. \A j \in 0 .. e : j # 0 => j - 1 \in 0 .. e /\ Base(n) + j = Base(n) + (j - 1) + 1
      BY <1>1, <1>6, SuperBlockAssumption DEF Index
    <3>. QED BY <3>2, <3>3 DEF InRun
  <2>2. CASE p = 0 /\ cut
    <3>1. e = 0 /\ slots[0].blk_id /\ 0 .. 0 = {0}
      BY <2>2 DEF Cut
    <3>. QED BY <3>1 DEF InRun
  <2>3. CASE p = 0 /\ ~cut
    <3>1. e = Cnt - 1
      BY <2>3 DEF Newest
    <3>2. \A i \in Index : Numbered(slots[i], SeqAt(n, i))
      BY <1>1, <1>3, <2>3, SuperBlockAssumption DEF Index
    <3>3. \A j \in 0 .. e : j \in Index /\ (j # 0 => j - 1 \in Index)
      BY <3>1, SuperBlockAssumption DEF Index
    <3>4. \A j \in 0 .. e : j # 0 => SeqAt(n, j) = SeqAt(n, j - 1) + 1
      BY <2>3, <3>3, SlotNumbers
    <3>. QED BY <3>2, <3>3, <3>4 DEF InRun, Numbered
  <2>. QED BY <2>1, <2>2, <2>3
<1>8. ASSUME e + 1 \in Index
      PROVE  ~ /\ slots[e + 1].blk_id
               /\ slots[e + 1].seq_no = slots[e].seq_no + 1
  <2>1. e + 1 >= p /\ e + 1 >= 0
    BY <1>1, <1>6, <1>8, SuperBlockAssumption DEF Newest, Index
  <2>2. slots[e].seq_no + 1 = Base(n) + (e + 1)
    <3>1. CASE cut
      BY <1>1, <3>1, SuperBlockAssumption DEF Cut, Index
    <3>2. CASE ~cut
      <4>1. p # 0 /\ e = p - 1
        BY <1>1, <1>8, <3>2, SuperBlockAssumption DEF Newest, Index
      <4>2. slots[e].seq_no = Base(n) + e
        BY <1>1, <1>4, <1>6, <4>1, SuperBlockAssumption DEF Numbered, Index
      <4>. QED BY <1>1, <1>6, <4>2, SuperBlockAssumption DEF Index
    <3>. QED BY <3>1, <3>2
  <2>3. ~(e + 1 = p /\ cut)
    BY <1>1, SuperBlockAssumption DEF Index
  <2>4. CASE Numbered(slots[e + 1], SeqAt(n, e + 1))
    <3>1. SeqAt(n, e + 1) # Base(n) + (e + 1)
      BY <1>8, <2>1, SlotNumbers
    <3>. QED BY <2>2, <2>4, <3>1 DEF Numbered
  <2>5. CASE slots[e + 1] = Blank
    BY <2>5 DEF Blank
  <2>. QED BY <1>3, <1>8, <2>3, <2>4, <2>5
<1>9. RunEnd = e
  <2>. HIDE DEF e
  <2>. QED BY <1>6, <1>7, <1>8, RunEndIs
<1>10. /\ Back(RunEnd, 0) = e
       /\ Back(RunEnd, 1) = IF e = 0 THEN Cnt - 1 ELSE e - 1
  BY <1>6, <1>9, BackIs
<1>11. Whole(slots[Newest(n)])
  BY <1>5 DEF Whole, Numbered
<1>12. CASE ~cut
  <2>1. 0 \in Correct /\ Back(RunEnd, 0) = Newest(n)
    BY <1>10, <1>11, <1>12, SuperBlockAssumption DEF Correct, Index
  <2>. QED BY <2>1, OneCorrect DEF Shows
<1>13. CASE cut
  <2>1. Back(RunEnd, 1) = Newest(n)
    BY <1>10, <1>13 DEF Newest
  <2>2. Back(RunEnd, 0) = p /\ ~Whole(slots[p]) /\ slots[p].blk_id
    BY <1>10, <1>13 DEF Cut, Whole
  <2>3. 1 \in Index /\ 0 .. 1 - 1 = {0}
    BY SuperBlockAssumption DEF Index
  <2>4. 1 \in Correct
    BY <1>11, <2>1, <2>2, <2>3 DEF Correct
  <2>. QED BY <2>1, <2>4, OneCorrect DEF Shows
<1>. QED BY <1>12, <1>13

\* Whatever is on disk, an open uses a slot of the block.
LEMMA RunEndInIndex == RunEnd \in Index
<1> DEFINE run == {i \in Index : InRun(i)}
<1>1. ASSUME run # {} PROVE \E i \in run : \A j \in run : j <= i
  <2> DEFINE T == {Cnt - i : i \in run}
  <2>1. T \subseteq Nat /\ T # {}
    BY <1>1, SuperBlockAssumption DEF Index
  <2>2. IsWellFoundedOn(OpToRel(<, Nat), Nat)
    BY NatLessThanWellFounded
  <2>3. \E x \in T : \A y \in T : <<y, x>> \notin OpToRel(<, Nat)
    <3>. HIDE DEF T
    <3>. QED BY <2>1, <2>2, WFMin
  <2>4. PICK x \in T : \A y \in T : ~(y < x)
    BY <2>1, <2>3 DEF OpToRel
  <2>5. PICK i \in run : x = Cnt - i
    BY <2>4
  <2>6. ASSUME NEW j \in run PROVE j <= i
    <3>1. ~(Cnt - j < Cnt - i)
      BY <2>4, <2>5
    <3>. QED BY <3>1, SuperBlockAssumption DEF Index
  <2>. QED BY <2>6
<1>2. CASE run = {}
  BY <1>2, SuperBlockAssumption DEF RunEnd, Index
<1>3. CASE run # {}
  BY <1>1, <1>3 DEF RunEnd
<1>. QED BY <1>2, <1>3

\* And only a slot of the block.
LEMMA CorrectIsSlot == LastCorrect \subseteq {slots[i] : i \in Index}
<1>1. ASSUME NEW d \in Index PROVE Back(RunEnd, d) \in Index
  <2>1. RunEnd - d + Cnt \in Nat
    BY RunEndInIndex, SuperBlockAssumption DEF Index
  <2>. QED BY <2>1, Division DEF Back, Slot
<1>. QED BY <1>1 DEF LastCorrect, Correct

\* Nothing is read from a block that was never written.
LEMMA ReadsBlank ==
  slots = [i \in Index |-> Blank] => LastCorrect = {} /\ readback = Torn
<1>. SUFFICES ASSUME slots = [i \in Index |-> Blank]
              PROVE  LastCorrect = {} /\ readback = Torn
  OBVIOUS
<1>1. LastCorrect = {}
  <2>1. SUFFICES ASSUME NEW d \in Correct PROVE FALSE
    BY DEF LastCorrect
  <2>2. Back(RunEnd, d) \in Index
    <3>1. d \in Index /\ RunEnd - d + Cnt \in Nat
      BY RunEndInIndex, SuperBlockAssumption DEF Index, Correct
    <3>. QED BY <3>1, Division DEF Back, Slot
  <2>. QED BY <2>2 DEF Correct, Whole, Blank
<1>. QED BY <1>1 DEF readback
-----------------------------------------------------------------------------
(***************************************************************************)
(* What a write does to the numbers.                                       *)
(***************************************************************************)

\* After the write of n slot i is one update older, except the one written.
LEMMA Ages ==
  ASSUME NEW n \in SeqNos
  PROVE  /\ NextSeq(n) \in SeqNos
         /\ Newest(NextSeq(n)) = Slot(n)
         /\ SeqAt(NextSeq(n), Slot(n)) = n
         /\ \A i \in Index : i # Slot(n) =>
              /\ Ago(NextSeq(n), i) = Ago(n, i) + 1
              /\ SeqAt(NextSeq(n), i) = SeqAt(n, i)
              /\ 0 < n /\ n <= i => 0 < NextSeq(n) /\ NextSeq(n) <= i
<1>1. /\ Slot(n) \in Index /\ Base(n) \in Nat /\ Base(n) <= SeqMod - Cnt
      /\ Base(n) # 0 => Base(n) >= Cnt
      /\ n = Base(n) + Slot(n) /\ n \in Nat /\ n < SeqMod
  BY Turn, SuperBlockAssumption DEF Base, Index, SeqNos
<1>2. CASE Slot(n) < Cnt - 1
  <2>1. /\ Slot(NextSeq(n)) = Slot(n) + 1 /\ Base(NextSeq(n)) = Base(n)
        /\ NextSeq(n) \in SeqNos
        /\ NextSeq(n) = IF n = SeqMod - 1 THEN 0 ELSE n + 1
    BY <1>2, NextNumber
  <2>2. NextSeq(n) = n + 1
    BY <1>1, <1>2, <2>1, SuperBlockAssumption DEF Index
  <2>. QED BY <1>1, <1>2, <2>1, <2>2, SuperBlockAssumption
           DEF Newest, SeqAt, LastBase, Ago, Index
<1>3. CASE Slot(n) = Cnt - 1
  <2>1. /\ Slot(NextSeq(n)) = 0
        /\ Base(NextSeq(n)) = IF Base(n) = SeqMod - Cnt THEN 0 ELSE Base(n) + Cnt
        /\ NextSeq(n) \in SeqNos
    BY <1>3, NextNumber
  <2>. QED BY <1>1, <1>3, <2>1, SuperBlockAssumption
           DEF Newest, SeqAt, LastBase, Ago, Index
<1>. QED BY <1>1, <1>2, <1>3, SuperBlockAssumption DEF Index

\* A successful update makes the block fresh for one update more.
LEMMA WholeFresh ==
  ASSUME NEW n \in SeqNos, NEW r \in 0 .. Cnt, NEW d, NEW v \in Nat,
         TypeInv, Fresh(n, r, d),
         slots' = [slots EXCEPT ![Slot(n)] = Assembled(n, v)]
  PROVE  Fresh(NextSeq(n), IF r < Cnt THEN r + 1 ELSE Cnt, v)'
<1> DEFINE m == NextSeq(n)
           k == IF r < Cnt THEN r + 1 ELSE Cnt
<1>1. Slot(n) \in Index
  BY Turn
<1>2. slots'[Slot(n)] = Assembled(n, v)
  BY <1>1 DEF TypeInv
<1>3. \A i \in Index : i # Slot(n) => slots'[i] = slots[i]
  BY DEF TypeInv
<1>4. Numbered(slots'[Newest(m)], SeqAt(m, Newest(m))) /\ slots'[Newest(m)].data = v
  BY <1>2, Ages DEF Assembled, Numbered
<1>5. ASSUME NEW i \in Index, Ago(m, i) <= k
      PROVE  \/ Numbered(slots'[i], SeqAt(m, i))
             \/ 0 < m /\ m <= i /\ slots'[i] = Blank
             \/ i = Slot(m) /\ Cut(slots'[i], m)
  <2>1. CASE i = Slot(n)
    BY <1>4, <2>1, Ages
  <2>2. CASE i # Slot(n)
    <3>1. Ago(n, i) \in 1 .. Cnt
      BY SlotNumbers
    <3>2. Ago(n, i) <= r
      BY <1>5, <2>2, <3>1, Ages, SuperBlockAssumption
    <3>3. \/ Numbered(slots[i], SeqAt(n, i))
          \/ 0 < n /\ n <= i /\ slots[i] = Blank
      BY <2>2, <3>2 DEF Fresh, Recent
    <3>. QED BY <1>3, <2>2, <3>3, Ages
  <2>. QED BY <2>1, <2>2
<1>. QED BY <1>4, <1>5 DEF Fresh, Recent

\* An update that was cut off leaves the block as fresh as it was.
LEMMA CutFresh ==
  ASSUME NEW n \in SeqNos, NEW d, NEW v,
         TypeInv, Fresh(n, Cnt, d),
         slots' = [slots EXCEPT ![Slot(n)] =
                     FrontOnly(slots[Slot(n)], Assembled(n, v))]
  PROVE  Fresh(n, Cnt, d)'
<1>0. Slot(n) \in Index /\ Newest(n) \in Index
  BY Turn, SlotNumbers
<1>1. Slot(n) \in Index /\ Newest(n) # Slot(n) /\ Newest(n) \in Index
  BY <1>0, SuperBlockAssumption DEF Newest, Index
<1>2. slots'[Slot(n)] = FrontOnly(slots[Slot(n)], Assembled(n, v))
  BY <1>1 DEF TypeInv
<1>3. \A i \in Index : i # Slot(n) => slots'[i] = slots[i]
  BY DEF TypeInv
<1>4. Cut(slots'[Slot(n)], n)
  <2>1. Ago(n, Slot(n)) <= Cnt
    BY <1>1, SlotNumbers, SuperBlockAssumption
  <2>2. \/ Numbered(slots[Slot(n)], SeqAt(n, Slot(n)))
        \/ 0 < n /\ slots[Slot(n)] = Blank
        \/ Cut(slots[Slot(n)], n)
    BY <1>1, <2>1 DEF Fresh, Recent
  <2>3. SeqAt(n, Slot(n)) # n
    BY <1>1, SlotNumbers, SuperBlockAssumption DEF Index
  <2>4. slots[Slot(n)].foot # n
    BY <2>2, <2>3 DEF Numbered, Blank, Cut
  <2>. QED BY <1>2, <2>4 DEF FrontOnly, Assembled, Cut
<1>5. Recent(n, Cnt)'
  BY <1>1, <1>3, <1>4 DEF Fresh, Recent
<1>. QED BY <1>1, <1>3, <1>5, SuperBlockAssumption DEF Fresh
-----------------------------------------------------------------------------
(***************************************************************************)
(* What a flush puts on disk, and a part of one.                           *)
(***************************************************************************)

\* A super block that is open was written before.
LEMMA OpenFacts ==
  ASSUME IInv, sb # Closed
  PROVE  /\ sb.seq_no \in SeqNos /\ sb.data \in Content /\ sb.data + 1 \in Nat
         /\ acked \in Content /\ settled \in Content /\ round \in 0 .. Cnt
         /\ slots \in [Index -> SlotSet] /\ pend \in SlotSet
         /\ written
         /\ settled <= acked /\ acked <= sb.data
         /\ Fresh(DiskNext, round, settled)
<1>1. sb \in [seq_no : SeqNos, data : Content]
  BY DEF IInv, TypeInv
<1>2. sb.data + 1 \in Nat
  BY <1>1 DEF Content, Torn
<1>. QED BY <1>1, <1>2 DEF IInv, TypeInv, UnwrittenInv, OpenInv

\* A slot whose write is cut off is a slot.
LEMMA FrontIsSlot ==
  ASSUME NEW s \in SlotSet, NEW t \in SlotSet, t.blk_id
  PROVE  FrontOnly(s, t) \in SlotSet /\ FrontOnly(s, t).blk_id
<1>1. s.foot \in SeqNos /\ t.blk_id \in BOOLEAN /\ t.seq_no \in SeqNos /\ Torn \in Content
  BY DEF SlotSet, Content, Torn
<1>2. FrontOnly(s, t) \in SlotSet
  BY <1>1 DEF FrontOnly, SlotSet
<1>3. FrontOnly(s, t).blk_id = t.blk_id
  BY DEF FrontOnly, SlotSet
<1>. QED BY <1>2, <1>3

\* Whatever reaches the disk is a block of slots, and stays written.
LEMMA StoreFacts ==
  ASSUME IInv, sb # Closed, slots' \in Interrupted \cup {Flushed}
  PROVE  slots' \in [Index -> SlotSet] /\ written'
<1>1. slots \in [Index -> SlotSet] /\ pend \in SlotSet /\ written
  BY OpenFacts
<1>2. CASE slots' = slots
  BY <1>1, <1>2 DEF written
<1>3. CASE pend.blk_id /\ slots' # slots
  <2>1. PICK i \in Index : i = Slot(pend.seq_no)
    BY <1>1, Turn DEF SlotSet
  <2>2. PICK s \in SlotSet : s.blk_id /\ slots' = [slots EXCEPT ![i] = s]
    <3>1. CASE slots' = Flushed
      BY <1>1, <1>3, <2>1, <3>1 DEF Flushed
    <3>2. CASE slots' \in Interrupted
      <4>1. slots' = [slots EXCEPT ![i] = FrontOnly(slots[i], pend)]
        BY <1>3, <2>1, <3>2 DEF Interrupted
      <4>. QED BY <1>1, <1>3, <4>1, FrontIsSlot
    <3>. QED BY <3>1, <3>2
  <2>3. slots'[i].blk_id
    BY <1>1, <2>2
  <2>. QED BY <1>1, <2>2, <2>3 DEF written
<1>. QED BY <1>2, <1>3 DEF Flushed, Interrupted

\* The slot in the buffer, when it is the last update.
LEMMA CountsFacts ==
  ASSUME IInv, sb # Closed, Counts
  PROVE  /\ pend.seq_no \in SeqNos
         /\ pend = Assembled(pend.seq_no, acked)
         /\ sb.seq_no = NextSeq(pend.seq_no)
         /\ settled < acked /\ acked \in Nat
         /\ DiskNext = pend.seq_no
<1>1. pend \in SlotSet
  BY OpenFacts
<1>2. pend.blk_id /\ pend.foot = pend.seq_no /\ pend.data = acked
      /\ sb.seq_no = NextSeq(pend.seq_no) /\ settled < acked
  BY DEF IInv, OpenInv, Counts
<1>3. pend = Assembled(pend.seq_no, acked)
  BY <1>1, <1>2 DEF SlotSet, Assembled
<1>4. acked \in Nat
  BY <1>2, OpenFacts DEF Content, Torn
<1>. QED BY <1>1, <1>2, <1>3, <1>4 DEF SlotSet, DiskNext

\* A flush leaves all updates that returned on disk, the last one newest.
LEMMA FlushFresh ==
  ASSUME IInv, sb # Closed, slots' = Flushed, NEW n, n = sb.seq_no,
         NEW d, d = acked,
         NEW r, r = IF Counts /\ round < Cnt THEN round + 1 ELSE round
  PROVE  /\ r \in 0 .. Cnt
         /\ r > 0 => acked = sb.data
         /\ Fresh(n, r, d)'
<1>1. round \in 0 .. Cnt /\ n \in SeqNos /\ TypeInv
  BY OpenFacts DEF IInv
<1>2. r \in 0 .. Cnt /\ (r > 0 => acked = sb.data)
  BY <1>1, SuperBlockAssumption DEF IInv, OpenInv, Counts
<1>3. CASE Counts
  <2>1. PICK k \in SeqNos, v \in Nat : k = pend.seq_no /\ v = acked
    BY <1>3, CountsFacts
  <2>2. slots' = [slots EXCEPT ![Slot(k)] = Assembled(k, v)]
    BY <1>3, <2>1, CountsFacts DEF Flushed, Counts
  <2>3. PICK e \in Content, q \in 0 .. Cnt : e = settled /\ q = round /\ Fresh(k, q, e)
    BY <1>3, <2>1, CountsFacts, OpenFacts
  <2>4. Fresh(NextSeq(k), IF q < Cnt THEN q + 1 ELSE Cnt, v)'
    BY <1>1, <2>2, <2>3, WholeFresh
  <2>5. NextSeq(k) = n /\ r = IF q < Cnt THEN q + 1 ELSE Cnt
    BY <1>3, <2>1, <2>3, CountsFacts, SuperBlockAssumption
  <2>. QED BY <1>2, <2>1, <2>4, <2>5
<1>4. CASE ~Counts /\ round > 0
  <2>1. slots' = slots /\ settled = acked /\ Fresh(n, r, d)
    BY <1>1, <1>4, OpenFacts DEF IInv, OpenInv, Flushed, DiskNext
  <2>. QED BY <1>2, <2>1 DEF Fresh, Recent
<1>5. CASE ~Counts /\ ~(round > 0)
  <2>1. r = 0
    BY <1>1, <1>5, SuperBlockAssumption
  <2>2. \A i \in Index : Ago(n, i) \in 1 .. Cnt
    BY <1>1, SlotNumbers
  <2>3. Fresh(n, r, d)'
    BY <2>1, <2>2, SuperBlockAssumption DEF Fresh, Recent
  <2>. QED BY <1>2, <2>3
<1>. QED BY <1>3, <1>4, <1>5

\* What a killed process leaves of a block that has healed: the last update,
\* or the one before it, is the newest on disk.
LEMMA CrashFresh ==
  ASSUME IInv, sb # Closed, round = Cnt, slots' \in Interrupted \cup {Flushed},
         NEW s, s = settled, NEW a, a = acked
  PROVE  \E m \in SeqNos, e \in {s, a} : Fresh(m, Cnt, e)'
<1>1. /\ TypeInv /\ sb.seq_no \in SeqNos /\ Cnt > 0
      /\ s \in Content /\ Fresh(DiskNext, Cnt, s)
  BY OpenFacts, SuperBlockAssumption DEF IInv
<1>2. DiskNext \in SeqNos
  BY <1>1, CountsFacts DEF DiskNext
<1>3. CASE slots' = slots
  BY <1>1, <1>2, <1>3 DEF Fresh, Recent
<1>4. CASE slots' = Flushed
  <2>1. PICK n \in SeqNos, d \in {acked} : n = sb.seq_no
    BY <1>1
  <2>2. PICK r : r = Cnt /\ r = IF Counts /\ round < Cnt THEN round + 1 ELSE round
    BY SuperBlockAssumption
  <2>3. Fresh(n, r, d)'
    BY <1>4, <2>1, <2>2, FlushFresh
  <2>. QED BY <2>1, <2>2, <2>3
<1>5. CASE slots' \in Interrupted /\ slots' # slots
  <2>1. pend.blk_id /\ slots' = [slots EXCEPT ![Slot(pend.seq_no)] =
                                   FrontOnly(slots[Slot(pend.seq_no)], pend)]
    BY <1>5 DEF Interrupted
  <2>2. Counts
    BY <1>1, <2>1 DEF IInv, OpenInv
  <2>3. PICK k \in SeqNos, v \in Nat :
          k = pend.seq_no /\ pend = Assembled(k, v) /\ DiskNext = k
    BY <2>2, CountsFacts
  <2>4. Fresh(k, Cnt, s)'
    BY <1>1, <2>1, <2>3, CutFresh
  <2>. QED BY <2>4
<1>. QED BY <1>3, <1>4, <1>5
-----------------------------------------------------------------------------
(***************************************************************************)
(* The inductive invariant.                                                *)
(***************************************************************************)

\* No container exists yet.
LEMMA InitIInv == Init => IInv
<1>. SUFFICES ASSUME Init PROVE IInv
  OBVIOUS
<1>1. TypeInv
  BY SuperBlockAssumption DEF Init, TypeInv, SlotSet, Blank, SeqNos, Content, Torn
<1>2. ~written
  BY DEF Init, written, Blank
<1>. QED BY <1>1, <1>2 DEF Init, IInv, UnwrittenInv, OpenInv, ClosedInv

\* After a fault nothing is promised of any slot.
LEMMA NothingFresh ==
  ASSUME NEW n \in SeqNos, NEW d
  PROVE  Fresh(n, 0, d)'
BY SlotNumbers DEF Fresh, Recent

\* The first super block of a container is update number 0.
LEMMA CreateIInv == IInv /\ ofs_init_super_block => IInv'
<1>. SUFFICES ASSUME IInv, ofs_init_super_block PROVE IInv'
  OBVIOUS
<1>1. /\ 0 \in SeqNos /\ 0 \in Index /\ Slot(0) = 0 /\ Base(0) = 0
      /\ NextSeq(0) = 1 /\ 1 \in SeqNos
  <2>1. 0 \in SeqNos /\ 0 \in Index /\ 1 \in SeqNos
    BY SuperBlockAssumption DEF SeqNos, Index
  <2>2. Slot(0 * Cnt + 0) = 0
    BY <2>1, SlotIs
  <2>3. Slot(0) = 0
    BY <2>2, SuperBlockAssumption
  <2>. QED BY <2>1, <2>3, NextNumber, SuperBlockAssumption DEF Base
<1>2. Slot(1) = 1 /\ Base(1) = 0
  BY <1>1, NextNumber, SuperBlockAssumption
<1>3. /\ slots' = [i \in Index |-> IF i = 0 THEN Assembled(0, 0) ELSE Blank]
      /\ sb' = [seq_no |-> 1, data |-> 0] /\ acked' = 0 /\ settled' = 0
      /\ pend' = Blank
      /\ round' = round /\ faults' = faults /\ round = Cnt
  BY <1>1 DEF ofs_init_super_block, IInv, UnwrittenInv, ClosedInv
<1>4. TypeInv'
  BY <1>1, <1>3 DEF IInv, TypeInv, SlotSet, Assembled, Blank, Content, Torn
<1>5. written'
  BY <1>1, <1>3 DEF written, Assembled
<1>6. Fresh(1, Cnt, 0)'
  <2>1. Newest(1) = 0 /\ SeqAt(1, 0) = 0
    BY <1>2, SuperBlockAssumption DEF Newest, SeqAt
  <2>2. Numbered(slots'[0], 0) /\ slots'[0].data = 0
    BY <1>1, <1>3 DEF Assembled, Numbered
  <2>3. \A i \in Index : i # 0 => 1 <= i /\ slots'[i] = Blank
    BY <1>3 DEF Index
  <2>4. Recent(1, Cnt)'
    BY <2>1, <2>2, <2>3 DEF Recent
  <2>. QED BY <2>1, <2>2, <2>4 DEF Fresh
<1>7. sb' # Closed /\ ~Counts'
  BY <1>3 DEF Closed, Counts, Blank
<1>8. OpenInv'
  <2>1. ~pend'.blk_id
    BY <1>3 DEF Blank
  <2>. QED BY <1>3, <1>6, <1>7, <2>1 DEF OpenInv, DiskNext, Fresh, Recent
<1>. QED BY <1>4, <1>5, <1>7, <1>8 DEF IInv, UnwrittenInv, ClosedInv

\* The parts of an update: its number, its version, its slot.
LEMMA AdvanceFacts ==
  ASSUME IInv, advance
  PROVE  /\ sb # Closed /\ sb' # Closed
         /\ sb' = [seq_no |-> NextSeq(sb.seq_no), data |-> sb.data + 1]
         /\ NextSeq(sb.seq_no) \in SeqNos
         /\ New = Assembled(sb.seq_no, sb.data + 1)
         /\ New \in SlotSet
         /\ sb.data + 1 \in Nat /\ sb.data + 1 \in Content
         /\ sb.data + 1 > acked
<1>1. sb # Closed /\ sb' = [seq_no |-> NextSeq(sb.seq_no), data |-> sb.data + 1]
      /\ New = Assembled(sb.seq_no, sb.data + 1)
  BY DEF advance, New, Assembled
<1>2. /\ sb.seq_no \in SeqNos /\ sb.data + 1 \in Nat /\ sb.data \in Content
      /\ acked \in Content /\ acked <= sb.data
  BY <1>1, OpenFacts
<1>3. NextSeq(sb.seq_no) \in SeqNos /\ sb.data + 1 \in Content /\ sb.data + 1 > acked
  BY <1>2, NextNumber DEF Content, Torn
<1>4. New \in SlotSet
  BY <1>1, <1>2, <1>3 DEF Assembled, SlotSet
<1>5. sb' # Closed
  BY <1>1, <1>2 DEF Closed
<1>. QED BY <1>1, <1>2, <1>3, <1>4, <1>5

\* What holds after a flush, whatever is then put into the buffer.
LEMMA FlushFacts ==
  ASSUME IInv, sb # Closed, flush
  PROVE  /\ slots' \in [Index -> SlotSet] /\ written'
         /\ settled' = acked
         /\ round' \in 0 .. Cnt
         /\ round' > 0 => acked = sb.data
         /\ \A n, d, r : n = sb.seq_no /\ d = acked /\ r = round' => Fresh(n, r, d)'
<1>1. slots' = Flushed /\ settled' = acked
  BY DEF flush
<1>2. slots' \in [Index -> SlotSet] /\ written'
  BY <1>1, StoreFacts
<1>3. PICK r : r = round' /\ r = IF Counts /\ round < Cnt THEN round + 1 ELSE round
  BY DEF flush
<1>4. r \in 0 .. Cnt /\ (r > 0 => acked = sb.data)
  BY <1>1, <1>3, FlushFresh
<1>5. ASSUME NEW n, NEW d, n = sb.seq_no, d = acked PROVE Fresh(n, r, d)'
  BY <1>1, <1>3, <1>5, FlushFresh
<1>. QED BY <1>1, <1>2, <1>3, <1>4, <1>5

\* An update that succeeds: its slot is in the buffer, the one before on disk.
LEMMA UpdateIInv == IInv /\ ofs_update_super_block => IInv'
<1>. SUFFICES ASSUME IInv, ofs_update_super_block PROVE IInv'
  OBVIOUS
<1>1. advance /\ flush /\ pend' = New /\ acked' = New.data /\ faults' = faults
  BY DEF ofs_update_super_block, flush
<1>2. sb # Closed
  BY <1>1, AdvanceFacts
<1>3. PICK n \in SeqNos, v \in Nat, a \in Content :
        n = sb.seq_no /\ v = sb.data + 1 /\ a = acked
  BY <1>2, OpenFacts
<1>4. /\ sb' = [seq_no |-> NextSeq(n), data |-> v] /\ sb' # Closed
      /\ NextSeq(n) \in SeqNos /\ v \in Content /\ v > a
      /\ pend' = Assembled(n, v) /\ pend' \in SlotSet /\ acked' = v
  BY <1>1, <1>3, AdvanceFacts DEF Assembled
<1>5. PICK r \in 0 .. Cnt :
        /\ r = round' /\ Fresh(n, r, a)'
        /\ settled' = a /\ slots' \in [Index -> SlotSet] /\ written'
  BY <1>1, <1>2, <1>3, FlushFacts
<1>6. TypeInv'
  BY <1>1, <1>4, <1>5 DEF IInv, TypeInv
<1>7. Counts' /\ DiskNext' = n
  BY <1>4 DEF Counts, DiskNext, Assembled
<1>8. OpenInv'
  <2>1. pend'.seq_no = n /\ pend'.foot = n
    BY <1>4 DEF Assembled
  <2>2. a \in Int /\ v \in Int
    BY DEF Content
  <2>3. Fresh(DiskNext, round, settled)'
    BY <1>5, <1>7 DEF Fresh, Recent
  <2>. QED BY <1>4, <1>5, <1>7, <2>1, <2>2, <2>3 DEF OpenInv
<1>. QED BY <1>4, <1>5, <1>6, <1>8 DEF IInv, UnwrittenInv, ClosedInv

\* A seek or a close that fails, the super block being open or closed after it.
LEMMA FlushFailsFacts ==
  ASSUME IInv, sb # Closed, flush_fails
  PROVE  /\ slots' \in [Index -> SlotSet] /\ written'
         /\ pend' \in {pend, Blank} /\ pend' \in SlotSet
         /\ acked' = acked /\ settled' = settled
         /\ round' = 0 /\ faults' \in Nat
<1>1. slots' \in [Index -> SlotSet] /\ written'
  BY StoreFacts DEF flush_fails
<1>2. Blank \in SlotSet /\ pend \in SlotSet /\ faults \in Nat
  BY SuperBlockAssumption DEF Blank, SlotSet, SeqNos, Content, Torn, IInv, TypeInv
<1>. QED BY <1>1, <1>2 DEF flush_fails

\* An update that fails: the next one goes on after it all the same.
LEMMA FailsIInv == IInv /\ ofs_update_super_block_fails => IInv'
<1>. SUFFICES ASSUME IInv, ofs_update_super_block_fails PROVE IInv'
  OBVIOUS
<1>1. advance
  BY DEF ofs_update_super_block_fails
<1>2. sb # Closed
  BY <1>1, AdvanceFacts
<1>3. PICK n \in SeqNos, v \in Nat, a \in Content :
        n = sb.seq_no /\ v = sb.data + 1 /\ a = acked
  BY <1>2, OpenFacts
<1>4. /\ sb' = [seq_no |-> NextSeq(n), data |-> v] /\ sb' # Closed
      /\ NextSeq(n) \in SeqNos /\ v \in Content /\ v > a
      /\ New \in SlotSet /\ New.blk_id /\ Position \in Index
  BY <1>1, <1>3, AdvanceFacts, Turn DEF Assembled, Position
<1>5. /\ slots' \in [Index -> SlotSet] /\ written'
      /\ pend' \in SlotSet
      /\ acked' = a /\ settled' \in Content /\ settled' <= a
      /\ round' = 0 /\ faults' \in Nat
  <2>1. CASE flush_fails
    <3>1. settled \in Content /\ settled <= acked
      BY <1>2, OpenFacts
    <3>. QED BY <1>2, <1>3, <2>1, <3>1, FlushFailsFacts
  <2>2. CASE ~flush_fails
    <3>1. /\ slots' = Flushed /\ settled' = acked /\ acked' = acked
          /\ round' = 0 /\ faults' = faults + 1
          /\ pend' \in {New, FrontOnly(Flushed[Position], New), Blank}
      BY <2>2 DEF ofs_update_super_block_fails
    <3>2. Flushed \in [Index -> SlotSet] /\ written'
      BY <1>2, <3>1, StoreFacts
    <3>3. FrontOnly(Flushed[Position], New) \in SlotSet
      <4>1. Flushed[Position] \in SlotSet
        BY <1>4, <3>2
      <4>. QED BY <1>4, <4>1, FrontIsSlot
    <3>4. Blank \in SlotSet /\ faults \in Nat
      BY SuperBlockAssumption DEF Blank, SlotSet, SeqNos, Content, Torn, IInv, TypeInv
    <3>5. a <= a
      BY DEF Content
    <3>. QED BY <1>3, <1>4, <3>1, <3>2, <3>3, <3>4, <3>5
  <2>. QED BY <2>1, <2>2
<1>6. TypeInv'
  BY <1>4, <1>5, SuperBlockAssumption DEF TypeInv
<1>7. ~Counts' /\ DiskNext' = NextSeq(n)
  <2>1. acked' # sb'.data
    BY <1>4, <1>5 DEF Content
  <2>. QED BY <1>4, <2>1 DEF Counts, DiskNext
<1>8. OpenInv'
  <2>1. a <= v
    BY <1>4 DEF Content
  <2>2. \A e : Fresh(NextSeq(n), 0, e)'
    BY <1>4, NothingFresh
  <2>3. Fresh(DiskNext, round, settled)'
    BY <1>5, <1>7, <2>2 DEF Fresh, Recent
  <2>. QED BY <1>4, <1>5, <1>7, <2>1, <2>3 DEF OpenInv
<1>. QED BY <1>4, <1>5, <1>6, <1>8 DEF IInv, UnwrittenInv, ClosedInv

\* Any other access to the file.
LEMMA OtherIInv == IInv /\ other_io => IInv'
<1>. SUFFICES ASSUME IInv, other_io PROVE IInv'
  OBVIOUS
<1>1. sb # Closed /\ sb' = sb
  BY DEF other_io
<1>2. PICK n \in SeqNos, a \in Content : n = sb.seq_no /\ a = acked
  BY <1>1, OpenFacts
<1>3. CASE flush /\ pend' = Blank /\ UNCHANGED acked
  <2>1. PICK r \in 0 .. Cnt :
          /\ r = round' /\ Fresh(n, r, a)' /\ (r > 0 => acked = sb.data)
          /\ settled' = a /\ slots' \in [Index -> SlotSet] /\ written'
    BY <1>1, <1>2, <1>3, FlushFacts
  <2>2. pend' \in SlotSet /\ ~pend'.blk_id
    BY <1>3, SuperBlockAssumption DEF Blank, SlotSet, SeqNos, Content, Torn
  <2>3. TypeInv'
    BY <1>1, <1>2, <1>3, <2>1, <2>2 DEF IInv, TypeInv, flush
  <2>4. ~Counts' /\ DiskNext' = n
    BY <1>1, <1>2, <2>2 DEF Counts, DiskNext
  <2>5. OpenInv'
    <3>1. acked' = a /\ a <= a /\ acked' <= sb'.data
      BY <1>1, <1>2, <1>3, OpenFacts DEF Content
    <3>2. Fresh(DiskNext, round, settled)'
      BY <2>1, <2>4 DEF Fresh, Recent
    <3>. QED BY <1>1, <1>2, <1>3, <2>1, <2>2, <2>4, <3>1, <3>2 DEF OpenInv
  <2>. QED BY <1>1, <2>1, <2>3, <2>5 DEF IInv, UnwrittenInv, ClosedInv
<1>4. CASE flush_fails
  <2>1. /\ slots' \in [Index -> SlotSet] /\ written'
        /\ pend' \in {pend, Blank} /\ pend' \in SlotSet
        /\ acked' = acked /\ settled' = settled
        /\ round' = 0 /\ faults' \in Nat
    BY <1>1, <1>4, FlushFailsFacts
  <2>2. TypeInv'
    BY <1>1, <2>1, SuperBlockAssumption DEF IInv, TypeInv
  <2>3. Counts' => Counts /\ pend' = pend
    BY <1>1, <2>1 DEF Counts, Blank
  <2>4. PICK m \in SeqNos : m = DiskNext'
    BY <1>1, <1>2, <2>3, CountsFacts DEF DiskNext
  <2>5. OpenInv'
    <3>1. Fresh(DiskNext, round, settled)'
      <4>1. \A e : Fresh(m, 0, e)'
        BY NothingFresh
      <4>. QED BY <2>1, <2>4, <4>1 DEF Fresh, Recent
    <3>2. settled <= acked /\ acked <= sb.data
      BY <1>1, OpenFacts
    <3>3. Counts' => /\ sb'.seq_no = NextSeq(pend'.seq_no)
                     /\ pend'.foot = pend'.seq_no
                     /\ settled' < acked'
      BY <1>1, <2>1, <2>3 DEF IInv, OpenInv
    <3>. QED BY <1>1, <2>1, <3>1, <3>2, <3>3 DEF OpenInv
  <2>. QED BY <1>1, <2>1, <2>2, <2>5 DEF IInv, UnwrittenInv, ClosedInv
<1>. QED BY <1>3, <1>4 DEF other_io

\* A closed super block: what is left of it is on disk.
LEMMA ClosedIInv ==
  ASSUME IInv, sb # Closed, sb' = Closed, pend' = Blank,
         slots' \in [Index -> SlotSet], written',
         acked' \in Content, settled' \in Content, round' \in 0 .. Cnt,
         faults' \in Nat,
         round' = Cnt =>
           \E m \in SeqNos, e \in Content : e >= settled' /\ Fresh(m, Cnt, e)'
  PROVE  IInv'
<1>1. Blank \in SlotSet
  BY SuperBlockAssumption DEF Blank, SlotSet, SeqNos, Content, Torn
<1>2. TypeInv'
  BY <1>1 DEF TypeInv
<1>3. ClosedInv'
  <2>1. SUFFICES ASSUME round' = Cnt
                 PROVE  \E m \in SeqNos :
                          LET e == slots[Newest(m)].data
                          IN  (e >= settled /\ Fresh(m, Cnt, e))'
    BY DEF ClosedInv
  <2>2. PICK m \in SeqNos, e \in Content : e >= settled' /\ Fresh(m, Cnt, e)'
    BY <2>1
  <2>3. slots'[Newest(m)].data = e
    BY <2>2, SuperBlockAssumption DEF Fresh
  <2>. QED BY <2>2, <2>3 DEF Fresh, Recent
<1>. QED BY <1>2, <1>3 DEF IInv, UnwrittenInv, OpenInv

\* os_file_close writes what is in the buffer, or fails to.
LEMMA CloseIInv == IInv /\ close_container => IInv'
<1>. SUFFICES ASSUME IInv, close_container PROVE IInv'
  OBVIOUS
<1>1. sb # Closed /\ sb' = Closed /\ pend' = Blank
  BY DEF close_container
<1>2. acked \in Content /\ settled \in Content /\ faults \in Nat
  BY <1>1, OpenFacts DEF IInv, TypeInv
<1>3. CASE flush /\ UNCHANGED acked
  <2>1. PICK n \in SeqNos, a \in Content : n = sb.seq_no /\ a = acked
    BY <1>1, OpenFacts
  <2>2. PICK r \in 0 .. Cnt :
          /\ r = round' /\ Fresh(n, r, a)'
          /\ settled' = a /\ slots' \in [Index -> SlotSet] /\ written'
    BY <1>1, <1>3, <2>1, FlushFacts
  <2>3. a >= a
    BY DEF Content
  <2>4. round' = Cnt =>
          \E m \in SeqNos, e \in Content : e >= settled' /\ Fresh(m, Cnt, e)'
    BY <2>2, <2>3
  <2>. QED BY <1>1, <1>2, <1>3, <2>2, <2>4, ClosedIInv DEF flush
<1>4. CASE flush_fails
  <2>1. round' = 0 /\ round' # Cnt /\ round' \in 0 .. Cnt
    BY <1>1, <1>4, FlushFailsFacts, SuperBlockAssumption
  <2>. QED BY <1>1, <1>2, <1>4, <2>1, FlushFailsFacts, ClosedIInv
<1>. QED BY <1>3, <1>4 DEF close_container

\* A killed process.
LEMMA CrashIInv == IInv /\ crash => IInv'
<1>. SUFFICES ASSUME IInv, crash PROVE IInv'
  OBVIOUS
<1>1. /\ sb # Closed /\ sb' = Closed /\ pend' = Blank
      /\ slots' \in Interrupted \cup {Flushed}
      /\ acked' = acked /\ settled' = settled /\ round' = round /\ faults' = faults
  BY DEF crash
<1>2. slots' \in [Index -> SlotSet] /\ written'
  BY <1>1, StoreFacts
<1>3. PICK s \in Content, a \in Content : s = settled /\ a = acked /\ s <= a
  BY <1>1, OpenFacts
<1>4. round' = Cnt =>
        \E m \in SeqNos, e \in Content : e >= settled' /\ Fresh(m, Cnt, e)'
  <2>1. SUFFICES ASSUME round = Cnt
                 PROVE  \E m \in SeqNos, e \in Content : e >= s /\ Fresh(m, Cnt, e)'
    BY <1>1, <1>3
  <2>2. PICK m \in SeqNos, e \in {s, a} : Fresh(m, Cnt, e)'
    BY <1>1, <1>3, <2>1, CrashFresh
  <2>3. e \in Content /\ e >= s
    BY <1>3 DEF Content
  <2>. QED BY <2>2, <2>3
<1>5. acked' \in Content /\ round' \in 0 .. Cnt /\ faults' \in Nat
  BY <1>1 DEF IInv, TypeInv
<1>. QED BY <1>1, <1>2, <1>3, <1>4, <1>5, ClosedIInv

\* What is on disk when the block has healed: the newest version that was
\* flushed, or one that is not older.
LEMMA HealedFacts ==
  IInv /\ round = Cnt /\ written =>
    \E n \in SeqNos, d \in Content :
      /\ Fresh(n, Cnt, d) /\ Shows(n) /\ d >= settled
      /\ Numbered(slots[Newest(n)], SeqAt(n, Newest(n)))
      /\ readback = d /\ d >= 0
      /\ sb # Closed => d = settled
<1>. SUFFICES ASSUME IInv, round = Cnt, written
              PROVE  \E n \in SeqNos, d \in Content :
                       /\ Fresh(n, Cnt, d) /\ Shows(n) /\ d >= settled
                       /\ Numbered(slots[Newest(n)], SeqAt(n, Newest(n)))
                       /\ readback = d /\ d >= 0
                       /\ sb # Closed => d = settled
  OBVIOUS
<1>1. PICK n \in SeqNos, d \in Content :
        /\ Fresh(n, Cnt, d) /\ d >= settled
        /\ sb # Closed => d = settled
  <2>1. CASE sb = Closed
    <3>1. PICK n \in SeqNos : /\ slots[Newest(n)].data >= settled
                              /\ Fresh(n, Cnt, slots[Newest(n)].data)
      BY <2>1 DEF IInv, ClosedInv
    <3>2. slots[Newest(n)].data \in Content
      BY SlotNumbers DEF IInv, TypeInv, SlotSet
    <3>. QED BY <2>1, <3>1, <3>2
  <2>2. CASE sb # Closed
    <3>1. /\ sb.seq_no \in SeqNos /\ settled \in Content
          /\ Fresh(DiskNext, Cnt, settled)
      BY <2>2, OpenFacts
    <3>2. DiskNext \in SeqNos
      BY <2>2, <3>1, CountsFacts DEF DiskNext
    <3>. QED BY <2>2, <3>1, <3>2 DEF Content
  <2>. QED BY <2>1, <2>2
<1>2. Shows(n)
  BY <1>1, ReadsNewest DEF IInv
<1>3. /\ Numbered(slots[Newest(n)], SeqAt(n, Newest(n)))
      /\ slots[Newest(n)].data = d /\ d >= 0
  BY <1>1, SuperBlockAssumption DEF Fresh
<1>. QED BY <1>1, <1>2, <1>3 DEF Shows

\* An open goes on with the number after the slot it has read.
LEMMA OpenIInv == IInv /\ ofs_read_super_block => IInv'
<1>. SUFFICES ASSUME IInv, ofs_read_super_block PROVE IInv'
  OBVIOUS
<1>1. PICK s \in LastCorrect :
        sb' = ReadIn(s) /\ acked' = s.data /\ settled' = s.data
  BY DEF ofs_read_super_block
<1>2. /\ slots' = slots /\ faults' = faults /\ pend' = pend
      /\ round' = IF round < Cnt THEN 0 ELSE Cnt
      /\ pend = Blank /\ ~pend.blk_id
  BY DEF ofs_read_super_block, IInv, ClosedInv, Blank
<1>3. written
  BY <1>1, ReadsBlank DEF IInv, UnwrittenInv
<1>4. s \in SlotSet
  BY <1>1, CorrectIsSlot DEF IInv, TypeInv
<1>5. PICK n \in SeqNos, d \in Content : n = NextSeq(s.seq_no) /\ d = s.data
  BY <1>4, NextNumber DEF SlotSet
<1>6. sb' = [seq_no |-> n, data |-> d] /\ acked' = d /\ settled' = d
  BY <1>1, <1>5 DEF ReadIn
<1>7. TypeInv' /\ written'
  BY <1>2, <1>3, <1>6, SuperBlockAssumption DEF IInv, TypeInv, written
<1>8. sb' # Closed /\ ~Counts' /\ DiskNext' = n
  BY <1>2, <1>6 DEF Closed, Content, Torn, Counts, DiskNext
<1>9. PICK r \in 0 .. Cnt : r = round'
  BY <1>2, SuperBlockAssumption
<1>10. Fresh(n, r, d)'
  <2>1. CASE round = Cnt
    <3>1. PICK m \in SeqNos, e \in Content :
            /\ Fresh(m, Cnt, e) /\ Shows(m)
            /\ Numbered(slots[Newest(m)], SeqAt(m, Newest(m)))
      BY <1>3, <2>1, HealedFacts
    <3>2. s = slots[Newest(m)] /\ e = s.data
      BY <1>1, <3>1, SuperBlockAssumption DEF Shows, Fresh
    <3>3. m = n
      BY <1>5, <3>1, <3>2, SlotNumbers DEF Numbered
    <3>4. r = Cnt
      BY <1>2, <1>9, <2>1, SuperBlockAssumption
    <3>. QED BY <1>2, <1>5, <3>1, <3>2, <3>3, <3>4 DEF Fresh, Recent
  <2>2. CASE round # Cnt
    <3>1. r = 0
      BY <1>2, <1>9, <2>2, SuperBlockAssumption DEF IInv, TypeInv
    <3>. QED BY <3>1, NothingFresh
  <2>. QED BY <2>1, <2>2
<1>11. OpenInv'
  <2>1. Fresh(DiskNext, round, settled)'
    BY <1>6, <1>8, <1>9, <1>10 DEF Fresh, Recent
  <2>2. d <= d /\ sb'.data = d
    BY <1>6 DEF Content
  <2>. QED BY <1>2, <1>6, <1>8, <2>1, <2>2 DEF OpenInv
<1>. QED BY <1>7, <1>8, <1>11 DEF IInv, UnwrittenInv, ClosedInv

\* Every step keeps the inductive invariant.
LEMMA NextIInv == IInv /\ [Next]_vars => IInv'
<1>. SUFFICES ASSUME IInv, [Next]_vars PROVE IInv'
  OBVIOUS
<1>1. CASE UNCHANGED vars
  BY <1>1 DEF vars, IInv, TypeInv, UnwrittenInv, OpenInv, ClosedInv, written,
              Fresh, Recent, Counts, DiskNext
<1>. QED BY <1>1, CreateIInv, UpdateIInv, FailsIInv, OtherIInv, CloseIInv,
            CrashIInv, OpenIInv DEF Next

\* The inductive invariant: the slots hold the numbers of the last turn or two,
\* in the order in which ofs_update_block_pingpong writes them, except for the
\* last one while it is in the buffer of the stream (file_if.c).
THEOREM SpecIInv == Spec => []IInv
BY InitIInv, NextIInv, PTL DEF Spec

\* Whatever the number of slots and of updates, killed processes and failed
\* writes: once every slot was written again after the last failed write, an
\* open (get_last_correct_block) finds the newest update that was flushed, by
\* the seek of any later access to the file, or a newer one.
THEOREM SpecHealed == Spec => []Healed
<1>1. IInv => Healed
  BY HealedFacts DEF Healed
<1>. QED BY <1>1, SpecIInv, PTL
-----------------------------------------------------------------------------
(***************************************************************************)
(* The rotating slots implement one value that is replaced as a whole.     *)
(***************************************************************************)

\* An empty block is a cell that was never written.
LEMMA InitCell == Init => Cell!Init
<1>. SUFFICES ASSUME Init PROVE Cell!Init
  OBVIOUS
<1>1. readback = Torn /\ acked = Torn /\ round = Cnt /\ sb = Closed
  BY ReadsBlank DEF Init
<1>. QED BY <1>1 DEF Cell!Init, Torn

\* What an open would return after a step, when the slots are fresh.
LEMMA NowReads ==
  ASSUME IInv'
  PROVE  \A m \in SeqNos, e \in Content : Fresh(m, Cnt, e)' => readback' = e
<1>1. ReadsNewest!:'
  BY ReadsNewest, PTL
<1>2. \A m \in SeqNos, e \in Content : Fresh(m, Cnt, e)' => Shows(m)'
  BY <1>1 DEF IInv
<1>. QED BY <1>2, SuperBlockAssumption DEF Shows, Fresh

\* The first super block creates the cell's value.
LEMMA CreateCell == IInv /\ IInv' /\ ofs_init_super_block => Cell!Create
<1>. SUFFICES ASSUME IInv, IInv', ofs_init_super_block PROVE Cell!Create
  OBVIOUS
<1>1. readback = Torn /\ round = Cnt /\ sb = Closed
  BY ReadsBlank DEF ofs_init_super_block, IInv, UnwrittenInv
<1>2. acked' = 0 /\ settled' = 0 /\ round' = Cnt /\ sb'.data = 0 /\ sb' # Closed
  BY <1>1 DEF ofs_init_super_block, Closed
<1>3. written'
  BY <1>2 DEF IInv, UnwrittenInv
<1>4. readback' = 0
  <2>1. HealedFacts!:'
    BY HealedFacts, PTL
  <2>. QED BY <1>2, <1>3, <2>1
<1>. QED BY <1>1, <1>2, <1>4 DEF Cell!Create, Torn

\* A flush settles what the callers were told, or the block is not healed yet.
LEMMA FlushCell ==
  ASSUME IInv, IInv', sb # Closed, flush
  PROVE  round' = Cnt => Cell!Settle
<1>. SUFFICES ASSUME round' = Cnt PROVE Cell!Settle
  OBVIOUS
<1>1. PICK n \in SeqNos, a \in Content : n = sb.seq_no /\ a = acked
  BY OpenFacts
<1>2. Fresh(n, Cnt, a)'
  BY <1>1, FlushFacts
<1>3. readback' = a
  BY <1>2, NowReads
<1>4. round = Cnt => readback <= a
  <2>1. written /\ settled \in Content /\ settled <= acked
    BY OpenFacts
  <2>. QED BY <1>1, <2>1, HealedFacts DEF Content
<1>5. round = Cnt => readback \in Int
  BY OpenFacts, HealedFacts DEF Content
<1>. QED BY <1>1, <1>3, <1>4, <1>5 DEF Cell!Settle, Content

\* A successful update settles the one before it.
LEMMA UpdateCell ==
  IInv /\ IInv' /\ ofs_update_super_block => Cell!Update \/ Cell!Unsound
<1>. SUFFICES ASSUME IInv, IInv', ofs_update_super_block
              PROVE  Cell!Update \/ Cell!Unsound
  OBVIOUS
<1>1. advance /\ flush /\ acked' = New.data
  BY DEF ofs_update_super_block
<1>2. /\ sb # Closed /\ sb' # Closed /\ acked' = sb.data + 1 /\ acked' > acked
  BY <1>1, AdvanceFacts DEF Assembled
<1>3. round' = Cnt => Cell!Settle
  BY <1>1, <1>2, FlushCell
<1>4. acked' >= acked
  BY <1>2, OpenFacts DEF Content
<1>. QED BY <1>2, <1>3, <1>4 DEF Cell!Update, Cell!Unsound

\* A seek, a close or a write that fails suspends the promise.
LEMMA FailsCell ==
  ASSUME IInv, sb # Closed, round' = 0, acked' = acked
  PROVE  Cell!Unsound
<1>1. acked \in Int
  BY DEF IInv, TypeInv, Content
<1>. QED BY <1>1, SuperBlockAssumption DEF Cell!Unsound

\* Other accesses and a close flush the buffer.
LEMMA OtherCell ==
  ASSUME IInv, IInv', sb # Closed, (flush /\ UNCHANGED acked) \/ flush_fails
  PROVE  Cell!Flush \/ Cell!Unsound
<1>1. CASE flush /\ UNCHANGED acked
  <2>1. round' = Cnt => Cell!Settle
    BY <1>1, FlushCell
  <2>2. acked' >= acked
    BY <1>1, OpenFacts DEF Content
  <2>. QED BY <1>1, <2>1, <2>2 DEF Cell!Flush, Cell!Unsound
<1>2. CASE flush_fails
  BY <1>2, FailsCell DEF flush_fails
<1>. QED BY <1>1, <1>2

\* A killed process loses the last update, or nothing.
LEMMA CrashCell == IInv /\ IInv' /\ crash => Cell!Crash \/ Cell!Unsound
<1>. SUFFICES ASSUME IInv, IInv', crash PROVE Cell!Crash \/ Cell!Unsound
  OBVIOUS
<1>1. /\ sb # Closed /\ sb' = Closed
      /\ slots' \in Interrupted \cup {Flushed}
      /\ acked' = acked /\ round' = round
  BY DEF crash
<1>2. PICK s \in Content, a \in Content : s = settled /\ a = acked
  BY <1>1, OpenFacts
<1>3. CASE round = Cnt
  <2>1. readback = s
    BY <1>1, <1>2, <1>3, OpenFacts, HealedFacts
  <2>2. PICK m \in SeqNos, e \in {s, a} : Fresh(m, Cnt, e)'
    BY <1>1, <1>2, <1>3, CrashFresh
  <2>3. readback' = e
    BY <1>2, <2>2, NowReads
  <2>. QED BY <1>1, <1>2, <1>3, <2>1, <2>3 DEF Cell!Crash
<1>4. CASE round # Cnt
  BY <1>1, <1>2, <1>4 DEF Cell!Unsound, Content
<1>. QED BY <1>3, <1>4

\* An open returns what is on disk, and the caller knows it from then on.
LEMMA OpenCell == IInv /\ IInv' /\ ofs_read_super_block => Cell!Open
<1>. SUFFICES ASSUME IInv, IInv', ofs_read_super_block PROVE Cell!Open
  OBVIOUS
<1>1. PICK d \in Correct : acked' = slots[Back(RunEnd, d)].data
  BY DEF ofs_read_super_block, LastCorrect
<1>2. acked' = readback
  BY <1>1, OneCorrect
<1>3. slots' = slots
  BY DEF ofs_read_super_block
<1>4. readback' = readback
  <2>1. RunEnd' = RunEnd
    BY <1>3 DEF RunEnd, InRun
  <2>2. LastCorrect' = LastCorrect
    BY <1>3, <2>1 DEF LastCorrect, Correct, Back
  <2>. QED BY <2>2 DEF readback
<1>5. LastCorrect # {}
  BY <1>1 DEF LastCorrect
<1>6. written
  BY <1>5, ReadsBlank DEF IInv, UnwrittenInv
<1>7. round = Cnt => readback >= 0
  BY <1>6, HealedFacts
<1>8. (round' = Cnt) = (round = Cnt)
  BY SuperBlockAssumption DEF ofs_read_super_block, IInv, TypeInv
<1>9. sb = Closed /\ sb' # Closed
  <2>1. PICK s \in LastCorrect : sb' = ReadIn(s)
    BY DEF ofs_read_super_block
  <2>2. s.data \in Content
    BY <2>1, CorrectIsSlot DEF IInv, TypeInv, SlotSet
  <2>. QED BY <2>1, <2>2 DEF ReadIn, Closed, Content, Torn, ofs_read_super_block
<1>. QED BY <1>2, <1>4, <1>7, <1>8, <1>9 DEF Cell!Open

\* Every step is a step of the cell, or leaves it alone.
LEMMA NextCell == IInv /\ IInv' /\ [Next]_vars => [Cell!Next]_(Cell!vars)
<1>. SUFFICES ASSUME IInv, IInv', [Next]_vars
              PROVE  Cell!Next \/ UNCHANGED Cell!vars
  OBVIOUS
<1>1. CASE ofs_update_super_block_fails
  <2>1. sb # Closed /\ round' = 0 /\ acked' = acked
    BY <1>1 DEF ofs_update_super_block_fails, advance, flush_fails
  <2>. QED BY <2>1, FailsCell DEF Cell!Next
<1>2. CASE other_io
  BY <1>2, OtherCell DEF other_io, Cell!Next
<1>3. CASE close_container
  BY <1>3, OtherCell DEF close_container, Cell!Next
<1>4. CASE UNCHANGED vars
  BY <1>4 DEF vars, Cell!vars, readback, LastCorrect, Correct, Back, RunEnd, InRun
<1>. QED BY <1>1, <1>2, <1>3, <1>4, CreateCell, UpdateCell, CrashCell, OpenCell
         DEF Next, Cell!Next

\* Every behaviour of the super block, whatever the number of slots: the
\* rotating writes of ofs_update_block_pingpong and the search of
\* get_last_correct_block keep the promise of one value replaced as a whole.
\* A killed process loses at most the last update that returned, and only while
\* its slot is still in the buffer that os_file_write does not flush; failed
\* writes suspend the promise until Cnt good ones are on disk.
THEOREM SpecImplementsCell == Spec => ImplementsCell
<1>1. Init => Cell!Init
  BY InitCell
<1>2. IInv /\ IInv' /\ [Next]_vars => [Cell!Next]_(Cell!vars)
  BY NextCell
<1>. QED BY <1>1, <1>2, SpecIInv, PTL DEF Spec, ImplementsCell, Cell!Spec
=============================================================================
