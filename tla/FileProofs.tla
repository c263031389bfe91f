------------------------------ MODULE FileProofs ------------------------------
(***************************************************************************)
(* Proofs about the files of the C library, for any number of threads,     *)
(* positions, values, lines and failures of the operating system.  FileIf: *)
(* the calls on one stream implement PositionedFile.  Log: although        *)
(* total_lines is read after the unlock and backup_log does not look at it *)
(* again, the file stays near its limit and the lines in order.            *)
(***************************************************************************)
EXTENDS FileIf, Log, FiniteSetTheorems, TLAPS

Cells == FileVals \cup {TornCell, 0}

ThreadType ==
  [at : {"idle", "seek", "io", "unlock"}, op : {"none", "read", "write", "size"},
   off : Nat, val : FileVals \cup {0}]

FileType ==
  [disk : Seq(Cells), pend : Seq([off : FileOffs, val : Cells]), pos : Nat,
   open : BOOLEAN, lock : FileProcs \cup {NoOne}, th : [FileProcs -> ThreadType],
   faults : Nat]

\* Every field of the stream has its type.
TypeInv == file \in FileType

\* What a thread asks for.
Asked(t) ==
  \/ t.op = "write" /\ t.off \in FileOffs /\ t.val \in FileVals
  \/ t.op = "read" /\ t.off \in FileOffs
  \/ t.op = "size" /\ t.off = 0

\* Only the owner of the lock works, and it has flushed and moved the stream
\* to its own position before it reads or writes.
OwnerInv ==
  \A p \in FileProcs :
    LET t == file.th[p]
    IN  /\ t.at # "idle" <=> file.lock = p
        /\ t.at # "idle" => Asked(t)
        /\ t.at = "io" => /\ file.pend = <<>>
                          /\ file.pos = IF t.op = "size" THEN Len(file.disk) ELSE t.off

\* At most one write waits in memory.
Waits(pend) == pend = <<>> \/ \E w \in [off : FileOffs, val : Cells] : pend = <<w>>

PendInv == Waits(file.pend)

IInv == TypeInv /\ OwnerInv /\ PendInv

fvars == <<file, replied>>
-----------------------------------------------------------------------------
(***************************************************************************)
(* What a reader gets, when at most one write waits.                       *)
(***************************************************************************)
\* Nothing waits: the data of the file.
LEMMA FlushedNone ==
  ASSUME NEW f, f.pend = <<>>
  PROVE  /\ Flushed(f) = f.disk
         /\ {f.pend[i].off : i \in DOMAIN f.pend} = {}
<1> DEFINE g == [i \in 0 .. Len(f.pend) |-> f.disk]
<1>1. Len(f.pend) = 0
  OBVIOUS
<1>2. g = [i \in 0 .. Len(f.pend) |-> IF i = 0 THEN f.disk ELSE Put(g[i - 1], f.pend[i])]
  BY <1>1
<1>3. \A h : h = [i \in 0 .. Len(f.pend) |->
                    IF i = 0 THEN f.disk ELSE Put(h[i - 1], f.pend[i])]
             => h[Len(f.pend)] = f.disk
  BY <1>1
<1>4. Flushed(f) = f.disk
  BY <1>1, <1>2, <1>3 DEF Flushed
<1>5. {f.pend[i].off : i \in DOMAIN f.pend} = {}
  OBVIOUS
<1>. QED  BY <1>4, <1>5

\* One write waits: the data after it.
LEMMA FlushedOne ==
  ASSUME NEW f, NEW w, f.pend = <<w>>
  PROVE  /\ Flushed(f) = Put(f.disk, w)
         /\ {f.pend[i].off : i \in DOMAIN f.pend} = {w.off}
<1> DEFINE g == [i \in 0 .. Len(f.pend) |-> IF i = 0 THEN f.disk ELSE Put(f.disk, w)]
<1>1. Len(f.pend) = 1 /\ f.pend[1] = w /\ DOMAIN f.pend = {1}
  OBVIOUS
<1>2. g = [i \in 0 .. Len(f.pend) |-> IF i = 0 THEN f.disk ELSE Put(g[i - 1], f.pend[i])]
  BY <1>1
<1>3. \A h : h = [i \in 0 .. Len(f.pend) |->
                    IF i = 0 THEN f.disk ELSE Put(h[i - 1], f.pend[i])]
             => h[Len(f.pend)] = Put(f.disk, w)
  BY <1>1
<1>4. Flushed(f) = Put(f.disk, w)
  BY <1>1, <1>2, <1>3 DEF Flushed
<1>5. {f.pend[i].off : i \in DOMAIN f.pend} = {w.off}
  BY <1>1
<1>. QED  BY <1>4, <1>5

\* A write at a position is the one of PositionedFile.
LEMMA PutIsWriteAt ==
  ASSUME NEW d, NEW w
  PROVE  Put(d, w) = Positioned!WriteAt(d, w.off, w.val)
BY DEF Put, Positioned!WriteAt, Positioned!Hole

\* The file stays a sequence of cells.
LEMMA PutType ==
  ASSUME NEW d \in Seq(Cells), NEW w \in [off : FileOffs, val : Cells]
  PROVE  Put(d, w) \in Seq(Cells)
<1>1. w.off \in Nat /\ w.val \in Cells /\ 0 \in Cells
  BY FileAssumption DEF Cells
<1>2. PICK n \in Nat : n = IF Len(d) > w.off THEN Len(d) ELSE w.off + 1
  BY <1>1
<1>3. Put(d, w) \in [1 .. n -> Cells]
  BY <1>1, <1>2 DEF Put
<1>. QED  BY <1>2, <1>3

\* A first part that was written before makes no difference.
LEMMA PutTorn ==
  ASSUME NEW d \in Seq(Cells), NEW w \in [off : FileOffs, val : Cells],
         NEW v, v = [w EXCEPT !.val = TornCell]
  PROVE  Put(Put(d, v), w) = Put(d, w)
<1>1. w.off \in Nat /\ v.off = w.off
  BY FileAssumption
<1>2. PICK n \in Nat : n = IF Len(d) > w.off THEN Len(d) ELSE w.off + 1
  BY <1>1
<1>3. PICK e : e = Put(d, v)
  OBVIOUS
<1>4. /\ e = [i \in 1 .. n |->
                IF i = w.off + 1 THEN v.val ELSE IF i <= Len(d) THEN d[i] ELSE 0]
      /\ Len(e) = n
  BY <1>1, <1>2, <1>3 DEF Put
<1>5. w.off + 1 <= n /\ Len(d) <= n /\ Len(d) \in Nat
  BY <1>1, <1>2
<1>6. Put(e, w) = [i \in 1 .. n |->
                     IF i = w.off + 1 THEN w.val ELSE IF i <= n THEN e[i] ELSE 0]
  BY <1>1, <1>4, <1>5 DEF Put
<1>7. Put(d, w) = [i \in 1 .. n |->
                     IF i = w.off + 1 THEN w.val ELSE IF i <= Len(d) THEN d[i] ELSE 0]
  BY <1>2 DEF Put
<1>8. ASSUME NEW i \in 1 .. n
      PROVE  (IF i = w.off + 1 THEN w.val ELSE IF i <= n THEN e[i] ELSE 0)
             = IF i = w.off + 1 THEN w.val ELSE IF i <= Len(d) THEN d[i] ELSE 0
  BY <1>1, <1>2, <1>4, <1>5
<1>9. Put(e, w) = Put(d, w)
  BY <1>6, <1>7, <1>8
<1>. QED  BY <1>3, <1>9
-----------------------------------------------------------------------------
(***************************************************************************)
(* What the steps do to the stream.  A step changes one thread at most.    *)
(***************************************************************************)
\* A reader gets the data with the waiting write, if there is one.
LEMMA FlushedType ==
  ASSUME TypeInv, PendInv
  PROVE  Flushed(file) \in Seq(Cells)
<1>1. file.disk \in Seq(Cells)
  BY DEF TypeInv, FileType
<1>2. CASE file.pend = <<>>
  BY <1>1, <1>2, FlushedNone
<1>3. CASE \E w \in [off : FileOffs, val : Cells] : file.pend = <<w>>
  <2>1. PICK w \in [off : FileOffs, val : Cells] : file.pend = <<w>>
    BY <1>3
  <2>2. Flushed(file) = Put(file.disk, w)
    BY <2>1, FlushedOne
  <2>. QED  BY <1>1, <2>2, PutType
<1>. QED  BY <1>2, <1>3 DEF PendInv, Waits

\* The thread that is at work has the lock, and no other thread is at work.
LEMMA OneWorks ==
  ASSUME TypeInv, OwnerInv, NEW p \in FileProcs, file.th[p].at # "idle"
  PROVE  /\ file.lock = p /\ Asked(file.th[p]) /\ file.th[p] \in ThreadType
         /\ \A q \in FileProcs : q # p => file.th[q].at = "idle"
BY DEF TypeInv, FileType, OwnerInv

\* Go changes what its thread does, and nothing else.
LEMMA GoIs ==
  ASSUME TypeInv, NEW p \in FileProcs, NEW at
  PROVE  Go(file, p, at) =
           [disk |-> file.disk, pend |-> file.pend, pos |-> file.pos, open |-> file.open,
            lock |-> file.lock, th |-> [file.th EXCEPT ![p] = [@ EXCEPT !.at = at]],
            faults |-> file.faults]
<1>1. file \in FileType
  BY DEF TypeInv
<1>2. PICK th : th = [file.th EXCEPT ![p] = [@ EXCEPT !.at = at]]
  OBVIOUS
<1>3. Go(file, p, at) = [file EXCEPT !.th = th]
  BY <1>1, <1>2 DEF Go, FileType
<1>. QED  BY <1>1, <1>2, <1>3 DEF FileType

\* A step of p that does not end its call.
Moved(p, at, disk, pend, pos, faults) ==
  file' = [disk |-> disk, pend |-> pend, pos |-> pos, open |-> file.open,
           lock |-> file.lock, th |-> [file.th EXCEPT ![p] = [@ EXCEPT !.at = at]],
           faults |-> faults]

\* A step of the owner of the lock that leaves it the lock keeps the invariant.
LEMMA OwnerSteps ==
  ASSUME IInv, NEW p \in FileProcs, file.th[p].at # "idle",
         NEW at \in {"seek", "io", "unlock"}, NEW disk \in Seq(Cells),
         NEW pend, Waits(pend),
         NEW pos \in Nat, NEW faults \in Nat,
         at = "io" => /\ pend = <<>>
                      /\ pos = IF file.th[p].op = "size" THEN Len(disk) ELSE file.th[p].off,
         Moved(p, at, disk, pend, pos, faults)
  PROVE  IInv'
<1>1. /\ file \in FileType /\ file.lock = p /\ Asked(file.th[p])
      /\ file.th[p] \in ThreadType
      /\ \A q \in FileProcs : q # p => file.th[q].at = "idle"
  BY OneWorks DEF IInv, TypeInv
<1>2. PICK t : t = [file.th[p] EXCEPT !.at = at]
  OBVIOUS
<1>3. /\ t \in ThreadType /\ t.at = at /\ t.op = file.th[p].op /\ t.off = file.th[p].off
      /\ t.val = file.th[p].val
  BY <1>1, <1>2 DEF ThreadType
<1>4. PICK th : th = [file.th EXCEPT ![p] = t]
  OBVIOUS
<1>5. /\ th \in [FileProcs -> ThreadType] /\ th[p] = t
      /\ \A q \in FileProcs : q # p => th[q] = file.th[q]
  BY <1>1, <1>3, <1>4 DEF FileType
<1>6. file' = [disk |-> disk, pend |-> pend, pos |-> pos, open |-> file.open,
               lock |-> file.lock, th |-> th, faults |-> faults]
  BY <1>2, <1>4 DEF Moved
<1>7. /\ file'.disk = disk /\ file'.pend = pend /\ file'.pos = pos /\ file'.faults = faults
      /\ file'.open = file.open /\ file'.lock = file.lock /\ file'.th = th
  BY <1>6
<1>8. pend \in Seq([off : FileOffs, val : Cells])
  <2>1. CASE pend = <<>>
    BY <2>1
  <2>2. CASE \E w \in [off : FileOffs, val : Cells] : pend = <<w>>
    BY <2>2
  <2>. QED  BY <2>1, <2>2 DEF Waits
<1>9. TypeInv'
  BY <1>1, <1>5, <1>6, <1>8 DEF TypeInv, FileType
<1>10. OwnerInv'
  <2>. SUFFICES ASSUME NEW q \in FileProcs
                PROVE  LET t1 == file'.th[q]
                       IN  /\ t1.at # "idle" <=> file'.lock = q
                           /\ t1.at # "idle" => Asked(t1)
                           /\ t1.at = "io" =>
                                /\ file'.pend = <<>>
                                /\ file'.pos = IF t1.op = "size" THEN Len(file'.disk)
                                               ELSE t1.off
    BY DEF OwnerInv
  <2>1. CASE q = p
    BY <1>1, <1>3, <1>5, <1>7, <2>1 DEF Asked
  <2>2. CASE q # p
    BY <1>1, <1>5, <1>7, <2>2
  <2>. QED  BY <2>1, <2>2
<1>11. PendInv'
  BY <1>7 DEF PendInv
<1>. QED  BY <1>9, <1>10, <1>11 DEF IInv
-----------------------------------------------------------------------------
(***************************************************************************)
(* Every step of the code is a step of PositionedFile, or changes nothing  *)
(* it sees.                                                                *)
(***************************************************************************)
Risk == {file.pend[i].off : i \in DOMAIN file.pend}

\* What PositionedFile sees of the stream.
View == <<Flushed(file), file.disk, Risk, replied>>

\* The same data and the same pending write: the same view but for the answer.
LEMMA SameView ==
  ASSUME file'.disk = file.disk, file'.pend = file.pend
  PROVE  Flushed(file)' = Flushed(file) /\ Risk' = Risk
<1>1. Flushed(file') = Flushed(file)
  BY DEF Flushed
<1>2. {file'.pend[i].off : i \in DOMAIN file'.pend} = Risk
  BY DEF Risk
<1>. QED  BY <1>1, <1>2 DEF Risk

\* A call takes the lock.
LEMMA CallStep ==
  ASSUME IInv, NEW p \in FileProcs, NEW op \in {"read", "write", "size"},
         NEW off \in Nat, NEW val \in FileVals \cup {0}, Call(p, op, off, val),
         \/ op = "write" /\ off \in FileOffs /\ val \in FileVals
         \/ op = "read" /\ off \in FileOffs
         \/ op = "size" /\ off = 0
  PROVE  IInv' /\ UNCHANGED View
<1>1. PICK t : t = [at |-> "seek", op |-> op, off |-> off, val |-> val]
  OBVIOUS
<1>2. /\ t \in ThreadType /\ t.at = "seek" /\ Asked(t)
  BY <1>1 DEF ThreadType, Asked
<1>3. PICK th : th = [file.th EXCEPT ![p] = t]
  OBVIOUS
<1>4. file \in FileType
  BY DEF IInv, TypeInv
<1>5. /\ th \in [FileProcs -> ThreadType] /\ th[p] = t
      /\ \A q \in FileProcs : q # p => th[q] = file.th[q]
  BY <1>2, <1>3, <1>4 DEF FileType
<1>6. /\ file' = [file EXCEPT !.lock = p, !.th = th] /\ file.lock = NoOne
  BY <1>1, <1>3, <1>4 DEF Call, FileType
<1>7. /\ file'.disk = file.disk /\ file'.pend = file.pend /\ file'.lock = p
      /\ file'.th = th /\ file'.pos = file.pos
      /\ file' = [disk |-> file.disk, pend |-> file.pend, pos |-> file.pos,
                  open |-> file.open, lock |-> p, th |-> th, faults |-> file.faults]
  BY <1>4, <1>6 DEF FileType
<1>8. TypeInv'
  BY <1>4, <1>5, <1>7 DEF TypeInv, FileType
<1>9. \A q \in FileProcs : file.th[q].at = "idle" /\ q # NoOne
  BY <1>6, FileAssumption DEF IInv, OwnerInv
<1>10. OwnerInv'
  BY <1>2, <1>5, <1>7, <1>9 DEF OwnerInv
<1>11. PendInv'
  BY <1>7 DEF PendInv, IInv
<1>12. UNCHANGED replied
  BY DEF Call
<1>. QED  BY <1>7, <1>8, <1>10, <1>11, <1>12, SameView DEF View, IInv

\* The end of a call gives the lock back.
LEMMA UnlockStep ==
  ASSUME IInv, NEW p \in FileProcs, Unlock(p)
  PROVE  IInv' /\ UNCHANGED View
<1>1. PICK th : th = [file.th EXCEPT ![p] = Idle]
  OBVIOUS
<1>2. file \in FileType
  BY DEF IInv, TypeInv
<1>3. Idle \in ThreadType /\ Idle.at = "idle"
  BY DEF Idle, ThreadType
<1>4. /\ th \in [FileProcs -> ThreadType] /\ th[p] = Idle
      /\ \A q \in FileProcs : q # p => th[q] = file.th[q]
  BY <1>1, <1>2, <1>3 DEF FileType
<1>5. /\ file' = [file EXCEPT !.th = th, !.lock = NoOne]
  BY <1>1, <1>2 DEF Unlock, FileType
<1>6. /\ file'.disk = file.disk /\ file'.pend = file.pend /\ file'.lock = NoOne
      /\ file'.th = th /\ file'.pos = file.pos
      /\ file' = [disk |-> file.disk, pend |-> file.pend, pos |-> file.pos,
                  open |-> file.open, lock |-> NoOne, th |-> th, faults |-> file.faults]
  BY <1>2, <1>5 DEF FileType
<1>7. TypeInv'
  BY <1>2, <1>4, <1>6 DEF TypeInv, FileType
<1>8. \A q \in FileProcs : (q # p => file.th[q].at = "idle") /\ q # NoOne
  BY OneWorks, FileAssumption DEF Unlock, IInv
<1>9. OwnerInv'
  BY <1>3, <1>4, <1>6, <1>8 DEF OwnerInv
<1>10. PendInv'
  BY <1>6 DEF PendInv, IInv
<1>11. UNCHANGED replied
  BY DEF Unlock
<1>. QED  BY <1>6, <1>7, <1>9, <1>10, <1>11, SameView DEF View, IInv

\* The thread moves the stream, which first flushes it: Sync.
LEMMA SeekStep ==
  ASSUME IInv, NEW p \in FileProcs, Seek(p)
  PROVE  IInv' /\ Positioned!Sync
<1>1. /\ file \in FileType /\ TypeInv /\ Asked(file.th[p]) /\ file.th[p] \in ThreadType
      /\ file.th[p].at # "idle"
  BY OneWorks DEF IInv, TypeInv, Seek
<1>2. PICK disk \in Seq(Cells) : disk = Flushed(file)
  BY FlushedType DEF IInv
<1>3. PICK pos \in Nat :
        /\ pos = SeekTo(p)
        /\ pos = IF file.th[p].op = "size" THEN Len(disk) ELSE file.th[p].off
  BY <1>1, <1>2 DEF SeekTo, ThreadType
<1>4. PICK th : th = [file.th EXCEPT ![p] = [@ EXCEPT !.at = "io"]]
  OBVIOUS
<1>5. PICK g : g = Go(file, p, "io")
  OBVIOUS
<1>6. /\ g = [disk |-> file.disk, pend |-> file.pend, pos |-> file.pos, open |-> file.open,
              lock |-> file.lock, th |-> th, faults |-> file.faults]
      /\ file' = [g EXCEPT !.disk = disk, !.pend = <<>>, !.pos = pos]
  BY <1>1, <1>2, <1>3, <1>4, <1>5, GoIs DEF Seek
<1>7. /\ file' = [disk |-> disk, pend |-> <<>>, pos |-> pos, open |-> file.open,
                  lock |-> file.lock, th |-> th, faults |-> file.faults]
      /\ file'.disk = disk /\ file'.pend = <<>>
  BY <1>6
<1>8. file.faults \in Nat
  BY <1>1 DEF FileType
<1>9. Moved(p, "io", disk, <<>>, pos, file.faults)
  BY <1>4, <1>7 DEF Moved
<1>10. IInv'
  BY <1>1, <1>3, <1>8, <1>9, OwnerSteps DEF Waits
<1>11. Flushed(file)' = disk /\ Risk' = {}
  BY <1>7, FlushedNone DEF Risk
<1>. QED  BY <1>2, <1>7, <1>10, <1>11 DEF Positioned!Sync, Risk, Seek

\* An error is told to the thread that called.
LEMMA ErrorIsFailed ==
  ASSUME NEW p \in FileProcs, Asked(file.th[p]), Answer(p, "error", 0)
  PROVE  replied' \in Positioned!Failed
<1>1. PICK c : c = <<file.th[p].op, file.th[p].off>>
  OBVIOUS
<1>2. c \in Positioned!Calls
  BY <1>1 DEF Asked, Positioned!Calls
<1>3. replied' = Positioned!Ret(c, "error", 0)
  BY <1>1 DEF Answer, Positioned!Ret
<1>. QED  BY <1>2, <1>3 DEF Positioned!Failed

\* The flush of a seek fails: the pending write stays (Fail) or is lost (Lose).
LEMMA SeekFailsStep ==
  ASSUME IInv, NEW p \in FileProcs, SeekFails(p)
  PROVE  IInv' /\ (Positioned!Fail \/ Positioned!Lose)
<1>1. /\ file \in FileType /\ TypeInv /\ Asked(file.th[p]) /\ file.th[p].at # "idle"
  BY OneWorks DEF IInv, TypeInv, SeekFails
<1>2. PICK th : th = [file.th EXCEPT ![p] = [@ EXCEPT !.at = "unlock"]]
  OBVIOUS
<1>3. PICK g : g = Go(file, p, "unlock")
  OBVIOUS
<1>4. PICK rest \in {file.pend, <<>>} : file' = [g EXCEPT !.pend = rest, !.faults = @ + 1]
  BY <1>3 DEF SeekFails
<1>5. g = [disk |-> file.disk, pend |-> file.pend, pos |-> file.pos, open |-> file.open,
           lock |-> file.lock, th |-> th, faults |-> file.faults]
  BY <1>1, <1>2, <1>3, GoIs
<1>6. PICK faults \in Nat : faults = file.faults + 1
  BY <1>1 DEF FileType
<1>7. /\ file' = [disk |-> file.disk, pend |-> rest, pos |-> file.pos, open |-> file.open,
                  lock |-> file.lock, th |-> th, faults |-> faults]
      /\ file'.disk = file.disk /\ file'.pend = rest
  BY <1>4, <1>5, <1>6
<1>8. /\ Waits(rest)
      /\ file.disk \in Seq(Cells) /\ file.pos \in Nat
  BY <1>1, <1>4 DEF IInv, PendInv, Waits, FileType
<1>9. IInv'
  <2>1. Moved(p, "unlock", file.disk, rest, file.pos, faults)
    BY <1>2, <1>7 DEF Moved
  <2>. QED  BY <1>1, <1>8, <2>1, OwnerSteps
<1>10. replied' \in Positioned!Failed
  BY <1>1, ErrorIsFailed DEF SeekFails
<1>11. CASE rest = file.pend
  <2>1. Flushed(file)' = Flushed(file) /\ Risk' = Risk
    BY <1>7, <1>11, SameView
  <2>. QED  BY <1>7, <1>9, <1>10, <2>1 DEF Positioned!Fail, Risk
<1>12. CASE rest = <<>>
  <2>1. Flushed(file)' = file.disk /\ Risk' = {}
    BY <1>7, <1>12, FlushedNone DEF Risk
  <2>. QED  BY <1>7, <1>9, <1>10, <2>1 DEF Positioned!Lose, Risk
<1>. QED  BY <1>4, <1>11, <1>12

\* The data is taken, and waits alone, at the position that was asked for.
LEMMA WriteWaits ==
  ASSUME IInv, NEW p \in FileProcs, file.th[p].at = "io", file.th[p].op = "write",
         NEW v \in Cells, NEW n \in Nat,
         file' = [WriteHere(p, v) EXCEPT !.faults = n]
  PROVE  /\ IInv' /\ file.th[p].off \in FileOffs
         /\ Flushed(file)' = Positioned!WriteAt(Flushed(file), file.th[p].off, v)
         /\ file'.disk = Flushed(file) /\ Risk' = {file.th[p].off}
<1>1. /\ file \in FileType /\ TypeInv /\ Asked(file.th[p]) /\ file.th[p].at # "idle"
      /\ file.pend = <<>> /\ file.pos = file.th[p].off
  BY OneWorks DEF IInv, TypeInv, OwnerInv
<1>2. file.pos \in FileOffs /\ file.pos \in Nat
  BY <1>1, FileAssumption DEF Asked
<1>3. PICK w \in [off : FileOffs, val : Cells] : w = [off |-> file.pos, val |-> v]
  BY <1>2
<1>4. PICK th : th = [file.th EXCEPT ![p] = [@ EXCEPT !.at = "unlock"]]
  OBVIOUS
<1>5. PICK g : g = Go(file, p, "unlock")
  OBVIOUS
<1>6. g = [disk |-> file.disk, pend |-> <<>>, pos |-> file.pos, open |-> file.open,
           lock |-> file.lock, th |-> th, faults |-> file.faults]
  BY <1>1, <1>4, <1>5, GoIs
<1>7. PICK h : h = WriteHere(p, v)
  OBVIOUS
<1>8. h = [g EXCEPT !.pend = Append(@, w), !.pos = @ + 1]
  BY <1>3, <1>5, <1>7 DEF WriteHere
<1>9. PICK pend : pend = <<w>>
  OBVIOUS
<1>10. PICK pos \in Nat : pos = file.pos + 1
  BY <1>2
<1>11. Append(<<>>, w) = pend
  BY <1>9
<1>12. h = [disk |-> file.disk, pend |-> pend, pos |-> pos, open |-> file.open,
            lock |-> file.lock, th |-> th, faults |-> file.faults]
  BY <1>6, <1>8, <1>10, <1>11
<1>13. /\ file' = [disk |-> file.disk, pend |-> pend, pos |-> pos, open |-> file.open,
                   lock |-> file.lock, th |-> th, faults |-> n]
       /\ file'.disk = file.disk /\ file'.pend = <<w>>
  BY <1>7, <1>9, <1>12
<1>14. IInv'
  <2>1. Waits(pend)
    BY <1>3, <1>9 DEF Waits
  <2>2. file.disk \in Seq(Cells) /\ file.th[p].at # "idle"
    BY <1>1 DEF FileType
  <2>3. Moved(p, "unlock", file.disk, pend, pos, n)
    BY <1>4, <1>13 DEF Moved
  <2>. QED  BY <2>1, <2>2, <2>3, OwnerSteps
<1>15. Flushed(file) = file.disk
  BY <1>1, FlushedNone
<1>16. Flushed(file)' = Put(file.disk, w) /\ Risk' = {w.off}
  <2>1. file'.pend = <<w>>
    BY <1>13
  <2>2. Flushed(file') = Put(file'.disk, w)
    BY <2>1, FlushedOne
  <2>3. {file'.pend[i].off : i \in DOMAIN file'.pend} = {w.off}
    BY <2>1, FlushedOne
  <2>. QED  BY <1>13, <2>2, <2>3 DEF Risk
<1>17. w.off = file.th[p].off /\ w.val = v
  BY <1>1, <1>3
<1>. QED  BY <1>1, <1>2, <1>13, <1>14, <1>15, <1>16, <1>17, PutIsWriteAt

\* fwrite takes the cell.
LEMMA WriteStep ==
  ASSUME IInv, NEW p \in FileProcs, Write(p)
  PROVE  IInv' /\ \E o \in FileOffs, v \in FileVals : Positioned!Write(o, v)
<1>1. /\ file \in FileType /\ TypeInv /\ Asked(file.th[p])
      /\ file.th[p].at = "io" /\ file.th[p].op = "write"
  BY OneWorks DEF IInv, TypeInv, Write
<1>2. PICK v \in FileVals : v = file.th[p].val
  BY <1>1 DEF Asked
<1>3. v \in Cells /\ file.faults \in Nat
  BY <1>1 DEF Cells, FileType
<1>4. file' = [WriteHere(p, v) EXCEPT !.faults = file.faults]
  <2>1. PICK g : g = Go(file, p, "unlock")
    OBVIOUS
  <2>2. PICK th : th = [file.th EXCEPT ![p] = [@ EXCEPT !.at = "unlock"]]
    OBVIOUS
  <2>3. g = [disk |-> file.disk, pend |-> file.pend, pos |-> file.pos, open |-> file.open,
             lock |-> file.lock, th |-> th, faults |-> file.faults]
    BY <1>1, <2>1, <2>2, GoIs
  <2>4. PICK h : h = WriteHere(p, v)
    OBVIOUS
  <2>5. PICK pend, pos : /\ pend = Append(g.pend, [off |-> file.pos, val |-> v])
                         /\ pos = g.pos + 1
    OBVIOUS
  <2>6. h = [g EXCEPT !.pend = pend, !.pos = pos]
    BY <2>1, <2>4, <2>5 DEF WriteHere
  <2>7. h = [disk |-> file.disk, pend |-> pend, pos |-> pos, open |-> file.open,
             lock |-> file.lock, th |-> th, faults |-> file.faults]
    BY <2>3, <2>6
  <2>8. [h EXCEPT !.faults = file.faults] = h
    BY <2>7
  <2>. QED  BY <1>2, <2>4, <2>8 DEF Write
<1>5. PICK o \in FileOffs : o = file.th[p].off
  BY <1>1 DEF Asked
<1>6. /\ IInv' /\ Flushed(file)' = Positioned!WriteAt(Flushed(file), o, v)
      /\ file'.disk = Flushed(file) /\ Risk' = {o}
  BY <1>1, <1>3, <1>4, <1>5, WriteWaits
<1>7. replied' = Positioned!Ret(<<"write", o>>, "ok", 0)
  BY <1>1, <1>5 DEF Write, Answer, Positioned!Ret
<1>. QED  BY <1>6, <1>7 DEF Positioned!Write, Risk

\* fwrite takes a part of the cell, or all of it, and fails.
LEMMA WriteFailsStep ==
  ASSUME IInv, NEW p \in FileProcs, WriteFails(p)
  PROVE  IInv' /\ \E o \in FileOffs, v \in FileVals : Positioned!WriteFails(o, v)
<1>1. /\ file \in FileType /\ TypeInv /\ Asked(file.th[p])
      /\ file.th[p].at = "io" /\ file.th[p].op = "write"
  BY OneWorks DEF IInv, TypeInv, WriteFails
<1>2. PICK val \in FileVals : val = file.th[p].val
  BY <1>1 DEF Asked
<1>3. PICK v \in {val, TornCell} :
        file' = [WriteHere(p, v) EXCEPT !.faults = @ + 1]
  BY <1>2 DEF WriteFails
<1>4. v \in Cells
  BY DEF Cells
<1>5. PICK n \in Nat : n = WriteHere(p, v).faults + 1
  <2>1. PICK g : g = Go(file, p, "unlock")
    OBVIOUS
  <2>2. PICK th : th = [file.th EXCEPT ![p] = [@ EXCEPT !.at = "unlock"]]
    OBVIOUS
  <2>3. g = [disk |-> file.disk, pend |-> file.pend, pos |-> file.pos, open |-> file.open,
             lock |-> file.lock, th |-> th, faults |-> file.faults]
    BY <1>1, <2>1, <2>2, GoIs
  <2>. QED  BY <1>1, <2>1, <2>3 DEF WriteHere, FileType
<1>6. file' = [WriteHere(p, v) EXCEPT !.faults = n]
  BY <1>3, <1>5
<1>7. PICK o \in FileOffs : o = file.th[p].off
  BY <1>1 DEF Asked
<1>8. /\ IInv' /\ Flushed(file)' = Positioned!WriteAt(Flushed(file), o, v)
      /\ file'.disk = Flushed(file) /\ Risk' = {o}
  BY <1>1, <1>4, <1>6, <1>7, WriteWaits
<1>9. replied' = Positioned!Ret(<<"write", o>>, "error", 0)
  BY <1>1, <1>7 DEF WriteFails, Answer, Positioned!Ret
<1>. QED  BY <1>8, <1>9 DEF Positioned!WriteFails, Risk

\* A thread at its position finds there what the file holds: nothing waits.
LEMMA AtPosition ==
  ASSUME IInv, NEW p \in FileProcs, file.th[p].at = "io", NEW pos \in Nat,
         Moved(p, "unlock", file.disk, file.pend, pos, file.faults)
  PROVE  /\ IInv' /\ Flushed(file) = file.disk
         /\ file.pos = IF file.th[p].op = "size" THEN Len(file.disk) ELSE file.th[p].off
         /\ Flushed(file)' = Flushed(file) /\ file'.disk = file.disk /\ Risk' = Risk
<1>1. /\ file \in FileType /\ file.th[p].at # "idle" /\ file.pend = <<>>
      /\ file.pos = IF file.th[p].op = "size" THEN Len(file.disk) ELSE file.th[p].off
  BY DEF IInv, TypeInv, OwnerInv
<1>2. file.disk \in Seq(Cells) /\ file.faults \in Nat /\ Waits(file.pend)
  BY <1>1 DEF FileType, Waits
<1>3. IInv'
  BY <1>1, <1>2, OwnerSteps
<1>4. file'.disk = file.disk /\ file'.pend = file.pend
  BY DEF Moved
<1>. QED  BY <1>1, <1>3, <1>4, SameView, FlushedNone

\* fread returns the cell at the position of the caller.
LEMMA ReadStep ==
  ASSUME IInv, NEW p \in FileProcs, Read(p)
  PROVE  IInv' /\ \E o \in FileOffs : Positioned!Read(o)
<1>1. /\ file \in FileType /\ TypeInv /\ Asked(file.th[p])
      /\ file.th[p].at = "io" /\ file.th[p].op = "read"
  BY OneWorks DEF IInv, TypeInv, Read
<1>2. PICK o \in FileOffs : o = file.th[p].off
  BY <1>1 DEF Asked
<1>3. o \in Nat /\ file.pos \in Nat
  BY <1>1, FileAssumption DEF FileType
<1>4. PICK th : th = [file.th EXCEPT ![p] = [@ EXCEPT !.at = "unlock"]]
  OBVIOUS
<1>5. PICK g : g = Go(file, p, "unlock")
  OBVIOUS
<1>6. g = [disk |-> file.disk, pend |-> file.pend, pos |-> file.pos, open |-> file.open,
           lock |-> file.lock, th |-> th, faults |-> file.faults]
  BY <1>1, <1>4, <1>5, GoIs
<1>7. PICK pos \in Nat : pos = IF file.pos < Len(file.disk) THEN file.pos + 1 ELSE file.pos
  BY <1>3
<1>8. file' = [disk |-> file.disk, pend |-> file.pend, pos |-> pos, open |-> file.open,
               lock |-> file.lock, th |-> th, faults |-> file.faults]
  <2>1. CASE file.pos < Len(file.disk)
    BY <1>5, <1>6, <1>7, <2>1 DEF Read
  <2>2. CASE ~(file.pos < Len(file.disk))
    BY <1>5, <1>6, <1>7, <2>2 DEF Read
  <2>. QED  BY <2>1, <2>2
<1>9. Moved(p, "unlock", file.disk, file.pend, pos, file.faults)
  BY <1>4, <1>8 DEF Moved
<1>10. /\ IInv' /\ Flushed(file) = file.disk
       /\ file.pos = IF file.th[p].op = "size" THEN Len(file.disk) ELSE file.th[p].off
       /\ Flushed(file)' = Flushed(file) /\ file'.disk = file.disk /\ Risk' = Risk
  BY <1>1, <1>9, AtPosition
<1>11. file.pos = o
  BY <1>1, <1>2, <1>10
<1>12. replied' = Positioned!ReadAt(file.disk, o)
  BY <1>1, <1>2, <1>11 DEF Read, Answer, Positioned!ReadAt, Positioned!Ret
<1>. QED  BY <1>10, <1>12 DEF Positioned!Read, Risk

\* ftell returns the size of the file.
LEMMA TellStep ==
  ASSUME IInv, NEW p \in FileProcs, Tell(p)
  PROVE  IInv' /\ Positioned!Size
<1>1. /\ file \in FileType /\ TypeInv /\ Asked(file.th[p])
      /\ file.th[p].at = "io" /\ file.th[p].op = "size"
  BY OneWorks DEF IInv, TypeInv, Tell
<1>2. file.pos \in Nat /\ file.th[p].off = 0
  BY <1>1 DEF FileType, Asked
<1>3. PICK th : th = [file.th EXCEPT ![p] = [@ EXCEPT !.at = "unlock"]]
  OBVIOUS
<1>4. file' = [disk |-> file.disk, pend |-> file.pend, pos |-> file.pos, open |-> file.open,
               lock |-> file.lock, th |-> th, faults |-> file.faults]
  BY <1>1, <1>3, GoIs DEF Tell
<1>5. Moved(p, "unlock", file.disk, file.pend, file.pos, file.faults)
  BY <1>3, <1>4 DEF Moved
<1>6. /\ IInv' /\ Flushed(file) = file.disk
      /\ file.pos = IF file.th[p].op = "size" THEN Len(file.disk) ELSE file.th[p].off
      /\ Flushed(file)' = Flushed(file) /\ file'.disk = file.disk /\ Risk' = Risk
  BY <1>1, <1>2, <1>5, AtPosition
<1>7. replied' = Positioned!Ret(<<"size", 0>>, "ok", Len(file.disk))
  BY <1>1, <1>2, <1>6 DEF Tell, Answer, Positioned!Ret
<1>. QED  BY <1>6, <1>7 DEF Positioned!Size, Risk

\* The library writes the waiting cell, all of it or the first part: Sync.
LEMMA LibraryFlushStep ==
  ASSUME IInv, LibraryFlush
  PROVE  IInv' /\ Positioned!Sync
<1>1. /\ file \in FileType /\ file.disk \in Seq(Cells) /\ file.pend # <<>>
  BY DEF IInv, TypeInv, FileType, LibraryFlush
<1>2. PICK w \in [off : FileOffs, val : Cells] : file.pend = <<w>>
  BY <1>1 DEF IInv, PendInv, Waits
<1>3. \A p \in FileProcs : file.th[p].at # "io"
  BY <1>1 DEF IInv, OwnerInv
<1>4. Flushed(file) = Put(file.disk, w) /\ Risk = {w.off}
  BY <1>2, FlushedOne DEF Risk
<1>5. ASSUME NEW disk \in Seq(Cells), NEW pend \in {<<>>, file.pend},
             file' = [file EXCEPT !.disk = disk, !.pend = pend]
      PROVE  IInv' /\ file'.disk = disk /\ file'.pend = pend
  <2>1. /\ file' = [disk |-> disk, pend |-> pend, pos |-> file.pos, open |-> file.open,
                    lock |-> file.lock, th |-> file.th, faults |-> file.faults]
    BY <1>1, <1>5 DEF FileType
  <2>2. /\ file'.disk = disk /\ file'.pend = pend /\ file'.th = file.th
        /\ file'.lock = file.lock
    BY <2>1
  <2>3. pend \in Seq([off : FileOffs, val : Cells])
    <3>1. CASE pend = <<>>
      BY <3>1
    <3>2. CASE pend = file.pend
      BY <1>1, <3>2 DEF FileType
    <3>. QED  BY <3>1, <3>2
  <2>4. TypeInv'
    BY <1>1, <2>1, <2>3 DEF TypeInv, FileType
  <2>5. OwnerInv'
    BY <1>3, <2>2 DEF IInv, OwnerInv
  <2>6. PendInv'
    BY <1>5, <2>2 DEF IInv, PendInv, Waits
  <2>. QED  BY <2>2, <2>4, <2>5, <2>6 DEF IInv
<1>6. UNCHANGED replied
  BY DEF LibraryFlush
<1>7. CASE file' = [file EXCEPT !.disk = Flushed(file), !.pend = <<>>]
  <2>1. PICK disk \in Seq(Cells) : disk = Flushed(file)
    BY FlushedType DEF IInv
  <2>2. IInv' /\ file'.disk = disk /\ file'.pend = <<>>
    BY <1>5, <1>7, <2>1
  <2>3. Flushed(file)' = disk /\ Risk' = {}
    BY <2>2, FlushedNone DEF Risk
  <2>. QED  BY <1>6, <2>1, <2>2, <2>3 DEF Positioned!Sync, Risk
<1>8. CASE file' = [file EXCEPT !.disk = Put(@, [Head(file.pend) EXCEPT !.val = TornCell])]
  <2>1. PICK v \in [off : FileOffs, val : Cells] : v = [w EXCEPT !.val = TornCell]
    BY DEF Cells
  <2>2. Head(file.pend) = w
    BY <1>2
  <2>3. PICK disk \in Seq(Cells) : disk = Put(file.disk, v)
    BY <1>1, PutType
  <2>4. file' = [file EXCEPT !.disk = disk]
    BY <1>8, <2>1, <2>2, <2>3
  <2>5. file' = [file EXCEPT !.disk = disk, !.pend = file.pend]
    BY <1>1, <2>4 DEF FileType
  <2>6. IInv' /\ file'.disk = disk /\ file'.pend = file.pend
    BY <1>5, <2>5
  <2>7. Flushed(file)' = Put(disk, w) /\ Risk' = {w.off}
    <3>1. file'.pend = <<w>>
      BY <1>2, <2>6
    <3>2. Flushed(file') = Put(file'.disk, w)
      BY <3>1, FlushedOne
    <3>3. {file'.pend[i].off : i \in DOMAIN file'.pend} = {w.off}
      BY <3>1, FlushedOne
    <3>. QED  BY <2>6, <3>2, <3>3 DEF Risk
  <2>8. Flushed(file)' = Flushed(file)
    BY <1>1, <1>4, <2>1, <2>3, <2>7, PutTorn
  <2>9. disk = Positioned!WriteAt(file.disk, w.off, TornCell)
    BY <2>1, <2>3, PutIsWriteAt
  <2>. QED  BY <1>4, <1>6, <2>6, <2>7, <2>8, <2>9 DEF Positioned!Sync, Risk
<1>. QED  BY <1>7, <1>8 DEF LibraryFlush

\* The stream is closed, or the process dies: what waits is lost.
LEMMA ShutStep ==
  ASSUME IInv, CloseFile \/ Crash
  PROVE  IInv' /\ (Positioned!Lose \/ Positioned!Forget)
<1>1. PICK th : th = [p \in FileProcs |-> Idle]
  OBVIOUS
<1>2. /\ file \in FileType /\ Idle \in ThreadType /\ Idle.at = "idle"
      /\ file.disk \in Seq(Cells)
  BY DEF IInv, TypeInv, FileType, Idle, ThreadType
<1>3. /\ th \in [FileProcs -> ThreadType]
      /\ \A p \in FileProcs : th[p].at = "idle" /\ p # NoOne
  BY <1>1, <1>2, FileAssumption
<1>4. \E n \in Nat :
        file' = [disk |-> file.disk, pend |-> <<>>, pos |-> 0, open |-> FALSE,
                 lock |-> NoOne, th |-> th, faults |-> n]
  <2>1. CASE Crash
    <3>1. file' = [disk |-> file.disk, pend |-> <<>>, pos |-> 0, open |-> FALSE,
                   lock |-> NoOne, th |-> th, faults |-> file.faults]
      BY <1>1, <1>2, <2>1 DEF Crash, Closed, FileType
    <3>. QED  BY <1>2, <3>1 DEF FileType
  <2>2. CASE CloseFile
    <3>1. file.th = th
      BY <1>1, <2>2 DEF CloseFile
    <3>2. file.lock = NoOne
      BY <1>2, <1>3, <3>1 DEF IInv, OwnerInv, FileType
    <3>3. PICK n \in Nat : n = file.faults + 1
      BY <1>2 DEF FileType
    <3>4. CASE file.pend = <<>> /\ file' = Closed(file, Flushed(file))
      <4>1. Flushed(file) = file.disk
        BY <3>4, FlushedNone
      <4>2. file' = [disk |-> file.disk, pend |-> <<>>, pos |-> 0, open |-> FALSE,
                     lock |-> NoOne, th |-> th, faults |-> file.faults]
        BY <1>2, <3>1, <3>2, <3>4, <4>1 DEF Closed, FileType
      <4>. QED  BY <1>2, <4>2 DEF FileType
    <3>5. CASE file' = Closed([file EXCEPT !.faults = @ + 1], file.disk)
      <4>1. file' = [disk |-> file.disk, pend |-> <<>>, pos |-> 0, open |-> FALSE,
                     lock |-> NoOne, th |-> th, faults |-> n]
        BY <1>2, <3>1, <3>2, <3>3, <3>5 DEF Closed, FileType
      <4>. QED  BY <4>1
    <3>. QED  BY <2>2, <3>4, <3>5 DEF CloseFile
  <2>. QED  BY <2>1, <2>2
<1>5. PICK n \in Nat :
        file' = [disk |-> file.disk, pend |-> <<>>, pos |-> 0, open |-> FALSE,
                 lock |-> NoOne, th |-> th, faults |-> n]
  BY <1>4
<1>6. /\ file'.disk = file.disk /\ file'.pend = <<>> /\ file'.th = th
      /\ file'.lock = NoOne
  BY <1>5
<1>7. TypeInv'
  BY <1>2, <1>3, <1>5 DEF TypeInv, FileType
<1>8. OwnerInv' /\ PendInv'
  BY <1>3, <1>6 DEF OwnerInv, PendInv, Waits
<1>9. Flushed(file)' = file.disk /\ Risk' = {}
  BY <1>6, FlushedNone DEF Risk
<1>10. replied' = Positioned!Quiet
  BY DEF CloseFile, Crash, Quiet, Positioned!Quiet, Positioned!Ret
<1>. QED  BY <1>6, <1>7, <1>8, <1>9, <1>10 DEF IInv, Positioned!Lose, Risk

\* The stream is opened again.
LEMMA OpenStep ==
  ASSUME IInv, OpenFile
  PROVE  IInv' /\ Positioned!Forget
<1>1. file \in FileType
  BY DEF IInv, TypeInv
<1>2. file' = [disk |-> file.disk, pend |-> file.pend, pos |-> file.pos, open |-> TRUE,
               lock |-> file.lock, th |-> file.th, faults |-> file.faults]
  BY <1>1 DEF OpenFile, FileType
<1>3. /\ file'.disk = file.disk /\ file'.pend = file.pend /\ file'.th = file.th
      /\ file'.lock = file.lock /\ file'.pos = file.pos
  BY <1>2
<1>4. TypeInv'
  BY <1>1, <1>2 DEF TypeInv, FileType
<1>5. OwnerInv' /\ PendInv'
  BY <1>3 DEF IInv, OwnerInv, PendInv
<1>6. replied' = Positioned!Quiet
  BY DEF OpenFile, Quiet, Positioned!Quiet, Positioned!Ret
<1>. QED  BY <1>3, <1>4, <1>5, <1>6, SameView DEF IInv, Positioned!Forget, Risk
-----------------------------------------------------------------------------
\* At the start the file is empty and no thread is at work.
LEMMA InitFile ==
  ASSUME FileInit
  PROVE  IInv /\ Positioned!Init
<1>1. PICK th : th = [p \in FileProcs |-> Idle]
  OBVIOUS
<1>2. file = [disk |-> <<>>, pend |-> <<>>, pos |-> 0, open |-> TRUE, lock |-> NoOne,
              th |-> th, faults |-> 0]
  BY <1>1 DEF FileInit, NewFile
<1>3. /\ Idle \in ThreadType /\ Idle.at = "idle"
  BY DEF Idle, ThreadType
<1>4. /\ th \in [FileProcs -> ThreadType]
      /\ \A p \in FileProcs : th[p].at = "idle" /\ p # NoOne
  BY <1>1, <1>3, FileAssumption
<1>5. /\ file.disk = <<>> /\ file.pend = <<>> /\ file.th = th /\ file.lock = NoOne
  BY <1>2
<1>6. TypeInv
  BY <1>2, <1>4 DEF TypeInv, FileType
<1>7. OwnerInv /\ PendInv
  BY <1>4, <1>5 DEF OwnerInv, PendInv, Waits
<1>8. Flushed(file) = <<>> /\ Risk = {}
  BY <1>5, FlushedNone DEF Risk
<1>9. replied = Positioned!Quiet
  BY DEF FileInit, Quiet, Positioned!Quiet, Positioned!Ret
<1>. QED  BY <1>5, <1>6, <1>7, <1>8, <1>9 DEF IInv, Positioned!Init, Risk

\* Every step keeps the invariant and is one of PositionedFile, or a stutter.
LEMMA StepFile ==
  ASSUME IInv, [FileNext]_fvars
  PROVE  IInv' /\ [Positioned!Next]_View
<1>1. ASSUME NEW p \in FileProcs,
             \/ Call(p, "size", 0, 0)
             \/ \E o \in FileOffs : \/ Call(p, "read", o, 0)
                                   \/ \E v \in FileVals : Call(p, "write", o, v)
      PROVE  IInv' /\ UNCHANGED View
  <2>1. CASE Call(p, "size", 0, 0)
    BY <2>1, CallStep
  <2>2. ASSUME NEW o \in FileOffs, Call(p, "read", o, 0)
        PROVE  IInv' /\ UNCHANGED View
    BY <2>2, CallStep, FileAssumption
  <2>3. ASSUME NEW o \in FileOffs, NEW v \in FileVals, Call(p, "write", o, v)
        PROVE  IInv' /\ UNCHANGED View
    BY <2>3, CallStep, FileAssumption
  <2>. QED  BY <1>1, <2>1, <2>2, <2>3
<1>2. ASSUME NEW p \in FileProcs, Seek(p)
      PROVE  IInv' /\ Positioned!Next
  BY <1>2, SeekStep DEF Positioned!Next
<1>3. ASSUME NEW p \in FileProcs, SeekFails(p)
      PROVE  IInv' /\ Positioned!Next
  BY <1>3, SeekFailsStep DEF Positioned!Next
<1>4. ASSUME NEW p \in FileProcs, Write(p)
      PROVE  IInv' /\ Positioned!Next
  BY <1>4, WriteStep DEF Positioned!Next
<1>5. ASSUME NEW p \in FileProcs, WriteFails(p)
      PROVE  IInv' /\ Positioned!Next
  BY <1>5, WriteFailsStep DEF Positioned!Next
<1>6. ASSUME NEW p \in FileProcs, Read(p)
      PROVE  IInv' /\ Positioned!Next
  BY <1>6, ReadStep DEF Positioned!Next
<1>7. ASSUME NEW p \in FileProcs, Tell(p)
      PROVE  IInv' /\ Positioned!Next
  BY <1>7, TellStep DEF Positioned!Next
<1>8. ASSUME NEW p \in FileProcs, Unlock(p)
      PROVE  IInv' /\ UNCHANGED View
  BY <1>8, UnlockStep
<1>9. CASE LibraryFlush
  BY <1>9, LibraryFlushStep DEF Positioned!Next
<1>10. CASE CloseFile \/ Crash
  BY <1>10, ShutStep DEF Positioned!Next
<1>11. CASE OpenFile
  BY <1>11, OpenStep DEF Positioned!Next
<1>12. CASE UNCHANGED fvars
  <2>1. file' = file /\ replied' = replied
    BY <1>12 DEF fvars
  <2>2. IInv'
    BY <2>1 DEF IInv, TypeInv, OwnerInv, PendInv
  <2>. QED  BY <2>1, <2>2, SameView DEF View
<1>. QED  BY <1>1, <1>2, <1>3, <1>4, <1>5, <1>6, <1>7, <1>8, <1>9, <1>10, <1>11, <1>12
          DEF FileNext

\* os_file_pread, os_file_pwrite and os_file_get_size of any number of threads:
\* each call works at its own position, a reader gets what was written last, and
\* a failing flush, an ignored failing close or a crash undoes at most the last
\* write, whoever is told.
THEOREM FileSpecImplementsFile ==
  FileInit /\ [][FileNext]_fvars => ImplementsFile
<1>1. FileInit => IInv /\ Positioned!Init
  BY InitFile
<1>2. IInv /\ [FileNext]_fvars => IInv' /\ [Positioned!Next]_View
  BY StepFile
<1>. QED  BY <1>1, <1>2, PTL DEF ImplementsFile, Positioned!Spec, View, Risk

\* Whatever fails, one thread works at a time, it has flushed and moved the
\* stream before it reads or writes, and at most one write waits in memory.
THEOREM FileSpecIInv ==
  FileInit /\ [][FileNext]_fvars => []IInv
<1>1. FileInit => IInv
  BY InitFile
<1>2. IInv /\ [FileNext]_fvars => IInv'
  BY StepFile
<1>. QED  BY <1>1, <1>2, PTL

-----------------------------------------------------------------------------
(***************************************************************************)
(* The log.                                                                *)
(***************************************************************************)
Places == {"idle", "append", "check", "backup", "reopen"}

LogType ==
  [hnd : BOOLEAN, total_lines : Nat, lock : Writers \cup {NobodyLogs},
   up : BOOLEAN, at : [Writers -> Places], cur : Seq(Nat),
   bak : [0 .. Seconds -> Seq(Nat)], renamed : SUBSET (0 .. Seconds),
   now : 0 .. Seconds, traced : Nat, doubled : BOOLEAN, faults : Nat]

\* Every field of the log has its type.
LogTypeInv == log \in LogType

\* Only the writer that renames the file holds the lock from one step to the
\* next, and meanwhile the file is not open.  Nobody traces after LOG_SYSTEM_EXIT.
LockInv ==
  /\ \A w \in Writers : log.at[w] = "reopen" <=> log.lock = w
  /\ log.lock # NobodyLogs => ~log.hnd
  /\ ~log.up => \A w \in Writers : log.at[w] = "idle"

LogIInv == LogTypeInv /\ LockInv /\ LogBounded
-----------------------------------------------------------------------------
\* Writers between a line that they wrote and the end of their log_trace.
Checking(at) == {w \in Writers : at[w] \in {"check", "backup"}}

\* LogBounded with the parts of the log as arguments.
Within(hnd, lines, cur, at) ==
  hnd => lines = Len(cur) /\ lines <= MaxFileLines + Cardinality(Checking(at))

\* How the number of these writers changes when one of them takes a step.
LEMMA CheckingStep ==
  ASSUME NEW at \in [Writers -> Places], NEW w \in Writers, NEW p \in Places,
         NEW at2, at2 = [at EXCEPT ![w] = p]
  PROVE  /\ Cardinality(Checking(at)) \in Nat /\ Cardinality(Checking(at2)) \in Nat
         /\ (w \in Checking(at) <=> p \in {"check", "backup"}) =>
              Cardinality(Checking(at2)) = Cardinality(Checking(at))
         /\ w \notin Checking(at) /\ p \in {"check", "backup"} =>
              Cardinality(Checking(at2)) = Cardinality(Checking(at)) + 1
<1>1. IsFiniteSet(Checking(at)) /\ IsFiniteSet(Checking(at2))
  <2>1. Checking(at) \subseteq Writers /\ Checking(at2) \subseteq Writers
    BY DEF Checking
  <2>. QED  BY <2>1, LogAssumption, FS_Subset
<1>2. Cardinality(Checking(at)) \in Nat /\ Cardinality(Checking(at2)) \in Nat
  BY <1>1, FS_CardinalityType
<1>3. ASSUME w \in Checking(at) <=> p \in {"check", "backup"}
      PROVE  Checking(at2) = Checking(at)
  BY <1>3 DEF Checking
<1>4. ASSUME w \notin Checking(at), p \in {"check", "backup"}
      PROVE  Cardinality(Checking(at2)) = Cardinality(Checking(at)) + 1
  <2>1. Checking(at2) = Checking(at) \cup {w}
    BY <1>4 DEF Checking
  <2>. QED  BY <2>1, <1>1, <1>4, FS_AddElement
<1>. QED  BY <1>2, <1>3, <1>4

\* The invariant says that Within holds.
LEMMA BoundedWithin == LogBounded <=> Within(log.hnd, log.total_lines, log.cur, log.at)
BY DEF LogBounded, Within, Checking
-----------------------------------------------------------------------------
\* An empty log, and every writer idle.
LEMMA LogInitInv == LogInit => LogIInv
<1>. SUFFICES ASSUME LogInit PROVE LogIInv
  OBVIOUS
<1>1. /\ log.hnd = TRUE /\ log.total_lines = 0 /\ log.lock = NobodyLogs
      /\ log.at = [w \in Writers |-> "idle"] /\ log.cur = <<>>
  BY DEF LogInit, NewLog
<1>2. LogTypeInv
  <2>1. 0 \in 0 .. Seconds /\ <<>> \in Seq(Nat)
    BY LogAssumption
  <2>. QED  BY <2>1 DEF LogInit, NewLog, LogTypeInv, LogType, Places
<1>3. LockInv
  BY <1>1, LogAssumption DEF LockInv
<1>4. LogBounded
  <2>1. Checking(log.at) = {} /\ Len(log.cur) = 0
    BY <1>1 DEF Checking
  <2>2. Cardinality(Checking(log.at)) = 0
    BY <2>1, FS_EmptySet
  <2>. QED  BY <1>1, <2>1, <2>2, LogAssumption, BoundedWithin DEF Within
<1>. QED  BY <1>2, <1>3, <1>4 DEF LogIInv

\* A writer that does not hold the lock goes on, the log stays as it is.
LEMMA StepInv ==
  ASSUME LogIInv, NEW w \in Writers, NEW p \in Places, p # "reopen", log.lock # w, log.up,
         w \in Checking(log.at) /\ p \notin {"check", "backup"} /\ log.hnd =>
           log.total_lines <= MaxFileLines,
         log' = Step(w, p)
  PROVE  LogIInv'
<1>1. /\ log'.at = [log.at EXCEPT ![w] = p]
      /\ log'.hnd = log.hnd /\ log'.total_lines = log.total_lines
      /\ log'.lock = log.lock /\ log'.cur = log.cur /\ log'.up = log.up
  BY DEF LogIInv, LogTypeInv, LogType, Step
<1>2. LogTypeInv'
  BY DEF LogIInv, LogTypeInv, LogType, Step
<1>3. LockInv'
  BY <1>1 DEF LogIInv, LogTypeInv, LogType, LockInv
<1>4. LogBounded'
  <2>1. Within(log'.hnd, log'.total_lines, log'.cur, log'.at)
    <3>. SUFFICES ASSUME log.hnd
                  PROVE  log.total_lines <= MaxFileLines + Cardinality(Checking(log'.at))
      BY <1>1, BoundedWithin DEF LogIInv, Within
    <3> DEFINE n == Cardinality(Checking(log.at))
               k == Cardinality(Checking(log'.at))
    <3>1. log.at \in [Writers -> Places] /\ log.total_lines \in Nat /\ MaxFileLines \in Nat
      BY LogAssumption DEF LogIInv, LogTypeInv, LogType
    <3>2. /\ n \in Nat /\ k \in Nat
          /\ k < n => w \in Checking(log.at) /\ p \notin {"check", "backup"}
      BY <1>1, <3>1, CheckingStep
    <3>3. log.total_lines <= MaxFileLines + n
      BY BoundedWithin DEF LogIInv, Within
    <3>. HIDE DEF n, k
    <3>4. k < n => log.total_lines <= MaxFileLines
      BY <3>2
    <3>. QED  BY <3>1, <3>2, <3>3, <3>4 DEF k
  <2>2. (LogBounded <=> Within(log.hnd, log.total_lines, log.cur, log.at))'
    BY BoundedWithin, PTL
  <2>. QED  BY <2>1, <2>2
<1>. QED  BY <1>2, <1>3, <1>4 DEF LogIInv

\* A line is counted and its writer with it.
LEMMA AppendInv ==
  ASSUME LogIInv, NEW w \in Writers, AppendLine(w)
  PROVE  LogIInv'
<1>1. log.at[w] = "append" /\ log.lock = NobodyLogs /\ log.up
  BY DEF AppendLine, LogIInv, LockInv
<1>2. CASE ~log.hnd
  <2>1. log' = Step(w, "check")
    BY <1>2 DEF AppendLine
  <2>. QED  BY <2>1, <1>1, <1>2, StepInv, LogAssumption DEF Places
<1>3. CASE log.hnd
  <2>1. /\ log'.at = [log.at EXCEPT ![w] = "check"]
        /\ log'.hnd = log.hnd /\ log'.total_lines = log.total_lines + 1
        /\ log'.lock = log.lock /\ log'.cur = Append(log.cur, log.traced + 1)
        /\ log'.up = log.up
    BY <1>3 DEF LogIInv, LogTypeInv, LogType, AppendLine, Step
  <2>2. log' \in LogType
    <3>1. PICK cur : cur = Append(log.cur, log.traced + 1)
      OBVIOUS
    <3>2. cur \in Seq(Nat)
      BY <3>1 DEF LogIInv, LogTypeInv, LogType
    <3>3. log' = [Step(w, "check") EXCEPT !.cur = cur, !.total_lines = log.total_lines + 1,
                    !.traced = log.traced + 1]
      BY <3>1, <1>3 DEF LogIInv, LogTypeInv, LogType, AppendLine, Step
    <3>4. PICK l : l = Step(w, "check")
      OBVIOUS
    <3>5. l \in LogType
      BY <3>4 DEF LogIInv, LogTypeInv, LogType, Step, Places
    <3>6. log.total_lines + 1 \in Nat /\ log.traced + 1 \in Nat
      BY DEF LogIInv, LogTypeInv, LogType
    <3>7. log' = [l EXCEPT !.cur = cur, !.total_lines = log.total_lines + 1,
                    !.traced = log.traced + 1]
      BY <3>3, <3>4
    <3>. QED  BY <3>2, <3>5, <3>6, <3>7 DEF LogType
  <2>3. LockInv'
    BY <2>1, <1>1 DEF LogIInv, LogTypeInv, LogType, LockInv
  <2>4. Within(log'.hnd, log'.total_lines, log'.cur, log'.at)
    <3> DEFINE n == Cardinality(Checking(log.at))
               k == Cardinality(Checking(log'.at))
    <3>1. log.at \in [Writers -> Places] /\ log.total_lines \in Nat /\ MaxFileLines \in Nat
      BY LogAssumption DEF LogIInv, LogTypeInv, LogType
    <3>2. n \in Nat /\ k = n + 1
      <4>1. w \notin Checking(log.at) /\ "check" \in Places
        BY <1>1 DEF Checking, Places
      <4>. QED  BY <4>1, <2>1, <3>1, CheckingStep
    <3>3. log.total_lines = Len(log.cur) /\ log.total_lines <= MaxFileLines + n
      BY <1>3, BoundedWithin DEF LogIInv, Within
    <3>4. Len(log'.cur) = Len(log.cur) + 1
      BY <2>1 DEF LogIInv, LogTypeInv, LogType
    <3>. HIDE DEF n, k
    <3>5. log'.total_lines = Len(log'.cur) /\ log'.total_lines <= MaxFileLines + k
      BY <2>1, <3>1, <3>2, <3>3, <3>4
    <3>. QED  BY <3>5 DEF Within, k
  <2>5. (LogBounded <=> Within(log.hnd, log.total_lines, log.cur, log.at))'
    BY BoundedWithin, PTL
  <2>. QED  BY <2>2, <2>3, <2>4, <2>5 DEF LogIInv, LogTypeInv
<1>. QED  BY <1>2, <1>3

\* The rename changes the files and nothing else.
LEMMA RenameFacts ==
  ASSUME NEW l \in LogType, NEW ok \in BOOLEAN
  PROVE  /\ RenameFile(l, ok) \in LogType
         /\ RenameFile(l, ok).hnd = l.hnd /\ RenameFile(l, ok).lock = l.lock
         /\ RenameFile(l, ok).at = l.at /\ RenameFile(l, ok).up = l.up
         /\ ok => RenameFile(l, ok).cur = <<>>
<1>1. l.now \in 0 .. Seconds /\ l.renamed \cup {l.now} \in SUBSET (0 .. Seconds)
  BY DEF LogType
<1>2. <<>> \in Seq(Nat)
  OBVIOUS
<1>3. (l.doubled \/ l.now \in l.renamed) \in BOOLEAN
  BY DEF LogType
<1>4. PICK bak, cur, n, d :
        /\ bak = [l.bak EXCEPT ![l.now] = IF ok THEN l.cur ELSE <<>>]
        /\ cur = IF ok THEN <<>> ELSE l.cur
        /\ n = IF ok THEN l.faults ELSE l.faults + 1
        /\ d = (l.doubled \/ l.now \in l.renamed)
  OBVIOUS
<1>5. /\ bak \in [0 .. Seconds -> Seq(Nat)] /\ cur \in Seq(Nat) /\ n \in Nat
  BY <1>1, <1>2, <1>4 DEF LogType
<1>6. RenameFile(l, ok) = [l EXCEPT !.bak = bak, !.cur = cur,
                             !.renamed = l.renamed \cup {l.now}, !.doubled = d, !.faults = n]
  BY <1>4 DEF LogType, RenameFile
<1>. QED  BY ZenonT(40), <1>1, <1>3, <1>4, <1>5, <1>6 DEF LogType

\* A log whose file is not open, or is empty, is within the bound.
LEMMA EmptyBounded ==
  ASSUME log'.hnd => log'.total_lines = 0 /\ log'.cur = <<>>
  PROVE  LogBounded'
<1>1. Cardinality(Checking(log'.at)) \in Nat
  <2>1. IsFiniteSet(Checking(log'.at))
    <3>1. Checking(log'.at) \subseteq Writers
      BY DEF Checking
    <3>. QED  BY <3>1, LogAssumption, FS_Subset
  <2>. QED  BY <2>1, FS_CardinalityType
<1>2. Within(log'.hnd, log'.total_lines, log'.cur, log'.at)
  BY <1>1, LogAssumption DEF Within
<1>3. (LogBounded <=> Within(log.hnd, log.total_lines, log.cur, log.at))'
  BY BoundedWithin, PTL
<1>. QED  BY <1>2, <1>3

\* The file is renamed: nobody else is about to open a new one.
LEMMA BackupInv ==
  ASSUME LogIInv, NEW w \in Writers, Backup(w)
  PROVE  LogIInv'
<1>1. log.at[w] = "backup" /\ log.lock = NobodyLogs /\ log.up /\ log \in LogType
  BY DEF Backup, LogIInv, LockInv, LogTypeInv
<1>2. PICK ok \in BOOLEAN :
        log' = [RenameFile(Step(w, "reopen"), ok) EXCEPT !.lock = w, !.hnd = FALSE]
  BY DEF Backup
<1>3. PICK l : l = Step(w, "reopen")
  OBVIOUS
<1>4. l \in LogType /\ l.at = [log.at EXCEPT ![w] = "reopen"] /\ l.up = log.up
  BY <1>1, <1>3 DEF LogType, Step, Places
<1>5. PICK r : r = RenameFile(l, ok)
  OBVIOUS
<1>6. r \in LogType /\ r.at = l.at /\ r.up = l.up
  BY <1>4, <1>5, RenameFacts
<1>7. log' = [r EXCEPT !.lock = w, !.hnd = FALSE]
  BY <1>2, <1>3, <1>5
<1>8. /\ log' \in LogType /\ log'.at = [log.at EXCEPT ![w] = "reopen"]
      /\ log'.lock = w /\ log'.hnd = FALSE /\ log'.up = log.up
  BY <1>4, <1>6, <1>7 DEF LogType
<1>9. LockInv'
  <2>1. \A x \in Writers : log.at[x] # "reopen"
    BY <1>1, LogAssumption DEF LogIInv, LockInv
  <2>2. \A x \in Writers : log'.at[x] = "reopen" <=> x = w
    BY <2>1, <1>1, <1>8 DEF LogType
  <2>. QED  BY <2>2, <1>1, <1>8 DEF LockInv
<1>. QED  BY <1>8, <1>9, EmptyBounded DEF LogIInv, LogTypeInv

\* The new file is empty, or there is none.
LEMMA ReopenInv ==
  ASSUME LogIInv, NEW w \in Writers, Reopen(w)
  PROVE  LogIInv'
<1>1. log.at[w] = "reopen" /\ log.lock = w /\ log.up /\ log \in LogType
  BY DEF Reopen, LogIInv, LockInv, LogTypeInv
<1>2. PICK ok \in BOOLEAN :
        log' = [Step(w, "idle") EXCEPT !.hnd = ok, !.cur = IF ok THEN <<>> ELSE @,
                    !.total_lines = 0, !.lock = NobodyLogs,
                    !.faults = IF ok THEN @ ELSE @ + 1]
  BY DEF Reopen
<1>3. /\ log'.at = [log.at EXCEPT ![w] = "idle"] /\ log'.lock = NobodyLogs
      /\ log'.hnd = ok /\ log'.total_lines = 0 /\ log'.up = log.up
      /\ ok => log'.cur = <<>>
  BY <1>1, <1>2 DEF Step, LogType
<1>4. log' \in LogType
  <2>1. <<>> \in Seq(Nat)
    OBVIOUS
  <2>2. PICK cur : cur = IF ok THEN <<>> ELSE log.cur
    OBVIOUS
  <2>3. PICK n : n = IF ok THEN log.faults ELSE log.faults + 1
    OBVIOUS
  <2>4. cur \in Seq(Nat) /\ n \in Nat
    BY <2>1, <2>2, <2>3, <1>1 DEF LogType
  <2>5. log' = [Step(w, "idle") EXCEPT !.hnd = ok, !.cur = cur, !.total_lines = 0,
                  !.lock = NobodyLogs, !.faults = n]
    BY <1>1, <1>2, <2>2, <2>3 DEF Step, LogType
  <2>. QED  BY <2>4, <2>5, <1>1 DEF Step, LogType, Places
<1>5. LockInv'
  BY <1>1, <1>3, LogAssumption DEF LogIInv, LockInv, LogType
<1>. QED  BY <1>3, <1>4, <1>5, EmptyBounded DEF LogIInv, LogTypeInv

\* LOG_SYSTEM_EXIT and LOG_SYSTEM_INIT.
LEMMA CloseOpenInv ==
  ASSUME LogIInv, log_close \/ log_open
  PROVE  LogIInv'
<1>1. log \in LogType
  BY DEF LogIInv, LogTypeInv
<1>2. CASE log_close
  <2>1. /\ log' \in LogType /\ log'.at = log.at /\ log'.lock = log.lock
        /\ log'.hnd = FALSE
    BY <1>1, <1>2 DEF log_close, LogType
  <2>2. LockInv'
    BY <2>1, <1>2 DEF LogIInv, LockInv, log_close
  <2>. QED  BY <2>1, <2>2, EmptyBounded DEF LogIInv, LogTypeInv
<1>3. CASE log_open
  <2>1. PICK renamed \in BOOLEAN, opened \in BOOLEAN :
           log' = [RenameFile(log, renamed) EXCEPT
                     !.hnd = opened, !.up = opened, !.total_lines = 0,
                     !.cur = IF opened THEN <<>> ELSE @,
                     !.faults = IF opened THEN @ ELSE @ + 1]
    BY <1>3 DEF log_open
  <2>2. PICK r : r = RenameFile(log, renamed)
    OBVIOUS
  <2>3. r \in LogType /\ r.at = log.at /\ r.lock = log.lock
    BY <1>1, <2>2, RenameFacts
  <2>4. PICK c, n : /\ c = IF opened THEN <<>> ELSE r.cur
                    /\ n = IF opened THEN r.faults ELSE r.faults + 1
    OBVIOUS
  <2>5. c \in Seq(Nat) /\ n \in Nat
    BY <2>3, <2>4 DEF LogType
  <2>6. log' = [r EXCEPT !.hnd = opened, !.up = opened, !.total_lines = 0,
                         !.cur = c, !.faults = n]
    BY <2>1, <2>2, <2>4
  <2>7. /\ log' \in LogType /\ log'.at = log.at /\ log'.lock = log.lock
        /\ log'.hnd = opened /\ log'.up = opened /\ log'.total_lines = 0
        /\ opened => log'.cur = <<>>
    BY <2>3, <2>4, <2>5, <2>6 DEF LogType
  <2>8. log.lock = NobodyLogs /\ \A w \in Writers : log.at[w] = "idle"
    BY <1>1, <1>3 DEF log_open, LogIInv, LockInv, LogType
  <2>9. LockInv'
    BY <2>7, <2>8 DEF LogIInv, LockInv
  <2>. QED  BY <2>7, <2>9, EmptyBounded DEF LogIInv, LogTypeInv
<1>. QED  BY <1>2, <1>3

\* Every step keeps the invariant.
LEMMA LogNextInv == LogIInv /\ [LogNext]_log => LogIInv'
<1>. SUFFICES ASSUME LogIInv, [LogNext]_log
              PROVE  LogIInv'
  OBVIOUS
<1>1. ASSUME NEW w \in Writers, TraceCall(w)
      PROVE  LogIInv'
  <2>1. log.up /\ log.at[w] = "idle" /\ log.lock # w /\ log' = Step(w, "append")
    BY <1>1 DEF TraceCall, LogIInv, LockInv
  <2>. QED  BY <2>1, StepInv DEF Places, Checking
<1>2. ASSUME NEW w \in Writers, CheckLines(w)
      PROVE  LogIInv'
  <2>1. log.up /\ log.at[w] = "check" /\ log.lock # w
    BY <1>2 DEF CheckLines, LogIInv, LockInv
  <2>2. CASE log.total_lines > MaxFileLines
    <3>1. log' = Step(w, "backup")
      BY <1>2, <2>2 DEF CheckLines
    <3>. QED  BY <2>1, <3>1, StepInv DEF Places
  <2>3. CASE ~(log.total_lines > MaxFileLines)
    <3>1. log' = Step(w, "idle")
      BY <1>2, <2>3 DEF CheckLines
    <3>2. log.total_lines <= MaxFileLines
      BY <2>3, LogAssumption DEF LogIInv, LogTypeInv, LogType
    <3>. QED  BY <2>1, <3>1, <3>2, StepInv DEF Places
  <2>. QED  BY <2>2, <2>3
<1>3. CASE Tick
  <2>1. /\ log'.at = log.at /\ log'.lock = log.lock /\ log'.hnd = log.hnd
        /\ log'.up = log.up /\ log'.total_lines = log.total_lines /\ log'.cur = log.cur
    BY <1>3 DEF Tick, LogIInv, LogTypeInv, LogType
  <2>2. log' \in LogType
    <3>1. log.now + 1 \in 0 .. Seconds
      BY <1>3, LogAssumption DEF Tick, LogIInv, LogTypeInv, LogType
    <3>. QED  BY <3>1, <1>3 DEF Tick, LogIInv, LogTypeInv, LogType
  <2>. QED  BY <2>1, <2>2 DEF LogIInv, LogTypeInv, LockInv, LogBounded
<1>4. CASE log' = log
  BY <1>4 DEF LogIInv, LogTypeInv, LockInv, LogBounded
<1>. QED  BY <1>1, <1>2, <1>3, <1>4, AppendInv, BackupInv, ReopenInv, CloseOpenInv
          DEF LogNext
-----------------------------------------------------------------------------
(***************************************************************************)
(* The lines in the files, as a function of the names.                     *)
(***************************************************************************)
Files(l) == [f \in FileNames |-> IF f = Seconds + 1 THEN l.cur ELSE l.bak[f]]

Ordered(F, t) ==
  /\ F \in [FileNames -> Seq(Nat)]
  /\ \A f \in FileNames : \A i \in DOMAIN F[f] : F[f][i] \in 1 .. t
  /\ \A n \in 1 .. t : \E f \in FileNames : \E i \in DOMAIN F[f] : F[f][i] = n
  /\ \A f, g \in FileNames : \A i \in DOMAIN F[f], j \in DOMAIN F[g] :
       f < g \/ (f = g /\ i < j) => F[f][i] < F[g][j]

\* The next line goes to the end of the last file.
LEMMA OrderedAppend ==
  ASSUME NEW F, NEW t \in Nat, Ordered(F, t),
         NEW F2 \in [FileNames -> Seq(Nat)],
         \A f \in FileNames \ {Seconds + 1} : F2[f] = F[f],
         F2[Seconds + 1] = Append(F[Seconds + 1], t + 1)
  PROVE  Ordered(F2, t + 1)
<1> DEFINE last == Seconds + 1
           len == Len(F[last])
<1>1. last \in FileNames /\ Seconds \in Nat /\ \A f \in FileNames : f \in Nat /\ f <= last
  BY LogAssumption DEF FileNames
<1>2. /\ F[last] \in Seq(Nat) /\ len \in Nat /\ DOMAIN F[last] = 1 .. len
  BY <1>1 DEF Ordered
<1>3. /\ DOMAIN F2[last] = 1 .. len + 1 /\ F2[last][len + 1] = t + 1
      /\ \A i \in 1 .. len : F2[last][i] = F[last][i]
  BY <1>2
<1>. HIDE DEF last, len
<1>4. ASSUME NEW f \in FileNames, NEW i \in DOMAIN F2[f]
      PROVE  \/ i \in DOMAIN F[f] /\ F2[f][i] = F[f][i] /\ F[f][i] \in 1 .. t
             \/ f = last /\ i = len + 1 /\ F2[f][i] = t + 1
  <2>1. ASSUME NEW k \in DOMAIN F[f]
        PROVE  F[f][k] \in 1 .. t
    BY DEF Ordered
  <2>2. CASE f # last
    <3>1. F2[f] = F[f]
      BY <2>2 DEF last
    <3>. QED  BY <3>1, <2>1
  <2>3. CASE f = last
    <3>1. i \in 1 .. len \/ i = len + 1
      BY <2>3, <1>2, <1>3
    <3>. QED  BY <3>1, <2>1, <2>3, <1>2, <1>3
  <2>. QED  BY <2>2, <2>3
<1>5. ASSUME NEW f \in FileNames, NEW i \in DOMAIN F2[f]
      PROVE  F2[f][i] \in 1 .. t + 1
  BY SMTT(30), <1>4, <1>5
<1>6. ASSUME NEW n \in 1 .. t + 1
      PROVE  \E f \in FileNames : \E i \in DOMAIN F2[f] : F2[f][i] = n
  <2>1. CASE n = t + 1
    <3>1. len + 1 \in DOMAIN F2[last] /\ F2[last][len + 1] = n
      BY <2>1, <1>2, <1>3
    <3>. QED  BY <3>1, <1>1
  <2>2. CASE n # t + 1
    <3>1. PICK f \in FileNames : \E i \in DOMAIN F[f] : F[f][i] = n
      BY <2>2 DEF Ordered
    <3>2. PICK i \in DOMAIN F[f] : F[f][i] = n
      BY <3>1
    <3>3. i \in DOMAIN F2[f] /\ F2[f][i] = n
      <4>1. CASE f # last
        <5>1. F2[f] = F[f]
          BY <4>1 DEF last
        <5>. QED  BY <5>1, <3>2
      <4>2. CASE f = last
        <5>1. i \in 1 .. len /\ i \in 1 .. len + 1
          BY <4>2, <3>2, <1>2
        <5>. QED  BY <5>1, <4>2, <3>2, <1>3
      <4>. QED  BY <4>1, <4>2
    <3>. QED  BY <3>3
  <2>. QED  BY <2>1, <2>2
<1>7. ASSUME NEW f \in FileNames, NEW g \in FileNames,
             NEW i \in DOMAIN F2[f], NEW j \in DOMAIN F2[g],
             f < g \/ (f = g /\ i < j)
      PROVE  F2[f][i] < F2[g][j]
  <2>1. ~(f = last /\ i = len + 1)
    <3>. SUFFICES ASSUME f = last, i = len + 1
                  PROVE  FALSE
      OBVIOUS
    <3>1. j \in 1 .. len + 1 /\ g = last
      BY <1>1, <1>3, <1>7
    <3>. QED  BY <3>1, <1>1, <1>2, <1>7
  <2>2. i \in DOMAIN F[f] /\ F2[f][i] = F[f][i] /\ F[f][i] \in 1 .. t
    BY <2>1, <1>4
  <2>3. CASE g = last /\ j = len + 1
    BY <2>2, <2>3, <1>3
  <2>4. CASE ~(g = last /\ j = len + 1)
    <3>1. j \in DOMAIN F[g] /\ F2[g][j] = F[g][j]
      BY <2>4, <1>4
    <3>. QED  BY <2>2, <3>1, <1>7 DEF Ordered
  <2>. QED  BY <2>3, <2>4
<1>. QED  BY <1>5, <1>6, <1>7 DEF Ordered

\* The last file becomes file s, behind all others that have lines.
LEMMA OrderedRename ==
  ASSUME NEW F, NEW t \in Nat, Ordered(F, t), NEW s \in 0 .. Seconds,
         \A f \in 0 .. Seconds : f >= s => F[f] = <<>>,
         NEW F2 \in [FileNames -> Seq(Nat)],
         \A f \in FileNames \ {s, Seconds + 1} : F2[f] = F[f],
         F2[s] = F[Seconds + 1], F2[Seconds + 1] = <<>>
  PROVE  Ordered(F2, t)
<1> DEFINE last == Seconds + 1
           From(f) == IF f = s THEN last ELSE f
<1>1. /\ last \in FileNames /\ s \in FileNames /\ s < last /\ Seconds \in Nat
      /\ \A f \in FileNames : f \in Nat /\ (f # last => f \in 0 .. Seconds)
  BY LogAssumption DEF FileNames
<1>. HIDE DEF last
<1>2. ASSUME NEW f \in FileNames, NEW i \in DOMAIN F2[f]
      PROVE  f <= s /\ i \in DOMAIN F[From(f)] /\ F2[f][i] = F[From(f)][i]
  <2>1. f # last
    BY <1>2 DEF last
  <2>2. CASE f = s
    BY <2>2, <1>1, <1>2 DEF last
  <2>3. CASE f # s
    <3>1. F2[f] = F[f]
      BY <2>1, <2>3 DEF last
    <3>2. ~(f >= s)
      BY <3>1, <2>1, <1>1, <1>2
    <3>. QED  BY <3>1, <3>2, <2>3, <1>1, <1>2
  <2>. QED  BY <2>2, <2>3
<1>3. ASSUME NEW f \in FileNames
      PROVE  From(f) \in FileNames
  BY <1>1
<1>4. ASSUME NEW f \in FileNames, NEW i \in DOMAIN F2[f]
      PROVE  F2[f][i] \in 1 .. t
  <2>1. PICK h \in FileNames : h = From(f)
    BY <1>3, <1>4
  <2>2. i \in DOMAIN F[h] /\ F2[f][i] = F[h][i]
    BY <1>2, <1>4, <2>1
  <2>3. F[h][i] \in 1 .. t
    BY <2>1, <2>2 DEF Ordered
  <2>. QED  BY <2>2, <2>3
<1>5. ASSUME NEW n \in 1 .. t
      PROVE  \E f \in FileNames : \E i \in DOMAIN F2[f] : F2[f][i] = n
  <2>1. PICK f \in FileNames : \E i \in DOMAIN F[f] : F[f][i] = n
    BY DEF Ordered
  <2>2. PICK i \in DOMAIN F[f] : F[f][i] = n
    BY <2>1
  <2>3. CASE f = last
    BY <2>2, <2>3, <1>1 DEF last
  <2>4. CASE f # last
    <3>1. f \in 0 .. Seconds /\ F[f] # <<>>
      BY <2>2, <2>4, <1>1
    <3>2. f # s
      BY <3>1, <1>1
    <3>. QED  BY <2>2, <2>4, <3>2 DEF last
  <2>. QED  BY <2>3, <2>4
<1>6. ASSUME NEW f \in FileNames, NEW g \in FileNames,
             NEW i \in DOMAIN F2[f], NEW j \in DOMAIN F2[g],
             f < g \/ (f = g /\ i < j)
      PROVE  F2[f][i] < F2[g][j]
  <2>1. /\ f <= s /\ i \in DOMAIN F[From(f)] /\ F2[f][i] = F[From(f)][i]
        /\ g <= s /\ j \in DOMAIN F[From(g)] /\ F2[g][j] = F[From(g)][j]
    BY <1>2
  <2>2. PICK h, k : h = From(f) /\ k = From(g)
    OBVIOUS
  <2>3. h \in FileNames /\ k \in FileNames
    BY <2>2, <1>3
  <2>4. h < k \/ (h = k /\ i < j)
    <3>1. CASE f < g
      <4>1. f # s /\ h = f /\ f < s
        BY <3>1, <2>1, <2>2, <1>1
      <4>. QED  BY SMTT(30), <3>1, <4>1, <2>2, <1>1
    <3>2. CASE f = g /\ i < j
      BY <3>2, <2>2
    <3>. QED  BY <3>1, <3>2, <1>6
  <2>. HIDE DEF From
  <2>5. F[h][i] < F[k][j]
    BY <2>1, <2>2, <2>3, <2>4 DEF Ordered
  <2>. QED  BY <2>1, <2>2, <2>5
<1>. QED  BY <1>4, <1>5, <1>6 DEF Ordered

\* While no file was deleted: the lines are in the files of seconds at which one
\* was renamed and in the open file, which is empty while it is renamed.
FilesInv ==
  ~log.doubled /\ log.faults = 0 =>
    /\ \A f \in 0 .. Seconds : f > log.now \/ f \notin log.renamed => log.bak[f] = <<>>
    /\ Ordered(Files(log), log.traced)
    /\ log.lock # NobodyLogs => log.cur = <<>>

\* The files of a log, by name.
LEMMA FilesFacts ==
  ASSUME NEW l \in LogType
  PROVE  /\ Files(l) \in [FileNames -> Seq(Nat)]
         /\ Files(l)[Seconds + 1] = l.cur
         /\ \A f \in 0 .. Seconds : Files(l)[f] = l.bak[f] /\ f # Seconds + 1
<1>1. /\ Seconds \in Nat /\ Seconds + 1 \in FileNames
      /\ \A f \in FileNames : f # Seconds + 1 => f \in 0 .. Seconds
      /\ \A f \in 0 .. Seconds : f \in FileNames /\ f # Seconds + 1
  BY LogAssumption DEF FileNames
<1>. QED  BY <1>1 DEF Files, LogType

\* Most steps change no file.
LEMMA FilesSame ==
  ASSUME LogIInv, FilesInv,
         ~log'.doubled /\ log'.faults = 0 =>
           /\ ~log.doubled /\ log.faults = 0
           /\ log'.bak = log.bak /\ log'.cur = log.cur /\ log'.traced = log.traced
           /\ log'.renamed = log.renamed /\ log'.now \in {log.now, log.now + 1}
           /\ log'.lock \in {log.lock, NobodyLogs}
  PROVE  FilesInv'
<1>. SUFFICES ASSUME ~log'.doubled, log'.faults = 0
              PROVE  /\ \A f \in 0 .. Seconds :
                          f > log'.now \/ f \notin log'.renamed => log'.bak[f] = <<>>
                     /\ Ordered(Files(log'), log'.traced)
                     /\ log'.lock # NobodyLogs => log'.cur = <<>>
  BY DEF FilesInv
<1>1. Files(log') = Files(log)
  BY DEF Files
<1>2. log.now \in Int
  BY DEF LogIInv, LogTypeInv, LogType
<1>. QED  BY <1>1, <1>2 DEF FilesInv

\* A rename that works, in a second without another one.
LEMMA FilesRenamed ==
  ASSUME LogIInv, FilesInv, LogIInv',
         log'.doubled = (log.doubled \/ log.now \in log.renamed),
         log'.faults = 0 =>
           /\ log.faults = 0 /\ log'.cur = <<>>
           /\ log'.bak = [log.bak EXCEPT ![log.now] = log.cur],
         log'.traced = log.traced, log'.renamed = log.renamed \cup {log.now},
         log'.now = log.now
  PROVE  FilesInv'
<1>. SUFFICES ASSUME ~log'.doubled, log'.faults = 0
              PROVE  /\ \A f \in 0 .. Seconds :
                          f > log'.now \/ f \notin log'.renamed => log'.bak[f] = <<>>
                     /\ Ordered(Files(log'), log'.traced)
                     /\ log'.lock # NobodyLogs => log'.cur = <<>>
  BY DEF FilesInv
<1>1. ~log.doubled /\ log.faults = 0 /\ log.now \notin log.renamed
  OBVIOUS
<1>2. /\ log \in LogType /\ log' \in LogType
      /\ log.now \in 0 .. Seconds /\ log.traced \in Nat /\ Seconds \in Nat
      /\ DOMAIN log.bak = 0 .. Seconds
  BY LogAssumption DEF LogIInv, LogTypeInv, LogType
<1>3. \A f \in 0 .. Seconds : f # log.now => log'.bak[f] = log.bak[f]
  BY <1>2
<1>4. \A f \in 0 .. Seconds : f >= log.now => log.bak[f] = <<>>
  BY <1>1, <1>2 DEF FilesInv
<1>5. Ordered(Files(log'), log'.traced)
  <2>1. /\ \A f \in FileNames \ {log.now, Seconds + 1} : Files(log')[f] = Files(log)[f]
        /\ Files(log')[log.now] = Files(log)[Seconds + 1]
        /\ Files(log')[Seconds + 1] = <<>>
    <3>1. \A f \in FileNames : f # Seconds + 1 => f \in 0 .. Seconds
      BY <1>2 DEF FileNames
    <3>. QED  BY <3>1, <1>2, <1>3, FilesFacts
  <2>2. \A f \in 0 .. Seconds : f >= log.now => Files(log)[f] = <<>>
    BY <1>2, <1>4, FilesFacts
  <2>3. Ordered(Files(log), log.traced)
    BY <1>1 DEF FilesInv
  <2>4. Files(log') \in [FileNames -> Seq(Nat)]
    BY <1>2, FilesFacts
  <2>5. PICK F, F2, s, t : F = Files(log) /\ F2 = Files(log') /\ s = log.now /\ t = log.traced
    OBVIOUS
  <2>6. Ordered(F2, t)
    BY <2>1, <2>2, <2>3, <2>4, <2>5, <1>2, OrderedRename
  <2>. QED  BY <2>5, <2>6
<1>6. ASSUME NEW f \in 0 .. Seconds, f > log'.now \/ f \notin log'.renamed
      PROVE  log'.bak[f] = <<>>
  <2>1. f # log.now /\ (f > log.now \/ f \notin log.renamed)
    BY <1>2, <1>6
  <2>. QED  BY <2>1, <1>1, <1>3 DEF FilesInv
<1>. QED  BY <1>5, <1>6

\* Every step keeps the lines.
LEMMA LogNextFiles == LogIInv /\ LogIInv' /\ FilesInv /\ [LogNext]_log => FilesInv'
<1>. SUFFICES ASSUME LogIInv, LogIInv', FilesInv, [LogNext]_log
              PROVE  FilesInv'
  OBVIOUS
<1>1. log \in LogType /\ log' \in LogType
  BY DEF LogIInv, LogTypeInv
<1>2. ASSUME NEW w \in Writers, NEW p, log' = Step(w, p)
      PROVE  FilesInv'
  BY <1>1, <1>2, FilesSame DEF Step, LogType
<1>3. ASSUME NEW w \in Writers, AppendLine(w)
      PROVE  FilesInv'
  <2>1. CASE ~log.hnd
    BY <2>1, <1>2, <1>3 DEF AppendLine
  <2>2. CASE log.hnd
    <3>1. /\ log'.cur = Append(log.cur, log.traced + 1) /\ log'.traced = log.traced + 1
          /\ log'.bak = log.bak /\ log'.renamed = log.renamed /\ log'.now = log.now
          /\ log'.doubled = log.doubled /\ log'.faults = log.faults
          /\ log'.lock = NobodyLogs
      BY <2>2, <1>1, <1>3 DEF AppendLine, Step, LogType
    <3>. SUFFICES ASSUME ~log'.doubled, log'.faults = 0
                  PROVE  Ordered(Files(log'), log'.traced)
      BY <3>1 DEF FilesInv
    <3>2. /\ \A f \in FileNames \ {Seconds + 1} : Files(log')[f] = Files(log)[f]
          /\ Files(log')[Seconds + 1] = Append(Files(log)[Seconds + 1], log.traced + 1)
      <4>1. \A f \in FileNames : f # Seconds + 1 => f \in 0 .. Seconds
        BY LogAssumption DEF FileNames
      <4>2. /\ Files(log)[Seconds + 1] = log.cur /\ Files(log')[Seconds + 1] = log'.cur
            /\ \A f \in 0 .. Seconds :
                 Files(log)[f] = log.bak[f] /\ Files(log')[f] = log'.bak[f]
        BY <1>1, FilesFacts
      <4>3. \A f \in FileNames \ {Seconds + 1} : Files(log')[f] = Files(log)[f]
        BY <4>1, <4>2, <3>1
      <4>. QED  BY <4>2, <4>3, <3>1
    <3>3. Ordered(Files(log), log.traced)
      BY <3>1 DEF FilesInv
    <3>4. Files(log') \in [FileNames -> Seq(Nat)] /\ log.traced \in Nat
      BY <1>1, FilesFacts DEF LogType
    <3>5. PICK F, F2, t : F = Files(log) /\ F2 = Files(log') /\ t = log.traced
      OBVIOUS
    <3>6. Ordered(F2, t + 1)
      BY <3>2, <3>3, <3>4, <3>5, OrderedAppend
    <3>. QED  BY <3>1, <3>5, <3>6
  <2>. QED  BY <2>1, <2>2
<1>4. ASSUME NEW w \in Writers, TraceCall(w) \/ CheckLines(w)
      PROVE  FilesInv'
  BY <1>2, <1>4 DEF TraceCall, CheckLines
<1>5. ASSUME NEW w \in Writers, Backup(w)
      PROVE  FilesInv'
  <2>1. PICK ok \in BOOLEAN :
          log' = [RenameFile(Step(w, "reopen"), ok) EXCEPT !.lock = w, !.hnd = FALSE]
    BY <1>5 DEF Backup
  <2>2. PICK l : l = Step(w, "reopen")
    OBVIOUS
  <2>3. /\ l \in LogType /\ l.now = log.now /\ l.cur = log.cur /\ l.bak = log.bak
        /\ l.renamed = log.renamed /\ l.doubled = log.doubled /\ l.faults = log.faults
        /\ l.traced = log.traced
    BY <2>2, <1>1 DEF Step, LogType, Places
  <2>4. log' = [RenameFile(l, ok) EXCEPT !.lock = w, !.hnd = FALSE]
    BY <2>1, <2>2
  <2>5. /\ log'.bak = [l.bak EXCEPT ![l.now] = IF ok THEN l.cur ELSE <<>>]
        /\ log'.cur = IF ok THEN <<>> ELSE l.cur
        /\ log'.faults = IF ok THEN l.faults ELSE l.faults + 1
        /\ log'.doubled = (l.doubled \/ l.now \in l.renamed)
        /\ log'.renamed = l.renamed \cup {l.now}
        /\ log'.traced = l.traced /\ log'.now = l.now
    BY <2>3, <2>4 DEF RenameFile, LogType
  <2>6. log.faults \in Nat
    BY <1>1 DEF LogType
  <2>7. log'.faults = 0 => ok
    BY <2>3, <2>5, <2>6
  <2>. QED  BY <2>3, <2>5, <2>7, FilesRenamed
<1>6. ASSUME NEW w \in Writers, Reopen(w)
      PROVE  FilesInv'
  <2>1. PICK ok \in BOOLEAN :
          log' = [Step(w, "idle") EXCEPT !.hnd = ok, !.cur = IF ok THEN <<>> ELSE @,
                      !.total_lines = 0, !.lock = NobodyLogs,
                      !.faults = IF ok THEN @ ELSE @ + 1]
    BY <1>6 DEF Reopen
  <2>2. /\ log'.bak = log.bak /\ log'.traced = log.traced /\ log'.renamed = log.renamed
        /\ log'.now = log.now /\ log'.doubled = log.doubled /\ log'.lock = NobodyLogs
        /\ log'.cur = IF ok THEN <<>> ELSE log.cur
        /\ log'.faults = IF ok THEN log.faults ELSE log.faults + 1
    BY <2>1, <1>1 DEF Step, LogType
  <2>3. log.faults \in Nat /\ log.lock # NobodyLogs
    BY <1>1, <1>6, LogAssumption DEF Reopen, LogIInv, LockInv, LogType
  <2>4. ~log'.doubled /\ log'.faults = 0 =>
          ~log.doubled /\ log.faults = 0 /\ log'.cur = log.cur
    BY <2>2, <2>3 DEF FilesInv
  <2>. QED  BY <2>2, <2>4, FilesSame
<1>7. CASE log_close
  BY <1>1, <1>7, FilesSame DEF log_close, LogType
<1>8. CASE log_open
  <2>1. PICK ok \in BOOLEAN, opened \in BOOLEAN :
           log' = [RenameFile(log, ok) EXCEPT
                     !.hnd = opened, !.up = opened, !.total_lines = 0,
                     !.cur = IF opened THEN <<>> ELSE @,
                     !.faults = IF opened THEN @ ELSE @ + 1]
    BY <1>8 DEF log_open
  <2>2. PICK r : r = RenameFile(log, ok)
    OBVIOUS
  <2>3. PICK c, n : /\ c = IF opened THEN <<>> ELSE r.cur
                    /\ n = IF opened THEN r.faults ELSE r.faults + 1
    OBVIOUS
  <2>4. log' = [r EXCEPT !.hnd = opened, !.up = opened, !.total_lines = 0,
                         !.cur = c, !.faults = n]
    BY <2>1, <2>2, <2>3
  <2>5. /\ r.bak = [log.bak EXCEPT ![log.now] = IF ok THEN log.cur ELSE <<>>]
        /\ r.faults = IF ok THEN log.faults ELSE log.faults + 1
        /\ r.doubled = (log.doubled \/ log.now \in log.renamed)
        /\ r.renamed = log.renamed \cup {log.now}
        /\ r.traced = log.traced /\ r.now = log.now
    BY <2>2, <1>1 DEF RenameFile, LogType
  <2>6. r \in LogType
    BY <2>2, <1>1, RenameFacts
  <2>7. /\ log'.bak = r.bak /\ log'.cur = c /\ log'.doubled = r.doubled
        /\ log'.renamed = r.renamed /\ log'.faults = n
        /\ log'.traced = r.traced /\ log'.now = r.now
    BY <2>4, <2>6 DEF LogType
  <2>8. log'.faults = 0 => ok /\ opened
    BY <2>3, <2>5, <2>6, <2>7, <1>1 DEF LogType
  <2>9. log'.faults = 0 =>
          /\ log.faults = 0 /\ log'.cur = <<>>
          /\ log'.bak = [log.bak EXCEPT ![log.now] = log.cur]
    BY <2>3, <2>5, <2>7, <2>8
  <2>. QED  BY <2>5, <2>7, <2>9, FilesRenamed
<1>9. CASE Tick
  BY <1>1, <1>9, FilesSame DEF Tick, LogType
<1>10. CASE log' = log
  BY <1>10, FilesSame
<1>. QED  BY <1>3, <1>4, <1>5, <1>6, <1>7, <1>8, <1>9, <1>10 DEF LogNext
-----------------------------------------------------------------------------
\* However many threads trace at once and whatever rename and fopen return, an
\* open log has one line per count of total_lines, and exceeds MAX_FILE_LINES by
\* no more lines than threads that are about to look at the counter or to
\* rename the file: no check is missed although it is made after the unlock.
THEOREM LogSpecBounded == LogInit /\ [][LogNext]_log => []LogBounded
<1>1. LogInit => LogIInv
  BY LogInitInv
<1>2. LogIInv /\ [LogNext]_log => LogIInv'
  BY LogNextInv
<1>3. LogIInv => LogBounded
  BY DEF LogIInv
<1>. QED  BY <1>1, <1>2, <1>3, PTL

\* No line gets lost or out of order: renaming the file under the lock of the
\* writers, in any interleaving with lines that wait for it, deletes or reorders
\* nothing, unless two renames fall into one second or the system fails.
THEOREM LogSpecLinesKept == LogInit /\ [][LogNext]_log => []LinesKept
<1>1. LogInit => LogIInv /\ FilesInv
  <2>. SUFFICES ASSUME LogInit PROVE FilesInv
    BY LogInitInv
  <2>1. /\ log \in LogType /\ log.cur = <<>> /\ log.traced = 0 /\ log.lock = NobodyLogs
        /\ \A f \in 0 .. Seconds : log.bak[f] = <<>>
    BY LogInitInv DEF LogInit, NewLog, LogIInv, LogTypeInv
  <2>2. \A f \in FileNames : Files(log)[f] = <<>>
    BY <2>1, LogAssumption DEF Files, FileNames
  <2>3. Ordered(Files(log), 0)
    BY <2>1, <2>2, FilesFacts DEF Ordered
  <2>. QED  BY <2>1, <2>3 DEF FilesInv
<1>2. LogIInv /\ FilesInv /\ [LogNext]_log => LogIInv' /\ FilesInv'
  BY LogNextInv, LogNextFiles
<1>3. LogIInv /\ FilesInv => LinesKept
  <2>. SUFFICES ASSUME LogIInv, FilesInv, ~log.doubled, log.faults = 0
                PROVE  /\ \A n \in 1 .. log.traced :
                            \E f \in FileNames : n \in ToSet(File(f))
                       /\ \A f, g \in FileNames :
                            \A i \in DOMAIN File(f), j \in DOMAIN File(g) :
                              f < g \/ (f = g /\ i < j) => File(f)[i] < File(g)[j]
    BY DEF LinesKept
  <2>1. Ordered(Files(log), log.traced)
    BY DEF FilesInv
  <2>2. \A f \in FileNames : File(f) = Files(log)[f]
    BY DEF File, Files
  <2>3. \A n \in 1 .. log.traced : \E f \in FileNames : n \in ToSet(File(f))
    BY <2>1, <2>2 DEF Ordered, ToSet
  <2>4. ASSUME NEW f \in FileNames, NEW g \in FileNames,
               NEW i \in DOMAIN File(f), NEW j \in DOMAIN File(g),
               f < g \/ (f = g /\ i < j)
        PROVE  File(f)[i] < File(g)[j]
    BY <2>1, <2>2, <2>4 DEF Ordered
  <2>. QED  BY <2>3, <2>4
<1>. QED  BY <1>1, <1>2, <1>3, PTL
==============================================================================
