---------------------------- MODULE FilesProofs ----------------------------
(***************************************************************************)
(* With one call at a time, the floppy driver knows where the heads are    *)
(* and what its buffer holds, for every disk, directory, set of tasks and  *)
(* arguments.                                                              *)
(***************************************************************************)
EXTENDS Files, SequenceTheorems, TLAPS

Tracks == 0..(NTRACKS - 1)
DevT == [kind : {"none", "floppy", "memory"}, pos : 0..FLOPPY_SIZE, headDir : {-2, 0, 2},
         trackNum : Tracks \cup {-1}, trkInBuf : Tracks \cup {-1}]

FsTypes ==
  /\ phase \in {"boot", "length", "entries", "mounted", "killed"}
  /\ file \in [Tasks -> Entries \cup {NONE}] /\ fpos \in [Tasks -> Nat]
  /\ asked \in [Tasks -> Sizes \cup {0}]

DriveTypes ==
  /\ dev \in DevT
  /\ encoded \in Tracks \cup {NONE} /\ decoded \in Tracks \cup {NONE}
  /\ cyl \in 0..((NTRACKS - 1) \div 2) /\ side \in {0, 1} /\ dma \in BOOLEAN

CallTypes ==
  /\ pc \in [Tasks -> Labels]
  /\ left \in [Tasks -> Nat] /\ at \in [Tasks -> Nat]
  /\ buf \in [Tasks -> Seq(Int \cup {NONE})]

(* Types with their domains.                                                *)
Types == FsTypes /\ DriveTypes /\ CallTypes

(* At most one task is in a call.                                           *)
Single == \A t, u \in Tasks : pc[t] # "out" /\ pc[u] # "out" => t = u

(* What a read has read and has yet to read.                                *)
Amount(t) == Len(buf[t]) + IF pc[t] = "done" THEN 0 ELSE left[t]

(* A position and what a read adds to it stay within the file.              *)
WithinFile ==
  \A t \in Tasks :
    /\ fpos[t] <= IF file[t] = NONE THEN 0 ELSE file[t].size
    /\ phase = "mounted" /\ pc[t] # "out" =>
         /\ file[t] # NONE
         /\ fpos[t] + Amount(t) <= file[t].size

Moving == {"turned", "stepped"}
Reached == {"settled", "started", "DSKBLK", "read", "decode"}

(* FloppyRead has a rest to read, and it lies on the disk.                  *)
WithinDisk ==
  \A t \in Tasks : pc[t] \in {"loop"} \cup Moving \cup Reached =>
    /\ dev.kind = "floppy"
    /\ 0 < left[t] /\ left[t] <= FLOPPY_SIZE - dev.pos
    /\ pc[t] # "loop" => at[t] = dev.pos

(* FloppyTrackRead: the heads move towards a track on their side; then they *)
(* are there, and then its data is in.                                     *)
Approach ==
  \A t \in Tasks :
    LET num == Track(at[t])
    IN  /\ pc[t] \in Moving =>
             /\ dev.trackNum # -1 /\ (num + dev.trackNum) % 2 = 0
             /\ \/ dev.headDir = 2 /\ dev.trackNum < num
                \/ dev.headDir = -2 /\ num < dev.trackNum
        /\ pc[t] \in Reached => dev.trackNum = num
        /\ pc[t] \in {"read", "decode"} => encoded = num /\ ~dma

(* Between reads of a track, the buffer holds the track of the heads.       *)
Rest ==
  dev.kind = "floppy" /\ (\A t \in Tasks : pc[t] \notin Moving \cup Reached) =>
    dev.trkInBuf = dev.trackNum

IInv == /\ Types /\ Single /\ WithinFile /\ WithinDisk /\ Approach /\ Rest
        /\ HeadsKnown /\ BufferHoldsTrack

-----------------------------------------------------------------------------
LEMMA Product ==
  ASSUME NEW a \in Nat \ {0}, NEW b \in Nat \ {0}
  PROVE  a * b \in Nat \ {0}
OBVIOUS

LEMMA Sizing ==
  /\ SECTOR_SIZE \in Nat \ {0} /\ NSECTORS \in Nat \ {0} /\ NTRACKS \in Nat \ {0}
  /\ TRACK_SIZE \in Nat \ {0} /\ FLOPPY_SIZE \in Nat \ {0}
<1>1. SECTOR_SIZE \in Nat \ {0} /\ NSECTORS \in Nat \ {0} /\ NTRACKS \in Nat \ {0}
  BY DiskAssumption
<1>2. TRACK_SIZE \in Nat \ {0}
  BY <1>1, Product DEF TRACK_SIZE
<1>3. QED
  BY <1>1, <1>2, Product DEF FLOPPY_SIZE

LEMMA Times ==
  ASSUME NEW a \in Nat, NEW b \in Nat, NEW c \in Nat, b <= a
  PROVE  c * b <= c * a
OBVIOUS

LEMMA Division ==
  ASSUME NEW a \in Nat, NEW b \in Nat \ {0}
  PROVE  /\ a \div b \in Nat /\ a % b \in 0..(b - 1)
         /\ a = b * (a \div b) + (a % b)
OBVIOUS

LEMMA Offset ==
  ASSUME NEW pos \in Nat
  PROVE  /\ Track(pos) \in Nat
         /\ pos % TRACK_SIZE \in 0..(TRACK_SIZE - 1)
         /\ pos = TRACK_SIZE * Track(pos) + (pos % TRACK_SIZE)
BY Sizing, Division DEF Track

LEMMA TrackOnDisk ==
  ASSUME NEW pos \in Nat, pos < FLOPPY_SIZE
  PROVE  Track(pos) \in Tracks
<1> DEFINE num == Track(pos)
<1>1. num \in Nat
  BY Offset
<1>2. CASE NTRACKS <= num
  <2>1. TRACK_SIZE * NTRACKS <= TRACK_SIZE * num
    BY <1>1, <1>2, Times, Sizing
  <2>2. TRACK_SIZE * num \in Nat /\ TRACK_SIZE * NTRACKS \in Nat
    BY <1>1, Product, Sizing
  <2>3. TRACK_SIZE * num <= pos
    BY <2>2, Offset, Sizing
  <2>4. QED
    BY <2>1, <2>2, <2>3, Sizing DEF FLOPPY_SIZE
<1>3. QED
  BY <1>1, <1>2, Sizing DEF Tracks

-----------------------------------------------------------------------------
LEMMA CallStep ==
  ASSUME OneCaller, IInv, NEW t \in Tasks, NEW label \in Labels,
         pc[t] # "out" \/ MayCall(t), Goto(t, label)
  PROVE  /\ pc' \in [Tasks -> Labels] /\ pc'[t] = label
         /\ \A u \in Tasks : u # t => pc[u] = "out" /\ pc'[u] = "out"
         /\ Single'
         /\ (\E u \in Tasks : pc[u] = "stepped") <=> pc[t] = "stepped"
         /\ (\E u \in Tasks : pc[u] = "stepped")' <=> label = "stepped"
<1>1. pc \in [Tasks -> Labels]
  BY DEF IInv, Types, CallTypes
<1>2. \A u \in Tasks : u # t => pc[u] = "out"
  BY DEF IInv, Single, MayCall
<1>3. pc' \in [Tasks -> Labels] /\ pc'[t] = label /\ \A u \in Tasks : u # t => pc'[u] = "out"
  BY <1>1, <1>2 DEF Goto
<1>4. Single'
  BY <1>3 DEF Single
<1>5. QED
  BY <1>2, <1>3, <1>4

(* A step that leaves the device, its buffers and the drive as they are.    *)
LEMMA DriveStep ==
  ASSUME OneCaller, IInv, NEW t \in Tasks, NEW label \in Labels \ (Moving \cup Reached),
         pc[t] \in Labels \ (Moving \cup Reached), pc[t] # "out" \/ MayCall(t), Goto(t, label),
         dev' \in DevT, dev' = [dev EXCEPT !.pos = dev'.pos],
         UNCHANGED <<drive, tracks>>
  PROVE  DriveTypes' /\ Approach' /\ Rest' /\ HeadsKnown' /\ BufferHoldsTrack'
<1>1. /\ dev \in DevT /\ dev'.kind = dev.kind /\ dev'.trackNum = dev.trackNum
      /\ dev'.headDir = dev.headDir /\ dev'.trkInBuf = dev.trkInBuf
  BY DEF IInv, Types, DriveTypes, DevT
<1>2. /\ \A u \in Tasks : pc[u] \notin Moving \cup Reached /\ pc'[u] \notin Moving \cup Reached
      /\ (\A u \in Tasks : pc[u] # "stepped") /\ (\A u \in Tasks : pc'[u] # "stepped")
  BY CallStep DEF Moving, Reached
<1>3. DriveTypes'
  BY DEF IInv, Types, DriveTypes, drive, tracks
<1>4. Approach'
  BY <1>2 DEF Approach, Reached
<1>5. Rest'
  BY <1>1, <1>2 DEF Rest, IInv
<1>6. HeadsKnown'
  BY <1>1, <1>2 DEF HeadsKnown, IInv, drive
<1>7. BufferHoldsTrack'
  BY <1>1 DEF BufferHoldsTrack, IInv, tracks
<1>8. QED
  BY <1>3, <1>4, <1>5, <1>6, <1>7

(* Reading and seeking do not leave the disk.                               *)
LEMMA SeekOnDisk ==
  ASSUME DriveTypes, NEW to \in Nat
  PROVE  DevSeek(to) \in 0..FLOPPY_SIZE
BY Sizing DEF DevSeek, MemSeek, FloppySeek, DriveTypes, DevT

LEMMA FileReadTypes ==
  ASSUME IInv, NEW t \in Tasks, NEW n \in Nat, FileRead(t, n)
  PROVE  /\ left' \in [Tasks -> Nat] /\ left'[t] = n
         /\ buf' \in [Tasks -> Seq(Int \cup {NONE})] /\ buf'[t] = <<>>
         /\ Goto(t, "FileRead") /\ "FileRead" \in Labels \ (Moving \cup Reached)
<1>1. <<>> \in Seq(Int \cup {NONE})
  OBVIOUS
<1>2. QED
  BY <1>1 DEF FileRead, IInv, Types, CallTypes, Labels, Moving, Reached

LEMMA InitIInv == Init => IInv
<1> SUFFICES ASSUME Init PROVE IInv
  OBVIOUS
<1> USE DEF Init
<1>1. FsTypes /\ CallTypes
  <2>1. <<>> \in Seq(Int \cup {NONE})
    OBVIOUS
  <2>2. QED
    BY <2>1 DEF FsTypes, CallTypes, Labels
<1>2. DriveTypes
  <2>1. 0 \in 0..FLOPPY_SIZE /\ 0 \in Tracks /\ 0 \in {-2, 0, 2}
    BY Sizing DEF Tracks
  <2>2. dev \in DevT
    BY <2>1 DEF DevT
  <2>3. QED
    BY <2>2 DEF DriveTypes
<1>3. \A t \in Tasks : pc[t] = "out" /\ fpos[t] = 0 /\ file[t] = NONE
  OBVIOUS
<1>4. Single /\ WithinFile /\ WithinDisk /\ Approach
  BY <1>3 DEF Single, WithinFile, WithinDisk, Approach, Moving, Reached
<1>5. dev.kind = "none"
  OBVIOUS
<1>6. Rest /\ HeadsKnown /\ BufferHoldsTrack
  BY <1>5 DEF Rest, HeadsKnown, BufferHoldsTrack
<1>7. QED
  BY <1>1, <1>2, <1>4, <1>6 DEF IInv, Types

-----------------------------------------------------------------------------
(* The operations on files that do not use the device.                      *)
LEMMA FsStep ==
  ASSUME IInv, UNCHANGED <<dev, drive, tracks, call>>
  PROVE  /\ DriveTypes' /\ CallTypes' /\ Single' /\ WithinDisk' /\ Approach' /\ Rest'
         /\ HeadsKnown' /\ BufferHoldsTrack'
<1> USE DEF drive, tracks, call, IInv, Types
<1>1. DriveTypes' /\ CallTypes' /\ Single' /\ WithinDisk'
  BY DEF DriveTypes, CallTypes, Single, WithinDisk
<1>2. Approach' /\ Rest'
  BY DEF Approach, Rest
<1>3. HeadsKnown' /\ BufferHoldsTrack'
  BY DEF HeadsKnown, BufferHoldsTrack
<1>4. QED
  BY <1>1, <1>2, <1>3

LEMMA OpenFileKeeps ==
  ASSUME OneCaller, IInv, NEW t \in Tasks, NEW entry \in Entries, OpenFile(t, entry)
  PROVE  IInv'
<1> USE DEF OpenFile
<1>1. FsTypes'
  BY DEF IInv, Types, FsTypes
<1>2. WithinFile'
  <2>1. entry # NONE /\ entry.size \in Nat
    BY DiskAssumption
  <2>2. \A u \in Tasks : pc'[u] = "out"
    BY DEF MayCall, call
  <2>3. QED
    BY <2>1, <2>2 DEF WithinFile, IInv, Types, FsTypes
<1>3. QED
  BY <1>1, <1>2, FsStep DEF IInv, Types

LEMMA FsCloseKeeps ==
  ASSUME OneCaller, IInv, NEW t \in Tasks, FsClose(t)
  PROVE  IInv'
<1> USE DEF FsClose
<1>1. FsTypes'
  BY DEF IInv, Types, FsTypes
<1>2. WithinFile'
  <2>1. \A u \in Tasks : pc'[u] = "out"
    BY DEF HasFile, MayCall, call
  <2>2. QED
    BY <2>1 DEF WithinFile, IInv, Types, FsTypes
<1>3. QED
  BY <1>1, <1>2, FsStep DEF IInv, Types

LEMMA FsSeekKeeps ==
  ASSUME OneCaller, IInv, NEW t \in Tasks, NEW offset, NEW whence, FsSeek(t, offset, whence)
  PROVE  IInv'
<1>1. file[t] \in Entries /\ file[t].size \in Nat
  BY DiskAssumption DEF FsSeek, HasFile, IInv, Types, FsTypes
<1>2. PICK to : \/ to \in 0..file[t].size /\ fpos' = [fpos EXCEPT ![t] = to]
                \/ UNCHANGED fpos
  BY DEF FsSeek
<1>3. FsTypes'
  BY <1>1, <1>2 DEF FsSeek, IInv, Types, FsTypes
<1>4. WithinFile'
  <2>1. \A u \in Tasks : pc'[u] = "out"
    BY DEF FsSeek, HasFile, MayCall, call
  <2>2. \A u \in Tasks : fpos'[u] <= IF file[u] = NONE THEN 0 ELSE file[u].size
    BY <1>1, <1>2, DiskAssumption DEF WithinFile, IInv, Types, FsTypes
  <2>3. QED
    BY <2>1, <2>2 DEF WithinFile, FsSeek
<1>5. QED
  BY <1>3, <1>4, FsStep DEF FsSeek, IInv, Types

LEMMA KillFileSysKeeps ==
  ASSUME IInv, NEW t \in Tasks, KillFileSys(t)
  PROVE  IInv'
<1> USE DEF KillFileSys, IInv, Types
<1>1. \A u \in Tasks : pc'[u] = "out"
  BY DEF call
<1>2. FsTypes' /\ CallTypes' /\ dev'.kind = "none"
  BY DEF FsTypes, CallTypes, call, DriveTypes, DevT
<1>3. DriveTypes'
  BY DEF DriveTypes, DevT, drive, tracks
<1>4. Single' /\ WithinDisk' /\ Approach'
  BY <1>1 DEF Single, WithinDisk, Approach, Moving, Reached
<1>5. WithinFile'
  BY <1>1 DEF WithinFile
<1>6. Rest' /\ HeadsKnown' /\ BufferHoldsTrack'
  BY <1>2 DEF Rest, HeadsKnown, BufferHoldsTrack
<1>7. QED
  BY <1>2, <1>3, <1>4, <1>5, <1>6

-----------------------------------------------------------------------------
(* Calls of the device begin and end.                                       *)
LEMMA InitTrackmoKeeps ==
  ASSUME OneCaller, IInv, NEW t \in Tasks, InitTrackmo(t)
  PROVE  IInv'
<1>1. /\ pc'[t] = "FileRead" /\ Goto(t, "FileRead") /\ MayCall(t)
      /\ left' \in [Tasks -> Nat] /\ buf' \in [Tasks -> Seq(Int \cup {NONE})]
      /\ "FileRead" \in Labels
  <2>1. WORD \in Nat /\ FileRead(t, WORD) /\ MayCall(t)
    BY DEF InitTrackmo, WORD
  <2>2. QED
    BY <2>1, FileReadTypes, CallStep
<1>2. /\ pc' \in [Tasks -> Labels] /\ \A u \in Tasks : pc'[u] \in {"out", "FileRead"}
      /\ Single'
  BY <1>1, CallStep
<1>3. FsTypes' /\ CallTypes'
  BY <1>1, <1>2 DEF InitTrackmo, IInv, Types, FsTypes, CallTypes
<1>4. RootDir \in 0..FLOPPY_SIZE
  <2>1. RootDir \in Nat /\ WORD \in Nat /\ RootDirLen \in Nat
    BY Sizing, DiskAssumption DEF RootDir, WORD
  <2>2. RootDir + WORD + RootDirLen <= FLOPPY_SIZE
    BY DiskAssumption
  <2>3. QED
    BY <2>1, <2>2, Sizing
<1>5. DriveTypes'
  <2>1. 0 \in 0..((NTRACKS - 1) \div 2)
    BY Sizing
  <2>2. CASE MemOpen
    <3>1. dev' \in DevT
      BY <1>4, <2>2 DEF MemOpen, IInv, Types, DriveTypes, DevT
    <3>2. QED
      BY <2>2, <3>1 DEF InitTrackmo, MemOpen, tracks, IInv, Types, DriveTypes
  <2>3. CASE FloppyOpen
    <3>1. dev' \in DevT
      BY <1>4, <2>3 DEF FloppyOpen, DevT
    <3>2. QED
      BY <2>1, <2>3, <3>1 DEF InitTrackmo, FloppyOpen, tracks, IInv, Types, DriveTypes
  <2>4. QED
    BY <2>2, <2>3 DEF InitTrackmo
<1>6. WithinDisk' /\ Approach' /\ WithinFile'
  <2>1. phase' = "length" /\ UNCHANGED <<file, fpos>>
    BY DEF InitTrackmo
  <2>2. QED
    BY <1>2, <2>1 DEF WithinDisk, Approach, WithinFile, Moving, Reached, IInv
<1>7. Rest' /\ HeadsKnown' /\ BufferHoldsTrack'
  <2>1. CASE MemOpen
    <3>1. dev'.kind = "memory"
      BY <2>1 DEF MemOpen, IInv, Types, DriveTypes, DevT
    <3>2. QED
      BY <3>1 DEF Rest, HeadsKnown, BufferHoldsTrack
  <2>2. CASE FloppyOpen
    <3>1. dev'.trackNum = -1 /\ dev'.trkInBuf = -1 /\ cyl' = 0 /\ side' = 0
      BY <2>2 DEF FloppyOpen
    <3>2. QED
      BY <3>1 DEF Rest, HeadsKnown, BufferHoldsTrack
  <2>3. QED
    BY <2>1, <2>2 DEF InitTrackmo
<1>8. QED
  BY <1>2, <1>3, <1>5, <1>6, <1>7 DEF IInv, Types

LEMMA ReadEntriesKeeps ==
  ASSUME OneCaller, IInv, NEW t \in Tasks, ReadEntries(t)
  PROVE  IInv'
<1>1. /\ RootDirLen \in Nat /\ FileRead(t, RootDirLen) /\ pc[t] = "done"
      /\ "done" \in Labels \ (Moving \cup Reached)
  BY DiskAssumption DEF ReadEntries, Labels, Moving, Reached
<1>2. /\ Goto(t, "FileRead") /\ left' \in [Tasks -> Nat]
      /\ buf' \in [Tasks -> Seq(Int \cup {NONE})] /\ "FileRead" \in Labels \ (Moving \cup Reached)
  BY <1>1, FileReadTypes
<1>3. /\ pc' \in [Tasks -> Labels] /\ \A u \in Tasks : pc'[u] \in {"out", "FileRead"}
      /\ Single'
  BY <1>1, <1>2, CallStep
<1>4. FsTypes' /\ CallTypes'
  BY <1>2, <1>3 DEF ReadEntries, IInv, Types, FsTypes, CallTypes
<1>5. /\ dev' \in DevT /\ dev' = [dev EXCEPT !.pos = dev'.pos] /\ UNCHANGED <<drive, tracks>>
  BY DEF ReadEntries, IInv, Types, DriveTypes, DevT
<1>6. DriveTypes' /\ Approach' /\ Rest' /\ HeadsKnown' /\ BufferHoldsTrack'
  BY <1>1, <1>2, <1>5, DriveStep
<1>7. WithinDisk' /\ WithinFile'
  BY <1>3 DEF ReadEntries, WithinDisk, WithinFile, Moving, Reached, IInv
<1>8. QED
  BY <1>3, <1>4, <1>6, <1>7 DEF IInv, Types

LEMMA MountedKeeps ==
  ASSUME OneCaller, IInv, NEW t \in Tasks, Mounted(t)
  PROVE  IInv'
<1>1. /\ Goto(t, "out") /\ pc[t] = "done"
      /\ {"out", "done"} \subseteq Labels \ (Moving \cup Reached)
  BY DEF Mounted, Labels, Moving, Reached
<1>2. /\ pc' \in [Tasks -> Labels] /\ \A u \in Tasks : pc'[u] = "out"
      /\ Single'
  BY <1>1, CallStep
<1>3. FsTypes' /\ CallTypes'
  BY <1>2 DEF Mounted, IInv, Types, FsTypes, CallTypes
<1>4. /\ dev' \in DevT /\ dev' = [dev EXCEPT !.pos = dev'.pos] /\ UNCHANGED <<drive, tracks>>
  BY DEF Mounted, IInv, Types, DriveTypes, DevT
<1>5. DriveTypes' /\ Approach' /\ Rest' /\ HeadsKnown' /\ BufferHoldsTrack'
  BY <1>1, <1>4, DriveStep
<1>6. WithinDisk' /\ WithinFile'
  BY <1>2 DEF Mounted, WithinDisk, WithinFile, Moving, Reached, IInv
<1>7. QED
  BY <1>2, <1>3, <1>5, <1>6 DEF IInv, Types

LEMMA FsReadKeeps ==
  ASSUME OneCaller, IInv, NEW t \in Tasks, NEW n \in Sizes, FsRead(t, n)
  PROVE  IInv'
<1> DEFINE rest == Lesser(n, file[t].size - fpos[t])
<1>1. /\ file[t] \in Entries /\ file[t] # NONE /\ file[t].size \in Nat /\ Start(file[t]) \in Nat
      /\ fpos[t] \in Nat /\ fpos[t] <= file[t].size /\ n \in Nat
  <2>1. file[t] \in Entries /\ file[t] # NONE
    BY DiskAssumption DEF FsRead, HasFile, IInv, Types, FsTypes
  <2>2. file[t].size \in Nat /\ file[t].start \in Nat
    BY <2>1, DiskAssumption
  <2>3. Start(file[t]) \in Nat
    BY <2>2, Sizing, Product DEF Start
  <2>4. QED
    BY <2>1, <2>2, <2>3, DiskAssumption DEF IInv, WithinFile, Types, FsTypes
<1>2. rest \in Nat /\ rest <= file[t].size - fpos[t]
  BY <1>1 DEF Lesser
<1>3. /\ Goto(t, "FileRead") /\ left' \in [Tasks -> Nat] /\ left'[t] = rest
      /\ buf' \in [Tasks -> Seq(Int \cup {NONE})] /\ buf'[t] = <<>>
      /\ {"out", "FileRead"} \subseteq Labels \ (Moving \cup Reached)
      /\ pc[t] = "out" /\ MayCall(t)
  <2>1. FileRead(t, rest) /\ MayCall(t)
    BY DEF FsRead, HasFile
  <2>2. "out" \in Labels \ (Moving \cup Reached)
    BY DEF Labels, Moving, Reached
  <2>3. QED
    BY <1>2, <2>1, <2>2, FileReadTypes DEF MayCall
<1>4. /\ pc' \in [Tasks -> Labels] /\ pc'[t] = "FileRead"
      /\ \A u \in Tasks : u # t => pc'[u] = "out"
      /\ Single'
  BY <1>3, CallStep
<1>5. FsTypes' /\ CallTypes'
  BY <1>3, <1>4 DEF FsRead, IInv, Types, FsTypes, CallTypes
<1>6. /\ dev' \in DevT /\ dev' = [dev EXCEPT !.pos = dev'.pos] /\ UNCHANGED <<drive, tracks>>
  <2>1. fpos[t] + Start(file[t]) \in Nat
    BY <1>1
  <2>2. DevSeek(fpos[t] + Start(file[t])) \in 0..FLOPPY_SIZE
    BY <2>1, SeekOnDisk DEF IInv, Types
  <2>3. QED
    BY <2>2 DEF FsRead, IInv, Types, DriveTypes, DevT
<1>7. DriveTypes' /\ Approach' /\ Rest' /\ HeadsKnown' /\ BufferHoldsTrack'
  BY <1>3, <1>6, DriveStep
<1>8. WithinDisk'
  BY <1>4 DEF WithinDisk, Moving, Reached
<1>9. WithinFile'
  <2>1. Len(buf'[t]) = 0
    BY <1>3
  <2>2. QED
    BY <1>1, <1>2, <1>3, <1>4, <2>1 DEF FsRead, WithinFile, Amount, IInv
<1>10. QED
  BY <1>4, <1>5, <1>7, <1>8, <1>9 DEF IInv, Types

LEMMA FsReadReturnsKeeps ==
  ASSUME OneCaller, IInv, NEW t \in Tasks, FsReadReturns(t)
  PROVE  IInv'
<1>1. /\ Goto(t, "out") /\ pc[t] = "done" /\ phase = "mounted"
      /\ {"out", "done"} \subseteq Labels \ (Moving \cup Reached)
  BY DEF FsReadReturns, Labels, Moving, Reached
<1>2. /\ pc' \in [Tasks -> Labels] /\ \A u \in Tasks : pc'[u] = "out"
      /\ Single'
  BY <1>1, CallStep
<1>3. /\ file[t] # NONE /\ file[t].size \in Nat /\ fpos[t] \in Nat /\ Len(buf[t]) \in Nat
      /\ fpos[t] + Len(buf[t]) <= file[t].size
  <2>1. file[t] # NONE /\ fpos[t] + (Len(buf[t]) + 0) <= file[t].size
    BY <1>1 DEF IInv, WithinFile, Amount
  <2>2. file[t] \in Entries /\ fpos[t] \in Nat /\ buf[t] \in Seq(Int \cup {NONE})
    BY <2>1 DEF IInv, Types, FsTypes, CallTypes
  <2>3. Len(buf[t]) \in Nat /\ file[t].size \in Nat
    BY <2>2, DiskAssumption
  <2>4. QED
    BY <2>1, <2>2, <2>3
<1>4. FsTypes' /\ CallTypes'
  <2>1. <<>> \in Seq(Int \cup {NONE}) /\ fpos[t] + Len(buf[t]) \in Nat
    BY <1>3
  <2>2. QED
    BY <1>2, <2>1 DEF FsReadReturns, IInv, Types, FsTypes, CallTypes
<1>5. /\ dev' \in DevT /\ dev' = [dev EXCEPT !.pos = dev'.pos] /\ UNCHANGED <<drive, tracks>>
  BY DEF FsReadReturns, IInv, Types, DriveTypes, DevT
<1>6. DriveTypes' /\ Approach' /\ Rest' /\ HeadsKnown' /\ BufferHoldsTrack'
  BY <1>1, <1>5, DriveStep
<1>7. WithinDisk'
  BY <1>2 DEF WithinDisk, Moving, Reached
<1>8. WithinFile'
  BY <1>2, <1>3 DEF FsReadReturns, WithinFile, IInv, Types, FsTypes
<1>9. QED
  BY <1>2, <1>4, <1>6, <1>7, <1>8 DEF IInv, Types

-----------------------------------------------------------------------------
(* A step of a read that leaves the files as they are.                      *)
LEMMA ReadStep ==
  ASSUME IInv, NEW t \in Tasks, pc[t] # "out", \A u \in Tasks : u # t => pc'[u] = "out",
         UNCHANGED fs,
         Amount(t) \in Nat, Amount(t)' \in Nat, Amount(t)' <= Amount(t)
  PROVE  WithinFile'
<1>1. fpos \in [Tasks -> Nat] /\ \A u \in Tasks : file[u] # NONE => file[u].size \in Nat
  BY DiskAssumption DEF IInv, Types, FsTypes
<1>2. UNCHANGED <<phase, file, fpos>>
  BY DEF fs
<1>3. phase = "mounted" => file[t] # NONE /\ fpos[t] + Amount(t) <= file[t].size
  BY DEF IInv, WithinFile
<1>4. phase = "mounted" => file[t] # NONE /\ fpos[t] + Amount(t)' <= file[t].size
  BY <1>1, <1>3
<1>5. \A u \in Tasks : fpos'[u] <= IF file'[u] = NONE THEN 0 ELSE file'[u].size
  BY <1>2 DEF IInv, WithinFile
<1>6. \A u \in Tasks : phase' = "mounted" /\ pc'[u] # "out" =>
        file'[u] # NONE /\ fpos'[u] + Amount(u)' <= file'[u].size
  BY <1>2, <1>4
<1>7. QED
  BY <1>5, <1>6 DEF WithinFile

(* Copying.                                                                 *)
LEMMA BytesCopied ==
  ASSUME NEW s \in Seq(Int \cup {NONE}), NEW pos \in Int \cup {NONE}, NEW size \in Nat
  PROVE  /\ s \o Bytes(pos, size) \in Seq(Int \cup {NONE})
         /\ Len(s \o Bytes(pos, size)) = Len(s) + size
<1>1. /\ Bytes(pos, size) \in [1..size -> Int \cup {NONE}]
      /\ Bytes(pos, size) \in Seq(Int \cup {NONE}) /\ Len(Bytes(pos, size)) = size
  <2>1. Bytes(pos, size) \in [1..size -> Int \cup {NONE}]
    BY DEF Bytes
  <2>2. QED
    BY <2>1
<1>2. QED
  BY <1>1, ConcatProperties

LEMMA MemReadKeeps ==
  ASSUME OneCaller, IInv, NEW t \in Tasks, MemRead(t)
  PROVE  IInv'
<1> DEFINE nread == Lesser(left[t], FLOPPY_SIZE - dev.pos)
<1>1. /\ Goto(t, "done") /\ pc[t] = "FileRead"
      /\ {"FileRead", "done"} \subseteq Labels \ (Moving \cup Reached)
  BY DEF MemRead, Labels, Moving, Reached
<1>2. /\ pc' \in [Tasks -> Labels] /\ pc'[t] = "done"
      /\ \A u \in Tasks : u # t => pc'[u] = "out"
      /\ Single'
  BY <1>1, CallStep
<1>3. /\ nread \in Nat /\ nread <= left[t] /\ left[t] \in Nat
      /\ dev.pos \in 0..FLOPPY_SIZE /\ dev.pos + nread \in 0..FLOPPY_SIZE
  <2>1. left[t] \in Nat /\ dev.pos \in 0..FLOPPY_SIZE
    BY DEF IInv, Types, CallTypes, DriveTypes, DevT
  <2>2. QED
    BY <2>1, Sizing DEF Lesser
<1>4. /\ buf' = [buf EXCEPT ![t] = @ \o Bytes(dev.pos, nread)]
      /\ dev' = [dev EXCEPT !.pos = @ + nread]
  BY DEF MemRead
<1>5. /\ buf[t] \in Seq(Int \cup {NONE}) /\ Len(buf[t]) \in Nat
      /\ buf'[t] \in Seq(Int \cup {NONE}) /\ Len(buf'[t]) = Len(buf[t]) + nread
  <2>1. buf \in [Tasks -> Seq(Int \cup {NONE})]
    BY DEF IInv, Types, CallTypes
  <2>2. buf'[t] = buf[t] \o Bytes(dev.pos, nread)
    BY <1>4, <2>1
  <2>3. dev.pos \in Int \cup {NONE}
    BY <1>3, Sizing
  <2>4. buf[t] \in Seq(Int \cup {NONE}) /\ Len(buf[t]) \in Nat
    BY <2>1
  <2> HIDE DEF nread
  <2>5. /\ buf[t] \o Bytes(dev.pos, nread) \in Seq(Int \cup {NONE})
        /\ Len(buf[t] \o Bytes(dev.pos, nread)) = Len(buf[t]) + nread
    BY <1>3, <2>3, <2>4, BytesCopied, Zenon
  <2>6. QED
    BY <2>2, <2>4, <2>5
<1>6. FsTypes' /\ CallTypes'
  <2>1. FsTypes'
    BY DEF MemRead, fs, IInv, Types, FsTypes
  <2>2. buf' \in [Tasks -> Seq(Int \cup {NONE})]
    BY <1>4, <1>5 DEF IInv, Types, CallTypes
  <2>3. QED
    BY <1>2, <2>1, <2>2 DEF MemRead, IInv, Types, CallTypes
<1>7. /\ dev' \in DevT /\ dev' = [dev EXCEPT !.pos = dev'.pos] /\ UNCHANGED <<drive, tracks>>
  BY <1>3, <1>4 DEF MemRead, IInv, Types, DriveTypes, DevT
<1>8. DriveTypes' /\ Approach' /\ Rest' /\ HeadsKnown' /\ BufferHoldsTrack'
  BY <1>1, <1>7, DriveStep
<1>9. WithinDisk'
  BY <1>2 DEF WithinDisk, Moving, Reached
<1>10. WithinFile'
  <2>1. Amount(t) = Len(buf[t]) + left[t]
    BY <1>1 DEF Amount
  <2>2. Amount(t)' = Len(buf[t]) + nread
    BY <1>2, <1>3, <1>5 DEF Amount
  <2> HIDE DEF nread
  <2>3. Amount(t) \in Nat /\ Amount(t)' \in Nat /\ Amount(t)' <= Amount(t)
    BY <1>3, <1>5, <2>1, <2>2
  <2>4. UNCHANGED fs
    BY DEF MemRead
  <2>5. QED
    BY <1>1, <1>2, <2>3, <2>4, ReadStep
<1>11. QED
  BY <1>2, <1>6, <1>8, <1>9, <1>10 DEF IInv, Types

LEMMA FloppyReadKeeps ==
  ASSUME OneCaller, IInv, NEW t \in Tasks, FloppyRead(t)
  PROVE  IInv'
<1> DEFINE rest == Lesser(left[t], FLOPPY_SIZE - dev.pos)
           label == IF rest = 0 THEN "done" ELSE "loop"
<1>1. /\ left[t] \in Nat /\ rest \in Nat /\ rest <= left[t] /\ rest <= FLOPPY_SIZE - dev.pos
  <2>1. left[t] \in Nat /\ dev.pos \in 0..FLOPPY_SIZE
    BY DEF IInv, Types, CallTypes, DriveTypes, DevT
  <2>2. QED
    BY <2>1, Sizing DEF Lesser
<1>2. left' \in [Tasks -> Nat] /\ left'[t] = rest
  BY <1>1 DEF FloppyRead, IInv, Types, CallTypes
<1>3. /\ Goto(t, label) /\ pc[t] = "FileRead"
      /\ {"FileRead", label} \subseteq Labels \ (Moving \cup Reached)
  BY <1>2 DEF FloppyRead, Labels, Moving, Reached
<1>4. /\ pc' \in [Tasks -> Labels] /\ pc'[t] = label
      /\ \A u \in Tasks : u # t => pc'[u] = "out"
      /\ Single'
  BY <1>3, CallStep
<1>5. FsTypes' /\ CallTypes'
  BY <1>2, <1>4 DEF FloppyRead, fs, IInv, Types, FsTypes, CallTypes
<1>6. /\ dev' \in DevT /\ dev' = [dev EXCEPT !.pos = dev'.pos] /\ UNCHANGED <<drive, tracks>>
  BY DEF FloppyRead, IInv, Types, DriveTypes, DevT
<1>7. DriveTypes' /\ Approach' /\ Rest' /\ HeadsKnown' /\ BufferHoldsTrack'
  BY <1>3, <1>6, DriveStep
<1>8. WithinDisk'
  BY <1>1, <1>2, <1>4 DEF FloppyRead, WithinDisk, Moving, Reached
<1>9. WithinFile'
  <2>1. Len(buf[t]) \in Nat /\ buf' = buf
    BY DEF FloppyRead, IInv, Types, CallTypes
  <2>2. Amount(t) = Len(buf[t]) + left[t]
    BY <1>3 DEF Amount
  <2>3. Amount(t)' = Len(buf[t]) + rest
    BY <1>1, <1>2, <1>4, <2>1 DEF Amount
  <2>4. QED
    BY <1>1, <1>3, <1>4, <2>1, <2>2, <2>3, ReadStep DEF FloppyRead
<1>10. QED
  BY <1>4, <1>5, <1>7, <1>8, <1>9 DEF IInv, Types

(* The end of the loop body, from either kind of buffer.                    *)
LEMMA CopyStep ==
  ASSUME OneCaller, IInv, NEW t \in Tasks, pc[t] \in {"loop", "decode"},
         NEW in \in Tracks \cup {NONE}, NEW trkInBuf \in Tracks,
         Copy(t, dev.pos, in, trkInBuf), UNCHANGED <<fs, at>>
  PROVE  /\ FsTypes' /\ CallTypes' /\ Single' /\ WithinFile' /\ WithinDisk'
         /\ dev' \in DevT /\ dev' = [dev EXCEPT !.pos = dev'.pos, !.trkInBuf = trkInBuf]
         /\ \A u \in Tasks : pc'[u] \in {"out", "done", "loop"}
<1> DEFINE off == dev.pos % TRACK_SIZE
           size == Lesser(left[t], TRACK_SIZE - off)
           label == IF left[t] - size = 0 THEN "done" ELSE "loop"
<1>1. /\ dev.pos \in 0..FLOPPY_SIZE /\ left[t] \in Nat /\ 0 < left[t]
      /\ left[t] <= FLOPPY_SIZE - dev.pos /\ dev.kind = "floppy"
  BY DEF IInv, WithinDisk, Types, DriveTypes, CallTypes, DevT, Reached
<1>2. off \in 0..(TRACK_SIZE - 1) /\ dev.pos \in Nat
  BY <1>1, Offset, Sizing
<1>3. size \in Nat /\ size <= left[t]
  BY <1>1, <1>2, Sizing DEF Lesser
<1>4. Same(dev.pos, in) \in Int \cup {NONE}
  <2>1. CASE in = NONE
    BY <2>1 DEF Same
  <2>2. CASE in # NONE
    <3>1. in \in Nat /\ in * TRACK_SIZE \in Int
      BY <2>2, Sizing DEF Tracks
    <3>2. QED
      BY <1>2, <2>2, <3>1, Sizing DEF Same
  <2>3. QED
    BY <2>1, <2>2
<1>5. /\ buf' = [buf EXCEPT ![t] = @ \o Bytes(Same(dev.pos, in), size)]
      /\ left' = [left EXCEPT ![t] = @ - size]
      /\ dev' = [dev EXCEPT !.pos = @ + size, !.trkInBuf = trkInBuf]
      /\ Goto(t, IF left'[t] = 0 THEN "done" ELSE "loop")
  BY DEF Copy
<1>6. left' \in [Tasks -> Nat] /\ left'[t] = left[t] - size
  BY <1>1, <1>3, <1>5 DEF IInv, Types, CallTypes
<1>7. /\ buf' \in [Tasks -> Seq(Int \cup {NONE})] /\ Len(buf[t]) \in Nat
      /\ Len(buf'[t]) = Len(buf[t]) + size
  <2>1. buf \in [Tasks -> Seq(Int \cup {NONE})]
    BY DEF IInv, Types, CallTypes
  <2>2. buf'[t] = buf[t] \o Bytes(Same(dev.pos, in), size)
    BY <1>5, <2>1
  <2>3. buf[t] \in Seq(Int \cup {NONE}) /\ Len(buf[t]) \in Nat
    BY <2>1
  <2> HIDE DEF size
  <2>4. /\ buf[t] \o Bytes(Same(dev.pos, in), size) \in Seq(Int \cup {NONE})
        /\ Len(buf[t] \o Bytes(Same(dev.pos, in), size)) = Len(buf[t]) + size
    BY <1>3, <1>4, <2>3, BytesCopied, Zenon
  <2>5. buf'[t] \in Seq(Int \cup {NONE}) /\ Len(buf'[t]) = Len(buf[t]) + size
    BY <2>2, <2>4
  <2>6. QED
    BY <1>5, <2>1, <2>3, <2>5
<1>8. /\ label \in Labels /\ Goto(t, label) /\ pc[t] # "out"
  BY <1>5, <1>6 DEF Labels
<1>9. /\ pc' \in [Tasks -> Labels] /\ pc'[t] = label
      /\ \A u \in Tasks : u # t => pc'[u] = "out"
      /\ Single'
  BY <1>8, CallStep
<1>10. FsTypes' /\ CallTypes'
  BY <1>6, <1>7, <1>9 DEF fs, IInv, Types, FsTypes, CallTypes
<1>11. dev' \in DevT /\ dev'.pos = dev.pos + size /\ dev'.kind = "floppy"
  <2>1. dev.pos + size \in 0..FLOPPY_SIZE
    BY <1>1, <1>3, Sizing
  <2>2. QED
    BY <1>1, <1>5, <2>1 DEF IInv, Types, DriveTypes, DevT
<1>12. dev' = [dev EXCEPT !.pos = dev'.pos, !.trkInBuf = trkInBuf]
  BY <1>5, <1>11 DEF IInv, Types, DriveTypes, DevT
<1>13. WithinDisk'
  BY <1>1, <1>3, <1>6, <1>9, <1>11, Sizing DEF WithinDisk, Moving, Reached
<1>14. WithinFile'
  <2>1. Amount(t) = Len(buf[t]) + left[t]
    BY <1>8 DEF Amount
  <2>2. Amount(t)' = (Len(buf[t]) + size) + (left[t] - size)
    BY <1>1, <1>3, <1>6, <1>7, <1>9 DEF Amount
  <2>3. Amount(t) \in Nat /\ Amount(t)' = Amount(t)
    BY <1>1, <1>3, <1>7, <2>1, <2>2
  <2>4. QED
    BY <1>8, <1>9, <2>3, ReadStep
<1>15. QED
  BY <1>9, <1>10, <1>11, <1>12, <1>13, <1>14

LEMMA OnTrack ==
  ASSUME IInv, NEW t \in Tasks, pc[t] \in {"loop"} \cup Moving \cup Reached
  PROVE  /\ dev.kind = "floppy" /\ dev.pos \in Nat /\ Track(dev.pos) \in Tracks
         /\ pc[t] # "loop" => at[t] = dev.pos
         /\ pc[t] # "out" /\ pc[t] # "done"
<1>1. /\ dev.pos \in 0..FLOPPY_SIZE /\ left[t] \in Nat /\ 0 < left[t]
      /\ left[t] <= FLOPPY_SIZE - dev.pos /\ dev.kind = "floppy"
      /\ pc[t] # "loop" => at[t] = dev.pos
  BY DEF IInv, WithinDisk, Types, DriveTypes, CallTypes, DevT
<1>2. dev.pos \in Nat /\ dev.pos < FLOPPY_SIZE
  BY <1>1, Sizing
<1>3. QED
  BY <1>1, <1>2, TrackOnDisk DEF Moving, Reached

LEMMA ReadBufferedKeeps ==
  ASSUME OneCaller, IInv, NEW t \in Tasks, ReadBuffered(t)
  PROVE  IInv'
<1>1. /\ pc[t] = "loop" /\ dev.trkInBuf \in Tracks /\ decoded \in Tracks \cup {NONE}
      /\ Copy(t, dev.pos, decoded, dev.trkInBuf) /\ UNCHANGED <<fs, drive, tracks, at>>
  <2>1. pc[t] = "loop" /\ dev.trkInBuf = Track(dev.pos)
    BY DEF ReadBuffered
  <2>2. Track(dev.pos) \in Tracks
    BY <2>1, OnTrack
  <2>3. QED
    BY <2>1, <2>2 DEF ReadBuffered, IInv, Types, DriveTypes
<1>2. /\ FsTypes' /\ CallTypes' /\ Single' /\ WithinFile' /\ WithinDisk'
      /\ dev' \in DevT /\ dev' = [dev EXCEPT !.pos = dev'.pos, !.trkInBuf = dev.trkInBuf]
      /\ \A u \in Tasks : pc'[u] \in {"out", "done", "loop"}
  BY <1>1, CopyStep
<1>3. dev' = [dev EXCEPT !.pos = dev'.pos]
  BY <1>2 DEF IInv, Types, DriveTypes, DevT
<1>4. PICK label \in {"done", "loop"} : Goto(t, label)
  BY DEF ReadBuffered, Copy
<1>5. label \in Labels \ (Moving \cup Reached) /\ pc[t] \in Labels \ (Moving \cup Reached)
  BY <1>1, <1>4 DEF Labels, Moving, Reached
<1>6. DriveTypes' /\ Approach' /\ Rest' /\ HeadsKnown' /\ BufferHoldsTrack'
  BY <1>1, <1>2, <1>3, <1>4, <1>5, DriveStep
<1>7. QED
  BY <1>2, <1>6 DEF IInv, Types

LEMMA FloppyTrackDecodeKeeps ==
  ASSUME OneCaller, IInv, NEW t \in Tasks, FloppyTrackDecode(t)
  PROVE  IInv'
<1> DEFINE num == Track(at[t])
<1>1. /\ pc[t] = "decode" /\ at[t] = dev.pos /\ num \in Tracks
      /\ decoded' = encoded /\ UNCHANGED <<fs, drive, encoded, at>>
      /\ Copy(t, dev.pos, encoded, num)
  <2>1. pc[t] = "decode" /\ pc[t] \in Reached
    BY DEF FloppyTrackDecode, Reached
  <2>2. at[t] = dev.pos /\ Track(dev.pos) \in Tracks
    BY <2>1, OnTrack
  <2>3. QED
    BY <2>1, <2>2 DEF FloppyTrackDecode
<1>2. encoded = num /\ dev.trackNum = num
  BY <1>1 DEF IInv, Approach, Reached
<1>3. /\ FsTypes' /\ CallTypes' /\ Single' /\ WithinFile' /\ WithinDisk'
      /\ dev' \in DevT /\ dev' = [dev EXCEPT !.pos = dev'.pos, !.trkInBuf = num]
      /\ \A u \in Tasks : pc'[u] \in {"out", "done", "loop"}
  BY <1>1, <1>2, CopyStep
<1>4. /\ dev'.trackNum = num /\ dev'.trkInBuf = num /\ num # -1
      /\ dev'.kind = dev.kind
  <2>1. num # -1
    BY <1>1 DEF Tracks
  <2>2. dev \in DevT
    BY DEF IInv, Types, DriveTypes
  <2>3. QED
    BY <1>2, <1>3, <2>1, <2>2 DEF DevT
<1>5. DriveTypes'
  BY <1>1, <1>3 DEF IInv, Types, DriveTypes, drive
<1>6. Approach' /\ Rest' /\ BufferHoldsTrack'
  <2>1. \A u \in Tasks : pc'[u] \notin Moving \cup Reached
    BY <1>3 DEF Moving, Reached
  <2>2. Approach'
    BY <2>1 DEF Approach, Reached
  <2>3. Rest' /\ BufferHoldsTrack'
    BY <1>1, <1>2, <1>4 DEF Rest, BufferHoldsTrack
  <2>4. QED
    BY <2>2, <2>3
<1>7. HeadsKnown'
  <2>1. ~(\E u \in Tasks : pc'[u] = "stepped")
    BY <1>3
  <2>2. ~(\E u \in Tasks : pc[u] = "stepped")
    BY <1>1 DEF IInv, Single
  <2>3. 2 * cyl + side = dev.trackNum + 0
    BY <1>1, <1>2, <1>4, <2>2, OnTrack DEF HeadsKnown, IInv, Reached
  <2>4. QED
    BY <1>1, <1>2, <1>4, <2>1, <2>3 DEF HeadsKnown, drive
<1>8. QED
  BY <1>3, <1>5, <1>6, <1>7 DEF IInv, Types

-----------------------------------------------------------------------------
(* Steps of FloppyTrackRead.                                                *)
LEMMA TrackReadStep ==
  ASSUME OneCaller, IInv, NEW t \in Tasks, NEW label \in Moving \cup Reached,
         pc[t] \in {"loop"} \cup Moving \cup Reached, Goto(t, label),
         dev' \in DevT,
         dev' = [dev EXCEPT !.trackNum = dev'.trackNum, !.headDir = dev'.headDir],
         at' \in [Tasks -> Nat], at'[t] = dev.pos,
         UNCHANGED <<fs, decoded, left, buf>>
  PROVE  /\ FsTypes' /\ CallTypes' /\ Single' /\ WithinFile' /\ WithinDisk' /\ Rest'
         /\ BufferHoldsTrack'
         /\ pc'[t] = label /\ \A u \in Tasks : u # t => pc[u] = "out" /\ pc'[u] = "out"
         /\ (\E u \in Tasks : pc[u] = "stepped") <=> pc[t] = "stepped"
         /\ (\E u \in Tasks : pc[u] = "stepped")' <=> label = "stepped"
<1>1. label \in Labels /\ label # "done" /\ pc[t] # "out" /\ pc[t] # "done"
  BY DEF Moving, Reached, Labels
<1>2. /\ pc' \in [Tasks -> Labels] /\ pc'[t] = label /\ Single'
      /\ \A u \in Tasks : u # t => pc[u] = "out" /\ pc'[u] = "out"
      /\ (\E u \in Tasks : pc[u] = "stepped") <=> pc[t] = "stepped"
      /\ (\E u \in Tasks : pc[u] = "stepped")' <=> label = "stepped"
  BY <1>1, CallStep
<1>3. FsTypes' /\ CallTypes'
  BY <1>2 DEF fs, IInv, Types, FsTypes, CallTypes
<1>4. dev'.pos = dev.pos /\ dev'.kind = dev.kind /\ dev'.trkInBuf = dev.trkInBuf
  BY DEF IInv, Types, DriveTypes, DevT
<1>5. WithinDisk'
  BY <1>2, <1>4 DEF IInv, WithinDisk, Moving, Reached
<1>6. WithinFile'
  <2>1. Amount(t)' = Amount(t) /\ Amount(t) \in Nat
    BY <1>1, <1>2 DEF Amount, IInv, Types, CallTypes
  <2>2. QED
    BY <1>1, <1>2, <2>1, ReadStep
<1>7. Rest'
  BY <1>2 DEF Rest
<1>8. BufferHoldsTrack'
  BY <1>4 DEF BufferHoldsTrack, IInv
<1>9. QED
  BY <1>2, <1>3, <1>5, <1>6, <1>7, <1>8

LEMMA FloppyTrackReadKeeps ==
  ASSUME OneCaller, IInv, NEW t \in Tasks, FloppyTrackRead(t)
  PROVE  IInv'
<1> DEFINE num == Track(dev.pos)
           old == IF dev.trackNum = -1 THEN 0 ELSE dev.trackNum
           new == ChangeDiskSide(num, old)
           label == IF num = new THEN "settled" ELSE "turned"
<1>1. pc[t] = "loop" /\ dev.trkInBuf # num /\ dev.kind = "floppy" /\ num \in Tracks
  BY OnTrack DEF FloppyTrackRead
<1>2. \A u \in Tasks : pc[u] \notin Moving \cup Reached
  BY <1>1 DEF IInv, Single, Moving, Reached
<1>3. dev.trackNum # num
  BY <1>1, <1>2 DEF IInv, Rest
<1>4. /\ side' = IF (num + old) % 2 = 1 THEN num % 2 ELSE side
      /\ dev' = [dev EXCEPT !.trackNum = new,
                            !.headDir = IF num > new THEN 2 ELSE IF num < new THEN -2 ELSE @]
      /\ Goto(t, label) /\ at' = [at EXCEPT ![t] = dev.pos]
      /\ UNCHANGED <<fs, cyl, dma, tracks, left, buf>>
  BY <1>3 DEF FloppyTrackRead
<1>5. /\ dev.trackNum \in Tracks \cup {-1} /\ old \in Tracks /\ dev \in DevT
      /\ cyl \in Int /\ side \in {0, 1} /\ 2 * cyl + side = old
  <2>1. /\ dev.trackNum \in Tracks \cup {-1} /\ dev \in DevT
        /\ cyl \in Int /\ side \in {0, 1}
    BY Sizing DEF IInv, Types, DriveTypes, DevT
  <2>2. old \in Tracks
    BY <2>1, Sizing DEF Tracks
  <2>3. ~(\E u \in Tasks : pc[u] = "stepped")
    BY <1>2 DEF Moving
  <2>4. 2 * cyl + side = IF dev.trackNum = -1 THEN 0 ELSE dev.trackNum + 0
    BY <1>1, <2>3 DEF IInv, HeadsKnown
  <2>5. QED
    BY <2>1, <2>2, <2>4 DEF Tracks
<1>6. /\ new \in Tracks /\ (num + new) % 2 = 0
      /\ side' \in {0, 1} /\ 2 * cyl + side' = new
  <2> HIDE DEF old, num
  <2>1. /\ num \in Nat /\ old \in Nat /\ NTRACKS \in Nat /\ NTRACKS % 2 = 0
        /\ num <= NTRACKS - 1 /\ old <= NTRACKS - 1
    BY <1>1, <1>5, Sizing, DiskAssumption DEF Tracks
  <2>2. CASE (num + old) % 2 = 0
    BY <1>1, <1>4, <1>5, <2>1, <2>2 DEF ChangeDiskSide
  <2>3. CASE (num + old) % 2 = 1 /\ num % 2 = 1
    <3>1. new = old + 1 /\ side' = 1 /\ old % 2 = 0
      BY <1>4, <2>1, <2>3 DEF ChangeDiskSide
    <3>2. side = 0 /\ old + 1 <= NTRACKS - 1 /\ (num + (old + 1)) % 2 = 0
      BY <1>5, <2>1, <2>3, <3>1
    <3>3. QED
      BY <1>5, <2>1, <3>1, <3>2 DEF Tracks
  <2>4. CASE (num + old) % 2 = 1 /\ num % 2 = 0
    <3>1. new = old - 1 /\ side' = 0 /\ old % 2 = 1
      BY <1>4, <2>1, <2>4 DEF ChangeDiskSide
    <3>2. side = 1 /\ 0 <= old - 1 /\ (num + (old - 1)) % 2 = 0
      BY <1>5, <2>1, <2>4, <3>1
    <3>3. QED
      BY <1>5, <2>1, <3>1, <3>2 DEF Tracks
  <2>5. QED
    BY <2>1, <2>2, <2>3, <2>4
<1> HIDE DEF num, old, new
<1>7. /\ dev' \in DevT /\ dev'.trackNum = new
      /\ dev' = [dev EXCEPT !.trackNum = dev'.trackNum, !.headDir = dev'.headDir]
      /\ dev'.headDir = IF num > new THEN 2 ELSE IF num < new THEN -2 ELSE dev.headDir
      /\ dev'.kind = "floppy"
  BY <1>1, <1>4, <1>5, <1>6 DEF DevT
<1>8. label \in {"settled", "turned"} /\ label \in Moving \cup Reached
  BY DEF Moving, Reached
<1>9. at' \in [Tasks -> Nat] /\ at'[t] = dev.pos /\ Track(at'[t]) = num
  BY <1>1, <1>4, OnTrack DEF IInv, Types, CallTypes, num
<1>10. /\ FsTypes' /\ CallTypes' /\ Single' /\ WithinFile' /\ WithinDisk' /\ Rest'
       /\ BufferHoldsTrack'
       /\ pc'[t] = label /\ \A u \in Tasks : u # t => pc'[u] = "out"
       /\ ~(\E u \in Tasks : pc[u] = "stepped")'
  BY <1>1, <1>4, <1>7, <1>8, <1>9, TrackReadStep DEF tracks
<1>11. DriveTypes'
  BY <1>4, <1>6, <1>7 DEF IInv, Types, DriveTypes, tracks
<1>12. HeadsKnown'
  <2>1. new # -1 /\ new + 0 = new /\ cyl' = cyl
    BY <1>4, <1>6 DEF Tracks
  <2>2. QED
    BY <1>6, <1>7, <1>10, <2>1 DEF HeadsKnown
<1>13. Approach'
  <2>1. \A u \in Tasks : u # t => pc'[u] \notin Moving \cup Reached
    BY <1>10 DEF Moving, Reached
  <2>2. CASE num = new
    BY <1>7, <1>9, <1>10, <2>1, <2>2 DEF Approach, Moving, Reached
  <2>3. CASE num # new
    <3>1. new # -1 /\ (num > new \/ num < new)
      BY <1>1, <1>6, <2>3 DEF Tracks, num
    <3>2. QED
      BY <1>6, <1>7, <1>9, <1>10, <2>1, <2>3, <3>1 DEF Approach, Moving, Reached
  <2>4. QED
    BY <2>2, <2>3
<1>14. QED
  BY <1>10, <1>11, <1>12, <1>13 DEF IInv, Types

LEMMA StepHeadsKeeps ==
  ASSUME OneCaller, IInv, NEW t \in Tasks, StepHeads(t)
  PROVE  IInv'
<1> DEFINE num == Track(at[t])
           trackNum == dev.trackNum + IF pc[t] = "stepped" THEN dev.headDir ELSE 0
           label == IF trackNum = num THEN "settled" ELSE "stepped"
<1>1. /\ pc[t] \in Moving /\ pc[t] \in {"loop"} \cup Moving \cup Reached /\ pc[t] # "loop"
      /\ dev' = [dev EXCEPT !.trackNum = trackNum] /\ Goto(t, label)
      /\ IF trackNum = num THEN UNCHANGED cyl ELSE cyl' = cyl + dev.headDir \div 2
      /\ UNCHANGED <<fs, side, dma, tracks, left, buf, at>>
  BY DEF StepHeads, Moving
<1>2. dev.kind = "floppy" /\ at[t] = dev.pos /\ num \in Tracks
  BY <1>1, OnTrack
<1>3. /\ dev.trackNum \in Tracks /\ (num + dev.trackNum) % 2 = 0
      /\ \/ dev.headDir = 2 /\ dev.trackNum < num
         \/ dev.headDir = -2 /\ num < dev.trackNum
      /\ dev \in DevT /\ cyl \in Int /\ side \in {0, 1}
  <2>1. /\ dev.trackNum \in Tracks \cup {-1} /\ dev \in DevT /\ cyl \in Int /\ side \in {0, 1}
    BY Sizing DEF IInv, Types, DriveTypes, DevT
  <2>2. /\ dev.trackNum # -1 /\ (num + dev.trackNum) % 2 = 0
        /\ \/ dev.headDir = 2 /\ dev.trackNum < num
           \/ dev.headDir = -2 /\ num < dev.trackNum
    BY <1>1 DEF IInv, Approach
  <2>3. QED
    BY <2>1, <2>2
<1>4. 2 * cyl + side = trackNum
  <2>1. (\E u \in Tasks : pc[u] = "stepped") <=> pc[t] = "stepped"
    BY <1>1 DEF IInv, Single, Moving
  <2>2. dev.trackNum # -1
    BY <1>3 DEF Tracks
  <2>3. QED
    BY <1>2, <2>1, <2>2 DEF IInv, HeadsKnown
<1>5. /\ trackNum \in Tracks /\ (num + trackNum) % 2 = 0
      /\ \/ trackNum = num
         \/ dev.headDir = 2 /\ trackNum < num /\ trackNum + 2 <= num
         \/ dev.headDir = -2 /\ num < trackNum /\ num <= trackNum - 2
  <2> HIDE DEF num
  <2>1. num \in 0..(NTRACKS - 1) /\ dev.trackNum \in 0..(NTRACKS - 1) /\ NTRACKS \in Nat
    BY <1>2, <1>3, Sizing DEF Tracks
  <2>2. QED
    BY <1>3, <2>1 DEF Tracks
<1> HIDE DEF trackNum, num
<1>6. /\ dev' \in DevT /\ dev'.trackNum = trackNum /\ dev'.headDir = dev.headDir
      /\ dev' = [dev EXCEPT !.trackNum = dev'.trackNum, !.headDir = dev'.headDir]
      /\ dev'.kind = "floppy"
  BY <1>1, <1>2, <1>3, <1>5 DEF DevT
<1>7. label \in Moving \cup Reached /\ at' \in [Tasks -> Nat] /\ at'[t] = dev.pos
  BY <1>1, <1>2 DEF Moving, Reached, IInv, Types, CallTypes
<1>8. /\ FsTypes' /\ CallTypes' /\ Single' /\ WithinFile' /\ WithinDisk' /\ Rest'
      /\ BufferHoldsTrack'
      /\ pc'[t] = label /\ \A u \in Tasks : u # t => pc'[u] = "out"
      /\ (\E u \in Tasks : pc[u] = "stepped")' <=> label = "stepped"
  BY <1>1, <1>6, <1>7, TrackReadStep DEF tracks
<1>9. Track(at'[t]) = num /\ \A u \in Tasks : u # t => pc'[u] \notin Moving \cup Reached
  BY <1>1, <1>8 DEF num, Moving, Reached
<1>10. /\ 2 * cyl' + side = trackNum + IF label = "stepped" THEN dev.headDir ELSE 0
       /\ cyl' \in 0..((NTRACKS - 1) \div 2)
  <2>1. /\ num \in 0..(NTRACKS - 1) /\ trackNum \in 0..(NTRACKS - 1) /\ NTRACKS \in Nat \ {0}
    BY <1>2, <1>5, Sizing DEF Tracks
  <2>2. CASE trackNum = num
    BY <1>1, <1>3, <1>4, <2>1, <2>2
  <2>3. CASE trackNum # num /\ dev.headDir = 2
    <3>1. cyl' = cyl + 1 /\ trackNum + 2 <= num
      BY <1>1, <1>3, <1>5, <2>1, <2>3
    <3>2. QED
      BY <1>3, <1>4, <2>1, <2>3, <3>1
  <2>4. CASE trackNum # num /\ dev.headDir = -2
    <3>1. cyl' = cyl - 1 /\ num <= trackNum - 2
      BY <1>1, <1>3, <1>5, <2>1, <2>4
    <3>2. QED
      BY <1>3, <1>4, <2>1, <2>4, <3>1
  <2>5. QED
    BY <1>3, <2>2, <2>3, <2>4
<1>11. DriveTypes'
  BY <1>1, <1>6, <1>10 DEF IInv, Types, DriveTypes, tracks
<1>12. HeadsKnown'
  <2>1. trackNum # -1 /\ side' = side
    BY <1>1, <1>5 DEF Tracks
  <2>2. QED
    BY <1>6, <1>8, <1>10, <2>1 DEF HeadsKnown
<1>13. Approach'
  <2>1. CASE trackNum = num
    BY <1>6, <1>8, <1>9, <2>1 DEF Approach, Moving, Reached
  <2>2. CASE trackNum # num
    <3>1. trackNum # -1
      BY <1>5 DEF Tracks
    <3>2. QED
      BY <1>5, <1>6, <1>8, <1>9, <2>2, <3>1 DEF Approach, Moving, Reached
  <2>3. QED
    BY <2>1, <2>2
<1>14. QED
  BY <1>8, <1>11, <1>12, <1>13 DEF IInv, Types

(* The heads are on the track: the rest of FloppyTrackRead.                 *)
LEMMA ReachedStep ==
  ASSUME OneCaller, IInv, NEW t \in Tasks, NEW label \in Reached, pc[t] \in Reached,
         Goto(t, label), dma' \in BOOLEAN,
         label \in {"read", "decode"} => encoded = Track(at[t]) /\ ~dma',
         UNCHANGED <<fs, dev, cyl, side, tracks, left, buf, at>>
  PROVE  IInv'
<1>1. at[t] = dev.pos
  BY OnTrack DEF Reached
<1>2. /\ label \in Moving \cup Reached /\ pc[t] \in {"loop"} \cup Moving \cup Reached
      /\ dev' \in DevT /\ at' \in [Tasks -> Nat] /\ at'[t] = dev.pos
      /\ dev' = [dev EXCEPT !.trackNum = dev'.trackNum, !.headDir = dev'.headDir]
  BY <1>1 DEF IInv, Types, DriveTypes, CallTypes, DevT
<1>3. /\ FsTypes' /\ CallTypes' /\ Single' /\ WithinFile' /\ WithinDisk' /\ Rest'
      /\ BufferHoldsTrack'
      /\ pc'[t] = label /\ \A u \in Tasks : u # t => pc'[u] = "out"
      /\ (\E u \in Tasks : pc[u] = "stepped") <=> pc[t] = "stepped"
      /\ (\E u \in Tasks : pc[u] = "stepped")' <=> label = "stepped"
  BY <1>2, TrackReadStep DEF tracks
<1>4. DriveTypes'
  BY DEF IInv, Types, DriveTypes, tracks
<1>5. HeadsKnown'
  BY <1>3 DEF HeadsKnown, IInv, Reached
<1>6. Approach'
  <2>1. \A u \in Tasks : u # t => pc'[u] \notin Moving \cup Reached
    BY <1>3 DEF Moving, Reached
  <2>2. dev.trackNum = Track(at[t]) /\ label \notin Moving
    BY DEF IInv, Approach, Moving, Reached
  <2>3. QED
    BY <1>3, <2>1, <2>2 DEF Approach, Reached, tracks
<1>7. QED
  BY <1>3, <1>4, <1>5, <1>6 DEF IInv, Types

LEMMA StartDMAKeeps ==
  ASSUME OneCaller, IInv, NEW t \in Tasks, StartDMA(t) \/ WaitForBlock(t)
  PROVE  IInv'
<1>1. CASE StartDMA(t)
  BY <1>1, ReachedStep DEF StartDMA, Reached
<1>2. CASE WaitForBlock(t)
  BY <1>2, ReachedStep DEF WaitForBlock, drive, Reached, IInv, Types, DriveTypes
<1>3. QED
  BY <1>1, <1>2

LEMMA FloppyTrackReadEndKeeps ==
  ASSUME OneCaller, IInv, NEW t \in Tasks, FloppyTrackReadEnd(t)
  PROVE  IInv'
<1>1. encoded = Track(at[t]) /\ "decode" \in Reached /\ pc[t] \in Reached
  BY DEF FloppyTrackReadEnd, IInv, Approach, Reached
<1>2. QED
  BY <1>1, ReachedStep DEF FloppyTrackReadEnd

LEMMA DiskBlockInterruptKeeps ==
  ASSUME OneCaller, IInv, DiskBlockInterrupt
  PROVE  IInv'
<1>1. /\ dma /\ dma' = FALSE /\ encoded' = 2 * cyl + side
      /\ pc' = [t \in Tasks |-> IF pc[t] = "DSKBLK" THEN "read" ELSE pc[t]]
      /\ UNCHANGED <<fs, dev, cyl, side, decoded, left, buf, at>>
  BY DEF DiskBlockInterrupt
<1>2. pc \in [Tasks -> Labels]
  BY DEF IInv, Types, CallTypes
<1>3. \A u \in Tasks :
        /\ pc'[u] = pc[u] \/ (pc[u] = "DSKBLK" /\ pc'[u] = "read")
        /\ (pc'[u] # "out") <=> (pc[u] # "out")
        /\ (pc'[u] = "done") <=> (pc[u] = "done")
        /\ (pc'[u] = "stepped") <=> (pc[u] = "stepped")
        /\ (pc'[u] = "loop") <=> (pc[u] = "loop")
        /\ (pc'[u] \in Moving) <=> (pc[u] \in Moving)
        /\ (pc'[u] \in Reached) <=> (pc[u] \in Reached)
  <2> TAKE u \in Tasks
  <2>1. CASE pc[u] = "DSKBLK"
    <3>1. pc'[u] = "read"
      BY <1>1, <2>1
    <3>2. QED
      BY <2>1, <3>1 DEF Moving, Reached
  <2>2. CASE pc[u] # "DSKBLK"
    <3>1. pc'[u] = pc[u]
      BY <1>1, <2>2
    <3>2. QED
      BY <3>1
  <2>3. QED
    BY <2>1, <2>2
<1>4. FsTypes' /\ CallTypes'
  BY <1>1, <1>2 DEF fs, IInv, Types, FsTypes, CallTypes, Labels
<1>5. DriveTypes'
  <2>1. /\ cyl \in 0..((NTRACKS - 1) \div 2) /\ side \in {0, 1}
        /\ NTRACKS \in Nat \ {0} /\ NTRACKS % 2 = 0
    BY Sizing, DiskAssumption DEF IInv, Types, DriveTypes
  <2>2. 2 * cyl + side \in Tracks
    BY <2>1 DEF Tracks
  <2>3. QED
    BY <1>1, <2>2 DEF IInv, Types, DriveTypes
<1>6. Single'
  BY <1>3 DEF IInv, Single
<1>7. WithinFile'
  BY <1>1, <1>3 DEF fs, IInv, WithinFile, Amount
<1>8. WithinDisk'
  BY <1>1, <1>3 DEF IInv, WithinDisk
<1>9. Approach'
  <2> SUFFICES ASSUME NEW u \in Tasks, pc'[u] \in {"read", "decode"}
               PROVE  encoded' = Track(at[u])
    BY <1>1, <1>3 DEF IInv, Approach
  <2>1. pc[u] = "DSKBLK"
    BY <1>1, <1>3 DEF IInv, Approach
  <2>2. dev.kind = "floppy" /\ dev.trackNum = Track(at[u]) /\ Track(at[u]) \in Tracks
    BY <2>1, OnTrack DEF IInv, Approach, Reached
  <2>3. ~(\E v \in Tasks : pc[v] = "stepped")
    BY <2>1 DEF IInv, Single
  <2>4. dev.trackNum # -1
    BY <2>2 DEF Tracks
  <2>5. 2 * cyl + side = dev.trackNum + 0
    BY <2>2, <2>3, <2>4 DEF IInv, HeadsKnown
  <2>6. QED
    BY <1>1, <2>2, <2>5 DEF Tracks
<1>10. Rest'
  BY <1>1, <1>3 DEF IInv, Rest
<1>11. HeadsKnown'
  BY <1>1, <1>3 DEF IInv, HeadsKnown
<1>12. BufferHoldsTrack'
  BY <1>1 DEF IInv, BufferHoldsTrack
<1>13. QED
  BY <1>4, <1>5, <1>6, <1>7, <1>8, <1>9, <1>10, <1>11, <1>12 DEF IInv, Types

-----------------------------------------------------------------------------
LEMMA StutterKeeps ==
  ASSUME IInv, UNCHANGED vars
  PROVE  IInv'
<1>1. UNCHANGED <<dev, drive, tracks, call>> /\ UNCHANGED fs
  BY DEF vars
<1>2. FsTypes' /\ WithinFile'
  BY <1>1 DEF fs, call, IInv, Types, FsTypes, WithinFile, Amount
<1>3. QED
  BY <1>1, <1>2, FsStep DEF IInv, Types

LEMMA NextKeeps == OneCaller /\ IInv /\ [Next]_vars => IInv'
<1> SUFFICES ASSUME OneCaller, IInv, [Next]_vars PROVE IInv'
  OBVIOUS
<1>1. CASE DiskBlockInterrupt
  BY <1>1, DiskBlockInterruptKeeps
<1>2. CASE \E t \in Tasks : InitTrackmo(t) \/ ReadEntries(t) \/ Mounted(t) \/ KillFileSys(t)
  BY <1>2, InitTrackmoKeeps, ReadEntriesKeeps, MountedKeeps, KillFileSysKeeps
<1>3. CASE \E t \in Tasks : DeviceStep(t)
  BY <1>3, MemReadKeeps, FloppyReadKeeps, ReadBufferedKeeps, FloppyTrackReadKeeps,
     StepHeadsKeeps, StartDMAKeeps, FloppyTrackReadEndKeeps, FloppyTrackDecodeKeeps
     DEF DeviceStep
<1>4. CASE \E t \in Tasks : \E entry \in Entries : OpenFile(t, entry)
  BY <1>4, OpenFileKeeps
<1>5. CASE \E t \in Tasks : FsClose(t) \/ FsReadReturns(t)
  BY <1>5, FsCloseKeeps, FsReadReturnsKeeps
<1>6. CASE \E t \in Tasks : \E n \in Sizes : FsRead(t, n)
  BY <1>6, FsReadKeeps
<1>7. CASE \E t \in Tasks : \E offset \in Offsets, whence \in Whences : FsSeek(t, offset, whence)
  BY <1>7, FsSeekKeeps
<1>8. CASE UNCHANGED vars
  BY <1>8, StutterKeeps
<1>9. QED
  BY <1>1, <1>2, <1>3, <1>4, <1>5, <1>6, <1>7, <1>8 DEF Next

LEMMA Invariance == OneCaller /\ Spec => []IInv
<1>1. ASSUME OneCaller PROVE IInv /\ [Next]_vars => IInv'
  BY <1>1, NextKeeps
<1>2. ASSUME OneCaller PROVE Spec => []IInv
  BY <1>1, <1>2, InitIInv, PTL DEF Spec
<1>3. QED
  BY <1>2

(* The address that FloppyRead took from f->pos.                            *)
AddressOnDisk == \A t \in Tasks : at[t] \in 0..FLOPPY_SIZE

LEMMA AddressKept == IInv /\ AddressOnDisk /\ [Next]_vars => AddressOnDisk'
<1> SUFFICES ASSUME IInv, AddressOnDisk, [Next]_vars PROVE AddressOnDisk'
  OBVIOUS
<1>1. dev.pos \in 0..FLOPPY_SIZE /\ 0 \in 0..FLOPPY_SIZE /\ at \in [Tasks -> Nat]
  BY Sizing DEF IInv, Types, DriveTypes, DevT, CallTypes
<1>2. CASE UNCHANGED at
  BY <1>2 DEF AddressOnDisk
<1>3. CASE \E t \in Tasks : FloppyTrackRead(t)
  BY <1>1, <1>3 DEF FloppyTrackRead, AddressOnDisk
<1>4. CASE \E t \in Tasks : FsReadReturns(t)
  BY <1>1, <1>4 DEF FsReadReturns, AddressOnDisk
<1>5. CASE \E t \in Tasks : DeviceStep(t) /\ ~FloppyTrackRead(t)
  BY <1>2, <1>5 DEF DeviceStep, MemRead, FloppyRead, ReadBuffered, StepHeads, StartDMA,
     WaitForBlock, FloppyTrackReadEnd, FloppyTrackDecode
<1>6. CASE \E t \in Tasks : InitTrackmo(t) \/ ReadEntries(t) \/ Mounted(t) \/ KillFileSys(t)
  BY <1>2, <1>6 DEF InitTrackmo, ReadEntries, Mounted, KillFileSys, call
<1>7. CASE \E t \in Tasks : \/ \E entry \in Entries : OpenFile(t, entry)
                            \/ FsClose(t)
                            \/ \E n \in Sizes : FsRead(t, n)
                            \/ \E offset \in Offsets, whence \in Whences :
                                 FsSeek(t, offset, whence)
  BY <1>2, <1>7 DEF OpenFile, FsClose, FsRead, FsSeek, call
<1>8. CASE DiskBlockInterrupt \/ UNCHANGED vars
  BY <1>2, <1>8 DEF DiskBlockInterrupt, vars, call
<1>9. QED
  BY <1>3, <1>4, <1>5, <1>6, <1>7, <1>8 DEF Next

LEMMA IInvImpliesTypeOK == IInv /\ AddressOnDisk => TypeOK
<1> SUFFICES ASSUME IInv, AddressOnDisk PROVE TypeOK
  OBVIOUS
<1>1. dev \in [kind : {"none", "floppy", "memory"}, pos : 0..FLOPPY_SIZE,
              headDir : {-2, 0, 2}, trackNum : -1..(NTRACKS - 1),
              trkInBuf : -1..(NTRACKS - 1)]
  <2>1. Tracks \cup {-1} = -1..(NTRACKS - 1)
    BY Sizing DEF Tracks
  <2>2. QED
    BY <2>1 DEF IInv, Types, DriveTypes, DevT
<1>2. ASSUME NEW t \in Tasks
      PROVE  fpos[t] \in 0..(IF file[t] = NONE THEN 0 ELSE file[t].size)
  <2>1. file[t] # NONE => file[t].size \in Nat
    BY DiskAssumption DEF IInv, Types, FsTypes
  <2>2. QED
    BY <2>1 DEF IInv, Types, FsTypes, WithinFile
<1>3. QED
  BY <1>1, <1>2 DEF TypeOK, AddressOnDisk, IInv, Types, FsTypes, DriveTypes, CallTypes, Tracks

(* Whatever disk, files and tasks there are, if tasks do not call at once,  *)
(* FloppyRead and FloppyTrackRead never take the heads or the position off  *)
(* the disk, and FsRead and FsSeek never take a position out of its file.   *)
THEOREM TypeCorrect == OneCaller /\ Spec => []TypeOK
<1>1. Spec => AddressOnDisk
  BY Sizing DEF Spec, Init, AddressOnDisk
<1>2. QED
  BY <1>1, Invariance, AddressKept, IInvImpliesTypeOK, PTL DEF Spec

(* FloppyTrackRead never loses its heads: trackNum, which the drive cannot  *)
(* confirm, tells where they are between any two steps.                     *)
THEOREM HeadsAlwaysKnown == OneCaller /\ Spec => []HeadsKnown
<1>1. IInv => HeadsKnown
  BY DEF IInv
<1>2. QED
  BY <1>1, Invariance, PTL

(* FloppyRead never takes the track in the buffer for another, though the   *)
(* DMA fills it with whichever track is under the heads.                    *)
THEOREM BufferAlwaysHoldsTrack == OneCaller /\ Spec => []BufferHoldsTrack
<1>1. IInv => BufferHoldsTrack
  BY DEF IInv
<1>2. QED
  BY <1>1, Invariance, PTL

-----------------------------------------------------------------------------
(* With one call at a time, reading files from the disk is what UnixFiles  *)
(* promises, for every disk, directory, set of tasks and sizes of reads.   *)
(* Seeks are those of the program: from the beginning and from the         *)
(* position.  (From the end, FsSeek counts the other way than lseek.)      *)
Clients == Whences \subseteq {"SET", "CUR"} /\ Offsets \subseteq Int

InRead(t) == phase = "mounted" /\ pc[t] # "out"

(* The address of the byte at the position of a file.                       *)
Here(t) == Start(file[t]) + fpos[t]

(* Reads get as many bytes as asked for or left in the file, one after the  *)
(* other, and the device stands behind the last of them.                    *)
Reading ==
  \A t \in Tasks :
    IF InRead(t)
    THEN /\ asked[t] # 0
         /\ Amount(t) = Lesser(asked[t], file[t].size - fpos[t])
         /\ dev.pos = Here(t) + Len(buf[t])
         /\ \A i \in 1..Len(buf[t]) : buf[t][i] = Here(t) + i - 1
    ELSE asked[t] = 0

RInv == IInv /\ Reading

-----------------------------------------------------------------------------
LEMMA OpenedFile ==
  ASSUME IInv, NEW t \in Tasks, file[t] # NONE
  PROVE  /\ file[t] \in Entries /\ file[t].size \in Nat /\ file[t].start \in Nat
         /\ Start(file[t]) \in Nat /\ fpos[t] \in Nat /\ fpos[t] <= file[t].size
         /\ Here(t) \in Nat /\ Start(file[t]) + file[t].size <= FLOPPY_SIZE
<1>1. file[t] \in Entries /\ fpos[t] \in Nat
  BY DEF IInv, Types, FsTypes
<1>2. file[t].size \in Nat /\ file[t].start \in Nat
  BY <1>1, DiskAssumption
<1>3. Start(file[t]) \in Nat
  BY <1>2, Sizing, Product DEF Start
<1>4. fpos[t] <= file[t].size
  BY DEF IInv, WithinFile
<1>5. Start(file[t]) + file[t].size <= FLOPPY_SIZE
  BY <1>1, DiskAssumption DEF Start
<1>6. QED
  BY <1>1, <1>2, <1>3, <1>4, <1>5 DEF Here

(* The bytes of the file behind a position, as an address says them.        *)
LEMMA ImageBytes ==
  ASSUME IInv, NEW t \in Tasks, file[t] # NONE
  PROVE  /\ DOMAIN Image = Entries /\ Image[file[t]] \in Seq(Int)
         /\ Len(Image[file[t]]) = file[t].size
         /\ \A i \in 1..file[t].size : Image[file[t]][i] = Start(file[t]) + i - 1
<1> DEFINE bytes == [i \in 1..file[t].size |-> (2 + file[t].start) * SECTOR_SIZE + i - 1]
<1>1. file[t] \in Entries /\ file[t].size \in Nat /\ file[t].start \in Nat
  BY OpenedFile
<1>2. Start(file[t]) = (2 + file[t].start) * SECTOR_SIZE /\ Start(file[t]) \in Nat
  BY <1>1, OpenedFile, Sizing DEF Start
<1>3. Image[file[t]] = bytes /\ DOMAIN Image = Entries
  BY <1>1 DEF Image
<1>4. \A i \in 1..file[t].size : (2 + file[t].start) * SECTOR_SIZE + i - 1 \in Int
  BY <1>1, <1>2
<1>5. bytes \in [1..file[t].size -> Int]
  BY <1>4
<1>6. \A i \in 1..file[t].size : bytes[i] = Start(file[t]) + i - 1
  BY <1>2
<1> HIDE DEF bytes
<1>7. bytes \in Seq(Int) /\ Len(bytes) = file[t].size
  BY <1>1, <1>5
<1>8. QED
  BY <1>3, <1>6, <1>7

-----------------------------------------------------------------------------
(* Between calls.                                                           *)
LEMMA Between ==
  ASSUME OneCaller, RInv, NEW t \in Tasks, MayCall(t)
  PROVE  \A u \in Tasks : pc[u] = "out" /\ asked[u] = 0
BY DEF MayCall, RInv, Reading, InRead

LEMMA OpenFileMaps ==
  ASSUME OneCaller, RInv, NEW t \in Tasks, NEW entry \in Entries, OpenFile(t, entry)
  PROVE  Reading' /\ Unix!Open(t, entry)
<1>1. \A u \in Tasks : pc'[u] = "out" /\ asked'[u] = 0
  BY Between DEF OpenFile, call
<1>2. Reading'
  BY <1>1 DEF Reading, InRead
<1>3. QED
  BY <1>2 DEF OpenFile, Unix!Open

LEMMA FsCloseMaps ==
  ASSUME OneCaller, RInv, NEW t \in Tasks, FsClose(t)
  PROVE  Reading' /\ Unix!Close(t)
<1>1. \A u \in Tasks : pc'[u] = "out" /\ asked'[u] = 0
  BY Between DEF FsClose, HasFile, call
<1>2. Reading'
  BY <1>1 DEF Reading, InRead
<1>3. asked[t] = 0
  BY Between DEF FsClose, HasFile
<1>4. QED
  BY <1>2, <1>3 DEF FsClose, HasFile, Unix!Close, Unix!Idle

LEMMA FsSeekMaps ==
  ASSUME OneCaller, RInv, NEW t \in Tasks, NEW offset \in Int, NEW whence \in {"SET", "CUR"},
         FsSeek(t, offset, whence)
  PROVE  Reading' /\ Unix!Seek(t, offset, whence)
<1>1. \A u \in Tasks : pc'[u] = "out" /\ asked'[u] = 0
  BY Between DEF FsSeek, HasFile, call
<1>2. Reading'
  BY <1>1 DEF Reading, InRead
<1>3. asked[t] = 0 /\ file[t] # NONE /\ Unix!Size(t) = file[t].size /\ fpos[t] \in Nat
  BY Between, ImageBytes, OpenedFile DEF FsSeek, HasFile, RInv, Unix!Size
<1> DEFINE to == IF whence = "SET" THEN offset ELSE offset + fpos[t]
<1>4. (CASE whence = "SET" -> offset
         [] whence = "CUR" -> offset + fpos[t]
         [] whence = "END" -> file[t].size - offset) = to
  OBVIOUS
<1>5. offset + (CASE whence = "SET" -> 0
                  [] whence = "CUR" -> fpos[t]
                  [] whence = "END" -> Unix!Size(t)) = to
  BY <1>3
<1> HIDE DEF to
<1>6. /\ IF to \in 0..file[t].size
         THEN /\ fpos' = [fpos EXCEPT ![t] = to]
              /\ result' = [task |-> t, ret |-> to, bytes |-> <<>>]
         ELSE /\ result' = [task |-> t, ret |-> EINVAL, bytes |-> <<>>]
              /\ UNCHANGED fpos
      /\ UNCHANGED <<file, asked>>
  BY <1>4, Zenon DEF FsSeek
<1>7. Unix!Seek(t, offset, whence)
  BY <1>3, <1>5, <1>6, Zenon DEF Unix!Seek, Unix!Idle
<1>8. QED
  BY <1>2, <1>7

-----------------------------------------------------------------------------
(* A read begins: FsRead finds the first byte on the device.                *)
LEMMA FsReadMaps ==
  ASSUME OneCaller, RInv, IInv', NEW t \in Tasks, NEW n \in Sizes, FsRead(t, n)
  PROVE  Reading' /\ Unix!Read(t, n)
<1> DEFINE rest == Lesser(n, file[t].size - fpos[t])
<1>1. /\ HasFile(t) /\ MayCall(t) /\ phase = "mounted" /\ file[t] # NONE
      /\ asked' = [asked EXCEPT ![t] = n] /\ dev' = [dev EXCEPT !.pos = DevSeek(Here(t))]
      /\ FileRead(t, rest) /\ result' = NONE /\ UNCHANGED <<phase, file, fpos>>
  <2>1. fpos[t] + Start(file[t]) = Here(t)
    BY OpenedFile DEF FsRead, HasFile, RInv, Here
  <2>2. QED
    BY <2>1 DEF FsRead, HasFile
<1>2. \A u \in Tasks : pc[u] = "out" /\ asked[u] = 0
  BY <1>1, Between
<1>3. /\ Here(t) \in 0..FLOPPY_SIZE /\ n \in Nat /\ n # 0
      /\ rest \in Nat
  <2>1. Here(t) \in Nat /\ Here(t) <= FLOPPY_SIZE
    BY <1>1, OpenedFile, Sizing DEF RInv, Here
  <2>2. n \in Nat /\ n # 0
    BY DiskAssumption
  <2>3. QED
    BY <1>1, <2>1, <2>2, OpenedFile, Sizing DEF RInv, Lesser
<1>4. dev'.pos = Here(t)
  <2>1. DevSeek(Here(t)) = Here(t)
    BY <1>3, Sizing DEF DevSeek, MemSeek, FloppySeek
  <2>2. QED
    BY <1>1, <2>1 DEF RInv, IInv, Types, DriveTypes, DevT
<1>5. /\ left'[t] = rest /\ buf'[t] = <<>> /\ pc'[t] = "FileRead" /\ asked'[t] = n
      /\ \A u \in Tasks : u # t => pc'[u] = "out" /\ asked'[u] = 0
  BY <1>1, <1>2 DEF FileRead, Goto, RInv, IInv, Types, CallTypes, FsTypes
<1> HIDE DEF rest
<1>6. Len(buf'[t]) = 0 /\ Amount(t)' = rest /\ Here(t)' = Here(t)
  BY <1>1, <1>3, <1>5 DEF Amount, Here
<1>7. Reading'
  <2>1. rest = Lesser(asked'[t], file'[t].size - fpos'[t])
    BY <1>1, <1>5 DEF rest
  <2>2. InRead(t)' /\ \A u \in Tasks : u # t => ~InRead(u)'
    BY <1>1, <1>5 DEF InRead
  <2>3. dev'.pos = Here(t)' + Len(buf'[t])
    BY <1>3, <1>4, <1>6
  <2>4. \A i \in 1..Len(buf'[t]) : buf'[t][i] = Here(t)' + i - 1
    BY <1>6
  <2>5. QED
    BY <1>3, <1>5, <1>6, <2>1, <2>2, <2>3, <2>4 DEF Reading
<1>8. QED
  BY <1>1, <1>2, <1>7 DEF Unix!Read, Unix!Idle

LEMMA Slice ==
  ASSUME NEW s \in Seq(Int), NEW p \in Nat, NEW n \in Nat, p + n <= Len(s)
  PROVE  LET slice == SubSeq(s, p + 1, p + n)
         IN  slice \in Seq(Int) /\ Len(slice) = n /\ \A i \in 1..n : slice[i] = s[p + i]
<1> DEFINE slice == SubSeq(s, p + 1, p + n)
<1>1. p + 1 \in Int /\ p + n \in Int /\ \A i \in (p + 1)..(p + n) : s[i] \in Int
  OBVIOUS
<1>2. Len(slice) = n
  OBVIOUS
<1>3. \A i \in 1..n : slice[i] = s[p + i]
  BY SMTT(20)
<1>4. slice \in Seq(Int)
  BY <1>1, SubSeqProperties
<1>5. QED
  BY <1>2, <1>3, <1>4

(* A read ends: the buffer holds the next bytes of the file.                *)
LEMMA FsReadReturnsMaps ==
  ASSUME OneCaller, RInv, IInv', NEW t \in Tasks, FsReadReturns(t)
  PROVE  Reading' /\ Unix!ReadReturns(t)
<1> DEFINE n == Lesser(asked[t], file[t].size - fpos[t])
           wanted == SubSeq(Image[file[t]], fpos[t] + 1, fpos[t] + n)
<1>1. phase = "mounted" /\ pc[t] = "done" /\ InRead(t) /\ file[t] # NONE
  BY DEF FsReadReturns, InRead, RInv, IInv, WithinFile
<1>2. /\ asked[t] # 0 /\ asked[t] \in Nat
      /\ Amount(t) = n /\ \A i \in 1..Len(buf[t]) : buf[t][i] = Here(t) + i - 1
  BY <1>1, DiskAssumption DEF RInv, Reading, IInv, Types, FsTypes
<1>3. buf[t] \in Seq(Int \cup {NONE}) /\ Len(buf[t]) \in Nat /\ Len(buf[t]) = n
  BY <1>1, <1>2 DEF Amount, RInv, IInv, Types, CallTypes
<1>4. /\ fpos[t] \in Nat /\ file[t].size \in Nat /\ fpos[t] + n <= file[t].size
      /\ Start(file[t]) \in Nat
  BY <1>1, <1>2, <1>3, OpenedFile DEF RInv, Lesser
<1>5. /\ Image[file[t]] \in Seq(Int) /\ Len(Image[file[t]]) = file[t].size
      /\ \A i \in 1..file[t].size : Image[file[t]][i] = Start(file[t]) + i - 1
  BY <1>1, ImageBytes DEF RInv
<1> HIDE DEF n
<1>6. /\ wanted \in Seq(Int) /\ Len(wanted) = n
      /\ \A i \in 1..n : wanted[i] = Image[file[t]][fpos[t] + i]
  <2>1. n \in Nat /\ fpos[t] + n <= Len(Image[file[t]])
    BY <1>3, <1>4, <1>5
  <2>2. QED
    BY <1>4, <1>5, <2>1, Slice
<1>7. buf[t] = wanted
  <2>1. \A i \in 1..n : buf[t][i] = wanted[i]
    <3> TAKE i \in 1..n
    <3>1. fpos[t] + i \in 1..file[t].size /\ i \in Int
      BY <1>3, <1>4
    <3>2. wanted[i] = Start(file[t]) + (fpos[t] + i) - 1
      BY <1>5, <1>6, <3>1
    <3>3. buf[t][i] = Start(file[t]) + fpos[t] + i - 1
      BY <1>2, <1>3 DEF Here
    <3> HIDE DEF wanted
    <3>4. QED
      BY <1>4, <3>1, <3>2, <3>3
  <2>2. wanted \in Seq(Int \cup {NONE})
    BY <1>6
  <2> HIDE DEF wanted
  <2>3. QED
    BY <1>3, <1>6, <2>1, <2>2, SeqEqual
<1>8. \A u \in Tasks : pc'[u] = "out" /\ asked'[u] = 0
  <2>1. \A u \in Tasks : u # t => pc[u] = "out"
    BY <1>1 DEF RInv, IInv, Single
  <2>2. \A u \in Tasks : u # t => asked[u] = 0
    BY <2>1 DEF RInv, Reading, InRead
  <2>3. QED
    BY <2>1, <2>2 DEF FsReadReturns, Goto, RInv, IInv, Types, CallTypes, FsTypes
<1>9. Reading'
  BY <1>8 DEF Reading, InRead
<1>10. Unix!ReadReturns(t)
  <2>1. /\ fpos' = [fpos EXCEPT ![t] = @ + n]
        /\ result' = [task |-> t, ret |-> n, bytes |-> wanted]
        /\ asked' = [asked EXCEPT ![t] = 0] /\ UNCHANGED file
    BY <1>3, <1>7 DEF FsReadReturns
  <2>2. (IF asked[t] < Unix!Size(t) - fpos[t] THEN asked[t] ELSE Unix!Size(t) - fpos[t]) = n
    BY <1>5 DEF n, Lesser, Unix!Size
  <2>3. asked[t] > 0
    BY <1>2
  <2>4. QED
    BY <2>1, <2>2, <2>3, Zenon DEF Unix!ReadReturns
<1>11. QED
  BY <1>9, <1>10

-----------------------------------------------------------------------------
(* Steps on the device.  The files do not change.                           *)
LEMMA DeviceStepMaps ==
  ASSUME OneCaller, RInv, NEW t \in Tasks, pc[t] # "out", pc'[t] # "out",
         \A u \in Tasks : u # t => pc'[u] = "out",
         UNCHANGED fs,
         phase = "mounted" =>
           /\ Amount(t)' = Amount(t) /\ dev'.pos = Here(t) + Len(buf'[t])
           /\ \A i \in 1..Len(buf'[t]) : buf'[t][i] = Here(t) + i - 1
  PROVE  Reading' /\ UNCHANGED <<file, fpos, asked, result>>
<1>1. UNCHANGED <<phase, file, fpos, asked, result>> /\ Here(t)' = Here(t)
  BY DEF fs, Here
<1>2. InRead(t)' = InRead(t)
  BY <1>1 DEF InRead
<1>3. \A u \in Tasks : u # t => ~InRead(u) /\ ~InRead(u)'
  BY DEF InRead, RInv, IInv, Single
<1>4. CASE phase = "mounted"
  <2>1. /\ asked[t] # 0 /\ Amount(t) = Lesser(asked[t], file[t].size - fpos[t])
        /\ InRead(t)
    BY <1>4 DEF RInv, Reading, InRead
  <2>2. \A u \in Tasks : u # t => asked[u] = 0
    BY <1>3 DEF RInv, Reading
  <2>3. QED
    BY <1>1, <1>2, <1>3, <1>4, <2>1, <2>2 DEF Reading
<1>5. CASE phase # "mounted"
  BY <1>1, <1>5 DEF RInv, Reading, InRead
<1>6. QED
  BY <1>1, <1>4, <1>5

LEMMA BytesAdded ==
  ASSUME NEW s \in Seq(Int \cup {NONE}), NEW first \in Int, NEW size \in Nat,
         \A i \in 1..Len(s) : s[i] = first + i - 1
  PROVE  /\ Len(s \o Bytes(first + Len(s), size)) = Len(s) + size
         /\ \A i \in 1..(Len(s) + size) :
              (s \o Bytes(first + Len(s), size))[i] = first + i - 1
<1> DEFINE pos == first + Len(s)
           more == Bytes(pos, size)
           longer == s \o more
<1>1. Len(s) \in Nat /\ pos \in Int /\ pos # NONE
  BY DiskAssumption
<1>2. /\ more \in Seq(Int \cup {NONE}) /\ Len(more) = size
      /\ \A i \in 1..size : more[i] = pos + i - 1
  <2> HIDE DEF pos
  <2>1. more = [i \in 1..size |-> pos + i - 1]
    BY <1>1 DEF Bytes
  <2>2. [i \in 1..size |-> pos + i - 1] \in [1..size -> Int \cup {NONE}]
    BY <1>1
  <2>3. QED
    BY <2>1, <2>2
<1>3. /\ Len(longer) = Len(s) + size
      /\ \A i \in 1..(Len(s) + size) :
           longer[i] = IF i <= Len(s) THEN s[i] ELSE more[i - Len(s)]
  <2> HIDE DEF more
  <2>1. more \in Seq(Int \cup {NONE})
    BY <1>2
  <2>2. /\ Len(s \o more) = Len(s) + Len(more)
        /\ \A i \in 1..(Len(s) + Len(more)) :
             (s \o more)[i] = IF i <= Len(s) THEN s[i] ELSE more[i - Len(s)]
    BY <2>1, ConcatProperties, Zenon
  <2>3. QED
    BY <1>2, <2>2
<1> HIDE DEF more, longer
<1>4. ASSUME NEW i \in 1..(Len(s) + size)
      PROVE  longer[i] = first + i - 1
  <2>1. CASE i <= Len(s)
    BY <1>1, <1>3, <2>1
  <2>2. CASE ~(i <= Len(s))
    <3>1. i - Len(s) \in 1..size /\ i \in Int
      BY <1>1, <2>2
    <3>2. longer[i] = pos + (i - Len(s)) - 1
      BY <1>2, <1>3, <2>2, <3>1
    <3>3. QED
      BY <1>1, <3>1, <3>2
  <2>3. QED
    BY <2>1, <2>2
<1>5. QED
  BY <1>3, <1>4 DEF longer, more

(* Steps that read nothing yet.                                             *)
LEMMA QuietStepMaps ==
  ASSUME OneCaller, RInv, NEW t \in Tasks, NEW label \in Labels \ {"out", "done"},
         pc[t] \notin {"out", "done"}, Goto(t, label), dev'.pos = dev.pos,
         UNCHANGED <<fs, left, buf>>
  PROVE  Reading' /\ UNCHANGED <<file, fpos, asked, result>>
<1>1. pc'[t] = label /\ \A u \in Tasks : u # t => pc'[u] = "out"
  BY DEF RInv, IInv, Single, Goto, Types, CallTypes
<1>2. phase = "mounted" =>
        /\ Amount(t)' = Amount(t) /\ dev'.pos = Here(t) + Len(buf'[t])
        /\ \A i \in 1..Len(buf'[t]) : buf'[t][i] = Here(t) + i - 1
  BY <1>1 DEF Amount, RInv, Reading, InRead
<1>3. QED
  BY <1>1, <1>2, DeviceStepMaps

(* Steps that read size bytes, of the rest that is on the device.           *)
LEMMA CopyingStepMaps ==
  ASSUME OneCaller, RInv, NEW t \in Tasks, NEW size \in Nat, NEW rest \in Nat,
         size <= left[t], pc[t] \notin {"out", "done"},
         Goto(t, IF rest = 0 THEN "done" ELSE "loop"),
         buf' = [buf EXCEPT ![t] = @ \o Bytes(dev.pos, size)],
         dev'.pos = dev.pos + size,
         phase = "mounted" => rest = left[t] - size,
         rest # 0 => left'[t] = rest,
         UNCHANGED fs
  PROVE  Reading' /\ UNCHANGED <<file, fpos, asked, result>>
<1> DEFINE label == IF rest = 0 THEN "done" ELSE "loop"
<1>1. pc'[t] = label /\ pc'[t] # "out" /\ \A u \in Tasks : u # t => pc'[u] = "out"
  BY DEF RInv, IInv, Single, Goto, Types, CallTypes
<1>2. CASE phase = "mounted"
  <2>1. InRead(t) /\ file[t] # NONE
    BY <1>2 DEF InRead, RInv, IInv, WithinFile
  <2>2. /\ dev.pos = Here(t) + Len(buf[t])
        /\ \A i \in 1..Len(buf[t]) : buf[t][i] = Here(t) + i - 1
    BY <2>1 DEF RInv, Reading
  <2>3. /\ buf[t] \in Seq(Int \cup {NONE}) /\ Len(buf[t]) \in Nat /\ left[t] \in Nat
        /\ buf'[t] = buf[t] \o Bytes(Here(t) + Len(buf[t]), size) /\ Here(t) \in Int
    <3>1. buf \in [Tasks -> Seq(Int \cup {NONE})] /\ left \in [Tasks -> Nat]
      BY DEF RInv, IInv, Types, CallTypes
    <3>2. Here(t) \in Nat
      BY <2>1, OpenedFile DEF RInv
    <3>3. QED
      BY <2>2, <3>1, <3>2
  <2>4. /\ Len(buf'[t]) = Len(buf[t]) + size
        /\ \A i \in 1..Len(buf'[t]) : buf'[t][i] = Here(t) + i - 1
    <3>1. /\ Len(buf[t] \o Bytes(Here(t) + Len(buf[t]), size)) = Len(buf[t]) + size
          /\ \A i \in 1..(Len(buf[t]) + size) :
               (buf[t] \o Bytes(Here(t) + Len(buf[t]), size))[i] = Here(t) + i - 1
      BY <2>2, <2>3, BytesAdded, Zenon
    <3>2. QED
      BY <2>3, <3>1
  <2>5. dev'.pos = Here(t) + Len(buf'[t])
    BY <2>2, <2>3, <2>4
  <2>6. Amount(t) = Len(buf[t]) + left[t]
    BY DEF Amount
  <2>7. Amount(t)' = (Len(buf[t]) + size) + rest
    <3>1. rest # 0 => left'[t] = rest
      OBVIOUS
    <3>2. (IF pc'[t] = "done" THEN 0 ELSE left'[t]) = rest
      BY <1>1, <3>1
    <3>3. QED
      BY <2>4, <3>2 DEF Amount
  <2>8. Amount(t)' = Amount(t)
    <3>1. rest = left[t] - size
      BY <1>2
    <3>2. left[t] \in Nat /\ Len(buf[t]) \in Nat
      BY <2>3
    <3>3. (Len(buf[t]) + size) + rest = Len(buf[t]) + left[t]
      BY <3>1, <3>2
    <3>4. QED
      BY <2>6, <2>7, <3>3
  <2>9. QED
    BY <1>1, <2>4, <2>5, <2>8, DeviceStepMaps
<1>3. CASE phase # "mounted"
  BY <1>1, <1>3, DeviceStepMaps
<1>4. QED
  BY <1>2, <1>3

(* What a read of a file has yet to read lies on the disk.                  *)
LEMMA RestOnDevice ==
  ASSUME RInv, NEW t \in Tasks, phase = "mounted", pc[t] \notin {"out", "done"}
  PROVE  left[t] <= FLOPPY_SIZE - dev.pos
<1>1. file[t] # NONE /\ InRead(t) /\ fpos[t] + Amount(t) <= file[t].size
  BY DEF InRead, RInv, IInv, WithinFile
<1>2. Len(buf[t]) \in Nat /\ left[t] \in Nat /\ dev.pos \in Int
  BY Sizing DEF RInv, IInv, Types, CallTypes, DriveTypes, DevT
<1>3. dev.pos = Here(t) + Len(buf[t]) /\ Amount(t) = Len(buf[t]) + left[t]
  BY <1>1 DEF RInv, Reading, Amount
<1>4. /\ Start(file[t]) \in Nat /\ file[t].size \in Nat /\ fpos[t] \in Nat
      /\ Start(file[t]) + file[t].size <= FLOPPY_SIZE
  BY <1>1, OpenedFile DEF RInv
<1>5. QED
  BY <1>1, <1>2, <1>3, <1>4, Sizing, SMTT(20) DEF Here

LEMMA MemReadMaps ==
  ASSUME OneCaller, RInv, NEW t \in Tasks, MemRead(t)
  PROVE  Reading' /\ UNCHANGED <<file, fpos, asked, result>>
<1> DEFINE nread == Lesser(left[t], FLOPPY_SIZE - dev.pos)
<1>1. /\ nread \in Nat /\ nread <= left[t] /\ left[t] \in Nat
      /\ dev.pos \in 0..FLOPPY_SIZE /\ dev \in DevT
  <2>1. left[t] \in Nat /\ dev.pos \in 0..FLOPPY_SIZE /\ dev \in DevT
    BY DEF RInv, IInv, Types, CallTypes, DriveTypes, DevT
  <2>2. QED
    BY <2>1, Sizing DEF Lesser
<1>2. phase = "mounted" => 0 = left[t] - nread
  BY <1>1, RestOnDevice DEF Lesser, MemRead
<1>3. /\ buf' = [buf EXCEPT ![t] = @ \o Bytes(dev.pos, nread)]
      /\ dev' = [dev EXCEPT !.pos = @ + nread] /\ Goto(t, "done") /\ UNCHANGED fs
      /\ pc[t] = "FileRead"
  BY DEF MemRead
<1>4. dev'.pos = dev.pos + nread
  BY <1>1, <1>3 DEF DevT
<1> HIDE DEF nread
<1>5. QED
  BY <1>1, <1>2, <1>3, <1>4, CopyingStepMaps

LEMMA FloppyReadMaps ==
  ASSUME OneCaller, RInv, NEW t \in Tasks, FloppyRead(t)
  PROVE  Reading' /\ UNCHANGED <<file, fpos, asked, result>>
<1> DEFINE rest == Lesser(left[t], FLOPPY_SIZE - dev.pos)
<1>1. /\ rest \in Nat /\ left[t] \in Nat
      /\ phase = "mounted" => rest = left[t]
  <2>1. left[t] \in Nat /\ dev.pos \in 0..FLOPPY_SIZE
    BY DEF RInv, IInv, Types, CallTypes, DriveTypes, DevT
  <2>2. rest \in Nat
    BY <2>1, Sizing DEF Lesser
  <2>3. ASSUME phase = "mounted" PROVE rest = left[t]
    <3>1. left[t] <= FLOPPY_SIZE - dev.pos
      BY <2>3, RestOnDevice DEF FloppyRead
    <3>2. QED
      BY <2>1, <3>1, Sizing DEF Lesser
  <2>4. QED
    BY <2>1, <2>2, <2>3
<1>2. /\ left'[t] = rest /\ Goto(t, IF rest = 0 THEN "done" ELSE "loop")
      /\ UNCHANGED <<fs, dev, buf>> /\ pc[t] = "FileRead"
  BY DEF FloppyRead, RInv, IInv, Types, CallTypes
<1> HIDE DEF rest
<1>3. /\ pc'[t] = IF rest = 0 THEN "done" ELSE "loop"
      /\ \A u \in Tasks : u # t => pc'[u] = "out"
  BY <1>2 DEF RInv, IInv, Single, Goto, Types, CallTypes
<1>4. phase = "mounted" =>
        /\ Amount(t)' = Amount(t) /\ dev'.pos = Here(t) + Len(buf'[t])
        /\ \A i \in 1..Len(buf'[t]) : buf'[t][i] = Here(t) + i - 1
  <2> SUFFICES ASSUME phase = "mounted"
               PROVE  /\ Amount(t)' = Amount(t) /\ dev'.pos = Here(t) + Len(buf'[t])
                      /\ \A i \in 1..Len(buf'[t]) : buf'[t][i] = Here(t) + i - 1
    OBVIOUS
  <2>1. (IF pc'[t] = "done" THEN 0 ELSE left'[t]) = left[t]
    BY <1>1, <1>2, <1>3
  <2>2. Amount(t)' = Amount(t)
    BY <1>2, <2>1 DEF Amount
  <2>3. QED
    BY <1>2, <2>2 DEF RInv, Reading, InRead
<1>5. QED
  BY <1>2, <1>3, <1>4, DeviceStepMaps

LEMMA SameTrack ==
  ASSUME NEW pos \in Nat
  PROVE  Same(pos, Track(pos)) = pos
<1>1. Track(pos) \in Nat /\ Track(pos) # NONE
  BY Offset, DiskAssumption
<1>2. pos = TRACK_SIZE * Track(pos) + (pos % TRACK_SIZE)
  BY Offset
<1>3. Track(pos) * TRACK_SIZE = TRACK_SIZE * Track(pos)
  BY <1>1, Sizing
<1>4. QED
  BY <1>1, <1>2, <1>3 DEF Same

(* The loop of FloppyRead, with the right track in the buffer.              *)
LEMMA CopyMaps ==
  ASSUME OneCaller, RInv, NEW t \in Tasks, pc[t] \in {"loop", "decode"},
         NEW trkInBuf, Copy(t, dev.pos, Track(dev.pos), trkInBuf), UNCHANGED fs
  PROVE  Reading' /\ UNCHANGED <<file, fpos, asked, result>>
<1> DEFINE off == dev.pos % TRACK_SIZE
           size == Lesser(left[t], TRACK_SIZE - off)
           rest == left[t] - size
<1>1. /\ dev.pos \in 0..FLOPPY_SIZE /\ left[t] \in Nat /\ dev \in DevT
      /\ left \in [Tasks -> Nat]
  BY DEF RInv, IInv, Types, DriveTypes, CallTypes, DevT
<1>2. off \in 0..(TRACK_SIZE - 1) /\ dev.pos \in Nat
  <2>1. dev.pos \in Nat
    BY <1>1, Sizing
  <2>2. QED
    BY <2>1, Offset
<1>3. size \in Nat /\ size <= left[t] /\ rest \in Nat
  BY <1>1, <1>2, Sizing DEF Lesser
<1>4. /\ buf' = [buf EXCEPT ![t] = @ \o Bytes(dev.pos, size)]
      /\ left' = [left EXCEPT ![t] = @ - size]
      /\ dev' = [dev EXCEPT !.pos = @ + size, !.trkInBuf = trkInBuf]
      /\ Goto(t, IF left'[t] = 0 THEN "done" ELSE "loop")
  BY <1>2, SameTrack DEF Copy
<1> HIDE DEF size
<1>5. left'[t] = rest /\ dev'.pos = dev.pos + size
  BY <1>1, <1>4 DEF DevT
<1>6. Goto(t, IF rest = 0 THEN "done" ELSE "loop")
  BY <1>4, <1>5
<1>7. rest = left[t] - size
  OBVIOUS
<1> HIDE DEF rest
<1>8. QED
  BY <1>3, <1>4, <1>5, <1>6, <1>7, CopyingStepMaps

LEMMA ReadBufferedMaps ==
  ASSUME OneCaller, RInv, NEW t \in Tasks, ReadBuffered(t)
  PROVE  Reading' /\ UNCHANGED <<file, fpos, asked, result>>
<1>1. pc[t] = "loop" /\ Track(dev.pos) = dev.trkInBuf /\ dev.kind = "floppy"
  BY OnTrack DEF ReadBuffered, RInv
<1>2. dev.trkInBuf # -1
  BY <1>1, OnTrack DEF RInv, Tracks
<1>3. decoded = Track(dev.pos)
  BY <1>1, <1>2 DEF RInv, IInv, BufferHoldsTrack
<1>4. Copy(t, dev.pos, Track(dev.pos), dev.trkInBuf) /\ UNCHANGED fs
  BY <1>3 DEF ReadBuffered
<1>5. QED
  BY <1>1, <1>4, CopyMaps

LEMMA FloppyTrackDecodeMaps ==
  ASSUME OneCaller, RInv, NEW t \in Tasks, FloppyTrackDecode(t)
  PROVE  Reading' /\ UNCHANGED <<file, fpos, asked, result>>
<1>1. pc[t] = "decode" /\ at[t] = dev.pos
  BY OnTrack DEF FloppyTrackDecode, Reached, RInv
<1>2. encoded = Track(dev.pos)
  BY <1>1 DEF RInv, IInv, Approach
<1>3. Copy(t, dev.pos, Track(dev.pos), Track(at[t])) /\ UNCHANGED fs
  BY <1>1, <1>2 DEF FloppyTrackDecode
<1>4. QED
  BY <1>1, <1>3, CopyMaps

LEMMA FloppyTrackReadMaps ==
  ASSUME OneCaller, RInv, NEW t \in Tasks,
         \/ FloppyTrackRead(t) \/ StepHeads(t) \/ StartDMA(t) \/ WaitForBlock(t)
         \/ FloppyTrackReadEnd(t)
  PROVE  Reading' /\ UNCHANGED <<file, fpos, asked, result>>
<1>1. /\ pc[t] \notin {"out", "done"} /\ UNCHANGED <<fs, left, buf>>
      /\ \E label \in {"decode", "settled", "turned", "stepped", "started", "DSKBLK"} :
           Goto(t, label)
  BY DEF FloppyTrackRead, StepHeads, StartDMA, WaitForBlock, FloppyTrackReadEnd
<1>2. {"decode", "settled", "turned", "stepped", "started", "DSKBLK"} \subseteq
        Labels \ {"out", "done"}
  BY DEF Labels
<1>3. dev'.pos = dev.pos
  <2>1. dev \in DevT
    BY DEF RInv, IInv, Types, DriveTypes
  <2>2. QED
    BY <2>1 DEF DevT, FloppyTrackRead, StepHeads, StartDMA, WaitForBlock, FloppyTrackReadEnd
<1>4. QED
  BY <1>1, <1>2, <1>3, QuietStepMaps

LEMMA DiskBlockInterruptMaps ==
  ASSUME OneCaller, RInv, DiskBlockInterrupt
  PROVE  Reading' /\ UNCHANGED <<file, fpos, asked, result>>
<1>1. /\ pc' = [t \in Tasks |-> IF pc[t] = "DSKBLK" THEN "read" ELSE pc[t]]
      /\ UNCHANGED <<fs, dev, left, buf>>
  BY DEF DiskBlockInterrupt
<1>2. \A t \in Tasks : (pc'[t] = "out" <=> pc[t] = "out") /\ (pc'[t] = "done" <=> pc[t] = "done")
  BY <1>1
<1>3. \A t \in Tasks : InRead(t)' = InRead(t) /\ Here(t)' = Here(t) /\ Amount(t)' = Amount(t)
  BY <1>1, <1>2 DEF InRead, Here, Amount, fs
<1>4. Reading'
  BY <1>1, <1>3 DEF RInv, Reading, fs
<1>5. QED
  BY <1>1, <1>4 DEF fs

(* Mounting and unmounting: no file is open.                                *)
LEMMA MountMaps ==
  ASSUME OneCaller, RInv, NEW t \in Tasks,
         InitTrackmo(t) \/ ReadEntries(t) \/ Mounted(t) \/ KillFileSys(t)
  PROVE  Reading' /\ UNCHANGED <<file, fpos, asked, result>>
<1>1. UNCHANGED <<file, fpos, asked, result>>
  BY DEF InitTrackmo, ReadEntries, Mounted, KillFileSys
<1>2. \A u \in Tasks : asked[u] = 0
  BY DEF InitTrackmo, ReadEntries, Mounted, KillFileSys, RInv, Reading, InRead
<1>3. \A u \in Tasks : ~InRead(u)'
  <2>1. CASE InitTrackmo(t) \/ ReadEntries(t) \/ KillFileSys(t)
    BY <2>1 DEF InitTrackmo, ReadEntries, KillFileSys, InRead
  <2>2. CASE Mounted(t)
    BY <2>2 DEF Mounted, Goto, InRead, RInv, IInv, Single, Types, CallTypes
  <2>3. QED
    BY <2>1, <2>2
<1>4. QED
  BY <1>1, <1>2, <1>3 DEF Reading

-----------------------------------------------------------------------------
LEMMA InitMaps == Init => RInv /\ Unix!Init
BY InitIInv DEF Init, RInv, Reading, InRead, Unix!Init

LEMMA NextMaps ==
  OneCaller /\ Clients /\ RInv /\ [Next]_vars =>
    RInv' /\ [Unix!Next]_<<file, fpos, asked, result>>
<1> SUFFICES ASSUME OneCaller, Clients, RInv, [Next]_vars
             PROVE  RInv' /\ (Unix!Next \/ UNCHANGED <<file, fpos, asked, result>>)
  OBVIOUS
<1>1. IInv'
  BY NextKeeps DEF RInv
<1> SUFFICES Reading' /\ (Unix!Next \/ UNCHANGED <<file, fpos, asked, result>>)
  BY <1>1 DEF RInv
<1> USE DEF Unix!Next
<1>2. CASE DiskBlockInterrupt
  BY <1>2, DiskBlockInterruptMaps
<1>3. CASE \E t \in Tasks : InitTrackmo(t) \/ ReadEntries(t) \/ Mounted(t) \/ KillFileSys(t)
  BY <1>3, MountMaps
<1>4. CASE \E t \in Tasks : DeviceStep(t)
  BY <1>4, MemReadMaps, FloppyReadMaps, ReadBufferedMaps, FloppyTrackReadMaps,
     FloppyTrackDecodeMaps DEF DeviceStep
<1>5. CASE \E t \in Tasks : \E entry \in Entries : OpenFile(t, entry)
  <2>1. DOMAIN Image = Entries
    BY DEF Image
  <2>2. QED
    BY <1>5, <2>1, OpenFileMaps
<1>6. CASE \E t \in Tasks : FsClose(t) \/ FsReadReturns(t)
  BY <1>1, <1>6, FsCloseMaps, FsReadReturnsMaps
<1>7. CASE \E t \in Tasks : \E n \in Sizes : FsRead(t, n)
  BY <1>1, <1>7, FsReadMaps
<1>8. CASE \E t \in Tasks : \E offset \in Offsets, whence \in Whences : FsSeek(t, offset, whence)
  BY <1>8, FsSeekMaps DEF Clients
<1>9. CASE UNCHANGED vars
  BY <1>9 DEF vars, fs, call, RInv, Reading, InRead, Here, Amount
<1>10. QED
  BY <1>2, <1>3, <1>4, <1>5, <1>6, <1>7, <1>8, <1>9 DEF Next

(* A read returns the bytes of its file from the position on, whichever     *)
(* track the buffer held, wherever the heads were and across tracks, from   *)
(* the floppy and from memory: the file system, the loop of FloppyRead and  *)
(* the steps of the heads together do what read and lseek do.               *)
THEOREM ImplementsUnixFiles == OneCaller /\ Clients /\ Spec => BehavesLikeUnix
<1>1. ASSUME OneCaller, Clients
      PROVE  RInv /\ [Next]_vars => RInv' /\ [Unix!Next]_<<file, fpos, asked, result>>
  BY <1>1, NextMaps
<1>2. ASSUME OneCaller, Clients
      PROVE  Spec => BehavesLikeUnix
  BY <1>1, <1>2, InitMaps, PTL DEF Spec, BehavesLikeUnix, Unix!Spec, Unix!vars
<1>3. QED
  BY <1>2
=============================================================================
