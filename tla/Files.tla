------------------------------- MODULE Files -------------------------------
(***************************************************************************)
(* Reading files: system/drivers/filesys.c on a floppy disk (floppy.c) or  *)
(* on an image in memory (memfile.c), as trackmo.c puts them together.     *)
(*                                                                         *)
(* A byte of the disk is named by its address, and a track by its number.  *)
(* A step of a task ends where it sleeps, or where a task that preempts it *)
(* could get at the device between two of its accesses.  Each task has at  *)
(* most one file open.  The directory entries lie within the disk.         *)
(***************************************************************************)
EXTENDS Integers, Sequences

CONSTANTS Tasks,
          Entries,          \* of the directory: records of a start sector and a size
          RootDirLen, SECTOR_SIZE, NSECTORS, NTRACKS,
          Sizes, Offsets, Whences, \* the arguments of FileRead and FileSeek
          NONE, EINVAL,
          OneCaller         \* TRUE if clients make one call at a time

TRACK_SIZE == NSECTORS * SECTOR_SIZE
FLOPPY_SIZE == TRACK_SIZE * NTRACKS

(* The boot block takes two sectors, and the directory begins with its      *)
(* length, a word.                                                          *)
RootDir == 2 * SECTOR_SIZE
WORD == 2

ASSUME DiskAssumption ==
  /\ {SECTOR_SIZE, NSECTORS, NTRACKS} \cup Sizes \subseteq Nat \ {0}
  /\ NTRACKS % 2 = 0        \* a disk has two sides
  /\ RootDirLen \in Nat /\ RootDir + WORD + RootDirLen <= FLOPPY_SIZE
  /\ Entries \subseteq [start : Nat, size : Nat]
  /\ \A e \in Entries : (e.start + 2) * SECTOR_SIZE + e.size <= FLOPPY_SIZE
  /\ EINVAL < 0 /\ NONE \notin Entries /\ NONE \notin Int

VARIABLES phase,            \* of InitFileSys
          dev,              \* FileSysDev: the struct File of the device
          encoded, decoded, \* the tracks whose data the two buffers hold
          cyl, side,        \* the drive: where its heads are, and which is on
          dma,              \* the disk DMA is on
          file, fpos,       \* the struct File of a task's file
          pc,
          asked, left, buf, \* a read: nbyte, the bytes yet to read, the bytes read
          at,               \* FloppyRead: the address read from f->pos
          result            \* of the latest call

fs == <<phase, file, fpos, asked, result>>
drive == <<cyl, side, dma>>
tracks == <<encoded, decoded>>
call == <<pc, left, buf, at>>
vars == <<fs, dev, drive, tracks, call>>

Track(pos) == pos \div TRACK_SIZE

Lesser(a, b) == IF a < b THEN a ELSE b

Labels == {"out", "FileRead", "loop", "turned", "stepped", "settled", "started",
           "DSKBLK", "read", "decode", "done"}

(* Every variable keeps to its type: the heads stay on the disk, positions  *)
(* in the file and on the device.                                           *)
TypeOK ==
  /\ phase \in {"boot", "length", "entries", "mounted", "killed"}
  /\ dev \in [kind : {"none", "floppy", "memory"}, pos : 0..FLOPPY_SIZE,
              headDir : {-2, 0, 2}, trackNum : -1..(NTRACKS - 1),
              trkInBuf : -1..(NTRACKS - 1)]
  /\ {encoded, decoded} \subseteq 0..(NTRACKS - 1) \cup {NONE}
  /\ cyl \in 0..((NTRACKS - 1) \div 2) /\ side \in {0, 1} /\ dma \in BOOLEAN
  /\ \A t \in Tasks : /\ file[t] \in Entries \cup {NONE}
                      /\ fpos[t] \in 0..(IF file[t] = NONE THEN 0 ELSE file[t].size)
                      /\ pc[t] \in Labels
                      /\ asked[t] \in Sizes \cup {0}
                      /\ left[t] \in Nat /\ at[t] \in 0..FLOPPY_SIZE

Init ==
  /\ phase = "boot"
  /\ dev = [kind |-> "none", pos |-> 0, headDir |-> 0, trackNum |-> 0, trkInBuf |-> 0]
  /\ encoded = NONE /\ decoded = NONE
  /\ cyl \in 0..((NTRACKS - 1) \div 2) /\ side \in {0, 1} /\ dma = FALSE
  /\ file = [t \in Tasks |-> NONE] /\ fpos = [t \in Tasks |-> 0]
  /\ pc = [t \in Tasks |-> "out"]
  /\ asked = [t \in Tasks |-> 0] /\ left = [t \in Tasks |-> 0]
  /\ buf = [t \in Tasks |-> <<>>] /\ at = [t \in Tasks |-> 0]
  /\ result = NONE

Goto(t, label) == pc' = [pc EXCEPT ![t] = label]

MayCall(t) == pc[t] = "out" /\ (OneCaller => \A u \in Tasks : pc[u] = "out")

-----------------------------------------------------------------------------
(* Calls of the device: FileSeek sets a position, FileRead reads n bytes.   *)
MemSeek(to) == IF to > FLOPPY_SIZE THEN FLOPPY_SIZE ELSE IF to < 0 THEN 0 ELSE to
FloppySeek(to) == IF to \in 0..FLOPPY_SIZE THEN to ELSE dev.pos
DevSeek(to) == IF dev.kind = "memory" THEN MemSeek(to) ELSE FloppySeek(to)

FileRead(t, n) ==
  /\ left' = [left EXCEPT ![t] = n]
  /\ buf' = [buf EXCEPT ![t] = <<>>]
  /\ Goto(t, "FileRead")

(* What memcpy finds, by addresses on the disk; buffers begin with no track *)
(* in them.                                                                 *)
Bytes(pos, size) == [i \in 1..size |-> IF pos = NONE THEN NONE ELSE pos + i - 1]

(* The place in another track that pos has in its own.                      *)
Same(pos, track) == IF track = NONE THEN NONE ELSE track * TRACK_SIZE + (pos % TRACK_SIZE)

MemRead(t) ==
  /\ pc[t] = "FileRead" /\ dev.kind = "memory"
  /\ LET nread == Lesser(left[t], FLOPPY_SIZE - dev.pos)
     IN  /\ buf' = [buf EXCEPT ![t] = @ \o Bytes(dev.pos, nread)]
         /\ dev' = [dev EXCEPT !.pos = @ + nread]
  /\ Goto(t, "done")
  /\ UNCHANGED <<fs, drive, tracks, left, at>>

FloppyRead(t) ==
  /\ pc[t] = "FileRead" /\ dev.kind = "floppy"
  /\ left' = [left EXCEPT ![t] = Lesser(@, FLOPPY_SIZE - dev.pos)]
  /\ Goto(t, IF left'[t] = 0 THEN "done" ELSE "loop")
  /\ UNCHANGED <<fs, dev, drive, tracks, buf, at>>

(* The rest of the loop body: copies from pos to the end of the track or    *)
(* less, from a buffer that holds the track in.                             *)
Copy(t, pos, in, trkInBuf) ==
  LET size == Lesser(left[t], TRACK_SIZE - (pos % TRACK_SIZE))
  IN  /\ buf' = [buf EXCEPT ![t] = @ \o Bytes(Same(pos, in), size)]
      /\ left' = [left EXCEPT ![t] = @ - size]
      /\ dev' = [dev EXCEPT !.pos = @ + size, !.trkInBuf = trkInBuf]
      /\ Goto(t, IF left'[t] = 0 THEN "done" ELSE "loop")

ReadBuffered(t) ==
  /\ pc[t] = "loop" /\ Track(dev.pos) = dev.trkInBuf
  /\ Copy(t, dev.pos, decoded, dev.trkInBuf)
  /\ UNCHANGED <<fs, drive, tracks, at>>

-----------------------------------------------------------------------------
(* FloppyTrackRead.  A cylinder has two tracks, the even one on the lower   *)
(* side.                                                                    *)

(* Mistaken variant: trackNum does not follow the change.                   *)
ChangeDiskSideUncounted(num, trackNum) == trackNum

(* The track that the heads are at on the side of num.                      *)
ChangeDiskSide(num, trackNum) ==
  IF (num + trackNum) % 2 = 0 THEN trackNum
  ELSE IF num % 2 = 1 THEN trackNum + 1 ELSE trackNum - 1

FloppyTrackRead(t) ==
  /\ pc[t] = "loop" /\ Track(dev.pos) # dev.trkInBuf
  /\ at' = [at EXCEPT ![t] = dev.pos]
  /\ LET num == Track(dev.pos)
         old == IF dev.trackNum = -1 THEN 0 ELSE dev.trackNum
         new == ChangeDiskSide(num, old)
     IN  IF dev.trackNum = num
         THEN Goto(t, "decode") /\ UNCHANGED <<dev, side>>
         ELSE /\ side' = IF (num + old) % 2 = 1 THEN num % 2 ELSE side
              /\ dev' = [dev EXCEPT !.trackNum = new,
                                    !.headDir = IF num > new THEN 2
                                                ELSE IF num < new THEN -2 ELSE @]
              /\ Goto(t, IF num = new THEN "settled" ELSE "turned")
  /\ UNCHANGED <<fs, cyl, dma, tracks, left, buf>>

(* Each step of the heads is counted after they had their time to settle.   *)
StepHeads(t) ==
  /\ pc[t] \in {"turned", "stepped"}
  /\ LET trackNum == dev.trackNum + IF pc[t] = "stepped" THEN dev.headDir ELSE 0
     IN  /\ dev' = [dev EXCEPT !.trackNum = trackNum]
         /\ IF trackNum = Track(at[t])
            THEN Goto(t, "settled") /\ UNCHANGED cyl
            ELSE cyl' = cyl + dev.headDir \div 2 /\ Goto(t, "stepped")
  /\ UNCHANGED <<fs, side, dma, tracks, left, buf, at>>

(* Mistaken variant: goes on without waiting for the block interrupt.       *)
StartDMAOnly(t) ==
  /\ pc[t] = "settled"
  /\ dma' = TRUE
  /\ Goto(t, "read")
  /\ UNCHANGED <<fs, dev, cyl, side, tracks, left, buf, at>>

(* With interrupts enabled: the transfer may end before TaskWait, if other  *)
(* tasks hold the processor while the disk turns around.                    *)
StartDMA(t) ==
  /\ pc[t] = "settled"
  /\ dma' = TRUE
  /\ Goto(t, "started")
  /\ UNCHANGED <<fs, dev, cyl, side, tracks, left, buf, at>>

WaitForBlock(t) ==
  /\ pc[t] = "started"
  /\ Goto(t, "DSKBLK")
  /\ UNCHANGED <<fs, dev, drive, tracks, left, buf, at>>

(* The drive has read what is under its heads.  The DMA needs to be started *)
(* again for another transfer; dsklen stays for the task to clear.          *)
DiskBlockInterrupt ==
  /\ dma /\ dma' = FALSE
  /\ encoded' = 2 * cyl + side
  /\ pc' = [t \in Tasks |-> IF pc[t] = "DSKBLK" THEN "read" ELSE pc[t]]
  /\ UNCHANGED <<fs, dev, cyl, side, decoded, left, buf, at>>

FloppyTrackReadEnd(t) ==
  /\ pc[t] = "read"
  /\ dma' = FALSE
  /\ Goto(t, "decode")
  /\ UNCHANGED <<fs, dev, cyl, side, tracks, left, buf, at>>

(* FloppyTrackDecode, and the rest of the loop body of FloppyRead.          *)
FloppyTrackDecode(t) ==
  /\ pc[t] = "decode"
  /\ decoded' = encoded
  /\ Copy(t, at[t], encoded, Track(at[t]))
  /\ UNCHANGED <<fs, drive, encoded, at>>

-----------------------------------------------------------------------------
(* FloppyOpen takes the heads to track 0 and the lower side; trackNum says  *)
(* -1 and is taken for 0 later, so that track 0 is read at all.             *)
FloppyOpen ==
  /\ cyl' = 0 /\ side' = 0
  /\ dev' = [kind |-> "floppy", pos |-> RootDir, headDir |-> 2,
             trackNum |-> -1, trkInBuf |-> -1]

MemOpen ==
  /\ dev' = [dev EXCEPT !.kind = "memory", !.pos = RootDir]
  /\ UNCHANGED <<cyl, side>>

(* InitFileSys seeks to the directory and reads its length ...              *)
InitTrackmo(t) ==
  /\ phase = "boot" /\ MayCall(t)
  /\ FloppyOpen \/ MemOpen
  /\ phase' = "length" /\ FileRead(t, WORD)
  /\ UNCHANGED <<dma, tracks, file, fpos, asked, result, at>>

(* ... and then its entries.                                                *)
ReadEntries(t) ==
  /\ phase = "length" /\ pc[t] = "done"
  /\ phase' = "entries" /\ FileRead(t, RootDirLen)
  /\ UNCHANGED <<dev, drive, tracks, file, fpos, asked, result, at>>

Mounted(t) ==
  /\ phase = "entries" /\ pc[t] = "done"
  /\ phase' = "mounted" /\ Goto(t, "out")
  /\ UNCHANGED <<dev, drive, tracks, file, fpos, asked, result, left, buf, at>>

(* FloppyClose turns the motor off; MemClose has nothing to turn off.       *)
KillFileSys(t) ==
  /\ phase = "mounted" /\ \A u \in Tasks : pc[u] = "out" /\ file[u] = NONE
  /\ phase' = "killed"
  /\ dev' = [dev EXCEPT !.kind = "none"]
  /\ UNCHANGED <<drive, tracks, file, fpos, asked, result, call>>

-----------------------------------------------------------------------------
OpenFile(t, entry) ==
  /\ phase = "mounted" /\ MayCall(t) /\ file[t] = NONE
  /\ file' = [file EXCEPT ![t] = entry] /\ fpos' = [fpos EXCEPT ![t] = 0]
  /\ result' = NONE
  /\ UNCHANGED <<phase, dev, drive, tracks, asked, call>>

HasFile(t) == phase = "mounted" /\ MayCall(t) /\ file[t] # NONE

FsClose(t) ==
  /\ HasFile(t)
  /\ file' = [file EXCEPT ![t] = NONE] /\ fpos' = [fpos EXCEPT ![t] = 0]
  /\ result' = NONE
  /\ UNCHANGED <<phase, dev, drive, tracks, asked, call>>

(* Where a file begins on the device.                                       *)
Start(entry) == (entry.start + 2) * SECTOR_SIZE

(* Mistaken variant: relies on the position that the last read has left.    *)
FsReadOnwards(t, n) ==
  /\ HasFile(t)
  /\ asked' = [asked EXCEPT ![t] = n]
  /\ FileRead(t, Lesser(n, file[t].size - fpos[t]))
  /\ result' = NONE
  /\ UNCHANGED <<dev, phase, file, fpos, drive, tracks, at>>

FsRead(t, n) ==
  /\ HasFile(t)
  /\ asked' = [asked EXCEPT ![t] = n]
  /\ dev' = [dev EXCEPT !.pos = DevSeek(fpos[t] + Start(file[t]))]
  /\ FileRead(t, Lesser(n, file[t].size - fpos[t]))
  /\ result' = NONE
  /\ UNCHANGED <<phase, file, fpos, drive, tracks, at>>

FsReadReturns(t) ==
  /\ phase = "mounted" /\ pc[t] = "done"
  /\ fpos' = [fpos EXCEPT ![t] = @ + Len(buf[t])]
  /\ result' = [task |-> t, ret |-> Len(buf[t]), bytes |-> buf[t]]
  /\ asked' = [asked EXCEPT ![t] = 0]
  /\ buf' = [buf EXCEPT ![t] = <<>>]
  /\ left' = [left EXCEPT ![t] = 0] /\ at' = [at EXCEPT ![t] = 0]
  /\ Goto(t, "out")
  /\ UNCHANGED <<phase, file, dev, drive, tracks>>

(* Mistaken variant: the bound is not tested.                               *)
FsSeekUnbounded(t, offset, whence) ==
  /\ HasFile(t)
  /\ LET to == CASE whence = "SET" -> offset
                 [] whence = "CUR" -> offset + fpos[t]
                 [] whence = "END" -> file[t].size - offset
     IN  /\ fpos' = [fpos EXCEPT ![t] = to]
         /\ result' = [task |-> t, ret |-> to, bytes |-> <<>>]
  /\ UNCHANGED <<phase, file, asked, dev, drive, tracks, call>>

FsSeek(t, offset, whence) ==
  /\ HasFile(t)
  /\ LET to == CASE whence = "SET" -> offset
                 [] whence = "CUR" -> offset + fpos[t]
                 [] whence = "END" -> file[t].size - offset
     IN  IF to \in 0..file[t].size
         THEN /\ fpos' = [fpos EXCEPT ![t] = to]
              /\ result' = [task |-> t, ret |-> to, bytes |-> <<>>]
         ELSE /\ result' = [task |-> t, ret |-> EINVAL, bytes |-> <<>>]
              /\ UNCHANGED fpos
  /\ UNCHANGED <<phase, file, asked, dev, drive, tracks, call>>

DeviceStep(t) ==
  \/ MemRead(t) \/ FloppyRead(t) \/ ReadBuffered(t) \/ FloppyTrackRead(t)
  \/ StepHeads(t) \/ StartDMA(t) \/ WaitForBlock(t) \/ FloppyTrackReadEnd(t)
  \/ FloppyTrackDecode(t)

Next ==
  \/ DiskBlockInterrupt
  \/ \E t \in Tasks :
       \/ InitTrackmo(t) \/ ReadEntries(t) \/ Mounted(t) \/ KillFileSys(t)
       \/ DeviceStep(t)
       \/ \E entry \in Entries : OpenFile(t, entry)
       \/ FsClose(t)
       \/ \E n \in Sizes : FsRead(t, n)
       \/ FsReadReturns(t)
       \/ \E offset \in Offsets, whence \in Whences : FsSeek(t, offset, whence)

Spec == Init /\ [][Next]_vars

-----------------------------------------------------------------------------
(* tools/fsutil.py writes the bytes of a file from its start sector on,     *)
(* behind the two sectors of the boot block.                                *)
Image == [e \in Entries |-> [i \in 1..e.size |-> (2 + e.start) * SECTOR_SIZE + i - 1]]

Unix == INSTANCE UnixFiles WITH pos <- fpos, Content <- Image

(* Whatever the drive and the buffers went through before, and whichever    *)
(* file was read last, a read returns the bytes of its file from its        *)
(* position on, across tracks, and moves the position by as many.           *)
BehavesLikeUnix == Unix!Spec

(* The driver knows where the heads are, though the drive reports no more   *)
(* than track 0: trackNum counts every step and change of side.             *)
HeadsKnown ==
  dev.kind = "floppy" =>
    LET stepped == \E t \in Tasks : pc[t] = "stepped"
    IN  2 * cyl + side = IF dev.trackNum = -1 THEN 0
                         ELSE dev.trackNum + IF stepped THEN dev.headDir ELSE 0

(* The driver knows which track its buffer holds.                           *)
BufferHoldsTrack ==
  dev.kind = "floppy" /\ dev.trkInBuf # -1 => decoded = dev.trkInBuf
=============================================================================
