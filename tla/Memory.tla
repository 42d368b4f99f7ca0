------------------------------- MODULE Memory -------------------------------
(***************************************************************************)
(* The memory allocator of system/kernel/memory.c: arenas of blocks with   *)
(* boundary tags, first fit, coalescing on free.                           *)
(*                                                                         *)
(* An arena is units of ALIGNMENT bytes, numbered from 0.  Blocks start at *)
(* units, so the first word of a unit may hold a header, the two in the    *)
(* middle a node of the free list, and the last a footer or a canary.  hdr,*)
(* prev, next and foot are these words; the rest is client data.  The word *)
(* at ar->end, which nothing initialises, is hdr[Units(ar)].  Sizes in     *)
(* tags count units, totalFree counts bytes.                               *)
(*                                                                         *)
(* What runs between MutexLock and MutexUnlock of MemMtx is one action     *)
(* (Kernel!MutualExclusion); a call may take several.  The client frees    *)
(* and resizes only blocks that it has got, and writes to all of them.     *)
(***************************************************************************)
EXTENDS Integers, Sequences, FiniteSets

CONSTANTS Tasks, NULL,
          Layouts,    \* the lists of memory regions that a machine may boot with:
                      \* <<[units |-> ..., attributes |-> ...], ...>>
          EndTags,    \* what the word at ar->end may happen to hold
          Sizes,      \* the sizes in bytes that clients ask for
          Attributes  \* the attributes that they pass to MemAlloc

ALIGNMENT == 16
USEDBLK_SZ == 8
HEAD == -1            \* the guard of the free list, freeList of ArenaT

MemoryFlags == {"MEMF_PUBLIC", "MEMF_CHIP", "MEMF_FAST"}
Flags == {"USED", "PREVFREE", "ISLAST"}

ASSUME LayoutsAssumption ==
  \A layout \in Layouts :
    /\ layout \in Seq([units : Nat, attributes : SUBSET MemoryFlags])
    /\ \A ar \in DOMAIN layout : layout[ar].units >= 2
ASSUME EndTagsAssumption == EndTags \subseteq [size : Int, flags : SUBSET Flags]
ASSUME RequestsAssumption == Sizes \subseteq Nat \ {0} /\ Attributes \subseteq SUBSET MemoryFlags
ASSUME NullAssumption == NULL \notin Int /\ NULL \notin [ar : Int, bt : Int]

VARIABLES Arenas,   \* the list at FirstArena
          heap,     \* the words of each arena
          live,     \* the blocks that clients have
          job,      \* what is left of the call a task is in
          MemMtx,   \* the owner of the mutex
          halted    \* HALT has been reached

vars == <<Arenas, heap, live, job, MemMtx, halted>>

Units(ar) == Arenas[ar].units

(* 0xDEADC0DE and client data are no sizes of blocks.                       *)
CANARY == [size |-> -1, flags |-> {"PREVFREE", "ISLAST"}]
DATA == [size |-> -2, flags |-> {}]
DATAPTR == -2

Block == UNION {[ar : {ar}, bt : 0..(Units(ar) - 1)] : ar \in DOMAIN Arenas}
Idle == [do |-> "none", i |-> 0, size |-> 0, attributes |-> {}, bt |-> NULL, old |-> NULL]

(* The words of an arena of n units.                                        *)
Words(n) ==
  LET Tag == [size : Int, flags : SUBSET Flags]
  IN  [hdr : [0..n -> Tag], foot : [0..(n - 1) -> Tag],
       prev : [-1..n -> -2..n], next : [-1..n -> -2..n],
       totalFree : Int, wild : BOOLEAN]

TypeOK ==
  /\ Arenas \in Layouts
  /\ DOMAIN heap = DOMAIN Arenas
  /\ \A ar \in DOMAIN Arenas :
       /\ heap[ar] \in Words(Units(ar))
       /\ heap[ar].totalFree \in 0..(ALIGNMENT * Units(ar) - USEDBLK_SZ)
  /\ live \subseteq Block
  /\ job \in [Tasks -> [do : {"none", "alloc", "free"}, i : 0..(Len(Arenas) + 1),
                        size : Sizes \cup {0},
                        attributes : SUBSET MemoryFlags,
                        bt : Block \cup {NULL}, old : Block \cup {NULL}]]
  /\ MemMtx \in Tasks \cup {NULL}
  /\ halted \in BOOLEAN

-----------------------------------------------------------------------------
(* Boundary tags and the free list, as functions of the words h of an arena.*)
BtSize(h, bt) == h.hdr[bt].size
BtHas(h, bt, flag) == h.hdr[bt].flags \cap {flag}
BtFree(h, bt) == "USED" \notin h.hdr[bt].flags
BtNext(h, bt) == bt + BtSize(h, bt)
BtHasCanary(h, bt) == h.foot[BtNext(h, bt) - 1] = CANARY

BtMake(h, bt, size, flags) ==
  LET tag == [size |-> size, flags |-> flags]
  IN  [h EXCEPT !.hdr[bt] = tag,
                !.foot[bt + size - 1] = IF "USED" \in flags THEN CANARY ELSE tag]

BtClear(h, bt, flag) == [h EXCEPT !.hdr[bt].flags = @ \ {flag}]
(* Mistaken variant: the block behind a freed one does not learn of it.     *)
BtSetPrevFreeNot(h, bt) == h

BtSetPrevFree(h, bt) == [h EXCEPT !.hdr[bt].flags = @ \cup {"PREVFREE"}]

(* Must never be called on the first block.                                 *)
BtPrev(h, bt) == bt - h.foot[bt - 1].size

ArenaFreeInsert(h, bt) ==
  LET last == h.prev[HEAD]
  IN  [h EXCEPT !.next[bt] = HEAD, !.prev[bt] = last, !.next[last] = bt, !.prev[HEAD] = bt]

(* Mistaken variant: the block behind is not told of its new neighbour.     *)
FreeRemoveForward(h, bt) == [h EXCEPT !.next[h.prev[bt]] = h.next[bt]]

FreeRemove(h, bt) ==
  [h EXCEPT !.next[h.prev[bt]] = h.next[bt], !.prev[h.next[bt]] = h.prev[bt]]

BlockSize(size) == (size + USEDBLK_SZ + ALIGNMENT - 1) \div ALIGNMENT

(* The n-th block on the free list, HEAD after the last.  The walk stops    *)
(* at a pointer that leads out of the arena.                               *)
FreeList(h) ==
  LET at[n \in DOMAIN h.foot] ==
        IF n = 0 THEN h.next[HEAD]
        ELSE IF at[n - 1] \in DOMAIN h.foot THEN h.next[at[n - 1]] ELSE at[n - 1]
  IN  at

(* Mistaken variant: a block that is one unit short will do.                *)
ArenaFindFitShort(h, reqsz) ==
  LET at == FreeList(h)
      fits == {n \in DOMAIN at : at[n] \in DOMAIN h.foot /\ BtSize(h, at[n]) >= reqsz - 1}
  IN  IF fits = {} THEN NULL ELSE at[CHOOSE n \in fits : \A k \in fits : n <= k]

(* First fit, or NULL.                                                      *)
ArenaFindFit(h, reqsz) ==
  LET at == FreeList(h)
      fits == {n \in DOMAIN at : at[n] \in DOMAIN h.foot /\ BtSize(h, at[n]) >= reqsz}
  IN  IF fits = {} THEN NULL ELSE at[CHOOSE n \in fits : \A k \in fits : n <= k]

(* Mistaken variant: the sum goes the wrong way.                            *)
ArenaIncFree(h, sz) == [h EXCEPT !.totalFree = @ + sz]

ArenaDecFree(h, sz) == [h EXCEPT !.totalFree = @ - sz]

(* The words of a new arena; end is what the word at ar->end holds.         *)
AddMemory(ar, end) ==
  LET n == Units(ar)
      words == [hdr |-> [u \in 0..n |-> IF u = n THEN end ELSE DATA],
                foot |-> [u \in 0..(n - 1) |-> DATA],
                prev |-> [u \in -1..n |-> IF u = HEAD THEN HEAD ELSE DATAPTR],
                next |-> [u \in -1..n |-> IF u = HEAD THEN HEAD ELSE DATAPTR],
                totalFree |-> ALIGNMENT * n - USEDBLK_SZ,
                wild |-> FALSE]
  IN  ArenaFreeInsert(BtMake(words, 0, n, {"ISLAST"}), 0)

(* The words of a block but its tags and its node are data.  Nothing reads  *)
(* what they held before the block was made, so it is not kept.            *)
Scrub(h, bt) ==
  LET inner == (bt + 1)..(BtNext(h, bt) - 1)
  IN  [h EXCEPT !.hdr = [u \in DOMAIN @ |-> IF u \in inner THEN DATA ELSE @[u]],
                !.foot = [u \in DOMAIN @ |-> IF u + 1 \in inner THEN DATA ELSE @[u]],
                !.prev = [u \in DOMAIN @ |-> IF u \in inner THEN DATAPTR ELSE @[u]],
                !.next = [u \in DOMAIN @ |-> IF u \in inner THEN DATAPTR ELSE @[u]]]

(* The client has written to all of its block.                              *)
Fill(h, bt) == [Scrub(h, bt) EXCEPT !.prev[bt] = DATAPTR, !.next[bt] = DATAPTR]

-----------------------------------------------------------------------------
(* ArenaMemAlloc, when ArenaFindFit has found bt.                           *)
ArenaMemAlloc(h, bt, reqsz) ==
  LET last == BtHas(h, bt, "ISLAST")
      rest == BtSize(h, bt) - reqsz
      next == bt + reqsz
      took == BtMake(FreeRemove(h, bt), bt, reqsz, {"USED"} \cup last)
  IN  IF rest > 0
      THEN ArenaDecFree(ArenaFreeInsert(BtClear(BtMake(took, next, rest, last),
                                                bt, "ISLAST"), next),
                        ALIGNMENT * reqsz)
      ELSE ArenaDecFree(IF last = {} THEN BtClear(took, next, "PREVFREE") ELSE took,
                        ALIGNMENT * reqsz - USEDBLK_SZ)

(* ArenaMemFree.  It takes the word behind the last block for a header.  If *)
(* that looks like the header of a free block, it takes what follows for a *)
(* node and writes wherever that points: nothing is known from then on.    *)
CoalesceNext(h, bt) ==
  LET next == BtNext(h, bt)
  IN  IF ~BtFree(h, next)
      THEN BtSetPrevFree(h, next)
      ELSE [BtMake(FreeRemove(h, next), bt, BtSize(h, bt) + BtSize(h, next),
                   BtHas(h, bt, "PREVFREE") \cup BtHas(h, next, "ISLAST"))
              EXCEPT !.totalFree = @ + USEDBLK_SZ]

CoalescePrev(h, bt) ==
  LET prev == BtPrev(h, bt)
  IN  IF BtHas(h, bt, "PREVFREE") = {}
      THEN ArenaFreeInsert(Scrub(h, bt), bt)
      ELSE LET grown == [BtMake(FreeRemove(h, prev), prev,
                                BtSize(h, bt) + BtSize(h, prev), BtHas(h, bt, "ISLAST"))
                           EXCEPT !.totalFree = @ + USEDBLK_SZ]
           IN  ArenaFreeInsert(Scrub(grown, prev), prev)

Wild(h, bt) == BtNext(h, bt) \notin DOMAIN h.foot /\ BtFree(h, BtNext(h, bt))

ArenaMemFree(h, bt) ==
  LET memsz == ALIGNMENT * BtSize(h, bt) - USEDBLK_SZ
      freed == BtMake(h, bt, BtSize(h, bt), h.hdr[bt].flags \ {"USED"})
  IN  IF Wild(h, bt)
      THEN [h EXCEPT !.wild = TRUE]
      ELSE CoalescePrev([CoalesceNext(freed, bt) EXCEPT !.totalFree = @ + memsz], bt)

(* ArenaMemResize to a smaller size, before it frees the second block.      *)
Split(h, bt, reqsz) ==
  BtMake(BtMake(h, bt, reqsz, {"USED"} \cup BtHas(h, bt, "PREVFREE")),
         bt + reqsz, BtSize(h, bt) - reqsz, {"USED"} \cup BtHas(h, bt, "ISLAST"))

CanExpand(h, bt, reqsz) ==
  LET next == BtNext(h, bt)
  IN  BtFree(h, next) /\ BtSize(h, bt) + BtSize(h, next) >= reqsz

(* ArenaMemResize to a larger size, into the free block that follows.       *)
Expand(h, bt, reqsz) ==
  LET next == BtNext(h, bt)
      rest == BtSize(h, bt) + BtSize(h, next) - reqsz
      grown == BtMake(FreeRemove(h, next), bt, reqsz, {"USED"} \cup BtHas(h, bt, "PREVFREE"))
  IN  IF rest > 0
      THEN ArenaDecFree(ArenaFreeInsert(BtMake(grown, bt + reqsz, rest,
                                               BtHas(h, next, "ISLAST")), bt + reqsz),
                        ALIGNMENT * (reqsz - BtSize(h, bt)))
      ELSE ArenaDecFree(BtClear(grown, bt + reqsz, "PREVFREE"),
                        ALIGNMENT * BtSize(h, next) - USEDBLK_SZ)

-----------------------------------------------------------------------------
Running == ~halted /\ \A ar \in DOMAIN Arenas : ~heap[ar].wild

Begins(t) == Running /\ job[t] = Idle

Locks == MemMtx = NULL

MemAlloc(t, size, attributes) ==
  /\ Begins(t)
  /\ job' = [job EXCEPT ![t] = [Idle EXCEPT !.do = "alloc", !.i = 1, !.size = size,
                                           !.attributes = attributes]]
  /\ UNCHANGED <<Arenas, heap, live, MemMtx, halted>>

(* The next arena in the loop of MemAlloc.  With a block, MemResize copies  *)
(* the data and goes on to free the old one.                               *)
AllocIn(t) ==
  LET j == job[t]
      ar == j.i
      reqsz == BlockSize(j.size)
  IN  /\ Running /\ j.do = "alloc" /\ ar <= Len(Arenas)
      /\ IF Arenas[ar].attributes \cap j.attributes = {}
         THEN /\ job' = [job EXCEPT ![t].i = ar + 1]
              /\ UNCHANGED <<heap, live>>
         ELSE LET bt == ArenaFindFit(heap[ar], reqsz)
              IN  /\ Locks
                  /\ IF bt = NULL
                     THEN /\ job' = [job EXCEPT ![t].i = ar + 1]
                          /\ UNCHANGED <<heap, live>>
                     ELSE LET new == [ar |-> ar, bt |-> bt]
                          IN  /\ heap' = [heap EXCEPT ![ar] = Fill(ArenaMemAlloc(@, bt, reqsz), bt)]
                              /\ IF j.old = NULL
                                 THEN /\ live' = live \cup {new}
                                      /\ job' = [job EXCEPT ![t] = Idle]
                                 ELSE /\ job' = [job EXCEPT ![t] =
                                                  [Idle EXCEPT !.do = "free", !.bt = j.old,
                                                               !.old = new]]
                                      /\ UNCHANGED live
      /\ UNCHANGED <<Arenas, MemMtx, halted>>

OutOfMemory(t) ==
  /\ Running /\ job[t].do = "alloc" /\ job[t].i > Len(Arenas)
  /\ halted' = TRUE
  /\ UNCHANGED <<Arenas, heap, live, job, MemMtx>>

MemFree(t, p) ==
  /\ Begins(t)
  /\ live' = live \ {p}
  /\ job' = [job EXCEPT ![t] = [Idle EXCEPT !.do = "free", !.bt = p]]
  /\ UNCHANGED <<Arenas, heap, MemMtx, halted>>

(* ArenaMemFree; the call then returns job.old, if it is one of MemResize.  *)
FreeBlock(t) ==
  LET j == job[t]
      h == heap[j.bt.ar]
  IN  /\ Running /\ j.do = "free" /\ Locks
      /\ IF ~BtFree(h, j.bt.bt) /\ BtHasCanary(h, j.bt.bt)
         THEN /\ heap' = [heap EXCEPT ![j.bt.ar] = ArenaMemFree(@, j.bt.bt)]
              /\ live' = live \cup ({j.old} \ {NULL})
              /\ job' = [job EXCEPT ![t] = Idle]
              /\ UNCHANGED halted
         ELSE /\ halted' = TRUE
              /\ UNCHANGED <<heap, live, job>>
      /\ UNCHANGED <<Arenas, MemMtx>>

(* MemResize.  With the same size, or with the size 0 or no old block, it   *)
(* does what returning, MemFree or MemAlloc does.                          *)
Shrink(t, p, size) ==
  LET reqsz == BlockSize(size)
  IN  /\ Begins(t) /\ Locks
      /\ reqsz < BtSize(heap[p.ar], p.bt)
      /\ heap' = [heap EXCEPT ![p.ar] = Split(@, p.bt, reqsz)]
      /\ live' = live \ {p}
      /\ MemMtx' = t
      /\ job' = [job EXCEPT ![t] = [Idle EXCEPT !.do = "free", !.old = p,
                                               !.bt = [p EXCEPT !.bt = @ + reqsz]]]
      /\ UNCHANGED <<Arenas, halted>>

Grow(t, p, size) ==
  LET reqsz == BlockSize(size)
      h == heap[p.ar]
  IN  /\ Begins(t) /\ Locks
      /\ reqsz > BtSize(h, p.bt)
      /\ IF Wild(h, p.bt)
         THEN /\ heap' = [heap EXCEPT ![p.ar].wild = TRUE]
              /\ UNCHANGED <<live, job>>
         ELSE IF CanExpand(h, p.bt, reqsz)
         THEN /\ heap' = [heap EXCEPT ![p.ar] = Fill(Expand(@, p.bt, reqsz), p.bt)]
              /\ UNCHANGED <<live, job>>
         ELSE /\ live' = live \ {p}
              /\ job' = [job EXCEPT ![t] =
                           [Idle EXCEPT !.do = "alloc", !.i = 1, !.size = size, !.old = p,
                                        !.attributes = Arenas[p.ar].attributes]]
              /\ UNCHANGED heap
      /\ UNCHANGED <<Arenas, MemMtx, halted>>

Init ==
  /\ Arenas \in Layouts
  /\ \E end \in [DOMAIN Arenas -> EndTags] :
       heap = [ar \in DOMAIN Arenas |-> AddMemory(ar, end[ar])]
  /\ live = {}
  /\ job = [t \in Tasks |-> Idle]
  /\ MemMtx = NULL
  /\ halted = FALSE

Step(t) == AllocIn(t) \/ OutOfMemory(t) \/ FreeBlock(t)

Next ==
  \E t \in Tasks :
    \/ \E size \in Sizes, attributes \in Attributes : MemAlloc(t, size, attributes)
    \/ \E p \in live : MemFree(t, p)
    \/ \E p \in live, size \in Sizes : Shrink(t, p, size) \/ Grow(t, p, size)
    \/ Step(t)

Spec == Init /\ [][Next]_vars

(* A task that is in a call goes on when MemMtx lets it.                    *)
FairSpec == Spec /\ \A t \in Tasks : WF_vars(Step(t))

-----------------------------------------------------------------------------
(* The blocks of an arena as ArenaCheck walks them, from tag to tag.        *)
Walk(h) ==
  LET n == Cardinality(DOMAIN h.foot)
      at[k \in 0..n] == IF k = 0 THEN 0
                        ELSE IF at[k - 1] \in DOMAIN h.foot THEN BtNext(h, at[k - 1])
                        ELSE at[k - 1]
  IN  at

Blocks(h) == {Walk(h)[k] : k \in DOMAIN Walk(h)} \cap DOMAIN h.foot

Sound(P(_)) == \A ar \in DOMAIN Arenas : heap[ar].wild \/ P(heap[ar])

(* The assertions in the first loop of ArenaCheck: the walk over the tags   *)
(* ends at ar->end, free blocks are coalesced and have equal tags, used    *)
(* ones tell the state of the block before and have their canary.          *)
TagsMatch(h) ==
  /\ Walk(h)[Cardinality(DOMAIN h.foot)] = Cardinality(DOMAIN h.foot)
  /\ \A bt \in Blocks(h) :
       /\ BtFree(h, bt) => /\ h.foot[BtNext(h, bt) - 1] = h.hdr[bt]
                           /\ BtNext(h, bt) \in DOMAIN h.foot => ~BtFree(h, BtNext(h, bt))
       /\ ~BtFree(h, bt) =>
            /\ BtHasCanary(h, bt)
            /\ BtHas(h, bt, "PREVFREE") # {} <=>
                 \E prev \in Blocks(h) : BtNext(h, prev) = bt /\ BtFree(h, prev)

TagsSound == Sound(TagsMatch)

(* freeMem of ArenaCheck: what the free blocks in front of each unit offer. *)
FreeMem(h) ==
  LET offers == [u \in DOMAIN h.foot |-> IF u \in Blocks(h) /\ BtFree(h, u)
                                         THEN ALIGNMENT * BtSize(h, u) - USEDBLK_SZ ELSE 0]
      sum[u \in DOMAIN h.hdr] == IF u = 0 THEN 0 ELSE sum[u - 1] + offers[u - 1]
  IN  sum

(* The other assertions but one: totalFree is what the free blocks offer,   *)
(* and the free list has them all and no other.                            *)
FreeMatches(h) ==
  LET at == FreeList(h)
  IN  /\ {at[n] : n \in DOMAIN at} \ {HEAD} = {bt \in Blocks(h) : BtFree(h, bt)}
      /\ \A n, k \in DOMAIN at : at[n] = at[k] => n = k \/ at[n] = HEAD
      /\ h.totalFree = FreeMem(h)[Cardinality(DOMAIN h.foot)]

FreeListSound == Sound(FreeMatches)

(* The blocks in use are those that clients have and those that calls in    *)
(* progress are about: no two clients have one block, none is lost, and    *)
(* what a call of another task does in between keeps that so.              *)
BlocksOwned ==
  \A ar \in DOMAIN Arenas :
    heap[ar].wild \/
    LET inCalls == (UNION {{job[t].bt, job[t].old} : t \in Tasks}) \ {NULL}
    IN  {bt \in Blocks(heap[ar]) : ~BtFree(heap[ar], bt)} =
          {p.bt : p \in {q \in live \cup inCalls : q.ar = ar}}

(* Whatever the calls of others do to the arena, a block that a client has  *)
(* keeps its header, its canary and its data: no tag and no node of the    *)
(* free list is written into it, and ArenaMemFree will accept it.          *)
PayloadKept ==
  \A p \in live :
    LET h == heap[p.ar]
    IN  ~h.wild => /\ BtNext(h, p.bt) \in (p.bt + 1)..Units(p.ar)
                   /\ ~BtFree(h, p.bt) /\ BtHasCanary(h, p.bt)
                   /\ Fill(h, p.bt) = h

(* memory.c on shrinking: the block is split and the second one freed.      *)
CallsReturn == \A t \in Tasks : job[t].do = "free" ~> job[t].do = "none"
=============================================================================
