---------------------------- MODULE CardReadProofs ----------------------------
(***************************************************************************)
(* Proof that Inv is an invariant of CardRead for every number of blocks,   *)
(* slots, transfers and requests, in every mode; and what follows from it.  *)
(***************************************************************************)
EXTENDS CardReadInv, FiniteSetTheorems, TLAPS

-----------------------------------------------------------------------------
(* Facts about the operators the model is built from.                       *)

(* The bytes of a block are those of one of the two files.                  *)
LEMMA ContentType == \A b \in Sector : Content(b) \in Block
BY DEF Content, Block

(* Every non-empty set of naturals has a least element.                     *)
LEMMA LeastExists ==
  ASSUME NEW T, T \subseteq Nat, T # {}
  PROVE  \E x \in T : \A y \in T : x <= y
<1> DEFINE I == {0..x : x \in T}
<1>1. I \subseteq FiniteSubsetsOf(Nat)
  <2> SUFFICES ASSUME NEW x \in T PROVE 0..x \in FiniteSubsetsOf(Nat)
    OBVIOUS
  <2>1. IsFiniteSet(0..x)
    BY FS_Interval
  <2> QED
    BY <2>1 DEF FiniteSubsetsOf
<1>2. I # {}
  OBVIOUS
<1>3. PICK J \in I : \A K \in I : ~ (<<K, J>> \in StrictSubsetOrdering(Nat))
  <2> HIDE DEF I
  <2> QED
    BY <1>1, <1>2, FS_StrictSubsetOrderingWellFounded, WFMin
<1>4. PICK x \in T : J = 0..x
  BY <1>3
<1>5. ASSUME NEW y \in T, y < x PROVE FALSE
  <2>1. /\ 0..y \subseteq Nat /\ 0..x \subseteq Nat
        /\ 0..y \subseteq 0..x /\ 0..y # 0..x
    BY <1>5
  <2>2. <<0..y, 0..x>> \in StrictSubsetOrdering(Nat)
    BY <2>1 DEF StrictSubsetOrdering
  <2> QED
    BY <1>3, <1>4, <2>2
<1> QED
  BY <1>5

(* allocateCacheSlot: the last of the slots 1..n whose counter is lowest.     *)
LEMMA LastLowestExists ==
  ASSUME NEW n \in Nat \ {0}, NEW counter, \A s \in 1..n : counter[s] \in Nat,
         NEW lowest,
         lowest = {s \in 1..n : \A t \in 1..n : counter[s] <= counter[t]}
  PROVE  \E s \in lowest : \A t \in lowest : t <= s
<1>1. \E s \in 1..n : \A t \in 1..n : counter[s] <= counter[t]
  <2> DEFINE C == {counter[s] : s \in 1..n}
  <2>1. C \subseteq Nat /\ C # {}
    OBVIOUS
  <2>2. \E c \in C : \A d \in C : c <= d
    <3> HIDE DEF C
    <3> QED
      BY <2>1, LeastExists
  <2> QED
    BY <2>2
<1> DEFINE D == {n - s : s \in lowest}
<1>2. D \subseteq Nat /\ D # {}
  BY <1>1
<1>3. \E c \in D : \A d \in D : c <= d
  <2> HIDE DEF D
  <2> QED
    BY <1>2, LeastExists
<1>4. PICK s \in lowest : \A d \in D : n - s <= d
  BY <1>3
<1>5. ASSUME NEW t \in lowest PROVE t <= s
  <2>1. n - s <= n - t
    BY <1>4
  <2> QED
    BY <2>1
<1> QED
  BY <1>5

(* allocateCacheSlot always finds a slot of the table.                      *)
LEMMA AllocateCacheSlotType ==
  ASSUME DataTypes
  PROVE  AllocateCacheSlot \in Slot
<1> DEFINE fresh  == {s \in Slot : cacheCounter[s] = 0}
           lowest == {s \in Slot : \A t \in Slot : cacheCounter[s] <= cacheCounter[t]}
<1>1. CASE fresh # {}
  <2>1. \E s \in fresh : \A t \in fresh : s <= t
    <3>1. fresh \subseteq Nat
      BY DEF Slot
    <3> HIDE DEF fresh
    <3> QED
      BY <1>1, <3>1, LeastExists
  <2> QED
    BY <1>1, <2>1 DEF AllocateCacheSlot
<1>2. CASE fresh = {}
  <2>1. \E s \in lowest : \A t \in lowest : t <= s
    BY LastLowestExists, SizesAssumption DEF DataTypes, Slot
  <2> QED
    BY <1>2, <2>1 DEF AllocateCacheSlot
<1> QED
  BY <1>1, <1>2

(* getSlotForSector finds the slot that claims the block, if there is one.  *)
LEMMA SlotForSectorFinds ==
  ASSUME DataTypes, OneSlotPerSector, NEW b \in Sector
  PROVE  /\ SlotForSector(b) \in Slot \cup {0}
         /\ SlotForSector(b) # 0 => cacheDescriptor[SlotForSector(b)] = b
         /\ \A s \in Slot : cacheDescriptor[s] = b => SlotForSector(b) = s
<1> DEFINE owners == {s \in Slot : cacheDescriptor[s] = b}
<1>1. CASE owners = {}
  BY <1>1 DEF SlotForSector
<1>2. ASSUME NEW s \in owners PROVE SlotForSector(b) = s
  <2>1. owners = {s}
    BY DEF OneSlotPerSector, Sector
  <2>2. s <= s
    BY DEF Slot
  <2> QED
    BY <2>1, <2>2 DEF SlotForSector
<1> QED
  BY <1>1, <1>2

(* What a request asks for lies within the ROM.                             *)
LEMMA RequestFits ==
  ASSUME NEW r \in Requests
  PROVE  r[1] \in Sector /\ r[2] \in Nat \ {0} /\ r[1] + r[2] - 1 <= NSectors
BY SizesAssumption DEF Requests

(* A run of blocks is a sequence of bytes of the ROM.                       *)
LEMMA WholeType ==
  ASSUME NEW b \in Sector, NEW n \in Nat, n > 0 => b + n - 1 <= NSectors
  PROVE  /\ Whole(b, n) \in Seq(Block \cup {Junk})
         /\ Len(Whole(b, n)) = n
         /\ \A i \in 1..n : Whole(b, n)[i] = Content(b + i - 1)
<1>1. ASSUME NEW i \in 1..n PROVE Content(b + i - 1) \in Block \cup {Junk}
  <2>1. b + i - 1 \in Sector
    BY SizesAssumption DEF Sector
  <2> QED
    BY <2>1, ContentType
<1> QED
  BY <1>1 DEF Whole

-----------------------------------------------------------------------------
(* The types.                                                               *)

USE DEF NoCmd, Reads, mailbox, lines, shared, cache, flags9, request, arm9,
        halt, sd, arm7, Send7

(* No step leaves a flag with a value that is not Boolean.                   *)
LEMMA FlagTypesKept ==
  ASSUME FlagTypes, Next
  PROVE  FlagTypes'
<1> USE DEF FlagTypes
<1>1. ASSUME NEW r \in Requests, CardRead(r[1], r[2]) PROVE FlagTypes'
  BY <1>1, Zenon DEF CardRead, Issue
<1>2. ASSUME NEW r \in Requests, SetDma(r[1], r[2]) PROVE FlagTypes'
  BY <1>2, Zenon DEF SetDma, Issue
<1>3. CASE ReadRam
  BY <1>3, Zenon DEF ReadRam, Report
<1>4. CASE ReadNormalLookup
  BY <1>4, Zenon DEF ReadNormalLookup
<1>5. CASE WaitPing
  BY <1>5, Zenon DEF WaitPing
<1>6. CASE WaitPoll
  BY <1>6, Zenon DEF WaitPoll
<1>7. CASE ReadNormalCopy
  BY <1>7, Zenon DEF ReadNormalCopy, Report
<1>8. CASE SetDmaDirect
  BY <1>8, Zenon DEF SetDmaDirect
<1>9. CASE SetDmaSleep
  BY <1>9, Zenon DEF SetDmaSleep
<1>10. CASE SetDmaCached
  BY <1>10, Zenon DEF SetDmaCached, DmaHit, DmaMiss
<1>11. CASE SetDmaSend
  BY <1>11, Zenon DEF SetDmaSend
<1>12. CASE SetDmaEnd
  BY <1>12, Zenon DEF SetDmaEnd, Report
<1>13. CASE Irq9
  BY <1>13, Zenon DEF Irq9
<1>14. CASE Continue7
  BY <1>14, Zenon DEF Continue7
<1>15. CASE Check7
  BY <1>15, Zenon DEF Check7
<1>16. CASE Continue9Wait
  BY <1>16, Zenon DEF Continue9Wait
<1>17. CASE Continue9
  BY <1>17, Zenon DEF Continue9, DmaHit, DmaMiss
<1>18. CASE Continue9Ping
  BY <1>18, Zenon DEF Continue9Ping
<1>19. CASE EndCardReadDma
  BY <1>19, Zenon DEF EndCardReadDma, Report
<1>20. CASE Irq7
  BY <1>20, Zenon DEF Irq7
<1>21. CASE StartRead
  BY <1>21, Zenon DEF StartRead
<1>22. CASE ResumeRead
  BY <1>22, Zenon DEF ResumeRead
<1>23. CASE NothingToRun
  BY <1>23, Zenon DEF NothingToRun
<1>24. CASE Clear7
  BY <1>24, Zenon DEF Clear7
<1>25. CASE Flag7
  BY <1>25, Zenon DEF Flag7
<1>26. CASE Reply7
  BY <1>26, Zenon DEF Reply7
<1>27. CASE Pong7
  BY <1>27, Zenon DEF Pong7
<1>28. CASE HaltStart
  BY <1>28, Zenon DEF HaltStart
<1>29. CASE HaltRead
  BY <1>29, Zenon DEF HaltRead
<1>30. CASE HaltClear
  BY <1>30, Zenon DEF HaltClear
<1>31. CASE HaltFlag
  BY <1>31, Zenon DEF HaltFlag
<1>32. CASE HaltSend
  BY <1>32, Zenon DEF HaltSend
<1>33. CASE NdmaDone
  BY <1>33, Zenon DEF NdmaDone
<1>34. CASE SdDone
  BY <1>34, Zenon DEF SdDone
<1>35. CASE VBlankSync
  BY <1>35, Zenon DEF VBlankSync
<1> QED
  BY <1>1, <1>2, <1>3, <1>4, <1>5, <1>6, <1>7, <1>8, <1>9,
     <1>10, <1>11, <1>12, <1>13, <1>14, <1>15, <1>16, <1>17, <1>18, <1>19,
     <1>20, <1>21, <1>22, <1>23, <1>24, <1>25, <1>26, <1>27, <1>28, <1>29, <1>30, <1>31, <1>32, <1>33, <1>34, <1>35
     DEF Next, GameThread, Handler9, Handler7, HaltThread

(* No step leaves a program counter where no process is.                     *)
LEMMA ControlTypesKept ==
  ASSUME FlagTypes, ControlTypes, Next
  PROVE  ControlTypes'
<1> USE DEF ControlTypes
<1>1. ASSUME NEW r \in Requests, CardRead(r[1], r[2]) PROVE ControlTypes'
  BY <1>1 DEF CardRead
<1>2. ASSUME NEW r \in Requests, SetDma(r[1], r[2]) PROVE ControlTypes'
  BY <1>2 DEF SetDma
<1>3. CASE ReadRam
  BY <1>3 DEF ReadRam
<1>4. CASE ReadNormalLookup
  BY <1>4 DEF ReadNormalLookup, WriteCommand
<1>5. CASE WaitPing
  BY <1>5 DEF WaitPing
<1>6. CASE WaitPoll
  BY <1>6 DEF WaitPoll
<1>7. CASE ReadNormalCopy
  BY <1>7 DEF ReadNormalCopy
<1>8. CASE SetDmaDirect
  BY <1>8 DEF SetDmaDirect
<1>9. CASE SetDmaSleep
  BY <1>9 DEF SetDmaSleep
<1>10. CASE SetDmaCached
  BY <1>10 DEF SetDmaCached, DmaHit, DmaMiss, WriteCommand
<1>11. CASE SetDmaSend
  BY <1>11 DEF SetDmaSend
<1>12. CASE SetDmaEnd
  BY <1>12 DEF SetDmaEnd
<1>13. CASE Irq9
  BY <1>13 DEF Irq9
<1>14. CASE Continue7
  BY <1>14 DEF Continue7
<1>15. CASE Check7
  BY <1>15 DEF Check7
<1>16. CASE Continue9Wait
  BY <1>16 DEF Continue9Wait
<1>17. CASE Continue9
  BY <1>17 DEF Continue9, DmaHit, DmaMiss, WriteCommand
<1>18. CASE Continue9Ping
  BY <1>18 DEF Continue9Ping
<1>19. CASE EndCardReadDma
  BY <1>19 DEF EndCardReadDma
<1>20. CASE Irq7
  BY <1>20 DEF Irq7
<1>21. CASE StartRead
  BY <1>21 DEF StartRead
<1>22. CASE ResumeRead
  BY <1>22 DEF ResumeRead
<1>23. CASE NothingToRun
  BY <1>23 DEF NothingToRun
<1>24. CASE Clear7
  BY <1>24 DEF Clear7
<1>25. CASE Flag7
  BY <1>25 DEF Flag7
<1>26. CASE Reply7
  BY <1>26 DEF Reply7
<1>27. CASE Pong7
  BY <1>27 DEF Pong7
<1>28. CASE HaltStart
  BY <1>28 DEF HaltStart
<1>29. CASE HaltRead
  BY <1>29 DEF HaltRead
<1>30. CASE HaltClear
  BY <1>30 DEF HaltClear
<1>31. CASE HaltFlag
  BY <1>31 DEF HaltFlag
<1>32. CASE HaltSend
  BY <1>32 DEF HaltSend
<1>33. CASE NdmaDone
  BY <1>33 DEF NdmaDone
<1>34. CASE SdDone
  BY <1>34 DEF SdDone
<1>35. CASE VBlankSync
  BY <1>35 DEF VBlankSync
<1> QED
  BY <1>1, <1>2, <1>3, <1>4, <1>5, <1>6, <1>7, <1>8, <1>9,
     <1>10, <1>11, <1>12, <1>13, <1>14, <1>15, <1>16, <1>17, <1>18, <1>19,
     <1>20, <1>21, <1>22, <1>23, <1>24, <1>25, <1>26, <1>27, <1>28, <1>29, <1>30, <1>31, <1>32, <1>33, <1>34, <1>35
     DEF Next, GameThread, Handler9, Handler7, HaltThread

(* No step leaves a slot number, a block or a buffer out of its range.       *)
LEMMA DataTypesKept ==
  ASSUME Inv, Next
  PROVE  DataTypes'
<1> USE DEF DataTypes
<1> DataTypes /\ Progress /\ OneSlotPerSector /\ ChainView
  BY DEF Inv, TypeOK, Protocol, Safety
<1>1. ASSUME NEW r \in Requests, CardRead(r[1], r[2]) PROVE DataTypes'
  BY <1>1, RequestFits DEF CardRead, Issue
<1>2. ASSUME NEW r \in Requests, SetDma(r[1], r[2]) PROVE DataTypes'
  BY <1>2, RequestFits DEF SetDma, Issue
<1>3. CASE ReadRam
  <2>1. out' \in Seq(Block \cup {Junk})
    BY <1>3, WholeType DEF ReadRam, Progress
  <2> QED
    BY <1>3, <2>1 DEF ReadRam, Report
<1>4. CASE ReadNormalLookup
  BY <1>4, AllocateCacheSlotType, SlotForSectorFinds, ContentType DEF ReadNormalLookup, WriteCommand
<1>5. CASE WaitPing
  BY <1>5 DEF WaitPing
<1>6. CASE WaitPoll
  BY <1>6 DEF WaitPoll
<1>7. CASE ReadNormalCopy
  <2>1. cur' \in Sector
    BY <1>7, SizesAssumption DEF ReadNormalCopy, Progress, Sector
  <2>2. cacheDescriptor' \in [Slot -> 0..NSectors] /\ cacheCounter' \in [Slot -> Nat]
    BY <1>7 DEF ReadNormalCopy, UpdateDescriptor, Sector
  <2>3. out' \in Seq(Block \cup {Junk})
    BY <1>7 DEF ReadNormalCopy
  <2>4. left' \in Int /\ accessCounter' \in Nat /\ done' \in Nat
    BY <1>7 DEF ReadNormalCopy, Report
  <2> QED
    BY <1>7, <2>1, <2>2, <2>3, <2>4 DEF ReadNormalCopy
<1>8. CASE SetDmaDirect
  BY <1>8 DEF SetDmaDirect
<1>9. CASE SetDmaSleep
  BY <1>9 DEF SetDmaSleep
<1>10. CASE SetDmaCached
  <2>1. CASE DmaHit(cur)
    BY <1>10, <2>1, SlotForSectorFinds DEF SetDmaCached, DmaHit, UpdateDescriptor, Sector
  <2>2. CASE DmaMiss(cur)
    BY <1>10, <2>2, AllocateCacheSlotType, ContentType
       DEF SetDmaCached, DmaMiss, UpdateDescriptor, WriteCommand, Sector
  <2> QED
    BY <1>10, <2>1, <2>2 DEF SetDmaCached
<1>11. CASE SetDmaSend
  BY <1>11 DEF SetDmaSend
<1>12. CASE SetDmaEnd
  BY <1>12 DEF SetDmaEnd, Report
<1>13. CASE Irq9
  BY <1>13 DEF Irq9
<1>14. CASE Continue7
  BY <1>14 DEF Continue7
<1>15. CASE Check7
  BY <1>15, SlotForSectorFinds DEF Check7
<1>16. CASE Continue9Wait
  BY <1>16 DEF Continue9Wait
<1>17. CASE Continue9
  <2>1. CASE left > 1
    <3>1. cur + 1 \in Sector
      BY <2>1, SizesAssumption DEF Progress, Sector
    <3>2. CASE DmaHit(cur + 1)
      BY <1>17, <2>1, <3>1, <3>2, SlotForSectorFinds DEF Continue9, DmaHit, UpdateDescriptor, Sector
    <3>3. CASE DmaMiss(cur + 1)
      <4>1. AllocateCacheSlot \in Slot /\ Content(cur + 1) \in Block
        BY <3>1, AllocateCacheSlotType, ContentType
      <4>2. /\ cmdSlot' \in Slot /\ cmdBlock' \in Block
            /\ cacheDescriptor' \in [Slot -> 0..NSectors]
            /\ cacheCounter' \in [Slot -> Nat] /\ accessCounter' \in Nat
        BY <3>1, <3>3, <4>1 DEF DmaMiss, UpdateDescriptor, WriteCommand, Sector
      <4>3. cur' \in Sector /\ left' \in Int
        BY <1>17, <2>1, <3>1 DEF Continue9
      <4>4. ndma' = ndma
        BY <3>3 DEF DmaMiss
      <4>5. UNCHANGED <<slotData, slot9, out, first, want, issued, done, arm7>>
        BY <1>17 DEF Continue9
      <4> HIDE <1>17
      <4> QED
        BY <4>2, <4>3, <4>4, <4>5
    <3>4. DmaHit(cur + 1) \/ DmaMiss(cur + 1)
      BY <1>17, <2>1 DEF Continue9
    <3> QED
      BY <3>2, <3>3, <3>4, Zenon
  <2>2. CASE left <= 1
    BY <1>17, <2>2 DEF Continue9, cache, mailbox
  <2>3. left > 1 \/ left <= 1
    OBVIOUS
  <2> QED
    BY <2>1, <2>2, <2>3, Zenon
<1>18. CASE Continue9Ping
  BY <1>18 DEF Continue9Ping
<1>19. CASE EndCardReadDma
  BY <1>19 DEF EndCardReadDma, Report
<1>20. CASE Irq7
  BY <1>20 DEF Irq7
<1>21. CASE StartRead
  BY <1>21, SizesAssumption DEF StartRead
<1>22. CASE ResumeRead
  <2>1. slotData' \in [Slot -> Block \cup {Junk}]
    BY <1>22 DEF ResumeRead
  <2>2. chunks' \in Nat
    <3>1. chunks' = chunks \/ (chunks > 0 /\ chunks' = chunks - 1)
      BY <1>22, Zenon DEF ResumeRead
    <3> QED
      BY <3>1
  <2> QED
    BY <1>22, <2>1, <2>2 DEF ResumeRead
<1>23. CASE NothingToRun
  BY <1>23 DEF NothingToRun
<1>24. CASE Clear7
  BY <1>24 DEF Clear7
<1>25. CASE Flag7
  BY <1>25 DEF Flag7
<1>26. CASE Reply7
  BY <1>26 DEF Reply7
<1>27. CASE Pong7
  BY <1>27 DEF Pong7
<1>28. CASE HaltStart
  BY <1>28 DEF HaltStart
<1>29. CASE HaltRead
  BY <1>29 DEF HaltRead
<1>30. CASE HaltClear
  BY <1>30 DEF HaltClear
<1>31. CASE HaltFlag
  BY <1>31 DEF HaltFlag
<1>32. CASE HaltSend
  BY <1>32 DEF HaltSend
<1>33. CASE NdmaDone
  <2>1. out' \in Seq(Block \cup {Junk})
    <3>1. CASE ndma = -1
      BY <1>33, <3>1, WholeType DEF NdmaDone, Progress
    <3>2. CASE ndma # -1
      BY <1>33, <3>2 DEF NdmaDone
    <3> QED
      BY <3>1, <3>2
  <2>2. ndma' \in Slot \cup {-1, 0}
    BY <1>33 DEF NdmaDone
  <2> QED
    BY <1>33, <2>1, <2>2 DEF NdmaDone
<1>34. CASE SdDone
  BY <1>34 DEF SdDone
<1>35. CASE VBlankSync
  BY <1>35 DEF VBlankSync
<1> QED
  BY <1>1, <1>2, <1>3, <1>4, <1>5, <1>6, <1>7, <1>8, <1>9,
     <1>10, <1>11, <1>12, <1>13, <1>14, <1>15, <1>16, <1>17, <1>18, <1>19,
     <1>20, <1>21, <1>22, <1>23, <1>24, <1>25, <1>26, <1>27, <1>28, <1>29, <1>30, <1>31, <1>32, <1>33, <1>34, <1>35
     DEF Next, GameThread, Handler9, Handler7, HaltThread

-----------------------------------------------------------------------------
(* The protocol, and the safety it is for.                                  *)

(* Appending the block that is due keeps the buffer a prefix of the request. *)
LEMMA AppendDelivers ==
  ASSUME out \in Seq(Block \cup {Junk}), first \in Int, DeliversRom,
         out' = Append(out, Content(first + Len(out))), first' = first
  PROVE  DeliversRom'
<1>1. Len(out') = Len(out) + 1
  OBVIOUS
<1> SUFFICES ASSUME NEW i \in 1..Len(out') PROVE out'[i] = Content(first + i - 1)
  BY DEF DeliversRom
<1>2. CASE i = Len(out) + 1
  BY <1>1, <1>2
<1>3. CASE i \in 1..Len(out)
  <2>1. out'[i] = out[i]
    BY <1>3
  <2> QED
    BY <1>3, <2>1 DEF DeliversRom
<1> QED
  BY <1>1, <1>2, <1>3

(* A hit leaves the descriptors alone and copies from the slot that claims   *)
(* the block.                                                               *)
LEMMA DmaHitEffect ==
  ASSUME DataTypes, OneSlotPerSector, NEW b \in Sector, DmaHit(b)
  PROVE  /\ ndma' \in Slot /\ cacheDescriptor[ndma'] = b
         /\ cacheDescriptor' = cacheDescriptor
         /\ UNCHANGED <<cmdSlot, cmdBlock, cmd>>
<1>1. SlotForSector(b) \in Slot /\ cacheDescriptor[SlotForSector(b)] = b
  BY SlotForSectorFinds DEF DmaHit
<1> QED
  BY <1>1 DEF DmaHit, UpdateDescriptor, DataTypes

(* A miss gives a slot to a block that no slot has.                         *)
LEMMA DmaMissEffect ==
  ASSUME DataTypes, OneSlotPerSector, NEW b \in Sector, DmaMiss(b)
  PROVE  /\ cmdSlot' \in Slot /\ cmdBlock' = Content(b) /\ cmd' = "FB0A"
         /\ cacheDescriptor' = [cacheDescriptor EXCEPT ![cmdSlot'] = b]
         /\ \A s \in Slot : cacheDescriptor[s] # b
         /\ ndma' = ndma
<1>1. ASSUME NEW s \in Slot PROVE cacheDescriptor[s] # b
  <2>1. SlotForSector(b) = 0 /\ s # 0
    BY DEF DmaMiss, Slot
  <2> QED
    BY <2>1, SlotForSectorFinds
<1>2. AllocateCacheSlot \in Slot
  BY AllocateCacheSlotType
<1> QED
  BY <1>1, <1>2 DEF DmaMiss, WriteCommand, UpdateDescriptor

(* A miss claims its slot in advance without breaking the cache.            *)
LEMMA DmaMissKeepsCache ==
  ASSUME DataTypes, OneSlotPerSector, CacheCoherent, NEW b \in Sector, DmaMiss(b),
         slotData' = slotData, ~dmaReadOnArm7, dmaReadOnArm7',
         pc9 \notin {"ping", "wait", "copy"}
  PROVE  OneSlotPerSector' /\ CacheCoherent'
<1>1. /\ cmdSlot' \in Slot
      /\ cacheDescriptor' = [cacheDescriptor EXCEPT ![cmdSlot'] = b]
      /\ \A s \in Slot : cacheDescriptor[s] # b
  BY DmaMissEffect
<1>2. cacheDescriptor \in [Slot -> 0..NSectors]
  BY DEF DataTypes
<1>3. OneSlotPerSector'
  BY <1>1, <1>2 DEF OneSlotPerSector
<1>4. ASSUME NEW s \in Slot, cacheDescriptor'[s] # 0, ~BeingFilled(s)'
      PROVE  slotData'[s] = Content(cacheDescriptor'[s])
  <2>1. s # cmdSlot'
    BY <1>4, Zenon DEF BeingFilled
  <2>2. cacheDescriptor'[s] = cacheDescriptor[s]
    BY <1>1, <1>2, <2>1
  <2>3. ~BeingFilled(s)
    BY Zenon DEF BeingFilled
  <2> QED
    BY <1>4, <2>2, <2>3, Zenon DEF CacheCoherent
<1> QED
  BY <1>3, <1>4, Zenon DEF CacheCoherent

(* The game starts a read only when no DMA chain is left over.              *)
LEMMA CardReadKept ==
  ASSUME Inv, NEW r \in Requests, CardRead(r[1], r[2])
  PROVE  (Protocol /\ Safety)'
<1> USE SizesAssumption
    DEF Inv, TypeOK, FlagTypes, ControlTypes, DataTypes,
        Protocol, ChainOwned, CommandOwned, ThreadView, ChainView, Arm7View,
        OneDriver, Progress, Safety, OneSlotPerSector, CacheCoherent,
        DeliversRom, BeingFilled, Synchronous, Sector, Slot,
        Arm7Done, CopyDone
<1>1. ndma = 0 /\ ~dmaReadOnArm7 /\ ~dmaReadOnArm9
  BY DEF CardRead, Issue, Idle
<1>2. Len(out') \in Nat /\ Len(out') <= 0
  BY DEF CardRead
<1>3. /\ cur' = r[1] /\ first' = r[1] /\ r[1] \in Int
      /\ left' = r[2] /\ r[2] \in Int /\ r[2] > 0 /\ r[1] + r[2] - 1 <= NSectors
      /\ pc9' \in {"ram", "lookup"}
      /\ ndma' = 0 /\ ~dmaReadOnArm7' /\ ~dmaReadOnArm9'
  BY <1>1, RequestFits DEF CardRead, Issue
<1>4. Progress'
  <2> HIDE DEF Inv
  <2> QED
    BY <1>2, <1>3
<1>5. (ChainOwned /\ CommandOwned /\ ThreadView /\ ChainView /\ Arm7View /\ OneDriver)'
  BY <1>1 DEF CardRead, Issue, Idle
<1>6. Safety'
  BY <1>1 DEF CardRead, Issue, Idle
<1> QED
  BY <1>4, <1>5, <1>6

(* The copy of a block that the ARM7 has delivered, or that was cached.     *)
LEMMA ReadNormalCopyKept ==
  ASSUME Inv, ReadNormalCopy
  PROVE  (Protocol /\ Safety)'
<1> USE SizesAssumption
    DEF Inv, TypeOK, FlagTypes, ControlTypes, DataTypes,
        Protocol, ChainOwned, CommandOwned, ThreadView, ChainView, Arm7View,
        OneDriver, Progress, Safety, OneSlotPerSector, CacheCoherent,
        DeliversRom, BeingFilled, Synchronous, Sector, Slot,
        Arm7Done, CopyDone
<1>1. (ChainOwned /\ CommandOwned /\ ThreadView /\ ChainView /\ Arm7View /\ OneDriver)'
  BY DEF ReadNormalCopy, UpdateDescriptor, Report
<1>2. Len(out') = Len(out) + 1
  BY DEF ReadNormalCopy
<1>3. Progress'
  <2>1. ~dmaReadOnArm7' /\ ~dmaReadOnArm9' /\ ndma' = 0 /\ first' = first
    BY DEF ReadNormalCopy
  <2>2. /\ left \in Int /\ cur \in Int /\ first \in Int /\ Len(out) \in Nat
        /\ left > 1 => cur + left - 1 <= NSectors
        /\ cur = first + Len(out)
    BY DEF ReadNormalCopy
  <2>3. CASE left > 1
    <3>1. cur' = cur + 1 /\ left' = left - 1 /\ pc9' = "lookup"
      BY <2>3 DEF ReadNormalCopy
    <3> HIDE DEF Inv
    <3> QED
      BY <1>2, <2>1, <2>2, <2>3, <3>1
  <2>4. CASE left <= 1
    <3>1. left' \in Int /\ left' <= 0 /\ pc9' \in {"end", "idle"}
      BY <2>4 DEF ReadNormalCopy
    <3> HIDE DEF Inv
    <3> QED
      BY <2>1, <3>1
  <2>5. left > 1 \/ left <= 1
    BY <2>2
  <2> QED
    BY <2>3, <2>4, <2>5, Zenon
<1>4. OneSlotPerSector' /\ CacheCoherent'
  BY DEF ReadNormalCopy, UpdateDescriptor
<1>5. DeliversRom'
  <2>1. slotData[slot9] = Content(cur) /\ cur = first + Len(out)
    BY DEF ReadNormalCopy
  <2>2. out' = Append(out, Content(first + Len(out))) /\ first' = first
    BY <2>1 DEF ReadNormalCopy
  <2> QED
    BY <2>2, AppendDelivers
<1> QED
  BY <1>1, <1>3, <1>4, <1>5

(* A copy from RAM starts when no other copy runs.                          *)
LEMMA SetDmaDirectKept ==
  ASSUME Inv, SetDmaDirect
  PROVE  (Protocol /\ Safety)'
<1> USE SizesAssumption
    DEF Inv, TypeOK, FlagTypes, ControlTypes, DataTypes,
        Protocol, ChainOwned, CommandOwned, ThreadView, ChainView, Arm7View,
        OneDriver, Progress, Safety, OneSlotPerSector, CacheCoherent,
        DeliversRom, BeingFilled, Synchronous, Sector, Slot,
        Arm7Done, CopyDone
<1>1. ~dmaReadOnArm7 /\ ~dmaReadOnArm9 /\ ndma = 0 /\ busy
  BY DEF SetDmaDirect
<1>2. dmaDirectRead' /\ UNCHANGED <<dmaReadOnArm7, dmaReadOnArm9>>
  BY Zenon DEF SetDmaDirect
<1>3. ChainOwned'
  BY <1>1, <1>2 DEF SetDmaDirect
<1>4. (CommandOwned /\ ThreadView /\ ChainView /\ Arm7View /\ OneDriver /\ Progress)'
  BY <1>1 DEF SetDmaDirect
<1>5. Safety'
  BY <1>1 DEF SetDmaDirect
<1> QED
  BY <1>3, <1>4, <1>5

(* The first block of a DMA request.                                        *)
LEMMA SetDmaCachedKept ==
  ASSUME Inv, SetDmaCached
  PROVE  (Protocol /\ Safety)'
<1> USE SizesAssumption
    DEF Inv, TypeOK, FlagTypes, ControlTypes, DataTypes,
        Protocol, ChainOwned, CommandOwned, ThreadView, ChainView, Arm7View,
        OneDriver, Progress, Safety, OneSlotPerSector, CacheCoherent,
        DeliversRom, BeingFilled, Synchronous, Sector, Slot,
        Arm7Done, CopyDone
<1>1. /\ ~dmaReadOnArm7 /\ ~dmaReadOnArm9 /\ ndma = 0 /\ cmd = NoCmd
      /\ busy /\ ~dmaDirectRead /\ h9 = "none"
  BY Zenon DEF SetDmaCached
<1>2. /\ (busy' <=> busy) /\ (dmaDirectRead' <=> dmaDirectRead)
      /\ ((irq7' = irq7 /\ sync7' = sync7) \/ PingIpc)
      /\ (ping' <=> ping) /\ (readOngoing' <=> readOngoing)
  BY Zenon DEF SetDmaCached
<1>3. UNCHANGED <<slotData, slot9, h9, cur, left, out, first, h7, t7, slot7, block7, context>>
  BY DEF SetDmaCached
<1>4. CASE DmaHit(cur)
  <2>1. dmaReadOnArm9' /\ ~dmaReadOnArm7'
    BY <1>1, <1>4, Zenon DEF DmaHit
  <2>2. /\ ndma' \in Slot /\ cacheDescriptor[ndma'] = cur
        /\ cacheDescriptor' = cacheDescriptor
        /\ UNCHANGED <<cmdSlot, cmdBlock, cmd>>
    BY <1>4, DmaHitEffect
  <2>3. pc9' = "send3" /\ cur = first + Len(out) /\ Len(out) = 0
    BY <1>4 DEF SetDmaCached, DmaHit, DmaMiss
  <2> HIDE <1>4
  <2>4. (ChainOwned /\ CommandOwned /\ ThreadView /\ ChainView /\ Arm7View /\ OneDriver)'
    BY <1>1, <1>2, <1>3, <2>1, <2>2, <2>3
  <2>5. Progress'
    BY <1>1, <1>3, <2>1, <2>2, <2>3
  <2>6. Safety'
    BY <1>1, <1>3, <2>1, <2>2, <2>3
  <2> QED
    BY <2>4, <2>5, <2>6
<1>5. CASE DmaMiss(cur)
  <2>0. ~DmaHit(cur)
    BY <1>5, Zenon DEF DmaHit, DmaMiss
  <2>1. dmaReadOnArm7' /\ ~dmaReadOnArm9'
    <3>1. dmaReadOnArm7'
      BY <1>5, Zenon DEF DmaMiss
    <3>2. dmaReadOnArm9' = dmaReadOnArm9
      BY <2>0, Zenon DEF SetDmaCached
    <3>3. ~dmaReadOnArm9
      BY <1>1, Zenon
    <3> QED
      BY <3>1, <3>2, <3>3, Zenon
  <2>2. /\ cmdSlot' \in Slot /\ cmdBlock' = Content(cur) /\ cmd' = "FB0A"
        /\ cacheDescriptor' = [cacheDescriptor EXCEPT ![cmdSlot'] = cur]
        /\ \A s \in Slot : cacheDescriptor[s] # cur
        /\ ndma' = ndma
    BY <1>5, DmaMissEffect
  <2>3. pc9' = "idle" /\ cur = first + Len(out)
    BY <1>5 DEF SetDmaCached, DmaHit, DmaMiss
  <2>8. OneSlotPerSector' /\ CacheCoherent'
    <3>1. ~dmaReadOnArm7 /\ dmaReadOnArm7' /\ pc9 \notin {"ping", "wait", "copy"} /\ slotData' = slotData
      BY <1>1, <1>3, <2>1, Zenon DEF SetDmaCached
    <3>2. DataTypes /\ OneSlotPerSector /\ CacheCoherent /\ cur \in Sector
      OBVIOUS
    <3> HIDE DEF Inv, DataTypes, OneSlotPerSector, CacheCoherent, BeingFilled
    <3> QED
      BY <3>1, <3>2, <1>5, DmaMissKeepsCache
  <2> HIDE <1>5
  <2>4. (ChainOwned /\ CommandOwned /\ ThreadView /\ ChainView /\ Arm7View /\ OneDriver)'
    BY <1>1, <1>2, <1>3, <2>1, <2>2, <2>3
  <2>5. Progress'
    BY <1>1, <1>3, <2>1, <2>2, <2>3
  <2>6. OneSlotPerSector' /\ CacheCoherent'
    BY <2>8
  <2>7. DeliversRom'
    BY <1>3
  <2> QED
    BY <2>4, <2>5, <2>6, <2>7, Zenon
<1>6. DmaHit(cur) \/ DmaMiss(cur)
  BY Zenon DEF SetDmaCached
<1> QED
  BY <1>4, <1>5, <1>6, Zenon

(* The ARM7 is seen to have answered: the copy from its slot starts.        *)
LEMMA Check7Kept ==
  ASSUME Inv, Check7
  PROVE  (Protocol /\ Safety)'
<1> USE SizesAssumption
    DEF Inv, TypeOK, FlagTypes, ControlTypes, DataTypes,
        Protocol, ChainOwned, CommandOwned, ThreadView, ChainView, Arm7View,
        OneDriver, Progress, Safety, OneSlotPerSector, CacheCoherent,
        DeliversRom, BeingFilled, Synchronous, Sector, Slot,
        Arm7Done, CopyDone
<1>1. dmaReadOnArm7 /\ ~dmaReadOnArm9 /\ ~dmaDirectRead /\ busy /\ ndma = 0
      /\ ~Synchronous
  BY Zenon DEF Check7
<1>2. /\ (busy' <=> busy) /\ (dmaDirectRead' <=> dmaDirectRead)
      /\ (ping' <=> ping) /\ (readOngoing' <=> readOngoing)
  BY Zenon DEF Check7
<1>3. /\ UNCHANGED <<cmdSlot, cmdBlock, cmd, slotData, cacheDescriptor, pc9, slot9,
                    cur, left, out, first, h7, t7, slot7, block7, context>>
      /\ h9' = "cont9"
  BY DEF Check7
<1>4. CASE ~Arm7Done
  <2>1. /\ dmaReadOnArm7' /\ ~dmaReadOnArm9' /\ ndma' = 0 /\ (irq7' <=> irq7)
        /\ sync7' = sync7
    <3>1. UNCHANGED <<irq7, sync7, dmaReadOnArm7, dmaReadOnArm9, ndma>>
      BY <1>4, Zenon DEF Check7
    <3> HIDE DEF Inv
    <3> QED
      BY <1>1, <3>1, Zenon
  <2>2. (ChainOwned /\ CommandOwned /\ ThreadView /\ ChainView /\ Arm7View /\ OneDriver)'
    BY <1>1, <1>2, <1>3, <2>1
  <2>3. Progress'
    BY <1>1, <1>3, <2>1
  <2>4. Safety'
    BY <1>1, <1>3, <2>1
  <2> QED
    BY <2>2, <2>3, <2>4
<1>5. CASE Arm7Done
  <2>1. ~dmaReadOnArm7' /\ dmaReadOnArm9'
    BY <1>5, Zenon DEF Check7
  <2>2. ndma' = SlotForSector(cur) /\ sync7' = 3
    BY <1>5, Zenon DEF Check7
  <2>3. cacheDescriptor[cmdSlot] = cur /\ cmdSlot \in Slot
    BY <1>1
  <2>4. ndma' = cmdSlot /\ ndma' \in Slot
    BY <2>2, <2>3, SlotForSectorFinds
  <2>5. (ChainOwned /\ CommandOwned /\ ThreadView /\ ChainView /\ Arm7View)'
    BY <1>1, <1>2, <1>3, <1>5, <2>1, <2>3, <2>4
  <2>6. OneDriver'
    BY <1>1, <1>2, <1>3, <1>5, <2>2
  <2>7. Progress'
    BY <1>1, <1>3, <2>1, <2>3, <2>4
  <2>8. Safety'
    <3>1. OneSlotPerSector' /\ DeliversRom'
      BY <1>3
    <3>2. slotData[cmdSlot] = Content(cur)
      BY <1>1, <1>5
    <3>3. CacheCoherent'
      BY <1>1, <1>3, <2>1, <2>3, <3>2
    <3> QED
      BY <3>1, <3>3
  <2> QED
    BY <2>5, <2>6, <2>7, <2>8
<1> QED
  BY <1>4, <1>5

(* The end of a non-blocking read fills the slot that the mailbox names.    *)
LEMMA ResumeReadKept ==
  ASSUME Inv, ResumeRead
  PROVE  (Protocol /\ Safety)'
<1> USE SizesAssumption
    DEF Inv, TypeOK, FlagTypes, ControlTypes, DataTypes,
        Protocol, ChainOwned, CommandOwned, ThreadView, ChainView, Arm7View,
        OneDriver, Progress, Safety, OneSlotPerSector, CacheCoherent,
        DeliversRom, BeingFilled, Synchronous, Sector, Slot,
        Arm7Done, CopyDone
<1>1. readOngoing /\ cmd # NoCmd /\ context = <<cmdSlot, cmdBlock>>
  BY Zenon DEF ResumeRead
<1>2. t7 = "idle" /\ PingIpc
  BY <1>1, Zenon DEF ResumeRead
<1>3. UNCHANGED <<shared, arm9, t7, slot7, block7, context>>
  BY DEF ResumeRead
<1>4. CASE UNCHANGED <<slotData, readOngoing>> /\ h7' \in {"flagR", "pong"}
  BY <1>1, <1>2, <1>3, <1>4
<1>5. CASE /\ slotData' = [slotData EXCEPT ![context[1]] = context[2]]
           /\ readOngoing' = FALSE /\ h7' = "clear"
  <2>1. slotData' = [slotData EXCEPT ![cmdSlot] = cmdBlock] /\ ~readOngoing'
    BY <1>1, <1>5
  <2>2. h7' = "clear"
    BY <1>5, Zenon
  <2> HIDE <1>5
  <2>3. (ChainOwned /\ CommandOwned /\ OneDriver /\ Progress)'
    BY <1>2, <1>3, <2>1, <2>2
  <2>4. (ThreadView /\ ChainView /\ Arm7View)'
    BY <1>1, <1>2, <1>3, <2>1, <2>2
  <2>5. Safety'
    BY <1>1, <1>3, <2>1
  <2> QED
    BY <2>3, <2>4, <2>5
<1> QED
  BY <1>4, <1>5, Zenon DEF ResumeRead

(* The end of a copy.                                                       *)
LEMMA NdmaDoneKept ==
  ASSUME Inv, NdmaDone
  PROVE  (Protocol /\ Safety)'
<1> USE SizesAssumption
    DEF Inv, TypeOK, FlagTypes, ControlTypes, DataTypes,
        Protocol, ChainOwned, CommandOwned, ThreadView, ChainView, Arm7View,
        OneDriver, Progress, Safety, OneSlotPerSector, CacheCoherent,
        DeliversRom, BeingFilled, Synchronous, Sector, Slot,
        Arm7Done, CopyDone
<1>1. busy /\ ~Synchronous /\ ~dmaReadOnArm7 /\ ndma # 0
  BY DEF NdmaDone
<1>2. UNCHANGED <<shared, slotData, cache, flags9, pc9, slot9, h9, cur, left,
                  first, want, busy, issued, done, arm7>> /\ ndma' = 0
  BY DEF NdmaDone
<1>3. (ChainOwned /\ CommandOwned /\ ThreadView /\ ChainView /\ Arm7View /\ OneDriver)'
  BY <1>1, <1>2
<1>4. OneSlotPerSector' /\ CacheCoherent'
  BY <1>1, <1>2
<1>5. CASE ndma = -1
  <2>1. ~dmaReadOnArm9 /\ cur = first /\ left \in Nat
    BY <1>5
  <2>2. out' = Whole(first, left) /\ first' = first
    BY <1>5, <2>1 DEF NdmaDone
  <2>3. Progress'
    BY <1>1, <1>2, <2>1, <2>2
  <2>4. DeliversRom'
    <3>1. /\ Len(Whole(first, left)) = left
          /\ \A i \in 1..left : Whole(first, left)[i] = Content(first + i - 1)
      BY <2>1, WholeType
    <3> HIDE DEF Inv
    <3> QED
      BY <2>2, <3>1
  <2> QED
    BY <1>3, <1>4, <2>3, <2>4
<1>6. CASE ndma \in Slot
  <2>1. dmaReadOnArm9 /\ cacheDescriptor[ndma] = cur /\ cur = first + Len(out)
    BY <1>6
  <2>2. slotData[ndma] = Content(cur)
    BY <1>1, <1>6, <2>1
  <2>3. out' = Append(out, Content(first + Len(out))) /\ first' = first
    BY <1>6, <2>1, <2>2 DEF NdmaDone
  <2>4. Len(out') = Len(out) + 1
    BY <2>3
  <2>5. Progress'
    BY <1>1, <1>2, <2>1, <2>4
  <2>6. DeliversRom'
    BY <2>3, AppendDelivers
  <2> QED
    BY <1>3, <1>4, <2>5, <2>6
<1> QED
  BY <1>1, <1>5, <1>6

(* The next block of a DMA request, or its end.                             *)
LEMMA Continue9Kept ==
  ASSUME Inv, Continue9
  PROVE  (Protocol /\ Safety)'
<1> USE SizesAssumption
    DEF Inv, TypeOK, FlagTypes, ControlTypes, DataTypes,
        Protocol, ChainOwned, CommandOwned, ThreadView, ChainView, Arm7View,
        OneDriver, Progress, Safety, OneSlotPerSector, CacheCoherent,
        DeliversRom, BeingFilled, Synchronous, Sector, Slot,
        Arm7Done, CopyDone
<1>1. /\ dmaReadOnArm9 /\ ~dmaReadOnArm7 /\ ndma = 0 /\ busy /\ ~dmaDirectRead
      /\ ~Synchronous /\ cmd = NoCmd /\ h9 = "cont9"
  BY Zenon DEF Continue9
<1>2. /\ (busy' <=> busy) /\ (dmaDirectRead' <=> dmaDirectRead)
      /\ (ping' <=> ping) /\ (readOngoing' <=> readOngoing)
  BY Zenon DEF Continue9
<1>3. UNCHANGED <<slotData, pc9, slot9, out, first, h7, t7, slot7, block7, context>>
  BY DEF Continue9
<1>4. left' = left - 1 /\ cur + 1 = first + Len(out)
  BY <1>1 DEF Continue9
<1>5. CASE left > 1 /\ DmaHit(cur + 1)
  <2>1. cur + 1 \in Sector
    BY <1>5
  <2>2. /\ ndma' \in Slot /\ cacheDescriptor[ndma'] = cur + 1
        /\ cacheDescriptor' = cacheDescriptor
        /\ UNCHANGED <<cmdSlot, cmdBlock, cmd>>
    BY <1>5, <2>1, DmaHitEffect
  <2>3. ~DmaMiss(cur + 1)
    BY <1>5, Zenon DEF DmaHit, DmaMiss
  <2>4. dmaReadOnArm9' /\ ~dmaReadOnArm7'
    BY <1>1, <1>5, Zenon DEF DmaHit
  <2>5. cur' = cur + 1 /\ sync7' = 3 /\ h9' = "none"
    BY <1>5, <2>3 DEF Continue9
  <2> HIDE <1>5
  <2>6. (ChainOwned /\ CommandOwned /\ ThreadView /\ ChainView /\ Arm7View /\ OneDriver)'
    BY <1>1, <1>2, <1>3, <2>1, <2>2, <2>4, <2>5
  <2>7. Progress'
    BY <1>1, <1>3, <1>4, <2>1, <2>2, <2>4, <2>5
  <2>8. Safety'
    BY <1>1, <1>3, <2>1, <2>2, <2>4, <2>5
  <2> QED
    BY <2>6, <2>7, <2>8
<1>6. CASE left > 1 /\ DmaMiss(cur + 1)
  <2>1. cur + 1 \in Sector
    BY <1>6
  <2>2. /\ cmdSlot' \in Slot /\ cmdBlock' = Content(cur + 1) /\ cmd' = "FB0A"
        /\ cacheDescriptor' = [cacheDescriptor EXCEPT ![cmdSlot'] = cur + 1]
        /\ \A s \in Slot : cacheDescriptor[s] # cur + 1
        /\ ndma' = ndma
    BY <1>6, <2>1, DmaMissEffect
  <2>3. ~DmaHit(cur + 1) /\ ~(left <= 1)
    <3>1. ~DmaHit(cur + 1)
      BY <1>6, Zenon DEF DmaHit, DmaMiss
    <3>2. ~(left <= 1)
      BY <1>6
    <3> QED
      BY <3>1, <3>2
  <2>4. dmaReadOnArm7'
    BY <1>6, Zenon DEF DmaMiss
  <2>5. ~dmaReadOnArm9'
    BY <1>6, <2>3, Zenon DEF Continue9
  <2>6. /\ cur' = cur + 1 /\ h9' \in {"ping", "none"} /\ (h9' = "ping" => PingIpc)
        /\ (irq7' <=> irq7) /\ sync7' = sync7
    <3>1. cur' = cur + 1 /\ UNCHANGED <<irq7, sync7>> /\ h9' = IF PingIpc THEN "ping" ELSE "none"
      BY <1>6, <2>3, Zenon DEF Continue9
    <3> HIDE <1>6 DEF Inv
    <3>2. irq7' <=> irq7
      BY <3>1, Zenon
    <3> QED
      BY <3>1, <3>2
  <2>7. OneSlotPerSector' /\ CacheCoherent'
    <3>1. /\ slotData' = slotData /\ pc9 \notin {"ping", "wait", "copy"}
          /\ DataTypes /\ OneSlotPerSector /\ CacheCoherent
      BY <1>1, <1>3
    <3> HIDE DEF Inv, DataTypes, OneSlotPerSector, CacheCoherent, BeingFilled
    <3> QED
      BY <1>1, <1>6, <2>1, <2>4, <3>1, DmaMissKeepsCache
  <2> HIDE <1>6
  <2>8. (ChainOwned /\ CommandOwned /\ ThreadView)'
    BY <1>1, <1>2, <1>3, <2>2, <2>4, <2>5, <2>6
  <2>9. (ChainView /\ Arm7View /\ OneDriver)'
    BY <1>1, <1>2, <1>3, <2>1, <2>2, <2>4, <2>5, <2>6
  <2>10. Progress' /\ DeliversRom'
    BY <1>1, <1>3, <1>4, <2>1, <2>2, <2>4, <2>5, <2>6
  <2> QED
    BY <2>7, <2>8, <2>9, <2>10
<1>7. CASE left <= 1
  <2>1. ~(left > 1)
    BY <1>7
  <2>2. ~dmaReadOnArm9' /\ h9' = "end"
    BY <1>7, <2>1, Zenon DEF Continue9
  <2>3. UNCHANGED <<mailbox, irq7, sync7, cache, dmaReadOnArm7, ndma, cur>>
    BY <1>7, <2>1, Zenon DEF Continue9
  <2>4. ~dmaReadOnArm7' /\ (irq7' <=> irq7)
    <3> HIDE DEF Inv
    <3> QED
      BY <1>1, <2>3, Zenon
  <2>5. /\ UNCHANGED <<cmdSlot, cmdBlock, cmd, cacheDescriptor, cur, sync7>>
        /\ ndma' = 0
    BY <1>1, <2>3
  <2> HIDE <2>3
  <2>6. (ChainOwned /\ CommandOwned /\ ThreadView /\ ChainView /\ Arm7View /\ OneDriver)'
    BY <1>1, <1>2, <1>3, <2>2, <2>4, <2>5
  <2>7. Progress'
    BY <1>1, <1>3, <1>4, <1>7, <2>2, <2>4, <2>5
  <2>8. Safety'
    BY <1>1, <1>3, <2>2, <2>4, <2>5
  <2> QED
    BY <2>6, <2>7, <2>8
<1>8. left > 1 \/ left <= 1
  OBVIOUS
<1>9. left > 1 => DmaHit(cur + 1) \/ DmaMiss(cur + 1)
  BY DEF Continue9
<1> QED
  BY <1>5, <1>6, <1>7, <1>8, <1>9, Zenon

(* Every step keeps the protocol and the safety.                             *)
LEMMA ProtocolSafetyKept ==
  ASSUME Inv, Next
  PROVE  (Protocol /\ Safety)'
<1> USE SizesAssumption
    DEF Inv, TypeOK, FlagTypes, ControlTypes, DataTypes,
        Protocol, ChainOwned, CommandOwned, ThreadView, ChainView, Arm7View,
        OneDriver, Progress, Safety, OneSlotPerSector, CacheCoherent,
        DeliversRom, BeingFilled, Synchronous, Sector, Slot,
        Arm7Done, CopyDone
<1>1. ASSUME NEW r \in Requests, CardRead(r[1], r[2]) PROVE (Protocol /\ Safety)'
  BY <1>1, CardReadKept
<1>2. ASSUME NEW r \in Requests, SetDma(r[1], r[2]) PROVE (Protocol /\ Safety)'
  BY <1>2, RequestFits, SMTT(60) DEF SetDma, Issue, Idle
<1>3. CASE ReadRam
  BY <1>3, WholeType, SMTT(60) DEF ReadRam, Report, Whole
<1>4. CASE ReadNormalLookup
  BY <1>4, AllocateCacheSlotType, SlotForSectorFinds, ContentType, SMTT(60) DEF ReadNormalLookup, WriteCommand
<1>5. CASE WaitPing
  BY <1>5, SMTT(60) DEF WaitPing
<1>6. CASE WaitPoll
  BY <1>6, SMTT(60) DEF WaitPoll
<1>7. CASE ReadNormalCopy
  BY <1>7, ReadNormalCopyKept
<1>8. CASE SetDmaDirect
  BY <1>8, SetDmaDirectKept
<1>9. CASE SetDmaSleep
  BY <1>9, SMTT(60) DEF SetDmaSleep
<1>10. CASE SetDmaCached
  BY <1>10, SetDmaCachedKept
<1>11. CASE SetDmaSend
  BY <1>11, SMTT(60) DEF SetDmaSend
<1>12. CASE SetDmaEnd
  BY <1>12, SMTT(60) DEF SetDmaEnd, Report
<1>13. CASE Irq9
  BY <1>13, SMTT(60) DEF Irq9
<1>14. CASE Continue7
  BY <1>14, SMTT(60) DEF Continue7
<1>15. CASE Check7
  BY <1>15, Check7Kept
<1>16. CASE Continue9Wait
  BY <1>16, SMTT(60) DEF Continue9Wait
<1>17. CASE Continue9
  BY <1>17, Continue9Kept
<1>18. CASE Continue9Ping
  BY <1>18, SMTT(60) DEF Continue9Ping
<1>19. CASE EndCardReadDma
  BY <1>19, SMTT(60) DEF EndCardReadDma, Report
<1>20. CASE Irq7
  BY <1>20, SMTT(60) DEF Irq7
<1>21. CASE StartRead
  BY <1>21, SMTT(60) DEF StartRead
<1>22. CASE ResumeRead
  BY <1>22, ResumeReadKept
<1>23. CASE NothingToRun
  BY <1>23, SMTT(60) DEF NothingToRun
<1>24. CASE Clear7
  BY <1>24, SMTT(60) DEF Clear7
<1>25. CASE Flag7
  BY <1>25, SMTT(60) DEF Flag7
<1>26. CASE Reply7
  BY <1>26, SMTT(60) DEF Reply7
<1>27. CASE Pong7
  BY <1>27, SMTT(60) DEF Pong7
<1>28. CASE HaltStart
  <2>1. cmd # NoCmd /\ slot7' = cmdSlot /\ block7' = cmdBlock /\ t7' = "reading"
    BY <1>28 DEF HaltStart
  <2>2. (ChainOwned /\ CommandOwned /\ ThreadView /\ ChainView)'
    BY <1>28, <2>1 DEF HaltStart
  <2>3. (Arm7View /\ OneDriver /\ Progress)'
    BY <1>28, <2>1 DEF HaltStart, HaltHooked
  <2>4. BeingFilled(cmdSlot)
    BY <2>1
  <2>5. Safety'
    BY <1>28, <2>1, <2>4 DEF HaltStart
  <2> QED
    BY <2>2, <2>3, <2>5
<1>29. CASE HaltRead
  BY <1>29, SMTT(60) DEF HaltRead
<1>30. CASE HaltClear
  BY <1>30, SMTT(60) DEF HaltClear
<1>31. CASE HaltFlag
  BY <1>31, SMTT(60) DEF HaltFlag
<1>32. CASE HaltSend
  BY <1>32, SMTT(60) DEF HaltSend
<1>33. CASE NdmaDone
  BY <1>33, NdmaDoneKept
<1>34. CASE SdDone
  BY <1>34, SMTT(60) DEF SdDone
<1>35. CASE VBlankSync
  BY <1>35, SMTT(60) DEF VBlankSync
<1> QED
  BY <1>1, <1>2, <1>3, <1>4, <1>5, <1>6, <1>7, <1>8, <1>9,
     <1>10, <1>11, <1>12, <1>13, <1>14, <1>15, <1>16, <1>17, <1>18, <1>19,
     <1>20, <1>21, <1>22, <1>23, <1>24, <1>25, <1>26, <1>27, <1>28, <1>29, <1>30, <1>31, <1>32, <1>33, <1>34, <1>35
     DEF Next, GameThread, Handler9, Handler7, HaltThread

-----------------------------------------------------------------------------
(* The theorems.                                                            *)

LEMMA InitInv ==
  ASSUME Init
  PROVE  Inv
<1> USE SizesAssumption, ModesAssumption DEF Init
<1>1. Content(1) \in Block
  BY ContentType DEF Sector
<1>2. FlagTypes
  BY Zenon DEF FlagTypes
<1>3. ControlTypes /\ DataTypes
  BY <1>1 DEF ControlTypes, DataTypes, Sector, Slot
<1>4. Protocol
  BY DEF Protocol, ChainOwned, CommandOwned, ThreadView, ChainView, Arm7View,
         OneDriver, Progress, Synchronous, Slot, Sector
<1>5. Safety
  BY DEF Safety, OneSlotPerSector, CacheCoherent, DeliversRom, Slot
<1> QED
  BY <1>2, <1>3, <1>4, <1>5 DEF Inv, TypeOK

LEMMA NextInv ==
  ASSUME Inv, [Next]_vars
  PROVE  Inv'
<1>1. CASE Next
  <2>1. FlagTypes /\ ControlTypes
    BY DEF Inv, TypeOK
  <2>2. TypeOK'
    BY <1>1, <2>1, FlagTypesKept, ControlTypesKept, DataTypesKept DEF TypeOK
  <2>3. (Protocol /\ Safety)'
    BY <1>1, ProtocolSafetyKept
  <2> QED
    BY <2>2, <2>3 DEF Inv
<1>2. CASE UNCHANGED vars
  <2> USE <1>2 DEF vars, Sector, Slot
  <2>1. TypeOK'
    <3>1. FlagTypes /\ ControlTypes /\ DataTypes
      BY DEF Inv, TypeOK
    <3>2. FlagTypes'
      BY <3>1, Zenon DEF FlagTypes
    <3>3. ControlTypes'
      BY <3>1 DEF ControlTypes
    <3>4. DataTypes'
      BY <3>1 DEF DataTypes
    <3> QED
      BY <3>2, <3>3, <3>4 DEF TypeOK
  <2>2. (ChainOwned /\ CommandOwned /\ ThreadView /\ ChainView)'
    BY Zenon DEF Inv, Protocol, ChainOwned, CommandOwned, ThreadView, ChainView, Synchronous
  <2>3. (Arm7View /\ OneDriver /\ Progress)'
    BY Zenon DEF Inv, Protocol, Arm7View, OneDriver, Progress, Synchronous
  <2>4. Safety'
    BY Zenon DEF Inv, Safety, OneSlotPerSector, CacheCoherent, DeliversRom, BeingFilled
  <2> QED
    BY <2>1, <2>2, <2>3, <2>4 DEF Inv, Protocol
<1> QED
  BY <1>1, <1>2

(* The inductive invariant holds in every reachable state of the card-read   *)
(* path, for every ROM, cache size, request length and mode of the loader.  *)
THEOREM CardReadInvariant == Spec => []Inv
<1>1. Init => Inv
  BY InitInv
<1>2. Inv /\ [Next]_vars => Inv'
  BY NextInv
<1> QED
  BY <1>1, <1>2, PTL DEF Spec

(* No index leaves the slot table or the ROM in cardReadNormal, cardSetDma,  *)
(* the IPC handlers and the halt hook.                                      *)
THEOREM CardReadTypeCorrect == Spec => []TypeOK
<1>1. Inv => TypeOK
  BY DEF Inv
<1> QED
  BY <1>1, CardReadInvariant, PTL

(* allocateCacheSlot and updateDescriptor never let two slots claim a block. *)
THEOREM CardReadOneSlotPerSector == Spec => []OneSlotPerSector
<1>1. Inv => OneSlotPerSector
  BY DEF Inv, Safety
<1> QED
  BY <1>1, CardReadInvariant, PTL

(* A cached block is always the block its descriptor names, whichever way    *)
(* the thread, the two handlers, the halt hook and the DMA engines run.      *)
THEOREM CardReadCacheCoherent == Spec => []CacheCoherent
<1>1. Inv => CacheCoherent
  BY DEF Inv, Safety
<1> QED
  BY <1>1, CardReadInvariant, PTL

(* The game's buffer never holds anything but the ROM data asked for.        *)
THEOREM CardReadDeliversRom == Spec => []DeliversRom
<1>1. Inv => DeliversRom
  BY DEF Inv, Safety
<1> QED
  BY <1>1, CardReadInvariant, PTL

(* runCardEngineCheckHalt never reads while a non-blocking read of           *)
(* runCardEngineCheck is open: the loader's choice of hook keeps them apart. *)
THEOREM CardReadSdExclusive == Spec => []SdExclusive
<1>1. Inv => SdExclusive
  BY Zenon DEF Inv, Protocol, OneDriver, SdExclusive
<1> QED
  BY <1>1, CardReadInvariant, PTL

(* Whoever writes the mailbox finds it empty, and who empties it has put the *)
(* wanted block in the wanted slot.                                         *)
LEMMA NextAnswersCommand ==
  ASSUME Inv, Next
  PROVE  AnswersCommand
<1> SUFFICES ASSUME cmd # NoCmd PROVE AnswersCommand
  BY Zenon DEF AnswersCommand
<1> USE DEF AnswersCommand
<1>0. /\ pc9 \notin {"lookup", "setdma"} /\ ~dmaReadOnArm9
      /\ (t7 = "clear" \/ h7 = "clear") => slotData[cmdSlot] = cmdBlock
  BY Zenon DEF Inv, Protocol, CommandOwned, ChainOwned, Arm7View, Synchronous
<1>1. ASSUME NEW r \in Requests, CardRead(r[1], r[2]) PROVE AnswersCommand
  BY <1>1, Zenon DEF CardRead
<1>2. ASSUME NEW r \in Requests, SetDma(r[1], r[2]) PROVE AnswersCommand
  BY <1>2, Zenon DEF SetDma
<1>3. CASE ReadRam
  BY <1>3, Zenon DEF ReadRam
<1>4. CASE ReadNormalLookup
  BY <1>4, <1>0, Zenon DEF ReadNormalLookup
<1>5. CASE WaitPing
  BY <1>5, Zenon DEF WaitPing
<1>6. CASE WaitPoll
  BY <1>6, Zenon DEF WaitPoll
<1>7. CASE ReadNormalCopy
  BY <1>7, Zenon DEF ReadNormalCopy
<1>8. CASE SetDmaDirect
  BY <1>8, Zenon DEF SetDmaDirect
<1>9. CASE SetDmaSleep
  BY <1>9, Zenon DEF SetDmaSleep
<1>10. CASE SetDmaCached
  BY <1>10, <1>0, Zenon DEF SetDmaCached
<1>11. CASE SetDmaSend
  BY <1>11, Zenon DEF SetDmaSend
<1>12. CASE SetDmaEnd
  BY <1>12, Zenon DEF SetDmaEnd
<1>13. CASE Irq9
  BY <1>13, Zenon DEF Irq9
<1>14. CASE Continue7
  BY <1>14, Zenon DEF Continue7
<1>15. CASE Check7
  BY <1>15, Zenon DEF Check7
<1>16. CASE Continue9Wait
  BY <1>16, Zenon DEF Continue9Wait
<1>17. CASE Continue9
  BY <1>17, <1>0, Zenon DEF Continue9
<1>18. CASE Continue9Ping
  BY <1>18, Zenon DEF Continue9Ping
<1>19. CASE EndCardReadDma
  BY <1>19, Zenon DEF EndCardReadDma
<1>20. CASE Irq7
  BY <1>20, Zenon DEF Irq7
<1>21. CASE StartRead
  BY <1>21, Zenon DEF StartRead
<1>22. CASE ResumeRead
  BY <1>22, Zenon DEF ResumeRead
<1>23. CASE NothingToRun
  BY <1>23, Zenon DEF NothingToRun
<1>24. CASE Clear7
  BY <1>24, <1>0, Zenon DEF Clear7
<1>25. CASE Flag7
  BY <1>25, Zenon DEF Flag7
<1>26. CASE Reply7
  BY <1>26, Zenon DEF Reply7
<1>27. CASE Pong7
  BY <1>27, Zenon DEF Pong7
<1>28. CASE HaltStart
  BY <1>28, Zenon DEF HaltStart
<1>29. CASE HaltRead
  BY <1>29, Zenon DEF HaltRead
<1>30. CASE HaltClear
  BY <1>30, <1>0, Zenon DEF HaltClear
<1>31. CASE HaltFlag
  BY <1>31, Zenon DEF HaltFlag
<1>32. CASE HaltSend
  BY <1>32, Zenon DEF HaltSend
<1>33. CASE NdmaDone
  BY <1>33, Zenon DEF NdmaDone
<1>34. CASE SdDone
  BY <1>34, Zenon DEF SdDone
<1>35. CASE VBlankSync
  BY <1>35, Zenon DEF VBlankSync
<1> QED
  BY <1>1, <1>2, <1>3, <1>4, <1>5, <1>6, <1>7, <1>8, <1>9,
     <1>10, <1>11, <1>12, <1>13, <1>14, <1>15, <1>16, <1>17, <1>18, <1>19,
     <1>20, <1>21, <1>22, <1>23, <1>24, <1>25, <1>26, <1>27, <1>28, <1>29, <1>30, <1>31, <1>32, <1>33, <1>34, <1>35
     DEF Next, GameThread, Handler9, Handler7, HaltThread

(* A command stays as written until it is answered, and the answer is the   *)
(* block it asked for: the property CommandAnswered.                        *)
THEOREM CardReadCommandAnswered == Spec => CommandAnswered
<1>1. Inv /\ [Next]_vars => [AnswersCommand]_vars
  BY NextAnswersCommand
<1> QED
  BY <1>1, CardReadInvariant, PTL DEF Spec, CommandAnswered

-----------------------------------------------------------------------------
(* The refinement of RomService.  It needs to know, beyond Inv, how many       *)
(* blocks of the request are still to come, and that its end is reported       *)
(* once: a chain of IPC 3 ends by itself, but of a copy out of RAM every       *)
(* message that arrives tests for the end, so there must be only one.          *)

Counted ==
  /\ Synchronous => /\ busy
                    /\ IF pc9 = "end" THEN Len(out) = want
                       ELSE left >= 1 /\ left + Len(out) = want
  /\ dmaReadOnArm7 => left >= 1 /\ left + Len(out) = want
  /\ dmaReadOnArm9 => left >= 1 /\ left + Len(out) = want + (IF ndma = 0 THEN 1 ELSE 0)
  /\ ndma = -1 => busy /\ left = want /\ Len(out) = 0
  /\ h9 = "end" => busy /\ (ndma = -1 \/ Len(out) = want)

(* With OS_Sleep at hand DMA reads of the card are synchronous.               *)
NoChain ==
  /\ ~dmaReadOnArm7 /\ ~dmaReadOnArm9 /\ cmd # "FB0A" /\ ~dma7 /\ ~dmaHalt
  /\ h7 \notin {"flagR", "sendR"} /\ t7 \notin {"flag", "send"}
  /\ h9 \in {"none", "end"}

Sent3 == irq7 /\ sync7 = 3

(* The one message of a copy out of RAM, wherever it is.                      *)
OneMessage ==
  /\ pc9 = "send3" => ~Sent3 /\ h7 # "flag3" /\ ~dma9 /\ h9 # "end"
  /\ Sent3 => h7 # "flag3" /\ ~dma9 /\ h9 # "end"
  /\ h7 = "flag3" => ~dma9 /\ h9 # "end"
  /\ dma9 => h9 # "end"
  /\ (pc9 = "send3" \/ Sent3 \/ h7 = "flag3" \/ dma9 \/ h9 = "end") =>
       /\ busy /\ dmaDirectRead /\ pc9 \in {"idle", "send3"}
       /\ ndma = -1 \/ Len(out) = want

(* Copies out of RAM or chains, not both: the two kinds of ROM for which the   *)
(* end of a request is reported once.                                        *)
OneKind == Preloaded = {} \/ HasSleep

Reports ==
  /\ Preloaded = {} => ~dmaDirectRead
  /\ HasSleep => NoChain /\ OneMessage

(* What the ARM7 does alone changes no count.                                 *)
LEMMA CountedKept ==
  ASSUME Counted, UNCHANGED arm9
  PROVE  Counted'
BY DEF Counted, Synchronous

Step7 == Handler7 \/ HaltThread \/ SdDone \/ VBlankSync

LEMMA Step7Arm9 == Step7 => UNCHANGED arm9
BY DEF Step7, Handler7, HaltThread, Irq7, StartRead, ResumeRead, NothingToRun, Clear7, Flag7, Reply7,
       Pong7, HaltStart, HaltRead, HaltClear, HaltFlag, HaltSend, SdDone, VBlankSync

(* The types the counts are compared at.                                       *)
LEMMA CountTypes ==
  ASSUME Inv
  PROVE  /\ left \in Int /\ want \in Nat /\ out \in Seq(Block \cup {Junk}) /\ Len(out) \in Nat
         /\ cur \in Sector /\ Slot \subseteq Nat \ {0} /\ DataTypes /\ FlagTypes
         /\ ndma \in Slot \cup {-1, 0}
BY SizesAssumption DEF Inv, TypeOK, DataTypes, Slot

LEMMA CountedStep ==
  ASSUME Inv, OneKind, Reports, Counted, [Next]_vars
  PROVE  Counted'
<1> DEFINE n == Len(out)
<1>0. /\ left \in Int /\ want \in Nat /\ out \in Seq(Block \cup {Junk}) /\ n \in Nat
      /\ cur \in Sector /\ Slot \subseteq Nat \ {0} /\ DataTypes /\ FlagTypes
      /\ ndma \in Slot \cup {-1, 0}
  BY CountTypes
<1> USE <1>0 DEF Counted, Synchronous
<1>1. CASE UNCHANGED vars \/ Step7
  BY <1>1, CountedKept, Step7Arm9 DEF vars
<1>2. ASSUME NEW r \in Requests, CardRead(r[1], r[2]) PROVE Counted'
  <2>1. r[2] \in Nat \ {0} /\ want' = r[2] /\ left' = r[2] /\ out' = <<>> /\ busy' = TRUE
    BY <1>2, RequestFits DEF CardRead, Issue
  <2> QED
    BY <1>2, <2>1 DEF CardRead, Issue, Idle, Inv, Protocol, ChainOwned, FlagTypes
<1>3. ASSUME NEW r \in Requests, SetDma(r[1], r[2]) PROVE Counted'
  <2>1. r[2] \in Nat \ {0} /\ want' = r[2] /\ left' = r[2] /\ out' = <<>> /\ busy' = TRUE
    BY <1>3, RequestFits DEF SetDma, Issue
  <2> QED
    BY <1>3, <2>1 DEF SetDma, Issue, Idle, Inv, Protocol, ChainOwned, FlagTypes
<1>4. CASE ReadRam
  BY <1>4 DEF ReadRam, Report, Inv, Protocol, ChainOwned
<1>5. CASE ReadNormalLookup
  BY <1>5 DEF ReadNormalLookup
<1>6. CASE WaitPing
  BY <1>6 DEF WaitPing
<1>7. CASE WaitPoll
  BY <1>7 DEF WaitPoll
<1>8. CASE SetDmaDirect
  BY <1>8 DEF SetDmaDirect, Inv, Protocol, Progress
<1>9. CASE SetDmaSleep
  BY <1>9 DEF SetDmaSleep
<1>10. CASE SetDmaSend
  BY <1>10 DEF SetDmaSend
<1>11. CASE SetDmaEnd
  BY <1>11 DEF SetDmaEnd, Report, Inv, Protocol, ChainOwned
<1>12. CASE Irq9
  BY <1>12 DEF Irq9, Reports, OneMessage, NoChain, OneKind
<1>13. CASE Continue7
  BY <1>13 DEF Continue7
<1>14. CASE Continue9Wait
  BY <1>14 DEF Continue9Wait
<1>15. CASE Continue9Ping
  BY <1>15 DEF Continue9Ping
<1>16. CASE EndCardReadDma
  <2>1. h9 = "end" /\ ~dmaReadOnArm7 /\ ~dmaReadOnArm9 /\ ~Synchronous
    BY <1>16 DEF EndCardReadDma, Inv, Protocol, ChainOwned, Reports, OneKind, OneMessage
  <2>2. /\ UNCHANGED <<pc9, left, out, want, dmaReadOnArm7, dmaReadOnArm9, ndma>> /\ h9' = "none"
    BY <1>16, Zenon DEF EndCardReadDma
  <2>3. busy' = busy \/ ndma # -1
    <3>1. CASE dmaDirectRead /\ ~CopyDone
      BY <1>16, <3>1, Zenon DEF EndCardReadDma
    <3>2. CASE ~dmaDirectRead \/ CopyDone
      BY <3>2 DEF CopyDone, Inv, Protocol, ChainOwned
    <3> QED
      BY <3>1, <3>2
  <2> QED
    BY <2>1, <2>2, <2>3
<1>17. CASE ReadNormalCopy
  <2>1. Len(out') = n + 1
    BY <1>17 DEF ReadNormalCopy
  <2>2. /\ pc9 = "copy" /\ ~dmaReadOnArm7 /\ ~dmaReadOnArm9 /\ ndma = 0 /\ h9 = "none"
        /\ UNCHANGED <<dmaReadOnArm7, dmaReadOnArm9, ndma, h9, want>> /\ left' = left - 1
    BY <1>17 DEF ReadNormalCopy, Inv, Protocol, ChainOwned
  <2>3. CASE left > 1
    <3>0. left # 1
      BY <2>3
    <3>1. pc9' = "lookup" /\ busy' = busy
      BY <1>17, <3>0, Zenon DEF ReadNormalCopy
    <3> QED
      BY <2>1, <2>2, <2>3, <3>1
  <2>4. CASE left <= 1
    <3>0. left = 1 /\ ~(left > 1)
      BY <2>2, <2>4
    <3>1. CASE pc9' = "idle"
      BY <2>1, <2>2, <3>0, <3>1
    <3>2. CASE pc9' # "idle"
      <4>1. pc9' = "end" /\ busy' = busy
        BY <1>17, <3>0, <3>2, Zenon DEF ReadNormalCopy
      <4> QED
        BY <2>1, <2>2, <3>0, <4>1
    <3> QED
      BY <3>1, <3>2
  <2> QED
    BY <2>2, <2>3, <2>4
<1>18. CASE SetDmaCached
  <2>1. SlotForSector(cur) \in Slot \cup {0}
    BY SlotForSectorFinds DEF Inv, Safety
  <2> QED
    BY <1>18, <2>1 DEF SetDmaCached, DmaHit, DmaMiss, Inv, Protocol, ChainOwned, FlagTypes
<1>19. CASE Check7
  <2>1. dmaReadOnArm7
    BY <1>19 DEF Check7, Inv, Protocol, ChainOwned
  <2>2. SlotForSector(cur) \in Slot
    BY <2>1, SlotForSectorFinds DEF Inv, Safety, Protocol, ChainView, DataTypes
  <2>3. Counted'
    <3>1. ndma = 0 /\ busy /\ ~Synchronous /\ ~dmaReadOnArm9
      BY <2>1 DEF Inv, Protocol, ChainOwned
    <3>2. UNCHANGED <<pc9, busy, left, out, want>> /\ h9' # "end"
      BY <1>19 DEF Check7
    <3>3. \/ UNCHANGED <<dmaReadOnArm7, dmaReadOnArm9, ndma>>
          \/ dmaReadOnArm7' = FALSE /\ ndma' \in Slot
      BY <1>19, <2>2 DEF Check7
    <3>4. left >= 1 /\ left + n = want
      BY <2>1
    <3>5. CASE UNCHANGED <<dmaReadOnArm7, dmaReadOnArm9, ndma>>
      <4>1. ~dmaReadOnArm9' /\ ndma' = 0
        BY <3>1, <3>5
      <4> QED
        BY <3>1, <3>2, <3>4, <4>1
    <3>6. CASE dmaReadOnArm7' = FALSE /\ ndma' \in Slot
      BY <3>1, <3>2, <3>4, <3>6
    <3> QED
      BY <3>3, <3>5, <3>6
  <2> QED
    BY <2>3
<1>20. CASE Continue9
  <2>1. ndma = 0 /\ busy /\ left - 1 + n = want /\ ~Synchronous /\ ~dmaReadOnArm7
    BY <1>20 DEF Continue9, CopyDone, Inv, Protocol, ChainOwned
  <2>2. CASE left > 1
    <3>1. cur + 1 \in Sector
      BY <2>2, SizesAssumption DEF Inv, Protocol, Progress, Sector
    <3>2. SlotForSector(cur + 1) \in Slot \cup {0}
      BY <3>1, SlotForSectorFinds DEF Inv, Safety
    <3> QED
      BY <1>20, <2>1, <2>2, <3>2 DEF Continue9, DmaHit, DmaMiss
  <2>3. CASE left <= 1
    BY <1>20, <2>1, <2>3 DEF Continue9
  <2> QED
    BY <2>2, <2>3
<1>21. CASE NdmaDone
  <2>1. CASE ndma = -1
    <3>1. Len(out') = left
      BY <1>21, <2>1, WholeType DEF NdmaDone, Inv, Protocol, Progress
    <3> QED
      BY <1>21, <2>1, <3>1 DEF NdmaDone, Inv, Protocol, ChainOwned
  <2>2. CASE ndma \in Slot
    <3>1. Len(out') = n + 1
      BY <1>21, <2>2 DEF NdmaDone
    <3> QED
      BY <1>21, <2>2, <3>1 DEF NdmaDone, Inv, Protocol, ChainOwned
  <2> QED
    BY <1>21, <2>1, <2>2 DEF NdmaDone
<1> QED
  BY <1>1, <1>2, <1>3, <1>4, <1>5, <1>6, <1>7, <1>8, <1>9, <1>10,
     <1>11, <1>12, <1>13, <1>14, <1>15, <1>16, <1>17, <1>18, <1>19, <1>20,
     <1>21
     DEF Next, GameThread, Handler9, Step7

(* The message stays the only one, and the counts it answers for are right.    *)
LEMMA ReportsStep ==
  ASSUME Inv, OneKind, Reports, Counted, Counted', Inv', [Next]_vars
  PROVE  Reports'
<1>0. /\ left \in Int /\ want \in Nat /\ out \in Seq(Block \cup {Junk}) /\ Len(out) \in Nat
      /\ Slot \subseteq Nat \ {0} /\ FlagTypes /\ ndma \in Slot \cup {-1, 0}
  BY CountTypes
<1>1. ASSUME Preloaded = {} PROVE ~dmaDirectRead'
  <2>1. ~dmaDirectRead
    BY <1>1 DEF Reports
  <2>2. ASSUME NEW r \in Requests, CardRead(r[1], r[2]) \/ SetDma(r[1], r[2])
        PROVE ~dmaDirectRead'
    BY <2>1, <2>2, Zenon DEF CardRead, SetDma
  <2>3. CASE GameThread
    BY <1>1, <2>1, <2>3, Zenon
       DEF GameThread, ReadRam, ReadNormalLookup, WaitPing, WaitPoll, ReadNormalCopy, SetDmaDirect,
           SetDmaSleep, SetDmaCached, SetDmaSend, SetDmaEnd
  <2>4. CASE Handler9 \/ NdmaDone
    BY <2>1, <2>4, Zenon DEF Handler9, Irq9, Continue7, Check7, Continue9Wait, Continue9,
                             Continue9Ping, EndCardReadDma, NdmaDone
  <2>5. CASE Step7 \/ UNCHANGED vars
    BY <2>1, <2>5, Step7Arm9 DEF vars
  <2> QED
    BY <2>2, <2>3, <2>4, <2>5 DEF Next, Step7
<1>2. ASSUME HasSleep PROVE NoChain' /\ OneMessage'
  <2>0. /\ NoChain /\ OneMessage
        /\ Synchronous => busy
        /\ ndma = -1 => busy /\ Len(out) = 0 /\ left = want
    BY <1>2 DEF Reports, Counted
  <2> USE <1>0, <1>2, <2>0 DEF NoChain, OneMessage, Sent3, Synchronous
  <2>1. ASSUME NEW r \in Requests, CardRead(r[1], r[2]) \/ SetDma(r[1], r[2]) PROVE NoChain' /\ OneMessage'
    BY <2>1 DEF CardRead, SetDma, Issue, Idle
  <2>2. CASE ReadRam
    BY <2>2 DEF ReadRam, Report
  <2>3. CASE ReadNormalLookup
    BY <2>3 DEF ReadNormalLookup, WriteCommand
  <2>4. CASE WaitPing
    BY <2>4 DEF WaitPing
  <2>5. CASE WaitPoll
    BY <2>5 DEF WaitPoll
  <2>6. CASE ReadNormalCopy
    BY <2>6 DEF ReadNormalCopy, Report
  <2>7. CASE SetDmaDirect
    BY <2>7 DEF SetDmaDirect
  <2>8. CASE SetDmaSleep
    BY <2>8 DEF SetDmaSleep
  <2>9. CASE SetDmaCached
    BY <2>9 DEF SetDmaCached
  <2>10. CASE SetDmaSend
    BY <2>10 DEF SetDmaSend
  <2>11. CASE SetDmaEnd
    BY <2>11 DEF SetDmaEnd, Report
  <2>12. CASE Irq9
    BY <2>12 DEF Irq9
  <2>13. CASE Continue7
    BY <2>13 DEF Continue7
  <2>14. CASE Check7
    BY <2>14 DEF Check7
  <2>15. CASE Continue9Wait
    BY <2>15 DEF Continue9Wait
  <2>16. CASE Continue9
    BY <2>16 DEF Continue9
  <2>17. CASE Continue9Ping
    BY <2>17 DEF Continue9Ping
  <2>18. CASE EndCardReadDma
    BY <2>18 DEF EndCardReadDma, Report, CopyDone
  <2>19. CASE Irq7
    BY <2>19 DEF Irq7
  <2>20. CASE StartRead
    BY <2>20 DEF StartRead
  <2>21. CASE ResumeRead
    BY <2>21 DEF ResumeRead
  <2>22. CASE NothingToRun
    BY <2>22 DEF NothingToRun
  <2>23. CASE Clear7
    BY <2>23 DEF Clear7
  <2>24. CASE Flag7
    BY <2>24 DEF Flag7
  <2>25. CASE Reply7
    BY <2>25 DEF Reply7
  <2>26. CASE Pong7
    BY <2>26 DEF Pong7
  <2>27. CASE HaltStart
    BY <2>27 DEF HaltStart
  <2>28. CASE HaltRead
    BY <2>28 DEF HaltRead
  <2>29. CASE HaltClear
    BY <2>29 DEF HaltClear
  <2>30. CASE HaltFlag
    BY <2>30 DEF HaltFlag
  <2>31. CASE HaltSend
    BY <2>31 DEF HaltSend
  <2>32. CASE SdDone
    BY <2>32 DEF SdDone
  <2>33. CASE VBlankSync
    BY <2>33 DEF VBlankSync
  <2>34. CASE NdmaDone
    <3>1. ndma = -1
      BY <2>34 DEF NdmaDone, Inv, Protocol, ChainOwned
    <3>2. Len(out') = want'
      BY <2>34, <3>1, WholeType DEF NdmaDone, Inv, Protocol, Progress, TypeOK, DataTypes
    <3> QED
      BY <2>34, <3>1, <3>2 DEF NdmaDone
  <2>35. CASE UNCHANGED vars
    BY <2>35 DEF vars
  <2> QED
    BY <2>1, <2>2, <2>3, <2>4, <2>5, <2>6, <2>7, <2>8, <2>9, <2>10,
       <2>11, <2>12, <2>13, <2>14, <2>15, <2>16, <2>17, <2>18, <2>19, <2>20,
       <2>21, <2>22, <2>23, <2>24, <2>25, <2>26, <2>27, <2>28, <2>29, <2>30,
       <2>31, <2>32, <2>33, <2>34, <2>35
       DEF Next, GameThread, Handler9, Handler7, HaltThread
<1> QED
  BY <1>1, <1>2 DEF Reports

(* A step that adds blocks of the ROM to the buffer, and reports only a whole   *)
(* request, is a Serve.                                                      *)
LEMMA ServeStep ==
  ASSUME Inv, Inv', busy, UNCHANGED <<first, want, issued>>,
         Len(out') \in Len(out)..want,
         \/ UNCHANGED <<busy, done>>
         \/ Len(out') = want /\ busy' = FALSE /\ done' = done + 1
  PROVE  Rom!Serve
<1>1. out' \in Seq(Block \cup {Junk})
  BY DEF Inv, TypeOK, DataTypes
<1>2. \A i \in 1..Len(out') : out'[i] = Content(first + i - 1)
  BY DEF Inv, Safety, DeliversRom
<1>3. out' = [i \in 1..Len(out') |-> Content(first + i - 1)]
  BY <1>1, <1>2
<1> QED
  BY <1>3 DEF Rom!Serve

(* The game sees nothing of the rest.                                        *)
LEMMA UnseenStep ==
  ASSUME \/ ReadNormalLookup \/ WaitPing \/ WaitPoll \/ SetDmaDirect \/ SetDmaSleep
         \/ SetDmaCached \/ SetDmaSend \/ Irq9 \/ Continue7 \/ Check7 \/ Continue9Wait
         \/ Continue9 \/ Continue9Ping \/ Step7 \/ UNCHANGED vars
  PROVE  UNCHANGED Rom!vars
<1>1. CASE Step7 \/ UNCHANGED vars
  BY <1>1, Step7Arm9 DEF vars, Rom!vars
<1>2. CASE \/ ReadNormalLookup \/ WaitPing \/ WaitPoll \/ SetDmaDirect \/ SetDmaSleep
           \/ SetDmaCached \/ SetDmaSend
  BY <1>2 DEF ReadNormalLookup, WaitPing, WaitPoll, SetDmaDirect, SetDmaSleep, SetDmaCached,
              SetDmaSend, Rom!vars
<1>3. CASE Irq9 \/ Continue7 \/ Check7 \/ Continue9Wait \/ Continue9 \/ Continue9Ping
  BY <1>3 DEF Irq9, Continue7, Check7, Continue9Wait, Continue9, Continue9Ping, Rom!vars
<1> QED
  BY <1>1, <1>2, <1>3

LEMMA RomStep ==
  ASSUME Inv, Inv', OneKind, Counted, Reports, [Next]_vars
  PROVE  Rom!Next \/ UNCHANGED Rom!vars
<1> DEFINE n == Len(out)
<1>0. /\ left \in Int /\ want \in Nat /\ out \in Seq(Block \cup {Junk}) /\ n \in Nat
      /\ cur \in Sector /\ Slot \subseteq Nat \ {0} /\ ndma \in Slot \cup {-1, 0}
  BY CountTypes
<1>1. ASSUME NEW r \in Requests, CardRead(r[1], r[2]) \/ SetDma(r[1], r[2])
      PROVE  Rom!Next
  <2>1. r[1] \in 1..NSectors /\ r[2] \in 1..MaxBlocks /\ r[1] + r[2] - 1 <= NSectors
    BY DEF Requests, Sector
  <2>2. Rom!Request(r[1], r[2])
    BY <1>1, <2>1 DEF CardRead, SetDma, Issue, Idle, Rom!Request
  <2> QED
    BY <2>1, <2>2 DEF Rom!Next
<1>2. CASE ReadRam
  <2>1. busy /\ left = want /\ n = 0
    BY <1>0, <1>2 DEF ReadRam, Counted, Synchronous, Inv, Protocol, Progress
  <2>2. Len(out') = want
    BY <1>0, <1>2, <2>1, WholeType DEF ReadRam, Inv, Protocol, Progress
  <2>3. /\ UNCHANGED <<first, want, issued>> /\ busy' = FALSE /\ done' = done + 1
    BY <1>2, Zenon DEF ReadRam, Report
  <2>4. Len(out') \in Len(out)..want
    BY <1>0, <2>1, <2>2
  <2> QED
    BY <2>1, <2>2, <2>3, <2>4, ServeStep DEF Rom!Next
<1>3. CASE ReadNormalCopy
  <2>1. busy /\ left >= 1 /\ left + n = want
    BY <1>0, <1>3 DEF ReadNormalCopy, Counted, Synchronous
  <2>2. Len(out') = n + 1 /\ UNCHANGED <<first, want, issued>>
    BY <1>0, <1>3 DEF ReadNormalCopy
  <2>3. Len(out') \in Len(out)..want
    BY <1>0, <2>1, <2>2
  <2>4. CASE left > 1
    <3>1. UNCHANGED <<busy, done>>
      <4>1. left # 1
        BY <2>4
      <4> QED
        BY <1>3, <4>1, Zenon DEF ReadNormalCopy
    <3> QED
      BY <2>1, <2>2, <2>3, <3>1, ServeStep DEF Rom!Next
  <2>5. CASE left = 1
    <3>1. UNCHANGED <<busy, done>> \/ (busy' = FALSE /\ done' = done + 1)
      BY <1>3, Zenon DEF ReadNormalCopy, Report
    <3>2. Len(out') = want
      BY <1>0, <2>1, <2>2, <2>5
    <3> QED
      BY <2>1, <2>2, <2>3, <3>1, <3>2, ServeStep DEF Rom!Next
  <2> QED
    BY <1>0, <2>1, <2>4, <2>5
<1>4. CASE SetDmaEnd
  <2>1. busy /\ n = want
    BY <1>4 DEF SetDmaEnd, Counted, Synchronous
  <2>2. UNCHANGED <<first, want, issued, out>> /\ busy' = FALSE /\ done' = done + 1
    BY <1>4, Zenon DEF SetDmaEnd, Report
  <2>3. Len(out') \in Len(out)..want /\ Len(out') = want
    BY <1>0, <2>1, <2>2
  <2> QED
    BY <2>1, <2>2, <2>3, ServeStep DEF Rom!Next
<1>5. CASE EndCardReadDma
  <2>1. UNCHANGED <<first, want, issued, out>>
    BY <1>5, Zenon DEF EndCardReadDma
  <2>2. CASE dmaDirectRead /\ ~CopyDone
    <3>1. UNCHANGED <<busy, done>>
      BY <1>5, <2>2, Zenon DEF EndCardReadDma
    <3> QED
      BY <2>1, <3>1 DEF Rom!vars
  <2>3. CASE ~dmaDirectRead \/ CopyDone
    <3>1. busy' = FALSE /\ done' = done + 1
      BY <1>5, <2>3, Zenon DEF EndCardReadDma, Report
    <3>2. ndma # -1
      BY <2>3 DEF CopyDone, Inv, Protocol, ChainOwned
    <3>3. busy /\ n = want
      BY <1>5, <3>2 DEF EndCardReadDma, Counted
    <3>4. Len(out') \in Len(out)..want /\ Len(out') = want
      BY <1>0, <2>1, <3>3
    <3> QED
      BY <2>1, <3>1, <3>3, <3>4, ServeStep DEF Rom!Next
  <2> QED
    BY <2>2, <2>3
<1>6. CASE NdmaDone
  <2>1. UNCHANGED <<first, want, issued, busy, done>> /\ ndma # 0
    BY <1>6, Zenon DEF NdmaDone
  <2>2. busy
    BY <2>1 DEF Inv, Protocol, ChainOwned
  <2>3. CASE ndma = -1
    <3>1. left = want /\ n = 0 /\ cur = first
      BY <2>3 DEF Counted, Inv, Protocol, Progress
    <3>2. Len(out') = want
      BY <1>0, <1>6, <2>3, <3>1, WholeType DEF NdmaDone, Inv, Protocol, Progress
    <3>3. Len(out') \in Len(out)..want
      BY <1>0, <3>1, <3>2
    <3> QED
      BY <2>1, <2>2, <3>3, ServeStep DEF Rom!Next
  <2>4. CASE ndma \in Slot
    <3>1. dmaReadOnArm9 /\ left >= 1 /\ left + n = want
      BY <1>0, <2>1, <2>4 DEF Counted, Inv, Protocol, ChainOwned
    <3>2. Len(out') = n + 1
      BY <1>0, <1>6, <2>4 DEF NdmaDone
    <3>3. Len(out') \in Len(out)..want
      BY <1>0, <3>1, <3>2
    <3> QED
      BY <2>1, <2>2, <3>3, ServeStep DEF Rom!Next
  <2> QED
    BY <1>0, <2>1, <2>3, <2>4
<1> QED
  BY <1>1, <1>2, <1>3, <1>4, <1>5, <1>6, UnseenStep DEF Next, GameThread, Handler9, Step7

LEMMA CountedInit == Init => Counted /\ Reports
BY DEF Init, Counted, Synchronous, Reports, NoChain, OneMessage, Sent3

(* The card engine of both processors, its interrupts and its two DMA engines   *)
(* together answer the requests of a game as RomService says, if the ROM has    *)
(* no part in RAM or the game's OS_Sleep is known.                            *)
THEOREM CardReadImplementsRomService == OneKind => (Spec => ImplementsRomService)
<1> SUFFICES ASSUME OneKind PROVE Spec => ImplementsRomService
  OBVIOUS
<1>1. Init => Rom!Init
  BY DEF Init, Rom!Init
<1>2. Init => Counted /\ Reports
  BY CountedInit
<1>3. Inv /\ Inv' /\ Counted /\ Reports /\ [Next]_vars => (Counted /\ Reports)'
  BY CountedStep, ReportsStep
<1>4. Inv /\ Inv' /\ Counted /\ Reports /\ [Next]_vars => [Rom!Next]_Rom!vars
  BY RomStep
<1> QED
  BY <1>1, <1>2, <1>3, <1>4, CardReadInvariant, PTL DEF Spec, ImplementsRomService, Rom!Spec

-----------------------------------------------------------------------------
(* That nobody waits for a message which never comes.  None of the messages   *)
(* between the processors is polled or sent again: a chain of reads goes on    *)
(* only because each step of it leaves behind what wakes the next one, in a    *)
(* flag, a pending interrupt or a handler that has not ended.  Carried says    *)
(* where the message of each wait is.  It is the safety half of EveryReadEnds; *)
(* that the vertical blank goes on forever would hide a chain that has         *)
(* stopped from a search for deadlocks.                                        *)

(* A message for the ARM9's handler to take as the chain's is on its way.      *)
Under9 == Sent3 \/ h7 \in {"flag3", "flagR"} \/ t7 = "flag" \/ dma9

(* A 'DMA9' is followed by its interrupt.                                    *)
Marked == dma9 => irq9 \/ h7 \in {"send3", "sendR"} \/ t7 = "send"

(* The ARM7 knows whether the command it serves is the chain's.               *)
Served ==
  /\ t7 \in {"reading", "clear"} => (dmaHalt <=> cmd = "FB0A")
  /\ h7 = "clear" => (dma7 <=> cmd = "FB0A")

(* The thread that waits for the ARM7 has asked it, ...                        *)
ThreadAsked ==
  pc9 = "wait" /\ cmd # NoCmd /\ PingIpc =>
    \/ ping \/ (irq7 /\ sync7 = 4)
    \/ h7 \in {"run", "clear"} \/ (h7 = "pong" /\ readOngoing)

(* ... and so has the chain; and when the ARM7 is done, or a copy runs, the     *)
(* chain's next message is on its way.                                       *)
ChainAsked ==
  dmaReadOnArm7 /\ cmd # NoCmd /\ PingIpc =>
    \/ irq7 \/ h7 \in {"run", "clear", "flag3", "flagR"} \/ dma9
    \/ h9 \in {"cont7", "ping"} \/ pc9 = "send3"

ChainAnswered ==
  /\ dmaReadOnArm7 /\ cmd = NoCmd =>
       IF h9 = "ping" THEN h7 = "flagR" \/ dma9
       ELSE Under9 \/ h9 \in {"cont7", "check7"} \/ pc9 = "send3"
  /\ dmaReadOnArm9 => Under9 \/ h9 \in {"cont7", "cont9"} \/ pc9 = "send3"

(* Who works on a request that the thread does not wait for.                   *)
Whose ==
  busy /\ ~Synchronous =>
    \/ dmaReadOnArm7 \/ dmaReadOnArm9 \/ h9 = "end"
    \/ dmaDirectRead /\ (pc9 = "send3" \/ Under9)

Carried == Marked /\ Served /\ ThreadAsked /\ ChainAsked /\ ChainAnswered /\ Whose

(* Somebody other than the vertical blank has work: a thread that does not     *)
(* wait, or whose wait is over, a handler or an interrupt of it that counts,   *)
(* the ARM7's thread, or its halt hook with a command.                         *)
Awake ==
  \/ pc9 \notin {"idle", "wait"} \/ (pc9 = "wait" /\ (Arm7Done \/ ping))
  \/ h9 # "none" \/ (irq9 /\ dma9)
  \/ h7 # "none" \/ irq7
  \/ t7 # "idle" \/ (HaltHooked /\ cmd # NoCmd)

NeverAsleep == busy => Awake

(* What the step needs of Inv and of the refinement's invariant.               *)
Known ==
  /\ FlagTypes /\ ControlTypes
  /\ ChainOwned /\ CommandOwned /\ OneDriver
  /\ t7 \in {"reading", "clear"} \/ readOngoing \/ h7 = "clear" => cmd # NoCmd
  /\ Reports /\ OneKind

(* Every step of either processor that takes a message leaves the next one.    *)
LEMMA CarriedStep ==
  ASSUME Inv, OneKind, Reports, Carried, [Next]_vars
  PROVE  Carried'
<1>0. Known
  BY Zenon DEF Known, Inv, TypeOK, Protocol, Arm7View
<1> USE <1>0 DEF Known, Carried, Marked, Served, ThreadAsked, ChainAsked,
                 ChainAnswered, Whose, Under9, Sent3, Synchronous, FlagTypes,
                 ControlTypes, ChainOwned, CommandOwned, OneDriver, OneKind,
                 Reports, NoChain, OneMessage, Arm7Done, CopyDone, Reads, NoCmd
<1> HIDE DEF Inv
<1>1. CASE UNCHANGED vars
  BY <1>1 DEF vars, shared, mailbox, lines, arm9, cache, flags9, request, arm7,
              halt, sd
<1>2. ASSUME NEW r \in Requests, CardRead(r[1], r[2]) PROVE Carried'
  BY <1>2 DEF CardRead, Issue, Idle
<1>3. ASSUME NEW r \in Requests, SetDma(r[1], r[2]) PROVE Carried'
  BY <1>3 DEF SetDma, Issue, Idle
<1>4. CASE ReadRam
  BY <1>4, SMTT(30) DEF ReadRam, Report
<1>5. CASE ReadNormalLookup
  BY <1>5, SMTT(30) DEF ReadNormalLookup, WriteCommand
<1>6. CASE WaitPing
  BY <1>6, SMTT(30) DEF WaitPing, Send7
<1>7. CASE WaitPoll
  BY <1>7, SMTT(30) DEF WaitPoll
<1>8. CASE ReadNormalCopy
  BY <1>8, SMTT(30) DEF ReadNormalCopy, Report
<1>9. CASE SetDmaDirect
  BY <1>9, SMTT(30) DEF SetDmaDirect
<1>10. CASE SetDmaSleep
  BY <1>10, SMTT(30) DEF SetDmaSleep
<1>11. CASE SetDmaCached
  BY <1>11, SMTT(30) DEF SetDmaCached, DmaHit, DmaMiss, WriteCommand, Send7
<1>12. CASE SetDmaSend
  BY <1>12, SMTT(30) DEF SetDmaSend, Send7
<1>13. CASE SetDmaEnd
  BY <1>13, SMTT(30) DEF SetDmaEnd, Report
<1>14. CASE Irq9
  BY <1>14, SMTT(30) DEF Irq9
<1>15. CASE Continue7
  BY <1>15, SMTT(30) DEF Continue7, Send7
<1>16. CASE Check7
  <2>1. CASE cmd # NoCmd
    <3>1. /\ h9 = "check7" /\ h9' = "cont9" /\ dmaReadOnArm7 /\ ~dmaReadOnArm9
          /\ UNCHANGED <<irq7, sync7, dmaReadOnArm7, dmaReadOnArm9, cmd, dma9, ping, irq9, h7, dma7, t7,
                         dmaHalt, readOngoing, pc9, busy, dmaDirectRead>>
      BY <1>16, <2>1 DEF Check7, halt, sd, arm7, mailbox
    <3> QED
      BY <2>1, <3>1
  <2>2. CASE cmd = NoCmd
    <3>1. /\ ~dmaReadOnArm7' /\ dmaReadOnArm9' /\ irq7' /\ sync7' = 3 /\ h9' = "cont9" /\ dmaReadOnArm7
          /\ UNCHANGED <<cmd, dma9, ping, irq9, h7, dma7, t7, dmaHalt, readOngoing, pc9, busy, dmaDirectRead>>
      BY <1>16, <2>2 DEF Check7, Send7, halt, sd, arm7, mailbox
    <3> QED
      BY <2>2, <3>1
  <2> QED
    BY <2>1, <2>2
<1>17. CASE Continue9Wait
  BY <1>17, SMTT(30) DEF Continue9Wait, Send7
<1>18. CASE Continue9
  BY <1>18, SMTT(30) DEF Continue9, DmaHit, DmaMiss, WriteCommand, Send7
<1>19. CASE Continue9Ping
  BY <1>19, SMTT(30) DEF Continue9Ping, Send7
<1>20. CASE EndCardReadDma
  BY <1>20, SMTT(30) DEF EndCardReadDma, Report, Send7
<1>21. CASE Irq7
  BY <1>21, SMTT(30) DEF Irq7
<1>22. CASE StartRead
  BY <1>22, SMTT(30) DEF StartRead
<1>23. CASE ResumeRead
  <2>1. /\ h7 = "run" /\ cmd # NoCmd /\ (dma7' <=> cmd = "FB0A")
        /\ UNCHANGED <<cmd, dma9, ping, irq9, irq7, sync7, t7, dmaHalt, h9, pc9, busy, dmaDirectRead,
                       dmaReadOnArm7, dmaReadOnArm9>>
    BY <1>23 DEF ResumeRead, shared, mailbox, lines, arm9, flags9, request, halt
  <2>2. \/ h7' = "clear"
        \/ h7' = (IF cmd = "FB0A" THEN "flagR" ELSE "pong") /\ readOngoing'
    BY <1>23 DEF ResumeRead
  <2> QED
    BY <2>1, <2>2, SMTT(30)
<1>24. CASE NothingToRun
  BY <1>24, SMTT(30) DEF NothingToRun
<1>25. CASE Clear7
  BY <1>25, SMTT(30) DEF Clear7
<1>26. CASE Flag7
  BY <1>26, SMTT(30) DEF Flag7
<1>27. CASE Reply7
  BY <1>27, SMTT(30) DEF Reply7
<1>28. CASE Pong7
  BY <1>28, SMTT(30) DEF Pong7
<1>29. CASE HaltStart
  BY <1>29, SMTT(30) DEF HaltStart, HaltHooked
<1>30. CASE HaltRead
  BY <1>30, SMTT(30) DEF HaltRead
<1>31. CASE HaltClear
  BY <1>31, SMTT(30) DEF HaltClear
<1>32. CASE HaltFlag
  BY <1>32, SMTT(30) DEF HaltFlag
<1>33. CASE HaltSend
  BY <1>33, SMTT(30) DEF HaltSend
<1>34. CASE NdmaDone
  BY <1>34, SMTT(30) DEF NdmaDone
<1>35. CASE SdDone
  BY <1>35, SMTT(30) DEF SdDone
<1>36. CASE VBlankSync
  BY <1>36, SMTT(30) DEF VBlankSync
<1> QED
  BY <1>1, <1>2, <1>3, <1>4, <1>5, <1>6, <1>7, <1>8, <1>9, <1>10, <1>11, <1>12,
     <1>13, <1>14, <1>15, <1>16, <1>17, <1>18, <1>19, <1>20, <1>21, <1>22, <1>23,
     <1>24, <1>25, <1>26, <1>27, <1>28, <1>29, <1>30, <1>31, <1>32, <1>33, <1>34,
     <1>35, <1>36
  DEF Next, GameThread, Handler9, Handler7, HaltThread

LEMMA CarriedInit == Init => Carried
BY DEF Init, Carried, Marked, Served, ThreadAsked, ChainAsked, ChainAnswered,
       Whose, Under9, Sent3, Synchronous

(* A request that no one works on would contradict the message it waits for.   *)
LEMMA CarriedAwake ==
  ASSUME Inv, Carried
  PROVE  NeverAsleep
<1>1. ControlTypes /\ FlagTypes
  BY Zenon DEF Inv, TypeOK
<1> SUFFICES ASSUME busy PROVE Awake
  BY DEF NeverAsleep
<1>2. CASE Synchronous
  BY <1>1, <1>2 DEF Carried, ThreadAsked, Synchronous, Awake, Arm7Done, HaltHooked,
     ControlTypes, FlagTypes
<1>3. CASE ~Synchronous
  BY <1>1, <1>3 DEF Carried, Marked, ChainAsked, ChainAnswered, Whose, Under9, Sent3,
     Awake, HaltHooked, ControlTypes, FlagTypes
<1> QED
  BY <1>2, <1>3

(* As long as a request of the game is unanswered, some processor has a step   *)
(* of its own to take for it: no order in which the IPC_SYNC interrupts, the    *)
(* halt hook, the two DMA engines and the game's thread run loses the message  *)
(* that the others wait for (continueCardReadDmaArm7 and ~Arm9 run only in      *)
(* myIrqHandlerIPC, on a message of the ARM7).                                *)
THEOREM CardReadNeverAsleep == OneKind => (Spec => []NeverAsleep)
<1> SUFFICES ASSUME OneKind PROVE Spec => []NeverAsleep
  OBVIOUS
<1>1. Init => Counted /\ Reports /\ Carried
  BY CountedInit, CarriedInit
<1>2. Inv /\ Inv' /\ Counted /\ Reports /\ Carried /\ [Next]_vars
        => (Counted /\ Reports /\ Carried)'
  BY CountedStep, ReportsStep, CarriedStep
<1>3. Inv /\ Carried => NeverAsleep
  BY CarriedAwake
<1> QED
  BY <1>1, <1>2, <1>3, CardReadInvariant, PTL DEF Spec
=============================================================================
