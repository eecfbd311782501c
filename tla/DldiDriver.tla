------------------------------ MODULE DldiDriver ------------------------------
(***************************************************************************)
(* How homebrew reaches the SD card: the DLDI driver on the ARM9 splits a     *)
(* call into transfers, asks the SD engine that was injected into the ARM7    *)
(* for each of them through the words at CARDENGINE_SHARED_ADDRESS, and       *)
(* keeps an LRU cache of blocks that is written through.                     *)
(*                                                                          *)
(* Two processes: the driver (pc9) and the engine, which looks at the words   *)
(* after every interrupt of the ARM7 (pc7).                                  *)
(***************************************************************************)
EXTENDS Integers, Sequences

CONSTANTS
  NSectors,    (* sectors of the card                                       *)
  BlockSize,   (* cacheBlockSectors                                         *)
  NSlots,      (* cacheSlots                                                *)
  MaxReads,    (* max_reads: the sectors that tmp_buf holds                  *)
  LongWrites,  (* a write may reach over the end of a cache block            *)
  MaxStarts,   (* bound: calls of startup                                    *)
  MaxCalls     (* bound: calls of readSectors and writeSectors               *)

ASSUME SizesAssumption ==
  /\ NSectors \in Nat \ {0} /\ BlockSize \in Nat \ {0}
  /\ NSectors % BlockSize = 0
  /\ NSlots \in Nat \ {0} /\ MaxReads \in Nat \ {0}
  /\ LongWrites \in BOOLEAN /\ MaxStarts \in Nat /\ MaxCalls \in Nat

Sector == 0..NSectors-1
Slot   == 1..NSlots
Inner  == 0..BlockSize-1      (* a sector's place in its block               *)

(* Words 0 and 1: the commands of sendValue32, and what is not a command.     *)
HaveSd  == 0
SdStart == 1
MsgSize == 1                  (* sizeof(FifoMessage): not zero               *)

VARIABLES
  disc,                               (* the card, as in BlockDevice          *)
  word0, word1, msg,                  (* the shared words                     *)
  mode,                               (* what startup has found               *)
  cacheDescriptor, cacheCounter, cacheAllocated, accessCounter,
  slotData, owner,                    (* the slots, and whose memory they are  *)
  tmp,                                (* tmp_buf                              *)
  pc9, seen, starts,                  (* seen: waitValue32 has returned       *)
  sector, num, ahead, numreads,       (* the locals of a call; ahead: how far  *)
  slot, result,                       (* its pointer into the buffer has moved *)
  job, got, reply,                    (* the call, what it read and returned   *)
  pc7, ret7,                          (* the engine, and its result           *)
  broken                              (* history: a transfer has failed        *)

words  == <<word0, word1, msg>>
cache  == <<cacheDescriptor, cacheCounter, cacheAllocated, accessCounter>>
locals == <<sector, num, ahead, numreads>>
call   == <<job, got, reply>>
arm7   == <<pc7, ret7>>
vars   == <<disc, words, mode, cache, slotData, owner, tmp, pc9, seen, starts,
            locals, slot, result, call, arm7, broken>>

Extent(j)  == j.sector .. j.sector + j.num - 1
Cell(j, x) == <<j.id, x - j.sector>>
Aligned(x) == x - (x % BlockSize)
Smaller(m, n) == IF m < n THEN m ELSE n
Junk == <<"junk">>

-----------------------------------------------------------------------------
(* The words.                                                               *)

SendValue32(v) == word1' = v /\ word0' = "value" /\ UNCHANGED msg

(* A message asks for a transfer between the card and slot b, or tmp_buf (0). *)
SendMsg(t, first, n, b) ==
  /\ word1' = MsgSize
  /\ msg' = [type |-> t, startsector |-> first, numsectors |-> n, buffer |-> b]
  /\ word0' = "msg"

(* Faulty waitValue32: does not wait.                                       *)
AnsweredAtOnce == TRUE

Answered == word0 = "done"

(* The places where the driver waits for the engine.                        *)
Waits == {"have", "start", "fill", "move"}

WaitValue32 ==
  /\ pc9 \in Waits /\ ~seen /\ Answered /\ seen' = TRUE
  /\ UNCHANGED <<disc, words, mode, cache, slotData, owner, tmp, pc9, starts,
                 locals, slot, result, call, arm7, broken>>

-----------------------------------------------------------------------------
(* startup. The engine takes the time of two stores to answer in full: the   *)
(* driver does not send anything before the second (Prompt).                 *)
Prompt == pc7 = "idle"

(* The card is on the ARM9's own bus, in a RAM disk, or behind the engine,    *)
(* with or without memory for a cache.                                       *)
Startup ==
  /\ pc9 = "off" /\ starts < MaxStarts /\ starts' = starts + 1
  /\ \/ /\ mode' = "direct" /\ pc9' \in {"off", "idle"}
        /\ UNCHANGED <<words, owner, seen>>
     \/ /\ Prompt
        /\ mode' \in (IF mode = "cached" THEN {"cached"} ELSE {"cached", "plain"})
        /\ owner' = [s \in Slot |-> 9]
        /\ SendValue32(HaveSd) /\ pc9' = "have" /\ seen' = FALSE
  /\ UNCHANGED <<disc, cache, slotData, tmp, locals, slot, result, call, arm7, broken>>

(* The count of waitCycles runs out.                                        *)
HaveTimeout ==
  /\ pc9 = "have" /\ ~seen /\ ~Answered /\ pc9' = "off"
  /\ UNCHANGED <<disc, words, mode, cache, slotData, owner, tmp, seen, starts,
                 locals, slot, result, call, arm7, broken>>

HaveDone ==
  /\ pc9 = "have" /\ seen /\ seen' = FALSE
  /\ \/ word1 = 0 /\ pc9' = "off" /\ UNCHANGED words
     \/ word1 # 0 /\ Prompt /\ pc9' = "start" /\ SendValue32(SdStart)
  /\ UNCHANGED <<disc, mode, cache, slotData, owner, tmp, starts,
                 locals, slot, result, call, arm7, broken>>

StartDone ==
  /\ pc9 = "start" /\ seen /\ seen' = FALSE
  /\ pc9' = IF word1 = 0 THEN "idle" ELSE "off"
  /\ UNCHANGED <<disc, words, mode, cache, slotData, owner, tmp, starts,
                 locals, slot, result, call, arm7, broken>>

-----------------------------------------------------------------------------
(* The cache.                                                               *)

Allocated == 1..cacheAllocated

(* Faulty getSlotForSector: also looks at slots that were never filled.      *)
SlotForSectorUnfilled(a) ==
  LET owners == {s \in Slot : cacheDescriptor[s] = a}
  IN  IF owners = {} THEN 0 ELSE CHOOSE s \in owners : \A t \in owners : s <= t

SlotForSector(a) ==
  LET owners == {s \in Allocated : cacheDescriptor[s] = a}
  IN  IF owners = {} THEN 0 ELSE CHOOSE s \in owners : \A t \in owners : s <= t

(* allocateCacheSlot among the first n: the first that was never used, else   *)
(* the least recently used, the last of them on a tie.                       *)
AllocateCacheSlot(n) ==
  LET fresh  == {s \in 1..n : cacheCounter[s] = 0}
      lowest == {s \in 1..n : \A t \in 1..n : cacheCounter[s] <= cacheCounter[t]}
  IN  IF fresh # {} THEN CHOOSE s \in fresh : \A t \in fresh : s <= t
      ELSE CHOOSE s \in lowest : \A t \in lowest : t <= s

UpdateDescriptor(s, a) ==
  /\ cacheDescriptor' = [cacheDescriptor EXCEPT ![s] = a]
  /\ cacheCounter' = [cacheCounter EXCEPT ![s] = accessCounter]

TransferToArm7(s) == owner' = [owner EXCEPT ![s] = 7]
TransferToArm9(s) == owner' = [owner EXCEPT ![s] = 9]

(* len2: how much of what is left lies in the block at a.                    *)
InBlock(a) == IF (sector - a) + num > BlockSize THEN a - sector + BlockSize ELSE num

(* Faulty: a write goes to the card only.                                   *)
PutInSlotNot(s, a) == UNCHANGED slotData

(* The part of a write that lies in the block at a goes to its slot.         *)
PutInSlot(s, a) ==
  slotData' = [slotData EXCEPT ![s] =
    [j \in Inner |-> IF j >= sector - a /\ j < sector - a + InBlock(a)
                     THEN <<job.id, ahead + j - (sector - a)>> ELSE @[j]]]

(* The copy between slot and buffer, and the end of the loop's body.         *)
CopyPart(s, a) ==
  LET len2 == InBlock(a) IN
  /\ IF job.kind = "read"
       THEN /\ got' = got \o [i \in 1..len2 |-> slotData[s][sector - a + i - 1]]
            /\ UNCHANGED slotData
       ELSE PutInSlot(s, a) /\ UNCHANGED got
  /\ IF num > len2
       THEN /\ num' = num - len2 /\ sector' = sector + len2 /\ ahead' = ahead + len2
            /\ accessCounter' = accessCounter + 1 /\ pc9' = "loop"
       ELSE /\ UNCHANGED <<sector, ahead, accessCounter>>
            /\ IF job.kind = "read" THEN num' = 0 /\ pc9' = "return"
               ELSE num' = job.num /\ pc9' = "chunk"      (* numSectorsBak    *)
  /\ UNCHANGED <<numreads, job, reply>>

-----------------------------------------------------------------------------
(* readSectors and writeSectors.                                            *)

Begin ==
  /\ pc9 = "idle" /\ job.id < MaxCalls
  /\ \E kind \in {"read", "write"}, s \in Sector, n \in 1..NSectors :
       /\ s + n <= NSectors
       /\ LongWrites \/ mode # "cached" \/ kind = "read" \/ s - Aligned(s) + n <= BlockSize
       /\ job' = [kind |-> kind, sector |-> s, num |-> n, id |-> job.id + 1]
       /\ sector' = s /\ num' = n
  /\ ahead' = 0 /\ numreads' = 0 /\ result' = 0 /\ got' = <<>>
  /\ IF mode = "cached" THEN pc9' = "loop" /\ accessCounter' = accessCounter + 1
     ELSE pc9' = (IF mode = "direct" THEN "direct" ELSE "chunk") /\ UNCHANGED accessCounter
  /\ UNCHANGED <<disc, words, mode, cacheDescriptor, cacheCounter, cacheAllocated,
                 slotData, owner, tmp, seen, starts, slot, reply, arm7, broken>>

(* A RAM disk, or a driver that runs on the ARM7, moves all of it at once.    *)
Direct ==
  /\ pc9 = "direct" /\ pc9' = "return"
  /\ IF job.kind = "read"
       THEN got' = [i \in 1..job.num |-> disc[job.sector + i - 1]] /\ UNCHANGED disc
       ELSE /\ disc' = [x \in Sector |-> IF x \in Extent(job) THEN Cell(job, x) ELSE disc[x]]
            /\ UNCHANGED got
  /\ UNCHANGED <<words, mode, cache, slotData, owner, tmp, seen, starts, locals,
                 slot, result, job, reply, arm7, broken>>

CacheHit ==
  /\ pc9 = "loop"
  /\ LET a == Aligned(sector)
         s == SlotForSector(a)
     IN  s # 0 /\ UpdateDescriptor(s, a) /\ CopyPart(s, a) /\ slot' = s
  /\ UNCHANGED <<disc, words, mode, cacheAllocated, owner, tmp, seen, starts,
                 result, arm7, broken>>

CacheMiss ==
  /\ pc9 = "loop" /\ Prompt
  /\ LET a == Aligned(sector)
         n == Smaller(cacheAllocated + 1, NSlots)
     IN  /\ SlotForSector(a) = 0
         /\ cacheAllocated' = n /\ slot' = AllocateCacheSlot(n)
         /\ TransferToArm7(AllocateCacheSlot(n))
         /\ SendMsg("read", a, BlockSize, AllocateCacheSlot(n))
  /\ pc9' = "fill" /\ seen' = FALSE
  /\ UNCHANGED <<disc, mode, cacheDescriptor, cacheCounter, accessCounter, slotData, tmp,
                 starts, locals, result, call, arm7, broken>>

FillDone ==
  /\ pc9 = "fill" /\ seen /\ seen' = FALSE
  /\ TransferToArm9(slot) /\ result' = word1
  /\ UpdateDescriptor(slot, Aligned(sector)) /\ CopyPart(slot, Aligned(sector))
  /\ UNCHANGED <<disc, words, mode, cacheAllocated, tmp, starts, slot, arm7, broken>>

(* The loop without a cache, and that of every write: through tmp_buf.       *)
ChunkLen == Smaller(MaxReads, num - numreads)

Chunk ==
  /\ pc9 = "chunk" /\ numreads < num /\ Prompt
  /\ IF job.kind = "read" THEN UNCHANGED tmp
     ELSE tmp' = [i \in 1..ChunkLen |-> LET at == ahead + numreads + i - 1
                                        IN  IF at < job.num THEN <<job.id, at>> ELSE Junk]
  /\ SendMsg(job.kind, sector + numreads, ChunkLen, 0)
  /\ pc9' = "move" /\ seen' = FALSE
  /\ UNCHANGED <<disc, mode, cache, slotData, owner, starts, locals, slot, result,
                 call, arm7, broken>>

MoveDone ==
  /\ pc9 = "move" /\ seen /\ seen' = FALSE
  /\ result' = word1 /\ numreads' = numreads + MaxReads /\ pc9' = "chunk"
  /\ got' = IF job.kind = "read" THEN got \o [i \in 1..ChunkLen |-> tmp[i]] ELSE got
  /\ UNCHANGED <<disc, words, mode, cache, slotData, owner, tmp, starts,
                 sector, num, ahead, slot, job, reply, arm7, broken>>

ChunksEnd ==
  /\ pc9 = "chunk" /\ numreads >= num /\ pc9' = "return"
  /\ UNCHANGED <<disc, words, mode, cache, slotData, owner, tmp, seen, starts,
                 locals, slot, result, call, arm7, broken>>

Return ==
  /\ pc9 = "return" /\ pc9' = "idle" /\ reply' = (result = 0)
  /\ UNCHANGED <<disc, words, mode, cache, slotData, owner, tmp, seen, starts,
                 locals, slot, result, job, got, arm7, broken>>

-----------------------------------------------------------------------------
(* The engine: runSdMmcEngineCheck, to its first store into the words.       *)

(* Faulty: a command is taken out of the words, but answered if it went well.  *)
AnswerIfOk(ok) ==
  IF ok THEN word0' = "done" /\ pc7' = "value" ELSE word0' = "none" /\ pc7' = "idle"

Answer(ok) == word0' = "done" /\ pc7' = "value"

AnswerValue ==
  /\ pc7 = "idle" /\ word0 = "value"
  /\ ret7' \in {0, 1}      (* HAVE_SD: REG_SDSTATUS0; SD_START: of SD_Init     *)
  /\ word0' = "done" /\ pc7' = "value"
  /\ UNCHANGED <<disc, word1, msg, mode, cache, slotData, owner, tmp, pc9, seen, starts,
                 locals, slot, result, call, broken>>

(* A transfer; the card may refuse, with its part of the buffer lost.        *)
MsgExtent == msg.startsector .. msg.startsector + msg.numsectors - 1

ReadMsg ==
  /\ pc7 = "idle" /\ word0 = "msg" /\ msg.type = "read"
  /\ \E ok \in BOOLEAN :
       LET Data(k) == IF ok THEN disc[msg.startsector + k] ELSE Junk IN
       /\ IF msg.buffer = 0
            THEN tmp' = [i \in 1..msg.numsectors |-> Data(i - 1)] /\ UNCHANGED slotData
            ELSE /\ slotData' = [slotData EXCEPT ![msg.buffer] = [j \in Inner |-> Data(j)]]
                 /\ UNCHANGED tmp
       /\ ret7' = (IF ok THEN 0 ELSE 1) /\ broken' = (broken \/ ~ok)
       /\ Answer(ok)
  /\ UNCHANGED <<disc, word1, msg, mode, cache, owner, pc9, seen, starts,
                 locals, slot, result, call>>

(* Sectors beyond the end of the card are not there.                        *)
WriteMsg ==
  /\ pc7 = "idle" /\ word0 = "msg" /\ msg.type = "write"
  /\ \E ok \in BOOLEAN :
       /\ disc' = [x \in Sector |-> IF ok /\ x \in MsgExtent THEN tmp[x - msg.startsector + 1]
                                    ELSE disc[x]]
       /\ ret7' = (IF ok THEN 0 ELSE 1) /\ broken' = (broken \/ ~ok)
       /\ Answer(ok)
  /\ UNCHANGED <<word1, msg, mode, cache, slotData, owner, tmp, pc9, seen, starts,
                 locals, slot, result, call>>

(* The second store of its sendValue32.                                     *)
SendResult ==
  /\ pc7 = "value" /\ word1' = ret7 /\ pc7' = "idle"
  /\ UNCHANGED <<disc, word0, msg, mode, cache, slotData, owner, tmp, pc9, seen, starts,
                 locals, slot, result, call, ret7, broken>>

-----------------------------------------------------------------------------
Init ==
  /\ disc = [x \in Sector |-> <<0, x>>]
  /\ word0 = "none" /\ word1 = 0
  /\ msg = [type |-> "read", startsector |-> 0, numsectors |-> 1, buffer |-> 0]
  /\ mode = "none" /\ pc9 = "off" /\ seen = FALSE /\ starts = 0
  (* only the first descriptor is given a value: the others are zero         *)
  /\ cacheDescriptor = [s \in Slot |-> IF s = 1 THEN -1 ELSE 0]
  /\ cacheCounter = [s \in Slot |-> 0] /\ cacheAllocated = 0 /\ accessCounter = 0
  /\ slotData = [s \in Slot |-> [j \in Inner |-> Junk]] /\ owner = [s \in Slot |-> 9]
  /\ tmp = <<>> /\ sector = 0 /\ num = 0 /\ ahead = 0 /\ numreads = 0 /\ slot = 1 /\ result = 0
  /\ job = [kind |-> "read", sector |-> 0, num |-> 1, id |-> 0] /\ got = <<>> /\ reply = FALSE
  /\ pc7 = "idle" /\ ret7 = 0 /\ broken = FALSE

Driver == \/ WaitValue32 \/ HaveTimeout \/ HaveDone \/ StartDone \/ Direct \/ CacheHit
          \/ CacheMiss \/ FillDone \/ Chunk \/ MoveDone \/ ChunksEnd \/ Return
Engine == AnswerValue \/ ReadMsg \/ WriteMsg \/ SendResult

Next == Startup \/ Begin \/ Driver \/ Engine

Spec == Init /\ [][Next]_vars

(* The ARM7 goes on taking interrupts, and the driver executing.             *)
FairSpec == Spec /\ WF_vars(Driver) /\ WF_vars(Engine)

-----------------------------------------------------------------------------
Busy == pc9 \in {"loop", "fill", "chunk", "move", "direct", "return"}

(* Between two calls each slot in use holds its block as it is on the card:   *)
(* a write reaches both copies (sd_WriteSectors, iointerface.c:280-346).      *)
CacheCoherent ==
  pc9 = "idle" /\ ~broken =>
    \A s \in Allocated : \A j \in Inner : slotData[s][j] = disc[cacheDescriptor[s] + j]

(* A slot is the ARM7's exactly while the engine is asked to fill it: neither *)
(* processor touches a bank of the WRAM that is switched to the other         *)
(* (transferToArm7 and transferToArm9, iointerface.c:104-110).               *)
BanksApart ==
  \A s \in Slot : (owner[s] = 7) <=> (pc9 = "fill" /\ slot = s)

(* Each call returns (waitValue32 has no timeout, iointerface.c:134).        *)
CallEnds == [](Busy => <>(pc9 = "idle"))

(* A write that returned true has put its sectors where it was told to:       *)
(* "Write numSectors 512-byte sized sectors from buffer to the card, starting  *)
(* at sector" (iointerface.c:484).                                          *)
WriteLands ==
  pc9 = "idle" /\ reply /\ job.kind = "write" /\ ~broken =>
    \A x \in Extent(job) : disc[x] = Cell(job, x)

(* The driver is the block device that homebrew expects.                    *)
Device == INSTANCE BlockDevice WITH busy <- Busy

ImplementsBlockDevice == Device!Spec
================================================================================
