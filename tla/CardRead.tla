------------------------------- MODULE CardRead -------------------------------
(***************************************************************************)
(* How a DSi-mode retail game gets ROM data: the ARM9 card engine keeps an  *)
(* LRU cache of ROM blocks in main RAM, asks the ARM7 for the blocks it      *)
(* lacks through the words sharedAddr[0..5], and hands DMA reads to a chain  *)
(* of IPC_SYNC interrupts bounced between the two CPUs.                      *)
(*                                                                          *)
(* Four processes share the state: the game's thread on the ARM9 (pc9), the  *)
(* ARM9 IPC_SYNC handler (h9, runs above that thread), the ARM7 IPC_SYNC     *)
(* handler (h7), and the ARM7 idle thread that halts (t7, runs below h7).    *)
(* The two DMA engines (ARM9 NDMA, ARM7 SD controller) finish on their own.  *)
(*                                                                          *)
(* Data is kept by block: a request is a run of whole cache blocks.          *)
(***************************************************************************)
EXTENDS Integers, Sequences

CONSTANTS
  NSectors,     (* cache blocks of the ROM that the game reads: 1..NSectors. *)
  NSlots,       (* ce9->cacheSlots.                                        *)
  Overlays,     (* blocks taken from apFixOverlaysFile (overlaysSrcAlign). *)
  Preloaded,    (* blocks held in RAM (ROMinRAM or romPart).               *)
  PingIpc,      (* the pingIpc value bit: ARM7 is driven by IPC 4.         *)
  HasSleep,     (* the game's OS_Sleep was found (patches->sleepRef).      *)
  Chunks,       (* non-blocking SD transfers that one block needs.         *)
  MaxRequests,  (* bound: requests the game issues.                        *)
  MaxBlocks     (* bound: blocks of one request.                           *)

ASSUME SizesAssumption ==
  /\ NSectors \in Nat \ {0}
  /\ NSlots \in Nat \ {0}
  /\ Chunks \in Nat
  /\ MaxRequests \in Nat
  /\ MaxBlocks \in Nat

ASSUME ModesAssumption ==
  /\ PingIpc \in BOOLEAN
  /\ HasSleep \in BOOLEAN
  /\ Overlays \subseteq 1..NSectors
  /\ Preloaded \subseteq 1..NSectors

Sector == 1..NSectors
Slot   == 1..NSlots

(* What a block's bytes are: which file they came from, and which block.    *)
Block      == {"rom", "apFix"} \X Sector
Content(b) == <<IF b \in Overlays THEN "apFix" ELSE "rom", b>>
Junk       == <<"junk", 0>>

NoCmd == "none"
Reads == {"FB08", "FB09", "FB0A"}   (* 0x025FFB08 .. 0x025FFB0A *)

VARIABLES
  (* the words of sharedAddr *)
  cmdSlot,          (* [0]: the cache slot to fill                          *)
  cmdBlock,         (* [2]: the block wanted, bit 31 choosing the file      *)
  cmd,              (* [3]: the command, NoCmd for 0                        *)
  dma9,             (* [4] = 'DMA9'                                         *)
  ping,             (* [5] = 'PING'                                         *)
  (* the IPC_SYNC lines *)
  irq7,             (* IRQ raised at the ARM7 ...                           *)
  sync7,            (* ... and the value it will read                       *)
  irq9,             (* IRQ raised at the ARM9                               *)
  (* ARM9 card engine *)
  cacheDescriptor, cacheCounter, accessCounter,
  slotData,         (* the bytes in each slot                               *)
  isDma, dmaDirectRead, dmaReadOnArm7, dmaReadOnArm9,
  pc9, slot9,       (* the game's thread, and its local `slot'              *)
  h9,               (* the ARM9 interrupt handler                           *)
  ndma,             (* what NDMA channel 0 copies: 0 idle, -1 preloaded, slot *)
  (* the request *)
  cur, left,        (* src and len of dmaParams / cardRead, in blocks       *)
  out,              (* what reached dst                                     *)
  first, want,      (* history: the request as issued                       *)
  busy,             (* the game waits for its request                       *)
  issued, done,     (* requests issued, completions reported to the game    *)
  (* ARM7 card engine *)
  h7, dma7,         (* the ARM7 interrupt handler and its local isDma       *)
  t7, slot7, block7, dmaHalt, (* runCardEngineCheckHalt and its locals      *)
  readOngoing, context, chunks, sdBusy

mailbox == <<cmdSlot, cmdBlock, cmd>>
lines   == <<irq7, sync7, irq9>>
shared  == <<mailbox, dma9, ping, lines>>
cache   == <<cacheDescriptor, cacheCounter, accessCounter>>
flags9  == <<isDma, dmaDirectRead, dmaReadOnArm7, dmaReadOnArm9>>
request == <<cur, left, out, first, want, busy, issued, done>>
arm9    == <<cache, flags9, pc9, slot9, h9, ndma, request>>
halt    == <<t7, slot7, block7, dmaHalt>>
sd      == <<readOngoing, context, chunks, sdBusy>>
arm7    == <<h7, dma7, halt, sd>>
vars    == <<shared, slotData, arm9, arm7>>

-----------------------------------------------------------------------------
(* The LRU cache of ROM blocks.                                             *)

(* Faulty getSlotForSector: looks at the first slot only.                   *)
SlotForSectorFirstOnly(b) == IF cacheDescriptor[1] = b THEN 1 ELSE 0

(* getSlotForSector: the first slot that claims the block, 0 for -1.        *)
SlotForSector(b) ==
  LET owners == {s \in Slot : cacheDescriptor[s] = b}
  IN  IF owners = {} THEN 0
      ELSE CHOOSE s \in owners : \A t \in owners : s <= t

(* allocateCacheSlot: the first slot never used, else the least recently    *)
(* used one, the last of them on a tie.                                     *)
AllocateCacheSlot ==
  LET fresh  == {s \in Slot : cacheCounter[s] = 0}
      lowest == {s \in Slot : \A t \in Slot : cacheCounter[s] <= cacheCounter[t]}
  IN  IF fresh # {}
        THEN CHOOSE s \in fresh : \A t \in fresh : s <= t
        ELSE CHOOSE s \in lowest : \A t \in lowest : t <= s

(* updateDescriptor, run with the access counter already advanced to a.     *)
UpdateDescriptor(s, b, a) ==
  /\ cacheDescriptor' = [cacheDescriptor EXCEPT ![s] = b]
  /\ cacheCounter' = [cacheCounter EXCEPT ![s] = a]

(* The four words of a read command.                                        *)
WriteCommand(s, b, c) ==
  /\ cmdSlot' = s
  /\ cmdBlock' = Content(b)
  /\ cmd' = c

Send7(v) == irq7' = TRUE /\ sync7' = v

(* Faulty: the answer of the ARM7 is not awaited.                           *)
Arm7DoneAtOnce == TRUE

(* checkArm7 and the loop of waitForArm7: the ARM7 has answered.            *)
Arm7Done == cmd = NoCmd

(* Faulty: the copy is not awaited.                                         *)
CopyDoneAtOnce == TRUE

(* ndmaBusy(0) is clear.                                                    *)
CopyDone == ndma = 0

(* The request is reported to the game: cardRead returns, or the game's      *)
(* end-of-DMA function (cardEndReadDmaRef) runs.                            *)
Report == done' = done + 1 /\ busy' = FALSE

-----------------------------------------------------------------------------
(* The game's thread. The game's card library issues one request at a time. *)

Idle == pc9 = "idle" /\ h9 = "none" /\ ~busy

(* A request is a run of blocks that are all in RAM or all on the card.     *)
Requests == {r \in Sector \X (1..MaxBlocks) :
               /\ r[1] + r[2] - 1 <= NSectors
               /\ \A i \in r[1]..(r[1] + r[2] - 1) :
                    (i \in Preloaded) <=> (r[1] \in Preloaded)}

(* Faulty: the copy starts one block late.                                  *)
WholeShifted(b, n) == [i \in 1..n |-> Content(b + i)]

Whole(b, n) == [i \in 1..n |-> Content(b + i - 1)]

Issue(b, n) ==
  /\ Idle
  /\ issued < MaxRequests
  /\ issued' = issued + 1
  /\ first' = b
  /\ want' = n
  /\ cur' = b

(* cardRead: a preloaded request goes through cardReadRAM, any other through *)
(* cardReadNormal.                                                          *)
CardRead(b, n) ==
  /\ Issue(b, n)
  /\ out' = <<>>
  /\ left' = n
  /\ busy' = TRUE
  /\ \/ b \in Preloaded /\ pc9' = "ram" /\ UNCHANGED accessCounter
     \/ b \notin Preloaded /\ pc9' = "lookup" /\ accessCounter' = accessCounter + 1
  /\ UNCHANGED <<shared, slotData, cacheDescriptor, cacheCounter, flags9,
                 slot9, h9, ndma, done, arm7>>

(* cardReadRAM, and the return to the game.                                 *)
ReadRam ==
  /\ pc9 = "ram" /\ h9 = "none"
  /\ out' = Whole(cur, left)
  /\ left' = 0
  /\ isDma' = FALSE
  /\ Report
  /\ pc9' = "idle"
  /\ UNCHANGED <<shared, slotData, cache, dmaDirectRead, dmaReadOnArm7,
                 dmaReadOnArm9, slot9, h9, ndma, cur, first, want, issued,
                 arm7>>

(* cardReadNormal, top of the loop: a hit is used as it is, a miss is sent  *)
(* to the ARM7.                                                             *)
ReadNormalLookup ==
  /\ pc9 = "lookup" /\ h9 = "none"
  /\ \/ /\ SlotForSector(cur) # 0
        /\ slot9' = SlotForSector(cur)
        /\ pc9' = "copy"
        /\ UNCHANGED mailbox
     \/ /\ SlotForSector(cur) = 0
        /\ slot9' = AllocateCacheSlot
        /\ WriteCommand(AllocateCacheSlot, cur, IF isDma THEN "FB09" ELSE "FB08")
        /\ pc9' = IF PingIpc THEN "ping" ELSE "wait"
  /\ UNCHANGED <<dma9, ping, lines, slotData, cache, flags9, h9, ndma,
                 request, arm7>>

(* waitForArm7: IPC_SendSync(4), before the loop and for every 'PING'.       *)
WaitPing ==
  /\ pc9 = "ping" /\ h9 = "none"
  /\ Send7(4)
  /\ pc9' = "wait"
  /\ UNCHANGED <<mailbox, dma9, ping, irq9, slotData, cache, flags9, slot9,
                 h9, ndma, request, arm7>>

(* waitForArm7: one turn of the polling loop that does something.           *)
WaitPoll ==
  /\ pc9 = "wait" /\ h9 = "none"
  /\ \/ Arm7Done /\ pc9' = "copy" /\ UNCHANGED ping
     \/ ~Arm7Done /\ ping /\ ping' = FALSE /\ pc9' = "ping"
  /\ UNCHANGED <<mailbox, dma9, lines, slotData, cache, flags9, slot9, h9,
                 ndma, request, arm7>>

(* cardReadNormal, bottom of the loop.                                      *)
ReadNormalCopy ==
  /\ pc9 = "copy" /\ h9 = "none"
  /\ UpdateDescriptor(slot9, cur, accessCounter)
  /\ out' = Append(out, slotData[slot9])
  /\ left' = left - 1
  /\ \/ /\ left > 1
        /\ cur' = cur + 1
        /\ accessCounter' = accessCounter + 1
        /\ pc9' = "lookup"
        /\ UNCHANGED <<isDma, busy, done>>
     \/ /\ left = 1
        /\ isDma' = FALSE
        /\ IF isDma /\ HasSleep
             THEN pc9' = "end" /\ UNCHANGED <<busy, done>>
             ELSE pc9' = "idle" /\ Report
        /\ UNCHANGED <<accessCounter, cur>>
  /\ UNCHANGED <<shared, slotData, dmaDirectRead, dmaReadOnArm7,
                 dmaReadOnArm9, slot9, h9, ndma, first, want, issued, arm7>>

(* cardSetDma, entry.                                                       *)
SetDma(b, n) ==
  /\ Issue(b, n)
  /\ out' = <<>>
  /\ left' = n
  /\ busy' = TRUE
  /\ isDma' = TRUE
  /\ dmaDirectRead' = FALSE
  /\ pc9' = "setdma"
  /\ UNCHANGED <<shared, slotData, cache, dmaReadOnArm7, dmaReadOnArm9, slot9,
                 h9, ndma, done, arm7>>

(* cardSetDma, data in RAM: one NDMA copy of the whole request.             *)
SetDmaDirect ==
  /\ pc9 = "setdma" /\ h9 = "none"
  /\ cur \in Preloaded
  /\ dmaDirectRead' = TRUE
  /\ ndma' = -1
  /\ pc9' = "send3"
  /\ UNCHANGED <<shared, slotData, cache, isDma, dmaReadOnArm7, dmaReadOnArm9,
                 slot9, h9, request, arm7>>

(* cardSetDma with OS_Sleep at hand: read synchronously, then report.       *)
SetDmaSleep ==
  /\ pc9 = "setdma" /\ h9 = "none"
  /\ cur \notin Preloaded /\ HasSleep
  /\ accessCounter' = accessCounter + 1
  /\ pc9' = "lookup"
  /\ UNCHANGED <<shared, slotData, cacheDescriptor, cacheCounter, flags9,
                 slot9, h9, ndma, request, arm7>>

(* The block of a DMA read is cached: copy it by NDMA (cardSetDma and        *)
(* continueCardReadDmaArm9).                                                *)
DmaHit(b) ==
  /\ SlotForSector(b) # 0
  /\ accessCounter' = accessCounter + 1
  /\ UpdateDescriptor(SlotForSector(b), b, accessCounter')
  /\ ndma' = SlotForSector(b)
  /\ dmaReadOnArm9' = TRUE
  /\ UNCHANGED <<mailbox, dmaReadOnArm7>>

(* The block of a DMA read is not cached: command the ARM7, and enter the   *)
(* block in the descriptor table before it has arrived.                     *)
DmaMiss(b) ==
  /\ SlotForSector(b) = 0
  /\ accessCounter' = accessCounter + 1
  /\ WriteCommand(AllocateCacheSlot, b, "FB0A")
  /\ dmaReadOnArm7' = TRUE
  /\ UpdateDescriptor(AllocateCacheSlot, b, accessCounter')
  /\ UNCHANGED ndma

(* cardSetDma through the cache. From the command to its IPC_SendSync(4) is  *)
(* one step: the few instructions are assumed to run before the ARM7 has     *)
(* read a block (the README says what a longer preemption there would do).   *)
SetDmaCached ==
  /\ pc9 = "setdma" /\ h9 = "none"
  /\ cur \notin Preloaded /\ ~HasSleep
  /\ \/ DmaHit(cur) /\ pc9' = "send3" /\ UNCHANGED <<irq7, sync7>>
     \/ /\ DmaMiss(cur)
        /\ pc9' = "idle"
        /\ IF PingIpc THEN Send7(4) ELSE UNCHANGED <<irq7, sync7>>
        /\ UNCHANGED dmaReadOnArm9
  /\ UNCHANGED <<dma9, ping, irq9, slotData, isDma, dmaDirectRead, slot9, h9,
                 request, arm7>>

(* The IPC_SendSync(3) that ends cardSetDma once a copy runs.               *)
SetDmaSend ==
  /\ pc9 = "send3" /\ h9 = "none"
  /\ Send7(3)
  /\ pc9' = "idle"
  /\ UNCHANGED <<mailbox, dma9, ping, irq9, slotData, cache, flags9, slot9,
                 h9, ndma, request, arm7>>

(* endCardReadDma as cardSetDma calls it after a synchronous read.          *)
SetDmaEnd ==
  /\ pc9 = "end" /\ h9 = "none"
  /\ isDma' = FALSE
  /\ Report
  /\ ping' = FALSE
  /\ pc9' = "idle"
  /\ UNCHANGED <<mailbox, dma9, lines, slotData, cache, dmaDirectRead,
                 dmaReadOnArm7, dmaReadOnArm9, slot9, h9, ndma, cur, left,
                 out, first, want, issued, arm7>>

-----------------------------------------------------------------------------
(* myIrqHandlerIPC on the ARM9.                                             *)

Irq9 ==
  /\ irq9 /\ h9 = "none"
  /\ irq9' = FALSE
  /\ dma9' = FALSE
  /\ h9' = IF ~dma9 THEN "none" ELSE IF dmaDirectRead THEN "end" ELSE "cont7"
  /\ UNCHANGED <<mailbox, ping, irq7, sync7, slotData, cache, flags9, pc9,
                 slot9, ndma, request, arm7>>

(* continueCardReadDmaArm7 up to the IPC_SendSync of checkArm7.             *)
Continue7 ==
  /\ h9 = "cont7"
  /\ h9' = IF dmaReadOnArm7 THEN "check7" ELSE "cont9"
  /\ IF dmaReadOnArm7 /\ PingIpc THEN Send7(4) ELSE UNCHANGED <<irq7, sync7>>
  /\ UNCHANGED <<mailbox, dma9, ping, irq9, slotData, cache, flags9, pc9,
                 slot9, ndma, request, arm7>>

(* continueCardReadDmaArm7 from the test of sharedAddr[3] on.               *)
Check7 ==
  /\ h9 = "check7"
  /\ h9' = "cont9"
  /\ \/ /\ ~Arm7Done
        /\ UNCHANGED <<irq7, sync7, dmaReadOnArm7, dmaReadOnArm9, ndma>>
     \/ /\ Arm7Done
        /\ dmaReadOnArm7' = FALSE
        /\ dmaReadOnArm9' = TRUE
        /\ ndma' = SlotForSector(cur)
        /\ Send7(3)
  /\ UNCHANGED <<mailbox, dma9, ping, irq9, slotData, cache, isDma,
                 dmaDirectRead, pc9, slot9, request, arm7>>

(* continueCardReadDmaArm9 while there is nothing to continue, or the copy   *)
(* has not finished.                                                        *)
Continue9Wait ==
  /\ h9 = "cont9"
  /\ ~dmaReadOnArm9 \/ ~CopyDone
  /\ h9' = "none"
  /\ IF dmaReadOnArm9 THEN Send7(3) ELSE UNCHANGED <<irq7, sync7>>
  /\ UNCHANGED <<mailbox, dma9, ping, irq9, slotData, cache, flags9, pc9,
                 slot9, ndma, request, arm7>>

(* continueCardReadDmaArm9 after a copy: the next block, or the end.        *)
Continue9 ==
  /\ h9 = "cont9"
  /\ dmaReadOnArm9 /\ CopyDone
  /\ left' = left - 1
  /\ \/ /\ left > 1
        /\ cur' = cur + 1
        /\ \/ DmaHit(cur + 1) /\ Send7(3) /\ h9' = "none"
           \/ /\ DmaMiss(cur + 1)
              /\ dmaReadOnArm9' = FALSE
              /\ h9' = IF PingIpc THEN "ping" ELSE "none"
              /\ UNCHANGED <<irq7, sync7>>
     \/ /\ left <= 1
        /\ h9' = "end"
        /\ dmaReadOnArm9' = FALSE
        /\ UNCHANGED <<mailbox, irq7, sync7, cache, dmaReadOnArm7, ndma, cur>>
  /\ UNCHANGED <<dma9, ping, irq9, slotData, isDma, dmaDirectRead, pc9, slot9,
                 out, first, want, busy, issued, done, arm7>>

Continue9Ping ==
  /\ h9 = "ping"
  /\ Send7(4)
  /\ h9' = "none"
  /\ UNCHANGED <<mailbox, dma9, ping, irq9, slotData, cache, flags9, pc9,
                 slot9, ndma, request, arm7>>

(* endCardReadDma in the handler: ask to be called again while a direct copy *)
(* runs, else run the game's end-of-DMA callback.                           *)
EndCardReadDma ==
  /\ h9 = "end"
  /\ h9' = "none"
  /\ IF dmaDirectRead /\ ~CopyDone
       THEN Send7(3) /\ UNCHANGED <<ping, isDma, busy, done>>
       ELSE /\ isDma' = FALSE
            /\ Report
            /\ ping' = FALSE
            /\ UNCHANGED <<irq7, sync7>>
  /\ UNCHANGED <<mailbox, dma9, irq9, slotData, cache, dmaDirectRead,
                 dmaReadOnArm7, dmaReadOnArm9, pc9, slot9, ndma, cur, left,
                 out, first, want, issued, arm7>>

(* External: NDMA channel 0 of the ARM9 finishes its copy.                  *)
NdmaDone ==
  /\ ndma # 0
  /\ out' = IF ndma = -1 THEN Whole(cur, left) ELSE Append(out, slotData[ndma])
  /\ ndma' = 0
  /\ UNCHANGED <<shared, slotData, cache, flags9, pc9, slot9, h9, cur, left,
                 first, want, busy, issued, done, arm7>>

-----------------------------------------------------------------------------
(* myIrqHandlerFIFO on the ARM7.                                            *)

Irq7 ==
  /\ irq7 /\ h7 = "none"
  /\ irq7' = FALSE
  /\ h7' = IF sync7 = 3 THEN "flag3" ELSE "run"
  /\ UNCHANGED <<mailbox, dma9, ping, sync7, irq9, slotData, arm9, dma7, halt,
                 sd>>

(* runCardEngineCheck: start the command (fileReadNonBLocking) ...          *)
StartRead ==
  /\ h7 = "run" /\ cmd \in Reads /\ ~readOngoing
  /\ dma7' = (cmd = "FB0A")
  /\ readOngoing' = TRUE
  /\ context' = <<cmdSlot, cmdBlock>>
  /\ chunks' = Chunks
  /\ sdBusy' = FALSE
  /\ slotData' = [slotData EXCEPT ![cmdSlot] = Junk]
  /\ h7' = IF cmd = "FB0A" THEN "flagR" ELSE "pong"
  /\ UNCHANGED <<shared, arm9, halt>>

(* ... or resume it (resumeFileRead): nothing while the SD controller is    *)
(* busy, the next transfer, or the end of the read.                         *)
ResumeRead ==
  /\ h7 = "run" /\ cmd \in Reads /\ readOngoing
  /\ dma7' = (cmd = "FB0A")
  /\ \/ /\ sdBusy \/ chunks > 0
        /\ sdBusy' = TRUE
        /\ chunks' = IF sdBusy THEN chunks ELSE chunks - 1
        /\ h7' = IF cmd = "FB0A" THEN "flagR" ELSE "pong"
        /\ UNCHANGED <<slotData, readOngoing>>
     \/ /\ ~sdBusy /\ chunks = 0
        /\ slotData' = [slotData EXCEPT ![context[1]] = context[2]]
        /\ readOngoing' = FALSE
        /\ h7' = "clear"
        /\ UNCHANGED <<chunks, sdBusy>>
  /\ UNCHANGED <<shared, arm9, halt, context>>

NothingToRun ==
  /\ h7 = "run" /\ cmd \notin Reads
  /\ h7' = "pong"
  /\ UNCHANGED <<shared, slotData, arm9, dma7, halt, sd>>

(* runCardEngineCheck: sharedAddr[3] = 0.                                   *)
Clear7 ==
  /\ h7 = "clear"
  /\ cmd' = NoCmd
  /\ h7' = IF dma7 THEN "flagR" ELSE "pong"
  /\ UNCHANGED <<cmdSlot, cmdBlock, dma9, ping, lines, slotData, arm9, dma7,
                 halt, sd>>

(* Faulty: an IPC 3 is answered without 'DMA9'.                             *)
Flag7Unmarked ==
  /\ h7 \in {"flag3", "flagR"}
  /\ dma9' = (dma9 \/ h7 = "flagR")
  /\ h7' = IF h7 = "flag3" THEN "send3" ELSE "sendR"
  /\ UNCHANGED <<mailbox, ping, lines, slotData, arm9, dma7, halt, sd>>

(* 'DMA9', then IPC_SendSync(3): in answer to a 3 and after a DMA command.  *)
Flag7 ==
  /\ h7 \in {"flag3", "flagR"}
  /\ dma9' = TRUE
  /\ h7' = IF h7 = "flag3" THEN "send3" ELSE "sendR"
  /\ UNCHANGED <<mailbox, ping, lines, slotData, arm9, dma7, halt, sd>>

Reply7 ==
  /\ h7 \in {"send3", "sendR"}
  /\ irq9' = TRUE
  /\ h7' = IF h7 = "send3" THEN "none" ELSE "pong"
  /\ UNCHANGED <<mailbox, dma9, ping, irq7, sync7, slotData, arm9, dma7, halt,
                 sd>>

(* Faulty: 'PING' is not written.                                           *)
Pong7Silent ==
  /\ h7 = "pong"
  /\ h7' = "none"
  /\ UNCHANGED <<mailbox, dma9, ping, lines, slotData, arm9, dma7, halt, sd>>

(* Ask to be called again as long as a read is on.                          *)
Pong7 ==
  /\ h7 = "pong"
  /\ ping' = (ping \/ readOngoing)
  /\ h7' = "none"
  /\ UNCHANGED <<mailbox, dma9, lines, slotData, arm9, dma7, halt, sd>>

(* External: the SD controller finishes a non-blocking transfer.            *)
SdDone ==
  /\ sdBusy
  /\ sdBusy' = FALSE
  /\ UNCHANGED <<shared, slotData, arm9, h7, dma7, halt, readOngoing, context,
                 chunks>>

-----------------------------------------------------------------------------
(* runCardEngineCheckHalt, which the game's swi Halt calls in the idle      *)
(* thread. patchSwiHalt installs the hook in every game but those that the  *)
(* loader gives pingIpc. saveMutex is free here: the game's card library    *)
(* issues one card operation at a time (see SaveGuard for its contention).  *)

(* Faulty: the hook is installed in every game, or in none.                  *)
HaltHookedAlways == TRUE
HaltHookedNever  == FALSE

HaltHooked == ~PingIpc

HaltStart ==
  /\ HaltHooked
  /\ t7 = "idle" /\ h7 = "none" /\ cmd \in Reads
  /\ slot7' = cmdSlot
  /\ block7' = cmdBlock
  /\ dmaHalt' = (cmd = "FB0A")
  /\ slotData' = [slotData EXCEPT ![cmdSlot] = Junk]
  /\ t7' = "reading"
  /\ UNCHANGED <<shared, arm9, h7, dma7, sd>>

HaltRead ==
  /\ t7 = "reading" /\ h7 = "none"
  /\ slotData' = [slotData EXCEPT ![slot7] = block7]
  /\ t7' = "clear"
  /\ UNCHANGED <<shared, arm9, h7, dma7, slot7, block7, dmaHalt, sd>>

HaltClear ==
  /\ t7 = "clear" /\ h7 = "none"
  /\ cmd' = NoCmd
  /\ t7' = IF dmaHalt THEN "flag" ELSE "idle"
  /\ UNCHANGED <<cmdSlot, cmdBlock, dma9, ping, lines, slotData, arm9, h7,
                 dma7, slot7, block7, dmaHalt, sd>>

HaltFlag ==
  /\ t7 = "flag" /\ h7 = "none"
  /\ dma9' = TRUE
  /\ t7' = "send"
  /\ UNCHANGED <<mailbox, ping, lines, slotData, arm9, h7, dma7, slot7,
                 block7, dmaHalt, sd>>

HaltSend ==
  /\ t7 = "send" /\ h7 = "none"
  /\ irq9' = TRUE
  /\ t7' = "idle"
  /\ UNCHANGED <<mailbox, dma9, ping, irq7, sync7, slotData, arm9, h7, dma7,
                 slot7, block7, dmaHalt, sd>>

(* myIrqHandlerVBlank with ipcEveryFrame: an IPC 6 that carries no 'DMA9'.  *)
VBlankSync ==
  /\ h7 = "none" /\ ~irq9
  /\ irq9' = TRUE
  /\ UNCHANGED <<mailbox, dma9, ping, irq7, sync7, slotData, arm9, arm7>>

-----------------------------------------------------------------------------
Init ==
  /\ cmdSlot = 1 /\ cmdBlock = Content(1) /\ cmd = NoCmd
  /\ dma9 = FALSE /\ ping = FALSE
  /\ irq7 = FALSE /\ sync7 = 0 /\ irq9 = FALSE
  /\ cacheDescriptor = [s \in Slot |-> 0]
  /\ cacheCounter = [s \in Slot |-> 0]
  /\ accessCounter = 0
  /\ slotData = [s \in Slot |-> Junk]
  /\ isDma = FALSE /\ dmaDirectRead = FALSE
  /\ dmaReadOnArm7 = FALSE /\ dmaReadOnArm9 = FALSE
  /\ pc9 = "idle" /\ slot9 = 1 /\ h9 = "none" /\ ndma = 0
  /\ cur = 1 /\ left = 0 /\ out = <<>> /\ first = 1 /\ want = 0
  /\ busy = FALSE /\ issued = 0 /\ done = 0
  /\ h7 = "none" /\ dma7 = FALSE
  /\ t7 = "idle" /\ slot7 = 1 /\ block7 = Content(1) /\ dmaHalt = FALSE
  /\ readOngoing = FALSE /\ context = <<1, Content(1)>>
  /\ chunks = 0 /\ sdBusy = FALSE

GameThread ==
  \/ ReadRam \/ ReadNormalLookup \/ WaitPing \/ WaitPoll \/ ReadNormalCopy
  \/ SetDmaDirect \/ SetDmaSleep \/ SetDmaCached \/ SetDmaSend \/ SetDmaEnd

Handler9 == Irq9 \/ Continue7 \/ Check7 \/ Continue9Wait \/ Continue9
            \/ Continue9Ping \/ EndCardReadDma

Handler7 == Irq7 \/ StartRead \/ ResumeRead \/ NothingToRun \/ Clear7
            \/ Flag7 \/ Reply7 \/ Pong7

HaltThread == HaltStart \/ HaltRead \/ HaltClear \/ HaltFlag \/ HaltSend

Next ==
  \/ \E r \in Requests : CardRead(r[1], r[2])
  \/ \E r \in Requests : SetDma(r[1], r[2])
  \/ GameThread \/ Handler9 \/ Handler7 \/ HaltThread
  \/ NdmaDone \/ SdDone \/ VBlankSync

(* Each CPU keeps executing and each engine finishes. A thread is fair only *)
(* against handlers that end, which they do.                                *)
Fairness ==
  /\ WF_vars(GameThread) /\ WF_vars(Handler9)
  /\ WF_vars(Handler7) /\ WF_vars(HaltThread)
  /\ WF_vars(NdmaDone) /\ WF_vars(SdDone)

Spec == Init /\ [][Next]_vars
FairSpec == Spec /\ Fairness

-----------------------------------------------------------------------------
(* Properties.                                                              *)

FlagTypes ==
  /\ dma9 \in BOOLEAN /\ ping \in BOOLEAN
  /\ irq7 \in BOOLEAN /\ irq9 \in BOOLEAN
  /\ isDma \in BOOLEAN /\ dmaDirectRead \in BOOLEAN
  /\ dmaReadOnArm7 \in BOOLEAN /\ dmaReadOnArm9 \in BOOLEAN
  /\ busy \in BOOLEAN /\ dma7 \in BOOLEAN /\ dmaHalt \in BOOLEAN
  /\ readOngoing \in BOOLEAN /\ sdBusy \in BOOLEAN

ControlTypes ==
  /\ cmd \in Reads \cup {NoCmd} /\ sync7 \in {0, 3, 4}
  /\ pc9 \in {"idle", "ram", "lookup", "ping", "wait", "copy", "setdma",
              "send3", "end"}
  /\ h9 \in {"none", "cont7", "check7", "cont9", "ping", "end"}
  /\ h7 \in {"none", "flag3", "send3", "run", "clear", "flagR", "sendR", "pong"}
  /\ t7 \in {"idle", "reading", "clear", "flag", "send"}

DataTypes ==
  /\ cmdSlot \in Slot /\ cmdBlock \in Block
  /\ cacheDescriptor \in [Slot -> 0..NSectors]
  /\ cacheCounter \in [Slot -> Nat] /\ accessCounter \in Nat
  /\ slotData \in [Slot -> Block \cup {Junk}]
  /\ slot9 \in Slot /\ ndma \in Slot \cup {-1, 0}
  /\ cur \in Sector /\ left \in Int /\ out \in Seq(Block \cup {Junk})
  /\ first \in Sector /\ want \in Nat /\ issued \in Nat /\ done \in Nat
  /\ slot7 \in Slot /\ block7 \in Block /\ context \in Slot \X Block
  /\ chunks \in Nat

(* Every variable has its type: no slot number leaves the table, whatever   *)
(* the searches over it return.                                             *)
TypeOK == FlagTypes /\ ControlTypes /\ DataTypes

(* The slots whose descriptor and bytes may disagree: the one a synchronous *)
(* miss is refilling, and the one a DMA miss has claimed in advance.        *)
BeingFilled(s) ==
  \/ pc9 \in {"ping", "wait", "copy"} /\ s = slot9
  \/ dmaReadOnArm7 /\ s = cmdSlot

(* A slot that claims a block, and is not being filled, holds that block,   *)
(* from the right file: a later hit never returns bytes of another block,   *)
(* whatever the CPUs, the IRQs and the two DMA engines interleave.          *)
CacheCoherent ==
  \A s \in Slot : (cacheDescriptor[s] # 0 /\ ~BeingFilled(s))
                   => slotData[s] = Content(cacheDescriptor[s])

(* No block is claimed by two slots: getSlotForSector has one answer.       *)
OneSlotPerSector ==
  \A s, t \in Slot : (s # t /\ cacheDescriptor[s] = cacheDescriptor[t])
                      => cacheDescriptor[s] = 0

(* What has reached the game's buffer is the ROM data it asked for.         *)
DeliversRom ==
  \A i \in 1..Len(out) : out[i] = Content(first + i - 1)

(* The SD controller serves one reader: the halt hook's blocking read never *)
(* runs into a non-blocking read started by the IPC handler.                *)
SdExclusive == ~(readOngoing /\ t7 # "idle")

(* A command stays as written until the ARM7 takes it off the mailbox, and  *)
(* it is taken off only when the slot holds the block asked for.            *)
AnswersCommand ==
  cmd # NoCmd =>
    \/ UNCHANGED mailbox
    \/ /\ cmd' = NoCmd /\ slotData[cmdSlot] = cmdBlock
       /\ UNCHANGED <<cmdSlot, cmdBlock>>
CommandAnswered == [][AnswersCommand]_vars

(* Every request is completed, with 'PING' or without.                      *)
EveryReadEnds == busy ~> ~busy

(* The four processes together do what RomService promises: a request is     *)
(* answered with its own blocks, in order, and reported to the game exactly  *)
(* once and never before its last block has reached the buffer.             *)
Rom == INSTANCE RomService
ImplementsRomService == Rom!Spec

=============================================================================
