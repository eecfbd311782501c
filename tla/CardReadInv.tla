------------------------------ MODULE CardReadInv ------------------------------
(***************************************************************************)
(* Why CardRead is safe: the inductive invariant Inv, which says who owns   *)
(* the mailbox and which bytes each process may rely on at each of its      *)
(* steps.  CardReadProofs proves it.                                        *)
(***************************************************************************)
EXTENDS CardRead

(* The thread is in a synchronous operation: no chain of DMA IRQs runs.     *)
Synchronous == pc9 \in {"ram", "lookup", "ping", "wait", "copy", "setdma", "end"}

(* A DMA chain belongs to the one request that the game waits for.          *)
ChainOwned ==
  /\ (dmaReadOnArm7 \/ dmaReadOnArm9 \/ ndma # 0) => busy /\ ~Synchronous
  /\ ~(dmaReadOnArm7 /\ dmaReadOnArm9)
  /\ dmaReadOnArm7 => ndma = 0
  /\ (dmaReadOnArm7 \/ dmaReadOnArm9) => ~dmaDirectRead
  /\ ndma \in Slot => dmaReadOnArm9
  /\ ndma = -1 => dmaDirectRead
  /\ h9 \in {"check7", "ping"} => dmaReadOnArm7
  /\ h9 = "end" => ~dmaReadOnArm7 /\ ~dmaReadOnArm9
  /\ h9 = "end" => dmaDirectRead \/ ~Synchronous
  /\ pc9 = "setdma" => busy /\ ~dmaDirectRead

(* A command in the mailbox is that of the thread or that of the DMA chain. *)
CommandOwned ==
  cmd # NoCmd =>
    \/ cmd = "FB0A" /\ dmaReadOnArm7
    \/ /\ cmd # "FB0A" /\ pc9 \in {"ping", "wait"}
       /\ slot9 = cmdSlot /\ cmdBlock = Content(cur)

(* What the thread may rely on: its block is in no other slot, and is in    *)
(* its own slot as soon as the mailbox is empty.                            *)
ThreadView ==
  pc9 \in {"ping", "wait", "copy"} =>
    /\ \A s \in Slot : cacheDescriptor[s] = cur => s = slot9
    /\ cmd = NoCmd => slotData[slot9] = Content(cur)
    /\ pc9 = "copy" => cmd = NoCmd

(* What the DMA chain may rely on.                                          *)
ChainView ==
  /\ dmaReadOnArm7 =>
       /\ cacheDescriptor[cmdSlot] = cur /\ cmdBlock = Content(cur)
       /\ cmd = NoCmd => slotData[cmdSlot] = Content(cur)
  /\ ndma \in Slot => cacheDescriptor[ndma] = cur

(* What the ARM7 is doing is the command in the mailbox.                    *)
Arm7View ==
  /\ t7 \in {"reading", "clear"} => cmd # NoCmd
  /\ t7 = "reading" => slot7 = cmdSlot /\ block7 = cmdBlock
  /\ readOngoing => cmd # NoCmd /\ context = <<cmdSlot, cmdBlock>>
  /\ h7 = "clear" => cmd # NoCmd /\ ~readOngoing
  /\ (t7 = "clear" \/ h7 = "clear") => slotData[cmdSlot] = cmdBlock

(* The ARM7 is driven by its IPC handler or by its idle thread, not by both. *)
OneDriver ==
  IF PingIpc THEN t7 = "idle"
  ELSE /\ ~readOngoing /\ ~ping /\ pc9 # "ping" /\ h9 # "ping"
       /\ h7 \in {"none", "flag3", "send3"}
       /\ irq7 => sync7 = 3

(* How far the request is.                                                  *)
Progress ==
  /\ left > 0 => cur + left - 1 <= NSectors
  /\ (Synchronous /\ pc9 # "end") => cur = first + Len(out)
  /\ (pc9 \in {"ram", "setdma"} \/ ndma = -1) => left >= 0 /\ Len(out) = 0
  /\ dmaReadOnArm7 => cur = first + Len(out)
  /\ dmaReadOnArm9 /\ ndma # 0 => cur = first + Len(out)
  /\ dmaReadOnArm9 /\ ndma = 0 => cur + 1 = first + Len(out)
  /\ ndma = -1 => cur = first

Protocol ==
  /\ ChainOwned /\ CommandOwned
  /\ ThreadView /\ ChainView /\ Arm7View /\ OneDriver
  /\ Progress

Safety == OneSlotPerSector /\ CacheCoherent /\ DeliversRom

(* The inductive invariant: the protocol's bookkeeping, and the safety it   *)
(* is for - no block claimed twice, none claimed that is not there, and     *)
(* nothing but the ROM's bytes in the game's buffer.                        *)
Inv == TypeOK /\ Protocol /\ Safety
=============================================================================
