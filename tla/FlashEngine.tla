------------------------------ MODULE FlashEngine ------------------------------
(***************************************************************************)
(* The card engines of B4DS mode (cardengine/arm7 and arm9), where the game   *)
(* runs from a flashcard and only the ARM9 can reach it: the ARM7 asks it for *)
(* saves through the words of sharedAddr, a DMA read goes on from one IPC 3    *)
(* to the next, and the ARM9 itself swaps the in-game menu in and out.        *)
(*                                                                          *)
(* IPC_SYNC holds one message and no queue: ipc9 and ipc7 are what has been   *)
(* sent to the ARM9 and the ARM7 and not taken, and sending overwrites it.    *)
(*                                                                          *)
(* Assumptions: the game makes one request of the card at a time (its CARD    *)
(* library locks the bus), no IPC 9 comes within cardSetDma, and loading the   *)
(* game takes the ARM9 longer than a frame.                                  *)
(***************************************************************************)
EXTENDS Integers, Sequences

CONSTANTS
  SaveSize,     (* saveSize, in cells                                       *)
  DmaReadLen,   (* dmaReadLen, in cells                                     *)
  MaxLen,       (* bound: the cells of a DMA read                            *)
  MaxRequests,  (* bound: saves and DMA reads                               *)
  MaxRounds     (* bound: menus, exceptions and restarts                     *)

ASSUME FlashAssumption ==
  /\ SaveSize \in Nat \ {0} /\ DmaReadLen \in Nat \ {0} /\ MaxLen \in Nat \ {0}
  /\ MaxRequests \in Nat /\ MaxRounds \in Nat

VARIABLES
  word0, word3, word4, word5,
  ipc9, ipc7,
  ipcEveryFrame,
  thread,          (* the ARM7's save thread                                *)
  irq7, errorBak,  (* the handler of the vertical blank over it              *)
  pc9, res,        (* the ARM9, and what the menu returns                    *)
  opening, opened, (* of its inGameMenu                                     *)
  exception,       (* userException has taken over                          *)
  torn,            (* history: it came when the menu was being closed        *)
  req, savFile, got,   (* the game's request, the save, what was read of it    *)
  pos,             (* cardStruct: source, destination and length of a DMA read *)
  currentLen, dmaReadOnArm9,   (* of them its last part, which has been copied *)
  ram, page,       (* what lies at igmLocation, and in the page file         *)
  down,
  lost, spoiled, stale,   (* history: see Send9, Pick and Out, Clear        *)
  cut, raced,      (* history: see Eeprom, Rewrite                           *)
  started7,        (* history: the ARM7 has restarted with the ARM9          *)
  requests, rounds

words == <<word0, word3, word4, word5>>
ipc   == <<ipc9, ipc7>>
arm7  == <<thread, irq7, errorBak, ipcEveryFrame>>
menu  == <<res, opening, opened>>
crash == <<exception, torn>>
dma   == <<pos, currentLen, dmaReadOnArm9>>
card  == <<req, savFile, got, dma>>
memory == <<ram, page>>
hist  == <<lost, spoiled, stale>>
sync  == <<cut, raced, started7>>
bounds == <<requests, rounds>>
vars  == <<words, ipc, arm7, pc9, menu, crash, card, memory, down, hist, sync, bounds>>

On == down = "no"

(* lost: a message that the ARM9 has not taken is overwritten by another.     *)
Send9(m) == ipc9' = m /\ lost' = (lost \/ ipc9 \in {3, 4})

-----------------------------------------------------------------------------
(* The game.                                                                *)

None == [kind |-> "none"]

Idle == On /\ req = None /\ requests < MaxRequests /\ requests' = requests + 1

(* eepromRead and eepromPageWrite: at is the address in the save, from the    *)
(* one in memory.  A game without the hook gets false at once.  cut: the       *)
(* command is written over a 'RSDN' the ARM7 has not seen.                   *)
Saves == [kind : {"read", "write"}, at : 0..SaveSize-1, from : 0..SaveSize-1,
          len : 1..SaveSize, id : {requests + 1}]

Eeprom ==
  /\ Idle /\ thread = "idle" /\ irq7 = "none"
  /\ req' \in Saves /\ (req'.kind = "read" => req'.from = 0)
  /\ got' = <<>>
  /\ word0' = "src" /\ word3' = "SAV" /\ thread' = "send"
  /\ cut' = (cut \/ word3 = "RSDN")
  /\ UNCHANGED <<word4, word5, ipc, irq7, errorBak, ipcEveryFrame, pc9, menu, crash,
                 savFile, dma, memory, down, hist, raced, started7, rounds>>

(* What lies at igmLocation: the menu, or memory of the game, here where a DMA  *)
(* read goes to.  Of each cell, which cell of the read it holds, 0 for none.    *)
Cells == 1..MaxLen
Menu  == [c \in Cells |-> -1]
Game  == [c \in Cells |-> 0]

PartLen(len) == IF len > DmaReadLen THEN DmaReadLen ELSE len

(* cardReadNormal: n cells from where the read has got to.                   *)
Part(mem, p, n) ==
  [c \in Cells |-> IF c - p.dst \in 1..n THEN p.src + c - p.dst ELSE mem[c]]

(* cardSetDma: the first part is copied at once.                             *)
CardSetDma ==
  /\ Idle /\ pc9 = "game" /\ ~exception
  /\ req' \in [kind : {"dma"}, len : Cells]
  /\ pos' = [src |-> 0, dst |-> 0, len |-> req'.len] /\ currentLen' = PartLen(req'.len)
  /\ ram' = Part(Game, pos', currentLen')
  /\ dmaReadOnArm9' = TRUE /\ ipc7' = 3
  /\ UNCHANGED <<words, ipc9, arm7, pc9, menu, crash, savFile, got, page, down,
                 hist, sync, rounds>>

-----------------------------------------------------------------------------
(* The ARM7: the thread, and the two handlers that interrupt it.             *)

Only7 == UNCHANGED <<pc9, menu, crash, savFile, got, dma,
                     memory, down, sync, bounds>>

(* waitForArm9, and what the caller takes with it.                            *)
SendSave ==
  /\ On /\ irq7 = "none" /\ thread = "send"
  /\ Send9(4) /\ thread' = "wait"
  /\ UNCHANGED <<words, ipc7, irq7, errorBak, ipcEveryFrame, req, spoiled, stale>> /\ Only7

WaitForArm9 ==
  /\ On /\ irq7 = "none" /\ thread = "wait" /\ word3 = "none"
  /\ thread' = "idle" /\ req' = None /\ got' = <<>>
  /\ UNCHANGED <<words, ipc, irq7, errorBak, ipcEveryFrame, hist, pc9, menu, crash, savFile,
                 dma, memory, down, sync, bounds>>

(* myIrqHandlerFIFO.                                                        *)
Fifo ==
  /\ On /\ irq7 = "none" /\ ipc7 = 3
  /\ ipc7' = 0 /\ Send9(3)
  /\ UNCHANGED <<words, arm7, req, spoiled, stale>> /\ Only7

(* myIrqHandlerVBlank: the hotkey, or 'REDY' of a menu the ARM9 has opened.   *)
VBlankMenu ==
  /\ On /\ irq7 \in {"none", "again"} /\ (word5 # "REDY" => rounds < MaxRounds)
  /\ word4' = "MENU" /\ Send9(9) /\ errorBak' = word0
  /\ irq7' = "ready"
  /\ rounds' = IF word5 = "REDY" THEN rounds ELSE rounds + 1
  /\ UNCHANGED <<word0, word3, word5, ipc7, thread, ipcEveryFrame, pc9, menu,
                 crash, card, memory, down, spoiled, stale, sync, requests>>

VBlank ==
  /\ On /\ irq7 \in {"none", "again"} /\ word5 # "REDY"
  /\ irq7' = "rset"
  /\ UNCHANGED <<words, ipc, thread, errorBak, ipcEveryFrame, req, hist>> /\ Only7

(* Faulty: the handler looks for 'RSET' only.                                *)
ResetAskedRset == word3 = "RSET"

ResetAsked == word3 \in {"RSET", "RSDN"}

(* The rest of the handler; the exception handler keeps it in a loop.         *)
VBlankEnd ==
  /\ On /\ irq7 = "rset"
  /\ \/ ResetAsked /\ irq7' = "reset" /\ UNCHANGED <<ipc9, lost>>
     \/ /\ ~ResetAsked
        /\ irq7' = IF word0 = "EROR" THEN "again" ELSE "none"
        /\ IF ipcEveryFrame THEN Send9(6) ELSE UNCHANGED <<ipc9, lost>>
  /\ UNCHANGED <<words, ipc7, thread, errorBak, ipcEveryFrame, req, spoiled, stale>>
  /\ Only7

(* inGameMenu of the ARM7: the wait for 'REDY'.                              *)
Ready ==
  /\ On /\ irq7 = "ready" /\ word5 = "REDY"
  /\ irq7' = IF word4 = "MENU" THEN "keys" ELSE "exit"
  /\ UNCHANGED <<words, ipc, thread, errorBak, ipcEveryFrame, req, hist>> /\ Only7

(* The ARM9 has not answered for 60 * 2 frames.                             *)
RebootConsole ==
  /\ On /\ irq7 = "ready" /\ word5 # "REDY" /\ down' = "timeout"
  /\ UNCHANGED <<words, ipc, arm7, pc9, menu, crash, card, memory, hist, sync, bounds>>

Keys ==
  /\ On /\ irq7 = "keys"
  /\ word5' = "keys" /\ irq7' = "switch"
  /\ UNCHANGED <<word0, word3, word4, ipc, thread, errorBak, ipcEveryFrame, req, hist>>
  /\ Only7

Switch ==
  /\ On /\ irq7 = "switch"
  /\ irq7' = IF word4 \in {"RSET", "QUIT"} THEN "reset" ELSE "test"
  /\ ipcEveryFrame' = IF word4 = "IPCY" THEN TRUE ELSE IF word4 = "IPCN" THEN FALSE ELSE ipcEveryFrame
  /\ UNCHANGED <<words, ipc, thread, errorBak, req, hist>> /\ Only7

Test ==
  /\ On /\ irq7 = "test"
  /\ irq7' = IF word4 = "EXIT" THEN "exit" ELSE "rewrite"
  /\ UNCHANGED <<words, ipc, thread, errorBak, ipcEveryFrame, req, hist>> /\ Only7

(* raced: a command is taken back that has come since word 4 was looked at.     *)
Rewrite ==
  /\ On /\ irq7 = "rewrite" /\ word4' = "MENU" /\ irq7' = "keys"
  /\ raced' = (raced \/ word4 \in {"RSET", "QUIT", "EXIT"})
  /\ UNCHANGED <<word0, word3, word5, ipc, thread, errorBak, ipcEveryFrame, pc9, menu, crash,
                 card, memory, down, hist, cut, started7, bounds>>

Exit ==
  /\ On /\ irq7 = "exit"
  /\ word0' = errorBak /\ errorBak' = "none" /\ word4' = "none" /\ word5' = "none" /\ irq7' = "rset"
  /\ UNCHANGED <<word3, ipc, thread, ipcEveryFrame, req, hist>> /\ Only7

(* reset.  stale: word 0 still holds the 'BOOT' of an earlier restart.       *)
Clear ==
  /\ On /\ irq7 = "reset" /\ word3 = "RSDN"
  /\ irq7' = "boot" /\ stale' = (word0 = "BOOT")
  /\ UNCHANGED <<words, ipc, thread, errorBak, ipcEveryFrame, req, lost, spoiled>> /\ Only7

(* Too early, it runs a program that is being overwritten.                   *)
(* Faulty: the ARM7 does not wait.                                          *)
BootSeenAlways == TRUE

BootSeen == word0 = "BOOT"

Boot ==
  /\ On /\ irq7 = "boot" /\ BootSeen
  /\ irq7' = "none" /\ thread' = "idle" /\ req' = None /\ started7' = TRUE
  /\ down' = IF pc9 = "start" THEN down ELSE "early"
  /\ UNCHANGED <<words, ipc, errorBak, ipcEveryFrame, pc9, menu, crash, savFile, got,
                 dma, memory, hist, cut, raced, bounds>>

(* The ARM7 looks for 'DSIW' only while there is no 'BOOT'.                    *)
RebootDSiWare ==
  /\ On /\ irq7 = "boot" /\ word0 # "BOOT" /\ pc9 = "DSIW" /\ down' = "reboot"
  /\ UNCHANGED <<words, ipc, arm7, pc9, menu, crash, card, memory, hist, sync, bounds>>

Thread7 == SendSave \/ WaitForArm9
Handler7 == \/ VBlankEnd \/ Ready \/ RebootConsole \/ Keys \/ Switch \/ Test \/ Rewrite
            \/ Exit \/ Clear \/ Boot \/ RebootDSiWare

-----------------------------------------------------------------------------
(* myIrqHandlerIPC of the ARM9.                                             *)

Only9 == UNCHANGED <<arm7, down, sync, bounds>>

Take(m) == On /\ pc9 = "game" /\ ~exception /\ ipc9 = m /\ ipc9' = 0

(* Faulty: the second half of a split access is not wrapped.                 *)
SaveCellUnwrapped(r, i) == r.at + i

(* cardSave: the i-th cell of an access.  The split is found from the         *)
(* address it reads from, which for a write is the one in memory.            *)
SaveCell(r, i) ==
  LET src  == IF r.kind = "read" THEN r.at ELSE r.from
      len2 == SaveSize - src
  IN  IF src + r.len > SaveSize /\ i >= len2
        THEN ((r.at + len2) % SaveSize) + i - len2
        ELSE r.at + i

(* Faulty: the ARM7 is not told.                                            *)
SaveDoneNot == word3

SaveDone == "none"

CardSave ==
  /\ Take(4)
  /\ IF word3 = "SAV"
       THEN /\ IF req.kind = "write"
                 THEN /\ savFile' = [c \in DOMAIN savFile |->
                           IF \E i \in 0..req.len-1 : SaveCell(req, i) = c THEN req.id ELSE savFile[c]]
                      /\ UNCHANGED got
                 ELSE /\ got' = [i \in 1..req.len |-> savFile[SaveCell(req, i - 1)]]
                      /\ UNCHANGED savFile
            /\ word3' = SaveDone
       ELSE UNCHANGED <<savFile, got, word3>>
  /\ UNCHANGED <<word0, word4, word5, ipc7, pc9, menu, crash, req, dma, memory, hist>> /\ Only9

(* Faulty: the destination stays.                                           *)
MovedSource == [pos EXCEPT !.src = @ + currentLen, !.len = @ - currentLen]

(* Past the last part.                                                      *)
Moved == [src |-> pos.src + currentLen, dst |-> pos.dst + currentLen,
          len |-> pos.len - currentLen]

(* continueCardReadDmaArm9.                                                 *)
ContinueDma ==
  /\ Take(3)
  /\ IF ~dmaReadOnArm9 THEN UNCHANGED <<dma, ipc7, req, ram>>
     ELSE /\ pos' = Moved
          /\ IF Moved.len > 0
               THEN /\ currentLen' = PartLen(Moved.len) /\ ram' = Part(ram, Moved, currentLen')
                    /\ ipc7' = 3 /\ UNCHANGED <<dmaReadOnArm9, req>>
               ELSE dmaReadOnArm9' = FALSE /\ req' = None /\ UNCHANGED <<currentLen, ipc7, ram>>
  /\ UNCHANGED <<words, pc9, menu, crash, savFile, got, page, hist>> /\ Only9

SwapScreens ==
  /\ Take(6)
  /\ UNCHANGED <<words, ipc7, pc9, menu, crash, card, memory, hist>> /\ Only9

-----------------------------------------------------------------------------
(* inGameMenu of the ARM9, called for IPC 9 or by the exception handler.      *)

Menu9 == UNCHANGED card /\ Only9

Opens == ~opened

OpenMenu ==
  /\ Take(9) /\ opening' = Opens /\ pc9' = (IF Opens THEN "backup" ELSE "enter")
  /\ UNCHANGED <<words, ipc7, res, opened, crash, memory, hist>> /\ Menu9

(* Faulty: an exception in the opening opens the menu once more.             *)
StopsNever == FALSE

Stops == opening

(* userException.  The game is not gone back to, nor is its interrupt.  torn:   *)
(* the menu is then stored where the game's memory is kept.                   *)
Exception ==
  /\ On /\ rounds < MaxRounds /\ rounds' = rounds + 1
  /\ pc9 \in {"game", "backup", "fetch", "enter", "loop", "pick", "store", "restore"}
  /\ word0' = "EROR" /\ exception' = TRUE /\ torn' = (torn \/ pc9 \in {"store", "restore"})
  /\ pc9' = IF Stops THEN "stop" ELSE IF Opens THEN "backup" ELSE "enter"
  /\ opening' = (opening \/ Opens)
  /\ UNCHANGED <<word3, word4, word5, ipc, arm7, res, opened, card, memory, down,
                 hist, sync, requests>>

(* writeIgm(0xA000) and readIgm(0).                                         *)
Backup ==
  /\ On /\ pc9 = "backup" /\ page' = [page EXCEPT ![1] = ram] /\ pc9' = "fetch"
  /\ UNCHANGED <<words, ipc, menu, crash, ram, hist>> /\ Menu9

Fetch ==
  /\ On /\ pc9 = "fetch" /\ ram' = page[0] /\ pc9' = "enter"
  /\ UNCHANGED <<words, ipc, menu, crash, page, hist>> /\ Menu9

(* The menu (arm9_igm) is there.                                            *)
Enter ==
  /\ On /\ pc9 = "enter"
  /\ opening' = FALSE /\ opened' = TRUE /\ res' = "none"
  /\ word5' = "REDY" /\ pc9' = "loop"
  /\ UNCHANGED <<word0, word3, word4, ipc, crash, memory, hist>> /\ Menu9

Loop ==
  /\ On /\ pc9 = "loop" /\ pc9' = IF word4 = "MENU" THEN "pick" ELSE "store"
  /\ opened' = (word4 = "MENU")
  /\ UNCHANGED <<words, ipc, res, opening, crash, memory, hist>> /\ Menu9

(* The user picks a command, some frames later, with keys that the ARM7 has    *)
(* reported: those that leave the menu, those that write the words (VIEW, of   *)
(* the RAM viewer, words 0 to 2), and the options.                            *)
Commands == {"EXIT", "RAMD", "RSET", "QUIT", "VIEW", "IPCY", "IPCN"}

Pick(c) ==
  /\ On /\ pc9 = "pick" /\ word5 = "keys" /\ (exception => c \notin {"EXIT", "IPCY", "IPCN"})
  /\ word4' = IF c = "RAMD" THEN "EXIT" ELSE c
  /\ IF c \in {"RAMD", "RSET", "QUIT"} THEN word3' = c /\ res' = c ELSE UNCHANGED <<word3, res>>
  /\ IF c = "VIEW" THEN /\ word0' = "view" /\ spoiled' = (spoiled \/ thread # "idle")
     ELSE UNCHANGED <<word0, spoiled>>
  /\ pc9' = IF c \in {"EXIT", "RAMD"} THEN "exiting" ELSE IF c \in {"RSET", "QUIT"} THEN "loop"
            ELSE "asked"
  /\ UNCHANGED <<word5, ipc, opening, opened, crash, memory, lost, stale>> /\ Menu9

Asked ==
  /\ On /\ pc9 = "asked" /\ word4 \notin {"VIEW", "IPCY", "IPCN"} /\ pc9' = "loop"
  /\ UNCHANGED <<words, ipc, menu, crash, memory, hist>> /\ Menu9

Exiting ==
  /\ On /\ pc9 = "exiting" /\ word4 = "none" /\ pc9' = "loop"
  /\ UNCHANGED <<words, ipc, menu, crash, memory, hist>> /\ Menu9

(* writeIgm(0) and readIgm(0xA000).                                         *)
Store ==
  /\ On /\ pc9 = "store" /\ page' = [page EXCEPT ![0] = ram] /\ pc9' = "restore"
  /\ UNCHANGED <<words, ipc, menu, crash, ram, hist>> /\ Menu9

Restore ==
  /\ On /\ pc9 = "restore" /\ ram' = page[1] /\ pc9' = "out"
  /\ UNCHANGED <<words, ipc, menu, crash, page, hist>> /\ Menu9

(* After the menu.  spoiled: the end of the RAM dump answers a save that      *)
(* nobody has made.                                                         *)
Out ==
  /\ On /\ pc9 = "out"
  /\ pc9' = IF res \in {"RSET", "QUIT"} THEN "reset" ELSE IF exception THEN "backup" ELSE "game"
  /\ opening' = (pc9' = "backup")
  /\ word3' = IF res = "RAMD" THEN "none" ELSE word3
  /\ spoiled' = (spoiled \/ (res = "RAMD" /\ thread # "idle"))
  /\ res' = "none"
  /\ UNCHANGED <<word0, word4, word5, ipc, opened, crash, memory, lost, stale>> /\ Menu9

-----------------------------------------------------------------------------
(* The restart: from the menu, or by the game itself.                        *)

GameReset ==
  /\ On /\ pc9 = "game" /\ ~exception /\ rounds < MaxRounds /\ rounds' = rounds + 1
  /\ pc9' = "reset"
  /\ UNCHANGED <<words, ipc, arm7, menu, crash, card, memory, down, hist, sync,
                 requests>>

(* reset, which clears IPC_SYNC on its side; the ARM7 does so in Clear.       *)
Reset ==
  /\ On /\ pc9 = "reset" /\ word3' = "RSDN" /\ ipc9' = 0 /\ ipc7' = 0 /\ pc9' = "load"
  /\ started7' = FALSE
  /\ UNCHANGED <<word0, word4, word5, menu, crash, card, memory, hist, arm7, down, cut, raced,
                 bounds>>

(* For DSiWare and for large programs the ARM9 leaves 'DSIW' in word 1 and waits  *)
(* for the ARM7 to reboot the console.                                       *)
ResetDSiWare ==
  /\ On /\ pc9 = "reset" /\ word3' = "RSDN" /\ pc9' = "DSIW"
  /\ UNCHANGED <<word0, word4, word5, ipc, menu, crash, card, memory, hist>> /\ Only9

(* The programs are read again.  The ARM7 has seen 'RSDN' by then, unless it   *)
(* waits for the menu or a save has been written over it.                    *)
Load ==
  /\ On /\ pc9 = "load" /\ (irq7 = "boot" \/ (irq7 = "ready" /\ word5 # "REDY") \/ word3 # "RSDN")
  /\ ram' = Game /\ pc9' = "loaded"
  /\ UNCHANGED <<words, ipc, menu, crash, card, page, hist>> /\ Only9

(* Faulty: 'RSDN' is left in word 3.                                        *)
Word3Left == word3

Word3 == "none"

Loaded ==
  /\ On /\ pc9 = "loaded" /\ word0' = "BOOT" /\ word3' = Word3 /\ pc9' = "start"
  /\ UNCHANGED <<word4, word5, ipc, menu, crash, card, memory, hist>> /\ Only9

(* A frame later.  If the ARM7 has not restarted, the two run programs that   *)
(* know nothing of each other.                                              *)
Start ==
  /\ On /\ pc9 = "start" /\ irq7 # "boot"
  /\ pc9' = "game" /\ exception' = FALSE /\ torn' = FALSE
  /\ down' = IF started7 THEN down ELSE "split"
  /\ UNCHANGED <<words, ipc, arm7, menu, card, memory, hist, sync, bounds>>

Handler9 == \/ CardSave \/ ContinueDma \/ SwapScreens \/ OpenMenu \/ Backup \/ Fetch \/ Enter
            \/ Loop \/ Asked \/ Exiting \/ Store \/ Restore \/ Out
            \/ Reset \/ ResetDSiWare \/ Load \/ Loaded \/ Start

Init ==
  /\ word0 = "none" /\ word3 = "none" /\ word4 = "none" /\ word5 = "none"
  /\ ipc9 = 0 /\ ipc7 = 0 /\ ipcEveryFrame \in BOOLEAN
  /\ thread = "idle" /\ irq7 = "none" /\ errorBak = "none"
  /\ pc9 = "game" /\ res = "none" /\ opening = FALSE /\ opened = FALSE
  /\ exception = FALSE /\ torn = FALSE
  /\ req = None /\ got = <<>> /\ savFile = [c \in 0..2*SaveSize-1 |-> 0]
  /\ pos = [src |-> 0, dst |-> 0, len |-> 0] /\ currentLen = 0 /\ dmaReadOnArm9 = FALSE
  /\ ram = Game /\ page = [i \in {0, 1} |-> IF i = 0 THEN Menu ELSE Game]
  /\ down = "no"
  /\ lost = FALSE /\ spoiled = FALSE /\ stale = FALSE
  /\ cut = FALSE /\ raced = FALSE /\ started7 = TRUE /\ requests = 0 /\ rounds = 0

Requests9 == Eeprom \/ CardSetDma \/ GameReset
User == \E c \in Commands : Pick(c)

Next == Requests9 \/ User \/ Exception \/ VBlankMenu \/ VBlank \/ Fifo \/ Thread7 \/ Handler7 \/ Handler9

Spec == Init /\ [][Next]_vars

(* Both processors go on, the vertical blank comes again and again, and       *)
(* between two of them the ARM7 gets to its thread and its other interrupt.   *)
FairSpec ==
  /\ Spec /\ WF_vars(Handler7) /\ WF_vars(Handler9) /\ WF_vars(VBlank)
  /\ SF_vars(Thread7) /\ SF_vars(Fifo)

-----------------------------------------------------------------------------
(* The split is made for the address in memory (cardSave, cardengine.c:569): a   *)
(* write that wraps runs past the save unless both addresses wrap together.    *)
Overruns(r) == r.kind = "write" /\ r.at + r.len > SaveSize /\ r.from # r.at

(* eepromRead and eepromPageWrite return true: the access has then been made,  *)
(* with its own arguments and on a chip that wraps, however many interrupts   *)
(* came between; and no other cell is touched.                               *)
SaveMade ==
  [][LET cell(i) == (req.at + i) % SaveSize
     IN  /\ WaitForArm9 /\ ~spoiled /\ ~cut /\ ~Overruns(req) =>
               IF req.kind = "write" THEN \A i \in 0..req.len-1 : savFile[cell(i)] = req.id
               ELSE got = [i \in 1..req.len |-> savFile[cell(i - 1)]]
         /\ savFile' # savFile /\ ~spoiled /\ ~cut /\ ~Overruns(req) =>
               \A c \in DOMAIN savFile :
                  savFile'[c] # savFile[c] => \E i \in 0..req.len-1 : c = cell(i)]_vars

(* The game's callback is called when its whole DMA read is in memory, in order *)
(* and nothing behind it, although the menu may have been where the read goes   *)
(* to between any two parts, and its place in the read is moved a part late.   *)
DmaDelivered ==
  [][ContinueDma /\ req.kind = "dma" /\ req' = None =>
       \A c \in Cells : ram[c] = IF c <= req.len THEN c ELSE 0]_vars

(* A game that runs, and a RAM dump at the end of the menu, has the game's own   *)
(* memory, and the page file has the menu, also after exceptions in the menu    *)
(* and in its opening.  Not after one in its closing: opened is already false,   *)
(* and the menu is stored over what is kept of the game (cardengine.c:536-541). *)
GameRestored ==
  pc9 = "game" \/ (pc9 = "out" /\ ~torn) => ram # Menu /\ page[0] = Menu

(* After a restart the two processors run the same game: the ARM7 starts it    *)
(* once it has been loaded, unless word 0 still had the 'BOOT' of the restart  *)
(* before, and the ARM9 not without it, unless a save hid 'RSDN' from it or it *)
(* waits for the menu, which ends in a reboot.                               *)
StartTogether == (down = "early" => stale) /\ (down = "split" => cut \/ irq7 = "ready")

(* The ARM9 waits for a reboot of which the ARM7 cannot know: the 'RSDN' was     *)
(* written over by a save command.                                          *)
Unheard == pc9 = "DSIW" /\ cut

(* A save or a DMA read ends, unless its message is overwritten, the menu      *)
(* stays open, or the game has crashed.                                      *)
RequestEnds ==
  req # None ~> (req = None \/ lost \/ raced \/ exception \/ ~On \/ pc9 = "pick" \/ Unheard)

(* A restart comes to an end, that of DSiWare with a reboot, unless the 'RSDN'    *)
(* or another command is overwritten.                                       *)
RestartEnds == pc9 = "reset" ~> (pc9 = "game" \/ ~On \/ raced \/ Unheard)
================================================================================
