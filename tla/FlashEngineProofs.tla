--------------------------- MODULE FlashEngineProofs ---------------------------
(***************************************************************************)
(* What FlashEngine promises, proved for saves of any size, DMA reads of any  *)
(* length and any number of requests, menus and restarts.  Inv is inductive;  *)
(* its parts are about the game's memory, the restart, the request, and the     *)
(* chain of a DMA read.                                                     *)
(***************************************************************************)
EXTENDS FlashEngine, TLAPS

Places9 == {"game", "backup", "fetch", "enter", "loop", "pick", "asked", "exiting",
            "store", "restore", "out", "stop", "reset", "DSIW", "load", "loaded", "start"}

(* The game is elsewhere in memory: the menu may be where it belongs.         *)
Reloading == pc9 \in {"load", "loaded", "start"}

(* The game's own memory, whatever it holds.                                *)
GameMem == [Cells -> Nat]

MemoryTypes ==
  /\ pc9 \in Places9 /\ opening \in BOOLEAN /\ opened \in BOOLEAN
  /\ exception \in BOOLEAN /\ torn \in BOOLEAN
  /\ ram \in {Menu} \cup GameMem /\ page \in [{0, 1} -> {Menu} \cup GameMem]
  /\ pos \in [src : Nat, dst : Nat, len : Int] /\ currentLen \in Nat

(* Which of the two is where.  The game's memory is lost for good when an      *)
(* exception in the closing of the menu keeps the menu in its place; the      *)
(* game is not gone back to then.                                           *)
Memory ==
  /\ MemoryTypes
  /\ page[0] = Menu
  /\ pc9 = "game" => ~exception
  /\ torn => exception
  /\ pc9 \in {"enter", "loop", "pick", "asked", "exiting", "store", "restore"} => ram = Menu
  /\ pc9 \in {"fetch", "enter", "loop", "pick", "asked", "exiting", "store", "restore"} =>
       torn \/ page[1] \in GameMem
  /\ pc9 \in {"game", "backup", "out"} => torn \/ ram \in GameMem
  /\ pc9 \in {"loaded", "start"} => ram \in GameMem
  /\ opening => pc9 \in {"backup", "fetch", "enter", "stop"}
  /\ pc9 \in {"backup", "fetch"} => opening
  /\ pc9 = "enter" => opening \/ opened
  /\ opened <=> ~opening /\ pc9 \in {"enter", "loop", "pick", "asked", "exiting"}

(* The ARM7 cannot get to the restart: the menu it waits for will not come.    *)
WaitsForMenu == irq7 = "ready" /\ word5 # "REDY"

(* The handshake of the restart.                                            *)
Restart ==
  /\ word3 = "RSDN" => pc9 \in {"DSIW", "load", "loaded"}
  /\ irq7 = "boot" => pc9 = "DSIW" \/ Reloading
  /\ pc9 = "load" => word3 = "RSDN" \/ cut
  /\ pc9 \in {"load", "loaded"} => ~started7 \/ ~On
  /\ pc9 \in {"loaded", "start"} => started7 \/ cut \/ irq7 = "boot" \/ WaitsForMenu
  /\ irq7 = "boot" /\ word0 = "BOOT" /\ pc9 # "start" => stale

SaveReq == [kind : {"read", "write"}, at : 0..SaveSize-1, from : 0..SaveSize-1,
            len : 1..SaveSize, id : Nat]
DmaReq  == [kind : {"dma"}, len : Cells]

(* The access has been made.                                                *)
Made ==
  LET cell(i) == (req.at + i) % SaveSize
  IN  IF req.kind = "write" THEN \A i \in 0..req.len-1 : savFile[cell(i)] = req.id
      ELSE got = [i \in 1..req.len |-> savFile[cell(i - 1)]]

(* Word 3 has been emptied by the restart: the save's thread will not see it.  *)
Abandoned ==
  ~On \/ (pc9 = "start" /\ ~started7 /\ (irq7 = "boot" \/ WaitsForMenu))

Excused == spoiled \/ cut \/ Overruns(req)

(* One request at a time: the thread's is a save, the chain's a DMA read.     *)
Requests ==
  /\ requests \in Nat
  /\ req \in {None} \cup SaveReq \cup DmaReq
  /\ savFile \in [0..2*SaveSize-1 -> Nat]
  /\ thread \in {"idle", "send", "wait"}
  /\ thread # "idle" => req \in SaveReq
  /\ 3 \in {ipc9, ipc7} => pc9 = "DSIW" \/ (req \in DmaReq /\ dmaReadOnArm9)
  /\ pc9 = "DSIW" \/ ipc9 # 3 \/ ipc7 # 3
  /\ Reloading => 3 \notin {ipc9, ipc7}
  /\ thread # "idle" /\ word3 = "none" => Excused \/ Abandoned \/ Made

(* The cells up to the last part of a DMA read have arrived in m.             *)
Arrived(m) == \A c \in Cells : m[c] = IF c <= pos.dst + currentLen THEN c ELSE 0

(* A DMA read that goes on: where it is, and where what has arrived is.        *)
Chain ==
  pc9 # "DSIW" /\ 3 \in {ipc9, ipc7} =>
    /\ pos.src = pos.dst /\ pos.len > 0 /\ pos.dst + pos.len = req.len
    /\ currentLen = PartLen(pos.len)
    /\ ~exception =>
         /\ pc9 \in {"game", "backup", "fetch", "out"} => Arrived(ram)
         /\ pc9 \in {"fetch", "enter", "loop", "pick", "asked", "exiting", "store", "restore"} =>
              Arrived(page[1])

Inv == Memory /\ Restart /\ Requests /\ Chain /\ GameRestored /\ StartTogether

-----------------------------------------------------------------------------
(* Every step is one of these, and none is made once the console is down.     *)

Step9 == \/ OpenMenu \/ Exception \/ Backup \/ Fetch \/ Enter \/ Loop \/ Store \/ Restore
         \/ Out \/ (\E c \in Commands : Pick(c)) \/ Asked \/ Exiting
         \/ GameReset \/ Reset \/ ResetDSiWare \/ Load \/ Loaded \/ Start

StepCard == Eeprom \/ CardSetDma \/ CardSave \/ ContinueDma \/ SwapScreens

Step7 == Thread7 \/ Fifo \/ VBlankMenu \/ VBlank \/ Handler7

LEMMA Cases == Next <=> Step9 \/ StepCard \/ Step7
BY DEF Next, Requests9, User, Handler9, Step9, StepCard, Step7

LEMMA StepsOn == Next => On
<1>1. Step9 => On
  BY DEF Step9, OpenMenu, Take, Exception, Backup, Fetch, Enter, Loop, Store, Restore, Out, Pick,
         Asked, Exiting, GameReset, Reset, ResetDSiWare, Load, Loaded, Start
<1>2. StepCard => On
  BY DEF StepCard, Eeprom, CardSetDma, Idle, CardSave, ContinueDma, SwapScreens, Take
<1>3. Step7 => On
  BY DEF Step7, Thread7, SendSave, WaitForArm9, Fifo, VBlankMenu, VBlank, Handler7, VBlankEnd,
         Ready, RebootConsole, Keys, Switch, Test, Rewrite, Exit, Clear, Boot, RebootDSiWare
<1> QED
  BY <1>1, <1>2, <1>3, Cases

-----------------------------------------------------------------------------
(* The game's memory.                                                       *)

LEMMA MenuIsNotGame == Menu \notin GameMem
<1>1. 1 \in Cells
  BY FlashAssumption DEF Cells
<1>2. Menu[1] = -1
  BY <1>1 DEF Menu
<1> QED
  BY <1>1, <1>2 DEF GameMem

LEMMA GameInMem == Game \in GameMem
BY DEF Game, GameMem

LEMMA PartInMem ==
  ASSUME NEW m \in GameMem, NEW p \in [src : Nat, dst : Nat, len : Int], NEW n \in Nat
  PROVE  Part(m, p, n) \in GameMem
<1>1. ASSUME NEW c \in Cells
      PROVE  (IF c - p.dst \in 1..n THEN p.src + c - p.dst ELSE m[c]) \in Nat
  BY <1>1 DEF Cells, GameMem
<1> QED
  BY <1>1 DEF Part, GameMem

LEMMA MovedInPos ==
  ASSUME pos \in [src : Nat, dst : Nat, len : Int], currentLen \in Nat
  PROVE  Moved \in [src : Nat, dst : Nat, len : Int]
<1>1. /\ pos.src + currentLen \in Nat /\ pos.dst + currentLen \in Nat
      /\ pos.len - currentLen \in Int
  OBVIOUS
<1> QED
  BY <1>1 DEF Moved

LEMMA PartLenIn ==
  ASSUME NEW len \in Nat \ {0}
  PROVE  PartLen(len) \in 1..len
BY FlashAssumption DEF PartLen

LEMMA MemoryInit == Init => Memory
<1> SUFFICES ASSUME Init PROVE Memory
  OBVIOUS
<1>1. ram \in GameMem /\ page = [i \in {0, 1} |-> IF i = 0 THEN Menu ELSE Game] /\ Game \in GameMem
  BY GameInMem DEF Init
<1>2. page \in [{0, 1} -> {Menu} \cup GameMem] /\ page[0] = Menu
  BY <1>1
<1>3. pos \in [src : Nat, dst : Nat, len : Int] /\ currentLen \in Nat
  BY DEF Init
<1> QED
  BY <1>1, <1>2, <1>3 DEF Init, Memory, MemoryTypes, Places9

LEMMA MemoryKept ==
  ASSUME Memory, UNCHANGED <<pc9, opening, opened, crash, ram, page, pos, currentLen>>
  PROVE  Memory'
BY DEF Memory, MemoryTypes, Places9, crash

(* While the game runs only its memory changes, and it stays the game's.       *)
LEMMA MemoryOfGame ==
  ASSUME Memory, pc9 = "game", UNCHANGED <<pc9, opening, opened, crash, page>>,
         ram' \in GameMem, pos' \in [src : Nat, dst : Nat, len : Int], currentLen' \in Nat
  PROVE  Memory'
BY DEF Memory, MemoryTypes, Places9, crash

LEMMA MemoryStep ==
  ASSUME Memory, [Next]_vars
  PROVE  Memory'
<1> USE DEF Memory, MemoryTypes, Places9, Only9, Menu9
<1>1. CASE UNCHANGED vars
  BY <1>1, MemoryKept DEF vars, menu, memory, crash, card, dma
<1>2. CASE StepCard
  <2>1. CASE CardSetDma
    <3>1. req'.len \in Nat \ {0}
      <4>1. req' \in [kind : {"dma"}, len : Cells]
        BY <2>1 DEF CardSetDma
      <4> QED
        BY <4>1 DEF Cells
    <3>2. /\ pos' = [src |-> 0, dst |-> 0, len |-> req'.len] /\ currentLen' = PartLen(req'.len)
          /\ ram' = Part(Game, pos', currentLen')
          /\ pc9 = "game" /\ UNCHANGED <<pc9, menu, crash, page>>
      BY <2>1 DEF CardSetDma
    <3>3. pos' \in [src : Nat, dst : Nat, len : Int] /\ currentLen' \in Nat
      BY <3>1, <3>2, PartLenIn
    <3>4. ram' \in GameMem
      BY <3>2, <3>3, GameInMem, PartInMem
    <3> QED
      BY <3>2, <3>3, <3>4, MemoryOfGame DEF menu
  <2>2. CASE ContinueDma
    <3>1. pc9 = "game" /\ ram \in GameMem /\ UNCHANGED <<pc9, menu, crash, page>>
      BY <2>2 DEF ContinueDma, Take
    <3>2. CASE ~dmaReadOnArm9
      BY <2>2, <3>1, <3>2, MemoryKept DEF ContinueDma, menu, dma
    <3>3. CASE dmaReadOnArm9
      <4>1. Moved \in [src : Nat, dst : Nat, len : Int] /\ pos' = Moved
        BY <2>2, <3>3, MovedInPos DEF ContinueDma
      <4>2. CASE Moved.len > 0
        <5>1. currentLen' = PartLen(Moved.len) /\ ram' = Part(ram, Moved, currentLen')
          BY <2>2, <3>3, <4>2 DEF ContinueDma
        <5>2. currentLen' \in Nat
          <6>1. Moved.len \in Nat \ {0}
            BY <4>1, <4>2
          <6> QED
            BY <5>1, <6>1, PartLenIn
        <5>3. ram' \in GameMem
          BY <3>1, <4>1, <5>1, <5>2, PartInMem
        <5> QED
          BY <3>1, <4>1, <5>2, <5>3, MemoryOfGame DEF menu
      <4>3. CASE ~(Moved.len > 0)
        BY <2>2, <3>1, <3>3, <4>1, <4>3, MemoryOfGame DEF ContinueDma, menu
      <4> QED
        BY <4>2, <4>3
    <3> QED
      BY <3>2, <3>3
  <2>3. CASE Eeprom \/ CardSave \/ SwapScreens
    <3>1. UNCHANGED <<pc9, menu, crash, memory, dma>>
      BY <2>3 DEF Eeprom, CardSave, SwapScreens, card
    <3> QED
      BY <3>1, MemoryKept DEF menu, memory, dma
  <2> QED
    BY <1>2, <2>1, <2>2, <2>3 DEF StepCard
<1>3. CASE Step7
  <2>1. UNCHANGED <<pc9, menu, crash, memory, dma>>
    BY <1>3 DEF Step7, Thread7, SendSave, WaitForArm9, Fifo, VBlankMenu, VBlank, Handler7, VBlankEnd,
           Ready, RebootConsole, Keys, Switch, Test, Rewrite, Exit, Clear, Boot, RebootDSiWare, Only7, card
  <2> QED
    BY <2>1, MemoryKept DEF menu, memory, dma
<1> USE DEF crash, card, dma
<1>4. CASE OpenMenu
  BY <1>4 DEF OpenMenu, Opens, Take, memory
<1>5. CASE Exception
  BY <1>5 DEF Exception, Opens, Stops, memory
<1>6. CASE Backup
  BY <1>6 DEF Backup, menu
<1>7. CASE Fetch
  BY <1>7 DEF Fetch, menu
<1>8. CASE Enter
  BY <1>8 DEF Enter, memory
<1>9. CASE Loop
  <2>0. pc9 = "loop" /\ UNCHANGED <<opening, crash, ram, page, pos, currentLen>>
    BY <1>9 DEF Loop, memory
  <2>1. CASE word4 = "MENU"
    <3>1. pc9' = "pick" /\ opened' = TRUE
      BY <1>9, <2>1 DEF Loop
    <3> QED
      BY <2>0, <3>1
  <2>2. CASE word4 # "MENU"
    <3>1. pc9' = "store" /\ opened' = FALSE
      BY <1>9, <2>2 DEF Loop
    <3> QED
      BY <2>0, <3>1
  <2> QED
    BY <2>1, <2>2
<1>10. ASSUME NEW c \in Commands, Pick(c) PROVE Memory'
  BY <1>10 DEF Pick, memory
<1>11. CASE Asked
  BY <1>11 DEF Asked, menu, memory
<1>12. CASE Exiting
  BY <1>12 DEF Exiting, menu, memory
<1>13. CASE Store
  BY <1>13 DEF Store, menu
<1>14. CASE Restore
  BY <1>14 DEF Restore, menu
<1>15. CASE Out
  BY <1>15 DEF Out, memory
<1>16. CASE GameReset
  BY <1>16 DEF GameReset, menu, memory
<1>17. CASE Reset
  BY <1>17 DEF Reset, menu, memory
<1>18. CASE Load
  BY <1>18, GameInMem DEF Load, menu
<1>19. CASE Loaded
  BY <1>19 DEF Loaded, menu, memory
<1>20. CASE Start
  BY <1>20 DEF Start, menu, memory
<1>21. CASE ResetDSiWare
  BY <1>21 DEF ResetDSiWare, menu, memory
<1> QED
  BY <1>1, <1>2, <1>3, <1>4, <1>5, <1>6, <1>7, <1>8, <1>9, <1>10, <1>11, <1>12,
     <1>13, <1>14, <1>15, <1>16, <1>17, <1>18, <1>19, <1>20, <1>21, Cases DEF Step9

-----------------------------------------------------------------------------
(* The restart.                                                             *)

LEMMA RestartInit == Init => Restart
BY DEF Init, Restart, Reloading, On

LEMMA RestartStep ==
  ASSUME Restart, On, Next
  PROVE  Restart' /\ (StartTogether => StartTogether')
<1> USE DEF Restart, Reloading, WaitsForMenu, On, StartTogether,
            words, ipc, arm7, menu, crash, card, memory, hist, sync, bounds
<1>1. CASE Eeprom
  BY <1>1 DEF Eeprom, Idle
<1>2. CASE CardSetDma
  BY <1>2 DEF CardSetDma, Idle
<1>3. CASE CardSave
  BY <1>3 DEF CardSave, Take, SaveDone, Only9
<1>4. CASE ContinueDma
  BY <1>4 DEF ContinueDma, Take, Only9
<1>5. CASE SwapScreens
  BY <1>5 DEF SwapScreens, Take, Only9
<1>6. CASE SendSave
  BY <1>6 DEF SendSave, Send9, Only7
<1>7. CASE WaitForArm9
  BY <1>7 DEF WaitForArm9
<1>8. CASE Fifo
  BY <1>8 DEF Fifo, Send9, Only7
<1>9. CASE VBlankMenu
  BY <1>9 DEF VBlankMenu, Send9
<1>10. CASE VBlank
  BY <1>10 DEF VBlank, Only7
<1>11. CASE VBlankEnd
  BY <1>11 DEF VBlankEnd, ResetAsked, Send9, Only7
<1>12. CASE Ready
  BY <1>12 DEF Ready, Only7
<1>13. CASE RebootConsole
  BY <1>13 DEF RebootConsole
<1>14. CASE Keys
  BY <1>14 DEF Keys, Only7
<1>15. CASE Switch
  BY <1>15 DEF Switch, Only7
<1>16. CASE Test
  BY <1>16 DEF Test, Only7
<1>17. CASE Rewrite
  BY <1>17 DEF Rewrite
<1>18. CASE Exit
  BY <1>18 DEF Exit, Only7
<1>19. CASE Clear
  BY <1>19 DEF Clear, Only7
<1>20. CASE Boot
  BY <1>20 DEF Boot, BootSeen
<1>21. CASE OpenMenu
  BY <1>21 DEF OpenMenu, Take, Opens, Menu9, Only9
<1>22. CASE Exception
  BY <1>22 DEF Exception, Opens, Stops
<1>23. CASE Backup
  BY <1>23 DEF Backup, Menu9, Only9
<1>24. CASE Fetch
  BY <1>24 DEF Fetch, Menu9, Only9
<1>25. CASE Enter
  BY <1>25 DEF Enter, Menu9, Only9
<1>26. CASE Loop
  BY <1>26 DEF Loop, Menu9, Only9
<1>27. ASSUME NEW c \in Commands, Pick(c) PROVE Restart' /\ (StartTogether => StartTogether')
  BY <1>27 DEF Pick, Menu9, Only9
<1>28. CASE Asked
  BY <1>28 DEF Asked, Menu9, Only9
<1>29. CASE Exiting
  BY <1>29 DEF Exiting, Menu9, Only9
<1>30. CASE Store
  BY <1>30 DEF Store, Menu9, Only9
<1>31. CASE Restore
  BY <1>31 DEF Restore, Menu9, Only9
<1>32. CASE Out
  BY <1>32 DEF Out, Menu9, Only9
<1>33. CASE GameReset
  BY <1>33 DEF GameReset
<1>34. CASE Reset
  BY <1>34 DEF Reset
<1>35. CASE Load
  BY <1>35 DEF Load, Only9
<1>36. CASE Loaded
  BY <1>36 DEF Loaded, Word3, Only9
<1>37. CASE Start
  BY <1>37 DEF Start
<1>38. CASE ResetDSiWare
  BY <1>38 DEF ResetDSiWare, Only9
<1>39. CASE RebootDSiWare
  BY <1>39 DEF RebootDSiWare
<1> QED
  BY <1>1, <1>2, <1>3, <1>4, <1>5, <1>6, <1>7, <1>8, <1>9, <1>10, <1>11, <1>12,
     <1>13, <1>14, <1>15, <1>16, <1>17, <1>18, <1>19, <1>20, <1>21, <1>22, <1>23, <1>24,
     <1>25, <1>26, <1>27, <1>28, <1>29, <1>30, <1>31, <1>32, <1>33, <1>34, <1>35, <1>36,
     <1>37, <1>38, <1>39,
     Cases DEF Step9, StepCard, Step7, Thread7, Handler7

-----------------------------------------------------------------------------
(* The cells of an access.                                                  *)

LEMMA Wrap ==
  ASSUME NEW a \in Nat, a < 2 * SaveSize
  PROVE  /\ a % SaveSize = IF a < SaveSize THEN a ELSE a - SaveSize
         /\ a % SaveSize \in 0..SaveSize-1
<1>1. SaveSize \in Nat \ {0}
  BY FlashAssumption
<1>2. CASE a < SaveSize
  BY <1>1, <1>2
<1>3. CASE a >= SaveSize
  <2>1. a - SaveSize \in 0..SaveSize-1 /\ a = 1 * SaveSize + (a - SaveSize)
    BY <1>1, <1>3
  <2>2. a % SaveSize = a - SaveSize
    BY <1>1, <2>1
  <2> QED
    BY <1>1, <1>3, <2>1, <2>2
<1> QED
  BY <1>1, <1>2, <1>3

(* However an access is split, each of its cells is the chip's, unless the      *)
(* split is that of another address.                                        *)
LEMMA CellOfChip ==
  ASSUME NEW r \in SaveReq, NEW i \in 0..r.len-1, ~Overruns(r)
  PROVE  /\ SaveCell(r, i) = (r.at + i) % SaveSize
         /\ (r.at + i) % SaveSize \in 0..2*SaveSize-1
<1> DEFINE src  == IF r.kind = "read" THEN r.at ELSE r.from
           len2 == SaveSize - src
<1>1. /\ SaveSize \in Nat \ {0} /\ i \in Nat /\ i < r.len /\ r.len \in Nat /\ r.len <= SaveSize
      /\ r.at \in Nat /\ r.at < SaveSize /\ src \in Nat /\ src < SaveSize
  BY FlashAssumption DEF SaveReq
<1>2. src = r.at \/ r.at + r.len <= SaveSize
  BY <1>1 DEF Overruns, SaveReq
<1>3. /\ (r.at + i) % SaveSize = IF r.at + i < SaveSize THEN r.at + i ELSE r.at + i - SaveSize
      /\ (r.at + i) % SaveSize \in 0..SaveSize-1
  <2>1. r.at + i \in Nat /\ r.at + i < 2 * SaveSize
    BY <1>1
  <2> QED
    BY <1>1, <2>1, Wrap
<1>4. len2 \in Nat /\ r.at + len2 \in Nat /\ r.at + len2 < 2 * SaveSize
  BY <1>1
<1>5. (r.at + len2) % SaveSize = IF r.at + len2 < SaveSize THEN r.at + len2
                                 ELSE r.at + len2 - SaveSize
  BY <1>1, <1>4, Wrap
<1>6. SaveCell(r, i) = IF src + r.len > SaveSize /\ i >= len2
                       THEN ((r.at + len2) % SaveSize) + i - len2 ELSE r.at + i
  BY DEF SaveCell
<1> HIDE DEF src, len2
<1>7. len2 = SaveSize - src
  BY DEF len2
<1>8. SaveCell(r, i) = (r.at + i) % SaveSize
  <2>1. CASE src + r.len > SaveSize /\ i >= len2
    <3>1. SaveCell(r, i) = ((r.at + len2) % SaveSize) + i - len2
      BY <1>6, <2>1
    <3>2. CASE r.at + len2 < SaveSize
      <4>1. r.at + i < SaveSize
        BY <1>1, <1>2, <1>7, <3>2
      <4> QED
        BY <1>1, <1>3, <1>4, <1>5, <1>7, <3>1, <3>2, <4>1
    <3>3. CASE r.at + len2 >= SaveSize
      <4>1. r.at + i >= SaveSize
        BY <1>1, <1>7, <2>1, <3>3
      <4> QED
        BY <1>1, <1>3, <1>4, <1>5, <1>7, <3>1, <3>3, <4>1
    <3> QED
      BY <1>1, <1>4, <3>2, <3>3
  <2>2. CASE ~(src + r.len > SaveSize /\ i >= len2)
    <3>1. SaveCell(r, i) = r.at + i
      BY <1>6, <2>2
    <3>2. r.at + i < SaveSize
      BY <1>1, <1>2, <1>7, <2>2
    <3> QED
      BY <1>3, <3>1, <3>2
  <2> QED
    BY <2>1, <2>2
<1> QED
  BY <1>1, <1>3, <1>8

-----------------------------------------------------------------------------
(* The request.                                                             *)

LEMMA Kinds ==
  ASSUME NEW r \in {None} \cup SaveReq \cup DmaReq
  PROVE  /\ r = None <=> r.kind = "none"
         /\ r \in SaveReq <=> r.kind \in {"read", "write"}
         /\ r \in DmaReq <=> r.kind = "dma"
BY DEF None, SaveReq, DmaReq

LEMMA RequestsInit == Init => Requests
<1> SUFFICES ASSUME Init PROVE Requests
  OBVIOUS
<1>1. req = None /\ None \notin DmaReq
  BY DEF Init, None, DmaReq
<1>2. savFile \in [0..2*SaveSize-1 -> Nat]
  BY DEF Init
<1> QED
  BY <1>1, <1>2 DEF Init, Requests, Reloading

LEMMA MadeKept ==
  ASSUME UNCHANGED <<req, savFile, got>>
  PROVE  Made' <=> Made
BY DEF Made

LEMMA RequestsKept ==
  ASSUME Requests, UNCHANGED vars
  PROVE  Requests'
BY MadeKept
   DEF Requests, Excused, Abandoned, WaitsForMenu, Reloading, On,
       vars, words, ipc, arm7, card, dma, hist, sync, bounds

(* What cardSave does is what the chip would.                                 *)
LEMMA CardSaveMade ==
  ASSUME Requests, CardSave, word3 = "SAV", thread # "idle", ~Overruns(req)
  PROVE  Made'
<1>1. req \in SaveReq /\ req' = req
  BY DEF Requests, CardSave
<1> DEFINE cell(i) == (req.at + i) % SaveSize
<1>2. \A i \in 0..req.len-1 : SaveCell(req, i) = cell(i) /\ cell(i) \in 0..2*SaveSize-1
  BY <1>1, CellOfChip
<1>3. CASE req.kind = "write"
  <2>1. savFile' = [c \in DOMAIN savFile |->
                     IF \E i \in 0..req.len-1 : SaveCell(req, i) = c THEN req.id ELSE savFile[c]]
    BY <1>3 DEF CardSave
  <2>2. DOMAIN savFile = 0..2*SaveSize-1
    BY DEF Requests
  <2>3. \A i \in 0..req.len-1 : savFile'[cell(i)] = req.id
    BY <1>2, <2>1, <2>2
  <2> QED
    BY <1>1, <1>3, <2>3 DEF Made
<1>4. CASE req.kind # "write"
  <2>1. got' = [i \in 1..req.len |-> savFile[SaveCell(req, i - 1)]] /\ savFile' = savFile
    BY <1>4 DEF CardSave
  <2>2. \A i \in 1..req.len : i - 1 \in 0..req.len-1
    BY <1>1 DEF SaveReq
  <2>3. got' = [i \in 1..req.len |-> savFile[cell(i - 1)]]
    BY <1>2, <2>1, <2>2
  <2> QED
    BY <1>1, <1>4, <2>1, <2>3 DEF Made
<1> QED
  BY <1>3, <1>4

(* The steps that leave the card alone, then those that do not.               *)
LEMMA RequestsStep ==
  ASSUME Requests, Restart, On, Next
  PROVE  Requests'
<1> USE DEF Requests, Restart, Excused, Abandoned, Reloading, WaitsForMenu, On,
            words, ipc, arm7, menu, crash, card, dma, memory, hist, sync, bounds
<1>1. CASE SwapScreens
  BY <1>1, MadeKept DEF SwapScreens, Take, Only9
<1>2. CASE SendSave
  BY <1>2, MadeKept DEF SendSave, Send9, Only7
<1>3. CASE Fifo
  BY <1>3, MadeKept DEF Fifo, Send9, Only7
<1>4. CASE VBlankMenu
  BY <1>4, MadeKept DEF VBlankMenu, Send9
<1>5. CASE VBlank
  BY <1>5, MadeKept DEF VBlank, Only7
<1>6. CASE VBlankEnd
  BY <1>6, MadeKept DEF VBlankEnd, ResetAsked, Send9, Only7
<1>7. CASE Ready
  BY <1>7, MadeKept DEF Ready, Only7
<1>8. CASE RebootConsole
  BY <1>8, MadeKept DEF RebootConsole
<1>9. CASE Keys
  BY <1>9, MadeKept DEF Keys, Only7
<1>10. CASE Switch
  BY <1>10, MadeKept DEF Switch, Only7
<1>11. CASE Test
  BY <1>11, MadeKept DEF Test, Only7
<1>12. CASE Rewrite
  BY <1>12, MadeKept DEF Rewrite
<1>13. CASE Exit
  BY <1>13, MadeKept DEF Exit, Only7
<1>14. CASE Clear
  BY <1>14, MadeKept DEF Clear, Only7
<1>15. CASE OpenMenu
  BY <1>15, MadeKept DEF OpenMenu, Take, Opens, Menu9, Only9
<1>16. CASE Exception
  BY <1>16, MadeKept DEF Exception, Opens, Stops
<1>17. CASE Backup
  BY <1>17, MadeKept DEF Backup, Menu9, Only9
<1>18. CASE Fetch
  BY <1>18, MadeKept DEF Fetch, Menu9, Only9
<1>19. CASE Enter
  BY <1>19, MadeKept DEF Enter, Menu9, Only9
<1>20. CASE Loop
  BY <1>20, MadeKept DEF Loop, Menu9, Only9
<1>21. ASSUME NEW c \in Commands, Pick(c) PROVE Requests'
  BY <1>21, MadeKept DEF Pick, Menu9, Only9
<1>22. CASE Asked
  BY <1>22, MadeKept DEF Asked, Menu9, Only9
<1>23. CASE Exiting
  BY <1>23, MadeKept DEF Exiting, Menu9, Only9
<1>24. CASE Store
  BY <1>24, MadeKept DEF Store, Menu9, Only9
<1>25. CASE Restore
  BY <1>25, MadeKept DEF Restore, Menu9, Only9
<1>26. CASE Out
  BY <1>26, MadeKept DEF Out, Menu9, Only9
<1>27. CASE GameReset
  BY <1>27, MadeKept DEF GameReset
<1>28. CASE Reset
  BY <1>28, MadeKept DEF Reset
<1>29. CASE Load
  BY <1>29, MadeKept DEF Load, Only9
<1>30. CASE Loaded
  BY <1>30, MadeKept DEF Loaded, Word3, Only9
<1>31. CASE Start
  BY <1>31, MadeKept DEF Start
<1>32. CASE Boot
  BY <1>32, Kinds DEF Boot, BootSeen
<1>33. CASE WaitForArm9
  BY <1>33, Kinds DEF WaitForArm9
<1>34. CASE Eeprom
  <2>1. req' \in SaveReq
    BY <1>34 DEF Eeprom, Saves, SaveReq, Idle
  <2>2. pc9 = "DSIW" \/ 3 \notin {ipc9, ipc7}
    BY <1>34, Kinds DEF Eeprom, Idle
  <2>3. req' \notin DmaReq
    BY <2>1, Kinds
  <2> QED
    BY <1>34, <2>1, <2>2, <2>3 DEF Eeprom, Idle
<1>35. CASE CardSetDma
  <2>1. req' \in DmaReq
    BY <1>35 DEF CardSetDma, DmaReq
  <2>2. thread = "idle" /\ 3 \notin {ipc9, ipc7}
    BY <1>35, Kinds DEF CardSetDma, Idle
  <2> QED
    BY <1>35, <2>1, <2>2 DEF CardSetDma, Idle
<1>36. CASE ContinueDma
  <2>1. /\ UNCHANGED <<requests, savFile, got, thread, word3, pc9, down, started7, irq7, word5>>
        /\ UNCHANGED <<spoiled, cut, word0>> /\ pc9 = "game" /\ ipc9' = 0 /\ ipc9 = 3
    BY <1>36 DEF ContinueDma, Take, Only9
  <2>2. CASE ~dmaReadOnArm9
    BY <1>36, <2>1, <2>2, MadeKept DEF ContinueDma
  <2>3. CASE dmaReadOnArm9
    <3>1. req \in DmaReq /\ thread = "idle"
      BY <2>1, <2>3, Kinds
    <3>2. ipc7 # 3
      BY <2>1
    <3>3. CASE Moved.len > 0
      <4>1. ipc7' = 3 /\ dmaReadOnArm9' = dmaReadOnArm9 /\ req' = req
        BY <1>36, <2>3, <3>3 DEF ContinueDma
      <4> QED
        BY <2>1, <2>3, <3>1, <4>1
    <3>4. CASE ~(Moved.len > 0)
      <4>1. ipc7' = ipc7 /\ req' = None
        BY <1>36, <2>3, <3>4 DEF ContinueDma
      <4> QED
        BY <2>1, <3>1, <3>2, <4>1
    <3> QED
      BY <3>3, <3>4
  <2> QED
    BY <2>2, <2>3
<1>37. CASE CardSave
  <2>1. /\ UNCHANGED <<requests, req, thread, pc9, down, started7, irq7, word5, word0>>
        /\ UNCHANGED <<spoiled, cut, currentLen, dmaReadOnArm9, ipc7>>
        /\ pc9 = "game" /\ ipc9' = 0 /\ ipc9 = 4
    BY <1>37 DEF CardSave, Take, Only9
  <2>2. CASE word3 # "SAV"
    <3>1. UNCHANGED <<savFile, got, word3>>
      BY <1>37, <2>2 DEF CardSave
    <3> QED
      BY <2>1, <3>1, MadeKept
  <2>3. CASE word3 = "SAV"
    <3>1. savFile' \in [0..2*SaveSize-1 -> Nat]
      BY <1>37, <2>3, Kinds DEF CardSave, SaveReq
    <3>2. thread = "idle" \/ Overruns(req) \/ Made'
      BY <1>37, <2>1, <2>3, CardSaveMade
    <3> QED
      BY <2>1, <3>1, <3>2
  <2> QED
    BY <2>2, <2>3
<1>38. CASE ResetDSiWare
  BY <1>38, MadeKept DEF ResetDSiWare, Only9
<1>39. CASE RebootDSiWare
  BY <1>39, MadeKept DEF RebootDSiWare
<1> QED
  BY <1>1, <1>2, <1>3, <1>4, <1>5, <1>6, <1>7, <1>8, <1>9, <1>10, <1>11, <1>12,
     <1>13, <1>14, <1>15, <1>16, <1>17, <1>18, <1>19, <1>20, <1>21, <1>22, <1>23, <1>24,
     <1>25, <1>26, <1>27, <1>28, <1>29, <1>30, <1>31, <1>32, <1>33, <1>34, <1>35, <1>36,
     <1>37, <1>38, <1>39,
     Cases DEF Step9, StepCard, Step7, Thread7, Handler7

-----------------------------------------------------------------------------
(* The chain of a DMA read.                                                  *)

LEMMA ChainInit == Init => Chain
BY DEF Init, Chain

LEMMA ChainKept ==
  ASSUME Chain, 3 \in {ipc9', ipc7'} => 3 \in {ipc9, ipc7},
         UNCHANGED <<req, pos, currentLen, ram, page, pc9, exception>>
  PROVE  Chain'
BY DEF Chain, Arrived

(* Without a message 3 there is nothing to show, nor before a reboot.          *)
LEMMA ChainGone ==
  ASSUME pc9' = "DSIW" \/ 3 \notin {ipc9', ipc7'}
  PROVE  Chain'
BY DEF Chain

(* One more part arrives behind the others.                                  *)
LEMMA PartArrives ==
  ASSUME NEW m, NEW d \in Nat, NEW n \in Nat,
         NEW p, p.src = d, p.dst = d,
         \A c \in Cells : m[c] = IF c <= d THEN c ELSE 0
  PROVE  \A c \in Cells : Part(m, p, n)[c] = IF c <= d + n THEN c ELSE 0
<1> SUFFICES ASSUME NEW c \in Cells
             PROVE  Part(m, p, n)[c] = IF c <= d + n THEN c ELSE 0
  OBVIOUS
<1>1. Part(m, p, n)[c] = IF c - d \in 1..n THEN d + c - d ELSE m[c]
  BY DEF Part
<1>2. c \in Nat /\ m[c] = IF c <= d THEN c ELSE 0
  BY DEF Cells
<1> QED
  BY <1>1, <1>2

LEMMA ChainStarts ==
  ASSUME Memory, CardSetDma
  PROVE  Chain'
<1>1. req' \in [kind : {"dma"}, len : Cells] /\ pc9' = "game"
  BY DEF CardSetDma
<1>2. req'.len \in Nat \ {0}
  BY <1>1 DEF Cells
<1>3. /\ pos' = [src |-> 0, dst |-> 0, len |-> req'.len] /\ currentLen' = PartLen(req'.len)
      /\ ram' = Part(Game, pos', currentLen')
  BY DEF CardSetDma
<1>4. currentLen' \in Nat
  BY <1>2, <1>3, PartLenIn
<1>5. \A c \in Cells : Game[c] = IF c <= 0 THEN c ELSE 0
  BY DEF Game, Cells
<1>6. Arrived(ram)'
  <2>1. pos'.src = 0 /\ pos'.dst = 0
    BY <1>3
  <2>2. \A c \in Cells : ram'[c] = IF c <= 0 + currentLen' THEN c ELSE 0
    BY <1>3, <1>4, <1>5, <2>1, PartArrives
  <2> QED
    BY <2>1, <2>2 DEF Arrived
<1> QED
  BY <1>1, <1>2, <1>3, <1>6 DEF Chain

LEMMA ChainContinues ==
  ASSUME Memory, Requests, Chain, ContinueDma
  PROVE  Chain'
<1>1. pc9 = "game" /\ pc9' = "game" /\ ~exception /\ ipc9 = 3 /\ ipc9' = 0 /\ ipc7 # 3
  BY DEF ContinueDma, Take, Requests
<1>2. CASE ~(Moved.len > 0)
  <2>1. ipc7' = ipc7
    BY <1>1, <1>2 DEF ContinueDma, Requests
  <2> QED
    BY <1>1, <2>1, ChainGone
<1>3. CASE Moved.len > 0
  <2>1. /\ pos \in [src : Nat, dst : Nat, len : Int] /\ currentLen \in Nat
        /\ pos.src = pos.dst /\ pos.dst + pos.len = req.len /\ Arrived(ram)
    BY <1>1 DEF Chain, Memory, MemoryTypes
  <2>2. /\ req' = req /\ pos' = Moved /\ currentLen' = PartLen(Moved.len)
        /\ ram' = Part(ram, Moved, currentLen')
    BY <1>1, <1>3 DEF ContinueDma, Requests
  <2>3. /\ Moved.src = pos.dst + currentLen /\ Moved.dst = pos.dst + currentLen
        /\ Moved.len = pos.len - currentLen /\ Moved.len \in Nat \ {0}
        /\ pos.dst + currentLen \in Nat
    BY <1>3, <2>1 DEF Moved
  <2>4. currentLen' \in Nat
    BY <2>2, <2>3, PartLenIn
  <2>5. Arrived(ram)'
    <3> DEFINE d == pos.dst + currentLen
    <3>0. \A c \in Cells : ram[c] = IF c <= d THEN c ELSE 0
      BY <2>1 DEF Arrived
    <3>1. \A c \in Cells : Part(ram, Moved, currentLen')[c] = IF c <= d + currentLen' THEN c ELSE 0
      <4>1. d \in Nat /\ Moved.src = d /\ Moved.dst = d
        BY <2>3
      <4> HIDE DEF d
      <4> QED
        BY <2>4, <3>0, <4>1, PartArrives
    <3> QED
      BY <2>2, <2>3, <3>1 DEF Arrived
  <2>6. pos'.dst + pos'.len = req'.len
    BY <2>1, <2>2, <2>3
  <2> QED
    BY <1>1, <2>2, <2>3, <2>5, <2>6 DEF Chain
<1> QED
  BY <1>2, <1>3

(* What has arrived goes with the game's memory to the page file and back.     *)
LEMMA ChainStep ==
  ASSUME Memory, Restart, Requests, Chain, Next
  PROVE  Chain'
<1> USE DEF ipc, card, dma, memory, crash, Menu9
<1>1. CASE CardSetDma
  BY <1>1, ChainStarts
<1>2. CASE ContinueDma
  BY <1>2, ChainContinues
<1>3. CASE Eeprom \/ WaitForArm9
  <2>1. /\ pc9 = "DSIW" \/ 3 \notin {ipc9, ipc7}
        /\ UNCHANGED <<pc9, ipc9, ipc7>>
    BY <1>3, Kinds DEF Eeprom, Idle, WaitForArm9, Requests
  <2> QED
    BY <2>1, ChainGone
<1>4. CASE CardSave \/ SwapScreens
  BY <1>4, ChainKept DEF CardSave, SwapScreens, Take
<1>5. CASE SendSave \/ Fifo \/ VBlankMenu
  BY <1>5, ChainKept DEF SendSave, Fifo, VBlankMenu, Send9, Only7
<1>6. CASE VBlank \/ VBlankEnd \/ Ready \/ RebootConsole \/ Keys \/ Switch \/ Test
           \/ Rewrite \/ Exit \/ Clear
  <2>1. /\ ipc7' = ipc7 /\ ipc9' \in {ipc9, 6}
        /\ UNCHANGED <<req, pos, currentLen, ram, page, pc9, exception>>
    BY <1>6
       DEF VBlank, VBlankEnd, Send9, Ready, RebootConsole, Keys, Switch, Test, Rewrite, Exit, Clear,
           Only7
  <2> QED
    BY <2>1, ChainKept
<1>7. CASE Boot
  <2>1. /\ pc9 = "DSIW" \/ 3 \notin {ipc9, ipc7}
        /\ UNCHANGED <<pc9, ipc9, ipc7>>
    BY <1>7 DEF Boot, Requests, Restart
  <2> QED
    BY <2>1, ChainGone
<1>8. CASE OpenMenu
  BY <1>8 DEF OpenMenu, Take, Opens, Memory, Chain, Arrived, Only9
<1>9. CASE Exception
  BY <1>9 DEF Exception, Chain, Arrived
<1>10. CASE Backup
  <2>1. page' = [page EXCEPT ![1] = ram] /\ pc9 = "backup" /\ pc9' = "fetch" /\ 1 \in DOMAIN page
    BY <1>10 DEF Backup, Memory, MemoryTypes
  <2>2. page'[1] = ram /\ UNCHANGED <<ipc9, ipc7, req, pos, currentLen, ram, exception>>
    BY <1>10, <2>1 DEF Backup
  <2> QED
    BY <2>1, <2>2 DEF Chain, Arrived
<1>11. CASE Fetch
  <2>1. pc9 = "fetch" /\ pc9' = "enter" /\ UNCHANGED <<ipc9, ipc7, req, pos, currentLen, page, exception>>
    BY <1>11 DEF Fetch
  <2> QED
    BY <2>1 DEF Chain, Arrived
<1>12. CASE Enter \/ Loop \/ Asked \/ Exiting \/ (\E c \in Commands : Pick(c))
  <2>1. /\ pc9 \in {"enter", "loop", "pick", "asked", "exiting"}
        /\ pc9' \in {"loop", "pick", "asked", "exiting", "store"}
        /\ UNCHANGED <<ipc9, ipc7, req, pos, currentLen, page, exception>>
    BY <1>12 DEF Enter, Loop, Asked, Exiting, Pick, menu
  <2> QED
    BY <2>1 DEF Chain, Arrived
<1>13. CASE Store
  <2>1. page' = [page EXCEPT ![0] = ram] /\ pc9 = "store" /\ pc9' = "restore" /\ 1 \in DOMAIN page
    BY <1>13 DEF Store, Memory, MemoryTypes
  <2>2. page'[1] = page[1] /\ UNCHANGED <<ipc9, ipc7, req, pos, currentLen, exception>>
    BY <1>13, <2>1 DEF Store
  <2> QED
    BY <2>1, <2>2 DEF Chain, Arrived
<1>14. CASE Restore
  <2>1. /\ ram' = page[1] /\ pc9 = "restore" /\ pc9' = "out"
        /\ UNCHANGED <<ipc9, ipc7, req, pos, currentLen, exception>>
    BY <1>14 DEF Restore
  <2> QED
    BY <2>1 DEF Chain, Arrived
<1>15. CASE Out
  <2>1. /\ pc9 = "out" /\ pc9' \in {"reset", "backup", "game"}
        /\ UNCHANGED <<ipc9, ipc7, req, pos, currentLen, ram, exception>>
    BY <1>15 DEF Out
  <2> QED
    BY <2>1 DEF Chain, Arrived
<1>16. CASE GameReset
  <2>1. pc9 = "game" /\ pc9' = "reset" /\ UNCHANGED <<ipc9, ipc7, req, pos, currentLen>>
    BY <1>16 DEF GameReset
  <2> QED
    BY <2>1 DEF Chain
<1>17. CASE Reset
  BY <1>17, ChainGone DEF Reset
<1>18. CASE Load \/ Loaded \/ Start
  <2>1. 3 \notin {ipc9, ipc7} /\ ipc9' = ipc9 /\ ipc7' = ipc7
    BY <1>18 DEF Load, Loaded, Start, Requests, Reloading
  <2> QED
    BY <2>1, ChainGone
<1>19. CASE ResetDSiWare
  BY <1>19, ChainGone DEF ResetDSiWare
<1>20. CASE RebootDSiWare
  <2>1. pc9 = "DSIW" /\ pc9' = pc9
    BY <1>20 DEF RebootDSiWare
  <2> QED
    BY <2>1, ChainGone
<1> QED
  BY <1>1, <1>2, <1>3, <1>4, <1>5, <1>6, <1>7, <1>8, <1>9, <1>10, <1>11, <1>12,
     <1>13, <1>14, <1>15, <1>16, <1>17, <1>18, <1>19, <1>20,
     Cases DEF Step9, StepCard, Step7, Thread7, Handler7

-----------------------------------------------------------------------------
(* The theorems.                                                            *)

LEMMA MemoryRestored == Memory => GameRestored
BY MenuIsNotGame DEF Memory, MemoryTypes, GameRestored

LEMMA InvInit == Init => Inv
<1>1. Init => GameRestored /\ StartTogether
  BY MemoryInit, MemoryRestored DEF Init, StartTogether
<1> QED
  BY <1>1, MemoryInit, RestartInit, RequestsInit, ChainInit DEF Inv

LEMMA InvStep ==
  ASSUME Inv, [Next]_vars
  PROVE  Inv'
<1>1. Memory'
  BY MemoryStep DEF Inv
<1>2. GameRestored'
  BY <1>1, MemoryRestored, PTL
<1>3. Restart' /\ StartTogether' /\ Requests' /\ Chain'
  <2>1. CASE Next
    BY <2>1, StepsOn, RestartStep, RequestsStep, ChainStep DEF Inv
  <2>2. CASE UNCHANGED vars
    <3>1. Restart' /\ StartTogether'
      BY <2>2 DEF Inv, Restart, StartTogether, Reloading, WaitsForMenu, On, vars, words, ipc, arm7,
                  hist, sync
    <3>2. Chain'
      BY <2>2, ChainKept DEF Inv, vars, ipc, card, dma, memory, crash
    <3> QED
      BY <2>2, <3>1, <3>2, RequestsKept DEF Inv
  <2> QED
    BY <2>1, <2>2
<1> QED
  BY <1>1, <1>2, <1>3 DEF Inv

(* Inv holds in every state of the engines, whatever the sizes.               *)
THEOREM FlashInvariant == Spec => []Inv
<1>1. Init => Inv
  BY InvInit
<1>2. Inv /\ [Next]_vars => Inv'
  BY InvStep
<1> QED
  BY <1>1, <1>2, PTL DEF Spec

(* A game that runs, or is dumped, has its own memory, and the page file the    *)
(* menu (writeIgm and readIgm of the ARM9), also after exceptions in the menu   *)
(* and in its opening (cardengine.c:513).                                    *)
THEOREM FlashGameRestored == Spec => []GameRestored
<1>1. Inv => GameRestored
  BY DEF Inv
<1> QED
  BY <1>1, FlashInvariant, PTL

(* reset of the two processors: they start the same game, except as stated.    *)
THEOREM FlashStartTogether == Spec => []StartTogether
<1>1. Inv => StartTogether
  BY DEF Inv
<1> QED
  BY <1>1, FlashInvariant, PTL

(* A step as SaveMade wants it.                                              *)
SaveStep ==
  LET cell(i) == (req.at + i) % SaveSize
  IN  /\ WaitForArm9 /\ ~spoiled /\ ~cut /\ ~Overruns(req) =>
            IF req.kind = "write" THEN \A i \in 0..req.len-1 : savFile[cell(i)] = req.id
            ELSE got = [i \in 1..req.len |-> savFile[cell(i - 1)]]
      /\ savFile' # savFile /\ ~spoiled /\ ~cut /\ ~Overruns(req) =>
            \A c \in DOMAIN savFile :
               savFile'[c] # savFile[c] => \E i \in 0..req.len-1 : c = cell(i)

LEMMA OnlyCardSaveWrites ==
  ASSUME Next, ~CardSave
  PROVE  savFile' = savFile
<1> USE DEF card
<1>1. Step9 => savFile' = savFile
  BY DEF Step9, OpenMenu, Exception, Backup, Fetch, Enter, Loop, Store, Restore, Out, Pick, Asked,
         Exiting, GameReset, Reset, ResetDSiWare, Load, Loaded, Start, Menu9, Only9
<1>2. StepCard => savFile' = savFile
  BY DEF StepCard, Eeprom, CardSetDma, ContinueDma, SwapScreens
<1>3. Step7 => savFile' = savFile
  BY DEF Step7, Thread7, SendSave, WaitForArm9, Fifo, VBlankMenu, VBlank, Handler7, VBlankEnd,
         Ready, RebootConsole, Keys, Switch, Test, Rewrite, Exit, Clear, Boot, RebootDSiWare, Only7
<1> QED
  BY <1>1, <1>2, <1>3, Cases

LEMMA SaveStepMade ==
  ASSUME Inv, Next
  PROVE  SaveStep
<1> DEFINE cell(i) == (req.at + i) % SaveSize
<1>1. WaitForArm9 /\ ~spoiled /\ ~cut /\ ~Overruns(req) => Made
  BY DEF WaitForArm9, Inv, Requests, Excused, Abandoned, On, WaitsForMenu
<1>2. ASSUME savFile' # savFile, ~Overruns(req), NEW c \in DOMAIN savFile, savFile'[c] # savFile[c]
      PROVE  \E i \in 0..req.len-1 : c = cell(i)
  <2>1. CardSave
    BY <1>2, OnlyCardSaveWrites
  <2>2. req.kind = "write" /\ req \in SaveReq
    BY <1>2, <2>1, Kinds DEF CardSave, Inv, Requests
  <2>3. savFile' = [d \in DOMAIN savFile |->
                     IF \E i \in 0..req.len-1 : SaveCell(req, i) = d THEN req.id ELSE savFile[d]]
    BY <1>2, <2>1, <2>2 DEF CardSave
  <2>4. PICK i \in 0..req.len-1 : SaveCell(req, i) = c
    BY <1>2, <2>3
  <2>5. SaveCell(req, i) = cell(i)
    BY <1>2, <2>2, CellOfChip
  <2> QED
    BY <2>4, <2>5
<1> QED
  BY <1>1, <1>2 DEF SaveStep, Made

(* eepromRead and eepromPageWrite return true when the access has been made as *)
(* the chip would, its wrap included, and cardSave touches no other cell.     *)
THEOREM FlashSaveMade == Spec => SaveMade
<1>1. Inv /\ [Next]_vars => [SaveStep]_vars
  BY SaveStepMade
<1> QED
  BY <1>1, FlashInvariant, PTL DEF Spec, SaveMade, SaveStep

(* continueCardReadDmaArm9 calls the game back with the whole of what it has    *)
(* asked for in its place, the parts that were there when the menu came         *)
(* included, and with nothing behind it.                                     *)
THEOREM FlashDmaDelivered == Spec => DmaDelivered
<1>1. ASSUME Inv, ContinueDma, req.kind = "dma", req' = None
      PROVE  \A c \in Cells : ram[c] = IF c <= req.len THEN c ELSE 0
  <2>1. req \in DmaReq /\ req' # req
    BY <1>1, Kinds DEF Inv, Requests, None
  <2>2. pc9 = "game" /\ ~exception /\ ipc9 = 3
    BY <1>1 DEF ContinueDma, Take
  <2>3. /\ pos \in [src : Nat, dst : Nat, len : Int] /\ currentLen = PartLen(pos.len)
        /\ pos.len > 0 /\ pos.dst + pos.len = req.len /\ Arrived(ram)
    BY <1>1, <2>2 DEF Inv, Chain, Memory, MemoryTypes
  <2>4. ~(Moved.len > 0)
    BY <1>1, <2>1 DEF ContinueDma
  <2>5. pos.len = currentLen
    <3>1. Moved.len = pos.len - currentLen
      BY <2>3 DEF Moved
    <3>2. currentLen \in 1..pos.len
      BY <2>3, PartLenIn
    <3> QED
      BY <2>3, <2>4, <3>1, <3>2
  <2> QED
    BY <2>3, <2>5 DEF Arrived
<1>2. Inv /\ [Next]_vars =>
        [ContinueDma /\ req.kind = "dma" /\ req' = None =>
           \A c \in Cells : ram[c] = IF c <= req.len THEN c ELSE 0]_vars
  BY <1>1
<1> QED
  BY <1>2, FlashInvariant, PTL DEF Spec, DmaDelivered
================================================================================
