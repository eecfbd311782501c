# nds-bootstrap: specifications and proofs

nds-bootstrap runs Nintendo DS games from an SD card on a DSi or 3DS, or from a
flashcard. Before a game starts, boot loaders patch it and leave a *card engine*
on each of its two processors: `cardenginei` in DSi mode ("ce9" and "ce7"),
`cardengine` on flashcards ("B4DS"). From then on the card engines are the
game's cartridge: they serve ROM reads, saves, the in-game menu and the restart
of the game, over words of shared memory, the `IPC_SYNC` register and one FAT
driver. A second program in the repository, `hb`, does the like for homebrew: a
DLDI driver on the ARM9 and an SD engine injected into the ARM7.

This directory has TLA+ modules of those parts, TLC runs over small instances,
and theorems that TLAPS proves for every value of the constants. Where a module
and this text disagree, the module counts. Source paths without `src/` are below
`src/retail/cardenginei`, or, if they start with `common`, `cardengine/`,
`bootloader` or `bootloaderi`, below `src/retail`. `PROJECT.json` gives the lines
each definition models.

| module | kind | about |
|---|---|---|
| `RomService` | abstract | what the card engine promises a game that reads its ROM |
| `CardRead` | detailed | the ROM cache, the command words, the chain of interrupts, both DMA engines |
| `CardReadInv` | invariant | the inductive invariant of `CardRead` |
| `CardReadProofs` | proofs | nine theorems about `CardRead`, its refinement among them |
| `ByteFile` | abstract | files as arrays of bytes |
| `FatFile` | detailed | the FAT driver: clusters, tables, the sector buffer, polled reads |
| `FatFileProofs` | proofs | five theorems about `FatFile`, its refinement among them |
| `BackupChip` | abstract | the save memory a game expects |
| `SaveGuard` | detailed | saves on the ARM7 under its mutex, the vertical blank and the power button |
| `SaveGuardProofs` | proofs | five theorems about `SaveGuard`, its refinement among them |
| `SaveArchive` | abstract | the save archive a DSi-enhanced game expects |
| `DsiSave` | detailed | that archive kept inside the save file, with the power cut between two writes |
| `DsiSaveProofs` | proofs | three theorems about `DsiSave`, its refinement among them |
| `InGameMenu` | detailed | the menu's swap and handshake, its commands, the restart of the game |
| `InGameMenuProofs` | proofs | theorems about `InGameMenu` |
| `FlashEngine` | detailed | B4DS: saves asked of the ARM9, DMA reads, menu, exceptions, restart |
| `FlashEngineProofs` | proofs | five theorems about `FlashEngine` |
| `BlockDevice` | abstract | the card as homebrew expects it |
| `DldiDriver` | detailed | the homebrew's DLDI driver, its block cache, and the SD engine |
| `DldiDriverProofs` | proofs | six theorems about `DldiDriver`, its refinement among them |
| `BootLoader` | detailed | what the two processors of the boot loaders say to each other |
| `PatchCache` | detailed | the file of patch offsets that is kept from boot to boot |
| `BootProofs` | proofs | two theorems about `PatchCache`, five about `BootLoader` |
| `MCCardRead`, `MCFatFile`, `MCPatchCache` | instances | what TLC needs besides the `.cfg` files |


## 1. Inventory

### Card read path (`arm9/source/cardengine.c`, `cardDma.thumb.c`, `arm7/source/cardengine.c`)

*State.* ce9: a least-recently-used cache of ROM blocks (`cacheDescriptor`,
`cacheCounter`, `accessCounter`), the request under way, and the flags of a DMA
read (`isDma`, `dmaDirectRead`, `dmaReadOnArm7`, `dmaReadOnArm9`). Shared:
`sharedAddr[0..3]` with a read command, word 4 with 'DMA9', word 5 with 'PING'.
ce7: `readOngoing` and the context of a non-blocking SD read.

*Operations.* `cardRead` (synchronous) and `cardSetDma` on the game's thread;
`myIrqHandlerIPC` and, under it, `continueCardReadDmaArm7`,
`continueCardReadDmaArm9` and `endCardReadDma` on the ARM9; `runCardEngineCheck`
in the ARM7's interrupt handler and `runCardEngineCheckHalt` in its idle thread.

*Hard.* Four flows of control on two processors and two DMA engines share the
slots. A DMA read is a chain of interrupts: each processor bounces `IPC_SYNC` 3
at the other until a block, or a copy of it, is there. `IPC_SYNC` has no queue.
Depending on the game the ARM7 is driven by its idle thread or by 'PING' and
IPC 4.

*Correct when* a slot that claims a block holds it, the bytes delivered are the
ROM's (or the overlay file's), each request is reported once and only when
complete, and every request ends.

### FAT driver (`common/source/my_fat.c`)

*State.* One sector buffer for all files and what it holds (`prevFirstClust`,
`prevSect`, `prevClust`); in each `aFile` a cursor into its chain and, maybe, a
table of its clusters, plain or compressed; the context of a polled read.

*Operations.* `fileRead`, `fileWrite`, `fileReadNonBLocking`, `resumeFileRead`,
`buildFatTableCache`, `buildFatTableCacheCompressed`.

*Hard.* Contiguous clusters are grouped into one transfer; reads skip the card
when they believe the sector is in the buffer; other calls come between two
polls of a read.

*Correct when* every call moves exactly the bytes of its range, a write touches
no other byte of the card, and every call returns.

### Saves (`arm7/source/cardengine.c`)

*State.* The save file, `saveMutex`, `saveTimer`, the timers of the key
combinations.

*Operations.* `eepromRead`, `eepromPageWrite`, `nandRead`, `nandWrite` on a
thread of the game; the vertical blank's handler (menu hotkey, combination for
the loader, 'RSET', soft reset, `saveTimer`); `i2cIRQHandler` (power button).

*Hard.* Handlers run to their end over the thread they interrupt, so what they
wait for must not be in that thread's hands; every one of them can take the
console down in the middle of a save.

*Correct when* the save file is the chip the game expects, addresses that wrap
included, the menu never uses the FAT driver under a save, and what the code
means to spare a save is spared it.

### Save archives of DSi-enhanced games (`arm9/source/cardengine.c`, the `dsiSave` functions)

*State.* The archive is one file. Its data is at the start of the save file on the card,
its exist flag and length are the last two words. ce9 has copies of both
(`dsiSaveExists`, `dsiSaveSize`, read once: `dsiSaveInited`), the position, the mode
it was opened with, and `sharedFontOpened`: the system's font is read through the same functions.

*Operations.* `dsiSaveCreate`, `Delete`, `Open`, `Close`, `SetLength`, `Seek`,
`Read`, `Write` and the questions `CheckExists`, `GetInfo`, `GetResultCode`, `GetLength`, `GetPosition`.

*Hard.* A call is up to two writes to the card, and nothing guards them: `saveTimer` is
the ARM7's. A restart of the game leaves ce9 with what it remembers. Reads and writes are made to fit
by counting the length down.

*Correct when* the archive is a file that survives the loss of power, the data never reaches
the words behind it, and ce9's copies are right.

### In-game menu and restart (`arm7/source/inGameMenu.c`, `arm9_igm`, `arm9/source/misc.c`)

*State.* A part of the game's memory and the page file, between which the menu
is swapped; words 0, 3, 4 and 5 of `sharedAddr`; each processor's place.

*Operations.* Opening (hotkey or exception), the swap, the handshake 'IGML' /
'REDY', the menu's commands in word 4, leaving, and the restart 'RSET' /
'LOAD' / 'BOOT'.

*Hard.* Both processors poll once a frame and wait for edges; the words are
also those of the card read the menu has interrupted; commands are tested and
overwritten in two steps.

*Correct when* the ARM9 runs the menu only where it is, the game gets its own
memory and its read's destination back, both processors restart together, and
no wait lasts for ever.

### B4DS card engines (`cardengine/arm7`, `cardengine/arm9`)

*State.* On a flashcard only the ARM9 reaches the card. Words 0 to 5 of
`sharedAddr`; the save thread of the ARM7; the ARM9's `opening` and `opened`,
and the position of a DMA read.

*Operations.* `eepromRead` and `eepromPageWrite`, which ask the ARM9 with word 3
and IPC 4; `cardSetDma` and `continueCardReadDmaArm9`, which come back with each
IPC 3; the menu, swapped by the ARM9 (`writeIgm`, `readIgm`); `userException`;
`reset` on both sides with 'RSDN' and 'BOOT'; IPC 6 in every frame.

*Hard.* `IPC_SYNC` has one value and no queue, and three things send to it. The
words carry the command of a save and of a restart. An exception may come while
the menu is being opened or closed.

*Correct when* a save is made as the chip would before it returns, a DMA read
reports its end with every part in its place, the game gets its memory back, both
processors restart together, and every request ends.

### Homebrew: DLDI driver and SD engine (`src/hb/dldi`, `src/hb/sdengine`)

*State.* Two words and a message at `CARDENGINE_SHARED_ADDRESS`; a
write-through cache of blocks in banks of WRAM that are switched between the
processors; a small buffer for transfers.

*Operations.* `startup`, `readSectors`, `writeSectors`; the engine's handlers of
values and messages, run after an interrupt of the ARM7.

*Hard.* The engine answers with two stores, of which the driver may see one; the
first wait of startup gives up, and a late answer comes into words in use; a
call is cut along cache blocks and along the buffer.

*Correct when* the cache agrees with the card, a bank is the ARM7's only while it
fills it, and the calls do to the card what was asked.

### Boot loaders (`bootloaderi/source`, `bootloader/source`)

*State.* `arm9_stateFlag`, one word that both processors write; the screens and
the images they are drawn from; the ARM9's map of WRAM and its SCFG register.

*Operations.* The ARM7 loads and patches the game and gives the ARM9 commands:
screens, errors, the rating, its map, the loan of WRAM, SCFG, the start.

*Hard.* A command is a store over whatever the other has written, and not every
store waits for READY. The images lie where an AP-fix is read to and where the
ARM7 clears memory.

*Correct when* every boot ends in the game or with the error shown, no picture is
drawn out of cleared memory, and the game starts with screen, WRAM and
registers as it needs them.

### Patchers (`bootloaderi/source/arm7/patch_*.c`)

*State.* `patchOffsetCache`, kept in a file: offsets found, marks of searches
made, the size of the ARM7 program they are of, the kind of save function.

*Operations.* A patch step looks for a function unless the cache has it; the file
is written after the last step.

*Hard.* Settings, donor and loader change between boots, and the file does not.

*Correct when* what is patched is what a boot without the file would patch.

### Parts not modelled

| part | why |
|---|---|
| vertical-blank housekeeping (volume, screens, language, colour LUT) | each writes hardware or a word and keeps no protocol |
| cheat engine | an interpreter that runs to its end in one interrupt, over the game's data |
| DSiWare card engines | no card; their menu is a cut-down form of the one modelled |
| SD host driver | register protocol; `CardRead` takes from it that a transfer ends in some poll |
| configuration program | reads the ini file and prepares files, in sequence, through libfat |
| homebrew's loader and menu | sequential; it starts what `DldiDriver` models |
| build tools, assets | nothing runs |

Of the patchers the tables of per-game patches and the signature searches, most of
the repository's lines (`bootloader/source/arm7/dsi2ds_patches.c` alone has 27,651),
are not modelled: addresses and opcodes, executed once from top to bottom, without a
state that lasts or an order that varies. A model of them would be a copy.

### How the parts interact

The game calls ce9 for the card and ce7 for saves. ce9 asks ce7 for blocks;
ce7 reads them through the FAT driver. The game's card lock lets one ROM or save
access go on at a time. The menu's hotkey and the resets interrupt all of this.
`CardRead` therefore takes `saveMutex` to be free when a block is read (a save
would hold the game's card lock), `SaveGuard` has the contention for it, and
`InGameMenu` has the reads of the game as far as they use the menu's words.
`BootLoader` ends where these begin: it starts both processors, and what
`PatchCache` decides is which functions of the game lead into the card engine.
`FlashEngine` has saves, reads, menu and restart in one module, because there they
share the one `IPC_SYNC` value and word 3.


## 2. Modules

### `CardRead`

Data is counted in cache blocks; a block's bytes are the pair of its file and
its number, so that a wrong file, a wrong block and half-read bytes (`Junk`) are
told apart. Four processes: `pc9` (game's thread; it runs only while `h9` is
"none"), `h9` (ARM9 handler), `h7` (ARM7 handler) and `t7` (ARM7 idle thread,
below `h7`). A step is the code between two accesses to what others share.
`irq7`, `sync7` and `irq9` are the interrupt lines: a second message replaces
the first, as in the register.

| code | actions |
|---|---|
| `cardRead`, `cardReadRAM`, `cardReadNormal`, `waitForArm7` | `CardRead`, `ReadRam`, `ReadNormalLookup`, `WaitPing`, `WaitPoll`, `ReadNormalCopy` |
| `cardSetDma` | `SetDma`, `SetDmaDirect`, `SetDmaSleep`, `SetDmaCached`, `SetDmaSend`, `SetDmaEnd` |
| `myIrqHandlerIPC` (ARM9) and the chain | `Irq9`, `Continue7`, `Check7`, `Continue9Wait`, `Continue9`, `Continue9Ping`, `EndCardReadDma` |
| `myIrqHandlerFIFO`, `runCardEngineCheck` (ARM7) | `Irq7`, `StartRead`, `ResumeRead`, `NothingToRun`, `Clear7`, `Flag7`, `Reply7`, `Pong7` |
| `runCardEngineCheckHalt` | `HaltStart`, `HaltRead`, `HaltClear`, `HaltFlag`, `HaltSend` |
| the vertical blank with `ipcEveryFrame` | `VBlankSync` |
| the engines (external) | `NdmaDone`, `SdDone` |

Which ARM7 side exists follows `bootloaderi/source/arm7/hook_arm9.c`: the swi
Halt hook goes into every game that is not given `pingIpc` (`HaltHooked`).

Assumptions. In `SetDmaCached` the command, `dmaReadOnArm7` and the IPC 4 are
one step: the ARM7 needs the time of an SD read to answer, the ARM9 a few
instructions. A handler of the game that ran longer than an SD read in between
would make the ARM9 miss the answer. The cache starts as the boot loader leaves
it for games that read the ROM's first block with `cardReadFix`: a
descriptor of zero names no block. Requests are runs of blocks all on the card
or all in RAM. The file-name-table cache and the address arithmetic of `romMap`
are left out.

### `FatFile`

Sectors have `BytesPerSector` bytes, each marked with the file, offset and call
that wrote it; the volume is a function of byte addresses. The chains are those
of `Layouts`. A step is the code between two transfers: `BeginRead`,
`ReadChunks`, `ReadTail`; `BeginWrite`, `WriteChunks`, `WriteTail`; `Return`;
`FileReadNonBlocking`, `ResumeFileRead`, `ResumeFileReadDone`. `Boot` gives each
file a plain table, a compressed one or none, as far as there is room.

Past the end of a table `getCachedCluster` reads whatever follows: `Past(i)` are
words that go on counting, chosen in Init either with no relation to the table or so
that they continue a file's last cluster, which misleads the grouping most.

Assumptions. The FAT is consistent: no cluster is linked twice, in one chain or two
(`LayoutsAssumption`); the driver never changes a FAT, and of a cross-linked one nothing
is claimed. Ranges lie within the file, as the modelled callers ask. Calls of
other files come between polls and not inside a call, which holds because saves
and menu are kept apart by `saveMutex` (`SaveGuard`; NAND writes, which take no mutex,
are outside this assumption). Positions do not reach 2^32.

### `SaveGuard`

The chip is counted in sectors. The thread (`op`) goes lock, mark, move, finish; the
handler (`irq`) goes through the stages of `myIrqHandlerVBlank` in its order, and
the thread runs only while it is "none". `lockMutex` in the handler is a stage
that may never be left: `Stuck`. `Restart` is `reset(false)`, which frees the
mutex whoever holds it. `age` is a history variable: vertical blanks since this save
set `saveTimer`. NAND games write without the mutex.

Assumption: the game writes 'RSET' holding its card lock, so `Rset` restarts it
with no access under way.

### `DsiSave`

The save file is `Room` cells of data (`saveSize - 0x200` bytes in the code), the flag and
the length; the bytes between data and words are not used by anything. A cell holds the number of the
call that wrote it. A call that does not write, or writes once, is one step.
`DsiSaveDelete` and `DsiSaveDeleteFlag` are the two writes of a removal; `DsiSaveWrite`,
`DsiSaveWriteData` (once a cell) and `DsiSaveWriteEnd` those of a write. `Cut` can fall between any two,
`PowerOn` loads a new ce9, and `Reset` restarts the game over the old one.

The functions are those of the DLDI build; without DLDI they only return failure.

Assumptions. The save file is on the card (without it each function fails at once). The game has one
thing open at a time, uses what it has opened, and gives no negative lengths or positions.
Result codes are left out.

`dsiSaveDelete` does not come to `dsiSaveInit`: before any other call it finds no
archive. The abstract specification has that as `known`.

### `InGameMenu`

`page[0]` and `page[1]` are the areas of the page file, `ram` is what lies at the
menu's place. Polls are counted in frames: a processor that waits for a frame
has `due7` or `due9` false until `Frame`. `Frame` happens when both processors
wait for something: between two of its waits a processor takes less than a frame.

| code | actions |
|---|---|
| ARM7 `inGameMenu` | `Hotkey`, `Ready`, `Keys`, `Switch`, `Dump`, `Test`, `Rewrite`, `Exit` |
| `loadInGameMenu`, `unloadInGameMenu` | `Backup`, `Fetch`, `Loaded`, `Unload`, `Store`, `Restore`, `Unloaded` |
| ARM7 handler, `reset`, `returnToLoader` | `NoHotkey`, `Rset`, `Answer`, `Reset`, `Boot`, `Quit` |
| ARM9 `inGameMenu` of ce9, the exception handler | `TakeIpc`, `Exception`, `Wait1`, `Wait2`, `Out` |
| the menu itself (`arm9_igm`) | `Enter`, `Release`, `Loop`, `NoKey`, `Pick`, `Polled`, `Exiting`, `Leave`, `Stray` |
| ARM9 `reset` | `GameReset`, `Load`, `Start` |
| the game | `Ask` (a read puts its destination in word 0) |

Of the commands with an argument LITE stands for all. `Stray` is an ARM9 whose
code has been swapped away under it: it does anything, here nothing more.

Two history flags name windows the code leaves open, and two properties are claimed
outside them only:

* `lost`: the ARM7 tests word 4 for 'EXIT' and then writes 'MENU'
  (`arm7/source/inGameMenu.c:212-216`), over a command written in between. Without
  the exemption `CommandServed` and `OutEnds` fail.
* `raced`: the ARM7 keeps word 0 and then interrupts the ARM9
  (`arm7/source/inGameMenu.c:54`); a read put into the words in between loses its
  destination when the menu ends. Without it `DestinationKept` fails.

### `FlashEngine`

`ipc9` and `ipc7` are the messages sent and not yet taken; sending replaces.
The ARM7's thread (`thread`) runs below its handler (`irq7`), the ARM9 is one
process (`pc9`). The save has `SaveSize` cells, which hold the number of the
access that wrote them. `ram` is what lies at `igmLocation`, `page` the two parts of the page
file: the menu, or the game's memory there. A DMA read goes to that same memory, the place the menu takes
from it between two parts, so a cell holds the number of the cell of the read that has arrived in it.
Source and destination (`pos`) count from the start of the read; `Part` copies up to `DmaReadLen` cells from there and
`Moved` goes past them, which the code does at the next IPC 3 only. The last part may be shorter.
`cardReadDma` passes on only multiples of 512 bytes, which need not be multiples of `dmaReadLen`.

| code | actions |
|---|---|
| `eepromRead`, `eepromPageWrite`, `waitForArm9` | `Eeprom`, `SendSave`, `WaitForArm9` |
| `cardSave` | `CardSave` (both halves of a split access) |
| `cardSetDma`, `continueCardReadDmaArm9` | `CardSetDma`, `ContinueDma` |
| ARM7 handlers, menu, restart | `Fifo`, `VBlank`, `VBlankMenu`, `VBlankEnd`, `Ready`, `Keys`, `Switch`, `Test`, `Rewrite`, `Exit`, `Clear`, `Boot`, `RebootConsole` |
| ARM9 `inGameMenu`, `writeIgm`, `readIgm`, the menu | `OpenMenu`, `Backup`, `Fetch`, `Enter`, `Loop`, `Pick`, `Asked`, `Exiting`, `Store`, `Restore`, `Out` |
| `userException` | `Exception` |
| ARM9 `reset` | `GameReset`, `Reset`, `Load`, `Loaded`, `Start`; for DSiWare and large programs `ResetDSiWare`, which ends in the ARM7's `RebootDSiWare` |

Assumptions: the game makes one request of the card at a time (its CARD library
locks the bus), no IPC 9 comes within `cardSetDma`, whose copy the menu would interrupt, and loading
the game takes the ARM9 longer than a frame. History
variables name what the code leaves open, and the properties say where they stop:

* `lost`: an IPC 9 or 6 replaces an IPC 4 or 3 that the ARM9 has not taken
  (`cardengine/arm7/source/inGameMenu.c:43`, `cardengine.c:504`); nobody sends it again.
* `spoiled`: the end of a RAM dump clears word 3, or the RAM viewer writes words
  0 to 2, under a save that the menu has interrupted.
* `stale`: word 0 still has the 'BOOT' of the restart before, and the ARM7 starts at once.
* `cut`: a save command is written over a 'RSDN' that the ARM7 has not seen.
* `raced`: as in `InGameMenu`, 'MENU' over a command.
* `torn`: an exception while the menu is being closed. `opened` is false by then
  (`cardengine/arm9/source/cardengine.c:534`), so the handler opens the menu again, and if the first
  half of the swap is still to come, stores the menu where the page file keeps the game's memory (536-541). A RAM dump
  after that has the menu in it. The game itself is not affected: it only runs again after a restart has loaded it.
* `Unheard`: a 'DSIW' after a 'RSDN' that was cut. The ARM7 never comes to its wait, and the ARM9 waits
  for a reboot of which nobody knows.
* `Overruns`: `cardSave` looks for the end of the chip in the address in memory when
  it writes (`cardengine/arm9/source/cardengine.c:569`).

### `DldiDriver`

`pc9` is the driver's place, `arm7` the engine's. The card is a function of sectors.
`mode` is what startup has found; `broken` is history: a transfer has failed and
the driver goes on with a slot that was not filled, after which nothing is claimed.

| code | actions |
|---|---|
| `startup` | `Startup`, `HaveTimeout`, `HaveDone`, `StartDone` |
| `readSectors`, `writeSectors` | `Begin`, `Direct` (RAM disk), `CacheHit`, `CacheMiss`, `FillDone`, `Chunk`, `MoveDone`, `ChunksEnd`, `Return` |
| `runSdMmcEngineCheck` and its handlers | `Answer`, `AnswerValue`, `ReadMsg`, `WriteMsg`, `SendResult` |

Assumption (`Prompt`): the engine reaches the second of its two stores before the
driver has returned from its wait and sends again. `LongWrites` lets a write reach over
the end of a cache block; see the run `hb_write`.

### `BootLoader`

A boot is chosen in Init: loader, mode, whether the cache file is stale, whether the
game gets a rating and has one, colour table, AP-fix. `pc7` and `pc9` are the places of
the two processors, `flag` is `arm9_stateFlag`. A picture drawn after the images have
been cleared or overwritten is "garbage". `at191` is the display's line, which both
wait for before the start. `BootProofs` extends this module together with `PatchCache`, hence
the names `LoaderInit`, `LoaderNext` and `LoaderSpec`.

| code | actions |
|---|---|
| ARM7 `arm7_main`, in its order | `WaitStart`, `PleaseWait` / `HeaderRead`, `ScreenShown`, `EsrbOutput` / `NoRating`, `InitMbk` / `NoMap`, `MbkDone`, `LutToArm7`, `CopyLut`, `LutDone`, `ReadFix` / `NoFix`, `ClearImages`, `ClearScreen`, `SetScfg`, `SaveScfg`, `StartBinary`, `Line7`, `Start7` |
| errors | `Missing`, `ErrorOutput` |
| ARM9 `arm9_main` | `Begin9`, `Begin`, `Scrnclr`, `Dispesrb`, `NoEsrb`, `EsrbScreen`, `EsrbShown`, `Dispscrn`, `Disperr`, `Initmbk`, `WramOn`, `Setscfg`, `Boot9` |

Assumption (`Polled`): where the ARM7 does not wait but copies tables or reads the
card, an ARM9 that only polls has taken the command before.

Two things the code leaves open are exempt, and would be violations otherwise.
`main.arm7.c:1786` stores `ARM9_INITMBK` without waiting for READY; the wait at the end of
`esrbOutput` is commented out (`loading_screen.c:21-22`), so an ARM9 that is still
showing a rating stores READY over the command and never sets its map: `GamePrepared` says
nothing of the map in a boot that shows a rating. And `BOOTBIN` stored while the display is at
line 191 (`main.arm7.c:1313`) starts the processors a frame apart, although both are to start
"in sync with the display": `BootEnds` says only that both start.

### `PatchCache`

An offset is the program it was found in and the form of the function there. Each way
a field is treated has a representative: searched whenever it is zero (`Search`),
searched once and marked (`SearchOnce`), reset with the ARM7's program (`RsetA7Cache`),
chained to another (the three tries of `savePatchUniversal`, the priorities of
`PatchDma`). `Boot` picks settings anew; `OtherLoader` makes the file one of another
version; `PowerOff` may come at any step, before the file is written too. A boot whose card read is not
found ends there (`NoCardRead`), unless the header has no file table (`fatSize`): then the ARM7 is patched all the
same (`NoFiles`, `patch_common.c:16936`), with the fields of the ARM9 as far as they were found.

`Fresh` is what a boot with no file patches, from the programs and settings alone, and
`PatchesFresh` compares. Exempt are the program of `sdCardFuncsOffset`, which
`rsetA7Cache` does not clear (`patch_common.c:16880`), so that DSiWare on a flashcard with another
ARM7 program is patched at the old program's offset; and a pull-out function that the search of
the card read's own type misses, since the type is not kept in the file.

### Abstract specifications

`RomService`: requests one at a time, each answered with its own blocks in
order and reported once, not before its last block. `ByteFile`: a call moves the
bytes of its range, in order, and returns after the last. `BackupChip`: an array
with wrapping addresses, whose writes are cut only by `Cut`. `SaveArchive`: a file with a
position; a cut leaves a prefix of a write's cells within the old length, or an emptied file
not yet removed. `BlockDevice`: sectors, and calls that
read or write a range and may fail. `CardRead` implements
the first by the identity mapping of its request variables; `FatFile` the second
with `content` the file's bytes as its chain places them; `SaveGuard` the third
with `job` the access while its thread moves sectors; `DsiSave` the fourth with `file` the cells below the
length on the card; `DldiDriver` the last by the identity of the card and the caller's
buffer. The mappings are at the end of the detailed modules.

Two things end what `SaveArchive` promises (`Break`, `Restart`): a read from beyond the
end, whose count goes through zero (`arm9/source/cardengine.c:1277`), and a restart of the game while it has the
font open, after which the archive's reads come from the font
(`arm9/source/cardengine.c:1264`).


## 3. Runs

All passing runs are complete: TLC explores every reachable state of the instance.

| run (`.cfg`) | distinct states | checks |
|---|---|---|
| `card` (`CardRead`) | 279,301 | `CacheCoherent`, `OneSlotPerSector`, `DeliversRom`, `SdExclusive`, `CommandAnswered`, `EveryReadEnds`, `ImplementsRomService` |
| `fat_file` (`FatFile`) | 401,744 | `BufferCoherent`, `NoStrayWrite`, `ImplementsByteFile`, `EveryCallReturns` |
| `save_eeprom` (`SaveEeprom`) | 1,248,512 | `MenuApart`, `OrderlyShutdown`, `TapSpared`, `ImplementsBackupChip`, `AccessEnds` |
| `dsi_save` (`DsiSave`) | 307,647 | `WordsKept`, `MemoryAgrees`, `ImplementsSaveArchive` |
| `menu` (`Menu`) | 587,887 | `RunsMenu`, `GameRestored`, `DestinationKept`, `StartTogether`, `NoFalseTimeout`, `CommandServed`, `OutEnds`, `ResetEnds` |
| `b4ds` (`FlashEngine`) | 1,765,256 | `GameRestored`, `StartTogether`, `SaveMade`, `DmaDelivered`, `RequestEnds`, `RestartEnds` |
| `hb_calls` (`DldiCalls`) | 509,969 | `CacheCoherent`, `ImplementsBlockDevice`, `CallEnds` |
| `boot` (`Boot`) | 6,516 | `ImageWhole`, `GamePrepared`, `BootEnds` |
| `patch_cache` (`PatchCache`) | 1,138,273 | `PatchesFresh` |
| `save_power_button` (`SavePowerButton`) | violation | `PowerButtonDoesNothing` |
| `menu_ram_dump` (`MenuRamDump`) | violation | `PageHoldsMenu` |
| `hb_write` (`DldiLongWrite`) | violation | `WriteLands` |

*Card reads.* `MCCardRead` chooses the kind of game first: hooked in swi Halt; driven by
'PING'; with OS_Sleep known and the first block in RAM. Three blocks over two slots: each miss after the second evicts, a
request of two blocks can evict its own first block, and one block comes from the
overlay file. Three requests (two with 'PING', whose chain is the longest) are
enough for a request to meet slots that a synchronous and a DMA read have left. A
non-blocking read takes one transfer more than its start (`Chunks`), so a 'PING' is answered
while it is open. A partly preloaded ROM without OS_Sleep is left out: both the request and
the end of a copy send IPC 3 there (`arm9/source/cardDma.thumb.c:344`), so an end can be reported early.

*FAT.* Sectors of two bytes. One call on clusters of two sectors and four clusters, over every
range of every file, with chains that are contiguous, broken and descending: all kinds of first and last
partial sectors, of groups and of gaps. Three calls on clusters of one sector on two files, one a polled read
if it comes to that: the least that lets a third call meet a buffer or cursor that a second one changed.

*Saves.* A chip of three sectors, all offsets up to twice its size and all lengths,
two accesses; combinations held for two vertical blanks, `saveTimer` starting over at four.
Every stage of the handler falls between any two steps of the thread.

*Save archive.* Room for three cells and seven calls, which lets an archive be created, opened, written,
sought, read, closed and removed. Positions and lengths go to one beyond the room.
Cuts, power-ons and restarts are not bounded.

*Menu.* Two rounds (menus, exceptions and resets of the game, in any order), which
lets a round meet what the one before left. The timeout is four frames and a swap two.
With a swap shorter than a frame (`Pulse` 0 or 1) `OutEnds` fails: the ARM9 sees an
edge of 'IGML' only if it lasts until its poll. The real swap moves 80 KB twice.

*B4DS.* A save of two cells, so that every offset wraps; one request, a DMA read of up to three cells in
parts of two, so that it has one part or two and the last is whole or not; two rounds, so that the menu
lies where the read goes to before and between its parts, and an exception meets the opening or the closing of a
menu. What one request needs, the others repeat: each theorem holds for any number.

*Homebrew.* Six sectors in blocks of two over two slots, transfers of two: a call has a
partial first and last block and evicts its own first slot. Two startups (a late answer meets the
second) and two calls (the second meets the first's slots).

*Boot.* No bound; every boot of the set `Boots`.

*Patch cache.* `MCPatchCache`: each pair of save functions of game and donor, every ARM9
program, programs that lack what is needed, with files and without, DSiWare, either card; all settings. The number of boots is
not bounded.

*Violations.* `save_power_button`: a comment (`arm7/source/cardengine.c:1245`) says that while
saving "power button does nothing"; a long press does not look at `saveTimer`
(`cardengine.c:1978`). `menu_ram_dump`: after RAMD the ARM7 unloads the menu twice, and the
second time stores the game's memory where the page file keeps the menu
(`arm7/source/inGameMenu.c:153` and 226). `hb_write`: a cached write over the end of a block
goes to the card from where the copying has left `sector` and `buffer`
(`src/hb/dldi/source/iointerface.c:317`), against the comment at its line 484.

*Deadlock* is checked in `card` (idle consoles still have their vertical blanks), in
`dsi_save` (the power can always go) and in `patch_cache`. It is off in the others: the FAT and
homebrew runs end when their calls are used up, the save, menu and B4DS runs when the console goes
down, the boot when the game runs.

### Fairness

* `CardRead`: weak fairness of each process and each engine: a processor goes
  on executing and a transfer ends. The game need not ask again, and `VBlankSync` is not
  fair, so no chain is saved by the stray interrupt of a frame.
* `FatFile`: weak fairness of the loop and of the polls, which the ARM7's handlers repeat.
* `SaveGuard`: weak fairness of the handler and strong fairness of the thread, which
  every vertical blank interrupts and which runs in between. The menu's user is not
  fair: `AccessEnds` exempts an open menu. It also exempts `Stuck`: the soft reset's handler waits in
  `lockMutex` for the thread below it (`arm7/source/cardengine.c:1854`).
* `InGameMenu`: weak fairness of both processors and of the frames; neither
  the user nor the game is fair.
* `FlashEngine`: weak fairness of the handlers and the vertical blank; strong fairness of the ARM7's thread
  and of its other interrupt, which run between two vertical blanks. Requests, user and exceptions are not fair.
* `DldiDriver`: weak fairness of driver and engine; homebrew need not call.
* `BootLoader`: weak fairness of both processors and of the display.
* `DsiSave`, `PatchCache`: none; everything claimed of them is safety.


## 4. Proofs

Proved by TLAPS for every value of the constants (their ASSUMEs apart).

*Card reads* (`CardReadProofs`). `Inv` (`CardReadInv`) is inductive:
`CardReadInvariant`. Of it `CardReadTypeCorrect`, `CardReadOneSlotPerSector`,
`CardReadCacheCoherent`, `CardReadDeliversRom` and `CardReadSdExclusive` are consequences, and
`CardReadCommandAnswered` an action property. `CacheCoherent` alone is not inductive: a DMA miss
claims its block before the bytes are there, so that coherence depends on who
may touch the slot meanwhile. `Inv` adds

* who drives what: a DMA chain runs only while its request is the one the game waits for
  (`ChainOwned`), and a command belongs to the thread or to the chain (`CommandOwned`);
* what each may rely on: the waiting thread that its block is in no other slot
  and in its own when the mailbox is empty (`ThreadView`), the chain likewise (`ChainView`),
  the ARM7 that what it reads is what the mailbox says (`Arm7View`);
* that the ARM7 has one driver (`OneDriver`), and how far the request is
  (`Progress`), from which the delivered bytes follow.

The proof has a lemma for each group of actions; the cache's two searches
(`SlotForSector`, `AllocateCacheSlot`) have lemmas of their own.

`CardReadImplementsRomService` is the refinement: `Spec => ImplementsRomService`, for games whose
ROM has no part in RAM or whose OS_Sleep is known (`OneKind`). Its steps need three more invariants:
`Counted` (delivered and left make up the request at each place), `NoChain` (with OS_Sleep known no
DMA read of the card is chained) and `OneMessage` (of a copy out of RAM one message is on its way, wherever it is, so that
its end is reported once).

`CardReadNeverAsleep`, also under `OneKind`: while a request of the game is unanswered, some processor has a step of its
own to take for it, a vertical blank not counted. TLC's check for deadlock cannot say so, as there is always a next
frame. Its invariant `Carried` names for each wait where the message is that will end it: in the mailbox, in `readOngoing`,
with an engine, or as an IPC_SYNC under way; what could lose it are the two interrupts and the halt hook, which all clear
words that others poll.

*FAT driver* (`FatFileProofs`). For every size of sector, cluster and cache, every number of clusters, files and
calls, and every consistent FAT. The proof has three layers.

* *The tables.* `FAT_NextCluster`, the plain table, the compressed table and `findCluster`'s walk all lead to the
  cluster that the chain has at a place. The helpers are recursive functions over chains, and each lemma is an
  induction: the places where it fails would have a least one (`LeastExists`).
* *The turns.* The sectors a turn transfers are the file's next bytes, however clusters were grouped into one
  transfer; the grouping looks at the words past a table (`Past`) without ever using what they say.
* *The invariant* `Inv`. Beside types and geometry: the tables agree with the FAT (`Tables`); a cursor names the cluster
  of its offset, or it is not used (`Cursors`); `BufferCoherent`; a request under way is within its file and has
  transferred what it says (`Calling`, `Polled`). `BufferCoherent` is not inductive without `WriteBuffer`:
  the loop of a write changes sectors on the card but not the buffer, and what saves the buffer is that it then holds
  the range's first sector, which the loop does not come back to.

`DriverInvariant` is `Spec => []Inv`; from it `BufferCoherence`, the action property `WritesStayInRange`
(`NoStrayWrite`), and `DriverImplementsByteFile`, in which each turn of a read or write is `ByteFile`'s transfer of those bytes.
`DriverCallsGetOn`: a call that is not at its end has a turn to take (`GoesOn`), and each turn moves it forward, not past its end
and without touching the other call under way (`GetsOn`). So a call of n bytes takes n turns at most, over any table.

*Saves* (`SaveGuardProofs`). `MutexInv`: the mutex is the thread's exactly between its lock
and unlock, and the menu's while the menu is open. From it `SaveMutexInvariant`,
`SaveMenuApart`, `SaveOrderlyShutdown`, each for games that take the mutex (`~Nand`).
`SaveTapSpared` holds for all games: `TimerInv` says that while a save is open
`saveTimer` counts its vertical blanks until it starts over.
`SaveImplementsBackupChip` is the refinement, again for games that take the mutex: `Places` says what the thread has
done of its access, `TargetOfChip` that a split and wrapped access goes where the chip's address counter
would, and each step is one of the chip's, its cut, or a stutter.

*Save archive* (`DsiSaveProofs`). `Inv` adds `Bounds` to the two invariants: what a write has
still to store lies below the words, and the length in memory never exceeds the room.
The theorems are `DsiSaveWordsKept` and `DsiSaveMemoryAgrees`.
`DsiSaveImplementsSaveArchive` is the whole refinement: `Spec => ImplementsSaveArchive`.
It needs a second invariant, `Places`: what is open and what is under way agree with ce9's state, and the cells a write
has stored so far are its own, so that those beyond the end may show up with the new length.
Then each action is matched with its call of the archive, or taken where nothing is promised (`Broken`).

*Menu* (`InGameMenuProofs`). `MenuGameMemory`: whenever the ARM7 is back in the game,
restarts it or leaves it, the game's memory is in place, RAM dumps included; the
invariant ties `ram` and `page[1]` to the ARM7's place alone, since the ARM9 writes
neither. `MenuPageHoldsMenu`: without RAMD among the commands the page file keeps
the menu, so the violation above has no other cause.

The other three properties are about both processors and rest on `Conversation`, an inductive invariant in seven
parts: where each processor can be (`Places`); that word 5 is `IGML` exactly while the ARM7 swaps, or an exception
calls, and `REDY` until the ARM7 has seen it (`Igml`); that a menu is opened only for an ARM9 that will come, and
the ARM7 stays in it only while the ARM9 has not come out (`Inside`); which command in word 4 goes with which place
of the ARM9 (`Command`); that both are on their way whenever one restarts the game (`Restart`, `Epochs`); and where
the destination of an interrupted read is kept (`Destination`). None of them mentions `ticks`, `timeOut` or `Pulse`:
`MenuStartTogether`, `MenuGameRestored` and `MenuDestinationKept` hold however long swaps and waits last. Of the
assumptions on time they use one, that a game that starts leaves the words alone until the ARM7 has polled `BOOT`
(the guard `Playing`). `MenuGameRestored` joins `Conversation` to `GameMemory`.

The last two are about time. `MenuSchedule` and `MenuRunsMenu`: `unloadInGameMenu` takes the menu out of memory
without asking whether the ARM9 has left it; it waits for a frame. `Schedule` says what each processor may still be doing
at each place of the other (`Chosen`, `Seen`), where the ARM9 is while the ARM7 swaps the menu out (`Swapped`), and
that the menu is in memory wherever the ARM9 runs it (`Runs`); it holds for any `Timeout` and `Pulse`.
`MenuNoFalseTimeout`: `Timing` counts the frames the ARM7 has waited against the places the ARM9 still
has before it (`Left`, `Timely`). Its hypotheses are `Timeout > 2` and `Pulse > 1`: the code waits 120 frames, and the model lets a swap last two.

*B4DS* (`FlashEngineProofs`). `FlashInvariant` has four parts: `Memory` (what is in memory and page file at each
place of the menu, exceptions in its opening, within and in its closing included), `Restart` (the handshake of the two resets),
`Requests` (a request under way and what each processor has done of it) and `Chain` (how far a DMA read has come, and that
the cells up to there, and no others, have arrived, in memory or, while the menu is there, in the page file). From it
`FlashGameRestored`, `FlashStartTogether`, `FlashSaveMade` and `FlashDmaDelivered`, for every length of read and of
part. `GameRestored` needs the guard `opening` of `userException`: without it an exception in the opening stores the menu over the game's
memory. `CellOfChip` shows
that an access split at the end of the chip reaches the cells the chip would reach.

*Homebrew* (`DldiDriverProofs`). `DldiTypesCorrect`, `DldiBanksApart` (a bank is the ARM7's exactly while the engine
fills its slot), `DldiCacheCoherent` and `DldiImplementsBlockDevice`. The last two are for `LongWrites = FALSE`:
`hb_write` shows them false otherwise. Every step of a call is matched with a step of `BlockDevice`; the invariant
ties the words on their way to the place of the driver, so that an answer is always the one waited for.
`DldiCallShrinks` needs neither the condition nor transfers that succeed: until a call returns driver or engine has a step, and
each takes `StepsLeft` down, which begins at ten for each sector and six. The count has a part for the sectors to come, one for the
driver's place among the words it sends (`Rest`), and one for where they are (`WordsLeft`).

*Patch offsets* (`BootProofs`). For every game of `GameType` and every set of settings. The invariant says that each
field of the file and of the cache is nothing or what the search finds in this game (`FileKept`, `CacheKept`), and that what
the boot has patched so far is right up to its place (`SoFar`). Three kinds of field need a statement of their own:

* what is searched for once is marked, since "not found" must be told from "not looked for" (`Dma`);
* what lies in the ARM7's program is kept from boot to boot, though a boot may load another program: all of it is of the
  one whose size is kept beside (`OfArm7`), and the comparison of sizes empties it (`ResetFor`);
* the card read is found together with the pull-out function, and its type is not in the file (`Read`).

`PatchesAreFresh` follows: a boot with the file patches what a boot without it would, the exemptions of `PatchesFresh` apart. That the save patch
tried first, the one kept, finds the same again is `UniversalFinds`.

*Boot loaders* (`BootProofs`). `LoaderInv` (`LoaderInvariant`) has three parts. `Handshake` goes through the places of the ARM7 and
says where the ARM9 can be and what `flag` holds; most are few, but a failure (`Missing`) may come while the ARM9 is anywhere.
`Pictures` says what is on the screen and whether the images are still needed; `Registers` what the ARM9 has set by then.
`LoaderShowsWholeImages` is the theorem about the commented-out wait: `esrbOutput` returns at once, and it suffices that the
two steps which overwrite the images wait for `esrbImageLoaded`. `LoaderPreparesGame` is `GamePrepared`; `LoaderShowsErrors` that an
ARM9 that is ready again after a failure shows the error. `LoaderComesToEnd`: each step of either processor and of
the display takes `LoaderLeft` down, 111 at most, and until the end one of the three has its guard true (`NeverStuck`, the guards
read off the actions). The module has no constants, so its run visits every behaviour as well; the theorems
say why none of them goes wrong.

*Only model-checked.* Liveness: a fairness condition speaks of ENABLED, which the provers cannot expand. Of `CardRead`, `FatFile`,
`DldiDriver` and `BootLoader` the part of it that is safety is proved, as above: that nobody waits in vain, and of the last three
a count that every step takes down. What is left to TLC there is that an enabled step is taken in the end. For saves (`AccessEnds`),
the menu and B4DS nothing of the kind is proved: their endings depend on strong fairness, timeouts and frames.
Two of the violations of section 3 bound a theorem, by a hypothesis that
names the case: `DldiImplementsBlockDevice` has `LongWrites = FALSE`, `MenuPageHoldsMenu` no RAMD among the commands.


## 5. What is left

Modelled only in part, with the reason:

* `FatFile` leaves out walks beyond the end of a compressed table (`common/source/my_fat.c:904`) and NAND writes
  between the steps of another call: `nandWrite` takes no mutex (`arm7/source/cardengine.c:1224`), so menu and soft
  reset may come between two of its transfers. The callers modelled never give a range past the end.
* `CardRead` sets the command and `dmaReadOnArm7` in one step (`arm9/source/cardDma.thumb.c:531`), and starts with a cache in which
  a descriptor of zero names no block, though it is the number of the ROM's first block (`arm9/source/cardengine.c:230`).
* A composition of `CardRead` with menu and restart: the halt hook clears word 3 whatever is in
  it (`arm7/source/cardengine.c:1618`), a 'RSET' included, and a restart leaves `readOngoing` and `dmaReadOnArm7`
  as they are (`arm7/source/cardengine.c:460`).
* `SaveGuard`: the combination for the loader looks neither at `saveTimer` nor at `saveMutex`
  (`arm7/source/cardengine.c:1824`); it can cut a save, and no code or comment says otherwise. The model has the step, and no property speaks of it.
* `FlashEngine`: synchronous reads (a loop over `fileRead`), music, rumble, the GSDD build, the mirroring of main
  memory in the addresses of a DMA read, and restarts into another program: one downloaded (`downloadedSrl`) or
  loaded from the card (`loadNitroSrl`). An IPC 9 within `cardSetDma` would swap the menu in in the middle of its copy.
* `PatchCache`: the save patches for inverted Thumb code and for SDK 5, chosen by the ARM7's program and the SDK's
  version (`patch_arm7.c:793-797`), which keep the same fields in the same way; and the other errors of
  `patchCardNdsArm9` (the hash initialisation and the card ID of SDK 5, `patch_arm9.c:2870` and 2905), which end a boot as
  a missing card read does.
* `BootLoader`: the loading of programs, the choice of mode and addresses, the soft-reset parameters, which are
  cleared word by word after they have been read (`bootloaderi/source/arm7/main.arm7.c:1627-1637`).
* `DldiDriver`: the modes are what startup may find; how it tells them apart (ROM-header checks) is left out, and so are the
  engine's reset keys. After a failed transfer nothing is claimed: the driver has named the block in its slot all the same
  (`src/hb/dldi/source/iointerface.c:219`). Only the first descriptor is set to "no block" at compile time (line 63); the
  search looks only at slots that have been filled, which the model has.

The parts listed as not modelled in section 1 have no state or order that a model
checker would explore.
