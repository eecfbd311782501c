------------------------------ MODULE PatchCache ------------------------------
(***************************************************************************)
(* The patch-offset cache of bootloaderi: where in the game's programs the    *)
(* functions to patch were found is kept in a file from boot to boot, so that *)
(* a later boot need not search.  The settings and the donor whose ARM7         *)
(* program replaces the game's may change in between, the loader of another     *)
(* mode may write its own cache into the file, and the power may be cut.        *)
(*                                                                          *)
(* An offset is a pair: the program it was found in and the form of the         *)
(* function there.  Of the fields of patchOffsetCacheContents those are kept    *)
(* that show each way a field is searched, kept and forgotten.                *)
(***************************************************************************)
EXTENDS Naturals

CONSTANTS
  Games,      (* what the searches find in a game and its donor: see GameType  *)
  Settings    (* what may differ from boot to boot: see SettingsType           *)

VARIABLES
  game,       (* never changes                                              *)
  settings,   (* of this boot                                               *)
  file,       (* patchOffsetCacheFile                                        *)
  ver,        (* its version: "old" or "new"                                 *)
  cache,      (* patchOffsetCache                                           *)
  readType,   (* sdk5ReadType: what the search for the card read has found      *)
  patched,    (* which offset each function of the game is patched at          *)
  pc

vars == <<game, settings, file, ver, cache, readType, patched, pc>>

Programs == {"own", "donor"}    (* of the ARM7, of different sizes            *)

Fields7 == {"cardIrqEnable", "cardCheckPullOut", "jumpTable", "swiHalt", "sdCardFuncs"}
Fields9 == {"cardReadEnd", "cardPullOut", "cardReadDma", "cardSetDma", "cardEndReadDma", "sleep"}
Fields  == Fields7 \cup Fields9

Saves == {"v1", "v2", "arm0", "arm1", "thumb0", "thumb1", "none"}

(* irq, pull: is the function there.  save: which of the save patches fits.      *)
ProgramType == [irq : BOOLEAN, pull : BOOLEAN, save : Saves]

(* read: the type of the card read.  pulls: the types of search that find the     *)
(* pull-out function.  dma: which of the functions for DMA and sleep are there.   *)
Arm9Type == [read : {"none", "type0", "type1"}, pulls : SUBSET {"type0", "type1"},
             dma : SUBSET {"cardReadDma", "cardSetDma", "cardEndReadDma", "sleep"}]

(* onFlashcard: which card the game and with it the file are on.  fat: the header  *)
(* names a table of files (fatSize).                                           *)
GameType == [dsiWare : BOOLEAN, onFlashcard : BOOLEAN, fat : BOOLEAN, arm7 : [Programs -> ProgramType],
             arm9 : Arm9Type]

(* donor: the ARM7 program is the donor's.  dma, async: cardReadDMA and           *)
(* asyncCardRead.                                                            *)
SettingsType == [donor : BOOLEAN, ROMinRAM : BOOLEAN, dma : BOOLEAN, async : BOOLEAN]

ASSUME GamesAssumption    == Games \subseteq GameType
ASSUME SettingsAssumption == Settings \subseteq SettingsType

None == <<>>

NoOffsets(fs) == [f \in fs |-> None]

(* savePatchType, a7IsThumb and a7JumpTableType beside the offsets.              *)
Empty == [at |-> NoOffsets(Fields), checked |-> {}, binSize |-> "none",
          saveType |-> 0, thumb |-> FALSE, jumpType |-> 0]

Program == IF settings.donor THEN "donor" ELSE "own"
Arm7    == game.arm7[Program]

Found7(there, form) == IF there THEN <<Program, form>> ELSE None
Found9(there, form) == IF there THEN <<"game", form>> ELSE None

(* A field that is searched for whenever it is zero, and one that is searched     *)
(* for once and then marked as checked.                                        *)
Search(c, f, found) == [c EXCEPT !.at[f] = IF @ = None THEN found ELSE @]

SearchOnce(c, f, found) ==
  IF f \in c.checked THEN c
  ELSE [c EXCEPT !.at[f] = IF found = None THEN @ ELSE found, !.checked = @ \cup {f}]

Patch(fs) == patched' = [f \in Fields |-> IF f \in fs THEN cache'.at[f] ELSE patched[f]]

-----------------------------------------------------------------------------
(* A boot.  A file of another version is not read.                            *)
Boot(s) ==
  /\ pc = "off" /\ settings' = s
  /\ cache' = IF ver = "old" THEN Empty ELSE file
  /\ patched' = NoOffsets(Fields) /\ readType' = "type0"
  /\ pc' = IF game.dsiWare THEN "arm7" ELSE "arm9"
  /\ UNCHANGED <<game, file, ver>>

Step(from, to)  == pc = from /\ pc' = to /\ UNCHANGED <<game, settings, file, ver>>
Steps(from, to) == Step(from, to) /\ UNCHANGED readType

(* An error is shown, and the file is not written.                             *)
Fail(from) == Steps(from, "off") /\ UNCHANGED <<cache, patched>>

(* The read type is that of the search: with the offset out of the file it is 0.  *)
PatchCardRead ==
  /\ Step("arm9", "pull") /\ game.arm9.read # "none"
  /\ readType' = IF cache.at["cardReadEnd"] = None THEN game.arm9.read ELSE readType
  /\ cache' = Search(cache, "cardReadEnd", Found9(TRUE, game.arm9.read))
  /\ Patch({"cardReadEnd"})

NoCardRead == Fail("arm9") /\ game.arm9.read = "none" /\ game.fat

(* patchCardNds goes on with the ARM7's program if there are no files to read.         *)
NoFiles ==
  /\ Steps("arm9", "arm7") /\ game.arm9.read = "none" /\ ~game.fat
  /\ UNCHANGED <<cache, patched>>

PatchCardPullOut ==
  /\ Steps("pull", "dma")
  /\ cache' = Search(cache, "cardPullOut", Found9(readType \in game.arm9.pulls, readType))
  /\ Patch({"cardPullOut"})

Onto(c, f) == SearchOnce(c, f, Found9(f \in game.arm9.dma, f))

GetSleep == ~settings.ROMinRAM /\ ~game.onFlashcard /\ settings.async
DmaAllowed == settings.dma /\ (game.onFlashcard => settings.ROMinRAM)

(* The function that sleeps has priority over the DMA of the card, and setting      *)
(* up a DMA over reading by it.                                                *)
PatchDma ==
  /\ Steps("dma", "arm7")
  /\ LET slept == IF GetSleep THEN Onto(cache, "sleep") ELSE cache
         sleep == GetSleep /\ slept.at["sleep"] # None
         set   == IF ~sleep /\ DmaAllowed THEN Onto(slept, "cardSetDma") ELSE slept
         sets  == ~sleep /\ DmaAllowed /\ set.at["cardSetDma"] # None
         read  == IF sets THEN set ELSE Onto(set, "cardReadDma")
         ends  == ~sleep /\ DmaAllowed
     IN /\ cache' = IF ends THEN Onto(read, "cardEndReadDma") ELSE read
        /\ Patch((IF sleep THEN {"sleep"} ELSE {})
                   \cup (IF sets THEN {"cardSetDma"} ELSE {"cardReadDma"})
                   \cup (IF ends THEN {"cardEndReadDma"} ELSE {}))

(* (A reset that forgets the marks of the searches made once.)                       *)
RsetKeepingChecked(c) ==
  [c EXCEPT !.at = [f \in Fields |-> IF f \in Fields7 THEN None ELSE @[f]],
            !.saveType = 0, !.thumb = FALSE, !.jumpType = 0]

(* What is forgotten of another program of the ARM7: not sdCardFuncs.                  *)
RsetA7Cache(c) ==
  [c EXCEPT !.at = [f \in Fields |-> IF f \in Fields7 \ {"sdCardFuncs"} THEN None ELSE @[f]],
            !.checked = @ \ Fields7, !.saveType = 0, !.thumb = FALSE, !.jumpType = 0]

(* The reset comes when the size of the ARM7's program has changed.                  *)
ResetFor(program, c) ==
  IF c.binSize = program THEN c ELSE [RsetA7Cache(c) EXCEPT !.binSize = program]

PatchIrqEnable ==
  /\ Steps("arm7", IF game.dsiWare THEN "sdCard" ELSE "save") /\ Arm7.irq
  /\ LET c == Search(ResetFor(Program, cache), "cardIrqEnable", Found7(TRUE, "irq"))
         pulls == ~game.dsiWare /\ ~settings.ROMinRAM /\ ~game.onFlashcard
     IN /\ cache' = IF pulls THEN SearchOnce(c, "cardCheckPullOut", Found7(Arm7.pull, "pull")) ELSE c
        /\ Patch({"cardIrqEnable"} \cup (IF pulls THEN {"cardCheckPullOut"} ELSE {}))

NoIrqEnable == Fail("arm7") /\ ~Arm7.irq

(* savePatchUniversal tries its three signatures from the type that it has kept.      *)
Universal(c) ==
  LET jump    == c.at["jumpTable"]
      has(as) == jump # None \/ Arm7.save \in as
      keep(form, t, th) ==
        [c EXCEPT !.at["jumpTable"] = IF @ = None THEN <<Program, form>> ELSE @,
                  !.jumpType = t, !.thumb = th]
      type == IF c.jumpType = 0 /\ ~c.thumb /\ ~has({"arm0"}) THEN 1 ELSE c.jumpType
      arm  == ~c.thumb /\ (type = 0 \/ has({"arm1"}))
      thumbType == IF c.thumb /\ type = 1 THEN 1 ELSE IF Arm7.save = "thumb0" THEN 0 ELSE 1
  IN IF arm THEN keep(IF type = 0 THEN "arm0" ELSE "arm1", type, FALSE)
     ELSE IF has({"thumb0", "thumb1"})
          THEN keep(IF thumbType = 0 THEN "thumb0" ELSE "thumb1", thumbType, TRUE)
          ELSE c

(* The save patches are tried from the one that fitted before.                      *)
SaveType ==
  IF cache.saveType = 0 /\ Arm7.save = "v1" THEN 0
  ELSE IF cache.saveType <= 1 /\ Arm7.save = "v2" THEN 1
  ELSE 2

PatchSave ==
  /\ Steps("save", "halt")
  /\ LET c     == IF SaveType = 2 THEN Universal(cache) ELSE cache
         fits  == SaveType < 2 \/ c.at["jumpTable"] # None
     IN cache' = [c EXCEPT !.saveType = IF fits THEN SaveType ELSE 0]
  /\ Patch(IF SaveType = 2 THEN {"jumpTable"} ELSE {})

PatchSwiHalt ==
  /\ Steps("halt", "write")
  /\ cache' = Search(cache, "swiHalt", Found7(TRUE, IF cache.thumb THEN "thumb" ELSE "arm"))
  /\ Patch({"swiHalt"})

PatchSdCardFuncs ==
  /\ Steps("sdCard", "write")
  /\ IF game.onFlashcard
     THEN cache' = Search(cache, "sdCardFuncs", Found7(TRUE, "sd")) /\ Patch({"sdCardFuncs"})
     ELSE UNCHANGED <<cache, patched>>

(* Only after the last search, and only what has changed.                           *)
WriteFile ==
  /\ pc = "write" /\ pc' = "game"
  /\ file' = cache /\ ver' = "new"
  /\ UNCHANGED <<game, settings, cache, readType, patched>>

(* The loader of B4DS mode has its own type of cache, in the same file.               *)
OtherLoader ==
  /\ pc = "off" /\ ver = "new" /\ ver' = "old"
  /\ UNCHANGED <<game, settings, file, cache, readType, patched, pc>>

(* The game is played; or the power is cut at any time.                              *)
PowerOff ==
  /\ pc # "off" /\ pc' = "off" /\ cache' = Empty /\ readType' = "type0"
  /\ patched' = NoOffsets(Fields)
  /\ UNCHANGED <<game, settings, file, ver>>

-----------------------------------------------------------------------------
Init ==
  /\ game \in Games /\ settings \in Settings
  /\ file = Empty /\ ver = "old" /\ cache = Empty /\ readType = "type0"
  /\ patched = NoOffsets(Fields) /\ pc = "off"

Next ==
  \/ \E s \in Settings : Boot(s)
  \/ PatchCardRead \/ NoCardRead \/ NoFiles \/ PatchCardPullOut \/ PatchDma
  \/ PatchIrqEnable \/ NoIrqEnable \/ PatchSave \/ PatchSwiHalt \/ PatchSdCardFuncs
  \/ WriteFile \/ OtherLoader \/ PowerOff

Spec == Init /\ [][Next]_vars

-----------------------------------------------------------------------------
(* What a boot without a file patches, from the programs alone.                      *)
Fresh ==
  LET reads    == ~game.dsiWare /\ game.arm9.read # "none"
      there(f) == reads /\ f \in game.arm9.dma
      sleep == GetSleep /\ there("sleep")
      set   == ~sleep /\ DmaAllowed /\ there("cardSetDma")
  IN [f \in Fields |->
       CASE f = "cardReadEnd"      -> Found9(reads, game.arm9.read)
         [] f = "cardPullOut"      -> Found9(reads /\ game.arm9.read \in game.arm9.pulls, game.arm9.read)
         [] f = "sleep"            -> Found9(sleep, f)
         [] f = "cardSetDma"       -> Found9(set, f)
         [] f = "cardReadDma"      -> Found9(~set /\ there(f), f)
         [] f = "cardEndReadDma"   -> Found9(~sleep /\ DmaAllowed /\ there(f), f)
         [] f = "cardIrqEnable"    -> Found7(TRUE, "irq")
         [] f = "cardCheckPullOut" -> Found7(~game.dsiWare /\ Arm7.pull /\ ~settings.ROMinRAM /\ ~game.onFlashcard, "pull")
         [] f = "jumpTable"        -> Found7(~game.dsiWare /\ Arm7.save \in {"arm0", "arm1", "thumb0", "thumb1"}, Arm7.save)
         [] f = "swiHalt"          -> Found7(~game.dsiWare, IF Arm7.save \in {"thumb0", "thumb1"} THEN "thumb" ELSE "arm")
         [] f = "sdCardFuncs"      -> Found7(game.dsiWare /\ game.onFlashcard, "sd")]

(* Whatever earlier boots have left in the file, a boot patches the functions that    *)
(* one without the file patches, at the same places.  Not claimed of sdCardFuncs's     *)
(* program, whose offset rsetA7Cache keeps when the ARM7's program changes, and of a      *)
(* pull-out function that the search of the card read's type misses: the read type is    *)
(* not in the file, and a later boot searches for type 0.                              *)
PatchesFresh ==
  pc = "game" =>
    \A f \in Fields :
      \/ patched[f] = Fresh[f]
      \/ f = "sdCardFuncs" /\ {patched[f], Fresh[f]} \subseteq Programs \X {"sd"}
      \/ f = "cardPullOut" /\ Fresh[f] = None

=============================================================================
