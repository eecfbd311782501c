------------------------------ MODULE BootLoader ------------------------------
(***************************************************************************)
(* The boot loaders of DSi mode (bootloaderi) and of B4DS mode (bootloader):  *)
(* the ARM7 loads and patches the game and gives the ARM9 commands in         *)
(* arm9_stateFlag, one word without a queue that both write; the ARM9 shows   *)
(* the screens, sets its registers, and both start the game.                 *)
(*                                                                          *)
(* Assumption (Polled): the ARM9, which does nothing but poll, has cleared its  *)
(* memory and taken a command it was not waited for before the ARM7, which     *)
(* copies tables and reads the card meanwhile, comes to its next step.         *)
(*                                                                          *)
(* The specification is LoaderInit, LoaderNext, LoaderSpec: BootProofs extends  *)
(* it together with PatchCache, another part of a boot.                       *)
(***************************************************************************)

VARIABLES
  boot,            (* which loader, game and files; never changes            *)
  flag,            (* arm9_stateFlag                                       *)
  pc7, pc9,
  screen,          (* what the top screen shows                             *)
  screenFadedIn, imageLoaded,
  esrbScreenPrepared, esrbScreenDisplayed, esrbImageLoaded,
  images,          (* what lies at IMAGES_LOCATION                          *)
  mbk9, wram,      (* the ARM9's map of WRAM, and whose its slots are         *)
  lut,             (* the colour table in WRAM                              *)
  scfg,            (* REG_SCFG_EXT of the ARM9                              *)
  arm9_SCFG_EXT, pageScfg,   (* its copy, and that in the page file            *)
  at191            (* REG_VCOUNT = 191                                     *)

fade == <<screenFadedIn, imageLoaded>>
esrb == <<esrbScreenPrepared, esrbScreenDisplayed, esrbImageLoaded>>
display == <<screen, fade, esrb>>
regs == <<mbk9, scfg, arm9_SCFG_EXT>>
loaderVars ==
  <<boot, flag, pc7, pc9, display, images, wram, lut, regs, pageScfg, at191>>

(* mode: dsiModeConfirmed, "forced" for a game that does not support it.       *)
(* stale: patchOffsetCache is of another version.  rating: the game gets       *)
(* esrbOutput.  splash: there is a rating at IMAGES_LOCATION.  lut: there is     *)
(* a colour table.  fix: there is an AP-fix to apply.                         *)
Boots ==
  [loader : {"dsi"}, mode : {"ds", "forced", "dsi"}, stale : BOOLEAN, rating : BOOLEAN,
   splash : BOOLEAN, lut : BOOLEAN, fix : {FALSE}]
  \cup [loader : {"b4ds"}, mode : {"ds"}, stale : BOOLEAN, rating : BOOLEAN,
        splash : BOOLEAN, lut : {FALSE}, fix : BOOLEAN]

Commands == {"SCRNCLR", "DISPSCRN", "DISPERR", "INITMBK", "SETSCFG", "DISPESRB",
             "WRAMONARM7", "WRAMONARM9"}

Ready  == flag = "READY"

Polled == pc9 \notin {"boot", "start", "memclr"} /\ ~(pc9 = "poll" /\ flag \in Commands)

-----------------------------------------------------------------------------
(* The ARM7.                                                                *)

Only7 == UNCHANGED <<boot, pc9, display, regs, at191>>

(* Of the steps that give a command: from one place to another.               *)
Give(from, cmd, to) ==
  /\ pc7 = from /\ flag' = cmd /\ pc7' = to
  /\ UNCHANGED <<images, wram, lut, pageScfg>> /\ Only7

(* Of the steps that give none.                                              *)
Go(from, to) ==
  /\ pc7 = from /\ pc7' = to
  /\ UNCHANGED <<flag, images, wram, lut, pageScfg>> /\ Only7

WaitStart == Go("boot", "load") /\ flag # "BOOT"

(* Something is missing: the card, a binary, a function to patch.             *)
Missing == \E at \in {"load", "patch", "hook"} : Go(at, "error")

ErrorAtOnce == Give("error", "DISPERR", "stop")

ErrorOutput == Give("error", "DISPERR", "stop") /\ Ready

PleaseWait  == Give("load", "DISPSCRN", "screen") /\ boot.stale /\ Ready

HeaderRead == Go("load", "header") /\ ~boot.stale

ScreenShown == Go("screen", "header") /\ Ready

EsrbOutput == Give("header", "DISPESRB", "map") /\ boot.rating /\ Ready

NoRating == Go("header", "map") /\ ~boot.rating

(* The command for the ARM9's map is given without a look at the flag.         *)
InitMbk == Give("map", "INITMBK", "mbk") /\ boot.mode = "dsi" /\ Polled

NoMap == Go("map", "patch") /\ boot.mode # "dsi" /\ Polled

MbkDone == Go("mbk", "patch") /\ Ready

(* The colour table is copied to WRAM, which in DSi mode has to be the ARM7's.  *)
NoLut == Go("patch", "hook") /\ ~boot.lut

LutToArm7 == Give("patch", "WRAMONARM7", "lut") /\ boot.lut /\ boot.mode = "dsi"

CopyLut ==
  /\ boot.lut
  /\ \/ pc7 = "lut" /\ Ready
     \/ pc7 = "patch" /\ boot.mode # "dsi"
  /\ lut' = IF wram = "arm7" THEN "whole" ELSE "lost"
  /\ \/ pc7 = "lut" /\ flag' = "WRAMONARM9" /\ pc7' = "lutDone"
     \/ pc7 = "patch" /\ UNCHANGED flag /\ pc7' = "hook"
  /\ UNCHANGED <<images, wram, pageScfg>> /\ Only7

LutDone == Go("lutDone", "hook") /\ Ready

(* Patched: an AP-fix is read to where the images are.                        *)
ImagesFreeAlways == TRUE

ImagesFree == esrbScreenPrepared => esrbImageLoaded

ReadFix ==
  /\ pc7 = "hook" /\ boot.fix /\ Polled /\ ImagesFree
  /\ images' = "fix" /\ pc7' = "images"
  /\ UNCHANGED <<flag, wram, lut, pageScfg>> /\ Only7

NoFix == Go("hook", "images") /\ ~boot.fix /\ Polled

ClearImages ==
  /\ pc7 = "images" /\ ImagesFree
  /\ images' = "none" /\ pc7' = "clear"
  /\ UNCHANGED <<flag, wram, lut, pageScfg>> /\ Only7

ClearScreen == Give("clear", "SCRNCLR", "cleared") /\ Ready

SetScfgAtOnce == Give("cleared", "SETSCFG", "scfg")

SetScfg == Give("cleared", "SETSCFG", "scfg") /\ Ready

(* In DSi mode what the ARM9 has set goes to the in-game menu's page file.      *)
SaveScfg ==
  /\ pc7 = "scfg" /\ Ready /\ pc7' = "start"
  /\ pageScfg' = IF boot.loader = "dsi" THEN arm9_SCFG_EXT ELSE pageScfg
  /\ UNCHANGED <<flag, images, wram, lut>> /\ Only7

StartBinary == Give("start", "BOOTBIN", "line")

Line7 == Go("line", "edge") /\ at191

Start7 == Go("edge", "game") /\ ~at191

Loader7 ==
  \/ WaitStart \/ Missing \/ ErrorOutput \/ PleaseWait \/ HeaderRead \/ ScreenShown
  \/ EsrbOutput \/ NoRating \/ InitMbk \/ NoMap \/ MbkDone
  \/ NoLut \/ LutToArm7 \/ CopyLut \/ LutDone \/ ReadFix \/ NoFix \/ ClearImages
  \/ ClearScreen \/ SetScfg \/ SaveScfg \/ StartBinary \/ Line7 \/ Start7

-----------------------------------------------------------------------------
(* The ARM9.                                                                *)

Only9 == UNCHANGED <<boot, pc7, images, lut, pageScfg, at191>>

(* Up to its loop.                                                          *)
Begin9 ==
  /\ \/ pc9 = "boot"   /\ flag' = "START"  /\ pc9' = "start"
     \/ pc9 = "start"  /\ flag' = "MEMCLR" /\ pc9' = "memclr"
     \/ pc9 = "memclr" /\ flag' = "READY"  /\ pc9' = "poll"
  /\ UNCHANGED <<display, wram, regs>> /\ Only9

(* The loop finds a command.  Most are done before it looks again.             *)
Take(cmd)  == pc9 = "poll" /\ flag = cmd
Done       == flag' = "READY" /\ pc9' = "poll"

(* Fading takes frames, so the longer ones are steps of their own.             *)
Begin(cmd) ==
  /\ Take(cmd) /\ pc9' = cmd
  /\ UNCHANGED <<flag, display, wram, regs>> /\ Only9

Image(what) == IF images = "images" THEN what ELSE "garbage"

Scrnclr ==
  /\ pc9 = "SCRNCLR" /\ Done
  /\ screen' = IF screenFadedIn THEN "off" ELSE screen
  /\ UNCHANGED <<fade, esrb, wram, regs>> /\ Only9

(* What lies where the images are is taken for a rating if it is not zero.      *)
Rating == images = "fix" \/ (images = "images" /\ boot.splash)

(* A rating is there: what was shown fades out and the rating is loaded.       *)
Dispesrb ==
  /\ Take("DISPESRB") /\ Rating
  /\ esrbScreenPrepared' = TRUE
  /\ screenFadedIn' = (esrbScreenDisplayed /\ screenFadedIn)
  /\ imageLoaded'   = (esrbScreenDisplayed /\ imageLoaded)
  /\ pc9' = "load"
  /\ UNCHANGED <<flag, screen, esrbScreenDisplayed, esrbImageLoaded, wram, regs>> /\ Only9

NoEsrb ==
  /\ Take("DISPESRB") /\ ~Rating /\ Done
  /\ UNCHANGED <<display, wram, regs>> /\ Only9

EsrbScreen ==
  /\ pc9 = "load" /\ pc9' = "show"
  /\ IF imageLoaded THEN UNCHANGED <<screen, esrbImageLoaded>>
     ELSE screen' = Image("esrb") /\ esrbImageLoaded' = TRUE
  /\ imageLoaded' = TRUE
  /\ UNCHANGED <<flag, screenFadedIn, esrbScreenPrepared, esrbScreenDisplayed, wram, regs>>
  /\ Only9

(* It is shown for three seconds at least.                                   *)
EsrbShown ==
  /\ pc9 = "show" /\ Done
  /\ screenFadedIn' = TRUE /\ esrbScreenDisplayed' = TRUE
  /\ UNCHANGED <<screen, imageLoaded, esrbScreenPrepared, esrbImageLoaded, wram, regs>> /\ Only9

Dispscrn ==
  /\ pc9 = "DISPSCRN" /\ Done
  /\ screen' = IF imageLoaded /\ ~esrbScreenDisplayed THEN screen ELSE Image("wait")
  /\ imageLoaded' = TRUE /\ screenFadedIn' = TRUE /\ esrbScreenDisplayed' = FALSE
  /\ UNCHANGED <<esrbScreenPrepared, esrbImageLoaded, wram, regs>> /\ Only9

Disperr ==
  /\ pc9 = "DISPERR" /\ Done
  /\ screen' = Image("error") /\ screenFadedIn' = TRUE
  /\ imageLoaded' = (imageLoaded /\ ~esrbScreenDisplayed)
  /\ UNCHANGED <<esrb, wram, regs>> /\ Only9

(* The game's header says whose the slots are.                               *)
Initmbk ==
  /\ Take("INITMBK") /\ Done
  /\ mbk9' = "dsi" /\ wram' \in {"arm7", "arm9"}
  /\ UNCHANGED <<display, scfg, arm9_SCFG_EXT>> /\ Only9

WramOn(arm, cmd) ==
  /\ Take(cmd) /\ Done /\ wram' = arm
  /\ UNCHANGED <<display, regs>> /\ Only9

Setscfg ==
  /\ Take("SETSCFG") /\ Done
  /\ scfg' = IF boot.mode = "ds" THEN "locked" ELSE "dsi"
  /\ IF boot.mode = "ds" /\ boot.loader = "dsi" THEN arm9_SCFG_EXT' = "set"
     ELSE UNCHANGED arm9_SCFG_EXT
  /\ wram' = IF boot.loader = "dsi" /\ boot.mode # "dsi" THEN "arm9" ELSE wram
  /\ UNCHANGED <<display, mbk9>> /\ Only9

Boot9 ==
  /\ \/ Take("BOOTBIN") /\ pc9' = "line"
     \/ pc9 = "line" /\ at191 /\ pc9' = "edge"
     \/ pc9 = "edge" /\ ~at191 /\ pc9' = "game"
  /\ UNCHANGED <<flag, display, wram, regs>> /\ Only9

Loader9 ==
  \/ Begin9 \/ Scrnclr \/ Dispesrb \/ NoEsrb \/ EsrbScreen \/ EsrbShown \/ Dispscrn \/ Disperr
  \/ Initmbk \/ WramOn("arm7", "WRAMONARM7") \/ WramOn("arm9", "WRAMONARM9") \/ Setscfg \/ Boot9
  \/ \E cmd \in {"SCRNCLR", "DISPSCRN", "DISPERR"} : Begin(cmd)

(* The display.  A processor looks at its line many times before the next.      *)
Vcount ==
  /\ "line" \in {pc7, pc9} \/ "edge" \in {pc7, pc9}
  /\ at191  => "line" \notin {pc7, pc9}
  /\ ~at191 => "edge" \notin {pc7, pc9}
  /\ at191' = ~at191
  /\ UNCHANGED <<boot, flag, pc7, pc9, display, images, wram, lut, regs, pageScfg>>

-----------------------------------------------------------------------------
LoaderInit ==
  /\ boot \in Boots
  /\ flag = "BOOT" /\ pc7 = "boot" /\ pc9 = "boot"
  /\ screen = "off" /\ screenFadedIn = FALSE /\ imageLoaded = FALSE
  /\ esrbScreenPrepared = FALSE /\ esrbScreenDisplayed = FALSE /\ esrbImageLoaded = FALSE
  /\ images = "images"
  /\ mbk9 = "boot" /\ wram = "arm7" /\ lut = "none"
  /\ scfg = "boot" /\ arm9_SCFG_EXT = "zero" /\ pageScfg = "none"
  /\ at191 \in BOOLEAN

LoaderNext == Loader7 \/ Loader9 \/ Vcount

LoaderSpec == LoaderInit /\ [][LoaderNext]_loaderVars

(* Both processors go on executing, and the display goes on.                  *)
FairSpec == LoaderSpec /\ WF_loaderVars(Loader7) /\ WF_loaderVars(Loader9) /\ WF_loaderVars(Vcount)

-----------------------------------------------------------------------------
(* The ARM9 never shows a picture out of memory that the ARM7 has already       *)
(* cleared or read an AP-fix into: the ARM7 goes on while the rating is being    *)
(* prepared, and waits only for esrbImageLoaded.                              *)
ImageWhole == screen # "garbage"

(* What the game finds when it starts: the rating has been shown if there is    *)
(* one, the screen is dark again, the colour table is in WRAM, which is back     *)
(* with the ARM9, and the registers are set and in the page file.  The ARM9's    *)
(* map of WRAM is the game's, unless a rating has been shown: main.arm7.c:1786   *)
(* stores INITMBK while it is, and the READY of its end may overwrite it.       *)
GamePrepared ==
  "game" \in {pc7, pc9} =>
    /\ screen = "off"
    /\ boot.rating /\ boot.splash => esrbScreenDisplayed
    /\ boot.mode = "dsi" /\ ~(boot.rating /\ boot.splash) => mbk9 = "dsi"
    /\ lut = IF boot.lut THEN "whole" ELSE "none"
    /\ boot.loader = "dsi" /\ (boot.mode # "dsi" \/ boot.lut) => wram = "arm9"
    /\ scfg = IF boot.mode = "ds" THEN "locked" ELSE "dsi"
    /\ boot.loader = "dsi" => pageScfg = IF boot.mode = "ds" THEN "set" ELSE "zero"

(* Every boot ends, in the game on both processors or with the error shown.     *)
BootEnds == <>((pc7 = "game" /\ pc9 = "game") \/ (pc7 = "stop" /\ screen = "error"))

=============================================================================
