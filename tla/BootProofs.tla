------------------------------- MODULE BootProofs ------------------------------
(***************************************************************************)
(* Proofs about a boot: that what the boot loader patches does not depend on  *)
(* what earlier boots have left in the file of patch offsets (PatchCache), and *)
(* what its two processors do together (BootLoader).                         *)
(*                                                                          *)
(* PatchCache, for every game that the searches tell apart and every set of   *)
(* settings: of each search the file and the cache hold nothing yet, or what   *)
(* it finds in the game's programs; and of the ARM7's program, all of it is of *)
(* the one program whose size is kept beside.                                *)
(*                                                                          *)
(* BootLoader: each place of the ARM7 goes with a few of the ARM9, and when the *)
(* ARM9 is ready again, what it was asked for is on the screen or in its        *)
(* registers.  Last, that a boot comes to an end: a count that every step takes  *)
(* down, and somebody to take the next.                                       *)
(***************************************************************************)
EXTENDS Integers, BootLoader, PatchCache, TLAPS

-----------------------------------------------------------------------------
(* The file of patch offsets: the inductive invariant.                        *)

(* The forms of the functions, and where they may have been found.            *)
Forms ==
  {"irq", "pull", "sd", "arm", "thumb", "cardReadDma", "cardSetDma", "cardEndReadDma", "sleep"}
    \cup Saves \cup {"type0", "type1"}

Offset == {None} \cup ((Programs \cup {"game"}) \X Forms)

(* patchOffsetCacheContents.                                                *)
CacheType ==
  [at : [Fields -> Offset], checked : SUBSET Fields, binSize : Programs \cup {"none"},
   saveType : 0..2, thumb : BOOLEAN, jumpType : 0..1]

(* The places of a boot.                                                    *)
Places == {"off", "arm9", "pull", "dma", "arm7", "save", "halt", "sdCard", "write", "game"}

(* The type invariant.                                                      *)
Types ==
  /\ game \in GameType /\ settings \in SettingsType
  /\ file \in CacheType /\ cache \in CacheType /\ ver \in {"old", "new"}
  /\ readType \in {"type0", "type1"}
  /\ patched \in [Fields -> Offset] /\ pc \in Places

(* The way of DSiWare, and that of the other games.                          *)
Route ==
  /\ pc \in {"arm9", "pull", "dma", "save", "halt"} => ~game.dsiWare
  /\ pc = "sdCard" => game.dsiWare
  /\ pc \in {"pull", "dma"} => game.arm9.read # "none"
  /\ pc = "arm9" => readType = "type0"

(* The forms of the save patch savePatchUniversal.                           *)
Thumbs == {"thumb0", "thumb1"}
Arms   == {"arm0", "arm1"}

(* The card read is found together with the pull-out function of its type.    *)
PullRight(g, c) ==
  g.arm9.read \in g.arm9.pulls => c.at["cardPullOut"] = <<"game", g.arm9.read>>

Read(g, c) ==
  IF c.at["cardReadEnd"] = None THEN c.at["cardPullOut"] = None
  ELSE c.at["cardReadEnd"] = <<"game", g.arm9.read>> /\ PullRight(g, c)

(* What is searched for once is kept as the search has left it.               *)
DmaFields == {"cardReadDma", "cardSetDma", "cardEndReadDma", "sleep"}

Dma(g, c) ==
  \A f \in DmaFields :
    c.at[f] = IF f \in c.checked THEN Found9(f \in g.arm9.dma, f) ELSE None

(* The fields of the ARM7, for the program p: each is not searched for yet, or   *)
(* what a search in p finds.                                                *)
Irq(c, p) == c.at["cardIrqEnable"] \in {None, <<p, "irq">>}

Pull(g, c, p) ==
  c.at["cardCheckPullOut"] =
    IF "cardCheckPullOut" \in c.checked /\ g.arm7[p].pull THEN <<p, "pull">> ELSE None

(* The save patches: not tried yet, and tried on a program.                    *)
Unsearched(c) ==
  c.at["jumpTable"] = None /\ c.saveType = 0 /\ ~c.thumb /\ c.jumpType = 0

Searched(save, c, p) ==
  /\ c.at["jumpTable"] = IF save \in Arms \cup Thumbs THEN <<p, save>> ELSE None
  /\ c.saveType = (IF save = "v2" THEN 1 ELSE IF save \in Arms \cup Thumbs THEN 2 ELSE 0)
  /\ c.thumb <=> save \in Thumbs
  /\ c.jumpType = IF save \in {"arm1", "thumb1"} THEN 1 ELSE 0

(* The form of the halt goes by that of the saves.                            *)
Halt(save, c, p) ==
  c.at["swiHalt"] \in {None, <<p, IF save \in Thumbs THEN "thumb" ELSE "arm">>}

SdCard(c) == c.at["sdCardFuncs"] \in {None} \cup (Programs \X {"sd"})

(* Of no program nothing is known.                                          *)
Nothing(c) ==
  /\ c.at["cardIrqEnable"] = None /\ c.at["cardCheckPullOut"] = None /\ c.at["swiHalt"] = None
  /\ Unsearched(c) /\ "cardCheckPullOut" \notin c.checked

OfProgram(g, c, p) ==
  /\ Irq(c, p) /\ Pull(g, c, p)
  /\ Unsearched(c) \/ Searched(g.arm7[p].save, c, p)
  /\ Halt(g.arm7[p].save, c, p)

OfArm7(g, c) ==
  SdCard(c) /\ IF c.binSize = "none" THEN Nothing(c) ELSE OfProgram(g, c, c.binSize)

(* What the file holds of the game g.                                        *)
Whole(g, c) == Read(g, c) /\ Dma(g, c) /\ OfArm7(g, c)

FileKept == ver = "new" => Whole(game, file)

(* Between the two searches for the card read and its pull-out function.        *)
Reading ==
  /\ cache.at["cardReadEnd"] = <<"game", game.arm9.read>>
  /\ PullRight(game, cache) \/ (cache.at["cardPullOut"] = None /\ readType = game.arm9.read)

(* What the cache of the boot under way holds.                                *)
CacheKept ==
  pc # "off" =>
    /\ IF pc = "pull" THEN Reading ELSE Read(game, cache)
    /\ Dma(game, cache) /\ OfArm7(game, cache)
    /\ pc \in {"save", "halt", "sdCard", "write", "game"} => cache.binSize = Program
    /\ pc = "halt" => (cache.thumb <=> Arm7.save \in Thumbs)

(* What this boot has patched by now.                                       *)
ByNow ==
  (IF pc \notin {"arm9"} THEN {"cardReadEnd"} ELSE {})
    \cup (IF pc \notin {"arm9", "pull"} THEN {"cardPullOut"} ELSE {})
    \cup (IF pc \notin {"arm9", "pull", "dma"} THEN DmaFields ELSE {})
    \cup (IF pc \notin {"arm9", "pull", "dma", "arm7"} THEN {"cardIrqEnable", "cardCheckPullOut"} ELSE {})
    \cup (IF pc \in {"halt", "write", "game"} THEN {"jumpTable"} ELSE {})
    \cup (IF pc \in {"write", "game"} THEN {"swiHalt", "sdCardFuncs"} ELSE {})

(* PatchesFresh, for one function.                                           *)
Right(f) ==
  \/ patched[f] = Fresh[f]
  \/ f = "sdCardFuncs" /\ {patched[f], Fresh[f]} \subseteq Programs \X {"sd"}
  \/ f = "cardPullOut" /\ Fresh[f] = None

SoFar == pc # "off" => \A f \in Fields : IF f \in ByNow THEN Right(f) ELSE patched[f] = None

Inv == Types /\ Route /\ FileKept /\ CacheKept /\ SoFar

-----------------------------------------------------------------------------
(* What the searches do to a cache.                                          *)

(* No offset is that of a function that is not there.                        *)
LEMMA NoneApart == \A a, b : <<a, b>> # None
BY DEF None

(* A search finds an offset or none.                                        *)
LEMMA FoundType ==
  ASSUME NEW b, NEW form \in Forms
  PROVE  Found7(b, form) \in Offset /\ Found9(b, form) \in Offset
BY DEF Found7, Found9, Offset, Program, Programs

(* The fields of a cache, and their values.                                  *)
LEMMA CacheFields ==
  ASSUME NEW c \in CacheType
  PROVE  /\ c = [at |-> c.at, checked |-> c.checked, binSize |-> c.binSize,
                 saveType |-> c.saveType, thumb |-> c.thumb, jumpType |-> c.jumpType]
         /\ c.at \in [Fields -> Offset] /\ c.checked \subseteq Fields
         /\ c.binSize \in Programs \cup {"none"}
         /\ c.saveType \in 0..2 /\ c.thumb \in BOOLEAN /\ c.jumpType \in 0..1
BY DEF CacheType

(* A search whenever the field is zero changes that field.                   *)
LEMMA SearchKeeps ==
  ASSUME NEW c \in CacheType, NEW f \in Fields, NEW found \in Offset,
         NEW d, d = Search(c, f, found)
  PROVE  /\ d \in CacheType
         /\ \A g \in Fields : d.at[g] = IF g = f /\ c.at[f] = None THEN found ELSE c.at[g]
         /\ d.checked = c.checked /\ d.binSize = c.binSize /\ d.saveType = c.saveType
         /\ d.thumb = c.thumb /\ d.jumpType = c.jumpType
<1>1. d = [c EXCEPT !.at = [c.at EXCEPT ![f] = IF c.at[f] = None THEN found ELSE c.at[f]]]
  BY CacheFields DEF Search
<1>2. [c.at EXCEPT ![f] = IF c.at[f] = None THEN found ELSE c.at[f]] \in [Fields -> Offset]
  BY CacheFields
<1> QED
  BY <1>1, <1>2, CacheFields DEF CacheType

(* A search once changes that field and marks it.                             *)
LEMMA SearchOnceKeeps ==
  ASSUME NEW c \in CacheType, NEW f \in Fields, NEW found \in Offset,
         NEW d, d = SearchOnce(c, f, found)
  PROVE  /\ d \in CacheType
         /\ \A g \in Fields :
              d.at[g] = IF g = f /\ f \notin c.checked /\ found # None THEN found ELSE c.at[g]
         /\ d.checked = c.checked \cup {f} /\ d.binSize = c.binSize /\ d.saveType = c.saveType
         /\ d.thumb = c.thumb /\ d.jumpType = c.jumpType
<1>1. CASE f \in c.checked
  BY <1>1, CacheFields DEF SearchOnce
<1>2. CASE f \notin c.checked
  <2> DEFINE at == [c.at EXCEPT ![f] = IF found = None THEN c.at[f] ELSE found]
  <2>1. d = [c EXCEPT !.at = at, !.checked = c.checked \cup {f}]
    BY <1>2, CacheFields DEF SearchOnce
  <2>2. at \in [Fields -> Offset] /\ c.checked \cup {f} \subseteq Fields
    BY CacheFields
  <2>3. \A g \in Fields : at[g] = IF g = f /\ found # None THEN found ELSE c.at[g]
    BY CacheFields
  <2> HIDE DEF at
  <2> QED
    BY <1>2, <2>1, <2>2, <2>3, CacheFields DEF CacheType
<1> QED
  BY <1>1, <1>2

(* A reset forgets what was found in the ARM7's program.                       *)
LEMMA ResetKeeps ==
  ASSUME NEW c \in CacheType, NEW p \in Programs, c.binSize # p,
         NEW d, d = ResetFor(p, c)
  PROVE  /\ d \in CacheType
         /\ \A g \in Fields : d.at[g] = IF g \in Fields7 \ {"sdCardFuncs"} THEN None ELSE c.at[g]
         /\ d.checked = c.checked \ Fields7 /\ d.binSize = p /\ Unsearched(d)
<1> DEFINE at == [g \in Fields |-> IF g \in Fields7 \ {"sdCardFuncs"} THEN None ELSE c.at[g]]
<1> DEFINE r == RsetA7Cache(c)
<1>1. r = [c EXCEPT !.at = at, !.checked = c.checked \ Fields7, !.saveType = 0,
                    !.thumb = FALSE, !.jumpType = 0]
  BY DEF RsetA7Cache
<1>2. at \in [Fields -> Offset] /\ c.checked \ Fields7 \subseteq Fields
  BY CacheFields DEF Offset
<1>3. \A g \in Fields : at[g] = IF g \in Fields7 \ {"sdCardFuncs"} THEN None ELSE c.at[g]
  OBVIOUS
<1>4. at["jumpTable"] = None
  BY <1>3 DEF Fields, Fields7
<1>5. /\ d \in CacheType /\ d.at = at /\ d.checked = c.checked \ Fields7 /\ d.binSize = p
      /\ d.saveType = 0 /\ d.thumb = FALSE /\ d.jumpType = 0
  <2> HIDE DEF at
  <2>1. /\ r \in CacheType /\ r.at = at /\ r.checked = c.checked \ Fields7
        /\ r.saveType = 0 /\ r.thumb = FALSE /\ r.jumpType = 0
    <3> HIDE DEF r
    <3>1. /\ r.at = at /\ r.checked = c.checked \ Fields7 /\ r.binSize = c.binSize
          /\ r.saveType = 0 /\ r.jumpType = 0
      BY <1>1, <1>2, CacheFields DEF CacheType
    <3>2. r.thumb = FALSE
      BY <1>1, <1>2, CacheFields DEF CacheType
    <3>3. r.thumb \in BOOLEAN
      BY <3>2, Zenon
    <3>4. /\ r.at \in [Fields -> Offset] /\ r.checked \in SUBSET Fields
          /\ r.binSize \in Programs \cup {"none"} /\ r.saveType \in 0..2 /\ r.jumpType \in 0..1
      BY <3>1, <1>2, CacheFields
    <3>5. r = [at |-> r.at, checked |-> r.checked, binSize |-> r.binSize,
               saveType |-> r.saveType, thumb |-> r.thumb, jumpType |-> r.jumpType]
      BY <1>1, CacheFields
    <3>6. r \in CacheType
      BY <3>3, <3>4, <3>5 DEF CacheType
    <3> QED
      BY <3>1, <3>2, <3>6
  <2>2. d = [r EXCEPT !.binSize = p]
    BY DEF ResetFor
  <2> HIDE DEF r
  <2> QED
    BY <2>1, <2>2, CacheFields DEF CacheType
<1> HIDE DEF at
<1>6. Unsearched(d)
  BY <1>4, <1>5 DEF Unsearched
<1> QED
  BY <1>3, <1>5, <1>6

(* The functions of fs are patched where the cache says.                      *)
LEMMA PatchAt ==
  ASSUME NEW fs, Patch(fs), patched \in [Fields -> Offset], cache' \in CacheType
  PROVE  /\ patched' \in [Fields -> Offset]
         /\ \A f \in Fields : patched'[f] = IF f \in fs THEN cache'.at[f] ELSE patched[f]
BY CacheFields DEF Patch

-----------------------------------------------------------------------------
(* What is right does not change within a boot.                              *)
LEMMA FreshKept ==
  ASSUME UNCHANGED <<game, settings>>
  PROVE  Fresh' = Fresh /\ Program' = Program /\ Arm7' = Arm7
BY DEF Fresh, Program, Arm7, GetSleep, DmaAllowed, Found7, Found9

(* The functions of a boot without a file, one by one.                        *)
LEMMA FreshAt ==
  LET reads    == ~game.dsiWare /\ game.arm9.read # "none"
      there(f) == reads /\ f \in game.arm9.dma
      sleep == GetSleep /\ there("sleep")
      set   == ~sleep /\ DmaAllowed /\ there("cardSetDma")
  IN /\ Fresh["cardReadEnd"]    = Found9(reads, game.arm9.read)
     /\ Fresh["cardPullOut"]    = Found9(reads /\ game.arm9.read \in game.arm9.pulls, game.arm9.read)
     /\ Fresh["sleep"]          = Found9(sleep, "sleep")
     /\ Fresh["cardSetDma"]     = Found9(set, "cardSetDma")
     /\ Fresh["cardReadDma"]    = Found9(~set /\ there("cardReadDma"), "cardReadDma")
     /\ Fresh["cardEndReadDma"] = Found9(~sleep /\ DmaAllowed /\ there("cardEndReadDma"), "cardEndReadDma")
     /\ Fresh["cardIrqEnable"]  = Found7(TRUE, "irq")
     /\ Fresh["cardCheckPullOut"] =
          Found7(~game.dsiWare /\ Arm7.pull /\ ~settings.ROMinRAM /\ ~game.onFlashcard, "pull")
     /\ Fresh["jumpTable"]      = Found7(~game.dsiWare /\ Arm7.save \in Arms \cup Thumbs, Arm7.save)
     /\ Fresh["swiHalt"]        = Found7(~game.dsiWare, IF Arm7.save \in Thumbs THEN "thumb" ELSE "arm")
     /\ Fresh["sdCardFuncs"]    = Found7(game.dsiWare /\ game.onFlashcard, "sd")
<1>1. Arms \cup Thumbs = {"arm0", "arm1", "thumb0", "thumb1"}
  BY DEF Arms, Thumbs
<1> QED
  BY <1>1 DEF Fresh, Fields, Fields7, Fields9, Thumbs

(* DSiWare does not read a card, and some games without files do not.          *)
LEMMA FreshOfNoCard ==
  game.dsiWare \/ game.arm9.read = "none" =>
    \A f \in {"cardReadEnd", "cardPullOut"} \cup DmaFields : Fresh[f] = None
BY FreshAt DEF DmaFields, Found9

(* A step patches what is right, and nothing it has patched before.             *)
LEMMA SoFarGrows ==
  ASSUME SoFar, pc # "off", UNCHANGED <<game, settings>>,
         NEW fs,
         \A f \in Fields : patched'[f] = IF f \in fs THEN cache'.at[f] ELSE patched[f],
         \A f \in ByNow : f \in ByNow' /\ f \notin fs,
         fs \subseteq ByNow',
         \A f \in ByNow' \ ByNow : Right(f)'
  PROVE  SoFar'
<1> SUFFICES ASSUME NEW f \in Fields
             PROVE  IF f \in ByNow' THEN Right(f)' ELSE patched'[f] = None
  BY DEF SoFar
<1>1. CASE f \in ByNow
  <2>1. Right(f) /\ f \notin fs
    BY <1>1 DEF SoFar
  <2>2. patched'[f] = patched[f] /\ Fresh' = Fresh
    BY <2>1, FreshKept
  <2> QED
    BY <1>1, <2>1, <2>2 DEF Right
<1>2. CASE f \notin ByNow /\ f \in ByNow'
  BY <1>2
<1>3. CASE f \notin ByNow /\ f \notin ByNow'
  BY <1>3 DEF SoFar
<1> QED
  BY <1>1, <1>2, <1>3

-----------------------------------------------------------------------------
(* What a step leaves alone.                                                 *)

(* What the searches tell apart in a game.                                    *)
LEMMA GameFields ==
  ASSUME Types
  PROVE  /\ game.dsiWare \in BOOLEAN /\ game.onFlashcard \in BOOLEAN
         /\ game.arm9.read \in {"none", "type0", "type1"}
         /\ game.arm9.pulls \subseteq {"type0", "type1"} /\ game.arm9.dma \subseteq DmaFields
         /\ \A p \in Programs : /\ game.arm7[p].irq \in BOOLEAN /\ game.arm7[p].pull \in BOOLEAN
                                /\ game.arm7[p].save \in Saves
         /\ Program \in Programs
BY DEF Types, GameType, Arm9Type, ProgramType, DmaFields, Program, Programs

(* A change elsewhere leaves what is known of the card read, of DMA and of the ARM7.  *)
LEMMA ReadStays ==
  ASSUME NEW g, NEW c, NEW d, Read(g, c),
         \A f \in {"cardReadEnd", "cardPullOut"} : d.at[f] = c.at[f]
  PROVE  Read(g, d)
BY DEF Read, PullRight

LEMMA DmaStays ==
  ASSUME NEW g, NEW c, NEW d, Dma(g, c),
         \A f \in DmaFields : d.at[f] = c.at[f] /\ (f \in d.checked <=> f \in c.checked)
  PROVE  Dma(g, d)
BY DEF Dma

LEMMA Arm7Stays ==
  ASSUME NEW g, NEW c, NEW d, OfArm7(g, c),
         \A f \in Fields7 : d.at[f] = c.at[f],
         "cardCheckPullOut" \in d.checked <=> "cardCheckPullOut" \in c.checked,
         d.binSize = c.binSize, d.saveType = c.saveType, d.thumb = c.thumb, d.jumpType = c.jumpType
  PROVE  OfArm7(g, d)
BY DEF OfArm7, SdCard, Nothing, OfProgram, Unsearched, Searched, Irq, Pull, Halt, Fields7

-----------------------------------------------------------------------------
(* The steps.                                                               *)

(* The first boot finds a file of no version.                                 *)
LEMMA InitInv == Init => Inv
<1> SUFFICES ASSUME Init PROVE Inv
  OBVIOUS
<1>1. game \in GameType /\ settings \in SettingsType
  BY GamesAssumption, SettingsAssumption DEF Init
<1>2. Empty \in CacheType /\ NoOffsets(Fields) \in [Fields -> Offset]
  BY DEF Empty, NoOffsets, CacheType, Offset
<1> QED
  BY <1>1, <1>2 DEF Init, Inv, Types, Places, Route, FileKept, CacheKept, SoFar

(* An empty cache is right about every game.                                 *)
LEMMA EmptyWhole == \A g : Whole(g, Empty)
BY DEF Whole, Read, PullRight, Dma, DmaFields, OfArm7, SdCard, Nothing, Unsearched, Empty, NoOffsets,
       Fields, Fields7, Fields9

(* A boot starts with what the file holds, or with nothing.                 *)
LEMMA BootStep ==
  ASSUME Inv, NEW s \in Settings, Boot(s)
  PROVE  Inv'
<1>1. cache' \in CacheType /\ Whole(game, cache')
  <2>1. Empty \in CacheType
    BY DEF Empty, NoOffsets, CacheType, Offset
  <2> QED
    BY <2>1, EmptyWhole DEF Inv, Types, FileKept, Boot
<1>2. Types'
  BY <1>1, SettingsAssumption DEF Inv, Types, Boot, NoOffsets, Offset, Places
<1>3. Route' /\ FileKept'
  BY GameFields DEF Inv, Types, Route, FileKept, Boot
<1>4. CacheKept'
  BY <1>1 DEF Inv, CacheKept, Boot, Whole
<1>5. SoFar'
  <2>1. CASE pc' = "arm9"
    <3>1. ByNow' = {} /\ \A f \in Fields : patched'[f] = None
      BY <2>1 DEF ByNow, Boot, NoOffsets
    <3> QED
      BY <3>1 DEF SoFar
  <2>2. CASE pc' = "arm7" /\ game'.dsiWare
    <3>1. \A f \in Fields : patched'[f] = None
      BY DEF Boot, NoOffsets
    <3>2. ByNow' = {"cardReadEnd", "cardPullOut"} \cup DmaFields
      BY <2>2 DEF ByNow
    <3>3. (game.dsiWare \/ game.arm9.read = "none" =>
            \A f \in {"cardReadEnd", "cardPullOut"} \cup DmaFields : Fresh[f] = None)'
      BY FreshOfNoCard, PTL
    <3> QED
      BY <2>2, <3>1, <3>2, <3>3 DEF SoFar, Right
  <2> QED
    BY <2>1, <2>2 DEF Boot
<1> QED
  BY <1>2, <1>3, <1>4, <1>5 DEF Inv

(* An error or a power cut leaves the file as it is.                        *)
LEMMA StopStep ==
  ASSUME Inv, PowerOff \/ NoCardRead \/ NoIrqEnable
  PROVE  Inv'
<1>1. /\ pc' = "off" /\ UNCHANGED <<game, settings, file, ver>>
      /\ cache' \in {cache, Empty} /\ readType' \in {readType, "type0"}
      /\ patched' \in {patched, NoOffsets(Fields)}
  BY DEF PowerOff, NoCardRead, NoIrqEnable, Fail, Steps, Step
<1>2. Empty \in CacheType /\ NoOffsets(Fields) \in [Fields -> Offset]
  BY DEF Empty, NoOffsets, CacheType, Offset
<1>3. Types'
  BY <1>1, <1>2 DEF Inv, Types, Places
<1> QED
  BY <1>1, <1>3 DEF Inv, Route, FileKept, CacheKept, SoFar

(* Without files and card read nothing of the ARM9's is patched.               *)
LEMMA NoFilesStep ==
  ASSUME Inv, NoFiles
  PROVE  Inv'
<1> USE DEF Inv
<1>1. /\ pc = "arm9" /\ pc' = "arm7"
      /\ UNCHANGED <<game, settings, file, ver, readType, cache, patched>>
      /\ game.arm9.read = "none"
  BY DEF NoFiles, Steps, Step
<1>2. Types' /\ Route' /\ FileKept' /\ CacheKept'
  BY <1>1, FreshKept DEF Types, Route, FileKept, CacheKept, Places
<1>3. SoFar'
  <2>1. ByNow = {} /\ ByNow' = {"cardReadEnd", "cardPullOut"} \cup DmaFields
    BY <1>1 DEF ByNow
  <2>2. \A f \in Fields : patched'[f] = None
    BY <1>1, <2>1 DEF SoFar
  <2>3. \A f \in ByNow' : Fresh'[f] = None
    BY <1>1, <2>1, FreshOfNoCard, FreshKept
  <2> QED
    BY <2>2, <2>3 DEF SoFar, Right
<1> QED
  BY <1>2, <1>3

(* The search for the card read.                                            *)
LEMMA CardReadStep ==
  ASSUME Inv, PatchCardRead
  PROVE  Inv'
<1> USE DEF Inv
<1> DEFINE found == <<"game", game.arm9.read>>
<1>1. /\ pc = "arm9" /\ pc' = "pull" /\ UNCHANGED <<game, settings, file, ver>>
      /\ cache' = Search(cache, "cardReadEnd", found)
      /\ game.arm9.read # "none" /\ Patch({"cardReadEnd"}) /\ ~game.dsiWare
  BY DEF PatchCardRead, Step, Found9, Route
<1>2. found \in Offset /\ "cardReadEnd" \in Fields /\ cache \in CacheType
  <2>1. game.arm9.read \in Forms
    BY <1>1, GameFields DEF Forms
  <2> QED
    BY <2>1 DEF Offset, Fields, Fields9, Types
<1>3. /\ cache' \in CacheType
      /\ \A g \in Fields : cache'.at[g] = IF g = "cardReadEnd" /\ cache.at["cardReadEnd"] = None
                                          THEN found ELSE cache.at[g]
      /\ cache'.checked = cache.checked /\ cache'.binSize = cache.binSize
      /\ cache'.saveType = cache.saveType /\ cache'.thumb = cache.thumb
      /\ cache'.jumpType = cache.jumpType
  BY <1>1, <1>2, SearchKeeps
<1>4. /\ patched' \in [Fields -> Offset]
      /\ \A f \in Fields : patched'[f] = IF f \in {"cardReadEnd"} THEN cache'.at[f] ELSE patched[f]
  BY <1>1, <1>3, PatchAt DEF Types
<1>5. Types' /\ Route' /\ FileKept'
  BY <1>1, <1>3, <1>4, GameFields DEF Types, Route, FileKept, Places, PatchCardRead
<1>6. cache'.at["cardReadEnd"] = found
  BY <1>1, <1>3 DEF CacheKept, Read, Fields, Fields9
<1>7. CacheKept'
  <2>1. Reading'
    BY <1>1, <1>3, <1>6, NoneApart DEF CacheKept, Read, Reading, PullRight, Fields, Fields9, PatchCardRead
  <2>2. Dma(game, cache') /\ OfArm7(game, cache')
    BY <1>1, <1>3, DmaStays, Arm7Stays DEF CacheKept, Fields, Fields7, Fields9, DmaFields
  <2> QED
    BY <1>1, <2>1, <2>2 DEF CacheKept
<1>8. SoFar'
  <2>1. ByNow = {} /\ ByNow' = {"cardReadEnd"}
    BY <1>1 DEF ByNow
  <2>2. Right("cardReadEnd")'
    BY <1>1, <1>2, <1>4, <1>6, FreshAt, FreshKept DEF Right, Found9
  <2> QED
    BY <1>1, <1>4, <2>1, <2>2, SoFarGrows
<1> QED
  BY <1>5, <1>7, <1>8

(* The pull-out function is searched for by the type of the card read.      *)
LEMMA PullOutStep ==
  ASSUME Inv, PatchCardPullOut
  PROVE  Inv'
<1> USE DEF Inv
<1> DEFINE found == Found9(readType \in game.arm9.pulls, readType)
<1>1. /\ pc = "pull" /\ pc' = "dma" /\ UNCHANGED <<game, settings, file, ver, readType>>
      /\ cache' = Search(cache, "cardPullOut", found) /\ Patch({"cardPullOut"}) /\ ~game.dsiWare
      /\ game.arm9.read # "none"
  BY DEF PatchCardPullOut, Steps, Step, Route
<1>2. found \in Offset /\ "cardPullOut" \in Fields /\ cache \in CacheType
  <2>1. readType \in Forms
    BY DEF Types, Forms
  <2> QED
    BY <2>1 DEF Found9, Offset, Fields, Fields9, Types
<1>3. /\ cache' \in CacheType
      /\ \A g \in Fields : cache'.at[g] = IF g = "cardPullOut" /\ cache.at["cardPullOut"] = None
                                          THEN found ELSE cache.at[g]
      /\ cache'.checked = cache.checked /\ cache'.binSize = cache.binSize
      /\ cache'.saveType = cache.saveType /\ cache'.thumb = cache.thumb
      /\ cache'.jumpType = cache.jumpType
  BY <1>1, <1>2, SearchKeeps
<1>4. /\ patched' \in [Fields -> Offset]
      /\ \A f \in Fields : patched'[f] = IF f \in {"cardPullOut"} THEN cache'.at[f] ELSE patched[f]
  BY <1>1, <1>3, PatchAt DEF Types
<1>5. Types' /\ Route' /\ FileKept'
  BY <1>1, <1>3, <1>4 DEF Types, Route, FileKept, Places
<1>6. PullRight(game, cache')
  BY <1>1, <1>3, NoneApart DEF CacheKept, Reading, PullRight, Fields, Fields9, Found9
<1>7. CacheKept'
  <2>1. Read(game, cache')
    BY <1>1, <1>3, <1>6, NoneApart DEF CacheKept, Reading, Read, Fields, Fields9
  <2>2. Dma(game, cache') /\ OfArm7(game, cache')
    BY <1>1, <1>3, DmaStays, Arm7Stays DEF CacheKept, Fields, Fields7, Fields9, DmaFields
  <2> QED
    BY <1>1, <2>1, <2>2 DEF CacheKept
<1>8. SoFar'
  <2>1. ByNow = {"cardReadEnd"} /\ ByNow' = {"cardReadEnd", "cardPullOut"}
    BY <1>1 DEF ByNow
  <2>2. Right("cardPullOut")'
    <3>1. Fresh["cardPullOut"] = Found9(game.arm9.read \in game.arm9.pulls, game.arm9.read)
      BY <1>1, FreshAt DEF Found9
    <3>2. CASE game.arm9.read \in game.arm9.pulls
      BY <3>1, <3>2, <1>1, <1>2, <1>4, <1>6, FreshKept DEF Right, Found9, PullRight
    <3>3. CASE game.arm9.read \notin game.arm9.pulls
      BY <3>1, <3>3, <1>1, FreshKept DEF Right, Found9
    <3> QED
      BY <3>2, <3>3
  <2> QED
    BY <1>1, <1>4, <2>1, <2>2, SoFarGrows
<1> QED
  BY <1>5, <1>7, <1>8

(* What searches of PatchDma leave alone: all but its fields.                  *)
DmaOnly(c, d) ==
  /\ \A f \in Fields \ DmaFields : d.at[f] = c.at[f] /\ (f \in d.checked <=> f \in c.checked)
  /\ c.checked \subseteq d.checked
  /\ d.binSize = c.binSize /\ d.saveType = c.saveType /\ d.thumb = c.thumb
  /\ d.jumpType = c.jumpType

(* One search of PatchDma.                                                  *)
LEMMA OntoKeeps ==
  ASSUME NEW c \in CacheType, Dma(game, c), NEW f \in DmaFields, NEW d, d = Onto(c, f)
  PROVE  /\ d \in CacheType /\ Dma(game, d) /\ DmaOnly(c, d)
         /\ f \in d.checked /\ (d.at[f] # None <=> f \in game.arm9.dma)
<1> DEFINE found == Found9(f \in game.arm9.dma, f)
<1>1. found \in Offset /\ f \in Fields
  <2>1. f \in Forms
    BY DEF Forms, DmaFields
  <2> QED
    BY <2>1 DEF Found9, Offset, Fields, Fields9, DmaFields
<1>2. /\ d \in CacheType
      /\ \A g \in Fields :
           d.at[g] = IF g = f /\ f \notin c.checked /\ found # None THEN found ELSE c.at[g]
      /\ d.checked = c.checked \cup {f} /\ d.binSize = c.binSize /\ d.saveType = c.saveType
      /\ d.thumb = c.thumb /\ d.jumpType = c.jumpType
  <2>1. d = SearchOnce(c, f, found)
    BY DEF Onto
  <2> HIDE DEF found
  <2> QED
    BY <1>1, <2>1, SearchOnceKeeps
<1>3. DmaOnly(c, d)
  BY <1>2 DEF DmaOnly
<1>4. \A g \in DmaFields : d.at[g] = IF g \in d.checked THEN Found9(g \in game.arm9.dma, g) ELSE None
  <2> TAKE g \in DmaFields
  <2>1. g \in Fields
    BY DEF Fields, Fields9, DmaFields
  <2>2. c.at[g] = IF g \in c.checked THEN Found9(g \in game.arm9.dma, g) ELSE None
    BY DEF Dma
  <2> QED
    BY <1>2, <2>1, <2>2
<1>5. d.at[f] # None <=> f \in game.arm9.dma
  BY <1>2, <1>4, NoneApart DEF Found9
<1> QED
  BY <1>2, <1>3, <1>4, <1>5 DEF Dma

(* The searches for DMA and sleep, which depend on each other.              *)
LEMMA DmaStep ==
  ASSUME Inv, PatchDma
  PROVE  Inv'
<1> USE DEF Inv
<1> DEFINE slept == IF GetSleep THEN Onto(cache, "sleep") ELSE cache
           sleep == GetSleep /\ slept.at["sleep"] # None
           set   == IF ~sleep /\ DmaAllowed THEN Onto(slept, "cardSetDma") ELSE slept
           sets  == ~sleep /\ DmaAllowed /\ set.at["cardSetDma"] # None
           read  == IF sets THEN set ELSE Onto(set, "cardReadDma")
           ends  == ~sleep /\ DmaAllowed
           fs    == (IF sleep THEN {"sleep"} ELSE {})
                      \cup (IF sets THEN {"cardSetDma"} ELSE {"cardReadDma"})
                      \cup (IF ends THEN {"cardEndReadDma"} ELSE {})
<1>1. /\ pc = "dma" /\ pc' = "arm7" /\ UNCHANGED <<game, settings, file, ver, readType>>
      /\ ~game.dsiWare /\ game.arm9.read # "none"
  BY DEF PatchDma, Steps, Step, Route
<1>2. cache' = IF ends THEN Onto(read, "cardEndReadDma") ELSE read
  BY DEF PatchDma
<1>3. Patch(fs)
  BY DEF PatchDma
<1>4. cache \in CacheType /\ Dma(game, cache) /\ Read(game, cache) /\ OfArm7(game, cache)
  BY <1>1 DEF Types, CacheKept
<1>5. /\ slept \in CacheType /\ Dma(game, slept) /\ DmaOnly(cache, slept)
      /\ GetSleep => "sleep" \in slept.checked /\ (slept.at["sleep"] # None <=> "sleep" \in game.arm9.dma)
  BY <1>4, OntoKeeps DEF DmaFields, DmaOnly
<1>6. sleep <=> GetSleep /\ "sleep" \in game.arm9.dma
  BY <1>5
<1> HIDE DEF slept, sleep
<1>7. /\ set \in CacheType /\ Dma(game, set) /\ DmaOnly(slept, set)
      /\ ~sleep /\ DmaAllowed => "cardSetDma" \in set.checked
      /\ ~sleep /\ DmaAllowed => (set.at["cardSetDma"] # None <=> "cardSetDma" \in game.arm9.dma)
  BY <1>5, OntoKeeps DEF DmaFields, DmaOnly
<1>8. sets <=> ~sleep /\ DmaAllowed /\ "cardSetDma" \in game.arm9.dma
  BY <1>7
<1> HIDE DEF set, sets
<1>9. /\ read \in CacheType /\ Dma(game, read) /\ DmaOnly(set, read)
      /\ ~sets => "cardReadDma" \in read.checked
  BY <1>7, OntoKeeps DEF DmaFields, DmaOnly
<1> HIDE DEF read
<1>10. /\ cache' \in CacheType /\ Dma(game, cache') /\ DmaOnly(read, cache')
       /\ ends => "cardEndReadDma" \in cache'.checked
  BY <1>2, <1>9, OntoKeeps DEF DmaFields, DmaOnly
<1>11. DmaOnly(cache, cache')
  BY <1>5, <1>7, <1>9, <1>10 DEF DmaOnly
<1>12. /\ sleep => "sleep" \in cache'.checked
       /\ sets => "cardSetDma" \in cache'.checked
       /\ ~sets => "cardReadDma" \in cache'.checked
  BY <1>5, <1>6, <1>7, <1>8, <1>9, <1>10 DEF DmaOnly
<1>13. /\ patched' \in [Fields -> Offset]
       /\ \A f \in Fields : patched'[f] = IF f \in fs THEN cache'.at[f] ELSE patched[f]
  <2> HIDE DEF fs
  <2> QED
    BY <1>3, <1>10, PatchAt DEF Types
<1>14. Types' /\ Route' /\ FileKept'
  BY <1>1, <1>10, <1>13 DEF Types, Route, FileKept, Places
<1>15. CacheKept'
  <2>1. Read(game, cache') /\ OfArm7(game, cache')
    BY <1>4, <1>11, ReadStays, Arm7Stays DEF DmaOnly, Fields, Fields7, Fields9, DmaFields
  <2> QED
    BY <1>1, <1>10, <2>1 DEF CacheKept
<1>16. SoFar'
  <2>1. /\ ByNow = {"cardReadEnd", "cardPullOut"}
        /\ ByNow' = {"cardReadEnd", "cardPullOut"} \cup DmaFields
    BY <1>1 DEF ByNow
  <2>2. fs \subseteq DmaFields
    BY DEF DmaFields
  <2>3. ASSUME NEW f \in DmaFields PROVE patched'[f] = Fresh[f]
    <3>1. f \in Fields /\ f \notin ByNow
      BY <2>1 DEF Fields, Fields9, DmaFields
    <3>2. patched[f] = None
      BY <1>1, <3>1 DEF SoFar
    <3>3. f \in fs => f \in cache'.checked
      BY <1>10, <1>12
    <3>4. patched'[f] = Found9(f \in fs /\ f \in game.arm9.dma, f)
      BY <1>10, <1>13, <3>1, <3>2, <3>3 DEF Dma, Found9
    <3>5. Fresh[f] = Found9(f \in fs /\ f \in game.arm9.dma, f)
      BY <1>1, <1>6, <1>8, FreshAt DEF DmaFields, Found9
    <3> QED
      BY <3>4, <3>5
  <2>4. \A f \in DmaFields : Right(f)'
    BY <1>1, <2>3, FreshKept DEF Right
  <2> HIDE DEF fs
  <2> QED
    BY <1>1, <1>13, <2>1, <2>2, <2>4, SoFarGrows DEF DmaFields
<1> QED
  BY <1>14, <1>15, <1>16

(* Whatever program was here before, now its fields are those of the program p.    *)
LEMMA ResetRight ==
  ASSUME NEW c \in CacheType, NEW p \in Programs, OfArm7(game, c), NEW d, d = ResetFor(p, c)
  PROVE  /\ d \in CacheType /\ d.binSize = p /\ SdCard(d) /\ OfProgram(game, d, p)
         /\ \A f \in Fields9 : d.at[f] = c.at[f] /\ (f \in d.checked <=> f \in c.checked)
<1>1. CASE c.binSize = p
  <2>1. d = c /\ p # "none"
    BY <1>1 DEF ResetFor, Programs
  <2> QED
    BY <1>1, <2>1 DEF OfArm7
<1>2. CASE c.binSize # p
  <2>1. /\ d \in CacheType
        /\ \A g \in Fields : d.at[g] = IF g \in Fields7 \ {"sdCardFuncs"} THEN None ELSE c.at[g]
        /\ d.checked = c.checked \ Fields7 /\ d.binSize = p /\ Unsearched(d)
    BY <1>2, ResetKeeps
  <2>2. SdCard(d) /\ \A f \in Fields9 : d.at[f] = c.at[f] /\ (f \in d.checked <=> f \in c.checked)
    BY <2>1 DEF OfArm7, SdCard, Fields, Fields7, Fields9
  <2>3. /\ d.at["cardIrqEnable"] = None /\ d.at["cardCheckPullOut"] = None /\ d.at["swiHalt"] = None
        /\ "cardCheckPullOut" \notin d.checked
    BY <2>1 DEF Fields, Fields7
  <2> QED
    BY <2>1, <2>2, <2>3 DEF OfProgram, Irq, Pull, Halt
<1> QED
  BY <1>1, <1>2

(* The first search in the ARM7's program, and the reset before it.         *)
LEMMA IrqEnableStep ==
  ASSUME Inv, PatchIrqEnable
  PROVE  Inv'
<1> USE DEF Inv
<1> DEFINE irq   == <<Program, "irq">>
           pull  == Found7(Arm7.pull, "pull")
           reset == ResetFor(Program, cache)
           c     == Search(reset, "cardIrqEnable", irq)
           pulls == ~game.dsiWare /\ ~settings.ROMinRAM /\ ~game.onFlashcard
           fs    == {"cardIrqEnable"} \cup (IF pulls THEN {"cardCheckPullOut"} ELSE {})
<1>1. /\ pc = "arm7" /\ pc' \in {"sdCard", "save"} /\ UNCHANGED <<game, settings, file, ver, readType>>
      /\ pc' = "sdCard" <=> game.dsiWare
  BY DEF PatchIrqEnable, Steps, Step
<1>2. cache' = IF pulls THEN SearchOnce(c, "cardCheckPullOut", pull) ELSE c
  BY DEF PatchIrqEnable, Found7
<1>3. Patch(fs)
  BY DEF PatchIrqEnable
<1>4. cache \in CacheType /\ Dma(game, cache) /\ Read(game, cache) /\ OfArm7(game, cache)
  BY <1>1 DEF Types, CacheKept
<1>5. Program \in Programs
  BY GameFields
<1>6. /\ reset \in CacheType /\ reset.binSize = Program /\ SdCard(reset)
      /\ OfProgram(game, reset, Program)
      /\ \A f \in Fields9 : reset.at[f] = cache.at[f] /\ (f \in reset.checked <=> f \in cache.checked)
  BY <1>4, <1>5, ResetRight
<1>7. irq \in Offset /\ pull \in Offset
  BY <1>5 DEF Found7, Offset, Forms
<1> HIDE DEF reset
<1>8. /\ c \in CacheType
      /\ \A g \in Fields :
           c.at[g] = IF g = "cardIrqEnable" /\ reset.at["cardIrqEnable"] = None THEN irq ELSE reset.at[g]
      /\ c.checked = reset.checked /\ c.binSize = Program /\ c.saveType = reset.saveType
      /\ c.thumb = reset.thumb /\ c.jumpType = reset.jumpType
  <2> HIDE DEF irq
  <2> QED
    BY <1>6, <1>7, SearchKeeps DEF Fields, Fields7
<1>9. c.at["cardIrqEnable"] = irq
  BY <1>6, <1>8, NoneApart DEF OfProgram, Irq, Fields, Fields7
<1> HIDE DEF c
<1>10. /\ cache' \in CacheType
       /\ \A g \in Fields :
            cache'.at[g] = IF pulls /\ g = "cardCheckPullOut" /\ "cardCheckPullOut" \notin c.checked
                                 /\ pull # None THEN pull ELSE c.at[g]
       /\ cache'.checked = c.checked \cup (IF pulls THEN {"cardCheckPullOut"} ELSE {})
       /\ cache'.binSize = Program /\ cache'.saveType = reset.saveType
       /\ cache'.thumb = reset.thumb /\ cache'.jumpType = reset.jumpType
  <2>1. CASE pulls
    <3> HIDE DEF pull, pulls
    <3> QED
      BY <1>2, <1>7, <1>8, <2>1, SearchOnceKeeps DEF Fields, Fields7
  <2>2. CASE ~pulls
    <3> HIDE DEF pull, pulls
    <3> QED
      BY <1>2, <1>8, <2>2
  <2> QED
    BY <2>1, <2>2
<1>11. Pull(game, cache', Program) /\ (pulls => cache'.at["cardCheckPullOut"] = pull)
  <2>1. /\ reset.at["cardCheckPullOut"] =
             IF "cardCheckPullOut" \in reset.checked /\ Arm7.pull THEN <<Program, "pull">> ELSE None
        /\ c.at["cardCheckPullOut"] = reset.at["cardCheckPullOut"]
    BY <1>6, <1>8 DEF OfProgram, Pull, Arm7, Fields, Fields7
  <2>2. pull = IF Arm7.pull THEN <<Program, "pull">> ELSE None
    BY DEF Found7
  <2> HIDE DEF pull, pulls
  <2> QED
    BY <1>8, <1>10, <2>1, <2>2, NoneApart DEF Pull, Arm7, Fields, Fields7
<1>12. /\ patched' \in [Fields -> Offset]
       /\ \A f \in Fields : patched'[f] = IF f \in fs THEN cache'.at[f] ELSE patched[f]
  <2> HIDE DEF fs
  <2> QED
    BY <1>3, <1>10, PatchAt DEF Types
<1>13. Types' /\ Route' /\ FileKept'
  BY <1>1, <1>10, <1>12 DEF Types, Route, FileKept, Places
<1>14. CacheKept'
  <2> HIDE DEF pull, pulls
  <2>1. \A f \in Fields9 : cache'.at[f] = cache.at[f] /\ (f \in cache'.checked <=> f \in cache.checked)
    BY <1>6, <1>8, <1>10 DEF Fields, Fields7, Fields9
  <2>2. Read(game, cache') /\ Dma(game, cache')
    BY <1>4, <2>1, ReadStays, DmaStays DEF Fields9, DmaFields
  <2>3. OfProgram(game, cache', Program) /\ SdCard(cache')
    BY <1>6, <1>8, <1>9, <1>10, <1>11
       DEF OfProgram, Irq, Unsearched, Searched, Halt, SdCard, Fields, Fields7
  <2>4. OfArm7(game, cache')
    BY <1>5, <1>10, <2>3 DEF OfArm7, Programs
  <2> QED
    BY <1>1, <1>10, <2>2, <2>4, FreshKept DEF CacheKept
<1>15. SoFar'
  <2>1. /\ ByNow = {"cardReadEnd", "cardPullOut"} \cup DmaFields
        /\ ByNow' = {"cardReadEnd", "cardPullOut"} \cup DmaFields \cup {"cardIrqEnable", "cardCheckPullOut"}
    BY <1>1 DEF ByNow
  <2>2. Right("cardIrqEnable")'
    <3>1. cache'.at["cardIrqEnable"] = irq
      BY <1>9, <1>10 DEF Fields, Fields7
    <3> QED
      BY <1>1, <1>12, <3>1, FreshAt, FreshKept DEF Right, Found7, Fields, Fields7
  <2>3. Right("cardCheckPullOut")'
    <3>1. patched["cardCheckPullOut"] = None
      BY <1>1, <2>1 DEF SoFar, DmaFields, Fields, Fields7
    <3>2. CASE pulls
      BY <1>1, <1>11, <1>12, <3>2, FreshAt, FreshKept DEF Right, Found7, Fields, Fields7
    <3>3. CASE ~pulls
      BY <1>1, <1>12, <3>1, <3>3, FreshAt, FreshKept DEF Right, Found7, Fields, Fields7
    <3> QED
      BY <3>2, <3>3
  <2>4. fs \subseteq {"cardIrqEnable", "cardCheckPullOut"}
    OBVIOUS
  <2> HIDE DEF fs
  <2> QED
    BY <1>1, <1>12, <2>1, <2>2, <2>3, <2>4, SoFarGrows DEF DmaFields
<1> QED
  BY <1>13, <1>14, <1>15

(* What savePatchUniversal changes of a cache.                                *)
KeepJump(c, form, t, th) ==
  [c EXCEPT !.at["jumpTable"] = IF @ = None THEN <<Program, form>> ELSE @,
            !.jumpType = t, !.thumb = th]

(* That change, field by field.                                             *)
LEMMA KeepJumpKeeps ==
  ASSUME NEW c \in CacheType, NEW form \in Forms, NEW t \in 0..1, NEW th \in BOOLEAN,
         Program \in Programs, NEW d, d = KeepJump(c, form, t, th)
  PROVE  /\ d \in CacheType
         /\ \A g \in Fields : d.at[g] = IF g = "jumpTable" /\ c.at["jumpTable"] = None
                                      THEN <<Program, form>> ELSE c.at[g]
         /\ d.checked = c.checked /\ d.binSize = c.binSize /\ d.saveType = c.saveType
         /\ d.thumb = th /\ d.jumpType = t
<1> DEFINE found == <<Program, form>>
           at == [c.at EXCEPT !["jumpTable"] = IF c.at["jumpTable"] = None THEN found ELSE c.at["jumpTable"]]
<1>1. d = [c EXCEPT !.at = at, !.jumpType = t, !.thumb = th]
  BY CacheFields DEF KeepJump
<1>2. found \in Offset /\ "jumpTable" \in Fields
  BY DEF Offset, Fields, Fields7
<1>3. /\ at \in [Fields -> Offset]
      /\ \A g \in Fields : at[g] = IF g = "jumpTable" /\ c.at["jumpTable"] = None THEN found ELSE c.at[g]
  BY <1>2, CacheFields
<1> HIDE DEF at
<1> QED
  BY <1>1, <1>3, CacheFields DEF CacheType

(* The third patch of saves finds the form that is there, again or for the first    *)
(* time, and leaves a program without one alone.                              *)
LEMMA UniversalFinds ==
  ASSUME NEW c \in CacheType, Program \in Programs, NEW save \in Saves, save = Arm7.save,
         Unsearched(c) \/ Searched(save, c, Program)
  PROVE  /\ save = "arm0"   => Universal(c) = KeepJump(c, "arm0", 0, FALSE)
         /\ save = "arm1"   => Universal(c) = KeepJump(c, "arm1", 1, FALSE)
         /\ save = "thumb0" => Universal(c) = KeepJump(c, "thumb0", 0, TRUE)
         /\ save = "thumb1" => Universal(c) = KeepJump(c, "thumb1", 1, TRUE)
         /\ save \notin Arms \cup Thumbs /\ Unsearched(c) => Universal(c) = c
<1> DEFINE known == c.at["jumpTable"] # None
           type  == IF c.jumpType = 0 /\ ~c.thumb /\ ~(known \/ save \in {"arm0"}) THEN 1
                    ELSE c.jumpType
           arm   == ~c.thumb /\ (type = 0 \/ (known \/ save \in {"arm1"}))
           thumbType == IF c.thumb /\ type = 1 THEN 1 ELSE IF save = "thumb0" THEN 0 ELSE 1
<1>1. Universal(c) =
        IF arm THEN KeepJump(c, IF type = 0 THEN "arm0" ELSE "arm1", type, FALSE)
        ELSE IF known \/ save \in {"thumb0", "thumb1"}
             THEN KeepJump(c, IF thumbType = 0 THEN "thumb0" ELSE "thumb1", thumbType, TRUE)
             ELSE c
  BY DEF Universal, KeepJump
<1>2. Unsearched(c) => ~known /\ c.jumpType = 0 /\ ~c.thumb
  BY DEF Unsearched
<1>3. Searched(save, c, Program) =>
        /\ known <=> save \in Arms \cup Thumbs
        /\ c.thumb <=> save \in Thumbs
        /\ c.jumpType = IF save \in {"arm1", "thumb1"} THEN 1 ELSE 0
  BY NoneApart DEF Searched
<1>4. CASE save = "arm0"
  <2>1. arm /\ type = 0 /\ save \notin Thumbs
    BY <1>2, <1>3, <1>4 DEF Arms, Thumbs
  <2> HIDE DEF arm, type
  <2> QED
    BY <1>1, <1>4, <2>1 DEF Arms, Thumbs
<1>5. CASE save = "arm1"
  <2>1. arm /\ type = 1 /\ save \notin Thumbs
    BY <1>2, <1>3, <1>5 DEF Arms, Thumbs
  <2> HIDE DEF arm, type
  <2> QED
    BY <1>1, <1>5, <2>1 DEF Arms, Thumbs
<1>6. CASE save = "thumb0"
  <2>1. ~arm /\ thumbType = 0 /\ save \in Thumbs /\ save \notin Arms
    BY <1>2, <1>3, <1>6 DEF Arms, Thumbs
  <2> HIDE DEF arm, thumbType
  <2> QED
    BY <1>1, <1>6, <2>1 DEF Arms, Thumbs
<1>7. CASE save = "thumb1"
  <2>1. ~arm /\ thumbType = 1 /\ save \in Thumbs /\ save \notin Arms
    BY <1>2, <1>3, <1>7 DEF Arms, Thumbs
  <2> HIDE DEF arm, thumbType
  <2> QED
    BY <1>1, <1>7, <2>1 DEF Arms, Thumbs
<1>8. CASE save \notin Arms \cup Thumbs
  <2>1. Unsearched(c) => ~arm /\ ~(known \/ save \in {"thumb0", "thumb1"})
    BY <1>2, <1>8 DEF Arms, Thumbs
  <2>2. save \notin {"arm0", "arm1", "thumb0", "thumb1"}
    BY <1>8 DEF Arms, Thumbs
  <2> HIDE DEF arm, known
  <2> QED
    BY <1>1, <1>8, <2>1, <2>2
<1> QED
  BY <1>4, <1>5, <1>6, <1>7, <1>8 DEF Arms, Thumbs

(* The save patches.                                                        *)
LEMMA SaveStep ==
  ASSUME Inv, PatchSave
  PROVE  Inv'
<1> USE DEF Inv
<1> DEFINE save == Arm7.save
           c    == IF SaveType = 2 THEN Universal(cache) ELSE cache
           fits == SaveType < 2 \/ c.at["jumpTable"] # None
           fs   == IF SaveType = 2 THEN {"jumpTable"} ELSE {}
<1>1. /\ pc = "save" /\ pc' = "halt" /\ UNCHANGED <<game, settings, file, ver, readType>>
      /\ ~game.dsiWare /\ Patch(fs)
      /\ cache' = [c EXCEPT !.saveType = IF fits THEN SaveType ELSE 0]
  BY DEF PatchSave, Steps, Step, Route
<1>2. /\ cache \in CacheType /\ Dma(game, cache) /\ Read(game, cache) /\ OfArm7(game, cache)
      /\ cache.binSize = Program /\ Program \in Programs /\ save \in Saves
  BY <1>1, GameFields DEF Types, CacheKept, Arm7
<1>3. /\ Unsearched(cache) \/ Searched(save, cache, Program)
      /\ SdCard(cache) /\ Irq(cache, Program) /\ Pull(game, cache, Program) /\ Halt(save, cache, Program)
  BY <1>2 DEF OfArm7, OfProgram, Programs, Arm7
<1>4. /\ SaveType = IF save = "v1" THEN 0 ELSE IF save = "v2" THEN 1 ELSE 2
      /\ save \in Arms \cup Thumbs <=> save \notin {"v1", "v2", "none"}
      /\ save \notin Arms \cup Thumbs /\ save # "v2" => Unsearched(cache)
  <2>1. Unsearched(cache) => cache.saveType = 0
    BY DEF Unsearched
  <2>2. Searched(save, cache, Program) =>
          cache.saveType = IF save = "v2" THEN 1 ELSE IF save \in Arms \cup Thumbs THEN 2 ELSE 0
    BY DEF Searched
  <2>3. save \in Arms \cup Thumbs <=> save \notin {"v1", "v2", "none"}
    BY <1>2 DEF Saves, Arms, Thumbs
  <2>4. save \notin Arms \cup Thumbs /\ save # "v2" => Unsearched(cache)
    BY <1>2, <1>3, CacheFields DEF Searched, Unsearched, Arms, Thumbs
  <2>5. SaveType = IF save = "v1" THEN 0 ELSE IF save = "v2" THEN 1 ELSE 2
    BY <1>3, <2>1, <2>2, <2>3 DEF SaveType
  <2> QED
    BY <2>3, <2>4, <2>5
<1> DEFINE form == save \in Arms \cup Thumbs
<1>5. /\ c \in CacheType
      /\ \A g \in Fields : c.at[g] = IF form /\ g = "jumpTable" THEN <<Program, save>> ELSE cache.at[g]
      /\ ~form => c = cache
      /\ c.checked = cache.checked /\ c.binSize = cache.binSize
      /\ form => /\ c.thumb <=> save \in Thumbs
                 /\ c.jumpType = IF save \in {"arm1", "thumb1"} THEN 1 ELSE 0
  <2>1. /\ save = "arm0"   => Universal(cache) = KeepJump(cache, "arm0", 0, FALSE)
        /\ save = "arm1"   => Universal(cache) = KeepJump(cache, "arm1", 1, FALSE)
        /\ save = "thumb0" => Universal(cache) = KeepJump(cache, "thumb0", 0, TRUE)
        /\ save = "thumb1" => Universal(cache) = KeepJump(cache, "thumb1", 1, TRUE)
        /\ save \notin Arms \cup Thumbs /\ Unsearched(cache) => Universal(cache) = cache
    BY <1>2, <1>3, UniversalFinds
  <2>2. CASE ~form
    <3>1. save # "v2" => Universal(cache) = cache
      BY <1>4, <2>1, <2>2
    <3>2. SaveType = 2 => save # "v2"
      BY <1>4
    <3>3. c = cache
      BY <3>1, <3>2
    <3> HIDE DEF c
    <3> QED
      BY <1>2, <2>2, <3>3
  <2>3. CASE form
    <3>1. c = Universal(cache)
      BY <1>4, <2>3
    <3>2. \E t \in 0..1, th \in BOOLEAN :
            /\ c = KeepJump(cache, save, t, th)
            /\ th <=> save \in Thumbs
            /\ t = IF save \in {"arm1", "thumb1"} THEN 1 ELSE 0
      <4> HIDE DEF c
      <4>1. CASE save = "arm0"
        <5> WITNESS 0 \in 0..1, FALSE \in BOOLEAN
        <5> QED
          BY <2>1, <3>1, <4>1 DEF Thumbs
      <4>2. CASE save = "arm1"
        <5> WITNESS 1 \in 0..1, FALSE \in BOOLEAN
        <5> QED
          BY <2>1, <3>1, <4>2 DEF Thumbs
      <4>3. CASE save = "thumb0"
        <5> WITNESS 0 \in 0..1, TRUE \in BOOLEAN
        <5> QED
          BY <2>1, <3>1, <4>3 DEF Thumbs
      <4>4. CASE save = "thumb1"
        <5> WITNESS 1 \in 0..1, TRUE \in BOOLEAN
        <5> QED
          BY <2>1, <3>1, <4>4 DEF Thumbs
      <4> QED
        BY <2>3, <4>1, <4>2, <4>3, <4>4 DEF Arms, Thumbs
    <3>3. save \in Forms
      BY <1>2 DEF Forms
    <3>4. "jumpTable" \in Fields /\ cache.at["jumpTable"] \in {None, <<Program, save>>}
      BY <1>3, <2>3 DEF Unsearched, Searched, Fields, Fields7
    <3> HIDE DEF c, form
    <3> QED
      BY <1>2, <2>3, <3>2, <3>3, <3>4, KeepJumpKeeps
  <2> QED
    BY <2>2, <2>3
<1> HIDE DEF c
<1>6. /\ cache' \in CacheType /\ cache'.at = c.at /\ cache'.checked = c.checked
      /\ cache'.binSize = c.binSize /\ cache'.thumb = c.thumb /\ cache'.jumpType = c.jumpType
      /\ cache'.saveType = (IF fits THEN SaveType ELSE 0)
  <2>1. (IF fits THEN SaveType ELSE 0) \in 0..2
    BY <1>4
  <2> HIDE DEF fits
  <2> QED
    BY <1>1, <1>5, <2>1, CacheFields DEF CacheType
<1>7. Searched(save, cache', Program)
  <2>1. CASE form
    <3>1. cache'.at["jumpTable"] = <<Program, save>> /\ fits /\ SaveType = 2 /\ save # "v2"
      BY <1>4, <1>5, <1>6, <2>1, NoneApart DEF Fields, Fields7
    <3> HIDE DEF fits
    <3> QED
      BY <1>5, <1>6, <2>1, <3>1 DEF Searched
  <2>2. CASE ~form /\ save # "v2"
    <3>1. Unsearched(cache) /\ c = cache
      BY <1>4, <1>5, <2>2
    <3>2. (IF fits THEN SaveType ELSE 0) = 0
      BY <1>4, <2>2, <3>1 DEF Unsearched, Arms, Thumbs, Saves
    <3>3. save \notin Thumbs /\ save \notin {"arm1", "thumb1"}
      BY <2>2 DEF Arms, Thumbs
    <3> HIDE DEF fits
    <3> QED
      BY <1>6, <2>2, <3>1, <3>2, <3>3 DEF Searched, Unsearched
  <2>3. CASE save = "v2"
    <3>1. ~form /\ c = cache /\ fits /\ SaveType = 1
      BY <1>4, <1>5, <2>3
    <3>2. cache.at["jumpTable"] = None /\ ~cache.thumb /\ cache.jumpType = 0
      BY <1>3, <2>3, <3>1 DEF Unsearched, Searched, Thumbs
    <3>3. save \notin Thumbs /\ save \notin {"arm1", "thumb1"}
      BY <2>3 DEF Thumbs
    <3> HIDE DEF fits
    <3> QED
      BY <1>6, <2>3, <3>1, <3>2, <3>3 DEF Searched
  <2> QED
    BY <2>1, <2>2, <2>3
<1>8. \A f \in Fields \ {"jumpTable"} : cache'.at[f] = cache.at[f]
  BY <1>5, <1>6
<1> HIDE DEF fits
<1>9. /\ patched' \in [Fields -> Offset]
      /\ \A f \in Fields : patched'[f] = IF f \in fs THEN cache'.at[f] ELSE patched[f]
  <2> HIDE DEF fs
  <2> QED
    BY <1>1, <1>6, PatchAt DEF Types
<1>10. Types' /\ Route' /\ FileKept'
  BY <1>1, <1>6, <1>9 DEF Types, Route, FileKept, Places
<1>11. CacheKept'
  <2>1. Read(game, cache') /\ Dma(game, cache')
    BY <1>2, <1>5, <1>6, <1>8, ReadStays, DmaStays DEF Fields, Fields9, DmaFields
  <2>2. OfProgram(game, cache', Program) /\ SdCard(cache')
    BY <1>3, <1>5, <1>6, <1>7, <1>8 DEF OfProgram, Irq, Pull, Halt, SdCard, Arm7, Fields, Fields7
  <2>3. OfArm7(game, cache')
    BY <1>2, <1>5, <1>6, <2>2 DEF OfArm7, Programs
  <2>4. cache'.thumb <=> save \in Thumbs
    BY <1>7 DEF Searched
  <2> QED
    BY <1>1, <1>2, <1>5, <1>6, <2>1, <2>3, <2>4, FreshKept DEF CacheKept
<1>12. SoFar'
  <2>1. /\ ByNow = {"cardReadEnd", "cardPullOut"} \cup DmaFields \cup {"cardIrqEnable", "cardCheckPullOut"}
        /\ ByNow' = {"cardReadEnd", "cardPullOut"} \cup DmaFields
                     \cup {"cardIrqEnable", "cardCheckPullOut", "jumpTable"}
    BY <1>1 DEF ByNow
  <2>2. Right("jumpTable")'
    <3>1. patched["jumpTable"] = None
      BY <1>1, <2>1 DEF SoFar, DmaFields, Fields, Fields7
    <3>2. patched'["jumpTable"] = IF form THEN <<Program, save>> ELSE None
      BY <1>4, <1>7, <1>9, <3>1 DEF Searched, Fields, Fields7
    <3>3. Fresh["jumpTable"] = IF form THEN <<Program, save>> ELSE None
      BY <1>1, FreshAt DEF Found7
    <3> QED
      BY <1>1, <3>2, <3>3, FreshKept DEF Right
  <2> QED
    BY <1>1, <1>9, <2>1, <2>2, SoFarGrows DEF DmaFields
<1> QED
  BY <1>10, <1>11, <1>12

(* The search for the halt.                                                 *)
LEMMA SwiHaltStep ==
  ASSUME Inv, PatchSwiHalt
  PROVE  Inv'
<1> USE DEF Inv
<1> DEFINE form  == IF Arm7.save \in Thumbs THEN "thumb" ELSE "arm"
           found == <<Program, form>>
<1>1. /\ pc = "halt" /\ pc' = "write" /\ UNCHANGED <<game, settings, file, ver, readType>>
      /\ ~game.dsiWare /\ Patch({"swiHalt"})
      /\ cache' = Search(cache, "swiHalt", Found7(TRUE, IF cache.thumb THEN "thumb" ELSE "arm"))
  BY DEF PatchSwiHalt, Steps, Step, Route
<1>2. /\ cache \in CacheType /\ Dma(game, cache) /\ Read(game, cache) /\ OfArm7(game, cache)
      /\ cache.binSize = Program /\ Program \in Programs
      /\ cache.thumb <=> Arm7.save \in Thumbs
  BY <1>1, GameFields DEF Types, CacheKept
<1>3. cache' = Search(cache, "swiHalt", found)
  BY <1>1, <1>2 DEF Found7
<1>4. found \in Offset /\ "swiHalt" \in Fields
  BY <1>2 DEF Offset, Forms, Fields, Fields7
<1>5. /\ cache' \in CacheType
      /\ \A g \in Fields : cache'.at[g] = IF g = "swiHalt" /\ cache.at["swiHalt"] = None
                                          THEN found ELSE cache.at[g]
      /\ cache'.checked = cache.checked /\ cache'.binSize = cache.binSize
      /\ cache'.saveType = cache.saveType /\ cache'.thumb = cache.thumb
      /\ cache'.jumpType = cache.jumpType
  <2> HIDE DEF found
  <2> QED
    BY <1>2, <1>3, <1>4, SearchKeeps
<1>6. OfProgram(game, cache, Program) /\ SdCard(cache)
  BY <1>2 DEF OfArm7, Programs
<1>7. cache'.at["swiHalt"] = found
  <2>1. cache.at["swiHalt"] \in {None, found}
    BY <1>6 DEF OfProgram, Halt, Arm7
  <2> QED
    BY <1>4, <1>5, <2>1
<1>8. /\ patched' \in [Fields -> Offset]
      /\ \A f \in Fields : patched'[f] = IF f \in {"swiHalt"} THEN cache'.at[f] ELSE patched[f]
  BY <1>1, <1>5, PatchAt DEF Types
<1>9. Types' /\ Route' /\ FileKept'
  BY <1>1, <1>5, <1>8 DEF Types, Route, FileKept, Places
<1>10. CacheKept'
  <2>1. Read(game, cache') /\ Dma(game, cache')
    BY <1>2, <1>5, ReadStays, DmaStays DEF Fields, Fields9, DmaFields
  <2>2. Halt(game.arm7[Program].save, cache', Program)
    BY <1>7 DEF Halt, Arm7
  <2>3. OfProgram(game, cache', Program) /\ SdCard(cache')
    BY <1>5, <1>6, <2>2 DEF OfProgram, Irq, Pull, Unsearched, Searched, SdCard, Fields, Fields7
  <2>4. OfArm7(game, cache')
    BY <1>2, <1>5, <2>3 DEF OfArm7, Programs
  <2> QED
    BY <1>1, <1>2, <1>5, <2>1, <2>4, FreshKept DEF CacheKept
<1>11. SoFar'
  <2>1. /\ ByNow = {"cardReadEnd", "cardPullOut"} \cup DmaFields
                    \cup {"cardIrqEnable", "cardCheckPullOut", "jumpTable"}
        /\ ByNow' = {"cardReadEnd", "cardPullOut"} \cup DmaFields
                     \cup {"cardIrqEnable", "cardCheckPullOut", "jumpTable", "swiHalt", "sdCardFuncs"}
    BY <1>1 DEF ByNow
  <2>2. Right("swiHalt")'
    <3>1. patched'["swiHalt"] = found
      BY <1>4, <1>7, <1>8
    <3>2. Fresh["swiHalt"] = found
      BY <1>1, FreshAt DEF Found7
    <3> QED
      BY <1>1, <3>1, <3>2, FreshKept DEF Right
  <2>3. Right("sdCardFuncs")'
    <3>1. patched["sdCardFuncs"] = None
      BY <1>1, <2>1 DEF SoFar, DmaFields, Fields, Fields7
    <3>2. patched'["sdCardFuncs"] = None
      BY <1>8, <3>1 DEF Fields, Fields7
    <3>3. Fresh["sdCardFuncs"] = None
      BY <1>1, FreshAt DEF Found7
    <3> QED
      BY <1>1, <3>2, <3>3, FreshKept DEF Right
  <2> QED
    BY <1>1, <1>8, <2>1, <2>2, <2>3, SoFarGrows DEF DmaFields
<1> QED
  BY <1>9, <1>10, <1>11

(* The search of DSiWare for the functions of its card.                     *)
LEMMA SdCardStep ==
  ASSUME Inv, PatchSdCardFuncs
  PROVE  Inv'
<1> USE DEF Inv
<1> DEFINE found == <<Program, "sd">>
           fs    == IF game.onFlashcard THEN {"sdCardFuncs"} ELSE {}
<1>1. /\ pc = "sdCard" /\ pc' = "write" /\ UNCHANGED <<game, settings, file, ver, readType>>
      /\ game.dsiWare
      /\ game.onFlashcard => cache' = Search(cache, "sdCardFuncs", found) /\ Patch({"sdCardFuncs"})
      /\ ~game.onFlashcard => UNCHANGED <<cache, patched>>
  BY DEF PatchSdCardFuncs, Steps, Step, Route, Found7
<1>2. /\ cache \in CacheType /\ Dma(game, cache) /\ Read(game, cache) /\ OfArm7(game, cache)
      /\ cache.binSize = Program /\ Program \in Programs
  BY <1>1, GameFields DEF Types, CacheKept
<1>3. found \in Offset /\ "sdCardFuncs" \in Fields
  BY <1>2 DEF Offset, Forms, Fields, Fields7
<1>4. /\ cache' \in CacheType
      /\ \A g \in Fields : cache'.at[g] = IF game.onFlashcard /\ g = "sdCardFuncs"
                                               /\ cache.at["sdCardFuncs"] = None
                                          THEN found ELSE cache.at[g]
      /\ cache'.checked = cache.checked /\ cache'.binSize = cache.binSize
      /\ cache'.saveType = cache.saveType /\ cache'.thumb = cache.thumb
      /\ cache'.jumpType = cache.jumpType
  <2> HIDE DEF found
  <2>1. CASE game.onFlashcard
    BY <1>1, <1>2, <1>3, <2>1, SearchKeeps
  <2>2. CASE ~game.onFlashcard
    BY <1>1, <1>2, <2>2
  <2> QED
    BY <2>1, <2>2
<1>5. /\ patched' \in [Fields -> Offset]
      /\ \A f \in Fields : patched'[f] = IF f \in fs THEN cache'.at[f] ELSE patched[f]
  <2>1. CASE game.onFlashcard
    BY <1>1, <1>4, <2>1, PatchAt DEF Types
  <2>2. CASE ~game.onFlashcard
    BY <1>1, <2>2 DEF Types
  <2> QED
    BY <2>1, <2>2
<1>6. SdCard(cache') /\ (game.onFlashcard => cache'.at["sdCardFuncs"] \in Programs \X {"sd"})
  <2>1. found \in Programs \X {"sd"}
    BY <1>2
  <2>2. cache.at["sdCardFuncs"] \in {None} \cup (Programs \X {"sd"})
    BY <1>2 DEF OfArm7, SdCard
  <2> HIDE DEF found
  <2> QED
    BY <1>3, <1>4, <2>1, <2>2 DEF SdCard
<1>7. Types' /\ Route' /\ FileKept'
  BY <1>1, <1>4, <1>5 DEF Types, Route, FileKept, Places
<1>8. CacheKept'
  <2>1. Read(game, cache') /\ Dma(game, cache')
    BY <1>2, <1>4, ReadStays, DmaStays DEF Fields, Fields9, DmaFields
  <2>2. OfProgram(game, cache', Program)
    BY <1>2, <1>4
       DEF OfArm7, OfProgram, Irq, Pull, Halt, Unsearched, Searched, Programs, Fields, Fields7
  <2>3. OfArm7(game, cache')
    BY <1>2, <1>4, <1>6, <2>2 DEF OfArm7, Programs
  <2> QED
    BY <1>1, <1>2, <1>4, <2>1, <2>3, FreshKept DEF CacheKept
<1>9. SoFar'
  <2>1. /\ ByNow = {"cardReadEnd", "cardPullOut"} \cup DmaFields \cup {"cardIrqEnable", "cardCheckPullOut"}
        /\ ByNow' = {"cardReadEnd", "cardPullOut"} \cup DmaFields
                     \cup {"cardIrqEnable", "cardCheckPullOut", "swiHalt", "sdCardFuncs", "jumpTable"}
    BY <1>1 DEF ByNow
  <2>2. \A f \in {"jumpTable", "swiHalt", "sdCardFuncs"} : patched[f] = None
    BY <1>1, <2>1 DEF SoFar, DmaFields, Fields, Fields7
  <2>3. Right("jumpTable")' /\ Right("swiHalt")'
    <3>1. patched'["jumpTable"] = None /\ patched'["swiHalt"] = None
      BY <1>5, <2>2 DEF Fields, Fields7
    <3>2. Fresh["jumpTable"] = None /\ Fresh["swiHalt"] = None
      BY <1>1, FreshAt DEF Found7
    <3> QED
      BY <1>1, <3>1, <3>2, FreshKept DEF Right
  <2>4. Right("sdCardFuncs")'
    <3>1. CASE game.onFlashcard
      <4>1. Fresh["sdCardFuncs"] = found /\ found \in Programs \X {"sd"}
        BY <1>1, <1>2, <3>1, FreshAt DEF Found7
      <4>2. patched'["sdCardFuncs"] \in Programs \X {"sd"}
        BY <1>3, <1>5, <1>6, <3>1
      <4> QED
        BY <1>1, <4>1, <4>2, FreshKept DEF Right
    <3>2. CASE ~game.onFlashcard
      <4>1. Fresh["sdCardFuncs"] = None
        BY <3>2, FreshAt DEF Found7
      <4>2. patched'["sdCardFuncs"] = None
        BY <1>3, <1>5, <2>2, <3>2
      <4> QED
        BY <1>1, <4>1, <4>2, FreshKept DEF Right
    <3> QED
      BY <3>1, <3>2
  <2>5. fs \subseteq {"sdCardFuncs"}
    OBVIOUS
  <2> HIDE DEF fs
  <2> QED
    BY <1>1, <1>5, <2>1, <2>3, <2>4, <2>5, SoFarGrows DEF DmaFields
<1> QED
  BY <1>7, <1>8, <1>9

(* The file is written from a cache that is right, and only then.                 *)
LEMMA WriteStep ==
  ASSUME Inv, WriteFile
  PROVE  Inv'
<1> USE DEF Inv
<1>1. /\ pc = "write" /\ pc' = "game" /\ file' = cache /\ ver' = "new"
      /\ UNCHANGED <<game, settings, cache, readType, patched>>
  BY DEF WriteFile
<1>2. Types' /\ Route'
  BY <1>1 DEF Types, Route, Places
<1>3. FileKept'
  BY <1>1 DEF FileKept, CacheKept, Whole
<1>4. CacheKept'
  BY <1>1, FreshKept DEF CacheKept
<1>5. SoFar'
  <2>1. ByNow' = ByNow /\ ByNow \subseteq Fields
    BY <1>1 DEF ByNow, DmaFields, Fields, Fields7, Fields9
  <2>2. Fresh' = Fresh
    BY <1>1, FreshKept
  <2> QED
    BY <1>1, <2>1, <2>2 DEF SoFar, Right
<1> QED
  BY <1>2, <1>3, <1>4, <1>5

(* Another loader's file is not read.                                       *)
LEMMA OtherLoaderStep ==
  ASSUME Inv, OtherLoader
  PROVE  Inv'
BY DEF Inv, OtherLoader, Types, Route, FileKept, CacheKept, SoFar

(* What is known does not change by itself.                                 *)
LEMMA Stutter ==
  ASSUME Inv, UNCHANGED vars
  PROVE  Inv'
<1> USE DEF Inv, vars
<1>1. Types' /\ Route' /\ FileKept'
  BY DEF Types, Route, FileKept
<1>2. CacheKept'
  BY FreshKept DEF CacheKept, Reading
<1>3. SoFar'
  BY FreshKept DEF SoFar, Right, ByNow
<1> QED
  BY <1>1, <1>2, <1>3

(* Every step keeps the invariant.                                          *)
LEMMA NextInv == Inv /\ [Next]_vars => Inv'
BY BootStep, StopStep, NoFilesStep, CardReadStep, PullOutStep, DmaStep, IrqEnableStep, SaveStep, SwiHaltStep,
   SdCardStep, WriteStep, OtherLoaderStep, Stutter DEF Next

(* A boot that has come to the game has patched everything.                      *)
LEMMA InvFresh == Inv => PatchesFresh
<1> SUFFICES ASSUME Inv, pc = "game" PROVE \A f \in Fields : Right(f)
  BY DEF PatchesFresh, Right
<1>1. ByNow = Fields
  BY DEF ByNow, DmaFields, Fields, Fields7, Fields9
<1> QED
  BY <1>1 DEF Inv, SoFar

-----------------------------------------------------------------------------
(* What the file and the cache hold is what the searches find in the game's programs.  *)
THEOREM PatchCacheInvariant == Spec => []Inv
<1> QED
  BY InitInv, NextInv, PTL DEF Spec

(* Whatever earlier boots have left in the file, a boot patches the functions that   *)
(* one without the file patches, at the same places.                          *)
THEOREM PatchesAreFresh == Spec => []PatchesFresh
<1> QED
  BY PatchCacheInvariant, InvFresh, PTL

-----------------------------------------------------------------------------
(* The loaders' two processors: the handshake.                                *)

(* What the flag and the ARM9's place can be together: on its way to the loop, *)
(* with nothing to do, with a command it does at once or takes frames for,      *)
(* and with a rating.                                                       *)
Starting    == (flag = "START" /\ pc9 = "start") \/ (flag = "MEMCLR" /\ pc9 = "memclr")
Waiting     == flag = "READY" /\ pc9 = "poll"
Serves(cmd) == (flag = cmd /\ pc9 \in {"poll", cmd}) \/ Waiting
Rates       == flag = "DISPESRB" /\ pc9 \in {"load", "show"}

(* The ARM7's places after the map, the patches, the images and the registers.   *)
Set      == {"start", "line", "edge", "game"}
Cleared  == {"clear", "cleared", "scfg"} \cup Set
Patched  == {"hook", "images"} \cup Cleared
Mapped   == {"patch", "lut", "lutDone"} \cup Patched

Answered(at) == pc7 = at /\ Ready

Rated == boot.rating /\ boot.splash

(* What goes with which place of the ARM7: it waits for the answer to each       *)
(* command but that for the rating, during which it goes on.                   *)
Handshake ==
  /\ pc7 \in {"boot", "load", "screen", "header", "map", "mbk", "error", "stop"} \cup Mapped
  /\ pc7 = "boot" => (flag = "BOOT" /\ pc9 = "boot") \/ Starting \/ Waiting
  /\ pc7 \in {"load", "header"} => Starting \/ Waiting
  /\ pc7 = "screen" => Serves("DISPSCRN")
  /\ pc7 = "map" => Starting \/ Rates \/ (flag = "DISPESRB" /\ pc9 = "poll") \/ Waiting
  /\ pc7 = "mbk" => (flag = "INITMBK" /\ pc9 \in {"poll", "load", "show"}) \/ Waiting
  /\ pc7 \in {"patch", "hook", "images", "clear"} => Rates \/ Waiting
  /\ pc7 = "lut" => Serves("WRAMONARM7") /\ pc9 = "poll"
  /\ pc7 = "lutDone" => Serves("WRAMONARM9") /\ pc9 = "poll"
  /\ pc7 = "cleared" => Serves("SCRNCLR")
  /\ pc7 = "scfg" => Serves("SETSCFG") /\ pc9 = "poll"
  /\ pc7 = "start" => Waiting
  /\ pc7 \in {"line", "edge", "game"} => flag = "BOOTBIN" /\ pc9 \in {"poll", "line", "edge", "game"}
  /\ pc7 = "error" => Starting \/ Rates \/ Waiting
  /\ pc7 = "stop" => Serves("DISPERR")
  /\ pc7 \in Mapped /\ boot.mode = "dsi" => ~Rates
  /\ flag = "DISPESRB" => boot.rating
  /\ pc7 = "mbk" => boot.mode = "dsi"
  /\ pc7 \in {"lut", "lutDone"} => boot.mode = "dsi" /\ boot.lut

(* The rating and the pictures.                                              *)
Pictures ==
  /\ screen \in {"off", "esrb", "wait", "error"}
  /\ screen # "off" => screenFadedIn \/ pc9 \in {"load", "show"}
  /\ images # "images" => pc7 \in {"images"} \cup Cleared /\ pc9 # "load"
  /\ pc9 \in {"load", "show"} => Rated /\ esrbScreenPrepared
  /\ flag = "DISPESRB" /\ pc9 = "poll" => ~esrbScreenPrepared
  /\ pc9 = "load" => ~imageLoaded /\ ~esrbImageLoaded
  /\ pc9 = "show" => esrbImageLoaded
  /\ pc9 \notin {"load", "show"} /\ esrbScreenPrepared => esrbScreenDisplayed
  /\ esrbScreenDisplayed \/ esrbImageLoaded => esrbScreenPrepared
  /\ esrbScreenPrepared /\ pc9 # "load" => esrbImageLoaded
  /\ esrbScreenPrepared => pc7 \in {"map", "mbk", "error", "stop"} \cup Mapped
  /\ Rated /\ pc7 \in {"map", "mbk"} \cup Mapped =>
       flag = "DISPESRB" \/ esrbScreenPrepared
  /\ Answered("stop") => screen = "error"
  /\ Answered("cleared") \/ pc7 \in {"scfg"} \cup Set => screen = "off"

(* Once the ARM9 has been given a register's command and is ready, it is set.     *)
Registers ==
  /\ boot.mode = "dsi" /\ ~Rated /\ (Answered("mbk") \/ pc7 \in Mapped) =>
       mbk9 = "dsi"
  /\ boot.mode # "dsi" /\ pc7 \notin {"scfg"} \cup Set => wram = "arm7"
  /\ Answered("lut") => wram = "arm7"
  /\ boot.mode = "dsi" /\ boot.lut /\ (Answered("lutDone") \/ pc7 \in Patched) =>
       wram = "arm9"
  /\ boot.lut /\ pc7 \in {"lutDone"} \cup Patched => lut = "whole"
  /\ ~boot.lut => lut = "none"
  /\ IF Answered("scfg") \/ pc7 \in Set
     THEN /\ scfg = IF boot.mode = "ds" THEN "locked" ELSE "dsi"
          /\ arm9_SCFG_EXT = IF boot.mode = "ds" /\ boot.loader = "dsi" THEN "set" ELSE "zero"
          /\ boot.loader = "dsi" /\ boot.mode # "dsi" => wram = "arm9"
     ELSE arm9_SCFG_EXT = "zero"
  /\ pc7 \in Set /\ boot.loader = "dsi" => pageScfg = arm9_SCFG_EXT

LoaderInv == boot \in Boots /\ Handshake /\ Pictures /\ Registers

(* What the ARM7's steps keep of the handshake, ... *)
LEMMA Handshake7 ==
  ASSUME LoaderInv, Loader7
  PROVE  (boot \in Boots /\ Handshake)'
<1> USE DEF LoaderInv, Handshake, Starting, Waiting, Serves, Rates, Mapped,
            Patched, Cleared, Set, Answered, Rated, Ready, display, fade,
            esrb, regs, Only7
<1>1. CASE WaitStart
  BY <1>1 DEF WaitStart, Go
<1>2. CASE Missing
  BY <1>2 DEF Missing, Go
<1>3. CASE ErrorOutput
  BY <1>3 DEF ErrorOutput, Give
<1>4. CASE PleaseWait
  BY <1>4 DEF PleaseWait, Give
<1>5. CASE HeaderRead
  BY <1>5 DEF HeaderRead, Go
<1>6. CASE ScreenShown
  BY <1>6 DEF ScreenShown, Go
<1>7. CASE EsrbOutput
  BY <1>7 DEF EsrbOutput, Give
<1>8. CASE NoRating
  BY <1>8 DEF NoRating, Go
<1>9. CASE InitMbk
  BY <1>9 DEF InitMbk, Give, Polled, Commands
<1>10. CASE NoMap
  BY <1>10 DEF NoMap, Go, Polled, Commands
<1>11. CASE MbkDone
  BY <1>11 DEF MbkDone, Go
<1>12. CASE NoLut
  BY <1>12 DEF NoLut, Go
<1>13. CASE LutToArm7
  BY <1>13 DEF LutToArm7, Give
<1>14. CASE CopyLut
  BY <1>14 DEF CopyLut
<1>15. CASE LutDone
  BY <1>15 DEF LutDone, Go
<1>16. CASE ReadFix
  BY <1>16 DEF ReadFix, ImagesFree, Polled, Commands
<1>17. CASE NoFix
  BY <1>17 DEF NoFix, Go, Polled, Commands
<1>18. CASE ClearImages
  BY <1>18 DEF ClearImages, ImagesFree
<1>19. CASE ClearScreen
  BY <1>19 DEF ClearScreen, Give
<1>20. CASE SetScfg
  BY <1>20 DEF SetScfg, Give
<1>21. CASE SaveScfg
  BY <1>21 DEF SaveScfg
<1>22. CASE StartBinary
  BY <1>22 DEF StartBinary, Give
<1>23. CASE Line7
  BY <1>23 DEF Line7, Go
<1>24. CASE Start7
  BY <1>24 DEF Start7, Go
<1> QED
  BY <1>1, <1>2, <1>3, <1>4, <1>5, <1>6, <1>7, <1>8, <1>9, <1>10, <1>11,
     <1>12, <1>13, <1>14, <1>15, <1>16, <1>17, <1>18, <1>19, <1>20, <1>21,
     <1>22, <1>23, <1>24
     DEF Loader7

(* ... of the pictures, ... *)
LEMMA Pictures7 ==
  ASSUME LoaderInv, Loader7
  PROVE  Pictures'
<1> USE DEF LoaderInv, Handshake, Starting, Waiting, Serves, Rates, Mapped,
            Patched, Cleared, Set, Answered, Rated, Ready, display, fade,
            esrb, regs, Pictures, Only7
<1>1. CASE WaitStart
  BY <1>1 DEF WaitStart, Go
<1>2. CASE Missing
  BY <1>2 DEF Missing, Go
<1>3. CASE ErrorOutput
  BY <1>3 DEF ErrorOutput, Give
<1>4. CASE PleaseWait
  BY <1>4 DEF PleaseWait, Give
<1>5. CASE HeaderRead
  BY <1>5 DEF HeaderRead, Go
<1>6. CASE ScreenShown
  BY <1>6 DEF ScreenShown, Go
<1>7. CASE EsrbOutput
  BY <1>7 DEF EsrbOutput, Give
<1>8. CASE NoRating
  BY <1>8 DEF NoRating, Go
<1>9. CASE InitMbk
  BY <1>9 DEF InitMbk, Give, Polled, Commands
<1>10. CASE NoMap
  BY <1>10 DEF NoMap, Go, Polled, Commands
<1>11. CASE MbkDone
  BY <1>11 DEF MbkDone, Go
<1>12. CASE NoLut
  BY <1>12 DEF NoLut, Go
<1>13. CASE LutToArm7
  BY <1>13 DEF LutToArm7, Give
<1>14. CASE CopyLut
  BY <1>14 DEF CopyLut
<1>15. CASE LutDone
  BY <1>15 DEF LutDone, Go
<1>16. CASE ReadFix
  BY <1>16 DEF ReadFix, ImagesFree, Polled, Commands
<1>17. CASE NoFix
  BY <1>17 DEF NoFix, Go, Polled, Commands
<1>18. CASE ClearImages
  BY <1>18 DEF ClearImages, ImagesFree
<1>19. CASE ClearScreen
  BY <1>19 DEF ClearScreen, Give
<1>20. CASE SetScfg
  BY <1>20 DEF SetScfg, Give
<1>21. CASE SaveScfg
  BY <1>21 DEF SaveScfg
<1>22. CASE StartBinary
  BY <1>22 DEF StartBinary, Give
<1>23. CASE Line7
  BY <1>23 DEF Line7, Go
<1>24. CASE Start7
  BY <1>24 DEF Start7, Go
<1> QED
  BY <1>1, <1>2, <1>3, <1>4, <1>5, <1>6, <1>7, <1>8, <1>9, <1>10, <1>11,
     <1>12, <1>13, <1>14, <1>15, <1>16, <1>17, <1>18, <1>19, <1>20, <1>21,
     <1>22, <1>23, <1>24
     DEF Loader7

(* ... and of the registers and the memory. *)
LEMMA Registers7 ==
  ASSUME LoaderInv, Loader7
  PROVE  Registers'
<1> USE DEF LoaderInv, Handshake, Starting, Waiting, Serves, Rates, Mapped,
            Patched, Cleared, Set, Answered, Rated, Ready, display, fade,
            esrb, regs, Registers, Boots, Only7
<1>1. CASE WaitStart
  BY <1>1 DEF WaitStart, Go
<1>2. CASE Missing
  BY <1>2 DEF Missing, Go
<1>3. CASE ErrorOutput
  BY <1>3 DEF ErrorOutput, Give
<1>4. CASE PleaseWait
  BY <1>4 DEF PleaseWait, Give
<1>5. CASE HeaderRead
  BY <1>5 DEF HeaderRead, Go
<1>6. CASE ScreenShown
  BY <1>6 DEF ScreenShown, Go
<1>7. CASE EsrbOutput
  BY <1>7 DEF EsrbOutput, Give
<1>8. CASE NoRating
  BY <1>8 DEF NoRating, Go
<1>9. CASE InitMbk
  BY <1>9 DEF InitMbk, Give, Polled, Commands
<1>10. CASE NoMap
  BY <1>10 DEF NoMap, Go, Polled, Commands
<1>11. CASE MbkDone
  BY <1>11 DEF MbkDone, Go
<1>12. CASE NoLut
  BY <1>12 DEF NoLut, Go
<1>13. CASE LutToArm7
  BY <1>13 DEF LutToArm7, Give
<1>14. CASE CopyLut
  BY <1>14 DEF CopyLut
<1>15. CASE LutDone
  BY <1>15 DEF LutDone, Go
<1>16. CASE ReadFix
  BY <1>16 DEF ReadFix, ImagesFree, Polled, Commands
<1>17. CASE NoFix
  BY <1>17 DEF NoFix, Go, Polled, Commands
<1>18. CASE ClearImages
  BY <1>18 DEF ClearImages, ImagesFree
<1>19. CASE ClearScreen
  BY <1>19 DEF ClearScreen, Give
<1>20. CASE SetScfg
  BY <1>20 DEF SetScfg, Give
<1>21. CASE SaveScfg
  BY <1>21 DEF SaveScfg
<1>22. CASE StartBinary
  BY <1>22 DEF StartBinary, Give
<1>23. CASE Line7
  BY <1>23 DEF Line7, Go
<1>24. CASE Start7
  BY <1>24 DEF Start7, Go
<1> QED
  BY <1>1, <1>2, <1>3, <1>4, <1>5, <1>6, <1>7, <1>8, <1>9, <1>10, <1>11,
     <1>12, <1>13, <1>14, <1>15, <1>16, <1>17, <1>18, <1>19, <1>20, <1>21,
     <1>22, <1>23, <1>24
     DEF Loader7

(* What the ARM9's steps keep of the handshake, ... *)
LEMMA Handshake9 ==
  ASSUME LoaderInv, Loader9
  PROVE  (boot \in Boots /\ Handshake)'
<1> USE DEF LoaderInv, Handshake, Starting, Waiting, Serves, Rates, Mapped,
            Patched, Cleared, Set, Answered, Rated, Ready, display, fade,
            esrb, regs, Pictures, Only9
<1>1. CASE Begin9
  BY <1>1 DEF Begin9
<1>2. CASE Scrnclr
  BY <1>2 DEF Scrnclr, Done
<1>3. CASE Dispesrb
  BY <1>3 DEF Dispesrb, Take, Rating
<1>4. CASE NoEsrb
  BY <1>4 DEF NoEsrb, Take, Done, Rating
<1>5. CASE EsrbScreen
  BY <1>5 DEF EsrbScreen, Image
<1>6. CASE EsrbShown
  BY <1>6 DEF EsrbShown, Done
<1>7. CASE Dispscrn
  BY <1>7 DEF Dispscrn, Done, Image
<1>8. CASE Disperr
  BY <1>8 DEF Disperr, Done, Image
<1>9. CASE Initmbk
  BY <1>9 DEF Initmbk, Take, Done
<1>10. CASE WramOn("arm7", "WRAMONARM7")
  BY <1>10 DEF WramOn, Take, Done
<1>11. CASE WramOn("arm9", "WRAMONARM9")
  BY <1>11 DEF WramOn, Take, Done
<1>12. CASE Setscfg
  BY <1>12 DEF Setscfg, Take, Done
<1>13. CASE Boot9
  BY <1>13 DEF Boot9, Take
<1>14. CASE \E cmd \in {"SCRNCLR", "DISPSCRN", "DISPERR"} : Begin(cmd)
  BY <1>14 DEF Begin, Take
<1> QED
  BY <1>1, <1>2, <1>3, <1>4, <1>5, <1>6, <1>7, <1>8, <1>9, <1>10, <1>11,
     <1>12, <1>13, <1>14
     DEF Loader9

(* ... of the pictures, ... *)
LEMMA Pictures9 ==
  ASSUME LoaderInv, Loader9
  PROVE  Pictures'
<1> USE DEF LoaderInv, Handshake, Starting, Waiting, Serves, Rates, Mapped,
            Patched, Cleared, Set, Answered, Rated, Ready, display, fade,
            esrb, regs, Pictures, Only9
<1>1. CASE Begin9
  BY <1>1 DEF Begin9
<1>2. CASE Scrnclr
  BY <1>2 DEF Scrnclr, Done
<1>3. CASE Dispesrb
  <2>1. /\ pc7 = "map" /\ flag = "DISPESRB" /\ pc9 = "poll" /\ Rated
        /\ ~esrbScreenDisplayed /\ ~esrbImageLoaded /\ images = "images"
    BY <1>3 DEF Dispesrb, Take, Rating
  <2>2. /\ UNCHANGED <<boot, flag, pc7, screen, images, esrbScreenDisplayed, esrbImageLoaded>>
        /\ pc9' = "load"
    BY <1>3 DEF Dispesrb
  <2>3. esrbScreenPrepared' /\ ~imageLoaded'
    BY <1>3, <2>1, Zenon DEF Dispesrb
  <2> QED
    BY <2>1, <2>2, <2>3
<1>4. CASE NoEsrb
  BY <1>4 DEF NoEsrb, Take, Done, Rating
<1>5. CASE EsrbScreen
  BY <1>5 DEF EsrbScreen, Image
<1>6. CASE EsrbShown
  BY <1>6 DEF EsrbShown, Done
<1>7. CASE Dispscrn
  BY <1>7 DEF Dispscrn, Done, Image
<1>8. CASE Disperr
  BY <1>8 DEF Disperr, Done, Image
<1>9. CASE Initmbk
  BY <1>9 DEF Initmbk, Take, Done
<1>10. CASE WramOn("arm7", "WRAMONARM7")
  BY <1>10 DEF WramOn, Take, Done
<1>11. CASE WramOn("arm9", "WRAMONARM9")
  BY <1>11 DEF WramOn, Take, Done
<1>12. CASE Setscfg
  BY <1>12 DEF Setscfg, Take, Done
<1>13. CASE Boot9
  BY <1>13 DEF Boot9, Take
<1>14. CASE \E cmd \in {"SCRNCLR", "DISPSCRN", "DISPERR"} : Begin(cmd)
  BY <1>14 DEF Begin, Take
<1> QED
  BY <1>1, <1>2, <1>3, <1>4, <1>5, <1>6, <1>7, <1>8, <1>9, <1>10, <1>11,
     <1>12, <1>13, <1>14
     DEF Loader9

(* ... and of the registers and the memory. *)
LEMMA Registers9 ==
  ASSUME LoaderInv, Loader9
  PROVE  Registers'
<1> USE DEF LoaderInv, Handshake, Starting, Waiting, Serves, Rates, Mapped,
            Patched, Cleared, Set, Answered, Rated, Ready, display, fade,
            esrb, regs, Pictures, Registers, Boots, Only9
<1>1. CASE Begin9
  BY <1>1 DEF Begin9
<1>2. CASE Scrnclr
  BY <1>2 DEF Scrnclr, Done
<1>3. CASE Dispesrb
  BY <1>3 DEF Dispesrb, Take, Rating
<1>4. CASE NoEsrb
  BY <1>4 DEF NoEsrb, Take, Done, Rating
<1>5. CASE EsrbScreen
  BY <1>5 DEF EsrbScreen, Image
<1>6. CASE EsrbShown
  BY <1>6 DEF EsrbShown, Done
<1>7. CASE Dispscrn
  BY <1>7 DEF Dispscrn, Done, Image
<1>8. CASE Disperr
  BY <1>8 DEF Disperr, Done, Image
<1>9. CASE Initmbk
  BY <1>9 DEF Initmbk, Take, Done
<1>10. CASE WramOn("arm7", "WRAMONARM7")
  BY <1>10 DEF WramOn, Take, Done
<1>11. CASE WramOn("arm9", "WRAMONARM9")
  BY <1>11 DEF WramOn, Take, Done
<1>12. CASE Setscfg
  BY <1>12 DEF Setscfg, Take, Done
<1>13. CASE Boot9
  BY <1>13 DEF Boot9, Take
<1>14. CASE \E cmd \in {"SCRNCLR", "DISPSCRN", "DISPERR"} : Begin(cmd)
  BY <1>14 DEF Begin, Take
<1> QED
  BY <1>1, <1>2, <1>3, <1>4, <1>5, <1>6, <1>7, <1>8, <1>9, <1>10, <1>11,
     <1>12, <1>13, <1>14
     DEF Loader9

LEMMA LoaderInitInv == LoaderInit => LoaderInv
BY DEF LoaderInv, Handshake, Starting, Waiting, Serves, Rates, Mapped,
       Patched, Cleared, Set, Answered, Rated, Ready, Pictures, Registers,
       LoaderInit

LEMMA LoaderNextInv == LoaderInv /\ [LoaderNext]_loaderVars => LoaderInv'
<1> SUFFICES ASSUME LoaderInv, [LoaderNext]_loaderVars PROVE LoaderInv'
  OBVIOUS
<1>1. CASE Loader7
  BY <1>1, Handshake7, Pictures7, Registers7 DEF LoaderInv
<1>2. CASE Loader9
  BY <1>2, Handshake9, Pictures9, Registers9 DEF LoaderInv
<1>3. CASE Vcount \/ UNCHANGED loaderVars
  BY <1>3
     DEF LoaderInv, Handshake, Starting, Waiting, Serves, Rates, Mapped,
         Patched, Cleared, Set, Answered, Rated, Ready, display, fade, esrb,
         regs, Pictures, Registers, Vcount, loaderVars
<1> QED
  BY <1>1, <1>2, <1>3 DEF LoaderNext

(* The loaders' invariant: which command the ARM9 has at each place of the ARM7,  *)
(* and what is on the screen and in the registers by then.                    *)
THEOREM LoaderInvariant == LoaderSpec => []LoaderInv
<1> QED
  BY LoaderInitInv, LoaderNextInv, PTL DEF LoaderSpec

(* The ARM9 never shows a picture out of memory that the ARM7 has cleared or read  *)
(* an AP-fix into (the waits for esrbImageLoaded in arm7_main).                 *)
THEOREM LoaderShowsWholeImages == LoaderSpec => []ImageWhole
<1>1. LoaderInv => ImageWhole
  BY DEF LoaderInv, Pictures, ImageWhole
<1> QED
  BY <1>1, LoaderInvariant, PTL

(* Whatever loader, mode and files, a game that starts finds what GamePrepared      *)
(* lists (arm7_main up to ARM9_BOOTBIN).                                      *)
THEOREM LoaderPreparesGame == LoaderSpec => []GamePrepared
<1>1. LoaderInv => GamePrepared
  BY DEF LoaderInv, Handshake, Starting, Waiting, Serves, Rates, Mapped,
         Patched, Cleared, Set, Answered, Rated, Ready, Pictures, Registers,
         Boots, GamePrepared
<1> QED
  BY <1>1, LoaderInvariant, PTL

(* After a failure an ARM9 that is ready again has the error on the screen, of       *)
(* whatever it was doing when the ARM7 failed (errorOutput).                    *)
THEOREM LoaderShowsErrors == LoaderSpec => [](pc7 = "stop" /\ Ready => screen = "error")
<1>1. LoaderInv => (pc7 = "stop" /\ Ready => screen = "error")
  BY DEF LoaderInv, Pictures, Answered
<1> QED
  BY <1>1, LoaderInvariant, PTL

-----------------------------------------------------------------------------
(* That a boot ends.  BootEnds is about time and stays with TLC; what makes it  *)
(* true is that somebody can go on at any time until the end, and that every    *)
(* step, of either processor or of the display, takes a count down.           *)

(* The ARM7's place, from the first to the last.                              *)
Rank(p) ==
  IF p = "boot" THEN 18 ELSE IF p = "load" THEN 17 ELSE IF p = "screen" THEN 16
  ELSE IF p = "header" THEN 15 ELSE IF p = "map" THEN 14 ELSE IF p = "mbk" THEN 13
  ELSE IF p = "patch" THEN 12 ELSE IF p = "lut" THEN 11 ELSE IF p = "lutDone" THEN 10
  ELSE IF p = "hook" THEN 9 ELSE IF p = "images" THEN 8 ELSE IF p = "clear" THEN 7
  ELSE IF p = "cleared" THEN 6 ELSE IF p = "scfg" THEN 5 ELSE IF p = "start" THEN 4
  ELSE IF p = "error" THEN 1 ELSE 0

(* A processor's and the display's steps to the game: to the line, on it, and   *)
(* off it again.                                                            *)
Toward(p, at) ==
  IF p = "line" THEN (IF at THEN 3 ELSE 4)
  ELSE IF p = "edge" THEN (IF at THEN 2 ELSE 1) ELSE 0

(* The ARM9's steps to the end of a command, and to the game.                  *)
Pending(f) ==
  IF f = "BOOTBIN" THEN 5 ELSE IF f = "DISPESRB" THEN 3
  ELSE IF f \in {"SCRNCLR", "DISPSCRN", "DISPERR"} THEN 2
  ELSE IF f \in Commands THEN 1 ELSE 0

Work(p, f) ==
  IF p = "poll" THEN Pending(f) ELSE IF p = "boot" THEN 3
  ELSE IF p \in {"start", "load"} THEN 2
  ELSE IF p \in {"memclr", "show", "SCRNCLR", "DISPSCRN", "DISPERR"} THEN 1 ELSE 0

Left7 == 6 * Rank(pc7) + Toward(pc7, at191)
Left9 == Work(pc9, flag) + Toward(pc9, at191)

LoaderLeft == Left7 + Left9

(* Whose guard is true: by the waits of arm7_main, of the ARM9's loop, and of   *)
(* the two for the display.                                                 *)
Moves7 ==
  \/ pc7 = "boot" /\ flag # "BOOT"
  \/ pc7 = "load" /\ (boot.stale => Ready)
  \/ pc7 = "header" /\ (boot.rating => Ready)
  \/ /\ pc7 \in {"screen", "mbk", "lut", "lutDone", "clear", "cleared", "scfg", "error"}
     /\ Ready
  \/ pc7 = "map" /\ Polled
  \/ pc7 = "hook" /\ Polled /\ ImagesFree
  \/ pc7 = "images" /\ ImagesFree
  \/ pc7 \in {"patch", "start"}
  \/ (pc7 = "line" /\ at191) \/ (pc7 = "edge" /\ ~at191)

Moves9 ==
  \/ pc9 \in {"boot", "start", "memclr", "load", "show",
             "SCRNCLR", "DISPSCRN", "DISPERR"}
  \/ pc9 = "poll" /\ flag \in Commands \cup {"BOOTBIN"}
  \/ (pc9 = "line" /\ at191) \/ (pc9 = "edge" /\ ~at191)

MovesDisplay ==
  \/ "line" \in {pc7, pc9} /\ ~at191 /\ "edge" \notin {pc7, pc9}
  \/ "edge" \in {pc7, pc9} /\ at191 /\ "line" \notin {pc7, pc9}

Ended == (pc7 = "game" /\ pc9 = "game") \/ (pc7 = "stop" /\ screen = "error")

NeverStuck == Ended \/ Moves7 \/ Moves9 \/ MovesDisplay

(* The parts of the count are small numbers.                                 *)
LEMMA CountBounds ==
  /\ \A p : Rank(p) \in 0..18
  /\ \A p, at : Toward(p, at) \in 0..4
  /\ \A p, f : Work(p, f) \in 0..5
<1>1. ASSUME NEW p PROVE Rank(p) \in 0..18
  BY DEF Rank
<1>2. ASSUME NEW p, NEW at PROVE Toward(p, at) \in 0..4
  BY DEF Toward
<1>3. ASSUME NEW p, NEW f PROVE Work(p, f) \in 0..5
  <2>1. Pending(f) \in 0..5
    BY DEF Pending
  <2> QED
    BY <2>1 DEF Work
<1> QED
  BY <1>1, <1>2, <1>3

(* Of the ARM7's steps: from one place to another is a long way, whatever the    *)
(* command for the ARM9.                                                    *)
Falls(p, q, at) == 6 * Rank(q) + Toward(q, at) + 5 < 6 * Rank(p) + Toward(p, at)

(* The count after a step.                                                  *)
LEMMA LeftLess ==
  ASSUME NEW a \in Int, NEW b \in Int, NEW c \in Int, NEW d \in Int, c + d < a + b,
         Left7 = a, Left9 = b, Left7' = c, Left9' = d
  PROVE  LoaderLeft' < LoaderLeft
<1>1. LoaderLeft = a + b
  BY DEF LoaderLeft
<1>2. LoaderLeft' = c + d
  BY Zenon DEF LoaderLeft
<1> QED
  BY <1>1, <1>2

(* Such a step takes the count down, whatever it asks of the ARM9.              *)
LEMMA FallShrinks ==
  ASSUME Only7, NEW p, NEW q, pc7 = p, pc7' = q, Falls(p, q, at191)
  PROVE  LoaderLeft' < LoaderLeft
<1> DEFINE a == 6 * Rank(p) + Toward(p, at191)
           c == 6 * Rank(q) + Toward(q, at191)
           t == Toward(pc9, at191)
           v == Work(pc9, flag)
<1>1. a \in Int /\ c \in Int /\ t \in Int /\ v \in 0..5 /\ c + 5 < a
  BY CountBounds DEF Falls
<1>2. Left7 = a /\ Left9 = v + t
  BY DEF Left7, Left9
<1>3. Left7' = c
  BY Zenon DEF Left7, Only7
<1>4. PICK w \in 0..5 : Work(pc9, flag') = w
  BY CountBounds
<1>5. Left9' = w + t
  BY <1>4, Zenon DEF Left9, Only7
<1> HIDE DEF a, c, t, v
<1>6. c + (w + t) < a + (v + t) /\ w + t \in Int /\ v + t \in Int
  BY <1>1, <1>4
<1> QED
  BY <1>1, <1>2, <1>3, <1>5, <1>6, LeftLess, Zenon

(* The last two steps give no command.                                       *)
LEMMA LineShrinks ==
  ASSUME Only7, flag' = flag,
         \/ pc7 = "line" /\ pc7' = "edge" /\ at191
         \/ pc7 = "edge" /\ pc7' = "game" /\ ~at191
  PROVE  LoaderLeft' < LoaderLeft
<1>1. Left9' = Left9
  BY DEF Left9, Only7
<1>2. Left9 \in Int
  BY CountBounds DEF Left9
<1>3. \/ Left7 = 3 /\ Left7' = 2
      \/ Left7 = 1 /\ Left7' = 0
  BY DEF Left7, Rank, Toward, Only7
<1>4. 2 + Left9 < 3 + Left9 /\ 0 + Left9 < 1 + Left9
  BY <1>2
<1> QED
  BY <1>1, <1>2, <1>3, <1>4, LeftLess

(* Every step of the ARM7 is one or the other.                                *)
LEMMA Loader7Shrinks ==
  ASSUME Loader7
  PROVE  LoaderLeft' < LoaderLeft
<1>1. CASE Line7 \/ Start7
  BY <1>1, LineShrinks DEF Line7, Start7, Go
<1>2. ASSUME NEW p, NEW q, pc7 = p, pc7' = q, Only7,
             Rank(q) < Rank(p), Toward(q, at191) = 0 \/ Rank(q) + 1 < Rank(p)
      PROVE  LoaderLeft' < LoaderLeft
  <2>1. Falls(p, q, at191)
    BY <1>2, CountBounds DEF Falls
  <2> QED
    BY <1>2, <2>1, FallShrinks
<1>3. ASSUME NEW p, NEW q, Go(p, q),
             Rank(q) < Rank(p), Toward(q, at191) = 0 \/ Rank(q) + 1 < Rank(p)
      PROVE  LoaderLeft' < LoaderLeft
  BY <1>2, <1>3 DEF Go
<1>4. ASSUME NEW p, NEW q, NEW cmd, Give(p, cmd, q),
             Rank(q) < Rank(p), Toward(q, at191) = 0 \/ Rank(q) + 1 < Rank(p)
      PROVE  LoaderLeft' < LoaderLeft
  BY <1>2, <1>4 DEF Give
<1> USE DEF Rank, Toward
<1>5. CASE WaitStart
  BY <1>3, <1>5 DEF WaitStart
<1>6. CASE Missing
  BY <1>3, <1>6 DEF Missing
<1>7. CASE HeaderRead
  BY <1>3, <1>7 DEF HeaderRead
<1>8. CASE ScreenShown
  BY <1>3, <1>8 DEF ScreenShown
<1>9. CASE NoRating
  BY <1>3, <1>9 DEF NoRating
<1>10. CASE NoMap
  BY <1>3, <1>10 DEF NoMap
<1>11. CASE MbkDone
  BY <1>3, <1>11 DEF MbkDone
<1>12. CASE NoLut
  BY <1>3, <1>12 DEF NoLut
<1>13. CASE LutDone
  BY <1>3, <1>13 DEF LutDone
<1>14. CASE NoFix
  BY <1>3, <1>14 DEF NoFix
<1>15. CASE ErrorOutput
  BY <1>4, <1>15 DEF ErrorOutput
<1>16. CASE PleaseWait
  BY <1>4, <1>16 DEF PleaseWait
<1>17. CASE EsrbOutput
  BY <1>4, <1>17 DEF EsrbOutput
<1>18. CASE InitMbk
  BY <1>4, <1>18 DEF InitMbk
<1>19. CASE LutToArm7
  BY <1>4, <1>19 DEF LutToArm7
<1>20. CASE ClearScreen
  BY <1>4, <1>20 DEF ClearScreen
<1>21. CASE SetScfg
  BY <1>4, <1>21 DEF SetScfg
<1>22. CASE StartBinary
  BY <1>4, <1>22 DEF StartBinary
<1>23. CASE CopyLut
  BY <1>2, <1>23 DEF CopyLut
<1>24. CASE ReadFix
  BY <1>2, <1>24 DEF ReadFix
<1>25. CASE ClearImages
  BY <1>2, <1>25 DEF ClearImages
<1>26. CASE SaveScfg
  BY <1>2, <1>26 DEF SaveScfg
<1> QED
  BY <1>1, <1>5, <1>6, <1>7, <1>8, <1>9, <1>10, <1>11, <1>12, <1>13, <1>14,
     <1>15, <1>16, <1>17, <1>18, <1>19, <1>20, <1>21, <1>22, <1>23, <1>24,
     <1>25, <1>26
     DEF Loader7

(* Of the ARM9's steps each takes one off at least.                            *)
LEMMA Loader9Shrinks ==
  ASSUME Loader9
  PROVE  LoaderLeft' < LoaderLeft
<1> USE DEF Only9
<1>1. UNCHANGED <<pc7, at191>>
  BY DEF Loader9, Begin9, Scrnclr, Dispesrb, NoEsrb, EsrbScreen, EsrbShown,
         Dispscrn, Disperr, Initmbk, WramOn, Setscfg, Boot9, Begin
<1>2. Left7' = Left7 /\ Left7 \in Int
  BY <1>1, CountBounds DEF Left7
<1> USE DEF Left9, Work, Pending, Toward, Commands, Take, Done
<1>3. \E v, w \in 0..9 : Left9 = v /\ Left9' = w /\ w < v
  <2>1. CASE Begin9 \/ Boot9
    BY <1>1, <2>1 DEF Begin9, Boot9
  <2>2. CASE Scrnclr \/ Dispscrn \/ Disperr
    BY <1>1, <2>2 DEF Scrnclr, Dispscrn, Disperr
  <2>3. CASE Dispesrb \/ NoEsrb \/ EsrbScreen \/ EsrbShown
    BY <1>1, <2>3 DEF Dispesrb, NoEsrb, EsrbScreen, EsrbShown
  <2>4. CASE Initmbk \/ Setscfg \/ WramOn("arm7", "WRAMONARM7")
               \/ WramOn("arm9", "WRAMONARM9")
    BY <1>1, <2>4 DEF Initmbk, WramOn, Setscfg
  <2>5. ASSUME NEW cmd \in {"SCRNCLR", "DISPSCRN", "DISPERR"}, Begin(cmd)
        PROVE  \E v, w \in 0..9 : Left9 = v /\ Left9' = w /\ w < v
    BY <1>1, <2>5 DEF Begin
  <2> QED
    BY <2>1, <2>2, <2>3, <2>4, <2>5 DEF Loader9
<1>4. PICK v \in 0..9, w \in 0..9 : Left9 = v /\ Left9' = w /\ w < v
  BY <1>3
<1>5. Left7 + w < Left7 + v
  BY <1>2, <1>4
<1> QED
  BY <1>2, <1>4, <1>5, LeftLess

(* The display takes a processor to the line it waits for, and none away from it.  *)
LEMMA VcountShrinks ==
  ASSUME Vcount, at191 \in BOOLEAN
  PROVE  LoaderLeft' < LoaderLeft
<1>1. UNCHANGED <<pc7, pc9, flag>> /\ at191' = ~at191
  BY DEF Vcount
<1>2. PICK r \in 0..18, v \in 0..5 : Rank(pc7) = r /\ Work(pc9, flag) = v
  BY CountBounds
<1>3. /\ Left7 = 6 * r + Toward(pc7, at191) /\ Left9 = v + Toward(pc9, at191)
      /\ Left7' = 6 * r + Toward(pc7, ~at191) /\ Left9' = v + Toward(pc9, ~at191)
  BY <1>1, <1>2, Zenon DEF Left7, Left9
<1>4. /\ Toward(pc7, ~at191) <= Toward(pc7, at191)
      /\ Toward(pc9, ~at191) <= Toward(pc9, at191)
      /\ \/ Toward(pc7, ~at191) < Toward(pc7, at191)
         \/ Toward(pc9, ~at191) < Toward(pc9, at191)
  BY DEF Toward, Vcount
<1>5. (6 * r + Toward(pc7, ~at191)) + (v + Toward(pc9, ~at191))
        < (6 * r + Toward(pc7, at191)) + (v + Toward(pc9, at191))
  BY <1>2, <1>4, CountBounds
<1>6. /\ 6 * r + Toward(pc7, ~at191) \in Int /\ v + Toward(pc9, ~at191) \in Int
      /\ 6 * r + Toward(pc7, at191) \in Int /\ v + Toward(pc9, at191) \in Int
  BY <1>2, CountBounds
<1> QED
  BY <1>3, <1>5, <1>6, LeftLess, Zenon

(* The display's line changes by the display's own steps only.                *)
LEMMA StepsLine191 == at191 \in BOOLEAN /\ LoaderNext => at191' \in BOOLEAN
<1> SUFFICES ASSUME at191 \in BOOLEAN, LoaderNext PROVE at191' \in BOOLEAN
  OBVIOUS
<1>1. ASSUME Only7 \/ Only9 \/ at191' = ~at191
      PROVE  at191' \in BOOLEAN
  BY <1>1 DEF Only7, Only9
<1>2. CASE Loader7
  BY <1>1, <1>2
     DEF Loader7, Go, Give, WaitStart, Missing, ErrorOutput, PleaseWait, HeaderRead,
         ScreenShown, EsrbOutput, NoRating, InitMbk, NoMap, MbkDone, NoLut, LutToArm7,
         CopyLut, LutDone, ReadFix, NoFix, ClearImages, ClearScreen, SetScfg, SaveScfg,
         StartBinary, Line7, Start7
<1>3. CASE Loader9
  BY <1>1, <1>3
     DEF Loader9, Begin9, Scrnclr, Dispesrb, NoEsrb, EsrbScreen, EsrbShown, Dispscrn,
         Disperr, Initmbk, WramOn, Setscfg, Boot9, Begin
<1>4. CASE Vcount
  BY <1>1, <1>4 DEF Vcount
<1> QED
  BY <1>2, <1>3, <1>4 DEF LoaderNext

(* The count after a step is one again.                                      *)
LEMMA LeftNat == LoaderLeft' \in Nat
<1>1. PICK r \in 0..18, s \in 0..4, t \in 0..4, w \in 0..5 :
        /\ Rank(pc7') = r /\ Toward(pc7', at191') = s
        /\ Work(pc9', flag') = w /\ Toward(pc9', at191') = t
  BY CountBounds, Zenon
<1>2. LoaderLeft' = (6 * r + s) + (w + t)
  BY <1>1, Zenon DEF LoaderLeft, Left7, Left9
<1>3. (6 * r + s) + (w + t) \in Nat
  OBVIOUS
<1> QED
  BY <1>2, <1>3, Zenon

(* At each place of Handshake one of the three has its guard true.              *)
LEMMA InvNeverStuck == LoaderInv => NeverStuck
BY DEF LoaderInv, Handshake, Starting, Waiting, Serves, Rates, Mapped,
       Patched, Cleared, Set, Answered, Rated, Ready, Pictures, Polled,
       ImagesFree, Commands, Ended, Moves7, Moves9, MovesDisplay, NeverStuck

(* A boot takes at most 111 steps of its two processors and the display, whatever   *)
(* loader, mode and files, and at any time before its end one of the three can go  *)
(* on: no wait of arm7_main is for a READY that has been lost or overwritten, nor  *)
(* do the two miss each other at the line where both start the game.            *)
THEOREM LoaderComesToEnd ==
  LoaderSpec => /\ [](LoaderLeft \in 0..111 /\ NeverStuck)
                /\ [][LoaderLeft' < LoaderLeft]_loaderVars
<1> DEFINE J == LoaderLeft \in 0..111 /\ at191 \in BOOLEAN
<1>1. LoaderInit => J
  BY DEF LoaderInit, LoaderLeft, Left7, Left9, Rank, Toward, Work
<1>2. J /\ [LoaderNext]_loaderVars => J' /\ [LoaderLeft' < LoaderLeft]_loaderVars
  <2> SUFFICES ASSUME J, [LoaderNext]_loaderVars
               PROVE  J' /\ [LoaderLeft' < LoaderLeft]_loaderVars
    OBVIOUS
  <2>1. CASE LoaderNext
    <3>1. LoaderLeft' < LoaderLeft
      BY <2>1, Loader7Shrinks, Loader9Shrinks, VcountShrinks DEF LoaderNext
    <3>2. PICK n \in Nat : LoaderLeft' = n
      BY LeftNat, Zenon
    <3>3. n \in 0..111
      <4>1. n < LoaderLeft /\ LoaderLeft \in 0..111
        BY <3>1, <3>2, Zenon
      <4> QED
        BY <4>1, <3>2
    <3>4. LoaderLeft' \in 0..111
      BY <3>2, <3>3, Zenon
    <3>5. at191' \in BOOLEAN
      BY <2>1, StepsLine191
    <3> QED
      BY <3>1, <3>4, <3>5, Zenon
  <2>2. CASE UNCHANGED loaderVars
    <3>1. LoaderLeft' = LoaderLeft /\ at191' = at191
      BY <2>2 DEF loaderVars, LoaderLeft, Left7, Left9
    <3> QED
      BY <2>2, <3>1, Zenon
  <2> QED
    BY <2>1, <2>2
<1>3. J => LoaderLeft \in 0..111
  OBVIOUS
<1> HIDE DEF J
<1> QED
  BY <1>1, <1>2, <1>3, LoaderInvariant, InvNeverStuck, PTL DEF LoaderSpec

=============================================================================
