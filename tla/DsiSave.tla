-------------------------------- MODULE DsiSave --------------------------------
(***************************************************************************)
(* The save archive of DSi-enhanced games (the dsiSave functions of ce9, in    *)
(* the DLDI build): one file, kept in the save file on the card, whose last    *)
(* words are the exist flag and the length.  The game makes one call at a     *)
(* time, with interrupts off; the power can go between any two writes to the  *)
(* card, for the ARM7's guards know nothing of the ARM9's writes.            *)
(*                                                                          *)
(* The game has one file open at a time and uses what it has opened.  The     *)
(* save file exists: without it each call fails at once.                    *)
(***************************************************************************)
EXTENDS Integers, Sequences

CONSTANTS
  Room,       (* saveSize - 0x200, in cells                                 *)
  MaxCalls    (* bound: calls of the game                                   *)

ASSUME DsiSaveAssumption == Room \in Nat \ {0} /\ MaxCalls \in Nat

VARIABLES
  card,       (* the save file: cells 0..Room - 1, the flag and the length   *)
  dsiSaveInited, dsiSaveExists, dsiSaveSize, dsiSaveSeekPos, dsiSavePerms,
  sharedFontOpened,
  op,         (* the write under way                                        *)
  opened,     (* what the game has opened                                   *)
  reply, got, (* what the last call has returned, and read                  *)
  power,      (* "on", "off", or "overrun", see Read                         *)
  calls

ram  == <<dsiSaveInited, dsiSaveExists, dsiSaveSize>>
file == <<dsiSaveSeekPos, dsiSavePerms, sharedFontOpened, opened>>
vars == <<card, ram, file, op, reply, got, power, calls>>

Cells == 0..(Room + 1)
Flag  == Room          (* saveSize - 8 *)
Size  == Room + 1      (* saveSize - 4 *)

NoOp == [kind |-> "none", at |-> 0, len |-> 0, done |-> 0, id |-> 0]

Bit(b) == IF b THEN 1 ELSE 0
Smaller(m, n) == IF m < n THEN m ELSE n

(* fileWrite of one cell.                                                   *)
Stored(c, v) == [card EXCEPT ![c] = v]

-----------------------------------------------------------------------------
(* A call of the game while nothing is under way.                           *)
Call == power = "on" /\ op = NoOp /\ calls < MaxCalls /\ calls' = calls + 1

On(what) == Call /\ opened \in what /\ UNCHANGED power

(* dsiSaveInit: the first call that comes here reads the words.              *)
Exists == IF dsiSaveInited THEN dsiSaveExists ELSE card[Flag] # 0

DsiSaveInit ==
  /\ dsiSaveInited' = TRUE
  /\ dsiSaveExists' = Exists
  /\ dsiSaveSize' = IF dsiSaveInited THEN dsiSaveSize ELSE card[Size]

DsiSaveCheckExists ==
  /\ On({"none", "save", "font"})
  /\ DsiSaveInit
  /\ reply' = Bit(~Exists)
  /\ UNCHANGED <<card, file, op, got>>

(* dsiSaveGetInfo: the drives themselves always exist.                      *)
DsiSaveGetInfo(drive) ==
  /\ On({"none", "save", "font"})
  /\ DsiSaveInit
  /\ reply' = Bit(drive \/ Exists)
  /\ UNCHANGED <<card, file, op, got>>

(* The result codes are left out.                                           *)
DsiSaveGetResultCode ==
  /\ On({"none", "save", "font"})
  /\ DsiSaveInit
  /\ UNCHANGED <<card, file, op, reply, got>>

(* Games that call their archive "data" are told what they would be told.     *)
DsiSaveCreate(data) ==
  /\ On({"none"})
  /\ dsiSaveSeekPos' = 0
  /\ DsiSaveInit
  /\ reply' = Bit(~Exists)
  /\ UNCHANGED <<dsiSavePerms, sharedFontOpened, opened, op, got>>
  /\ data \/ Exists
  /\ UNCHANGED card

DsiSaveCreateNew ==
  /\ On({"none"})
  /\ dsiSaveSeekPos' = 0
  /\ ~Exists
  /\ dsiSaveInited' = TRUE /\ dsiSaveExists' = TRUE
  /\ dsiSaveSize' = IF dsiSaveInited THEN dsiSaveSize ELSE card[Size]
  /\ card' = Stored(Flag, 1)
  /\ reply' = 1
  /\ UNCHANGED <<dsiSavePerms, sharedFontOpened, opened, op, got>>

(* dsiSaveDelete does not come to dsiSaveInit: what has not been asked for     *)
(* does not exist.  The length goes first, then the flag.                   *)
DsiSaveDelete ==
  /\ On({"none"})
  /\ dsiSaveSeekPos' = 0
  /\ \/ /\ dsiSaveExists
        /\ dsiSaveSize' = 0
        /\ card' = Stored(Size, 0)
        /\ op' = [NoOp EXCEPT !.kind = "remove"]
        /\ UNCHANGED reply
     \/ /\ ~dsiSaveExists
        /\ reply' = 0
        /\ UNCHANGED <<dsiSaveSize, card, op>>
  /\ UNCHANGED <<dsiSaveInited, dsiSaveExists, dsiSavePerms, sharedFontOpened,
                 opened, got>>

(* Faulty: the flag in memory is forgotten.                                 *)
ExistsAfterDeleteKept == dsiSaveExists

ExistsAfterDelete == FALSE

DsiSaveDeleteFlag ==
  /\ power = "on" /\ op.kind = "remove"
  /\ card' = Stored(Flag, 0)
  /\ dsiSaveExists' = ExistsAfterDelete
  /\ op' = NoOp /\ reply' = 1
  /\ UNCHANGED <<dsiSaveInited, dsiSaveSize, file, got, power, calls>>

(* dsiSaveSetLength: no longer than there is room.                          *)
Clamped(n) == Smaller(n, Room)

DsiSaveSetLength(n) ==
  /\ On({"save"})
  /\ dsiSaveSeekPos' = 0
  /\ dsiSaveSize' = Clamped(n)
  /\ card' = Stored(Size, Clamped(n))
  /\ reply' = 0
  /\ UNCHANGED <<dsiSaveInited, dsiSaveExists, dsiSavePerms, sharedFontOpened,
                 opened, op, got>>

DsiSaveOpen(mode) ==
  /\ On({"none"})
  /\ dsiSaveSeekPos' = 0
  /\ DsiSaveInit
  /\ dsiSavePerms' = mode
  /\ opened' = IF Exists THEN "save" ELSE "none"
  /\ reply' = Bit(Exists)
  /\ UNCHANGED <<card, sharedFontOpened, op, got>>

(* dsiSaveOpen of the system's font.                                        *)
OpenSharedFont ==
  /\ On({"none"})
  /\ dsiSaveSeekPos' = 0
  /\ sharedFontOpened' = TRUE /\ opened' = "font"
  /\ reply' = 1
  /\ UNCHANGED <<card, ram, dsiSavePerms, op, got>>

DsiSaveClose ==
  /\ On({"save", "font"})
  /\ dsiSaveSeekPos' = 0
  /\ sharedFontOpened' = FALSE /\ opened' = "none"
  /\ reply' = IF sharedFontOpened THEN 1 ELSE Bit(dsiSaveExists)
  /\ UNCHANGED <<card, ram, dsiSavePerms, op, got>>

(* To ask for the length is to rewind.                                      *)
DsiSaveGetLength ==
  /\ On({"save"})
  /\ dsiSaveSeekPos' = 0
  /\ reply' = dsiSaveSize
  /\ UNCHANGED <<card, ram, dsiSavePerms, sharedFontOpened, opened, op, got>>

DsiSaveGetPosition ==
  /\ On({"save", "font"})
  /\ reply' = dsiSaveSeekPos
  /\ UNCHANGED <<card, ram, file, op, got>>

DsiSaveSeek(p) ==
  /\ On({"save", "font"})
  /\ \/ /\ sharedFontOpened \/ dsiSaveExists
        /\ dsiSaveSeekPos' = p /\ reply' = 1
     \/ /\ ~sharedFontOpened /\ ~dsiSaveExists
        /\ reply' = 0 /\ UNCHANGED dsiSaveSeekPos
  /\ UNCHANGED <<card, ram, dsiSavePerms, sharedFontOpened, opened, op, got>>

-----------------------------------------------------------------------------
(* dsiSaveRead.                                                             *)

ReadSharedFont(n) ==
  /\ On({"save", "font"}) /\ sharedFontOpened
  /\ got' = [i \in 1..n |-> -1]
  /\ dsiSaveSeekPos' = dsiSaveSeekPos + n /\ reply' = n
  /\ UNCHANGED <<card, ram, dsiSavePerms, sharedFontOpened, opened, op>>

MayRead == dsiSavePerms # 2 /\ dsiSaveExists

(* The length counted down until the read fits the file.                    *)
Fitting(n) == Smaller(n, dsiSaveSize - dsiSaveSeekPos)

(* From beyond the end the count goes through zero, and on from the largest    *)
(* number: the read runs over the game's memory.                            *)
Overruns == dsiSaveSize > 0 /\ dsiSaveSeekPos > dsiSaveSize

DsiSaveRead(n) ==
  /\ On({"save", "font"}) /\ ~sharedFontOpened
  /\ ~MayRead \/ ~Overruns
  /\ IF MayRead /\ dsiSaveSize > 0 /\ Fitting(n) > 0
       THEN /\ got' = [i \in 1..Fitting(n) |-> card[dsiSaveSeekPos + i - 1]]
            /\ dsiSaveSeekPos' = dsiSaveSeekPos + Fitting(n)
            /\ reply' = Fitting(n)
       ELSE /\ reply' = IF MayRead THEN 0 ELSE -1
            /\ UNCHANGED <<got, dsiSaveSeekPos>>
  /\ UNCHANGED <<card, ram, dsiSavePerms, sharedFontOpened, opened, op>>

DsiSaveReadOverrun ==
  /\ Call /\ opened \in {"save", "font"} /\ ~sharedFontOpened
  /\ MayRead /\ Overruns
  /\ power' = "overrun"
  /\ UNCHANGED <<card, ram, file, op, reply, got>>

-----------------------------------------------------------------------------
(* dsiSaveWrite: the data, then the length if the file has become longer.     *)

MayWrite == dsiSavePerms # 1 /\ dsiSaveExists

DsiSaveWriteNot ==
  /\ On({"save"})
  /\ \/ ~MayWrite /\ reply' = -1
     \/ MayWrite /\ dsiSaveSeekPos >= Room /\ reply' = 0
  /\ UNCHANGED <<card, ram, file, op, got>>

(* Faulty: one cell too many.                                               *)
WritableOneMore(n) == Smaller(n, Room + 1 - dsiSaveSeekPos)

(* "Do not overwrite exist flag and save file size."                        *)
Writable(n) == Smaller(n, Room - dsiSaveSeekPos)

DsiSaveWrite(n) ==
  /\ On({"save"})
  /\ MayWrite /\ dsiSaveSeekPos < Room
  /\ op' = [kind |-> "write", at |-> dsiSaveSeekPos, len |-> Writable(n), done |-> 0,
            id |-> calls + 1]
  /\ UNCHANGED <<card, ram, file, reply, got>>

(* fileWrite of the data, cell by cell.                                     *)
DsiSaveWriteData ==
  /\ power = "on" /\ op.kind = "write" /\ op.done < op.len
  /\ card' = Stored(op.at + op.done, op.id)
  /\ op' = [op EXCEPT !.done = @ + 1]
  /\ UNCHANGED <<ram, file, reply, got, power, calls>>

(* Faulty: the data need not be there when the length is written.            *)
DataDoneAlways == TRUE

DataDone == op.done = op.len

DsiSaveWriteEnd ==
  LET end == op.at + op.len
  IN  /\ power = "on" /\ op.kind = "write" /\ DataDone
      /\ \/ /\ dsiSaveSize < end
            /\ dsiSaveSize' = end
            /\ card' = Stored(Size, end)
         \/ dsiSaveSize >= end /\ UNCHANGED <<dsiSaveSize, card>>
      /\ dsiSaveSeekPos' = end /\ reply' = op.len
      /\ op' = NoOp
      /\ UNCHANGED <<dsiSaveInited, dsiSaveExists, dsiSavePerms, sharedFontOpened,
                     opened, got, power, calls>>

-----------------------------------------------------------------------------
(* External: the power goes, and the console is started again.               *)
Cut ==
  /\ power \in {"on", "overrun"}
  /\ power' = "off"
  /\ UNCHANGED <<card, ram, file, op, reply, got, calls>>

PowerOn ==
  /\ power = "off" /\ power' = "on"
  /\ dsiSaveInited' = FALSE /\ dsiSaveExists' = FALSE /\ dsiSaveSize' = 0
  /\ dsiSaveSeekPos' = 0 /\ dsiSavePerms' = 0 /\ sharedFontOpened' = FALSE
  /\ opened' = "none" /\ op' = NoOp
  /\ UNCHANGED <<card, reply, got, calls>>

(* reset: the game starts anew over a ce9 that stays as it is.               *)
Reset ==
  /\ power = "on" /\ op = NoOp
  /\ opened' = "none"
  /\ UNCHANGED <<card, ram, dsiSaveSeekPos, dsiSavePerms, sharedFontOpened, op,
                 reply, got, power, calls>>

Init ==
  /\ card = [c \in Cells |-> 0]
  /\ dsiSaveInited = FALSE /\ dsiSaveExists = FALSE /\ dsiSaveSize = 0
  /\ dsiSaveSeekPos = 0 /\ dsiSavePerms = 0 /\ sharedFontOpened = FALSE
  /\ op = NoOp /\ opened = "none" /\ reply = 0 /\ got = <<>>
  /\ power = "on" /\ calls = 0

(* Lengths and positions up to one beyond the room; what is read and written  *)
(* is not empty.                                                            *)
Lengths == 0..(Room + 1)
Amounts == 1..(Room + 1)

Files ==
  \/ DsiSaveCheckExists \/ DsiSaveGetResultCode
  \/ DsiSaveCreateNew \/ DsiSaveDelete \/ DsiSaveDeleteFlag
  \/ \E which \in BOOLEAN : DsiSaveGetInfo(which) \/ DsiSaveCreate(which)
  \/ \E mode \in 1..3 : DsiSaveOpen(mode)
  \/ OpenSharedFont \/ DsiSaveClose

Access ==
  \/ DsiSaveGetLength \/ DsiSaveGetPosition
  \/ \E n \in Lengths : DsiSaveSetLength(n) \/ DsiSaveSeek(n)
  \/ \E n \in Amounts : ReadSharedFont(n) \/ DsiSaveRead(n) \/ DsiSaveWrite(n)
  \/ DsiSaveReadOverrun \/ DsiSaveWriteNot \/ DsiSaveWriteData \/ DsiSaveWriteEnd

Next == Files \/ Access \/ Cut \/ PowerOn \/ Reset

Spec == Init /\ [][Next]_vars

-----------------------------------------------------------------------------
(* dsiSaveWrite: "Do not overwrite exist flag and save file size".  The words  *)
(* behind the data are only ever what the calls for them have put there.      *)
WordsKept == card[Flag] \in {0, 1} /\ card[Size] \in 0..Room

(* What ce9 remembers of the words is what the card has, cut writes, restarts  *)
(* of the game and power-ons included.                                      *)
MemoryAgrees ==
  power = "on" /\ dsiSaveInited =>
    /\ dsiSaveExists <=> card[Flag] # 0
    /\ dsiSaveSize = card[Size]

(* The calls are those of a file that survives the loss of power, with two     *)
(* exceptions: a read from beyond the end, and a game restarted while it has   *)
(* the font open, whose flag ce9 keeps.                                     *)
Archive ==
  INSTANCE SaveArchive WITH
    FontCell <- -1,
    exists <- card[Flag] # 0,
    file   <- [i \in 1..card[Size] |-> card[i - 1]],
    known  <- dsiSaveInited,
    open   <- opened,
    mode   <- dsiSavePerms,
    pos    <- dsiSaveSeekPos,
    todo   <- op,
    status <- IF power = "off" THEN "off"
              ELSE IF power = "overrun" \/ (sharedFontOpened /\ opened # "font")
                THEN "broken" ELSE "on"

ImplementsSaveArchive == Archive!Spec
=============================================================================
