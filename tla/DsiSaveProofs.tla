----------------------------- MODULE DsiSaveProofs -----------------------------
(***************************************************************************)
(* DsiSave, proved for a save file of any size and any number of calls.  The  *)
(* two invariants rest on Bounds: what a write has still to store lies below  *)
(* the words.  Then DsiSave implements SaveArchive: each step of ce9 is a     *)
(* call of the archive, a part of one, or taken where nothing is promised     *)
(* any more.                                                                *)
(***************************************************************************)
EXTENDS DsiSave, TLAPS

Bounds ==
  /\ DOMAIN card = Cells
  /\ dsiSaveSize \in 0..Room
  /\ dsiSaveSeekPos \in Nat
  /\ op.kind = "write" =>
       /\ op.at \in Nat /\ op.len \in Nat /\ op.done \in Nat
       /\ op.at + op.len <= Room /\ op.done <= op.len

Inv == Bounds /\ WordsKept /\ MemoryAgrees

LEMMA InitInv == Init => Inv
  BY DsiSaveAssumption DEF Init, Inv, Bounds, WordsKept, MemoryAgrees, NoOp, Cells,
     Flag, Size

LEMMA FilesInv == Inv /\ Files => Inv'
<1> SUFFICES ASSUME Inv, Files
             PROVE  Inv'
  OBVIOUS
<1> USE DsiSaveAssumption DEF Inv, Bounds, WordsKept, MemoryAgrees, Cells, Flag, Size,
        NoOp
<1>1. CASE DsiSaveCheckExists \/ DsiSaveGetResultCode
  BY <1>1 DEF DsiSaveCheckExists, DsiSaveGetResultCode, On, Call, DsiSaveInit, Exists,
     file
<1>2. CASE DsiSaveCreateNew
  BY <1>2 DEF DsiSaveCreateNew, On, Call, Exists, Stored
<1>3. CASE DsiSaveDelete
  BY <1>3 DEF DsiSaveDelete, On, Call, Stored
<1>4. CASE DsiSaveDeleteFlag
  BY <1>4 DEF DsiSaveDeleteFlag, ExistsAfterDelete, Stored, file
<1>5. ASSUME NEW which \in BOOLEAN, DsiSaveGetInfo(which)
      PROVE  Inv'
  BY <1>5 DEF DsiSaveGetInfo, On, Call, DsiSaveInit, Exists, file
<1>6. ASSUME NEW which \in BOOLEAN, DsiSaveCreate(which)
      PROVE  Inv'
  BY <1>6 DEF DsiSaveCreate, On, Call, DsiSaveInit, Exists
<1>7. ASSUME NEW mode \in 1..3, DsiSaveOpen(mode)
      PROVE  Inv'
  BY <1>7 DEF DsiSaveOpen, On, Call, DsiSaveInit, Exists
<1>8. CASE OpenSharedFont \/ DsiSaveClose
  BY <1>8 DEF OpenSharedFont, DsiSaveClose, On, Call, ram
<1> QED
  BY <1>1, <1>2, <1>3, <1>4, <1>5, <1>6, <1>7, <1>8 DEF Files

LEMMA AccessInv == Inv /\ Access => Inv'
<1> SUFFICES ASSUME Inv, Access
             PROVE  Inv'
  OBVIOUS
<1> USE DsiSaveAssumption DEF Inv, Bounds, WordsKept, MemoryAgrees, Cells, Flag, Size,
        NoOp
<1>1. CASE DsiSaveGetLength \/ DsiSaveGetPosition
  BY <1>1 DEF DsiSaveGetLength, DsiSaveGetPosition, On, Call, ram, file
<1>2. ASSUME NEW n \in Lengths, DsiSaveSetLength(n)
      PROVE  Inv'
  BY <1>2 DEF DsiSaveSetLength, Lengths, Clamped, Smaller, Stored, On, Call
<1>3. ASSUME NEW n \in Lengths, DsiSaveSeek(n)
      PROVE  Inv'
  BY <1>3 DEF DsiSaveSeek, Lengths, On, Call, ram
<1>4. ASSUME NEW n \in Amounts, ReadSharedFont(n) \/ DsiSaveRead(n)
      PROVE  Inv'
  BY <1>4 DEF ReadSharedFont, DsiSaveRead, Fitting, Smaller, Amounts, On, Call, ram
<1>5. ASSUME NEW n \in Amounts, DsiSaveWrite(n)
      PROVE  Inv'
  BY <1>5 DEF DsiSaveWrite, Writable, Smaller, Amounts, On, Call, ram, file
<1>6. CASE DsiSaveReadOverrun \/ DsiSaveWriteNot
  BY <1>6 DEF DsiSaveReadOverrun, DsiSaveWriteNot, On, Call, ram, file
<1>7. CASE DsiSaveWriteData
  BY <1>7 DEF DsiSaveWriteData, Stored, ram, file
<1>8. CASE DsiSaveWriteEnd
  BY <1>8 DEF DsiSaveWriteEnd, Stored
<1> QED
  BY <1>1, <1>2, <1>3, <1>4, <1>5, <1>6, <1>7, <1>8 DEF Access

LEMMA PowerInv == Inv /\ (Cut \/ PowerOn \/ Reset \/ UNCHANGED vars) => Inv'
  BY DsiSaveAssumption DEF Inv, Bounds, WordsKept, MemoryAgrees, NoOp, Cut, PowerOn,
     Reset, vars, ram, file

(* The words behind the data hold a flag and a length that fits (dsiSaveWrite  *)
(* stops before them), and ce9's copies of them are right.                   *)
LEMMA Invariant == Spec => []Inv
<1>1. Inv /\ [Next]_vars => Inv'
  BY FilesInv, AccessInv, PowerInv DEF Next
<1> QED
  BY <1>1, InitInv, PTL DEF Spec

(* No write of data ever reaches the words behind it, whatever position the   *)
(* game has sought and however long its write (dsiSaveWrite).                *)
THEOREM DsiSaveWordsKept == Spec => []WordsKept
<1>1. Inv => WordsKept
  BY DEF Inv
<1> QED
  BY <1>1, Invariant, PTL

(* ce9 never answers from a flag or a length that the card does not have      *)
(* (dsiSaveInit reads them once), whenever the power goes.                   *)
THEOREM DsiSaveMemoryAgrees == Spec => []MemoryAgrees
<1>1. Inv => MemoryAgrees
  BY DEF Inv
<1> QED
  BY <1>1, Invariant, PTL

-----------------------------------------------------------------------------
(* The refinement.                                                          *)

(* What holds between ce9's state, the write under way and what the game has   *)
(* opened; Inv is about the card.                                           *)
Places ==
  /\ opened \in {"none", "save", "font"}
  /\ op.kind \in {"none", "write", "remove"}
  /\ op.kind = "none" => op = NoOp
  /\ power \in {"on", "off", "overrun"}
  /\ opened = "save" => dsiSaveInited /\ dsiSaveExists /\ dsiSavePerms \in 1..3
  /\ opened = "font" => sharedFontOpened
  /\ ~dsiSaveInited => ~dsiSaveExists
  /\ op.kind = "write" =>
       /\ opened = "save" /\ dsiSaveSeekPos = op.at
       /\ op = [kind |-> "write", at |-> op.at, len |-> op.len, done |-> op.done,
                id |-> op.id]
       /\ \A c \in op.at..(op.at + op.done - 1) : card[c] = op.id
  /\ op.kind = "remove" =>
       /\ opened = "none" /\ dsiSaveInited /\ dsiSaveExists /\ dsiSaveSize = 0
       /\ dsiSaveSeekPos = 0
       /\ op = [NoOp EXCEPT !.kind = "remove"]

(* The archive's file; and where the archive still promises anything.         *)
File == [i \in 1..card[Size] |-> card[i - 1]]

Promised == power = "on" /\ (sharedFontOpened => opened = "font")

-----------------------------------------------------------------------------
(* Places is an invariant.                                                  *)

LEMMA InitPlaces == Init => Places
  BY DEF Init, Places, NoOp

LEMMA FilesPlaces == Inv /\ Places /\ Files => Places'
<1> SUFFICES ASSUME Inv, Places, Files
             PROVE  Places'
  OBVIOUS
<1> USE DEF Places, NoOp, Inv, Bounds
<1>1. CASE DsiSaveCheckExists \/ DsiSaveGetResultCode
  BY <1>1 DEF DsiSaveCheckExists, DsiSaveGetResultCode, On, Call, DsiSaveInit, Exists,
     file
<1>2. CASE DsiSaveCreateNew
  BY <1>2 DEF DsiSaveCreateNew, On, Call, Exists
<1>3. CASE DsiSaveDelete
  BY <1>3 DEF DsiSaveDelete, On, Call
<1>4. CASE DsiSaveDeleteFlag
  BY <1>4 DEF DsiSaveDeleteFlag, ExistsAfterDelete, file
<1>5. ASSUME NEW which \in BOOLEAN, DsiSaveGetInfo(which)
      PROVE  Places'
  BY <1>5 DEF DsiSaveGetInfo, On, Call, DsiSaveInit, Exists, file
<1>6. ASSUME NEW which \in BOOLEAN, DsiSaveCreate(which)
      PROVE  Places'
  BY <1>6 DEF DsiSaveCreate, On, Call, DsiSaveInit, Exists
<1>7. ASSUME NEW mode \in 1..3, DsiSaveOpen(mode)
      PROVE  Places'
  BY <1>7 DEF DsiSaveOpen, On, Call, DsiSaveInit, Exists
<1>8. CASE OpenSharedFont \/ DsiSaveClose
  BY <1>8 DEF OpenSharedFont, DsiSaveClose, On, Call, ram
<1> QED
  BY <1>1, <1>2, <1>3, <1>4, <1>5, <1>6, <1>7, <1>8 DEF Files

LEMMA AccessPlaces == Inv /\ Places /\ Access => Places'
<1> SUFFICES ASSUME Inv, Places, Access
             PROVE  Places'
  OBVIOUS
<1> USE DEF Places, NoOp, Inv, Bounds
<1>1. CASE DsiSaveGetLength \/ DsiSaveGetPosition
  BY <1>1 DEF DsiSaveGetLength, DsiSaveGetPosition, On, Call, ram, file
<1>2. ASSUME NEW n \in Lengths, DsiSaveSetLength(n)
      PROVE  Places'
  BY <1>2 DEF DsiSaveSetLength, On, Call
<1>3. ASSUME NEW n \in Lengths, DsiSaveSeek(n)
      PROVE  Places'
  BY <1>3 DEF DsiSaveSeek, On, Call, ram
<1>4. ASSUME NEW n \in Amounts, ReadSharedFont(n) \/ DsiSaveRead(n)
      PROVE  Places'
  BY <1>4 DEF ReadSharedFont, DsiSaveRead, On, Call, ram
<1>5. ASSUME NEW n \in Amounts, DsiSaveWrite(n)
      PROVE  Places'
  BY <1>5 DEF DsiSaveWrite, On, Call, ram, file
<1>6. CASE DsiSaveReadOverrun \/ DsiSaveWriteNot
  BY <1>6 DEF DsiSaveReadOverrun, DsiSaveWriteNot, On, Call, ram, file
<1>7. CASE DsiSaveWriteData
  <2>1. \A c \in op'.at..(op'.at + op'.done - 1) : card'[c] = op'.id
    BY <1>7, DsiSaveAssumption DEF DsiSaveWriteData, Stored, Cells
  <2> QED
    BY <1>7, <2>1 DEF DsiSaveWriteData, ram, file
<1>8. CASE DsiSaveWriteEnd
  BY <1>8 DEF DsiSaveWriteEnd
<1> QED
  BY <1>1, <1>2, <1>3, <1>4, <1>5, <1>6, <1>7, <1>8 DEF Access

LEMMA PowerPlaces ==
  Inv /\ Places /\ (Cut \/ PowerOn \/ Reset \/ UNCHANGED vars) => Places'
  BY DEF Inv, Places, NoOp, Cut, PowerOn, Reset, vars, ram, file

LEMMA PlacesInvariant == Spec => []Places
<1>1. Inv /\ Places /\ [Next]_vars => Places'
  BY FilesPlaces, AccessPlaces, PowerPlaces DEF Next
<1> QED
  BY <1>1, InitPlaces, Invariant, PTL DEF Spec

-----------------------------------------------------------------------------
(* The steps.                                                               *)

(* Writing the flag leaves the file alone.                                    *)
LEMMA FlagWrite ==
  ASSUME Inv, NEW v, card' = Stored(Flag, v)
  PROVE  /\ card'[Flag] = v
         /\ card'[Size] = card[Size]
         /\ File' = File
<1>1. /\ card'[Flag] = v
      /\ card'[Size] = card[Size]
      /\ \A i \in 1..card[Size] : card'[i - 1] = card[i - 1]
  BY DsiSaveAssumption DEF Stored, Inv, Bounds, WordsKept, Cells, Flag, Size
<1> QED
  BY <1>1 DEF File

LEMMA FilesStep == Inv /\ Places /\ Places' /\ Promised /\ Files => Archive!Next
<1> SUFFICES ASSUME Inv, Places, Places', Promised, Files
             PROVE  Archive!Next
  OBVIOUS
<1> USE DEF Places, NoOp, Inv, Bounds, MemoryAgrees, WordsKept, Promised, Bit,
         Archive!Bit, Archive!Idle, Archive!Stays, Archive!Nothing
<1>1. CASE DsiSaveCheckExists \/ DsiSaveGetResultCode
  <2>1. Archive!Look
    BY <1>1 DEF DsiSaveCheckExists, DsiSaveGetResultCode, On, Call, DsiSaveInit,
       Exists, file, Archive!Look
  <2> QED
    BY <2>1 DEF Archive!Next
<1>2. CASE DsiSaveCreateNew
  <2>1. Archive!Create
    <3>1. card' = Stored(Flag, 1)
      BY <1>2 DEF DsiSaveCreateNew
    <3>2. (card[Flag] # 0)' = TRUE /\ File' = File
      BY <3>1, FlagWrite
    <3>3. /\ Archive!Idle
          /\ UNCHANGED <<opened, dsiSavePerms, op, got, power, sharedFontOpened>>
      BY <1>2 DEF DsiSaveCreateNew, On, Call
    <3>4. dsiSaveInited' = TRUE /\ dsiSaveSeekPos' = 0 /\ card[Flag] = 0 /\ reply' = 1
      BY <1>2 DEF DsiSaveCreateNew, On, Call, Exists
    <3> QED
      BY <3>2, <3>3, <3>4 DEF Archive!Create, File
  <2> QED
    BY <2>1 DEF Archive!Next
<1>3. CASE DsiSaveDelete
  <2>1. CASE dsiSaveExists
    <3>1. Archive!Empty
      BY <1>3, <2>1, DsiSaveAssumption DEF DsiSaveDelete, On, Call, Stored, Cells,
         Flag, Size, Archive!Empty
    <3> QED
      BY <3>1 DEF Archive!Next
  <2>2. CASE ~dsiSaveExists
    <3>1. Archive!NoDelete
      BY <1>3, <2>2, DsiSaveAssumption DEF DsiSaveDelete, On, Call, Stored, Cells,
         Flag, Size, Archive!NoDelete
    <3> QED
      BY <3>1 DEF Archive!Next
  <2> QED
    BY <2>1, <2>2
<1>4. CASE DsiSaveDeleteFlag
  <2>1. Archive!Remove
    BY <1>4, DsiSaveAssumption DEF DsiSaveDeleteFlag, ExistsAfterDelete, file,
       Stored, Cells, Flag, Size, Archive!Remove
  <2> QED
    BY <2>1 DEF Archive!Next
<1>5. ASSUME NEW which \in BOOLEAN, DsiSaveGetInfo(which)
      PROVE  Archive!Look
  BY <1>5 DEF DsiSaveGetInfo, On, Call, DsiSaveInit, Exists, file, Archive!Look
<1>6. ASSUME NEW which \in BOOLEAN, DsiSaveCreate(which)
      PROVE  Archive!Create
  BY <1>6 DEF DsiSaveCreate, On, Call, DsiSaveInit, Exists, Archive!Create
<1>7. ASSUME NEW mode \in 1..3, DsiSaveOpen(mode)
      PROVE  Archive!Open
  BY <1>7 DEF DsiSaveOpen, On, Call, DsiSaveInit, Exists, Archive!Open
<1>8. CASE OpenSharedFont
  <2>1. Archive!OpenFont
    BY <1>8 DEF OpenSharedFont, On, Call, ram, Archive!OpenFont
  <2> QED
    BY <2>1 DEF Archive!Next
<1>9. CASE DsiSaveClose
  <2>1. Archive!Close
    BY <1>9 DEF DsiSaveClose, On, Call, ram, Archive!Close
  <2> QED
    BY <2>1 DEF Archive!Next
<1> QED
  BY <1>1, <1>2, <1>3, <1>4, <1>5, <1>6, <1>7, <1>8, <1>9 DEF Files, Archive!Next

LEMMA FileLength == Inv => Len(File) = card[Size] /\ card[Size] \in Nat
<1> SUFFICES ASSUME Inv
             PROVE  Len(File) = card[Size] /\ card[Size] \in Nat
  OBVIOUS
<1>1. card[Size] \in Nat
  BY DsiSaveAssumption DEF Inv, WordsKept
<1> QED
  BY <1>1 DEF File

LEMMA FilePart ==
  ASSUME Inv, NEW len \in Nat, dsiSaveSeekPos + len <= card[Size]
  PROVE  SubSeq(File, dsiSaveSeekPos + 1, dsiSaveSeekPos + len)
           = [i \in 1..len |-> card[dsiSaveSeekPos + i - 1]]
<1>1. card[Size] \in Nat /\ dsiSaveSeekPos \in Nat
  BY DsiSaveAssumption DEF Inv, Bounds, WordsKept
<1> QED
  BY <1>1 DEF File

LEMMA AccessStep ==
  Inv /\ Inv' /\ Places /\ Places' /\ Promised /\ Access => Archive!Next
<1> SUFFICES ASSUME Inv, Inv', Places, Places', Promised, Access
             PROVE  Archive!Next
  OBVIOUS
<1> USE DsiSaveAssumption DEF Places, NoOp, Inv, Bounds, MemoryAgrees, WordsKept,
         Promised, Archive!Idle, Archive!Stays, Archive!Nothing
<1>0. Len(File) = card[Size] /\ card[Size] \in Nat
  BY FileLength
<1>1. ASSUME DsiSaveGetLength
      PROVE  Archive!Length
  BY <1>0, <1>1 DEF DsiSaveGetLength, On, Call, ram, Archive!Length, File
<1>2. ASSUME DsiSaveGetPosition
      PROVE  Archive!Position
  BY <1>2 DEF DsiSaveGetPosition, On, Call, ram, file, Archive!Position
<1>3. ASSUME NEW n \in Lengths, DsiSaveSetLength(n)
      PROVE  Archive!SetLength
  <2>1. card' = Stored(Size, Clamped(n)) /\ Clamped(n) \in 0..Room
    BY <1>3 DEF DsiSaveSetLength, Lengths, Clamped, Smaller
  <2>2. /\ card'[Flag] = card[Flag]
        /\ card'[Size] = Clamped(n)
        /\ \A i \in 1..Room : card'[i - 1] = card[i - 1]
    BY <2>1 DEF Stored, Cells, Flag, Size
  <2>3. Len(File)' = card'[Size] /\ card'[Size] \in 0..Room
    BY <2>1, <2>2 DEF File
  <2>4. \A i \in 1..Archive!Smaller(Len(File), Len(File)') : File'[i] = File[i]
    BY <1>0, <2>2, <2>3 DEF File, Archive!Smaller
  <2>5. UNCHANGED <<card[Flag] # 0, dsiSaveInited, opened, dsiSavePerms, op, got>>
    BY <1>3, <2>2 DEF DsiSaveSetLength, On, Call
  <2>6. /\ dsiSaveSeekPos' = 0 /\ reply' = 0 /\ opened = "save" /\ Archive!Idle
        /\ UNCHANGED <<power, sharedFontOpened>>
    BY <1>3 DEF DsiSaveSetLength, On, Call
  <2>7. Len(File)' <= Room
    BY <2>3
  <2> QED
    BY <2>4, <2>5, <2>6, <2>7 DEF Archive!SetLength, File
<1>4. ASSUME NEW n \in Lengths, DsiSaveSeek(n)
      PROVE  Archive!Seek
  BY <1>4 DEF DsiSaveSeek, On, Call, ram, Archive!Seek
<1>5. ASSUME NEW n \in Amounts, ReadSharedFont(n)
      PROVE  Archive!ReadFont
  BY <1>5 DEF ReadSharedFont, On, Call, ram, Archive!ReadFont
<1>6. ASSUME NEW n \in Amounts, DsiSaveRead(n)
      PROVE  Archive!Next
  <2>0. opened = "save" /\ n \in Nat \ {0} /\ dsiSaveSize = card[Size]
    BY <1>6 DEF DsiSaveRead, On, Call, Amounts
  <2>1. CASE MayRead /\ dsiSaveSize > 0 /\ Fitting(n) > 0
    <3>1. Fitting(n) \in 1..(card[Size] - dsiSaveSeekPos)
      BY <2>0, <2>1 DEF Fitting, Smaller
    <3>2. got' = SubSeq(File, dsiSaveSeekPos + 1, dsiSaveSeekPos + Fitting(n))
      <4>1. got' = [i \in 1..Fitting(n) |-> card[dsiSaveSeekPos + i - 1]]
        BY <1>6, <2>1 DEF DsiSaveRead
      <4>2. Fitting(n) \in Nat /\ dsiSaveSeekPos + Fitting(n) <= card[Size]
        BY <1>0, <3>1
      <4> QED
        BY <4>1, <4>2, FilePart
    <3>3. /\ dsiSavePerms # 2 /\ Archive!Idle
          /\ reply' = Fitting(n) /\ dsiSaveSeekPos' = dsiSaveSeekPos + Fitting(n)
          /\ UNCHANGED <<card, ram, dsiSavePerms, sharedFontOpened, opened, op,
                         power>>
      BY <1>6, <2>1 DEF DsiSaveRead, On, Call, MayRead
    <3>4. Archive!Read
      <4>1. reply' \in 1..(Len(File) - dsiSaveSeekPos) /\ dsiSaveSeekPos < Len(File)
        BY <1>0, <3>1, <3>3
      <4>2. got' = SubSeq(File, dsiSaveSeekPos + 1, dsiSaveSeekPos + reply')
        BY <3>2, <3>3
      <4> QED
        BY <2>0, <3>3, <4>1, <4>2 DEF ram, File, Archive!Read
    <3> QED
      BY <3>4 DEF Archive!Next
  <2>2. CASE ~(MayRead /\ dsiSaveSize > 0 /\ Fitting(n) > 0)
    <3>1. Archive!Refuse
      BY <1>6, <1>0, <2>0, <2>2 DEF DsiSaveRead, On, Call, ram, MayRead, Overruns,
         Fitting, Smaller, File, Archive!Refuse
    <3> QED
      BY <3>1 DEF Archive!Next
  <2> QED
    BY <2>1, <2>2
<1>7. ASSUME NEW n \in Amounts, DsiSaveWrite(n)
      PROVE  Archive!BeginWrite
  BY <1>7 DEF DsiSaveWrite, MayWrite, Writable, Smaller, Amounts, On, Call, ram,
     file, Archive!BeginWrite
<1>8. ASSUME DsiSaveReadOverrun
      PROVE  Archive!Break
  BY <1>0, <1>8 DEF DsiSaveReadOverrun, Overruns, MayRead, Call, ram, file, File,
     Archive!Break
<1>9. ASSUME DsiSaveWriteNot
      PROVE  Archive!Refuse
  BY <1>9 DEF DsiSaveWriteNot, MayWrite, On, Call, ram, file, Archive!Refuse
<1>10. ASSUME DsiSaveWriteData
      PROVE  Archive!Put
  <2>1. card' = Stored(op.at + op.done, op.id) /\ op.at + op.done \in 0..(Room - 1)
    BY <1>10 DEF DsiSaveWriteData
  <2>2. /\ card'[Flag] = card[Flag]
        /\ card'[Size] = card[Size]
        /\ \A i \in 1..Room : card'[i - 1] =
                IF i = op.at + op.done + 1 THEN op.id ELSE card[i - 1]
    BY <2>1 DEF Stored, Cells, Flag, Size
  <2>3. op' = [op EXCEPT !.done = @ + 1] /\ op'.done = op.done + 1
    BY <1>10 DEF DsiSaveWriteData
  <2>4. File' = [i \in 1..Len(File) |-> IF i = op.at + op'.done THEN op.id ELSE File[i]]
    BY <1>0, <2>2, <2>3 DEF File
  <2>5. UNCHANGED <<card[Flag] # 0, dsiSaveInited, opened, dsiSavePerms, dsiSaveSeekPos,
                    got, reply>>
    BY <1>10, <2>2 DEF DsiSaveWriteData, ram, file
  <2> QED
    BY <1>10, <2>3, <2>4, <2>5 DEF DsiSaveWriteData, File, file, Archive!Put
<1>11. ASSUME DsiSaveWriteEnd
      PROVE  Archive!EndWrite
  <2> DEFINE end == op.at + op.len
  <2>1. /\ card'[Flag] = card[Flag]
        /\ card'[Size] = IF card[Size] < end THEN end ELSE card[Size]
        /\ \A i \in 1..Room : card'[i - 1] = card[i - 1]
    BY <1>11 DEF DsiSaveWriteEnd, Stored, Cells, Flag, Size
  <2>2. Len(File)' = card'[Size] /\ end \in 0..Room
    BY <1>11, <2>1 DEF DsiSaveWriteEnd, File
  <2>3. \A i \in 1..Len(File)' :
          \/ i \in (op.at + 1)..end /\ File'[i] = op.id
          \/ i \notin (op.at + 1)..end /\ (i <= Len(File) => File'[i] = File[i])
    BY <1>0, <1>11, <2>1, <2>2 DEF DsiSaveWriteEnd, DataDone, File
  <2>4. \/ end <= Len(File) /\ File' = File
        \/ end > Len(File) /\ Len(File)' = end
    <3>1. CASE end <= card[Size]
      BY <1>0, <2>1, <3>1 DEF File
    <3>2. CASE end > card[Size]
      BY <1>0, <2>1, <2>2, <3>2
    <3> QED
      BY <1>0, <2>2, <3>1, <3>2
  <2>5. /\ op.kind = "write" /\ op.done = op.len
        /\ dsiSaveSeekPos' = end /\ reply' = op.len /\ op' = NoOp
        /\ UNCHANGED <<dsiSaveInited, opened, dsiSavePerms, got, power,
                       sharedFontOpened>>
    BY <1>11 DEF DsiSaveWriteEnd, DataDone
  <2> QED
    BY <2>1, <2>3, <2>4, <2>5 DEF File, Archive!EndWrite
<1> QED
  BY <1>1, <1>2, <1>3, <1>4, <1>5, <1>6, <1>7, <1>8, <1>9, <1>10, <1>11 DEF Access,
     Archive!Next

LEMMA PowerStep == Inv /\ Places /\ (Cut \/ PowerOn \/ Reset) => Archive!Next
<1> SUFFICES ASSUME Inv, Places, Cut \/ PowerOn \/ Reset
             PROVE  Archive!Next
  OBVIOUS
<1> USE DEF Places, NoOp, Archive!Nothing, Archive!Idle
<1>1. ASSUME ~Promised, power # "off"
      PROVE  Archive!Broken
  BY <1>1 DEF Promised, Archive!Broken
<1>2. CASE Promised /\ Cut
  <2>1. Archive!Cut
    BY <1>2 DEF Promised, Cut, ram, file, Archive!Cut
  <2> QED
    BY <2>1 DEF Archive!Next
<1>3. CASE PowerOn
  <2>1. Archive!PowerOn
    BY <1>3 DEF PowerOn, Archive!PowerOn
  <2> QED
    BY <2>1 DEF Archive!Next
<1>4. CASE Promised /\ Reset
  <2>1. Archive!Restart
    BY <1>4 DEF Promised, Reset, ram, Archive!Restart
  <2> QED
    BY <2>1 DEF Archive!Next
<1> QED
  BY <1>1, <1>2, <1>3, <1>4 DEF Cut, Reset, Promised, Archive!Next

(* A game that makes its calls one at a time has a file that survives (the     *)
(* dsiSave functions): every run of ce9 is one of the archive.              *)
THEOREM DsiSaveImplementsSaveArchive == Spec => ImplementsSaveArchive
<1>1. Init => Archive!Init
  BY DsiSaveAssumption DEF Init, NoOp, Cells, Flag, Size, Archive!Init,
     Archive!Nothing
<1>2. Inv /\ Inv' /\ Places /\ Places' /\ [Next]_vars => [Archive!Next]_Archive!vars
  <2> SUFFICES ASSUME Inv, Inv', Places, Places', [Next]_vars
               PROVE  [Archive!Next]_Archive!vars
    OBVIOUS
  <2>1. CASE UNCHANGED vars
    BY <2>1 DEF vars, ram, file, Archive!vars
  <2>2. CASE (Files \/ Access) /\ Promised
    BY <2>2, FilesStep, AccessStep
  <2>3. CASE (Files \/ Access) /\ ~Promised
    <3>1. power = "on"
      BY <2>3 DEF Files, Access, DsiSaveCheckExists, DsiSaveGetResultCode,
         DsiSaveGetInfo, DsiSaveCreateNew, DsiSaveCreate, DsiSaveDelete,
         DsiSaveDeleteFlag, DsiSaveOpen, OpenSharedFont, DsiSaveClose,
         DsiSaveGetLength, DsiSaveGetPosition, DsiSaveSetLength, DsiSaveSeek,
         ReadSharedFont, DsiSaveRead, DsiSaveWrite, DsiSaveReadOverrun,
         DsiSaveWriteNot, DsiSaveWriteData, DsiSaveWriteEnd, On, Call
    <3>2. Archive!Broken
      BY <2>3, <3>1 DEF Promised, Archive!Broken
    <3> QED
      BY <3>2 DEF Archive!Next
  <2>4. CASE Cut \/ PowerOn \/ Reset
    BY <2>4, PowerStep
  <2> QED
    BY <2>1, <2>2, <2>3, <2>4 DEF Next
<1> QED
  BY <1>1, <1>2, PlacesInvariant, Invariant, PTL DEF Spec, ImplementsSaveArchive,
     Archive!Spec
=============================================================================
