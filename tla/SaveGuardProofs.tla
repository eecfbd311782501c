---------------------------- MODULE SaveGuardProofs ----------------------------
(***************************************************************************)
(* Theorems about SaveGuard for every chip size and every length of the      *)
(* timers.  The argument has two invariants: while saveMutex is in use it is  *)
(* the thread's exactly when the thread is between lock and unlock, and       *)
(* while a save is open saveTimer counts its VBlanks until it starts over.    *)
(***************************************************************************)
EXTENDS SaveGuard, TLAPS

Ops == [pc : {"idle", "lock", "mark", "move"}, kind : {"read", "write"},
        dst : Nat, len : Nat, id : Nat, pos : Nat]

Stages == {"none", "hotkey", "menu", "return", "rset", "soft", "lock", "timer"}

Types ==
  /\ op \in Ops
  /\ irq \in Stages
  /\ saveMutex \in {"free", "thread", "menu", "handler"}
  /\ saveTimer \in 0..(SaveFrames - 1)
  /\ age \in 0..SaveFrames
  /\ accesses \in Nat

MutexInv ==
  /\ saveMutex = "thread" <=> op.pc \in {"mark", "move"}
  /\ irq = "menu" => saveMutex = "menu"
  /\ down \in {"reboot", "quit"} => saveMutex # "thread"

TimerInv ==
  Saving => \/ saveTimer = 0 /\ age >= SaveFrames - 1
            \/ saveTimer > 0 /\ saveTimer = IF irq = "none" THEN age + 1 ELSE age

-----------------------------------------------------------------------------
LEMMA TypesStep == Types /\ [Next]_vars => Types'
<1> SUFFICES ASSUME Types, [Next]_vars PROVE Types'
    OBVIOUS
<1> USE SaveGuardAssumption DEF Types, Ops, Stages
<1>1. ASSUME NEW kind \in {"read", "write"}, NEW dst \in 0..(2 * SaveSize - 1),
             NEW len \in 0..SaveSize, Ask(kind, dst, len)
      PROVE  Types'
      BY <1>1 DEF Ask, timers
<1>2. CASE Lock
      BY <1>2 DEF Lock, timers
<1>3. CASE Mark
      BY <1>3 DEF Mark
<1>4. CASE Move
      BY <1>4 DEF Move, timers
<1>5. CASE Finish
      BY <1>5 DEF Finish, Released, NoOp, timers
<1>6. CASE VBlank
      BY <1>6 DEF VBlank
<1>7. CASE Hotkey
      BY <1>7 DEF Hotkey, timers
<1>8. CASE ReturnKeys
      BY <1>8 DEF ReturnKeys
<1>9. CASE Rset
      BY <1>9 DEF Rset, Restart, NoOp, timers
<1>10. CASE SoftKeys
      BY <1>10 DEF SoftKeys
<1>11. CASE SoftReset
      BY <1>11 DEF SoftReset, SoftReleased
<1>12. CASE Timer
      BY <1>12 DEF Timer, Tick
<1>13. CASE MenuExit
      BY <1>13 DEF MenuExit, timers
<1>14. CASE MenuQuit
      BY <1>14 DEF MenuQuit, timers
<1>15. CASE MenuReset
      BY <1>15 DEF MenuReset, Restart, NoOp, timers
<1>16. CASE PowerTap
      BY <1>16 DEF PowerTap, timers
<1>17. CASE PowerHold
      BY <1>17 DEF PowerHold, timers
<1>18. CASE UNCHANGED vars
      BY <1>18 DEF vars, timers
<1> QED
    BY <1>1, <1>2, <1>3, <1>4, <1>5, <1>6, <1>7, <1>8, <1>9, <1>10, <1>11, <1>12,
       <1>13, <1>14, <1>15, <1>16, <1>17, <1>18 DEF Next, Thread, Handler, Menu

LEMMA MutexStep ==
  ASSUME ~Nand, Types, MutexInv, [Next]_vars PROVE MutexInv'
<1> USE DEF Types, Ops, Stages, MutexInv
<1>1. ASSUME NEW kind \in {"read", "write"}, NEW dst \in 0..(2 * SaveSize - 1),
             NEW len \in 0..SaveSize, Ask(kind, dst, len)
      PROVE  MutexInv'
      BY <1>1 DEF Ask, Runs, timers
<1>2. CASE Lock
      BY <1>2 DEF Lock, Runs, timers
<1>3. CASE Mark
      BY <1>3 DEF Mark, Runs
<1>4. CASE Move
      BY <1>4 DEF Move, Runs, timers
<1>5. CASE Finish
      BY <1>5 DEF Finish, Released, NoOp, Runs, timers
<1>6. CASE VBlank
      BY <1>6 DEF VBlank, Runs
<1>7. CASE Hotkey
      BY <1>7 DEF Hotkey, MenuFree, timers
<1>8. CASE ReturnKeys
      BY <1>8 DEF ReturnKeys
<1>9. CASE Rset
      BY <1>9 DEF Rset, Restart, NoOp, timers
<1>10. CASE SoftKeys
      BY <1>10 DEF SoftKeys
<1>11. CASE SoftReset
      BY <1>11 DEF SoftReset, SoftFree, SoftReleased
<1>12. CASE Timer
      BY <1>12 DEF Timer
<1>13. CASE MenuExit
      BY <1>13 DEF MenuExit, timers
<1>14. CASE MenuQuit
      BY <1>14 DEF MenuQuit, timers
<1>15. CASE MenuReset
      BY <1>15 DEF MenuReset, Restart, NoOp, timers
<1>16. CASE PowerTap
      BY <1>16 DEF PowerTap, Runs, timers
<1>17. CASE PowerHold
      BY <1>17 DEF PowerHold, Runs, timers
<1>18. CASE UNCHANGED vars
      BY <1>18 DEF vars, timers
<1> QED
    BY <1>1, <1>2, <1>3, <1>4, <1>5, <1>6, <1>7, <1>8, <1>9, <1>10, <1>11, <1>12,
       <1>13, <1>14, <1>15, <1>16, <1>17, <1>18 DEF Next, Thread, Handler, Menu

LEMMA TimerStep ==
  ASSUME Types, TimerInv, TapSpared, [Next]_vars PROVE TimerInv' /\ TapSpared'
<1> USE SaveGuardAssumption DEF Types, Ops, Stages, TimerInv, TapSpared, Saving
<1>1. ASSUME NEW kind \in {"read", "write"}, NEW dst \in 0..(2 * SaveSize - 1),
             NEW len \in 0..SaveSize, Ask(kind, dst, len)
      PROVE  TimerInv' /\ TapSpared'
      BY <1>1 DEF Ask, timers
<1>2. CASE Lock
      BY <1>2 DEF Lock, timers
<1>3. CASE Mark
      BY <1>3 DEF Mark, Runs
<1>4. CASE Move
      BY <1>4 DEF Move, Runs, timers
<1>5. CASE Finish
      BY <1>5 DEF Finish, NoOp, timers
<1>6. CASE VBlank
      BY <1>6 DEF VBlank, Runs
<1>7. CASE Hotkey
      BY <1>7 DEF Hotkey, timers
<1>8. CASE ReturnKeys
      BY <1>8 DEF ReturnKeys
<1>9. CASE Rset
      BY <1>9 DEF Rset, Restart, NoOp, timers
<1>10. CASE SoftKeys
      BY <1>10 DEF SoftKeys
<1>11. CASE SoftReset
      BY <1>11 DEF SoftReset
<1>12. CASE Timer
      BY <1>12 DEF Timer, Tick
<1>13. CASE MenuExit
      BY <1>13 DEF MenuExit, timers
<1>14. CASE MenuQuit
      BY <1>14 DEF MenuQuit, timers
<1>15. CASE MenuReset
      BY <1>15 DEF MenuReset, Restart, NoOp, timers
<1>16. CASE PowerTap
      BY <1>16 DEF PowerTap, Runs, timers
<1>17. CASE PowerHold
      BY <1>17 DEF PowerHold, Runs, timers
<1>18. CASE UNCHANGED vars
      BY <1>18 DEF vars, timers
<1> QED
    BY <1>1, <1>2, <1>3, <1>4, <1>5, <1>6, <1>7, <1>8, <1>9, <1>10, <1>11, <1>12,
       <1>13, <1>14, <1>15, <1>16, <1>17, <1>18 DEF Next, Thread, Handler, Menu

LEMMA TypesAlways == Spec => []Types
<1>1. Init => Types
      BY SaveGuardAssumption DEF Init, Types, Ops, Stages, NoOp
<1> QED
    BY <1>1, TypesStep, PTL DEF Spec

(* The menu never opens over the thread's use of the FAT driver, and neither  *)
(* it nor the soft reset leaves a save half-written: tryLockMutex and         *)
(* lockMutex in the VBlank handler keep off the thread's critical section.   *)
THEOREM SaveMutexInvariant == ASSUME ~Nand PROVE Spec => []MutexInv
<1>1. Init => MutexInv
      BY DEF Init, MutexInv, NoOp
<1>2. Types /\ MutexInv /\ [Next]_vars => MutexInv'
      BY MutexStep
<1> QED
    BY <1>1, <1>2, TypesAlways, PTL DEF Spec

(* The page file is never swapped in the middle of a save access.           *)
THEOREM SaveMenuApart == ASSUME ~Nand PROVE Spec => []MenuApart
<1>1. MutexInv => MenuApart
      BY DEF MutexInv, MenuApart
<1> QED
    BY <1>1, SaveMutexInvariant, PTL

(* forceGameReboot and QUIT find the save complete.                         *)
THEOREM SaveOrderlyShutdown == ASSUME ~Nand PROVE Spec => []OrderlyShutdown
<1>1. MutexInv => OrderlyShutdown
      BY DEF MutexInv, OrderlyShutdown, Saving
<1> QED
    BY <1>1, SaveMutexInvariant, PTL

(* A tap of the power button never cuts a save off in its first               *)
(* SaveFrames - 1 VBlanks, with nandWrite as with eepromPageWrite.           *)
THEOREM SaveTapSpared == Spec => []TapSpared
<1>1. Init => TimerInv /\ TapSpared
      BY DEF Init, TimerInv, TapSpared, Saving, NoOp
<1>2. Types /\ TimerInv /\ TapSpared /\ [Next]_vars => (TimerInv /\ TapSpared)'
      BY TimerStep
<1> QED
    BY <1>1, <1>2, TypesAlways, PTL DEF Spec

-----------------------------------------------------------------------------
(* The save file is the chip.  Places says what an access under way is: its    *)
(* arguments are those of a game, and it is counted from its first sector.    *)

Places ==
  op.pc # "idle" =>
    /\ op.dst \in 0..(2 * SaveSize - 1) /\ op.len \in 0..SaveSize
    /\ op.pc \in {"lock", "mark"} => op.pos = 0

LEMMA PlacesStep == Types /\ Places /\ [Next]_vars => Places'
<1> SUFFICES ASSUME Types, Places, [Next]_vars PROVE Places'
    OBVIOUS
<1> USE DEF Places, Types, Ops
<1>1. ASSUME NEW kind \in {"read", "write"}, NEW dst \in 0..(2 * SaveSize - 1),
             NEW len \in 0..SaveSize, Ask(kind, dst, len)
      PROVE  Places'
      BY <1>1 DEF Ask
<1>2. CASE Lock \/ Mark \/ Move
      BY <1>2 DEF Lock, Mark, Move
<1>3. CASE Finish \/ MenuReset \/ (Rset /\ Restart)
      BY <1>3 DEF Finish, MenuReset, Restart, NoOp
<1>4. CASE \/ VBlank \/ Hotkey \/ ReturnKeys \/ (Rset /\ op' = op) \/ SoftKeys \/ SoftReset \/ Timer
           \/ MenuExit \/ MenuQuit \/ PowerTap \/ PowerHold \/ UNCHANGED vars
      BY <1>4 DEF VBlank, Hotkey, ReturnKeys, SoftKeys, SoftReset, Timer, MenuExit, MenuQuit,
                  PowerTap, PowerHold, vars
<1>5. Rset => Restart \/ op' = op
      BY DEF Rset
<1> QED
    BY <1>1, <1>2, <1>3, <1>4, <1>5 DEF Next, Thread, Handler, Menu

LEMMA Remainder ==
  ASSUME NEW q \in {0, 1, 2}, NEW r \in 0..(SaveSize - 1)
  PROVE  (q * SaveSize + r) % SaveSize = r
<1>1. SaveSize \in Nat \ {0} /\ r \in Nat /\ r < SaveSize
      BY SaveGuardAssumption
<1>2. (0 * SaveSize + r) % SaveSize = r
      BY <1>1
<1>3. (1 * SaveSize + r) % SaveSize = r
      BY <1>1
<1>4. (2 * SaveSize + r) % SaveSize = r
      BY <1>1
<1> QED
    BY <1>2, <1>3, <1>4

(* However an access is split, its sectors are those of a chip that wraps.     *)
LEMMA TargetOfChip ==
  ASSUME NEW dst \in 0..(2 * SaveSize - 1), NEW len \in 0..SaveSize, NEW i \in Nat, i < len
  PROVE  Target(dst, len, i) = (dst + i) % SaveSize
<1>1. SaveSize \in Nat \ {0} /\ dst \in Nat /\ dst < 2 * SaveSize /\ len \in Nat /\ len <= SaveSize
      BY SaveGuardAssumption
<1>2. PICK q \in {0, 1}, d \in 0..(SaveSize - 1) : dst = q * SaveSize + d
  <2>1. CASE dst < SaveSize
        BY <1>1, <2>1
  <2>2. CASE dst >= SaveSize
    <3>1. dst - SaveSize \in 0..(SaveSize - 1) /\ dst = 1 * SaveSize + (dst - SaveSize)
          BY <1>1, <2>2
    <3> QED
        BY <3>1
  <2> QED
      BY <1>1, <2>1, <2>2
<1>3. dst % SaveSize = d /\ d \in Nat /\ d < SaveSize
      BY <1>1, <1>2, Remainder
<1>4. CASE d + i < SaveSize
  <2>1. (dst + i) % SaveSize = d + i
    <3>1. d + i \in 0..(SaveSize - 1) /\ dst + i = q * SaveSize + (d + i)
          BY <1>1, <1>2, <1>3, <1>4
    <3> QED
        BY <1>2, <3>1, Remainder
  <2>2. i < FirstLen(dst, len)
        BY <1>1, <1>3, <1>4 DEF FirstLen
  <2> QED
      BY <1>3, <2>1, <2>2 DEF Target
<1>5. CASE d + i >= SaveSize
  <2>1. (dst + i) % SaveSize = d + i - SaveSize
    <3>1. CASE q = 0
      <4>1. d + i - SaveSize \in 0..(SaveSize - 1) /\ dst + i = 1 * SaveSize + (d + i - SaveSize)
            BY <1>1, <1>2, <1>3, <1>5, <3>1
      <4> QED
          BY <4>1, Remainder
    <3>2. CASE q = 1
      <4>1. d + i - SaveSize \in 0..(SaveSize - 1) /\ dst + i = 2 * SaveSize + (d + i - SaveSize)
            BY <1>1, <1>2, <1>3, <1>5, <3>2
      <4> QED
          BY <4>1, Remainder
    <3> QED
        BY <1>2, <3>1, <3>2
  <2>2. FirstLen(dst, len) = SaveSize - d
        BY <1>1, <1>3, <1>5 DEF FirstLen
  <2>3. (dst + (SaveSize - d)) % SaveSize = 0
    <3>1. CASE q = 0
      <4>1. 0 \in 0..(SaveSize - 1) /\ dst + (SaveSize - d) = 1 * SaveSize + 0
            BY <1>1, <1>2, <1>3, <3>1
      <4> QED
          BY <4>1, Remainder
    <3>2. CASE q = 1
      <4>1. 0 \in 0..(SaveSize - 1) /\ dst + (SaveSize - d) = 2 * SaveSize + 0
            BY <1>1, <1>2, <1>3, <3>2
      <4> QED
          BY <4>1, Remainder
    <3> QED
        BY <1>2, <3>1, <3>2
  <2>4. Target(dst, len, i) = 0 + (i - (SaveSize - d))
        BY <1>1, <1>3, <1>5, <2>2, <2>3 DEF Target
  <2> QED
      BY <1>1, <1>3, <2>1, <2>4
<1> QED
    BY <1>1, <1>3, <1>4, <1>5

(* What the chip sees of an access: nothing before Mark, nothing after Finish.  *)
Job == [open |-> op.pc = "move",
        kind |-> IF op.pc = "move" THEN op.kind ELSE "read",
        dst  |-> IF op.pc = "move" THEN op.dst  ELSE 0,
        len  |-> IF op.pc = "move" THEN op.len  ELSE 0,
        id   |-> IF op.pc = "move" THEN op.id   ELSE 0,
        pos  |-> IF op.pc = "move" THEN op.pos  ELSE 0]

Power == IF down = "no" THEN "on" ELSE IF down \in {"reboot", "quit"} THEN "clean" ELSE "cut"

LEMMA JobOpen ==
  ASSUME op.pc = "move"
  PROVE  Job = [open |-> TRUE, kind |-> op.kind, dst |-> op.dst, len |-> op.len, id |-> op.id,
                pos |-> op.pos]
<1>1. (op.pc = "move") = TRUE
      OBVIOUS
<1> QED
    BY <1>1, Zenon DEF Job

LEMMA JobClosed ==
  ASSUME op.pc # "move"
  PROVE  Job = Chip!Closed
<1>1. (op.pc = "move") = FALSE
      OBVIOUS
<1> QED
    BY <1>1, Zenon DEF Job, Chip!Closed

(* The same of the next state.                                               *)
LEMMA JobOpenNext ==
  ASSUME op'.pc = "move"
  PROVE  Job' = [open |-> TRUE, kind |-> op'.kind, dst |-> op'.dst, len |-> op'.len,
                 id |-> op'.id, pos |-> op'.pos]
<1>1. (op'.pc = "move") = TRUE
      OBVIOUS
<1> QED
    BY <1>1, Zenon DEF Job

LEMMA JobClosedNext ==
  ASSUME op'.pc # "move"
  PROVE  Job' = Chip!Closed
<1>1. (op'.pc = "move") = FALSE
      OBVIOUS
<1> QED
    BY <1>1, Zenon DEF Job, Chip!Closed

LEMMA JobMoved ==
  ASSUME NEW open, NEW kind, NEW dst, NEW len, NEW id, NEW pos, NEW next, NEW j, NEW k,
         j = [open |-> open, kind |-> kind, dst |-> dst, len |-> len, id |-> id, pos |-> pos],
         k = [open |-> open, kind |-> kind, dst |-> dst, len |-> len, id |-> id, pos |-> next]
  PROVE  k = [j EXCEPT !.pos = next]
OBVIOUS

LEMMA AccessStep ==
  ASSUME Types, Places, Move
  PROVE  Chip!Access
<1>1. /\ op \in Ops /\ op.pc = "move" /\ op' = [op EXCEPT !.pos = @ + 1] /\ down = "no"
      /\ op.pos < op.len /\ down' = down
      BY DEF Move, Runs, Types
<1>2. Target(op.dst, op.len, op.pos) = (op.dst + op.pos) % SaveSize
  <2>1. op.dst \in 0..(2 * SaveSize - 1) /\ op.len \in 0..SaveSize /\ op.pos \in Nat
        BY <1>1 DEF Places, Ops
  <2> QED
      BY <1>1, <2>1, TargetOfChip
<1>3. /\ Job = [open |-> TRUE, kind |-> op.kind, dst |-> op.dst, len |-> op.len, id |-> op.id,
                pos |-> op.pos]
      /\ Job' = [open |-> TRUE, kind |-> op.kind, dst |-> op.dst, len |-> op.len, id |-> op.id,
                 pos |-> op.pos + 1]
  <2>1. /\ op'.pc = "move" /\ op'.kind = op.kind /\ op'.dst = op.dst /\ op'.len = op.len
        /\ op'.id = op.id /\ op'.pos = op.pos + 1
        BY <1>1 DEF Ops
  <2> QED
      BY <1>1, <2>1, JobOpen, JobOpenNext
<1>4. Power = "on" /\ Power' = "on"
      BY <1>1 DEF Power
<1>5. Job.open /\ Job.pos < Job.len /\ Job' = [Job EXCEPT !.pos = @ + 1]
  <2>1. Job.open
        BY <1>3
  <2>2. Job.pos = op.pos /\ Job.len = op.len
        BY <1>3
  <2>3. Job' = [Job EXCEPT !.pos = op.pos + 1]
    <3>1. Job.open = TRUE
          BY <1>3, Zenon
    <3>2. Job = [open |-> Job.open, kind |-> op.kind, dst |-> op.dst, len |-> op.len,
                 id |-> op.id, pos |-> op.pos]
          BY <1>3, <3>1, Zenon
    <3>3. Job' = [open |-> Job.open, kind |-> op.kind, dst |-> op.dst, len |-> op.len,
                  id |-> op.id, pos |-> op.pos + 1]
          BY <1>3, <3>1, Zenon
    <3> QED
        BY <3>2, <3>3, JobMoved
  <2> QED
      BY <1>1, <2>1, <2>2, <2>3
<1>6. LET a == (Job.dst + Job.pos) % SaveSize
      IN  \/ Job.kind = "read"  /\ got' = Append(got, medium[a]) /\ UNCHANGED medium
          \/ Job.kind = "write" /\ medium' = [medium EXCEPT ![a] = Job.id] /\ UNCHANGED got
      BY <1>2, <1>3 DEF Move
<1> QED
    BY <1>4, <1>5, <1>6 DEF Chip!Access, Job, Power

LEMMA BeginEndStep ==
  ASSUME Types, Places
  PROVE  (Mark => Chip!Begin) /\ (Finish => Chip!End)
<1>1. ASSUME Mark PROVE Chip!Begin
  <2>1. /\ op \in Ops /\ op.pc = "mark" /\ op' = [op EXCEPT !.pc = "move"] /\ op.pos = 0
        /\ down = "no" /\ down' = down /\ got' = <<>> /\ medium' = medium
        BY <1>1 DEF Mark, Runs, Types, Places
  <2>2. op'.pc = "move" /\ op'.pos = 0
        BY <2>1 DEF Ops
  <2>3. ~Job.open /\ Job'.open /\ Job'.pos = 0
        BY <2>1, <2>2, JobClosed, JobOpenNext DEF Chip!Closed
  <2>4. Power = "on" /\ Power' = "on"
        BY <2>1 DEF Power
  <2> QED
      BY <2>1, <2>3, <2>4 DEF Chip!Begin, Job, Power
<1>2. ASSUME Finish PROVE Chip!End
  <2>1. /\ op.pc = "move" /\ op' = NoOp /\ op.pos = op.len
        /\ down = "no" /\ down' = down /\ got' = got /\ medium' = medium
        BY <1>2 DEF Finish, Runs
  <2>2. Job.open /\ Job.pos = Job.len
        BY <2>1, JobOpen
  <2>3. Job' = Chip!Closed
        BY <2>1, JobClosedNext DEF NoOp
  <2>4. Power = "on" /\ Power' = "on"
        BY <2>1 DEF Power
  <2> QED
      BY <2>1, <2>2, <2>3, <2>4 DEF Chip!End, Job, Power
<1> QED
    BY <1>1, <1>2

(* The console is taken down by QUIT or a soft reset only under saveMutex.     *)
LEMMA DownStep ==
  ASSUME ~Nand, Types, MutexInv, down = "no", down' # "no", UNCHANGED <<medium, op, got>>,
         down' \in {"reboot", "quit"} => saveMutex # "thread"
  PROVE  Chip!Shutdown \/ Chip!Cut
<1>1. Job' = Job /\ Power = "on"
      BY DEF Job, Power
<1>2. CASE down' \in {"reboot", "quit"}
  <2>1. op.pc # "move"
        BY <1>2 DEF MutexInv
  <2>2. ~Job.open
        BY <2>1, JobClosed DEF Chip!Closed
  <2>3. Power' = "clean"
        BY <1>2 DEF Power
  <2> QED
      BY <1>1, <2>2, <2>3 DEF Chip!Shutdown, Job, Power
<1>3. CASE down' \notin {"reboot", "quit"}
  <2>1. Power' = "cut"
        BY <1>3 DEF Power
  <2> QED
      BY <1>1, <2>1 DEF Chip!Cut, Job, Power
<1> QED
    BY <1>2, <1>3

(* What the chip does not see.                                               *)
LEMMA StutterStep ==
  ASSUME UNCHANGED <<medium, got, down>>,
         UNCHANGED op \/ (op.pc # "move" /\ op'.pc # "move")
  PROVE  UNCHANGED Chip!vars
<1>1. Job' = Job
      BY JobClosed, JobClosedNext DEF Job
<1>2. Power' = Power
      BY DEF Power
<1> QED
    BY <1>1, <1>2 DEF Chip!vars, Job, Power

LEMMA ChipStep ==
  ASSUME ~Nand, Types, Places, MutexInv, [Next]_vars
  PROVE  Chip!Next \/ UNCHANGED Chip!vars
<1> USE DEF timers
<1>1. ASSUME NEW kind \in {"read", "write"}, NEW dst \in 0..(2 * SaveSize - 1),
             NEW len \in 0..SaveSize, Ask(kind, dst, len)
      PROVE  UNCHANGED Chip!vars
  <2>1. op.pc # "move" /\ op'.pc # "move" /\ UNCHANGED <<medium, got, down>>
        BY <1>1 DEF Ask
  <2> QED
      BY <2>1, StutterStep
<1>2. CASE Lock
  <2>1. op.pc # "move" /\ op'.pc # "move" /\ UNCHANGED <<medium, got, down>>
        BY <1>2 DEF Lock, Types, Ops
  <2> QED
      BY <2>1, StutterStep
<1>3. CASE Mark \/ Move \/ Finish
      BY <1>3, BeginEndStep, AccessStep DEF Chip!Next
<1>4. CASE MenuReset \/ (Rset /\ op.pc = "idle" /\ Restart)
  <2>1. op.pc # "move"
        BY <1>4 DEF MenuReset, MutexInv
  <2>2. op'.pc # "move" /\ UNCHANGED <<medium, got, down>>
        BY <1>4 DEF MenuReset, Restart, NoOp
  <2> QED
      BY <2>1, <2>2, StutterStep
<1>5. CASE down' = down /\ (VBlank \/ Hotkey \/ ReturnKeys \/ (Rset /\ UNCHANGED <<medium, op, got>>)
                            \/ SoftKeys \/ SoftReset \/ Timer \/ MenuExit \/ UNCHANGED vars)
  <2>1. UNCHANGED <<medium, op, got>>
        BY <1>5 DEF VBlank, Hotkey, ReturnKeys, SoftKeys, SoftReset, Timer, MenuExit, vars
  <2> QED
      BY <1>5, <2>1, StutterStep
<1>6. CASE down' # down /\ (ReturnKeys \/ SoftReset)
  <2>1. /\ down = "no" /\ down' # "no" /\ UNCHANGED <<medium, op, got>>
        /\ down' \in {"reboot", "quit"} => saveMutex # "thread"
        BY <1>6 DEF ReturnKeys, SoftReset, SoftFree
  <2> QED
      BY <2>1, DownStep DEF Chip!Next
<1>7. CASE MenuQuit \/ PowerTap \/ PowerHold
  <2>1. /\ down = "no" /\ down' # "no" /\ UNCHANGED <<medium, op, got>>
        /\ down' \in {"reboot", "quit"} => saveMutex # "thread"
        BY <1>7 DEF MenuQuit, PowerTap, PowerHold, Runs, MutexInv
  <2> QED
      BY <2>1, DownStep DEF Chip!Next
<1>8. /\ VBlank \/ Hotkey \/ SoftKeys \/ Timer \/ MenuExit \/ UNCHANGED vars => down' = down
      /\ Rset => (op.pc = "idle" /\ Restart) \/ (down' = down /\ UNCHANGED <<medium, op, got>>)
      BY DEF VBlank, Hotkey, SoftKeys, Timer, MenuExit, vars, Rset
<1> QED
    BY <1>1, <1>2, <1>3, <1>4, <1>5, <1>6, <1>7, <1>8 DEF Next, Thread, Handler, Menu

(* The game's save is a chip with wrapping addresses, whatever interrupts the  *)
(* thread: eepromRead and eepromPageWrite, the vertical blank, the menu, the   *)
(* resets and the power button together implement BackupChip.                *)
THEOREM SaveImplementsBackupChip == ASSUME ~Nand PROVE Spec => ImplementsBackupChip
<1>1. Init => Chip!Init
  <2> SUFFICES ASSUME Init PROVE Chip!Init
      OBVIOUS
  <2>1. Job = Chip!Closed /\ Power = "on"
        BY JobClosed DEF Init, NoOp, Power
  <2> QED
      BY <2>1 DEF Init, Chip!Init, Chip!Cells, Sectors, Job, Power
<1>2. Init => Places
      BY DEF Init, Places, NoOp
<1>3. Types /\ Places /\ MutexInv /\ [Next]_vars => [Chip!Next]_Chip!vars
      BY ChipStep
<1> QED
    BY <1>1, <1>2, <1>3, PlacesStep, TypesAlways, SaveMutexInvariant, PTL
       DEF Spec, ImplementsBackupChip, Chip!Spec
=============================================================================
