------------------------------- MODULE SaveGuard -------------------------------
(***************************************************************************)
(* The game's saves on the ARM7 (cardengine.c): the thread that serves them   *)
(* works under saveMutex, and two kinds of interrupt come between its steps:  *)
(* the VBlank handler, with its key combinations and the in-game menu, and   *)
(* the power button.  A handler runs to its end over the thread it has       *)
(* interrupted, so what it waits for must not be in that thread's hands.      *)
(*                                                                          *)
(* A step of the thread moves one sector; the chip is counted in sectors.    *)
(***************************************************************************)
EXTENDS Integers, Sequences

CONSTANTS
  SaveSize,     (* saveSize                                                  *)
  Nand,         (* the game saves with nandWrite rather than eepromPageWrite  *)
  SaveFrames,   (* the 60 at which saveTimer starts over                     *)
  HoldFrames,   (* the 60 * 2 VBlanks a combination has to be held           *)
  MaxAccesses   (* bound: reads and writes tried                            *)

ASSUME SaveGuardAssumption ==
  /\ SaveSize \in Nat \ {0} /\ Nand \in BOOLEAN
  /\ SaveFrames \in Nat \ {0, 1} /\ HoldFrames \in Nat
  /\ MaxAccesses \in Nat

VARIABLES
  medium,       (* the save file: each sector holds the number of its write *)
  op,           (* the access the thread is at                              *)
  got,          (* what a read has returned                                 *)
  saveMutex,    (* "free", or who holds it                                  *)
  saveTimer,
  irq,          (* how far the VBlank handler has got, "none" outside it     *)
  returnTimer, softResetTimer,
  down,         (* "no", or what has taken the console down                 *)
  age,          (* VBlanks since this save set saveTimer                    *)
  accesses

timers == <<saveTimer, returnTimer, softResetTimer, age>>
vars   == <<medium, op, got, saveMutex, timers, irq, down, accesses>>

Sectors == 0..(SaveSize - 1)
NoOp == [pc |-> "idle", kind |-> "read", dst |-> 0, len |-> 0, id |-> 0, pos |-> 0]

-----------------------------------------------------------------------------
(* Where the i-th sector of an access is.                                   *)

(* len2: what is left of an access once it has been cut at the end.          *)
FirstLen(dst, len) ==
  IF (dst % SaveSize) + len > SaveSize THEN SaveSize - (dst % SaveSize) ELSE len

(* Faulty: an access is not split, and what is past the end is held there.    *)
TargetUnsplit(dst, len, i) ==
  IF (dst % SaveSize) + i < SaveSize THEN (dst % SaveSize) + i ELSE SaveSize - 1

(* eepromRead and eepromPageWrite call the driver twice when they wrap.      *)
Target(dst, len, i) ==
  LET len2 == FirstLen(dst, len)
  IN  IF i < len2 THEN (dst % SaveSize) + i
                  ELSE ((dst + len2) % SaveSize) + (i - len2)

-----------------------------------------------------------------------------
(* The thread.                                                              *)

Runs == irq = "none" /\ down = "no"

Ask(kind, dst, len) ==
  /\ Runs /\ op.pc = "idle" /\ accesses < MaxAccesses
  /\ Nand => dst + len <= SaveSize
  /\ op' = [pc |-> IF Nand THEN "mark" ELSE "lock", kind |-> kind, dst |-> dst,
            len |-> len, id |-> accesses + 1, pos |-> 0]
  /\ accesses' = accesses + 1
  /\ UNCHANGED <<medium, got, saveMutex, timers, irq, down>>

Lock ==
  /\ Runs /\ op.pc = "lock" /\ saveMutex = "free"
  /\ saveMutex' = "thread"
  /\ op' = [op EXCEPT !.pc = "mark"]
  /\ UNCHANGED <<medium, got, timers, irq, down, accesses>>

(* saveTimer = 1, for a write.                                              *)
Mark ==
  /\ Runs /\ op.pc = "mark"
  /\ op' = [op EXCEPT !.pc = "move"]
  /\ got' = <<>>
  /\ saveTimer' = IF op.kind = "write" THEN 1 ELSE saveTimer
  /\ age' = 0
  /\ UNCHANGED <<medium, saveMutex, irq, returnTimer, softResetTimer, down, accesses>>

Move ==
  LET a == Target(op.dst, op.len, op.pos)
  IN  /\ Runs /\ op.pc = "move" /\ op.pos < op.len
      /\ op' = [op EXCEPT !.pos = @ + 1]
      /\ \/ op.kind = "read"  /\ got' = Append(got, medium[a]) /\ UNCHANGED medium
         \/ op.kind = "write" /\ medium' = [medium EXCEPT ![a] = op.id] /\ UNCHANGED got
      /\ UNCHANGED <<saveMutex, timers, irq, down, accesses>>

(* Faulty: unlockMutex is forgotten.                                        *)
ReleasedNot == saveMutex

(* unlockMutex of the save thread.                                          *)
Released == IF Nand THEN saveMutex ELSE "free"

Finish ==
  /\ Runs /\ op.pc = "move" /\ op.pos = op.len
  /\ op' = NoOp
  /\ saveMutex' = Released
  /\ UNCHANGED <<medium, got, timers, irq, down, accesses>>

-----------------------------------------------------------------------------
(* The VBlank handler, in its order.                                        *)

VBlank ==
  /\ Runs
  /\ irq' = "hotkey"
  /\ age' = IF op.pc = "move" /\ age < SaveFrames THEN age + 1 ELSE age
  /\ UNCHANGED <<medium, op, got, saveMutex, saveTimer, returnTimer,
                 softResetTimer, down, accesses>>

(* Faulty: the menu opens whether or not it gets the mutex.                 *)
MenuFreeAlways == TRUE

(* tryLockMutex of the hotkey.                                              *)
MenuFree == saveMutex = "free"

Hotkey ==
  /\ irq = "hotkey" /\ down = "no"
  /\ \/ MenuFree /\ irq' = "menu" /\ saveMutex' = "menu"
     \/ irq' = "return" /\ UNCHANGED saveMutex
  /\ UNCHANGED <<medium, op, got, timers, down, accesses>>

(* The menu ends with EXIT (or RAMD), or the game is left with QUIT.         *)
MenuExit ==
  /\ irq = "menu" /\ down = "no"
  /\ irq' = "return" /\ saveMutex' = "free"
  /\ UNCHANGED <<medium, op, got, timers, down, accesses>>

MenuQuit ==
  /\ irq = "menu" /\ down = "no"
  /\ down' = "quit"
  /\ UNCHANGED <<medium, op, got, saveMutex, timers, irq, accesses>>

(* reset(false): the game starts anew.  It releases the mutex whoever holds   *)
(* it and leaves the timers as they are.                                    *)
Restart ==
  /\ op' = NoOp /\ saveMutex' = "free" /\ irq' = "none"
  /\ UNCHANGED <<medium, got, timers, down, accesses>>

MenuReset == irq = "menu" /\ down = "no" /\ Restart

Capped(n) == IF n > HoldFrames THEN HoldFrames + 1 ELSE n

(* L + R + DOWN + B, held: returnToLoader.                                  *)
ReturnKeys ==
  /\ irq = "return" /\ down = "no"
  /\ \/ /\ returnTimer = HoldFrames
        /\ down' = "loader"
        /\ UNCHANGED <<irq, returnTimer>>
     \/ /\ returnTimer # HoldFrames
        /\ returnTimer' = Capped(returnTimer + 1)
        /\ irq' = "rset" /\ UNCHANGED down
     \/ /\ returnTimer' = 0
        /\ irq' = "rset" /\ UNCHANGED down
  /\ UNCHANGED <<medium, op, got, saveMutex, saveTimer, softResetTimer, age, accesses>>

(* 'RSET' in the mailbox.  The game writes it holding its card lock, so with  *)
(* no access under way.                                                     *)
Rset ==
  /\ irq = "rset" /\ down = "no"
  /\ \/ op.pc = "idle" /\ Restart
     \/ /\ irq' = "soft"
        /\ UNCHANGED <<medium, op, got, saveMutex, timers, down, accesses>>

(* Faulty: the mutex is not taken.                                          *)
SoftFreeAlways == TRUE

(* lockMutex of the soft reset: the handler goes on when it is free.          *)
SoftFree == saveMutex = "free"

(* L + R + START + SELECT: only then does the handler turn to the mutex.      *)
SoftKeys ==
  /\ irq = "soft" /\ down = "no"
  /\ \/ irq' = "lock" /\ UNCHANGED softResetTimer
     \/ irq' = "timer" /\ softResetTimer' = 0
  /\ UNCHANGED <<medium, op, got, saveMutex, saveTimer, returnTimer, age, down, accesses>>

(* Faulty: the handler unlocks only when it reboots.                        *)
SoftReleasedNot == "handler"

(* unlockMutex of the handler.                                              *)
SoftReleased == "free"

(* The combination held long enough: forceGameReboot.                       *)
SoftReset ==
  /\ irq = "lock" /\ down = "no" /\ SoftFree
  /\ \/ /\ softResetTimer = HoldFrames /\ saveTimer = 0
        /\ down' = "reboot" /\ saveMutex' = "handler"
        /\ UNCHANGED <<irq, softResetTimer>>
     \/ /\ ~(softResetTimer = HoldFrames /\ saveTimer = 0)
        /\ softResetTimer' = Capped(softResetTimer + 1)
        /\ irq' = "timer" /\ saveMutex' = SoftReleased /\ UNCHANGED down
  /\ UNCHANGED <<medium, op, got, saveTimer, returnTimer, age, accesses>>

(* Faulty: the guard of the power button ends a VBlank early.               *)
TickEarly == IF saveTimer = 0 \/ saveTimer + 1 >= SaveFrames - 1 THEN 0 ELSE saveTimer + 1

Tick == IF saveTimer = 0 \/ saveTimer + 1 = SaveFrames THEN 0 ELSE saveTimer + 1

Timer ==
  /\ irq = "timer" /\ down = "no"
  /\ saveTimer' = Tick
  /\ irq' = "none"
  /\ UNCHANGED <<medium, op, got, saveMutex, returnTimer, softResetTimer, age,
                 down, accesses>>

Handler == Hotkey \/ ReturnKeys \/ Rset \/ SoftKeys \/ SoftReset \/ Timer
Menu    == MenuExit \/ MenuQuit \/ MenuReset

-----------------------------------------------------------------------------
(* i2cIRQHandler: a tap of the power button, and a long press.               *)

PowerTap ==
  /\ Runs /\ saveTimer = 0
  /\ down' = "tap"
  /\ UNCHANGED <<medium, op, got, saveMutex, timers, irq, accesses>>

PowerHold ==
  /\ Runs
  /\ down' = "hold"
  /\ UNCHANGED <<medium, op, got, saveMutex, timers, irq, accesses>>

Init ==
  /\ medium = [a \in Sectors |-> 0]
  /\ op = NoOp /\ got = <<>> /\ saveMutex = "free"
  /\ saveTimer = 0 /\ irq = "none" /\ returnTimer = 0 /\ softResetTimer = 0
  /\ down = "no" /\ age = 0 /\ accesses = 0

Thread == Lock \/ Mark \/ Move \/ Finish

Next ==
  \/ \E kind \in {"read", "write"}, dst \in 0..(2 * SaveSize - 1), len \in 0..SaveSize :
       Ask(kind, dst, len)
  \/ Thread \/ VBlank \/ Handler \/ Menu \/ PowerTap \/ PowerHold

Spec     == Init /\ [][Next]_vars
FairSpec == Spec /\ SF_vars(Thread) /\ WF_vars(Handler)

-----------------------------------------------------------------------------
(* A write that has begun and is not complete.                              *)
Saving == op.pc = "move" /\ op.kind = "write"

(* The in-game menu swaps memory with the page file: it never does so while   *)
(* the thread it has interrupted is in the FAT driver.                      *)
MenuApart == irq = "menu" => op.pc \notin {"mark", "move"}

(* A soft reset, or QUIT in the menu, never leaves a half-written save.      *)
OrderlyShutdown == down \in {"reboot", "quit"} => ~Saving

(* A tap of the power button cannot cut a save off in the first             *)
(* SaveFrames - 1 VBlanks of it.                                            *)
TapSpared == down = "tap" /\ Saving => age >= SaveFrames - 1

(* cardengine.c: "When we're saving, power button does nothing, in order to   *)
(* prevent corruption."                                                     *)
PowerButtonDoesNothing == down \in {"tap", "hold"} => ~Saving

(* The save file is the chip the game expects, wrapped addresses included,    *)
(* and only the power button and the combination for the loader cut a write. *)
Chip ==
  INSTANCE BackupChip WITH
    Size  <- SaveSize,
    mem   <- medium,
    job   <- [open |-> op.pc = "move",
              kind |-> IF op.pc = "move" THEN op.kind ELSE "read",
              dst  |-> IF op.pc = "move" THEN op.dst  ELSE 0,
              len  |-> IF op.pc = "move" THEN op.len  ELSE 0,
              id   |-> IF op.pc = "move" THEN op.id   ELSE 0,
              pos  |-> IF op.pc = "move" THEN op.pos  ELSE 0],
    power <- IF down = "no" THEN "on"
             ELSE IF down \in {"reboot", "quit"} THEN "clean" ELSE "cut"

ImplementsBackupChip == Chip!Spec

(* lockMutex in the VBlank handler waits for a thread that cannot run.       *)
Stuck == irq = "lock" /\ saveMutex = "thread"

(* An access ends, unless the console goes down, the menu stays open or the   *)
(* soft-reset combination is held while the thread has the mutex.            *)
AccessEnds == op.pc # "idle" ~> (op.pc = "idle" \/ down # "no" \/ irq = "menu" \/ Stuck)
=============================================================================
