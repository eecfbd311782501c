------------------------------- MODULE InGameMenu -------------------------------
(***************************************************************************)
(* The in-game menu and the restart of the game: a conversation of the two   *)
(* processors over the words of sharedAddr, one IPC_SYNC message and the      *)
(* vertical blank, which both of them poll once a frame.                     *)
(*                                                                          *)
(* The ARM7 (inGameMenu.c, cardengine.c) swaps a part of the game's memory     *)
(* with the page file: page[0] is the menu, page[1] what the menu displaces.  *)
(* The ARM9 (cardengine.c, misc.c and the menu itself, arm9_igm) runs it.     *)
(*                                                                          *)
(* Assumptions on time: between two of its waits a processor needs less than a *)
(* frame, a swap with the page file (80 KB) takes Pulse frames or more, and a  *)
(* game that starts uses the words only after the other processor's poll.     *)
(***************************************************************************)
EXTENDS Integers

CONSTANTS
  Commands,    (* what the user may pick, of AllCommands                     *)
  Timeout,     (* the 60 * 2 frames the ARM7 waits for 'REDY'                *)
  Pulse,       (* frames 'IGML' is up for at least                          *)
  MaxRounds    (* bound: menus opened, exceptions and resets of the game      *)

AllCommands == {"EXIT", "RSET", "QUIT", "RAMD", "LITE"}

ASSUME MenuAssumption ==
  /\ Commands \subseteq AllCommands
  /\ Timeout \in Nat \ {0} /\ Pulse \in Nat /\ MaxRounds \in Nat

VARIABLES
  sharedAddr,  (* words 0, 3, 4 and 5                                       *)
  ram, page,   (* what lies at INGAME_MENU_LOCATION, and in the page file     *)
  ipc9,        (* IPC_SYNC 9 has been sent and not taken                    *)
  arm7, after, (* where the ARM7 is, and what follows unloadInGameMenu       *)
  due7,        (* its wait for a frame is over                              *)
  ticks,       (* frames the swap under way has lasted                      *)
  timeOut, errorBak,
  arm9, due9, res, cmd, exception,
  down,        (* "no", or what has taken the console down                 *)
  epoch7, epoch9,   (* history: how often each processor has started the game *)
  mine,        (* history: the destination the game has put in word 0        *)
  lost, raced, (* history: see Rewrite and Ask                              *)
  rounds

vars7  == <<arm7, after, due7, ticks, timeOut, errorBak>>
vars9  == <<arm9, due9, res, cmd, exception>>
memory == <<ram, page>>
hist   == <<epoch7, epoch9, mine, lost, raced>>
vars   == <<sharedAddr, memory, ipc9, vars7, vars9, down, hist, rounds>>

On == down = "no"

(* sharedAddr with word w set to v.                                         *)
With(w, v) == [sharedAddr EXCEPT ![w] = v]

-----------------------------------------------------------------------------
(* The ARM7.                                                                *)

Only7 == UNCHANGED <<memory, ipc9, vars9, down, hist, rounds>>

(* The handler of the vertical blank: 'IGML' opens the menu by itself, the     *)
(* hotkey when the user holds it.                                           *)
Hotkey ==
  /\ On /\ arm7 = "game" /\ due7
  /\ sharedAddr[5] # "IGML" => rounds < MaxRounds
  /\ sharedAddr' = [With(4, "MENU") EXCEPT ![5] = "IGML"]
  /\ errorBak' = sharedAddr[0]
  /\ ipc9' = TRUE
  /\ arm7' = "backup" /\ due7' = FALSE /\ ticks' = 0
  /\ rounds' = IF sharedAddr[5] = "IGML" THEN rounds ELSE rounds + 1
  /\ UNCHANGED <<memory, after, timeOut, vars9, down, hist>>

NoHotkey ==
  /\ On /\ arm7 = "game" /\ due7 /\ sharedAddr[5] # "IGML"
  /\ arm7' = "rset" /\ due7' = FALSE
  /\ UNCHANGED <<sharedAddr, after, ticks, timeOut, errorBak>> /\ Only7

(* Faulty: the handler does not look at word 3.                             *)
AskedNot == FALSE

(* 'RSET' in word 3, tested once the menu is out of the way.                 *)
Asked == sharedAddr[3] = "RSET"

Rset ==
  /\ On /\ arm7 = "rset"
  /\ arm7' = IF Asked THEN "reset" ELSE "game"
  /\ UNCHANGED <<sharedAddr, after, due7, ticks, timeOut, errorBak>> /\ Only7

(* A thread of the game answers the read whose destination is in word 0.      *)
Answer ==
  /\ On /\ arm7 = "game" /\ sharedAddr[3] = "read"
  /\ sharedAddr' = With(3, "none")
  /\ UNCHANGED vars7 /\ Only7

(* Faulty: the game's memory is not saved.                                  *)
KeptNot == page

(* loadInGameMenu: the write to the page file.                              *)
Kept == [page EXCEPT ![1] = ram]

Backup ==
  /\ On /\ arm7 = "backup"
  /\ page' = Kept
  /\ arm7' = "fetch"
  /\ UNCHANGED <<sharedAddr, ram, ipc9, after, due7, ticks, timeOut, errorBak,
                 vars9, down, hist, rounds>>

(* loadInGameMenu: the read that follows.                                   *)
Fetched == page[0]

Fetch ==
  /\ On /\ arm7 = "fetch"
  /\ ram' = Fetched
  /\ arm7' = "loaded"
  /\ UNCHANGED <<sharedAddr, page, ipc9, after, due7, ticks, timeOut, errorBak,
                 vars9, down, hist, rounds>>

(* Faulty: 'IGML' stays up.                                                 *)
LoweredNot == sharedAddr[5]

(* loadInGameMenu: its last assignment.                                     *)
Lowered == "none"

Loaded ==
  /\ On /\ arm7 = "loaded" /\ ticks >= Pulse
  /\ sharedAddr' = With(5, Lowered)
  /\ arm7' = "ready" /\ due7' = TRUE /\ timeOut' = 0
  /\ UNCHANGED <<after, ticks, errorBak>> /\ Only7

TimedOut == timeOut + 1 = Timeout

(* The wait for 'REDY'; returnToLoader when it takes too long.               *)
Ready ==
  /\ On /\ arm7 = "ready" /\ due7
  /\ \/ /\ sharedAddr[5] = "REDY"
        /\ arm7' = IF sharedAddr[4] = "MENU" THEN "keys" ELSE "exit"
        /\ due7' = FALSE
        /\ UNCHANGED <<timeOut, down>>
     \/ /\ sharedAddr[5] # "REDY"
        /\ due7' = FALSE /\ timeOut' = timeOut + 1
        /\ down' = IF TimedOut THEN "timeout" ELSE down
        /\ UNCHANGED arm7
  /\ UNCHANGED <<sharedAddr, memory, ipc9, after, ticks, errorBak, vars9, hist, rounds>>

Keys ==
  /\ On /\ arm7 = "keys"
  /\ sharedAddr' = With(5, "keys")
  /\ arm7' = "frame" /\ due7' = FALSE
  /\ UNCHANGED <<after, ticks, timeOut, errorBak>> /\ Only7

(* The switch on word 4.                                                    *)
Switch ==
  /\ On /\ arm7 = "frame" /\ due7
  /\ due7' = FALSE
  /\ \/ /\ sharedAddr[4] \in {"RSET", "QUIT"}
        /\ arm7' = "unload" /\ after' = sharedAddr[4]
        /\ UNCHANGED sharedAddr
     \/ /\ sharedAddr[4] = "RAMD"
        /\ arm7' = "dump" /\ sharedAddr' = With(3, "RAMD")
        /\ UNCHANGED after
     \/ /\ sharedAddr[4] \notin {"RSET", "QUIT", "RAMD"}
        /\ arm7' = "test"
        /\ UNCHANGED <<sharedAddr, after>>
  /\ UNCHANGED <<ticks, timeOut, errorBak>> /\ Only7

(* dumpRam, and the unloadInGameMenu after it.                              *)
Dump ==
  /\ On /\ arm7 = "dump"
  /\ sharedAddr' = With(3, "none")
  /\ arm7' = "unload" /\ after' = "exit"
  /\ UNCHANGED <<due7, ticks, timeOut, errorBak>> /\ Only7

(* The test for 'EXIT' and, if it is not there, 'MENU' once more: a command    *)
(* the ARM9 writes between the two is overwritten.                          *)
Test ==
  /\ On /\ arm7 = "test"
  /\ arm7' = IF sharedAddr[4] = "EXIT" THEN "exit" ELSE "rewrite"
  /\ UNCHANGED <<sharedAddr, after, due7, ticks, timeOut, errorBak>> /\ Only7

(* lost: it has overwritten a command on which the ARM9 leaves the menu.      *)
Rewrite ==
  /\ On /\ arm7 = "rewrite"
  /\ sharedAddr' = With(4, "MENU")
  /\ lost' = (lost \/ sharedAddr[4] \in {"EXIT", "RSET", "QUIT"})
  /\ arm7' = "keys"
  /\ UNCHANGED <<memory, ipc9, after, due7, ticks, timeOut, errorBak, vars9, down,
                 epoch7, epoch9, mine, raced, rounds>>

(* Faulty: word 0 is left as the menu has it.                               *)
Word0Left == sharedAddr[0]

(* Faulty: word 4 is left as the menu has it.                               *)
Word4Left == sharedAddr[4]

(* The words after the loop.                                                *)
Word0 == errorBak
Word4 == "none"

Exit ==
  /\ On /\ arm7 = "exit"
  /\ sharedAddr' = [With(0, Word0) EXCEPT ![4] = Word4]
  /\ arm7' = "unload" /\ after' = "game" /\ due7' = FALSE
  /\ UNCHANGED <<ticks, timeOut, errorBak>> /\ Only7

(* Faulty: 'IGML' is not raised.                                            *)
RaisedNot == sharedAddr[5]

Raised == "IGML"

(* unloadInGameMenu, which first waits for a frame.                          *)
Unload ==
  /\ On /\ arm7 = "unload" /\ due7
  /\ sharedAddr' = With(5, Raised)
  /\ arm7' = "store" /\ due7' = FALSE /\ ticks' = 0
  /\ UNCHANGED <<after, timeOut, errorBak>> /\ Only7

(* Faulty: the menu is stored where the game's memory has been saved.         *)
StoredWrong == [page EXCEPT ![1] = ram]

(* unloadInGameMenu: the write, and the read.                               *)
Stored == [page EXCEPT ![0] = ram]

Store ==
  /\ On /\ arm7 = "store"
  /\ page' = Stored
  /\ arm7' = "restore"
  /\ UNCHANGED <<sharedAddr, ram, ipc9, after, due7, ticks, timeOut, errorBak,
                 vars9, down, hist, rounds>>

Restore ==
  /\ On /\ arm7 = "restore"
  /\ ram' = page[1]
  /\ arm7' = "restored"
  /\ UNCHANGED <<sharedAddr, page, ipc9, after, due7, ticks, timeOut, errorBak,
                 vars9, down, hist, rounds>>

AfterUnload == [game |-> "rset", RSET |-> "reset", QUIT |-> "quit", exit |-> "exit"]

Unloaded ==
  /\ On /\ arm7 = "restored" /\ ticks >= Pulse
  /\ sharedAddr' = With(5, "none")
  /\ arm7' = AfterUnload[after]
  /\ due7' = FALSE
  /\ UNCHANGED <<after, ticks, timeOut, errorBak>> /\ Only7

Quit ==
  /\ On /\ arm7 = "quit"
  /\ down' = "quit"
  /\ UNCHANGED <<sharedAddr, memory, ipc9, vars7, vars9, hist, rounds>>

(* reset: the programs come from the SD card, then 'LOAD'.                   *)
Reset ==
  /\ On /\ arm7 = "reset"
  /\ ram' = "game"
  /\ sharedAddr' = With(0, "LOAD")
  /\ arm7' = "boot" /\ due7' = TRUE
  /\ UNCHANGED <<page, ipc9, after, ticks, timeOut, errorBak, vars9, down, hist, rounds>>

(* Faulty: the ARM7 does not wait for the ARM9.                             *)
BootSeenAlways == TRUE

BootSeen == sharedAddr[0] = "BOOT"

Boot ==
  /\ On /\ arm7 = "boot" /\ due7
  /\ due7' = FALSE
  /\ \/ BootSeen /\ arm7' = "game" /\ epoch7' = epoch7 + 1
     \/ ~BootSeen /\ UNCHANGED <<arm7, epoch7>>
  /\ UNCHANGED <<sharedAddr, memory, ipc9, after, ticks, timeOut, errorBak, vars9,
                 down, epoch9, mine, lost, raced, rounds>>

Arm7 ==
  \/ Hotkey \/ NoHotkey \/ Rset \/ Answer
  \/ Backup \/ Fetch \/ Loaded \/ Ready \/ Keys \/ Switch \/ Dump \/ Test
  \/ Rewrite \/ Exit \/ Unload \/ Store \/ Restore \/ Unloaded \/ Quit
  \/ Reset \/ Boot

-----------------------------------------------------------------------------
(* The ARM9.                                                                *)

Only9 == UNCHANGED <<memory, vars7, down, rounds>>

Moves9(to) == arm9' = to /\ UNCHANGED <<res, cmd, exception>>

(* The game runs; it has started for longer than the ARM7 needs to see that.   *)
Playing == On /\ arm9 = "game" /\ ~(arm7 = "boot" /\ due7)

(* A read of the game.  raced: it is written after the ARM7 has kept word 0   *)
(* for the end of the menu, and before the ARM9 has noticed.                *)
Ask ==
  /\ Playing /\ sharedAddr[3] = "none"
  /\ \E dst \in {"dst1", "dst2"} :
        sharedAddr' = [With(0, dst) EXCEPT ![3] = "read"] /\ mine' = dst
  /\ raced' = (raced \/ ipc9)
  /\ UNCHANGED <<ipc9, vars9, epoch7, epoch9, lost>> /\ Only9

(* IPC_SYNC 9, once the game lets interrupts through.                       *)
TakeIpc ==
  /\ On /\ arm9 = "game" /\ ipc9
  /\ ipc9' = FALSE
  /\ arm9' = "wait1" /\ due9' = TRUE /\ res' = "none"
  /\ UNCHANGED <<sharedAddr, cmd, exception, hist>> /\ Only9

(* userException: it calls for the menu itself.                             *)
Exception ==
  /\ Playing /\ rounds < MaxRounds
  /\ sharedAddr' = [With(0, "EROR") EXCEPT ![5] = "IGML"]
  /\ exception' = TRUE /\ rounds' = rounds + 1
  /\ arm9' = "wait1" /\ due9' = TRUE /\ res' = "none"
  /\ UNCHANGED <<ipc9, cmd, memory, vars7, down, hist>>

(* inGameMenu: 'IGML' comes ...                                             *)
Wait1 ==
  /\ On /\ arm9 \in {"wait1", "out1"} /\ due9
  /\ IF sharedAddr[5] = "IGML"
       THEN /\ due9' = TRUE
            /\ Moves9(IF arm9 = "wait1" THEN "wait2" ELSE "out2")
       ELSE due9' = FALSE /\ UNCHANGED <<arm9, res, cmd, exception>>
  /\ UNCHANGED <<sharedAddr, ipc9, hist>> /\ Only9

(* Faulty: the menu is entered as soon as 'IGML' is there.                   *)
GoneAlways == TRUE

Gone == sharedAddr[5] # "IGML"

(* ... and goes.                                                            *)
Wait2 ==
  /\ On /\ arm9 = "wait2" /\ due9
  /\ due9' = FALSE
  /\ \/ Gone /\ Moves9("enter")
     \/ ~Gone /\ UNCHANGED <<arm9, res, cmd, exception>>
  /\ UNCHANGED <<sharedAddr, ipc9, hist>> /\ Only9

(* From here to Leave the ARM9 runs the menu's code.                        *)
Enter ==
  /\ On /\ arm9 = "enter"
  /\ sharedAddr' = With(5, "REDY")
  /\ due9' = FALSE /\ Moves9("release")
  /\ UNCHANGED <<ipc9, hist>> /\ Only9

(* The wait for the keys to be released.                                    *)
Release ==
  /\ On /\ arm9 = "release" /\ due9
  /\ due9' = FALSE
  /\ \E to \in {"release", "loop"} : Moves9(to)
  /\ UNCHANGED <<sharedAddr, ipc9, hist>> /\ Only9

Loop ==
  /\ On /\ arm9 = "loop"
  /\ due9' = FALSE
  /\ Moves9(IF sharedAddr[4] = "MENU" THEN "keys" ELSE "leave")
  /\ UNCHANGED <<sharedAddr, ipc9, hist>> /\ Only9

(* waitKeys: no key yet, or one that moves the cursor.                       *)
NoKey ==
  /\ On /\ arm9 = "keys" /\ due9
  /\ due9' = FALSE
  /\ \E to \in {"keys", "loop"} : Moves9(to)
  /\ UNCHANGED <<sharedAddr, ipc9, hist>> /\ Only9

(* The user picks a command.  RSET and QUIT return through the loop's test,   *)
(* after EXIT the menu spins and after the others it polls once a frame.      *)
Pick(c) ==
  /\ On /\ arm9 = "keys" /\ due9
  /\ exception => c # "EXIT"
  /\ sharedAddr' = [sharedAddr EXCEPT
       ![0] = IF c = "LITE" THEN "level" ELSE @,
       ![3] = IF c \in {"RSET", "QUIT"} THEN c ELSE @,
       ![4] = c]
  /\ res' = IF c \in {"RSET", "QUIT"} THEN c ELSE res
  /\ cmd' = c /\ due9' = TRUE
  /\ arm9' = IF c \in {"RSET", "QUIT"} THEN "loop"
             ELSE IF c = "EXIT" THEN "exiting" ELSE "asked"
  /\ UNCHANGED <<ipc9, exception, hist>> /\ Only9

Polled ==
  /\ On /\ arm9 = "asked" /\ due9
  /\ due9' = FALSE
  /\ IF sharedAddr[4] = cmd THEN UNCHANGED <<arm9, res, cmd, exception>>
                            ELSE Moves9("loop")
  /\ UNCHANGED <<sharedAddr, ipc9, hist>> /\ Only9

Exiting ==
  /\ On /\ arm9 = "exiting" /\ sharedAddr[4] = "none"
  /\ Moves9("loop")
  /\ UNCHANGED <<sharedAddr, ipc9, due9, hist>> /\ Only9

Leave ==
  /\ On /\ arm9 = "leave"
  /\ due9' = TRUE /\ Moves9("out1")
  /\ UNCHANGED <<sharedAddr, ipc9, hist>> /\ Only9

MenuCode == {"enter", "release", "loop", "keys", "asked", "exiting", "leave"}

(* The menu's code is gone from memory: what the ARM9 does is anybody's guess, *)
(* unless its instruction cache still has the code (then Menu goes on).      *)
Stray ==
  /\ On /\ arm9 \in MenuCode /\ ram # "menu"
  /\ Moves9("astray")
  /\ UNCHANGED <<sharedAddr, ipc9, due9, hist>> /\ Only9

(* Out of the menu: back to the game, to the menu after an exception, or to   *)
(* the restart.                                                             *)
Out ==
  /\ On /\ arm9 = "out2" /\ due9
  /\ \/ /\ sharedAddr[5] = "IGML"
        /\ due9' = FALSE
        /\ UNCHANGED <<sharedAddr, ipc9, arm9, res, cmd, exception>>
     \/ /\ sharedAddr[5] # "IGML" /\ res # "RSET"
        /\ due9' = exception
        /\ Moves9(IF exception THEN "wait1" ELSE "game")
        /\ UNCHANGED <<sharedAddr, ipc9>>
     \/ /\ sharedAddr[5] # "IGML" /\ res = "RSET"
        /\ sharedAddr' = With(3, "RSET") /\ ipc9' = FALSE
        /\ due9' = TRUE /\ Moves9("load")
  /\ UNCHANGED hist /\ Only9

(* The game restarts itself: OS_ResetSystem comes to reset.                  *)
GameReset ==
  /\ Playing /\ sharedAddr[3] = "none" /\ rounds < MaxRounds
  /\ sharedAddr' = With(3, "RSET") /\ ipc9' = FALSE
  /\ rounds' = rounds + 1
  /\ due9' = TRUE /\ Moves9("load")
  /\ UNCHANGED <<memory, vars7, down, hist>>

(* Faulty: word 3 keeps 'RSET'.                                             *)
Word3Left == sharedAddr[3]

Word3 == "none"

(* reset: the wait for 'LOAD'.                                              *)
Load ==
  /\ On /\ arm9 = "load" /\ due9
  /\ due9' = FALSE
  /\ IF sharedAddr[0] = "LOAD"
       THEN /\ sharedAddr' = [With(0, "BOOT") EXCEPT ![3] = Word3]
            /\ mine' = "BOOT"
            /\ Moves9("start")
       ELSE UNCHANGED <<sharedAddr, mine, arm9, res, cmd, exception>>
  /\ UNCHANGED <<ipc9, epoch7, epoch9, lost, raced>> /\ Only9

Start ==
  /\ On /\ arm9 = "start" /\ due9
  /\ due9' = FALSE /\ exception' = FALSE
  /\ arm9' = "game" /\ epoch9' = epoch9 + 1
  /\ UNCHANGED <<sharedAddr, ipc9, res, cmd, epoch7, mine, lost, raced>> /\ Only9

Arm9 ==
  \/ TakeIpc \/ Wait1 \/ Wait2 \/ Enter \/ Release \/ Loop \/ NoKey \/ Polled \/ Exiting \/ Leave
  \/ Stray \/ Out \/ Load \/ Start

Game == Ask \/ Exception \/ GameReset
User == \E c \in Commands : Pick(c)

-----------------------------------------------------------------------------
(* The next frame.  A processor that is not waiting, for it or for the other   *)
(* processor or the SD card or the user, is faster.                         *)

Polls7 == {"game", "ready", "frame", "unload", "boot"}
Polls9 == {"wait1", "wait2", "release", "keys", "asked", "out1", "out2", "load", "start"}

Waits7 == \/ arm7 \in {"backup", "fetch", "loaded", "store", "restore",
                       "restored", "dump", "reset"}
          \/ arm7 \in Polls7 /\ ~due7

Waits9 == \/ arm9 \in {"game", "astray"}
          \/ arm9 \in Polls9 /\ ~due9
          \/ arm9 = "exiting" /\ sharedAddr[4] # "none"

Frame ==
  /\ On /\ Waits7 /\ Waits9
  /\ due7' = (arm7 \in Polls7)
  /\ due9' = (arm9 \in Polls9)
  /\ ticks' = IF ticks < Pulse THEN ticks + 1 ELSE ticks
  /\ UNCHANGED <<sharedAddr, memory, ipc9, arm7, after, timeOut, errorBak, arm9, res,
                 cmd, exception, down, hist, rounds>>

Init ==
  /\ sharedAddr = [w \in {0, 3, 4, 5} |-> "none"]
  /\ ram = "game" /\ page = [i \in {0, 1} |-> IF i = 0 THEN "menu" ELSE "game"]
  /\ ipc9 = FALSE
  /\ arm7 = "game" /\ after = "game" /\ due7 = FALSE /\ ticks = 0
  /\ timeOut = 0 /\ errorBak = "none"
  /\ arm9 = "game" /\ due9 = FALSE /\ res = "none" /\ cmd = "none" /\ exception = FALSE
  /\ down = "no" /\ epoch7 = 0 /\ epoch9 = 0 /\ mine = "none"
  /\ lost = FALSE /\ raced = FALSE /\ rounds = 0

Next == Arm7 \/ Arm9 \/ Game \/ User \/ Frame

Spec     == Init /\ [][Next]_vars
FairSpec == Spec /\ WF_vars(Arm7) /\ WF_vars(Arm9) /\ WF_vars(Frame)

-----------------------------------------------------------------------------
(* A game that has not just been interrupted runs in its own memory.         *)
GameRestored == arm9 = "game" /\ ~ipc9 => ram = "game"

(* cardengine.c: "Store in-game menu".  The first area of the page file is the *)
(* menu, whatever is swapped.                                               *)
PageHoldsMenu == page[0] = "menu"

(* The RAM dump has taken the menu away.                                    *)
Dumped == cmd = "RAMD" \/ ~PageHoldsMenu

(* While the ARM9 runs the menu's code, that code is in memory.              *)
RunsMenu == arm9 \in MenuCode /\ ~Dumped => ram = "menu"

(* A read that the menu interrupts goes to its own destination, unless it was *)
(* written between the ARM7's copy of word 0 and the ARM9's interrupt.        *)
DestinationKept ==
  arm7 = "game" /\ arm9 = "game" /\ sharedAddr[3] = "read" /\ ~raced
    => sharedAddr[0] = mine

(* Neither processor starts the reloaded game before the other has left the   *)
(* old one.                                                                 *)
StartTogether ==
  /\ epoch7 > epoch9 => epoch7 = epoch9 + 1 /\ arm9 = "start"
  /\ epoch9 > epoch7 => epoch9 = epoch7 + 1 /\ arm7 = "boot"

(* The ARM7 gives up on an ARM9 that has missed 'IGML' or is elsewhere, never  *)
(* on one that has found it.                                                *)
NoFalseTimeout ==
  down = "timeout" => \/ arm9 \in {"game", "wait1", "load", "astray"}
                      \/ arm9 = "wait2" /\ exception

(* A command of the menu is served, and the way out of it taken, unless the   *)
(* ARM7 has overwritten a command: then both may wait for ever.  Only a RAM    *)
(* dump ends with the ARM9 in code that is gone.                            *)
Served == arm9 \notin {"asked", "exiting"} /\ (arm9 = "astray" => Dumped)

CommandServed == arm9 \in {"asked", "exiting"} ~> (Served \/ ~On \/ lost)
OutEnds ==
  arm9 \in {"out1", "out2"} ~> (arm9 \notin {"out1", "out2"} \/ ~On \/ lost)

(* A processor that restarts the game comes to the end of it.                *)
ResetEnds ==
  /\ arm9 = "load" ~> (arm9 = "game" \/ ~On)
  /\ arm7 = "boot" ~> (arm7 = "game" \/ ~On \/ arm9 = "astray")
=============================================================================
