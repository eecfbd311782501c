---------------------------- MODULE InGameMenuProofs ----------------------------
(***************************************************************************)
(* InGameMenu, proved for all commands, timeouts, durations and bounds: the    *)
(* swap, whose facts are the ARM7's own (what the ARM9 does changes neither    *)
(* memory nor the ARM7's place, only the words), and the conversation of the   *)
(* two, whose facts rest on the order of the words; of time they need only     *)
(* that a game that starts leaves the words alone until the other has polled.  *)
(* The last two facts are about time: who is faster than a frame.             *)
(***************************************************************************)
EXTENDS InGameMenu, TLAPS

(* Where the ARM7 is, the game's memory is in place, and the page file has a  *)
(* copy of what the menu displaces.                                         *)
GameMemory ==
  /\ arm7 \in {"game", "rset", "backup", "restored", "reset", "boot", "quit"} => ram = "game"
  /\ DOMAIN page = {0, 1}
  /\ page[1] = "game"

LEMMA GameMemoryInit == Init => GameMemory
  BY DEF Init, GameMemory

LEMMA GameMemoryArm9 ==
  GameMemory /\ (Arm9 \/ Game \/ User \/ Frame \/ UNCHANGED vars) => GameMemory'
<1> SUFFICES ASSUME GameMemory, Arm9 \/ Game \/ User \/ Frame \/ UNCHANGED vars
             PROVE  UNCHANGED <<ram, page, arm7>>
  BY DEF GameMemory
<1>1. CASE Arm9
  BY <1>1 DEF Arm9, TakeIpc, Wait1, Wait2, Enter, Release, Loop, NoKey, Polled,
              Exiting, Leave, Stray, Out, Load, Start, Only9, memory, vars7
<1>2. CASE Game
  BY <1>2 DEF Game, Ask, Exception, GameReset, Only9, memory, vars7
<1>3. CASE User
  BY <1>3 DEF User, Pick, Only9, memory, vars7
<1>4. CASE Frame
  BY <1>4 DEF Frame, memory
<1>5. CASE UNCHANGED vars
  BY <1>5 DEF vars, memory, vars7
<1> QED
  BY <1>1, <1>2, <1>3, <1>4, <1>5

LEMMA GameMemoryArm7 == GameMemory /\ Arm7 => GameMemory'
<1> SUFFICES ASSUME GameMemory, Arm7
             PROVE  GameMemory'
  OBVIOUS
<1>1. CASE Hotkey \/ NoHotkey \/ Rset \/ Answer
  BY <1>1 DEF GameMemory, Hotkey, NoHotkey, Rset, Answer, Only7, memory, vars7
<1>2. CASE Backup
  BY <1>2 DEF GameMemory, Backup, Kept
<1>3. CASE Fetch
  BY <1>3 DEF GameMemory, Fetch
<1>4. CASE Loaded \/ Ready \/ Keys \/ Switch \/ Dump \/ Test \/ Rewrite \/ Exit \/ Unload
  BY <1>4 DEF GameMemory, Loaded, Ready, Keys, Switch, Dump, Test, Rewrite, Exit,
              Unload, Only7, memory, vars7
<1>5. CASE Store
  BY <1>5 DEF GameMemory, Store, Stored
<1>6. CASE Restore
  BY <1>6 DEF GameMemory, Restore
<1>7. CASE Unloaded
  BY <1>7 DEF GameMemory, Unloaded, AfterUnload, Only7, memory
<1>8. CASE Quit \/ Reset \/ Boot
  BY <1>8 DEF GameMemory, Quit, Reset, Boot, memory, vars7
<1> QED
  BY <1>1, <1>2, <1>3, <1>4, <1>5, <1>6, <1>7, <1>8 DEF Arm7

(* Whenever the ARM7 is back in the game, starts it anew or leaves it, what    *)
(* the menu displaced is in place again (loadInGameMenu, unloadInGameMenu),    *)
(* RAM dumps included.                                                      *)
THEOREM MenuGameMemory == Spec => []GameMemory
<1>1. GameMemory /\ [Next]_vars => GameMemory'
  BY GameMemoryArm9, GameMemoryArm7 DEF Next
<1> QED
  BY <1>1, GameMemoryInit, PTL DEF Spec

-----------------------------------------------------------------------------
(* Without the RAM dump the menu is unloaded once, and it is the menu that is  *)
(* unloaded.                                                                *)
MenuMemory ==
  /\ arm7 \in {"loaded", "ready", "keys", "frame", "test", "rewrite", "exit",
               "unload", "store"} => ram = "menu"
  /\ page[0] = "menu"
  /\ sharedAddr[4] # "RAMD"
  /\ DOMAIN sharedAddr = {0, 3, 4, 5}
  /\ after \in {"game", "RSET", "QUIT"} /\ arm7 # "dump"

LEMMA MenuMemoryInit == Init => MenuMemory
  BY DEF Init, MenuMemory

LEMMA MenuMemoryArm7 == GameMemory /\ MenuMemory /\ Arm7 => MenuMemory'
<1> SUFFICES ASSUME GameMemory, MenuMemory, Arm7
             PROVE  MenuMemory'
  OBVIOUS
<1>1. CASE Hotkey \/ NoHotkey \/ Rset \/ Answer
  BY <1>1 DEF MenuMemory, Hotkey, NoHotkey, Rset, Answer, With, Only7, memory, vars7
<1>2. CASE Backup \/ Fetch
  BY <1>2 DEF GameMemory, MenuMemory, Backup, Kept, Fetch, Fetched
<1>3. CASE Loaded \/ Ready \/ Keys
  BY <1>3 DEF MenuMemory, Loaded, Ready, Keys, With, Only7, memory
<1>4. CASE Switch \/ Dump
  BY <1>4 DEF MenuMemory, Switch, Dump, With, Only7, memory
<1>5. CASE Test \/ Rewrite
  BY <1>5 DEF MenuMemory, Test, Rewrite, With, Only7, memory
<1>6. CASE Exit \/ Unload
  BY <1>6 DEF MenuMemory, Exit, Word4, Unload, With, Only7, memory
<1>7. CASE Store \/ Restore
  BY <1>7 DEF GameMemory, MenuMemory, Store, Stored, Restore
<1>8. CASE Unloaded
  BY <1>8 DEF MenuMemory, Unloaded, AfterUnload, With, Only7, memory
<1>9. CASE Quit \/ Reset \/ Boot
  BY <1>9 DEF MenuMemory, Quit, Reset, Boot, With, memory, vars7
<1> QED
  BY <1>1, <1>2, <1>3, <1>4, <1>5, <1>6, <1>7, <1>8, <1>9 DEF Arm7

LEMMA MenuMemoryArm9 ==
  ASSUME MenuMemory, "RAMD" \notin Commands,
         Arm9 \/ Game \/ User \/ Frame \/ UNCHANGED vars
  PROVE  MenuMemory'
<1>1. CASE Arm9
  <2>1. UNCHANGED <<ram, page, arm7, after>>
    BY <1>1 DEF Arm9, TakeIpc, Wait1, Wait2, Enter, Release, Loop, NoKey, Polled,
                Exiting, Leave, Stray, Out, Load, Start, Only9, memory, vars7
  <2>2. sharedAddr'[4] = sharedAddr[4] /\ DOMAIN sharedAddr' = DOMAIN sharedAddr
    BY <1>1 DEF MenuMemory, Arm9, TakeIpc, Wait1, Wait2, Enter, Release, Loop, NoKey,
                Polled, Exiting, Leave, Stray, Out, Load, Start, With
  <2> QED
    BY <2>1, <2>2 DEF MenuMemory
<1>2. CASE Game
  BY <1>2 DEF MenuMemory, Game, Ask, Exception, GameReset, With, Only9, memory, vars7
<1>3. CASE User
  BY <1>3 DEF MenuMemory, User, Pick, Only9, memory, vars7
<1>4. CASE Frame
  BY <1>4 DEF MenuMemory, Frame, memory
<1>5. CASE UNCHANGED vars
  BY <1>5 DEF MenuMemory, vars, memory, vars7
<1> QED
  BY <1>1, <1>2, <1>3, <1>4, <1>5

(* If the RAM dump is never picked, the first area of the page file is the     *)
(* menu, whatever is swapped (the fileWrite of unloadInGameMenu).             *)
THEOREM MenuPageHoldsMenu ==
  ASSUME "RAMD" \notin Commands
  PROVE  Spec => []PageHoldsMenu
<1> DEFINE Both == GameMemory /\ MenuMemory
<1>1. Init => Both
  BY GameMemoryInit, MenuMemoryInit
<1>2. Both /\ [Next]_vars => Both'
  BY GameMemoryArm9, GameMemoryArm7, MenuMemoryArm9, MenuMemoryArm7 DEF Next
<1>3. Both => PageHoldsMenu
  BY DEF MenuMemory, PageHoldsMenu
<1> QED
  BY <1>1, <1>2, <1>3, PTL DEF Spec
-----------------------------------------------------------------------------
(* The conversation.  Where the ARM9 is while the ARM7 is in the menu, and     *)
(* where it may still be when the ARM7 has left it.                          *)
In9   == {"release", "loop", "keys", "asked", "exiting", "leave", "out1", "astray"}
Deep9 == In9 \cup {"out2"}

(* The ARM7 opens the menu, is in it, leaves it with 'IGML' up, or is out.     *)
Opening7 == {"backup", "fetch", "loaded", "ready"}
Menu7    == {"keys", "frame", "test", "rewrite"}
Raised7  == {"store", "restore", "restored"}
Closing7 == {"unload"} \cup Raised7
Out7     == {"game", "rset", "reset", "boot", "quit", "dump", "exit"} \cup Closing7

Places ==
  /\ arm7 \in Opening7 \cup Menu7 \cup Out7
  /\ arm9 \in {"game", "wait1", "wait2", "load", "start", "enter"} \cup Deep9
  /\ DOMAIN sharedAddr = {0, 3, 4, 5}
  /\ after \in {"game", "RSET", "QUIT", "exit"} /\ res \in {"none", "RSET", "QUIT"}
  /\ epoch7 \in Int /\ epoch9 \in Int

(* Word 5: 'IGML' is up while the ARM7 swaps or an exception calls for the     *)
(* menu, 'REDY' until the ARM7 has seen it, and the ARM9 enters a menu that    *)
(* the ARM7 waits in.                                                       *)
Igml ==
  /\ arm7 \in {"backup", "fetch", "loaded"} \cup Raised7 => sharedAddr[5] = "IGML"
  /\ sharedAddr[5] = "IGML" =>
       \/ arm7 \in {"backup", "fetch", "loaded"} \cup Raised7
       \/ exception /\ arm9 \in {"wait1", "wait2"}
  /\ sharedAddr[5] = "REDY" => arm7 \in {"ready", "keys", "exit", "unload"} /\ arm9 \in In9
  /\ arm9 = "enter" \/ (arm9 = "wait2" /\ sharedAddr[5] # "IGML") =>
       arm7 = "ready" /\ sharedAddr[4] = "MENU"

(* A menu is opened for an ARM9 that has an IPC_SYNC to take, waits or has     *)
(* just come; the ARM7 stays in it only as long as the ARM9 has not come out.  *)
Inside ==
  /\ arm7 \in Opening7 => \/ ipc9 \/ sharedAddr[5] = "REDY"
                          \/ arm9 \in {"wait1", "wait2", "enter", "load", "astray"}
  /\ arm7 \in {"backup", "fetch", "loaded"} /\ arm9 \notin Deep9 => sharedAddr[4] = "MENU"
  /\ arm7 \in Menu7 \cup {"dump", "exit"} \cup Closing7 =>
       arm9 \in In9 \/ (arm9 = "out2" /\ arm7 \in Raised7)

(* Word 4: the ARM9 waits for keys only while it is 'MENU', and a command that *)
(* ends the menu stays until the ARM7 has served it.                         *)
Command ==
  /\ arm7 \in Out7 => sharedAddr[4] # "MENU"
  /\ sharedAddr[4] # "MENU" => arm9 \notin {"release", "keys"}
  /\ sharedAddr[4] = "RAMD" => arm9 \in {"asked", "astray"} /\ cmd = "RAMD"
  /\ sharedAddr[4] = "RSET" /\ arm9 \in Deep9 =>
       res = "RSET" /\ arm9 \notin {"asked", "exiting"}
  /\ sharedAddr[4] \in {"RSET", "QUIT"} /\ arm9 \in Deep9 => sharedAddr[3] # "read"
  /\ arm7 = "dump" \/ (arm7 \in Closing7 /\ after = "exit") => sharedAddr[4] = "RAMD"
  /\ arm7 \in Closing7 /\ after \in {"RSET", "QUIT"} => sharedAddr[4] = after

(* The ARM9 comes to the wait for 'LOAD', or goes astray, whenever the ARM7    *)
(* restarts the game, and the game starts after 'BOOT'.                      *)
ToLoad9 == arm9 \in {"load", "astray"} \/ (arm9 \in Deep9 /\ res = "RSET")

Restart ==
  /\ sharedAddr[3] = "RSET" => arm9 = "load" \/ (arm9 \in Deep9 /\ res = "RSET")
  /\ sharedAddr[0] = "LOAD" => arm7 = "boot"
  /\ errorBak # "LOAD"
  /\ arm9 \in {"load", "start"} /\ ipc9 => arm7 \in Opening7
  /\ arm7 = "reset" => ToLoad9
  /\ arm7 = "boot" =>
       \/ sharedAddr[0] = "LOAD" /\ ToLoad9
       \/ sharedAddr[0] = "BOOT" /\ arm9 = "start" /\ (due9 => due7)
       \/ sharedAddr[0] = "BOOT" /\ arm9 = "game" /\ due7 /\ ~ipc9

Epochs ==
  IF arm9 = "start" /\ arm7 # "boot" THEN epoch7 = epoch9 + 1
  ELSE IF arm9 = "game" /\ arm7 = "boot" THEN epoch9 = epoch7 + 1
  ELSE epoch7 = epoch9

(* Until the ARM7 has put it back, the destination of a read that the menu     *)
(* has interrupted is in errorBak.                                          *)
Destination ==
  /\ exception => arm9 # "game"
  /\ arm9 = "start" \/ arm7 \in {"reset", "boot"} => sharedAddr[3] # "read"
  /\ sharedAddr[3] = "read" /\ ~raced /\ ~exception =>
       IF \/ arm7 \in Opening7 \cup Menu7 \cup {"dump", "exit"}
          \/ arm7 \in Closing7 /\ after # "game"
         THEN errorBak = mine
         ELSE sharedAddr[0] = mine

Conversation ==
  Places /\ Igml /\ Inside /\ Command /\ Restart /\ Epochs /\ Destination

LEMMA ConversationInit == Init => Conversation
  BY DEF Init, Conversation, Places, Igml, Inside, Command, Restart, ToLoad9, Epochs,
         Destination, In9, Deep9, Opening7, Menu7, Raised7, Closing7, Out7

LEMMA ConversationArm7 == Conversation /\ Arm7 => Conversation'
<1> SUFFICES ASSUME Conversation, Arm7 PROVE Conversation'
  OBVIOUS
<1> USE DEF Conversation, Places, Igml, Inside, Command, Restart, ToLoad9, Epochs,
            Destination, In9, Deep9, Opening7, Menu7, Raised7, Closing7, Out7,
            memory, hist, vars7, vars9, Only7
<1>1. CASE Hotkey
  BY <1>1 DEF Hotkey, With
<1>2. CASE NoHotkey
  BY <1>2 DEF NoHotkey
<1>3. CASE Rset
  BY <1>3 DEF Rset, Asked
<1>4. CASE Answer
  BY <1>4 DEF Answer, With
<1>5. CASE Backup
  BY <1>5 DEF Backup
<1>6. CASE Fetch
  BY <1>6 DEF Fetch
<1>7. CASE Loaded
  BY <1>7 DEF Loaded, With, Lowered
<1>8. CASE Ready
  BY <1>8 DEF Ready
<1>9. CASE Keys
  BY <1>9 DEF Keys, With
<1>10. CASE Switch
  BY <1>10 DEF Switch, With
<1>11. CASE Dump
  BY <1>11 DEF Dump, With
<1>12. CASE Test
  BY <1>12 DEF Test
<1>13. CASE Rewrite
  BY <1>13 DEF Rewrite, With
<1>14. CASE Exit
  BY <1>14 DEF Exit, With, Word0, Word4
<1>15. CASE Unload
  BY <1>15 DEF Unload, With, Raised
<1>16. CASE Store
  BY <1>16 DEF Store
<1>17. CASE Restore
  BY <1>17 DEF Restore
<1>18. CASE Unloaded
  BY <1>18 DEF Unloaded, With, AfterUnload
<1>19. CASE Quit
  BY <1>19 DEF Quit
<1>20. CASE Reset
  BY <1>20 DEF Reset, With
<1>21. CASE Boot
  BY <1>21 DEF Boot, BootSeen
<1> QED
  BY <1>1, <1>2, <1>3, <1>4, <1>5, <1>6, <1>7, <1>8, <1>9, <1>10, <1>11,
     <1>12, <1>13, <1>14, <1>15, <1>16, <1>17, <1>18, <1>19, <1>20, <1>21
     DEF Arm7

LEMMA ConversationArm9 == Conversation /\ Arm9 => Conversation'
<1> SUFFICES ASSUME Conversation, Arm9 PROVE Conversation'
  OBVIOUS
<1> USE DEF Conversation, Places, Igml, Inside, Command, Restart, ToLoad9, Epochs,
            Destination, In9, Deep9, Opening7, Menu7, Raised7, Closing7, Out7,
            memory, hist, vars7, vars9, Only9, Moves9
<1>1. CASE TakeIpc
  BY <1>1 DEF TakeIpc
<1>2. CASE Wait1
  BY <1>2 DEF Wait1
<1>3. CASE Wait2
  BY <1>3 DEF Wait2, Gone
<1>4. CASE Enter
  BY <1>4 DEF Enter, With
<1>5. CASE Release
  BY <1>5 DEF Release
<1>6. CASE Loop
  BY <1>6 DEF Loop
<1>7. CASE NoKey
  BY <1>7 DEF NoKey
<1>8. CASE Polled
  BY <1>8 DEF Polled
<1>9. CASE Exiting
  BY <1>9 DEF Exiting
<1>10. CASE Leave
  BY <1>10 DEF Leave
<1>11. CASE Stray
  BY <1>11 DEF Stray, MenuCode
<1>12. CASE Out
  BY <1>12 DEF Out, With
<1>13. CASE Load
  BY <1>13 DEF Load, With, Word3
<1>14. CASE Start
  BY <1>14 DEF Start
<1> QED
  BY <1>1, <1>2, <1>3, <1>4, <1>5, <1>6, <1>7, <1>8, <1>9, <1>10, <1>11,
     <1>12, <1>13, <1>14 DEF Arm9

LEMMA ConversationGame ==
  Conversation /\ (Game \/ User \/ Frame \/ UNCHANGED vars) => Conversation'
<1> SUFFICES ASSUME Conversation, Game \/ User \/ Frame \/ UNCHANGED vars
             PROVE  Conversation'
  OBVIOUS
<1> USE DEF Conversation, Places, Igml, Inside, Command, Restart, ToLoad9, Epochs,
            Destination, In9, Deep9, Opening7, Menu7, Raised7, Closing7, Out7,
            memory, hist, vars7, vars9, Only9, Moves9, Playing, With
<1>1. CASE Ask
  <2>1. PICK dst \in {"dst1", "dst2"} :
          sharedAddr' = [With(0, dst) EXCEPT ![3] = "read"] /\ mine' = dst
    BY <1>1 DEF Ask
  <2>2. Places' /\ Igml' /\ Inside' /\ Command'
    BY <1>1, <2>1 DEF Ask
  <2>3. Restart' /\ Epochs'
    BY <1>1, <2>1 DEF Ask
  <2>4. Destination'
    <3>1. sharedAddr'[0] = dst /\ mine' = dst
          /\ UNCHANGED <<arm7, after, exception, errorBak, arm9>>
      BY <1>1, <2>1 DEF Ask
    <3>2. raced' = (raced \/ ipc9) /\ arm9 = "game"
      BY <1>1 DEF Ask
    <3>3. ipc9 => raced'
      BY <3>2
    <3>4. ~ipc9 => arm7 \notin Opening7 \cup Menu7 \cup {"dump", "exit"} \cup Closing7
      BY <3>2
    <3>5. ~exception /\ arm7 \notin {"reset", "boot"}
      BY <1>1 DEF Ask
    <3> QED
      BY <3>1, <3>2, <3>3, <3>4, <3>5
  <2> QED
    BY <2>2, <2>3, <2>4
<1>2. CASE Exception
  BY <1>2 DEF Exception
<1>3. CASE GameReset
  BY <1>3 DEF GameReset
<1>4. CASE User
  BY <1>4, MenuAssumption DEF User, Pick, AllCommands
<1>5. CASE Frame
  <2>1. Places' /\ Igml' /\ Inside' /\ Command' /\ Epochs' /\ Destination'
    BY <1>5 DEF Frame
  <2>2. Restart'
    BY <1>5 DEF Frame, Polls7
  <2> QED
    BY <2>1, <2>2
<1>6. CASE UNCHANGED vars
  BY <1>6 DEF vars
<1> QED
  BY <1>1, <1>2, <1>3, <1>4, <1>5, <1>6 DEF Game

THEOREM MenuConversation == Spec => []Conversation
<1>1. Conversation /\ [Next]_vars => Conversation'
  BY ConversationArm7, ConversationArm9, ConversationGame DEF Next
<1> QED
  BY <1>1, ConversationInit, PTL DEF Spec

(* Neither processor starts the reloaded game before the other has left the    *)
(* old one, however long either takes (reset of both cardengines).           *)
THEOREM MenuStartTogether == Spec => []StartTogether
<1>1. Conversation => StartTogether
  BY DEF Conversation, Places, Epochs, StartTogether
<1> QED
  BY <1>1, MenuConversation, PTL

(* A game that runs, and has no interrupt to take, runs in its own memory      *)
(* (inGameMenu of both processors and the swap between them).                *)
THEOREM MenuGameRestored == Spec => []GameRestored
<1>1. Conversation /\ GameMemory => GameRestored
  BY DEF Conversation, Places, Igml, Inside, GameMemory, GameRestored,
         In9, Deep9, Opening7, Menu7, Raised7, Closing7, Out7
<1> QED
  BY <1>1, MenuConversation, MenuGameMemory, PTL

(* A read that the menu interrupts goes to its own destination (errorBak of    *)
(* the ARM7's inGameMenu), unless it races the ARM7's copy of word 0.         *)
THEOREM MenuDestinationKept == Spec => []DestinationKept
<1>1. Conversation => DestinationKept
  BY DEF Conversation, Destination, DestinationKept, Opening7, Menu7, Closing7, Raised7
<1> QED
  BY <1>1, MenuConversation, PTL

-----------------------------------------------------------------------------
(* Time.  A processor that does not wait for a frame is faster than one; with   *)
(* that the two facts about the menu's code and about 'REDY' are invariants    *)
(* of the conversation as well.                                             *)

(* Word 4 is the command the ARM9 has last chosen, as long as it is one.       *)
Chosen ==
  /\ sharedAddr[4] \in AllCommands => cmd = sharedAddr[4]
  /\ arm9 = "asked" => cmd \in AllCommands
  /\ sharedAddr[4] = "EXIT" => arm9 \in {"exiting", "astray"}
  /\ sharedAddr[4] \in {"RSET", "QUIT"} => arm9 \notin {"asked", "exiting"}
  /\ arm7 \in Closing7 /\ after = "game" => sharedAddr[4] = "none"

(* The ARM7 sees 'REDY' before the user can have picked anything.            *)
Seen ==
  arm7 = "ready" /\ sharedAddr[5] = "REDY" =>
    /\ sharedAddr[4] = "MENU"
    /\ \/ arm9 = "release" /\ (due9 => due7)
       \/ due7 /\ (arm9 = "loop" \/ (arm9 = "keys" /\ ~due9))
       \/ arm9 = "astray"

(* The menu lies in memory from its load to its unload, but for a dump; ...  *)
Swapped ==
  /\ ram = "menu" => PageHoldsMenu
  /\ PageHoldsMenu /\ arm7 \in {"loaded", "ready"} \cup Menu7 => ram = "menu"
  /\ ~Dumped /\ arm7 \in {"exit", "unload", "store"} => ram = "menu"
  /\ cmd = "RAMD" /\ PageHoldsMenu =>
       \/ arm7 \in Menu7 \cup {"dump", "exit", "unload", "store"}
       \/ arm7 \in {"restore", "restored"} /\ after = "exit"
  /\ cmd = "RAMD" /\ (arm7 = "exit" \/ (arm7 \in {"unload", "store"} /\ after # "exit"))
       => ram = "game"

(* ... and the ARM9 leaves its code before: after 'EXIT' a frame passes that    *)
(* it does not wait for.                                                    *)
Runs ==
  /\ ~Dumped /\ arm9 \in MenuCode =>
       \/ arm7 \in {"exit"} \cup Menu7
       \/ arm7 = "ready" /\ (sharedAddr[5] = "REDY" \/ arm9 = "enter")
       \/ arm7 = "unload" /\ ~due7
  /\ arm7 \in {"exit", "unload"} /\ cmd # "RAMD" => arm9 # "asked"

(* No frame, or one, has passed since the ARM7 lowered 'IGML'.               *)
Few == \/ timeOut = 0 /\ due7
       \/ timeOut = 1 /\ ~due7

(* With 'IGML' up for two frames the ARM9 has seen it when it goes: it is then *)
(* past the menu, and still is when the next is opened.                     *)
Left ==
  /\ ticks \in Nat
  /\ arm7 \in {"unload"} \cup Raised7 /\ after # "exit" =>
       /\ arm9 = "asked" => sharedAddr[4] # cmd
       /\ arm9 = "exiting" => sharedAddr[4] = "none"
  /\ arm7 \in Raised7 /\ after # "exit" =>
       /\ ticks > 1 => arm9 \in {"out2", "astray"}
       /\ ticks = 1 /\ arm9 \in {"asked", "out1"} => due9
  /\ arm7 \in Opening7 \cup {"game", "rset", "reset", "boot", "quit"} /\ sharedAddr[5] # "REDY" =>
       arm9 \notin Deep9 \ {"out2", "astray"}

(* An ARM9 that comes is never late: it is there two frames after 'IGML' goes. *)
Timely ==
  /\ arm7 = "rset" => ~due7
  /\ arm9 = "start" /\ arm7 = "game" /\ due7 => due9
  /\ arm9 = "start" /\ arm7 \in Opening7 => due9 /\ (arm7 = "ready" => Few)
  /\ arm7 = "ready" /\ (arm9 \in {"enter", "out2"} \/ (arm9 = "wait2" /\ sharedAddr[5] # "IGML")) =>
       \/ Few
       \/ timeOut = 1 /\ (arm9 = "enter" \/ due9)
       \/ timeOut = 2 /\ ~due7 /\ (arm9 = "enter" \/ due9)

(* Schedule holds for any Timeout and Pulse, Timing if a swap lasts two frames. *)
Schedule == Chosen /\ Seen /\ Swapped /\ Runs
Timing   == Left /\ Timely

LEMMA ScheduleInit == Init => Schedule
  BY DEF Init, Schedule, Chosen, Seen, Swapped, Runs, AllCommands, PageHoldsMenu,
     Dumped, MenuCode, Closing7, Raised7, Menu7

LEMMA ScheduleArm7 ==
  ASSUME Conversation, GameMemory, Schedule, Arm7
  PROVE  Schedule'
<1> USE MenuAssumption DEF Conversation, Places, Igml, Inside, Command, Restart, ToLoad9,
            Schedule, Chosen, Seen, Swapped, Runs, Dumped, PageHoldsMenu, MenuCode,
            AllCommands, GameMemory, In9, Deep9, Opening7, Menu7, Raised7, Closing7,
            Out7,
            memory, hist, vars7, vars9, Only7
<1>1. CASE Hotkey
  BY <1>1 DEF Hotkey, With
<1>2. CASE NoHotkey
  BY <1>2 DEF NoHotkey
<1>3. CASE Rset
  BY <1>3 DEF Rset, Asked
<1>4. CASE Answer
  BY <1>4 DEF Answer, With
<1>5. CASE Backup
  BY <1>5 DEF Backup, Kept
<1>6. CASE Fetch
  BY <1>6 DEF Fetch, Fetched
<1>7. CASE Loaded
  BY <1>7 DEF Loaded, With, Lowered
<1>8. CASE Ready
  BY <1>8 DEF Ready
<1>9. CASE Keys
  BY <1>9 DEF Keys, With
<1>10. CASE Switch
  BY <1>10 DEF Switch, With
<1>11. CASE Dump
  BY <1>11 DEF Dump, With
<1>12. CASE Test
  BY <1>12 DEF Test
<1>13. CASE Rewrite
  BY <1>13 DEF Rewrite, With
<1>14. CASE Exit
  BY <1>14 DEF Exit, With, Word0, Word4
<1>15. CASE Unload
  BY <1>15 DEF Unload, With, Raised
<1>16. CASE Store
  BY <1>16 DEF Store, Stored
<1>17. CASE Restore
  BY <1>17 DEF Restore
<1>18. CASE Unloaded
  BY <1>18 DEF Unloaded, With, AfterUnload
<1>19. CASE Quit
  BY <1>19 DEF Quit
<1>20. CASE Reset
  BY <1>20 DEF Reset, With
<1>21. CASE Boot
  BY <1>21 DEF Boot, BootSeen
<1> QED
  BY <1>1, <1>2, <1>3, <1>4, <1>5, <1>6, <1>7, <1>8, <1>9, <1>10, <1>11, <1>12,
     <1>13, <1>14, <1>15, <1>16, <1>17, <1>18, <1>19, <1>20, <1>21 DEF Arm7

LEMMA ScheduleArm9 ==
  ASSUME Conversation, GameMemory, Schedule, Arm9
  PROVE  Schedule'
<1> USE MenuAssumption DEF Conversation, Places, Igml, Inside, Command, Restart, ToLoad9,
            Schedule, Chosen, Seen, Swapped, Runs, Dumped, PageHoldsMenu, MenuCode,
            AllCommands, GameMemory, In9, Deep9, Opening7, Menu7, Raised7, Closing7,
            Out7,
            memory, hist, vars7, vars9, Only9, Moves9
<1>1. CASE TakeIpc
  BY <1>1 DEF TakeIpc
<1>2. CASE Wait1
  BY <1>2 DEF Wait1
<1>3. CASE Wait2
  BY <1>3 DEF Wait2, Gone
<1>4. CASE Enter
  BY <1>4 DEF Enter, With
<1>5. CASE Release
  BY <1>5 DEF Release
<1>6. CASE Loop
  BY <1>6 DEF Loop
<1>7. CASE NoKey
  BY <1>7 DEF NoKey
<1>8. CASE Polled
  BY <1>8 DEF Polled
<1>9. CASE Exiting
  BY <1>9 DEF Exiting
<1>10. CASE Leave
  BY <1>10 DEF Leave
<1>11. CASE Stray
  BY <1>11 DEF Stray
<1>12. CASE Out
  BY <1>12 DEF Out, With
<1>13. CASE Load
  BY <1>13 DEF Load, With, Word3
<1>14. CASE Start
  BY <1>14 DEF Start
<1> QED
  BY <1>1, <1>2, <1>3, <1>4, <1>5, <1>6, <1>7, <1>8, <1>9, <1>10, <1>11, <1>12,
     <1>13, <1>14 DEF Arm9

LEMMA ScheduleGame ==
  ASSUME Conversation, GameMemory, Schedule, Game \/ User \/ Frame \/ UNCHANGED vars
  PROVE  Schedule'
<1> USE MenuAssumption DEF Conversation, Places, Igml, Inside, Command, Restart, ToLoad9,
            Schedule, Chosen, Seen, Swapped, Runs, Dumped, PageHoldsMenu, MenuCode,
            AllCommands, GameMemory, In9, Deep9, Opening7, Menu7, Raised7, Closing7,
            Out7,
            memory, hist, vars7, vars9, Only9, Moves9
<1>1. CASE Ask
  BY <1>1 DEF Ask, With, Playing
<1>2. CASE Exception
  BY <1>2 DEF Exception, With, Playing
<1>3. CASE GameReset
  BY <1>3 DEF GameReset, With, Playing
<1>4. CASE User
  BY <1>4 DEF User, Pick
<1>5. CASE Frame
  BY <1>5 DEF Frame, Polls7, Polls9, Waits7, Waits9
<1>6. CASE UNCHANGED vars
  BY <1>6 DEF vars
<1> QED
  BY <1>1, <1>2, <1>3, <1>4, <1>5, <1>6 DEF Game

LEMMA TimingInit == Init => Timing
  BY DEF Init, Timing, Left, Timely, Few, Deep9, In9, Raised7, Opening7

LEMMA TimingArm7 ==
  ASSUME Conversation, GameMemory, Schedule, Pulse > 1, Timing, Arm7
  PROVE  Timing'
<1> USE MenuAssumption DEF Conversation, Places, Igml, Inside, Command, Restart, ToLoad9,
            Chosen, Timing, Left, Timely, Few, Schedule, MenuCode, AllCommands, In9,
            Deep9, Opening7, Menu7, Raised7, Closing7, Out7,
            memory, hist, vars7, vars9, Only7
<1>1. CASE Hotkey
  BY <1>1 DEF Hotkey, With
<1>2. CASE NoHotkey
  BY <1>2 DEF NoHotkey
<1>3. CASE Rset
  BY <1>3 DEF Rset, Asked
<1>4. CASE Answer
  BY <1>4 DEF Answer, With
<1>5. CASE Backup
  BY <1>5 DEF Backup, Kept
<1>6. CASE Fetch
  BY <1>6 DEF Fetch, Fetched
<1>7. CASE Loaded
  BY <1>7 DEF Loaded, With, Lowered
<1>8. CASE Ready
  BY <1>8 DEF Ready
<1>9. CASE Keys
  BY <1>9 DEF Keys, With
<1>10. CASE Switch
  BY <1>10 DEF Switch, With
<1>11. CASE Dump
  BY <1>11 DEF Dump, With
<1>12. CASE Test
  BY <1>12 DEF Test
<1>13. CASE Rewrite
  BY <1>13 DEF Rewrite, With
<1>14. CASE Exit
  BY <1>14 DEF Exit, With, Word0, Word4
<1>15. CASE Unload
  BY <1>15 DEF Unload, With, Raised
<1>16. CASE Store
  BY <1>16 DEF Store, Stored
<1>17. CASE Restore
  BY <1>17 DEF Restore
<1>18. CASE Unloaded
  BY <1>18 DEF Unloaded, With, AfterUnload
<1>19. CASE Quit
  BY <1>19 DEF Quit
<1>20. CASE Reset
  BY <1>20 DEF Reset, With
<1>21. CASE Boot
  BY <1>21 DEF Boot, BootSeen
<1> QED
  BY <1>1, <1>2, <1>3, <1>4, <1>5, <1>6, <1>7, <1>8, <1>9, <1>10, <1>11, <1>12,
     <1>13, <1>14, <1>15, <1>16, <1>17, <1>18, <1>19, <1>20, <1>21 DEF Arm7

LEMMA TimingArm9 ==
  ASSUME Conversation, GameMemory, Schedule, Pulse > 1, Timing, Arm9
  PROVE  Timing'
<1> USE MenuAssumption DEF Conversation, Places, Igml, Inside, Command, Restart, ToLoad9,
            Chosen, Timing, Left, Timely, Few, Schedule, MenuCode, AllCommands, In9,
            Deep9, Opening7, Menu7, Raised7, Closing7, Out7,
            memory, hist, vars7, vars9, Only9, Moves9
<1>1. CASE TakeIpc
  BY <1>1 DEF TakeIpc
<1>2. CASE Wait1
  BY <1>2 DEF Wait1
<1>3. CASE Wait2
  BY <1>3 DEF Wait2, Gone
<1>4. CASE Enter
  BY <1>4 DEF Enter, With
<1>5. CASE Release
  BY <1>5 DEF Release
<1>6. CASE Loop
  BY <1>6 DEF Loop
<1>7. CASE NoKey
  BY <1>7 DEF NoKey
<1>8. CASE Polled
  BY <1>8 DEF Polled
<1>9. CASE Exiting
  BY <1>9 DEF Exiting
<1>10. CASE Leave
  BY <1>10 DEF Leave
<1>11. CASE Stray
  BY <1>11 DEF Stray
<1>12. CASE Out
  BY <1>12 DEF Out, With
<1>13. CASE Load
  BY <1>13 DEF Load, With, Word3
<1>14. CASE Start
  BY <1>14 DEF Start
<1> QED
  BY <1>1, <1>2, <1>3, <1>4, <1>5, <1>6, <1>7, <1>8, <1>9, <1>10, <1>11, <1>12,
     <1>13, <1>14 DEF Arm9

LEMMA TimingGame ==
  ASSUME Conversation, GameMemory, Schedule, Pulse > 1, Timing, Game \/ User \/
         Frame \/ UNCHANGED vars
  PROVE  Timing'
<1> USE MenuAssumption DEF Conversation, Places, Igml, Inside, Command, Restart, ToLoad9,
            Chosen, Timing, Left, Timely, Few, Schedule, MenuCode, AllCommands, In9,
            Deep9, Opening7, Menu7, Raised7, Closing7, Out7,
            memory, hist, vars7, vars9, Only9, Moves9
<1>1. CASE Ask
  BY <1>1 DEF Ask, With, Playing
<1>2. CASE Exception
  BY <1>2 DEF Exception, With, Playing
<1>3. CASE GameReset
  BY <1>3 DEF GameReset, With, Playing
<1>4. CASE User
  BY <1>4 DEF User, Pick
<1>5. CASE Frame
  <2>1. Left'
    <3>1. /\ UNCHANGED <<sharedAddr, arm7, arm9, after, cmd>>
          /\ ticks' = IF ticks < Pulse THEN ticks + 1 ELSE ticks
          /\ arm9 \in {"asked", "out1"} => due9'
          /\ arm9 \in {"asked", "out1"} => ~due9
          /\ arm9 \notin {"loop", "leave"} /\ (arm9 = "exiting" => sharedAddr[4] # "none")
      BY <1>5 DEF Frame, Polls9, Waits9
    <3>2. arm7 \in Raised7 => arm9 \notin {"release", "keys"}
      OBVIOUS
    <3>3. arm7 \in Raised7 /\ after # "exit" /\ ticks > 0 => arm9 \in {"out2", "astray"}
      BY <3>1, <3>2
    <3> QED
      BY <3>1, <3>3
  <2>2. Timely'
    BY <1>5 DEF Frame, Polls7, Polls9, Waits7, Waits9
  <2> QED
    BY <2>1, <2>2
<1>6. CASE UNCHANGED vars
  BY <1>6 DEF vars
<1> QED
  BY <1>1, <1>2, <1>3, <1>4, <1>5, <1>6 DEF Game

THEOREM MenuSchedule == Spec => []Schedule
<1>1. Schedule /\ Conversation /\ GameMemory /\ [Next]_vars => Schedule'
  BY ScheduleArm7, ScheduleArm9, ScheduleGame DEF Next
<1> QED
  BY <1>1, ScheduleInit, MenuConversation, MenuGameMemory, PTL DEF Spec

(* While the ARM9 runs the menu's code that code is in memory, but for a dump:  *)
(* unloadInGameMenu first waits for a frame, and within it the ARM9 has left    *)
(* (inGameMenu of both processors).                                          *)
THEOREM MenuRunsMenu == Spec => []RunsMenu
<1>1. Conversation /\ Schedule => RunsMenu
  BY DEF Conversation, Schedule, Swapped, Runs, RunsMenu, Dumped, Menu7
<1> QED
  BY <1>1, MenuConversation, MenuSchedule, PTL

LEMMA NextTimeout ==
  ASSUME Timeout > 2, NoFalseTimeout, Conversation, Timing, [Next]_vars
  PROVE  NoFalseTimeout'
<1>1. CASE UNCHANGED vars
  BY <1>1 DEF NoFalseTimeout, vars, vars9
<1>2. CASE Next
  <2>1. On
    BY <1>2 DEF Next, Arm7, Arm9, Game, User, Hotkey, NoHotkey, Rset, Answer, Backup,
       Fetch, Loaded, Ready, Keys, Switch, Dump, Test, Rewrite, Exit, Unload, Store,
       Restore, Unloaded, Quit, Reset, Boot, TakeIpc, Wait1, Wait2, Enter, Release, Loop,
       NoKey, Polled, Exiting, Leave, Stray, Out, Load, Start, Ask, Exception, GameReset,
       Playing, Pick, Frame
  <2>2. CASE Ready
    <3> SUFFICES ASSUME down' = "timeout" PROVE NoFalseTimeout'
      BY DEF NoFalseTimeout
    <3>1. /\ arm7 = "ready" /\ due7 /\ sharedAddr[5] # "REDY" /\ timeOut + 1 = Timeout
          /\ arm9' = arm9 /\ exception' = exception
      BY <2>1, <2>2 DEF Ready, On, TimedOut, vars9
    <3>2. ~Few /\ ~(timeOut = 1) /\ ~(timeOut = 2 /\ ~due7)
      BY <3>1, MenuAssumption DEF Few
    <3>3. arm9 \notin {"enter", "out2", "start"} \cup (Deep9 \ {"astray"})
      BY <3>1, <3>2 DEF Timing, Timely, Left, Opening7
    <3>4. arm9 = "wait2" => exception
      BY <3>1, <3>2 DEF Timing, Timely, Conversation, Igml, Raised7
    <3> QED
      BY <3>1, <3>3, <3>4 DEF Conversation, Places, Deep9, In9, NoFalseTimeout
  <2>3. CASE ~Ready
    <3>1. down' # "timeout"
      BY <1>2, <2>1, <2>3 DEF On, Next, Arm7, Arm9, Game, User, Hotkey, NoHotkey,
         Rset, Answer,
         Backup, Fetch, Loaded, Keys, Switch, Dump, Test, Rewrite, Exit, Unload, Store,
         Restore, Unloaded, Quit, Reset, Boot, TakeIpc, Wait1, Wait2, Enter, Release, Loop,
         NoKey, Polled, Exiting, Leave, Stray, Out, Load, Start, Ask, Exception, GameReset,
         Pick, Frame, Only7, Only9
    <3> QED
      BY <3>1 DEF NoFalseTimeout
  <2> QED
    BY <2>2, <2>3
<1> QED
  BY <1>1, <1>2

(* The ARM7 gives up only on an ARM9 that has missed 'IGML' or is elsewhere     *)
(* (the 'REDY' timeout of the ARM7's inGameMenu), if it waits for three frames   *)
(* or more and a swap lasts two: the code waits 120.                          *)
THEOREM MenuNoFalseTimeout ==
  ASSUME Timeout > 2, Pulse > 1
  PROVE  Spec => []NoFalseTimeout
<1> DEFINE Held == Timing /\ NoFalseTimeout
           Known == Conversation /\ GameMemory /\ Schedule
<1>1. Init => Held
  BY TimingInit DEF Init, NoFalseTimeout
<1>2. Held /\ Known /\ [Next]_vars => Held'
  <2> SUFFICES ASSUME Held, Known, [Next]_vars PROVE Held'
    OBVIOUS
  <2>1. Timing'
    BY TimingArm7, TimingArm9, TimingGame DEF Next
  <2>2. NoFalseTimeout'
    BY NextTimeout
  <2> QED
    BY <2>1, <2>2
<1>3. Spec => []Known
  BY MenuConversation, MenuGameMemory, MenuSchedule, PTL
<1> QED
  BY <1>1, <1>2, <1>3, PTL DEF Spec
=============================================================================
