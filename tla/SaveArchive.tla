------------------------------ MODULE SaveArchive ------------------------------
(***************************************************************************)
(* What a DSi-enhanced game expects of its save archive: one file that it     *)
(* creates, removes, gives a length, reads and writes, one call at a time,    *)
(* and that the loss of power leaves with at most a part of a call done.     *)
(***************************************************************************)
EXTENDS Integers, Sequences

CONSTANTS
  Room,       (* the longest file                                           *)
  FontCell    (* what the system's font consists of                         *)

VARIABLES
  exists,     (* there is a file                                            *)
  file,       (* its cells                                                  *)
  known,      (* the game has asked whether there is a file                 *)
  open,       (* "none", or what the game has opened: "save" or "font"       *)
  mode, pos,  (* the mode it has been opened with; the position             *)
  todo,       (* the write or the removal under way                         *)
  reply, got, (* what the last call has returned, and read                  *)
  status      (* "on", "off", or "broken": no promise is left                *)

vars == <<exists, file, known, open, mode, pos, todo, reply, got, status>>

Nothing == [kind |-> "none", at |-> 0, len |-> 0, done |-> 0, id |-> 0]

Bit(b) == IF b THEN 1 ELSE 0
Smaller(m, n) == IF m < n THEN m ELSE n

(* Between two calls; Stays is what only the writing calls change.           *)
Idle  == status = "on" /\ todo = Nothing
Stays == UNCHANGED <<exists, file, todo, got, status>>

Init ==
  /\ exists = FALSE /\ file = <<>> /\ known = FALSE /\ open = "none" /\ mode = 0 /\ pos = 0
  /\ todo = Nothing /\ reply = 0 /\ got = <<>> /\ status = "on"

(* Whether there is a file is answered with 0 if there is; other questions     *)
(* with 1, or not at all.                                                   *)
Look ==
  /\ Idle /\ known' = TRUE
  /\ reply' \in {Bit(~exists), Bit(exists), 1, reply}
  /\ Stays /\ UNCHANGED <<open, mode, pos>>

(* Some games are only told that their file could be created.               *)
Create ==
  /\ Idle /\ known' = TRUE /\ pos' = 0 /\ reply' = Bit(~exists)
  /\ exists' \in {exists, TRUE}
  /\ UNCHANGED <<file, open, mode, todo, got, status>>

Open ==
  /\ Idle /\ open = "none" /\ known' = TRUE /\ pos' = 0 /\ reply' = Bit(exists)
  /\ open' = IF exists THEN "save" ELSE "none"
  /\ Stays

OpenFont ==
  /\ Idle /\ open = "none" /\ open' = "font" /\ pos' = 0 /\ reply' = 1
  /\ Stays /\ UNCHANGED <<known, mode>>

Close ==
  /\ Idle /\ open # "none" /\ open' = "none" /\ pos' = 0 /\ reply' = 1
  /\ Stays /\ UNCHANGED <<known, mode>>

(* A new length keeps the cells below it, and rewinds, as does asking for it. *)
SetLength ==
  /\ Idle /\ open = "save" /\ pos' = 0 /\ reply' = 0
  /\ Len(file') <= Room
  /\ \A i \in 1..Smaller(Len(file), Len(file')) : file'[i] = file[i]
  /\ UNCHANGED <<exists, known, open, mode, todo, got, status>>

Length ==
  /\ Idle /\ open = "save" /\ pos' = 0 /\ reply' = Len(file)
  /\ Stays /\ UNCHANGED <<known, open, mode>>

Position ==
  /\ Idle /\ open # "none" /\ reply' = pos
  /\ Stays /\ UNCHANGED <<known, open, mode, pos>>

Seek ==
  /\ Idle /\ open # "none" /\ reply' = 1
  /\ Stays /\ UNCHANGED <<known, open, mode>>

(* What a call may not do is answered with -1, and at the end there is 0.     *)
Refuse ==
  /\ Idle /\ open = "save"
  /\ \/ mode \in {1, 2} /\ reply' = -1
     \/ mode # 2 /\ pos = Len(file) /\ reply' = 0
     \/ mode # 2 /\ Len(file) = 0 /\ reply' = 0
     \/ mode # 1 /\ pos >= Room /\ reply' = 0
  /\ Stays /\ UNCHANGED <<known, open, mode, pos>>

Read ==
  /\ Idle /\ open = "save" /\ mode # 2 /\ pos < Len(file)
  /\ reply' \in 1..(Len(file) - pos) /\ pos' = pos + reply'
  /\ got' = SubSeq(file, pos + 1, pos + reply')
  /\ UNCHANGED <<exists, file, known, open, mode, todo, status>>

ReadFont ==
  /\ Idle /\ open = "font"
  /\ pos' = pos + reply' /\ got' = [i \in 1..reply' |-> FontCell]
  /\ UNCHANGED <<exists, file, known, open, mode, todo, status>>

(* A write puts its cells one by one; those beyond the end of the file show   *)
(* up together, when the file gets longer.                                  *)
BeginWrite ==
  /\ Idle /\ open = "save" /\ mode # 1 /\ pos < Room
  /\ todo'.kind = "write" /\ todo'.at = pos /\ todo'.done = 0
  /\ todo'.len \in 1..(Room - pos)
  /\ UNCHANGED <<exists, file, known, open, mode, pos, reply, got, status>>

Put ==
  /\ status = "on" /\ todo.kind = "write" /\ todo.done < todo.len
  /\ todo' = [todo EXCEPT !.done = @ + 1]
  /\ file' = [i \in 1..Len(file) |->
                IF i = todo.at + todo'.done THEN todo.id ELSE file[i]]
  /\ UNCHANGED <<exists, known, open, mode, pos, reply, got, status>>

EndWrite ==
  LET end == todo.at + todo.len
  IN  /\ status = "on" /\ todo.kind = "write" /\ todo.done = todo.len
      /\ \/ end <= Len(file) /\ UNCHANGED file
         \/ end > Len(file) /\ Len(file') = end
      /\ \A i \in 1..Len(file') :
           \/ i \in (todo.at + 1)..end /\ file'[i] = todo.id
           \/ i \notin (todo.at + 1)..end /\ (i <= Len(file) => file'[i] = file[i])
      /\ pos' = end /\ reply' = todo.len /\ todo' = Nothing
      /\ UNCHANGED <<exists, known, open, mode, got, status>>

(* Nothing is removed where there is no file, or the game has not asked.      *)
NoDelete ==
  /\ Idle /\ open = "none" /\ (~exists \/ ~known)
  /\ pos' = 0 /\ reply' = 0
  /\ Stays /\ UNCHANGED <<known, open, mode>>

(* A removal empties the file first.                                        *)
Empty ==
  /\ Idle /\ open = "none" /\ pos' = 0 /\ exists
  /\ file' = <<>> /\ todo'.kind = "remove"
  /\ UNCHANGED <<exists, known, open, mode, reply, got, status>>

Remove ==
  /\ status = "on" /\ todo.kind = "remove"
  /\ exists' = FALSE /\ todo' = Nothing /\ reply' = 1
  /\ UNCHANGED <<file, known, open, mode, pos, got, status>>

(* The game starts anew; with the font open all promises are off.            *)
Restart ==
  /\ Idle /\ open' = "none"
  /\ status' = IF open = "font" THEN "broken" ELSE "on"
  /\ UNCHANGED <<exists, file, known, mode, pos, todo, reply, got>>

Cut ==
  /\ status = "on" /\ status' = "off"
  /\ UNCHANGED <<exists, file, known, open, mode, pos, todo, reply, got>>

PowerOn ==
  /\ status = "off" /\ status' = "on"
  /\ known' = FALSE /\ open' = "none" /\ mode' = 0 /\ pos' = 0 /\ todo' = Nothing
  /\ UNCHANGED <<exists, file, reply, got>>

(* A read from beyond the end of the file.                                  *)
Break ==
  /\ Idle /\ open = "save" /\ mode # 2 /\ pos > Len(file) /\ Len(file) > 0
  /\ status' = "broken"

Broken == status = "broken"

Next ==
  \/ Look \/ Create \/ Open \/ OpenFont \/ Close \/ SetLength \/ Length
  \/ Position \/ Seek \/ Refuse \/ Read \/ ReadFont \/ BeginWrite \/ Put
  \/ EndWrite \/ NoDelete \/ Empty \/ Remove \/ Restart \/ Cut \/ PowerOn
  \/ Break \/ Broken

Spec == Init /\ [][Next]_vars
=============================================================================
