------------------------------ MODULE BackupChip ------------------------------
(***************************************************************************)
(* What a game expects of its save memory: an array of Size cells whose      *)
(* addresses wrap around, read and written cell by cell.  When the console   *)
(* is taken down in an orderly way no write is cut short.                   *)
(***************************************************************************)
EXTENDS Integers, Sequences

CONSTANT Size

VARIABLES
  mem,      (* the cells; a cell holds the number of the write that set it  *)
  job,      (* the access under way                                         *)
  got,      (* the cells that the last read has returned so far             *)
  power     (* "on", "clean" (taken down in an orderly way) or "cut"         *)

vars == <<mem, job, got, power>>

Cells  == 0..(Size - 1)
Closed == [open |-> FALSE, kind |-> "read", dst |-> 0, len |-> 0, id |-> 0, pos |-> 0]

Init ==
  /\ mem = [a \in Cells |-> 0]
  /\ job = Closed /\ got = <<>> /\ power = "on"

Begin ==
  /\ ~job.open /\ power = "on"
  /\ job'.open /\ job'.pos = 0
  /\ got' = <<>>
  /\ UNCHANGED <<mem, power>>

Access ==
  LET a == (job.dst + job.pos) % Size
  IN  /\ job.open /\ power = "on" /\ job.pos < job.len
      /\ job' = [job EXCEPT !.pos = @ + 1]
      /\ \/ job.kind = "read"  /\ got' = Append(got, mem[a]) /\ UNCHANGED mem
         \/ job.kind = "write" /\ mem' = [mem EXCEPT ![a] = job.id] /\ UNCHANGED got
      /\ UNCHANGED power

End ==
  /\ job.open /\ power = "on" /\ job.pos = job.len
  /\ job' = Closed
  /\ UNCHANGED <<mem, got, power>>

(* The game has been restarted, or left, between two writes.                *)
Shutdown ==
  /\ power = "on" /\ (job.open => job.kind = "read" \/ job.pos = job.len)
  /\ power' = "clean"
  /\ UNCHANGED <<mem, job, got>>

(* The power button, or the combination that leaves the game at once.        *)
Cut == power = "on" /\ power' = "cut" /\ UNCHANGED <<mem, job, got>>

Next == Begin \/ Access \/ End \/ Shutdown \/ Cut

Spec == Init /\ [][Next]_vars
=============================================================================
