------------------------------ MODULE BlockDevice ------------------------------
(***************************************************************************)
(* What homebrew expects of a DLDI driver (readSectors and writeSectors of    *)
(* the libnds disc interface): sectors are read and written by one call at a  *)
(* time, and a call that returns true has moved all of its sectors.          *)
(***************************************************************************)
EXTENDS Integers, Sequences

CONSTANT NSectors   (* sectors of the card                                 *)

Sector == 0..NSectors-1

VARIABLES
  disc,      (* what each sector holds: <<call that wrote it, place in it>>    *)
  job,       (* the call under way, or the last one                          *)
  busy,      (* it has not returned                                         *)
  got,       (* what a read has delivered, in order                          *)
  reply,     (* what the last call returned                                  *)
  broken     (* a transfer of the card has failed: no promise is left         *)

vars == <<disc, job, busy, got, reply, broken>>

(* The sectors of a call, and what a write puts in one of them.             *)
Extent(j)  == j.sector .. j.sector + j.num - 1
Cell(j, x) == <<j.id, x - j.sector>>

Jobs == [kind : {"read", "write"}, sector : Sector, num : Nat \ {0}, id : Nat]

Init ==
  /\ disc = [x \in Sector |-> <<0, x>>]
  /\ job = [kind |-> "read", sector |-> 0, num |-> 1, id |-> 0]
  /\ busy = FALSE /\ got = <<>> /\ reply = FALSE /\ broken = FALSE

Call ==
  /\ ~busy /\ busy' = TRUE /\ got' = <<>>
  /\ job' \in Jobs /\ Extent(job') \subseteq Sector /\ job'.id = job.id + 1
  /\ UNCHANGED <<disc, reply, broken>>

(* The next sectors of a read arrive.                                       *)
ReadOn ==
  /\ busy /\ job.kind = "read"
  /\ \E n \in 1 .. job.num - Len(got) :
       got' = got \o [i \in 1..n |-> disc[job.sector + Len(got) + i - 1]]
  /\ UNCHANGED <<disc, job, busy, reply, broken>>

(* Some sectors of a write reach the card.                                  *)
WriteOn ==
  /\ busy /\ job.kind = "write"
  /\ \E some \in SUBSET Extent(job) :
       disc' = [x \in Sector |-> IF x \in some THEN Cell(job, x) ELSE disc[x]]
  /\ UNCHANGED <<job, busy, got, reply, broken>>

Complete ==
  IF job.kind = "read" THEN Len(got) = job.num
  ELSE \A x \in Extent(job) : disc[x] = Cell(job, x)

Return ==
  /\ busy /\ busy' = FALSE
  /\ reply' \in BOOLEAN /\ (reply' => Complete)
  /\ UNCHANGED <<disc, job, got, broken>>

(* A transfer fails. From there on anything may be returned.                *)
Break  == busy /\ broken' = TRUE
Broken == broken /\ broken' = TRUE

Next == Broken \/ (~broken /\ (Call \/ ReadOn \/ WriteOn \/ Return \/ Break))

Spec == Init /\ [][Next]_vars
================================================================================
