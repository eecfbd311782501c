-------------------------------- MODULE ByteFile --------------------------------
(***************************************************************************)
(* What the FAT driver promises its callers: files are arrays of bytes, and *)
(* a call moves the bytes of its range, in order, between its file and the   *)
(* caller's buffer.  Two calls can be open at once: an ordinary one, and one *)
(* that is polled to its end.                                               *)
(***************************************************************************)
EXTENDS Integers, Sequences

CONSTANTS
  Channel,        (* the ordinary call and the polled one                   *)
  Fresh(_, _, _)  (* the byte that call number n writes to a file's offset  *)

VARIABLES
  content,        (* the bytes of each file, from offset 0                  *)
  req,            (* the call of each channel                               *)
  got             (* the bytes each channel's read has returned             *)

vars == <<content, req, got>>

Init ==
  /\ \A c \in Channel : ~req[c].open /\ got[c] = <<>>

(* Call r of channel c moves its bytes from the from-th up to the to-th.     *)
Move(c, r, from, to) ==
  /\ req' = [req EXCEPT ![c] = [r EXCEPT !.pos = to]]
  /\ \/ /\ r.kind = "read"
        /\ got' = [got EXCEPT ![c] = (IF from = 0 THEN <<>> ELSE @) \o
             [i \in 1..(to - from) |-> content[r.file][r.start + from + i - 1]]]
        /\ UNCHANGED content
     \/ /\ r.kind = "write"
        /\ content' = [content EXCEPT ![r.file] = [o \in DOMAIN @ |->
             IF o - r.start \in from..(to - 1) THEN Fresh(r.file, o, r.id)
                                               ELSE @[o]]]
        /\ got' = [got EXCEPT ![c] = <<>>]

(* A call is accepted when its channel is free and its range in the file.   *)
Begin(c) ==
  /\ ~req[c].open
  /\ req'[c].open
  /\ req'[c].start \in DOMAIN content[req'[c].file]
  /\ req'[c].start + req'[c].len - 1 \in DOMAIN content[req'[c].file] \cup {req'[c].start - 1}
  /\ req'[c].pos \in 0..req'[c].len
  /\ Move(c, req'[c], 0, req'[c].pos)

Continue(c) ==
  /\ req[c].open
  /\ \E to \in req[c].pos..req[c].len : Move(c, req[c], req[c].pos, to)

(* A call returns once all its bytes have moved.                            *)
Return(c) ==
  /\ req[c].open /\ req[c].pos = req[c].len
  /\ req' = [req EXCEPT ![c].open = FALSE]
  /\ UNCHANGED <<content, got>>

Next == \E c \in Channel : Begin(c) \/ Continue(c) \/ Return(c)

Spec == Init /\ [][Next]_vars
=============================================================================
