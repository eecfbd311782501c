------------------------------ MODULE RomService ------------------------------
(***************************************************************************)
(* What the card engine promises a game: requests for runs of ROM blocks,   *)
(* one at a time, each answered in full, in order, and reported once.       *)
(***************************************************************************)
EXTENDS Integers, Sequences

CONSTANTS
  NSectors,    (* blocks of the ROM: 1..NSectors.                           *)
  MaxRequests, (* bound: requests the game issues.                          *)
  MaxBlocks,   (* bound: blocks of one request.                             *)
  Content(_)   (* what a block's bytes are.                                 *)

VARIABLES first, want, out, busy, issued, done

vars == <<first, want, out, busy, issued, done>>

Init ==
  /\ first = 1 /\ want = 0 /\ out = <<>>
  /\ busy = FALSE /\ issued = 0 /\ done = 0

(* The game asks for n blocks from block b on.                              *)
Request(b, n) ==
  /\ ~busy /\ issued < MaxRequests
  /\ b + n - 1 <= NSectors
  /\ first' = b /\ want' = n /\ out' = <<>>
  /\ busy' = TRUE
  /\ issued' = issued + 1
  /\ UNCHANGED done

(* Some of the blocks still missing, none included, reach the buffer; once  *)
(* all are there the same step may tell the game.                           *)
Serve ==
  /\ busy
  /\ \E k \in Len(out)..want : out' = [i \in 1..k |-> Content(first + i - 1)]
  /\ \/ UNCHANGED <<busy, done>>
     \/ Len(out') = want /\ busy' = FALSE /\ done' = done + 1
  /\ UNCHANGED <<first, want, issued>>

Next == Serve \/ \E b \in 1..NSectors, n \in 1..MaxBlocks : Request(b, n)

Spec == Init /\ [][Next]_vars
=============================================================================
