------------------------------ MODULE MCCardRead ------------------------------
(***************************************************************************)
(* CardRead for TLC, in the three kinds of game the loader prepares at      *)
(* once: `kind' is chosen first and never changes.                          *)
(*   halt   the ARM7 reads in its halt hook, OS_Sleep is not known          *)
(*   ping   the ARM7 is driven by IPC 4 and 'PING'                          *)
(*   part   halt hook, OS_Sleep known, and block 1 of the ROM in RAM        *)
(* The properties are those of CardRead: none of them names the modes.      *)
(***************************************************************************)
EXTENDS CardRead

CONSTANT PingRequests   (* bound: requests in the ping kind                *)

Kinds == {"halt", "ping", "part"}

K(k) == INSTANCE CardRead WITH
  PingIpc     <- k = "ping",
  HasSleep    <- k = "part",
  Preloaded   <- IF k = "part" THEN {1} ELSE {},
  MaxRequests <- IF k = "ping" THEN PingRequests ELSE MaxRequests

VARIABLE kind

KindInit == kind \in Kinds /\ Init

At(k) == kind = k /\ kind' = k

KindCardRead == \E k \in Kinds : At(k) /\ \E r \in K(k)!Requests :
                                          K(k)!CardRead(r[1], r[2])
KindSetDma   == \E k \in Kinds : At(k) /\ \E r \in K(k)!Requests :
                                          K(k)!SetDma(r[1], r[2])
KindThread9  == \E k \in Kinds : At(k) /\ K(k)!GameThread
KindHandler9 == \E k \in Kinds : At(k) /\ K(k)!Handler9
KindHandler7 == \E k \in Kinds : At(k) /\ K(k)!Handler7
KindHalt7    == \E k \in Kinds : At(k) /\ K(k)!HaltThread
KindNdma     == \E k \in Kinds : At(k) /\ K(k)!NdmaDone
KindSd       == \E k \in Kinds : At(k) /\ K(k)!SdDone
KindVBlank   == \E k \in Kinds : At(k) /\ K(k)!VBlankSync

KindNext ==
  \/ KindCardRead \/ KindSetDma \/ KindThread9 \/ KindHandler9
  \/ KindHandler7 \/ KindHalt7 \/ KindNdma \/ KindSd \/ KindVBlank

KindFairness ==
  /\ WF_vars(KindThread9) /\ WF_vars(KindHandler9)
  /\ WF_vars(KindHandler7) /\ WF_vars(KindHalt7)
  /\ WF_vars(KindNdma) /\ WF_vars(KindSd)

KindSpec == KindInit /\ [][KindNext]_<<vars, kind>> /\ KindFairness
=============================================================================
