----------------------------- MODULE MCPatchCache -----------------------------
(* The instance: every pair of save patches of an own and a donor's program, of   *)
(* which only the own has the function for a pulled card; every ARM9 program; a   *)
(* program without the function for the card's interrupt; DSiWare; either card; no  *)
(* files, with and without a card read.                                      *)
EXTENDS PatchCache

Own(s)    == [irq |-> TRUE, pull |-> TRUE,  save |-> s]
Donors(s) == [irq |-> TRUE, pull |-> FALSE, save |-> s]
Bare      == [irq |-> FALSE, pull |-> FALSE, save |-> "none"]

Pair(a, b) == [p \in Programs |-> IF p = "own" THEN a ELSE b]

One9 == [read |-> "type0", pulls |-> {"type0"}, dma |-> {"cardReadDma"}]

Game(d, f, a, b, nine) ==
  [dsiWare |-> d, onFlashcard |-> f, fat |-> TRUE, arm7 |-> Pair(a, b), arm9 |-> nine]

MCGames ==
  {Game(FALSE, FALSE, Own(s), Donors(t), One9) : s, t \in Saves}
  \cup {Game(d, f, Own("v1"), b, One9) : d, f \in BOOLEAN, b \in {Donors("v1"), Bare}}
  \cup {Game(FALSE, f, Own("v1"), Donors("v2"), nine) : f \in BOOLEAN, nine \in Arm9Type}
  \cup {[Game(FALSE, f, Own("v1"), Donors("v2"), nine) EXCEPT !.fat = FALSE] :
          f \in BOOLEAN, nine \in [read : {"none", "type1"}, pulls : {{"type1"}}, dma : SUBSET {"sleep", "cardReadDma"}]}

MCSettings == SettingsType

=============================================================================
