------------------------------- MODULE MCFatFile -------------------------------
EXTENDS FatFile

(* Fragmented, contiguous and descending chains, side by side and entangled. *)
FourClusters == {
  [rom |-> <<1, 2, 3>>, sav |-> <<4>>],
  [rom |-> <<1, 2, 4>>, sav |-> <<3>>],
  [rom |-> <<2, 4, 3>>, sav |-> <<1>>],
  [rom |-> <<4, 1, 2>>, sav |-> <<3>>],
  [rom |-> <<3>>,       sav |-> <<1, 4>>]}

ThreeClusters == {
  [rom |-> <<1>>, sav |-> <<2>>],
  [rom |-> <<3>>, sav |-> <<1, 2>>],
  [rom |-> <<2>>, sav |-> <<3, 1>>]}

(* One call on clusters of two sectors, three on clusters of one.            *)
LayoutsOf == <<ThreeClusters, FourClusters>>
CallsOf   == <<3, 1>>
=============================================================================
