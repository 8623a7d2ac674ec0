------------------------------- MODULE MCNvidia -------------------------------
(* The power situations of the runs of Nvidia.                                 *)
EXTENDS Nvidia, TLC

Mains(runtime, low) == [onBattery |-> FALSE, runtime |-> runtime, low |-> low]
Battery(runtime, low) == [onBattery |-> TRUE, runtime |-> runtime, low |-> low]

Usual == [pct |-> 70, floor |-> 300, onBattery |-> FALSE]
Eager == [pct |-> 10, floor |-> 0, onBattery |-> TRUE]

Feeds(a, b) == ("a" :> a) @@ ("b" :> b)

TheGrids ==
  { [feeds |-> Feeds(Mains(100, TRUE), Mains(900, FALSE)), policy |-> Eager],
    [feeds |-> Feeds(Mains(100, FALSE), Battery(900, FALSE)), policy |-> Usual],
    [feeds |-> Feeds(Battery(None, FALSE), Battery(300, FALSE)), policy |-> Usual],
    [feeds |-> Feeds(Mains(900, FALSE), Battery(900, FALSE)), policy |-> Eager] }
=============================================================================
