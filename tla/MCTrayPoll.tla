----------------------------- MODULE MCTrayPoll -----------------------------
(* TrayPoll with two sources: one with a critical alert and a warning, the *)
(* other with a high one.                                                  *)
EXTENDS TrayPoll, TLC

CONSTANTS s1, s2, a1, a2, b1

MCSources == {s1, s2}
MCAlerts == {a1, a2, b1}
MCSourceOf == (a1 :> s1) @@ (a2 :> s1) @@ (b1 :> s2)
MCSeverity == (a1 :> "critical") @@ (a2 :> "warning") @@ (b1 :> "high")
=============================================================================
