-------------------------- MODULE MCAlertProvision --------------------------
(* AlertProvision with two groups in two folders: one holds two rules.     *)
EXTENDS AlertProvision, TLC

CONSTANTS u1, u2, u3, g1, g2

MCUids == {u1, u2, u3}
MCGroups == {g1, g2}
MCGroupOf == (u1 :> g1) @@ (u2 :> g1) @@ (u3 :> g2)
MCFolderOf == (g1 :> "hardware") @@ (g2 :> "network")
MCFolders == {"hardware", "network"}

(* A smaller instance: a group of one rule each. *)
MCUidsTwo == {u1, u3}
MCGroupOfTwo == (u1 :> g1) @@ (u3 :> g2)

(* The uids of one group, and the bodies, are interchangeable.             *)
MCSymmetry == Permutations({u1, u2}) \cup Permutations(Bodies)
=============================================================================
