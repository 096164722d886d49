---------------------------- MODULE MCSpecialize ----------------------------
(***************************************************************************)
(* Specialize for TLC: children are interchangeable, and only some of the  *)
(* apps are told apart by a run.                                           *)
(***************************************************************************)
EXTENDS Specialize, TLC

Symmetry == Permutations(Child)

Plain(policy) == [raw |-> policy, uid |-> policy, isolated |-> FALSE, webview |-> FALSE]
Webview       == [Plain("plain") EXCEPT !.webview = TRUE]
Isolated      == [Plain("denylist") EXCEPT !.raw = "plain", !.isolated = TRUE]

TwoApps == {Webview, Isolated}
ThreeApps == {Plain("denylist"), Plain("root"), Isolated}
=============================================================================
