------------------------------ MODULE MCCleanup -----------------------------
(***************************************************************************)
(* Instances of the cleanup worker for TLC.                                *)
(***************************************************************************)
EXTENDS Cleanup

Run(wf, run) == [ns |-> <<"ns">>, wf |-> wf, run |-> <<run>>]

(* Two runs of one workflow id.                                            *)
MCTwoRuns == {Run(<<"a">>, "r1"), Run(<<"a">>, "r2")}

(* Two workflow ids, one of which contains the other and a slash.          *)
MCNested == {Run(<<"a">>, "r1"), Run(<<"a", "b">>, "r2")}

(* Two workflow ids that have nothing in common.                           *)
MCApart == {Run(<<"a">>, "r1"), Run(<<"b">>, "r2")}

MCData == {"d1", "d2"}
MCOneData == {"d1"}
MCHash == [d \in Data |-> d]
MCSegment == {"ns", "a", "b", "r1", "r2", "d1", "d2"}
=============================================================================
