------------------------------ MODULE MCSystem ------------------------------
(***************************************************************************)
(* Instances of the whole for TLC.                                         *)
(***************************************************************************)
EXTENDS System

CONSTANTS big

MCContext == {[ns |-> <<"ns">>, wf |-> <<"a">>, run |-> <<"r">>]}
MCPlain == {big}
MCSize == [p \in Plain |-> 2]
MCMarshal == [p \in Plain |-> {"b"}]
MCData == {"b"}
MCHash == [d \in MCData |-> d]
MCSegment == {"ns", "a", "b", "r"}
=============================================================================
