---------------------------- MODULE MCCodecServer ---------------------------
(***************************************************************************)
(* Instances of the codec server for TLC.                                  *)
(***************************************************************************)
EXTENDS CodecRefinement

CONSTANTS small, odd, big, huge     \* payloads

MCOneContext == {[ns |-> <<"ns">>, wf |-> <<"a">>, run |-> <<"r">>]}

(* Two contexts whose object keys coincide: "a" + "b/r" and "a/b" + "r".   *)
MCContext == {[ns |-> <<"ns">>, wf |-> <<"a">>, run |-> <<"b", "r">>],
              [ns |-> <<"ns">>, wf |-> <<"a", "b">>, run |-> <<"r">>]}

MCPlain == {small, big, huge}
MCSmallOnEdge == {small, odd, big}
MCLarge == {big, huge}
MCMalformed == {odd}
MCNoMalformed == {}

(* Sizes below the threshold, on it and above it.                          *)
MCSize == [p \in Plain |-> CASE p \in {small, odd} -> 1
                             [] p = big -> 2
                             [] p = huge -> 3]
MCThreshold == 2

(* A payload with several metadata entries has several serialisations.     *)
MCMarshal == [p \in Plain |-> CASE p = small -> {"s"}
                                [] p = odd -> {"o"}
                                [] p = big -> {"b1", "b2"}
                                [] p = huge -> {"h"}]

(* One with a single metadata entry has one.                               *)
MCOneMarshal == [p \in Plain |-> MCMarshal[p] \ {"b2"}]

MCData == UNION {MCMarshal[p] : p \in Plain}
MCHash == [d \in MCData |-> d]
MCSegment == MCData \cup {"ns", "a", "b", "r"}

(* Requests are alike, and so are replicas.                                *)
MCSymmetry == Permutations(Request) \cup Permutations(Server)
=============================================================================
