-------------------------- MODULE MCVerifiedCache --------------------------
(* Values of VerifiedCache's constants for TLC. *)
EXTENDS VerifiedCache, TLC

CONSTANTS r1, r2, c1, c2, m1, v1, v2, testsFail, timeOut

MCRuntimeOf == c1 :> r1 @@ c2 :> r2
MCCurrent == [r \in Runtimes |-> Metas]
MCProofs ==
    {[required |-> {"test"}, completed |-> {"test"}, failed |-> {}],
     [required |-> {"test"}, completed |-> {"test"}, failed |-> {"test"}]}
MCSensitive == {m1}
=============================================================================
