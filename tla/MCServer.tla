------------------------------ MODULE MCServer ------------------------------
(***************************************************************************)
(* Instances of the server for TLC.                                        *)
(***************************************************************************)
EXTENDS CallInvariant, TLC

CONSTANTS r1, r2, r3, m1, m2, c1, c2, s1, s2, w1

\* Rpc identities are interchangeable.
Symmetry == Permutations(Rpcs)

Unary == m1 :> "NORMAL_RPC"
ServerStreaming == m1 :> "SERVER_STREAMING"
Bidi == m1 :> "BIDI_STREAMING"
UnaryAndClientStreaming == m1 :> "NORMAL_RPC" @@ m2 :> "CLIENT_STREAMING"

OneService == m1 :> s1
TwoServices == m1 :> s1 @@ m2 :> s2
=============================================================================
