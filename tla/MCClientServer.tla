--------------------------- MODULE MCClientServer ---------------------------
(***************************************************************************)
(* An instance of ClientServer for TLC: a server with a method of each     *)
(* type, of which the client calls one.                                    *)
(***************************************************************************)
EXTENDS DeliveryInvariant, TLC

CONSTANTS r1, r2, r3, r4, r5, m1, m2, m3, m4, c1, s1

AllTypes == m1 :> "NORMAL_RPC" @@ m2 :> "CLIENT_STREAMING" @@
            m3 :> "SERVER_STREAMING" @@ m4 :> "BIDI_STREAMING"

OneService == [m \in Methods |-> s1]
=============================================================================
