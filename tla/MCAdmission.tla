---------------------------- MODULE MCAdmission -----------------------------
(***************************************************************************)
(* An instance of Admission: two handshakes of one client and one of       *)
(* another, two of them with tokens of one session.                        *)
(***************************************************************************)
EXTENDS Admission, TLC

CONSTANTS p1, p2, p3, ann, bob, x1, x2

MCClientOf == (p1 :> ann) @@ (p2 :> ann) @@ (p3 :> bob)
MCSessionOf == (p1 :> x1) @@ (p2 :> x2) @@ (p3 :> x1)
=============================================================================
