------------------------------ MODULE MCStore -------------------------------
(***************************************************************************)
(* Store on three fingerprints, two of which are one announcement.         *)
(***************************************************************************)
EXTENDS Store

CONSTANTS f1, f2, f3

MCFps == {f1, f2, f3}
MCTitleOf == (f1 :> f1 @@ f2 :> f1 @@ f3 :> f3)
MCStrong == {f2, f3}

MCTwoFps == {f1, f2}
MCOneTitle == (f1 :> f1 @@ f2 :> f1)
MCTwoStrong == {f2}
=============================================================================
