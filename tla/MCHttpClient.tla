---------------------------- MODULE MCHttpClient ----------------------------
(***************************************************************************)
(* Three collectors of one host and one of another; deadlines that end in  *)
(* the queue, in a pause and during a request.                             *)
(***************************************************************************)
EXTENDS HttpClient, TLC

CONSTANTS a, b, c, d, shared, own

MCHostOf == (a :> shared) @@ (b :> shared) @@ (c :> shared) @@ (d :> own)
MCBegins == (a :> 0) @@ (b :> 0) @@ (c :> 1) @@ (d :> 0)
MCDeadline == (a :> 12) @@ (b :> 8) @@ (c :> 2) @@ (d :> 5)
=============================================================================
