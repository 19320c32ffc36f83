------------------------------- MODULE MCRest -------------------------------
(* TLC instance of Rest: the download alone, over a few connections.       *)
EXTENDS Rest
=============================================================================
