--------------------------- MODULE MCServerConsole ---------------------------
(* ServerConsole with a file that can be opened and one that cannot. *)
EXTENDS ServerConsole

MCNames   == {"a.txt", "b.txt"}
MCMissing == {"b.txt"}
=============================================================================
