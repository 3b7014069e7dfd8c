------------------------- MODULE MCDeveloperConsole -------------------------
(* Small instances of the developer console. *)
EXTENDS DeveloperConsole
=============================================================================
