------------------------------- MODULE Optional -------------------------------
(* What the program calls None: a value, a limit or a record that is not       *)
(* there.  Modules that are about one program share it.                        *)
CONSTANT None
=============================================================================
