--------------------------- MODULE MCScpTransfer ---------------------------
(* A small instance of ScpTransfer: a directory with a file of two bytes, a     *)
(* subdirectory with an empty file and a symbolic link; any of them may be the  *)
(* argument, and so may a directory called ".".                                 *)
EXTENDS ScpTransfer

MCKind ==
  (<<"d">> :> "dir") @@ (<<"d", "f">> :> "file") @@ (<<"d", "s">> :> "dir")
  @@ (<<"d", "s", "g">> :> "file") @@ (<<"d", "l">> :> "other") @@ (<<".">> :> "dir")
MCSize == (<<"d", "f">> :> 2) @@ (<<"d", "s", "g">> :> 0)
MCBadNames == {"."}
MCTargets == {"dir", "file", "absent"}
=============================================================================
