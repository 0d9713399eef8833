---------------------------- MODULE MCNeedLinks ----------------------------
(* All graphs over four elements, one of them without a file.  Depth 2 is  *)
(* the default of the program and the first at which the order of the walk *)
(* matters; four elements allow a path of two links, a shorter one to its  *)
(* end, and an element behind it.  A build with the files of two of them is *)
(* one that depth 2 is enough for.                                         *)
EXTENDS NeedLinks

FourNeeds == {"root", "a", "b", "c"}

OneMissing == {"c"}
=============================================================================
