----------------------------- MODULE MCDirectory -----------------------------
(***************************************************************************)
(* A directory for TLC: d/f, a link to a file, a read-only file q, a       *)
(* read-only directory r with r/f, and a file with two dots in its name.   *)
(* One link leads to a directory.                                          *)
(***************************************************************************)
EXTENDS Directory

CONSTANTS d, df, k, l, q, r, rf, x

MCOrder == <<d, df, k, l, q, r, rf, x>>
MCParent ==
  [e \in Entries |-> CASE e = df -> d [] e = rf -> r [] OTHER -> Root]
MCKind ==
  [e \in Entries |-> CASE e \in {d, r} -> "dir" [] e = l -> "link"
                       [] e = k -> "dirlink" [] OTHER -> "file"]
MCDotted == {x}
MCReadOnly == {q, r}
=============================================================================
