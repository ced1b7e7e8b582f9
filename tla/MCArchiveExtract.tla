-------------------------- MODULE MCArchiveExtract --------------------------
(* Archives of up to MaxLength entries around every limit.  Data may be    *)
(* more than an entry declares, within the limit of a file and beyond.     *)
EXTENDS ArchiveExtract

CONSTANTS r1, r2, x, y

Plain(path, dir, declared, data) ==
  [path |-> path, spelling |-> "plain", dir |-> dir, size |-> declared,
   data |-> data, fault |-> "none"]

With(f, fault) == [f EXCEPT !.fault = fault]

Entries ==
  LET small == Plain(<<r1, x>>, FALSE, 1, 1)
  IN  {Plain(<<r1>>, TRUE, 0, 0), Plain(<<r1, x>>, TRUE, 0, 0),
       small, [small EXCEPT !.spelling = "dotted"],
       Plain(<<r1, x>>, FALSE, 3, 3), Plain(<<r1, x, y>>, FALSE, 2, 2),
       Plain(<<r1, y>>, FALSE, 2, 2), Plain(<<r1, y>>, FALSE, 1, 3),
       Plain(<<r1, y>>, FALSE, 0, 2),
       Plain(<<r2, x>>, FALSE, 1, 1),
       With(small, "encrypted"), With(small, "path"), With(small, "kind")}
=============================================================================
