-------------------------- MODULE MCResourceLeases --------------------------
(***************************************************************************)
(* Two files and a directory above them, the requests made on them and two *)
(* families of child sessions for ResourceLeases.                          *)
(***************************************************************************)
EXTENDS ResourceLeases

CONSTANTS dir, x, y, p, q, c1, c2, w, r

\* The directory shares a resource with both files.
Tree == {<<i, i>> : i \in {dir, x, y}} \cup {<<dir, x>>, <<x, dir>>, <<dir, y>>, <<y, dir>>}

Read(i) == {[identity |-> i, access |-> "shared"]}
Write(i) == {[identity |-> i, access |-> "exclusive"]}

\* c1 and c2 are calls of assignment p; w and r belong to ordinary sessions.
CallsOfP == [o \in Owners |-> IF o \in {c1, c2} THEN p ELSE None]

\* Child session q descends from child session p.
QBelowP == [a \in Assignments |-> IF a = q THEN {p} ELSE {}]
NoAncestors == [a \in Assignments |-> {}]

\* p declares a file, its calls work on it and beside it.
FileRequests ==
  [o \in Owners |-> CASE o = p -> {Write(x)}
                      [] o = q -> {Read(x), Write(y)}
                      [] o = c1 -> {Read(x), Write(x)}
                      [] o = c2 -> {Write(x), Write(y)}
                      [] o = w -> {Write(x), Write(dir)}
                      [] o = r -> {{}, Read(dir), Write(y), Read(x) \cup Read(y)}]
=============================================================================
