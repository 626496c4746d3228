--------------------------- MODULE MCToolScheduler ---------------------------
(***************************************************************************)
(* Calls of two runs, one of them a child run with a declared file, and a  *)
(* tool with a limit, for ToolScheduler.                                   *)
(***************************************************************************)
EXTENDS ToolScheduler

CONSTANTS x, p, c1, c2, w, r, child, parent, tool

Same == {<<x, x>>}

Read(i) == {[identity |-> i, access |-> "shared"]}
Write(i) == {[identity |-> i, access |-> "exclusive"]}

\* c1 is a call of assignment p; the others belong to an ordinary session.
CallsOfP == [o \in Owners |-> IF o = c1 THEN p ELSE None]
NoAncestors == [a \in Assignments |-> {}]

FileRequests ==
  [o \in Owners |-> CASE o \in {p, c1, w} -> {Write(x)}
                      [] OTHER -> {{}, Read(x)}]

RunGates == [c \in Calls |-> IF c = c1 THEN child ELSE parent]

\* The tool with a limit is called from both runs.
ToolGates == [c \in Calls |-> IF c \in {c1, r} THEN tool ELSE None]
Limits == [g \in {child, parent, tool} |-> IF g = tool THEN 1 ELSE 2]
=============================================================================
