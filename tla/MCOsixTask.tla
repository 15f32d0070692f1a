----------------------------- MODULE MCOsixTask -----------------------------
(***************************************************************************)
(* TLC instances of OsixTask: which caller makes which calls.              *)
(***************************************************************************)
EXTENDS OsixTask, TLC

CONSTANTS c1, c2, a, b, d

Symm == Permutations(Threads)

(* Two threads create, each under names of its own; one of them deletes,   *)
(* the other sends.                                                        *)
OwnNames ==
  {c1} \X {"create", "delete"} \X {a} \cup {c2} \X {"create"} \X {b, d}
  \cup {<<c2, "send", a>>}

(* Two threads create under one name.                                      *)
CreateSame == Callers \X {"create"} \X {a}

(* Every task has a thread of its own that creates and deletes it.         *)
ManageOwn == {c1} \X {"create", "delete"} \X {a} \cup {c2} \X {"create", "delete"} \X {b}

(* One thread creates and deletes while the other sends events.            *)
SendAndManage == {c1} \X {"create", "delete"} \X {a, b} \cup {<<c2, "send", a>>}
=============================================================================
