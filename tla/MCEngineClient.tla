--------------------------- MODULE MCEngineClient ---------------------------
EXTENDS EngineClient

(* A bound on the commands: a list by default and one over the server's    *)
(* maximum, registrations and deletions live and dry, a patch, a read, and *)
(* one whose input is wrong, which is all alike.                           *)
FewCommands ==
  { c \in Commands :
      IF ~c.valid THEN c.op = "register" /\ ~c.dry
      ELSE (c.op = "list" => c.limit # 1) /\ (c.op = "patch" => ~c.dry) }
=============================================================================
