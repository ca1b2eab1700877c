--------------------------- MODULE IssuerRegister ---------------------------
(***************************************************************************)
(* What the issuer service promises its clients: every request takes       *)
(* effect, or is refused for a reason that is true, at one instant between *)
(* its call and its answer; a refused request, a dry run and a fault leave *)
(* the table alone; and a taken identifier is always reported as such.     *)
(***************************************************************************)
EXTENDS IssuerRows

VARIABLES rows, request, answer

vars == <<rows, request, answer>>

Init ==
  /\ rows = NoRows
  /\ request = [c \in Clients |-> NoRequest]
  /\ answer = [c \in Clients |-> NoAnswer]

Ask(c, r) ==
  /\ request[c] = NoRequest
  /\ request' = [request EXCEPT ![c] = r]
  /\ answer' = [answer EXCEPT ![c] = IF Buildable(r) THEN NoAnswer ELSE Answer("invalid")]
  /\ UNCHANGED rows

Pending(c) == request[c] # NoRequest /\ answer[c] = NoAnswer

Reply(c, a) ==
  /\ Pending(c)
  /\ answer' = [answer EXCEPT ![c] = a]
  /\ UNCHANGED request

(* Some request gives its row this value, unless it is a dry run. *)
Store(r, row) == rows' = IF r.dry THEN rows ELSE [rows EXCEPT ![r.id] = row]

SetsKeys(r) == r.op \in {"register", "patch"}
KeysFree(r) == ~CnpjTaken(rows, r.cnpj) /\ ~LeiTaken(rows, r.lei)

Read(c) ==
  LET r == request[c] IN
  /\ r.op = "get"
  /\ Reply(c, IF rows[r.id] = Absent THEN Answer("absent") ELSE Found(rows[r.id]))
  /\ UNCHANGED rows

RefuseKeys(c) ==
  LET r == request[c] IN
  /\ SetsKeys(r)
  /\ \/ CnpjTaken(rows, r.cnpj) /\ Reply(c, Answer("cnpj_exists"))
     \/ /\ ~CnpjTaken(rows, r.cnpj)
        /\ LeiTaken(rows, r.lei)
        /\ Reply(c, Answer("lei_exists"))
  /\ UNCHANGED rows

RefuseVersion(c) ==
  LET r == request[c] IN
  /\ r.op \in {"patch", "delete"}
  /\ r.op = "patch" => KeysFree(r)
  /\ \/ rows[r.id] = Absent /\ Reply(c, Answer("missing"))
     \/ /\ rows[r.id] # Absent
        /\ rows[r.id].version # r.expected
        /\ Reply(c, Mismatch(rows[r.id]))
  /\ UNCHANGED rows

Register(c) ==
  LET r == request[c] IN
  /\ r.op = "register"
  /\ KeysFree(r)
  /\ rows[r.id] = Absent
  /\ Store(r, Built(r))
  /\ Reply(c, Answer("registered"))

Patch(c) ==
  LET r == request[c] IN
  /\ r.op = "patch"
  /\ KeysFree(r)
  /\ rows[r.id].version = r.expected
  /\ IF CheckHolds(Patched(rows[r.id], r))
     THEN Store(r, Patched(rows[r.id], r)) /\ Reply(c, Answer("applied"))
     ELSE UNCHANGED rows /\ Reply(c, Answer("check"))

Delete(c) ==
  LET r == request[c] IN
  /\ r.op = "delete"
  /\ rows[r.id].version = r.expected
  /\ Store(r, Absent)
  /\ Reply(c, Answer("applied"))

Fail(c) == Reply(c, Answer("fault")) /\ UNCHANGED rows

Leave(c) ==
  /\ answer[c] # NoAnswer
  /\ request' = [request EXCEPT ![c] = NoRequest]
  /\ answer' = [answer EXCEPT ![c] = NoAnswer]
  /\ UNCHANGED rows

Next ==
  \E c \in Clients :
    \/ \E r \in Asked : Ask(c, r)
    \/ Read(c) \/ RefuseKeys(c) \/ RefuseVersion(c)
    \/ Register(c) \/ Patch(c) \/ Delete(c)
    \/ Fail(c) \/ Leave(c)

Spec == Init /\ [][Next]_vars

=============================================================================
