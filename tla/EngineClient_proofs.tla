------------------------ MODULE EngineClient_proofs -------------------------
(***************************************************************************)
(* Theorems about EngineClient, for any numbers of issuers and securities, *)
(* any page sizes, protocols and commands.  IndInv has four parts: what    *)
(* the tables hold, what a command has done so far (EffectInv), how far a  *)
(* walk has come (WalkInv), and what an eager read has seen (ReadInv).     *)
(***************************************************************************)
EXTENDS EngineClient, FiniteSetTheorems, TLAPS

-----------------------------------------------------------------------------
(* Finite sets of numbers.                                                 *)

(* The numbers of S up to i count the place of i in S.                     *)
Rank(S, i) == Cardinality({ j \in S : j <= i })

LEMMA RankBounds ==
  ASSUME NEW S \in SUBSET Nat, IsFiniteSet(S), NEW i \in S
  PROVE  Rank(S, i) \in 1..Cardinality(S)
<1> DEFINE B == { j \in S : j <= i }
<1>1. IsFiniteSet(B) /\ Cardinality(B) <= Cardinality(S)
  BY FS_Subset
<1>2. B # {}
  OBVIOUS
<1>3. Cardinality(B) \in Nat /\ Cardinality(B) # 0 /\ Cardinality(S) \in Nat
  BY <1>1, <1>2, FS_EmptySet, FS_CardinalityType
<1> QED BY <1>1, <1>3 DEF Rank

LEMMA RankGrows ==
  ASSUME NEW S \in SUBSET Nat, IsFiniteSet(S), NEW i \in S, NEW j \in S, i < j
  PROVE  Rank(S, i) < Rank(S, j)
<1> DEFINE B == { k \in S : k <= i }
           C == { k \in S : k <= j }
<1>1. IsFiniteSet(C)
  BY FS_Subset
<1>2. B \in SUBSET C /\ j \in C /\ j \notin B
  <2>1. \A k \in S : k <= i => k <= j
    OBVIOUS
  <2>2. j <= j /\ ~(j <= i)
    OBVIOUS
  <2> QED BY <2>1, <2>2
<1>3. Cardinality(B) <= Cardinality(C) /\ Cardinality(B) # Cardinality(C)
  BY <1>1, <1>2, FS_Subset
<1>4. Cardinality(B) \in Nat /\ Cardinality(C) \in Nat
  BY <1>1, <1>2, FS_Subset, FS_CardinalityType
<1> QED BY <1>3, <1>4 DEF Rank

(* The ranks number the elements, so a finite set has an order.            *)
LEMMA OrderExists ==
  ASSUME NEW S \in SUBSET Nat, IsFiniteSet(S)
  PROVE  \E s \in SetToSeqs(S) : \A m, n \in DOMAIN s : m < n => s[m] < s[n]
<1> DEFINE D == 1..Cardinality(S)
           rank == [i \in S |-> Rank(S, i)]
<1>1. Cardinality(S) \in Nat
  BY FS_CardinalityType
<1>2. rank \in [S -> D]
  BY RankBounds
<1>3. \A i, j \in S : i # j => rank[i] # rank[j]
  <2> SUFFICES ASSUME NEW i \in S, NEW j \in S, i < j PROVE rank[i] # rank[j]
    OBVIOUS
  <2>1. rank[i] < rank[j] /\ rank[i] \in Nat /\ rank[j] \in Nat
    BY <1>1, <1>2, RankGrows
  <2> QED BY <2>1
<1>4. rank \in Injection(S, D)
  BY <1>2, <1>3 DEF Injection, IsInjective
<1>5. IsFiniteSet(D) /\ Cardinality(D) = Cardinality(S)
  BY <1>1, FS_Interval
<1>6. rank \in Surjection(S, D)
  BY <1>4, <1>5, FS_Injection
<1>7. \A n \in D : \E i \in S : rank[i] = n
  BY <1>6 DEF Surjection
<1> DEFINE s == [n \in D |-> CHOOSE i \in S : rank[i] = n]
<1>8. \A n \in D : s[n] \in S /\ rank[s[n]] = n
  BY <1>7
<1>9. s \in [D -> S]
  BY <1>8
<1>0. \A i, j \in S : i < j => rank[i] < rank[j]
  BY RankGrows
<1> HIDE DEF s, D, rank
<1>10. ASSUME NEW m \in D, NEW n \in D, m < n PROVE s[m] < s[n]
  <2>1. rank[s[m]] = m /\ rank[s[n]] = n /\ s[m] \in S /\ s[n] \in S
    BY <1>8
  <2>2. m \in Nat /\ n \in Nat
    BY <1>1 DEF D
  <2>3. ~(s[n] < s[m])
    <3>1. ASSUME s[n] < s[m] PROVE n < m
      BY <1>0, <2>1, <3>1
    <3> QED BY <1>10, <2>2, <3>1
  <2>4. s[m] \in Nat /\ s[n] \in Nat
    BY <2>1
  <2>5. m # n
    BY <1>10, <2>2
  <2>6. s[m] # s[n]
    BY <2>1, <2>5
  <2> QED BY <2>3, <2>4, <2>6
<1>11. \A m, n \in D : m # n => s[m] # s[n]
  BY <1>8
<1>12. s \in SetToSeqs(S)
  BY <1>9, <1>11 DEF SetToSeqs, D
<1> QED BY <1>9, <1>10, <1>12

(* A page in order: its ids, each once, growing.                           *)
LEMMA OrderedPage ==
  ASSUME NEW S \in SUBSET Nat, IsFiniteSet(S), S # {}
  PROVE  /\ Ordered(S) \in Seq(S) /\ Len(Ordered(S)) > 0
         /\ \A m, n \in 1..Len(Ordered(S)) : m < n => Ordered(S)[m] < Ordered(S)[n]
         /\ \A i \in S : \E n \in 1..Len(Ordered(S)) : Ordered(S)[n] = i
<1> DEFINE D == 1..Cardinality(S)
           s == Ordered(S)
<1>1. s \in SetToSeqs(S) /\ \A m, n \in DOMAIN s : m < n => s[m] < s[n]
  BY OrderExists DEF Ordered
<1>2. s \in [D -> S] /\ \A m, n \in D : m # n => s[m] # s[n]
  BY <1>1 DEF SetToSeqs
<1>3. Cardinality(S) \in Nat /\ Cardinality(S) # 0
  BY FS_CardinalityType, FS_EmptySet
<1>4. s \in Seq(S) /\ Len(s) = Cardinality(S) /\ DOMAIN s = D
  BY <1>2, <1>3
<1>5. s \in Injection(D, S)
  BY <1>2 DEF Injection, IsInjective
<1>6. IsFiniteSet(D) /\ Cardinality(D) = Cardinality(S)
  BY <1>3, FS_Interval
<1>7. s \in Surjection(D, S)
  BY <1>5, <1>6, FS_Injection
<1>8. \A i \in S : \E n \in D : s[n] = i
  BY <1>7 DEF Surjection
<1> HIDE DEF s
<1>9. /\ s \in Seq(S) /\ Len(s) > 0
      /\ \A m, n \in 1..Len(s) : m < n => s[m] < s[n]
      /\ \A i \in S : \E n \in 1..Len(s) : s[n] = i
  BY <1>1, <1>3, <1>4, <1>8
<1> QED BY <1>9 DEF s

(* Every nonempty set of numbers has a least one.                          *)
LEMMA LeastNatural ==
  ASSUME NEW T \in SUBSET Nat, T # {}
  PROVE  \E m \in T : \A n \in T : m <= n
<1>1. PICK m \in T : \A n \in T : <<n, m>> \notin OpToRel(<, Nat)
  BY NatLessThanWellFounded, WFMin
<1>2. \A n \in T : ~(n < m)
  BY <1>1 DEF OpToRel
<1> QED BY <1>2

-----------------------------------------------------------------------------
(* A page is a prefix of what is after the cursor, and not an empty one    *)
(* while there is anything (list_paged).                                   *)
LEMMA PageIsPrefix ==
  ASSUME NEW stored \in SUBSET Nat, IsFiniteSet(stored), NEW after \in Nat,
         NEW limit \in Nat \ {0}
  PROVE  /\ Page(stored, after, limit) \in SUBSET stored
         /\ IsFiniteSet(Page(stored, after, limit))
         /\ \A j \in Page(stored, after, limit) : after < j
         /\ \A i \in stored :
              after < i => \/ i \in Page(stored, after, limit)
                           \/ /\ Page(stored, after, limit) # {}
                              /\ \A j \in Page(stored, after, limit) : j < i
<1> DEFINE rest == { i \in stored : i > after }
           page == Page(stored, after, limit)
<1>1. rest \in SUBSET Nat /\ rest \in SUBSET stored /\ IsFiniteSet(rest)
  BY FS_Subset
<1>2. page = { i \in rest : Rank(rest, i) <= limit }
  BY DEF Page, Rank
<1>3. page \in SUBSET stored /\ IsFiniteSet(page)
  BY <1>1, <1>2, FS_Subset
<1>4. \A j \in page : after < j
  BY <1>2
<1>5. \A j \in rest : Rank(rest, j) \in Nat
  BY <1>1, RankBounds, FS_CardinalityType
<1> HIDE DEF rest, page
<1>6. ASSUME NEW i \in rest, i \notin page PROVE page # {} /\ \A j \in page : j < i
  <2>1. PICK first \in rest : \A k \in rest : first <= k
    BY <1>1, LeastNatural
  <2>2. Rank(rest, first) = 1
    <3>1. { k \in rest : k <= first } = {first}
      <4>1. \A k \in rest : k <= first <=> k = first
        BY <1>1, <2>1
      <4> QED BY <4>1
    <3>2. Rank(rest, first) = Cardinality({first})
      BY <3>1 DEF Rank
    <3> QED BY <3>2, FS_Singleton
  <2>3. first \in page
    BY <1>2, <2>2
  <2>4. ASSUME NEW j \in page, ~(j < i) PROVE FALSE
    <3>1. j \in rest /\ j \in Nat /\ i \in Nat /\ i < j
      BY <1>1, <1>2, <1>6, <2>4
    <3>2. Rank(rest, i) < Rank(rest, j)
      BY <1>1, <3>1, RankGrows
    <3>3. Rank(rest, j) <= limit /\ ~(Rank(rest, i) <= limit)
      <4>1. \A k \in rest : k \in page <=> Rank(rest, k) <= limit
        BY <1>2
      <4> QED BY <1>6, <2>4, <3>1, <4>1
    <3>4. Rank(rest, i) \in Nat /\ Rank(rest, j) \in Nat
      BY <1>5, <3>1
    <3> QED BY <3>2, <3>3, <3>4
  <2> QED BY <2>3, <2>4
<1>7. \A i \in stored : after < i => i \in rest
  BY DEF rest
<1> QED BY <1>3, <1>4, <1>6, <1>7 DEF page

(* A row of a page is on the page of other tables too unless one of them   *)
(* pushes in before it.                                                    *)
LEMMA RowStaysOnPage ==
  ASSUME NEW old \in SUBSET Nat, IsFiniteSet(old), NEW now \in SUBSET Nat, NEW after \in Nat,
         NEW limit \in Nat, NEW i \in Page(old, after, limit), i \in now,
         \A j \in now : after < j /\ j < i => j \in old
  PROVE  i \in Page(now, after, limit)
<1> DEFINE before == { k \in old : k > after }
           today == { k \in now : k > after }
<1>1. Page(old, after, limit) = { k \in before : Rank(before, k) <= limit }
  BY DEF Page, Rank
<1>2. Page(now, after, limit) = { k \in today : Rank(today, k) <= limit }
  BY DEF Page, Rank
<1>3. i \in old /\ after < i /\ Rank(before, i) <= limit
  BY <1>1
<1>4. { j \in today : j <= i } \in SUBSET { j \in before : j <= i }
  <2>1. ASSUME NEW j \in today, j <= i PROVE j \in before
    <3>1. j = i \/ j < i
      BY <2>1
    <3> QED BY <1>3, <3>1
  <2> QED BY <2>1
<1>5. IsFiniteSet({ j \in before : j <= i })
  BY FS_Subset
<1>6. Rank(today, i) <= Rank(before, i)
  BY <1>4, <1>5, FS_Subset DEF Rank
<1>7. Rank(today, i) \in Nat /\ Rank(before, i) \in Nat
  BY <1>4, <1>5, FS_Subset, FS_CardinalityType DEF Rank
<1>8. i \in today
  BY <1>3
<1> HIDE DEF before, today
<1>9. Rank(today, i) <= limit
  BY <1>3, <1>6, <1>7
<1> QED BY <1>2, <1>8, <1>9
-----------------------------------------------------------------------------
(* What the tables keep: foreign keys, and ids that are stored once.       *)
TablesInv ==
  /\ issued \in SUBSET Ids /\ IsFiniteSet(issued)
  /\ issuers \in SUBSET issued
  /\ owner \in [Securities -> issuers \union {Start}]

-----------------------------------------------------------------------------
(* From Begin until the engine has answered, nothing is written for the    *)
(* command; the answer tells what was.                                     *)
Underway == { "dial", "handshake", "execute", "send", "sent", "lost" }
Answered == { "answered", "print" }
Writes == { "register", "patch", "delete" }
Statuses == { "AlreadyExists", "InvalidArgument", "Internal" }

AnswerTells ==
  /\ reply.kind \in Messages \union Statuses
  /\ reply.kind # "Ok" => applied = {}
  /\ reply.kind = "Ok" /\ command.op \in Writes => applied = IF command.dry THEN {} ELSE reply.ids

EffectInv ==
  /\ stage \in {"idle"} \union Underway \union Answered
  /\ stage # "idle" => outcome = "none" /\ command \in Asked
  /\ stage \in Underway => applied = {}
  /\ stage \in Answered => AnswerTells
  /\ stage = "print" => reply.kind \in Messages
  /\ applied = {} \/ \E i \in Ids : applied = {i}
  /\ OutcomesTellTheEffect

-----------------------------------------------------------------------------
(* The walk: everything listed is up to the cursor, in order, and a stayer *)
(* is listed or still ahead.                                               *)
Walk == [cursor : Ids \union {Start}, listed : Seq(Ids), stayers : SUBSET Ids, over : BOOLEAN]

(* The page that was answered but not printed yet starts after the cursor  *)
(* and leaves out no stayer before its end, and is only empty if no stayer *)
(* is ahead.                                                               *)
PageCovers ==
  /\ reply.kind \notin {"Missing", "VersionMismatch"}
  /\ reply.kind = "Ok" =>
       /\ reply.ids \in SUBSET Ids /\ IsFiniteSet(reply.ids)
       /\ \A j \in reply.ids : walk.cursor < j
       /\ \A i \in walk.stayers :
            walk.cursor < i => \/ i \in reply.ids
                               \/ reply.ids # {} /\ \A j \in reply.ids : j < i

WalkInv ==
  /\ walk \in Walk
  /\ walk.stayers \subseteq issuers
  /\ walk.cursor = IF walk.listed = <<>> THEN Start ELSE Last(walk.listed)
  /\ \A i \in walk.stayers : i \in ToSet(walk.listed) \/ walk.cursor < i
  /\ StayersListedOnce
  /\ command.op = "list" /\ stage # "idle" => ~walk.over
  /\ command.op = "list" /\ stage \in Answered => PageCovers

-----------------------------------------------------------------------------
(* The rows of an eager read under way are those of a table that had every *)
(* issuer of today's but the crowd.                                        *)
ReadInv ==
  read # NoRead =>
    /\ read \in Reads(Ids, Limits \ {0})
    /\ \E old \in SUBSET Ids : /\ IsFiniteSet(old)
                               /\ rows = RowsOf(old, read)
                               /\ issuers \ crowd \subseteq old

IndInv == TablesInv /\ EffectInv /\ WalkInv /\ ReadInv

-----------------------------------------------------------------------------
(* The tables change in three ways.                                        *)
LEMMA StoreKeeps ==
  ASSUME TablesInv, NEW i \in Ids, Store(i)
  PROVE  TablesInv'
BY FS_AddElement DEF TablesInv, Store

LEMMA EraseKeeps ==
  ASSUME TablesInv, NEW i \in Ids, Erase(i)
  PROVE  TablesInv'
BY DEF TablesInv, Erase

LEMMA AssignKeeps ==
  ASSUME TablesInv, NEW s \in Securities, NEW i \in Ids \union {Start}, Assign(s, i)
  PROVE  TablesInv'
BY DEF TablesInv, Assign

LEMMA SameTables ==
  ASSUME TablesInv, UNCHANGED tables
  PROVE  TablesInv'
BY DEF TablesInv, tables

(* The client writes nothing itself.                                       *)
ClientStep ==
  \/ \E c \in Asked : Begin(c)
  \/ Dial \/ DialFails \/ Handshake \/ ProtocolMismatch \/ Execute \/ InvalidInput
  \/ Send \/ LoseCall \/ Receive \/ ReceiveError \/ DecodeFails \/ WriteSuccess
  \/ OutputFails

LEMMA ClientWritesNothing ==
  ASSUME ClientStep
  PROVE  UNCHANGED <<tables, engine, read, rows, crowd, result>>
BY DEF ClientStep, Begin, Dial, DialFails, Handshake, ProtocolMismatch, Execute, InvalidInput,
       Send, LoseCall, Receive, ReceiveError, DecodeFails, WriteSuccess, OutputFails, Proceed,
       Finish, reader

(* A request: it registers, or deletes, or leaves the tables alone.        *)
LEMMA HandleWrites ==
  ASSUME Handle
  PROVE  \/ \E i \in Ids : (Store(i) /\ UNCHANGED walk) \/ (Erase(i) /\ command.op = "delete")
         \/ UNCHANGED <<tables, crowd>>
<1>1. CASE HandleRegister
  BY <1>1 DEF HandleRegister
<1>2. CASE HandleEdit
  BY <1>2 DEF HandleEdit
<1>3. CASE HandleList
  BY <1>3 DEF HandleList
<1>4. CASE HandleAsk
  BY <1>4 DEF HandleAsk
<1>5. CASE RefuseRequest
  BY <1>5 DEF RefuseRequest
<1> QED BY <1>1, <1>2, <1>3, <1>4, <1>5 DEF Handle

(* The steps by what they are.                                             *)
LEMMA StepCases ==
  ASSUME [Next]_vars
  PROVE  \/ \E i \in Ids : Insert(i) \/ Delete(i) \/ HandleLate(i)
         \/ \E s \in Securities, i \in Ids \union {Start} : Assign(s, i)
         \/ \E r \in Reads(Ids, Limits \ {0}) : ReadRows(r)
         \/ ReadSecurities \/ ReadFails
         \/ \E p \in Protocols : StartEngine(p)
         \/ StopEngine \/ Handle \/ ClientStep \/ UNCHANGED vars
BY DEF Next, ClientStep

LEMMA TablesStep ==
  ASSUME TablesInv, [Next]_vars
  PROVE  TablesInv'
<1>1. ASSUME NEW i \in Ids, Insert(i) \/ Delete(i) \/ HandleLate(i) PROVE TablesInv'
  BY <1>1, StoreKeeps, EraseKeeps DEF Insert, Delete, HandleLate
<1>2. CASE Handle
  BY <1>2, HandleWrites, StoreKeeps, EraseKeeps, SameTables
<1>3. CASE ClientStep
  BY <1>3, ClientWritesNothing, SameTables
<1>4. ASSUME NEW r \in Reads(Ids, Limits \ {0}), ReadRows(r) PROVE TablesInv'
  BY <1>4, SameTables DEF ReadRows
<1>5. CASE ReadSecurities \/ ReadFails
  BY <1>5, SameTables DEF ReadSecurities, ReadFails
<1>6. CASE StopEngine \/ \E p \in Protocols : StartEngine(p)
  BY <1>6, SameTables DEF StopEngine, StartEngine
<1>7. CASE UNCHANGED vars
  BY <1>7, SameTables DEF vars
<1> QED BY <1>1, <1>2, <1>3, <1>4, <1>5, <1>6, <1>7, AssignKeeps, StepCases

-----------------------------------------------------------------------------
(* EffectInv speaks of the command alone.                                  *)
LEMMA SameCommand ==
  ASSUME EffectInv, UNCHANGED <<stage, command, reply, outcome, applied>>
  PROVE  EffectInv'
BY DEF EffectInv, AnswerTells, OutcomesTellTheEffect

LEMMA HandleTells ==
  ASSUME EffectInv, Handle
  PROVE  EffectInv'
<1>1. stage = "sent" /\ outcome = "none" /\ applied = {} /\ UNCHANGED <<command, outcome>>
  BY DEF Handle, EffectInv, Underway
<1>2. /\ stage' = "answered"
      /\ reply'.kind \in Messages \union Statuses
      /\ reply'.kind # "Ok" => applied' = {}
      /\ reply'.kind = "Ok" /\ command.op \in Writes =>
           applied' = IF command.dry THEN {} ELSE reply'.ids
      /\ applied' = {} \/ \E i \in Ids : applied' = {i}
  <2>1. CASE HandleRegister
    BY <1>1, <2>1 DEF HandleRegister, Answer, Messages, Statuses, Writes
  <2>2. CASE HandleEdit
    BY <1>1, <2>2 DEF HandleEdit, Answer, Messages, Statuses, Writes
  <2>3. CASE HandleList
    BY <1>1, <2>3 DEF HandleList, Answer, Messages, Statuses, Writes
  <2>4. CASE HandleAsk
    BY <1>1, <2>4 DEF HandleAsk, Answer, Messages, Statuses, Writes
  <2>5. CASE RefuseRequest
    BY <1>1, <2>5 DEF RefuseRequest, Answer, Messages, Statuses, Writes
  <2> QED BY <2>1, <2>2, <2>3, <2>4, <2>5 DEF Handle
<1>3. Cardinality(applied') <= 1
  BY <1>2, FS_EmptySet, FS_Singleton
<1>4. outcome' = "none"
  BY <1>1
<1>5. AnswerTells'
  BY <1>1, <1>2 DEF AnswerTells
<1>6. OutcomesTellTheEffect'
  BY <1>3, <1>4 DEF OutcomesTellTheEffect, SafeToRepeat
<1> QED BY <1>1, <1>2, <1>5, <1>6 DEF EffectInv, Underway, Answered

(* Any step of the client but an answer handed over.                       *)
LEMMA ProceedTells ==
  ASSUME EffectInv, NEW from, NEW to, Proceed(from, to),
         \/ <<from, to>> \in {<<"dial", "handshake">>, <<"handshake", "execute">>,
                              <<"execute", "send">>, <<"send", "sent">>}
         \/ from = "answered" /\ to = "print" /\ reply.kind \in Messages
  PROVE  EffectInv'
<1>1. UNCHANGED <<command, reply, outcome, applied>> /\ stage = from /\ stage' = to
  BY DEF Proceed
<1>2. OutcomesTellTheEffect'
  BY <1>1 DEF EffectInv, OutcomesTellTheEffect
<1>3. /\ stage' \in Underway \union Answered
      /\ stage \in Underway \union Answered
      /\ stage' # "idle" /\ stage # "idle"
      /\ stage' \in Underway => stage \in Underway
      /\ stage' \in Answered => stage \in Answered
      /\ stage' = "print" => reply.kind \in Messages
  BY <1>1 DEF Underway, Answered
<1> QED BY <1>1, <1>2, <1>3 DEF EffectInv, AnswerTells

(* The client gives up: with an outcome that promises nothing, or before   *)
(* anything was written.                                                   *)
LEMMA FinishTells ==
  ASSUME EffectInv, NEW o, Finish(o), o # "success", o \in SafeToRepeat => applied = {}
  PROVE  EffectInv'
<1>1. stage' = "idle" /\ outcome' = o /\ UNCHANGED <<command, applied>>
  BY DEF Finish
<1>2. OutcomesTellTheEffect'
  BY <1>1 DEF EffectInv, OutcomesTellTheEffect
<1> QED BY <1>1, <1>2 DEF EffectInv, Underway, Answered

LEMMA ClientTells ==
  ASSUME EffectInv, ClientStep
  PROVE  EffectInv'
<1>1. ASSUME NEW c \in Asked, Begin(c) PROVE EffectInv'
  <2>1. stage' = "dial" /\ outcome' = "none" /\ applied' = {}
    BY <1>1 DEF Begin
  <2>2. Cardinality({}) = 0
    BY FS_EmptySet
  <2>3. OutcomesTellTheEffect'
    BY <2>1, <2>2 DEF OutcomesTellTheEffect, SafeToRepeat
  <2>4. command' \in Asked
    BY <1>1 DEF Begin
  <2> QED BY <2>1, <2>3, <2>4 DEF EffectInv, Underway, Answered
<1>2. CASE Dial \/ Handshake \/ Execute \/ Send \/ Receive
  BY <1>2, ProceedTells DEF Dial, Handshake, Execute, Send, Receive
<1>3. CASE DialFails
  <2>1. PICK kind \in {"ConnectionRefused", "NotFound", "TimedOut"} : Finish(ConnectError(kind))
    BY <1>3 DEF DialFails
  <2>2. applied = {}
    BY <1>3 DEF DialFails, EffectInv, Underway
  <2>3. ConnectError(kind) # "success"
    BY DEF ConnectError
  <2> QED BY <2>1, <2>2, <2>3, FinishTells
<1>4. CASE ProtocolMismatch
  <2>1. applied = {}
    BY <1>4 DEF ProtocolMismatch, EffectInv, Underway
  <2> QED BY <1>4, <2>1, FinishTells DEF ProtocolMismatch
<1>5. CASE InvalidInput
  <2>1. applied = {}
    BY <1>5 DEF InvalidInput, EffectInv, Underway
  <2> QED BY <1>5, <2>1, FinishTells DEF InvalidInput
<1>6. CASE LoseCall
  <2>1. PICK code \in {"Unavailable", "Cancelled"} : Finish(MapStatus(code))
    BY <1>6 DEF LoseCall
  <2>2. MapStatus(code) \notin SafeToRepeat /\ MapStatus(code) # "success"
    BY DEF MapStatus, SafeToRepeat
  <2> QED BY <2>1, <2>2, FinishTells
<1>7. CASE ReceiveError
  <2>1. AnswerTells /\ reply.kind \in Statuses
    BY <1>7 DEF ReceiveError, EffectInv, Answered, AnswerTells
  <2>2. applied = {} /\ MapStatus(reply.kind) # "success"
    BY <2>1 DEF AnswerTells, MapStatus, Statuses
  <2> QED BY <1>7, <2>2, FinishTells DEF ReceiveError
<1>8. CASE WriteSuccess
  <2>1. AnswerTells /\ reply.kind \in Messages
    BY <1>8 DEF WriteSuccess, EffectInv, Answered
  <2>2. /\ stage' = "idle" /\ UNCHANGED <<command, reply, applied>>
        /\ outcome' = IF reply.kind = "Ok" THEN "success" ELSE reply.kind
    BY <1>8 DEF WriteSuccess
  <2>3. OutcomesTellTheEffect'
    <3>1. Cardinality(applied) <= 1
      BY DEF EffectInv, OutcomesTellTheEffect
    <3>2. CASE reply.kind = "Ok"
      BY <2>1, <2>2, <3>1, <3>2 DEF OutcomesTellTheEffect, AnswerTells, SafeToRepeat, Writes
    <3>3. CASE reply.kind # "Ok"
      BY <2>1, <2>2, <3>1, <3>3 DEF OutcomesTellTheEffect, AnswerTells, Messages
    <3> QED BY <3>2, <3>3
  <2> QED BY <2>2, <2>3 DEF EffectInv, Underway, Answered
<1>9. CASE OutputFails
  <2>1. "output_failed" \notin SafeToRepeat
    BY DEF SafeToRepeat
  <2> QED BY <1>9, <2>1, FinishTells DEF OutputFails
<1>10. CASE DecodeFails
  <2>1. "invalid_response" \notin SafeToRepeat
    BY DEF SafeToRepeat
  <2> QED BY <1>10, <2>1, FinishTells DEF DecodeFails
<1> QED BY <1>1, <1>2, <1>3, <1>4, <1>5, <1>6, <1>7, <1>8, <1>9, <1>10 DEF ClientStep

LEMMA EffectStep ==
  ASSUME EffectInv, [Next]_vars
  PROVE  EffectInv'
<1>1. ASSUME NEW i \in Ids, Insert(i) \/ Delete(i) \/ HandleLate(i) PROVE EffectInv'
  BY <1>1, SameCommand DEF Insert, Delete, HandleLate, cli
<1>2. ASSUME NEW s \in Securities, NEW i \in Ids \union {Start}, Assign(s, i) PROVE EffectInv'
  BY <1>2, SameCommand DEF Assign, cli
<1>3. ASSUME NEW r \in Reads(Ids, Limits \ {0}), ReadRows(r) PROVE EffectInv'
  BY <1>3, SameCommand DEF ReadRows, cli
<1>4. CASE ReadSecurities \/ ReadFails
  BY <1>4, SameCommand DEF ReadSecurities, ReadFails, cli
<1>5. CASE \E p \in Protocols : StartEngine(p)
  BY <1>5, SameCommand DEF StartEngine, cli
<1>6. CASE StopEngine
  <2>1. CASE stage = "sent"
    <3>1. stage' = "lost" /\ UNCHANGED <<command, reply, outcome, applied>>
      BY <1>6, <2>1 DEF StopEngine
    <3> QED BY <2>1, <3>1 DEF EffectInv, Underway, Answered, OutcomesTellTheEffect
  <2>2. CASE stage # "sent"
    BY <1>6, <2>2, SameCommand DEF StopEngine
  <2> QED BY <2>1, <2>2
<1>7. CASE UNCHANGED vars
  BY <1>7, SameCommand DEF vars, cli
<1> QED BY <1>1, <1>2, <1>3, <1>4, <1>5, <1>6, <1>7, HandleTells, ClientTells, StepCases

-----------------------------------------------------------------------------
(* What a walk says of its own.                                            *)
LEMMA WalkFields ==
  ASSUME walk \in Walk
  PROVE  /\ walk.cursor \in Nat /\ walk.cursor \in Ids \union {Start} /\ walk.listed \in Seq(Ids) /\ walk.stayers \in SUBSET Ids
         /\ walk.over \in BOOLEAN
         /\ walk = [cursor |-> walk.cursor, listed |-> walk.listed, stayers |-> walk.stayers,
                    over |-> walk.over]
<1>1. walk.cursor \in Ids \union {Start} /\ walk.listed \in Seq(Ids) /\ walk.stayers \in SUBSET Ids
      /\ walk.over \in BOOLEAN
  BY DEF Walk
<1>2. walk = [cursor |-> walk.cursor, listed |-> walk.listed, stayers |-> walk.stayers,
              over |-> walk.over]
  BY DEF Walk
<1> QED BY <1>1, <1>2, IdsAssumption DEF Start

LEMMA WalkRecord ==
  ASSUME NEW c \in Ids \union {Start}, NEW l \in Seq(Ids), NEW s \in SUBSET Ids
  PROVE  /\ [cursor |-> c, listed |-> l, stayers |-> s, over |-> TRUE] \in Walk
         /\ [cursor |-> c, listed |-> l, stayers |-> s, over |-> FALSE] \in Walk
BY DEF Walk

(* A step of somebody else leaves the walk alone but for stayers that go.  *)
LEMMA WalkKept ==
  ASSUME WalkInv, NEW S \in SUBSET walk.stayers, S \subseteq issuers',
         walk' = [cursor |-> walk.cursor, listed |-> walk.listed, stayers |-> S,
                  over |-> walk.over],
         command'.op = "list" /\ stage' # "idle" => command.op = "list" /\ stage # "idle",
         command'.op = "list" /\ stage' \in Answered =>
           command.op = "list" /\ stage \in Answered /\ reply' = reply
  PROVE  WalkInv'
<1>1. walk'.cursor = walk.cursor /\ walk'.listed = walk.listed /\ walk'.stayers = S
      /\ walk'.over = walk.over
  OBVIOUS
<1>2. walk' \in Walk
  BY WalkFields DEF WalkInv, Walk
<1>3. StayersListedOnce'
  BY <1>1 DEF WalkInv, StayersListedOnce
<1>4. command'.op = "list" /\ stage' \in Answered => PageCovers'
  BY <1>1 DEF WalkInv, PageCovers
<1> QED BY <1>1, <1>2, <1>3, <1>4 DEF WalkInv

LEMMA SameWalk ==
  ASSUME WalkInv, UNCHANGED walk, issuers \subseteq issuers',
         command'.op = "list" /\ stage' # "idle" => command.op = "list" /\ stage # "idle",
         command'.op = "list" /\ stage' \in Answered =>
           command.op = "list" /\ stage \in Answered /\ reply' = reply
  PROVE  WalkInv'
<1>1. walk.stayers \subseteq issuers'
  BY DEF WalkInv
<1>2. walk' = [cursor |-> walk.cursor, listed |-> walk.listed, stayers |-> walk.stayers,
               over |-> walk.over]
  BY WalkFields DEF WalkInv
<1> QED BY <1>1, <1>2, WalkKept

LEMMA ErasedWalk ==
  ASSUME WalkInv, NEW i \in Ids, Erase(i),
         command'.op = "list" /\ stage' # "idle" => command.op = "list" /\ stage # "idle",
         command'.op = "list" /\ stage' \in Answered =>
           command.op = "list" /\ stage \in Answered /\ reply' = reply
  PROVE  WalkInv'
<1>1. walk.stayers \ {i} \in SUBSET walk.stayers /\ walk.stayers \ {i} \subseteq issuers'
  BY DEF WalkInv, Erase
<1>2. walk' = [cursor |-> walk.cursor, listed |-> walk.listed,
               stayers |-> walk.stayers \ {i}, over |-> walk.over]
  BY WalkFields DEF WalkInv, Erase
<1> QED BY <1>1, <1>2, WalkKept

(* A page answered.                                                        *)
LEMMA ListCovers ==
  ASSUME TablesInv, EffectInv, WalkInv, Handle, HandleList
  PROVE  WalkInv'
<1> DEFINE limit == ClampLimit(command.limit)
           page == Page(issuers, walk.cursor, limit)
           stayers == IF walk.listed = <<>> THEN issuers ELSE walk.stayers
<1>0. command \in Asked /\ command.op = "list"
  BY DEF Handle, HandleList, EffectInv
<1>1. limit \in Nat \ {0}
  <2>1. command \in Commands
    BY <1>0, AskedAssumption
  <2>2. command.limit \in Limits
    BY <1>0, <2>1
    DEF Commands, ListCommands, RegisterCommands, AskCommands, EditCommands, Command
  <2>3. command.limit \in Nat /\ MaxLimit \in Nat /\ DefaultLimit \in Nat \ {0} /\ MaxLimit # 0
    <3>1. command.limit \in Nat /\ MaxLimit \in Nat /\ DefaultLimit \in 1..MaxLimit
      BY <2>2, LimitsAssumption
    <3> QED BY <3>1
  <2> QED BY <2>3 DEF ClampLimit
<1>2. issuers \in SUBSET Nat /\ IsFiniteSet(issuers) /\ issuers \in SUBSET Ids
  BY IdsAssumption, FS_Subset DEF TablesInv
<1>3. walk.cursor \in Nat
  BY WalkFields DEF WalkInv
<1>4. /\ page \in SUBSET issuers /\ IsFiniteSet(page)
      /\ \A j \in page : walk.cursor < j
      /\ \A i \in issuers :
           walk.cursor < i => i \in page \/ (page # {} /\ \A j \in page : j < i)
  BY <1>1, <1>2, <1>3, PageIsPrefix
<1>5. reply' = [kind |-> "Ok", ids |-> page] /\ stage' = "answered" /\ command.op = "list"
      /\ stage = "sent" /\ UNCHANGED <<command, issuers>>
  BY DEF Handle, HandleList, Answer, tables
<1>6. stayers \subseteq issuers /\ stayers \in SUBSET Ids
  BY <1>2 DEF WalkInv
<1>7. walk' = [cursor |-> walk.cursor, listed |-> walk.listed, stayers |-> stayers,
               over |-> walk.over]
  BY WalkFields DEF WalkInv, HandleList
<1> HIDE DEF page, limit
<1>8. walk' \in Walk /\ walk'.cursor = walk.cursor /\ walk'.listed = walk.listed
      /\ walk'.stayers = stayers /\ walk'.over = walk.over
  BY <1>6, <1>7, WalkFields DEF WalkInv, Walk
<1>9. \A i \in stayers : i \in ToSet(walk.listed) \/ walk.cursor < i
  <2>1. CASE walk.listed = <<>>
    <3>1. walk.cursor = 0
      BY <2>1 DEF WalkInv, Start
    <3>2. \A i \in stayers : i \in Nat /\ i # 0
      BY <1>6, IdsAssumption
    <3> QED BY <3>1, <3>2
  <2>2. CASE walk.listed # <<>>
    BY <2>2 DEF WalkInv
  <2> QED BY <2>1, <2>2
<1>10. ~walk.over
  BY <1>5 DEF WalkInv
<1>11. StayersListedOnce'
  BY <1>8, <1>10 DEF WalkInv, StayersListedOnce
<1>12. PageCovers'
  BY <1>2, <1>4, <1>5, <1>6, <1>8 DEF PageCovers
<1> HIDE DEF stayers
<1> QED BY <1>5, <1>6, <1>8, <1>9, <1>10, <1>11, <1>12 DEF WalkInv

(* A walk begun again, or gone on with.                                    *)
LEMMA BeginWalks ==
  ASSUME WalkInv, NEW c \in Asked, Begin(c)
  PROVE  WalkInv'
<1>1. command' = c /\ stage' = "dial" /\ UNCHANGED issuers
  BY DEF Begin, tables
<1>2. CASE c.op = "list" /\ walk.over
  <2>1. walk' = [cursor |-> Start, listed |-> <<>>, stayers |-> {}, over |-> FALSE]
    BY <1>2 DEF Begin, NewWalk
  <2>2. walk' \in Walk
    BY <2>1 DEF Walk
  <2>3. StayersListedOnce'
    BY <2>1 DEF StayersListedOnce
  <2> QED BY <1>1, <2>1, <2>2, <2>3 DEF WalkInv, Answered
<1>3. CASE ~(c.op = "list" /\ walk.over)
  <2>1. UNCHANGED walk
    BY <1>3 DEF Begin
  <2>2. StayersListedOnce' /\ walk' \in Walk
    BY <2>1 DEF WalkInv, StayersListedOnce
  <2> QED BY <1>1, <1>3, <2>1, <2>2 DEF WalkInv, Answered
<1> QED BY <1>2, <1>3

(* An empty page: no stayer is ahead, and what is not ahead is listed.     *)
LEMMA WalkEnds ==
  ASSUME WalkInv, PageCovers, reply.kind = "Ok", reply.ids = {},
         walk' = Turned({}), stage' = "idle", UNCHANGED <<issuers, command>>
  PROVE  WalkInv'
<1>1. walk' = [cursor |-> walk.cursor, listed |-> walk.listed, stayers |-> walk.stayers,
               over |-> TRUE]
  BY WalkFields DEF WalkInv, Turned
<1>2. walk' \in Walk
  <2>1. walk \in Walk
    BY DEF WalkInv
  <2>2. /\ walk.cursor \in Ids \union {Start} /\ walk.listed \in Seq(Ids)
        /\ walk.stayers \in SUBSET Ids
    BY <2>1, WalkFields
  <2> QED BY <1>1, <2>2, WalkRecord
<1>3. walk.stayers \subseteq ToSet(walk.listed)
  BY DEF WalkInv, PageCovers
<1>4. StayersListedOnce'
  BY <1>1, <1>3 DEF WalkInv, StayersListedOnce
<1> QED BY <1>1, <1>2, <1>4 DEF WalkInv, Answered

(* A page is printed after what was printed before.                        *)
LEMMA WalkTurns ==
  ASSUME WalkInv, PageCovers, reply.kind = "Ok", reply.ids # {}, ~walk.over,
         walk' = Turned(reply.ids), stage' = "idle", UNCHANGED <<issuers, command>>
  PROVE  WalkInv'
<1> DEFINE page == Ordered(reply.ids)
           old == walk.listed
           new == old \o page
<1>1. /\ walk.cursor \in Nat /\ old \in Seq(Ids) /\ walk.stayers \in SUBSET Ids
      /\ walk' = [cursor |-> Last(page), listed |-> new, stayers |-> walk.stayers, over |-> FALSE]
  BY WalkFields DEF WalkInv, Turned
<1>2. /\ reply.ids \in SUBSET Ids /\ reply.ids \in SUBSET Nat /\ IsFiniteSet(reply.ids)
      /\ \A j \in reply.ids : walk.cursor < j
  BY IdsAssumption DEF PageCovers
<1>3. /\ page \in Seq(reply.ids) /\ Len(page) > 0
      /\ \A m, n \in 1..Len(page) : m < n => page[m] < page[n]
      /\ \A i \in reply.ids : \E n \in 1..Len(page) : page[n] = i
  BY <1>2, OrderedPage
<1> HIDE DEF page
<1>4. /\ new \in Seq(Ids) /\ Len(new) = Len(old) + Len(page)
      /\ Len(old) \in Nat /\ Len(page) \in Nat
      /\ \A n \in 1..Len(old) : new[n] = old[n]
      /\ \A n \in 1..Len(page) : new[Len(old) + n] = page[n]
  <2>1. page \in Seq(Ids)
    BY <1>2, <1>3
  <2> QED BY <1>1, <2>1
<1>5. \A n \in 1..Len(new) : n > Len(old) => n - Len(old) \in 1..Len(page) /\ new[n] = page[n - Len(old)]
  BY <1>4
<1>6. \A n \in 1..Len(page) : page[n] \in reply.ids /\ page[n] \in Nat /\ walk.cursor < page[n]
  <2>1. \A n \in 1..Len(page) : page[n] \in reply.ids
    BY <1>3
  <2> QED BY <1>2, <2>1
<1>7. \A n \in 1..Len(old) : old[n] \in Nat /\ old[n] <= walk.cursor
  <2> SUFFICES ASSUME NEW n \in 1..Len(old) PROVE old[n] \in Nat /\ old[n] <= walk.cursor
    OBVIOUS
  <2>1. walk.cursor = old[Len(old)]
    BY <1>1 DEF WalkInv, Last
  <2>2. \A m \in 1..Len(old) : old[m] \in Nat
    <3>1. \A m \in 1..Len(old) : old[m] \in Ids
      BY <1>1
    <3> QED BY <3>1, IdsAssumption
  <2>3. n < Len(old) => old[n] < old[Len(old)]
    BY <1>1 DEF WalkInv, StayersListedOnce
  <2> QED BY <1>1, <2>1, <2>2, <2>3
<1> HIDE DEF new, old
<1>8. ASSUME NEW m \in 1..Len(new), NEW n \in 1..Len(new), m < n PROVE new[m] < new[n]
  <2>1. CASE n <= Len(old)
    <3>1. m \in 1..Len(old) /\ n \in 1..Len(old)
      BY <1>4, <1>8, <2>1
    <3>2. old[m] < old[n]
      BY <1>1, <1>8, <3>1 DEF WalkInv, StayersListedOnce, old
    <3> QED BY <1>4, <3>1, <3>2
  <2>2. CASE m <= Len(old) /\ n > Len(old)
    <3>1. m \in 1..Len(old) /\ n - Len(old) \in 1..Len(page) /\ new[n] = page[n - Len(old)]
      BY <1>4, <1>5, <2>2
    <3>2. new[m] = old[m] /\ old[m] \in Nat /\ old[m] <= walk.cursor
      BY <1>4, <1>7, <3>1
    <3>3. new[n] \in Nat /\ walk.cursor < new[n]
      BY <1>6, <3>1
    <3> QED BY <1>1, <3>2, <3>3
  <2>3. CASE m > Len(old)
    <3>1. m - Len(old) \in 1..Len(page) /\ n - Len(old) \in 1..Len(page)
          /\ new[m] = page[m - Len(old)] /\ new[n] = page[n - Len(old)]
      BY <1>4, <1>5, <1>8, <2>3
    <3>2. m - Len(old) < n - Len(old)
      BY <1>4, <1>8
    <3> QED BY <1>3, <3>1, <3>2
  <2> QED BY <1>4, <2>1, <2>2, <2>3
<1>9. Last(page) = page[Len(page)] /\ Last(new) = Last(page) /\ new # <<>> /\ Last(page) \in Ids
  <2>1. new[Len(new)] = page[Len(page)] /\ Len(new) # 0
    <3>1. Len(page) \in 1..Len(page) /\ Len(new) = Len(old) + Len(page)
      BY <1>3, <1>4
    <3>2. new[Len(old) + Len(page)] = page[Len(page)]
      BY <1>4, <3>1
    <3> QED BY <1>3, <1>4, <3>1, <3>2
  <2>2. page[Len(page)] \in Ids
    <3>1. Len(page) \in 1..Len(page)
      BY <1>3, <1>4
    <3> QED BY <1>2, <1>6, <3>1
  <2> QED BY <1>4, <2>1, <2>2 DEF Last
<1>10. \A n \in 1..Len(page) : page[n] <= Last(page)
  <2> SUFFICES ASSUME NEW n \in 1..Len(page) PROVE page[n] <= page[Len(page)]
    BY <1>9
  <2>1. Len(page) \in 1..Len(page) /\ n \in Nat
    BY <1>3, <1>4
  <2>2. page[n] \in Nat /\ page[Len(page)] \in Nat
    BY <1>6, <2>1
  <2>3. n = Len(page) \/ page[n] < page[Len(page)]
    BY <1>3, <1>4, <2>1
  <2> QED BY <2>2, <2>3
<1>11. \A i : i \in ToSet(new) <=> i \in ToSet(old) \/ i \in reply.ids
  <2>1. ASSUME NEW i \in ToSet(old) PROVE i \in ToSet(new)
    <3>1. PICK n \in 1..Len(old) : old[n] = i
      BY <1>1, <2>1 DEF ToSet, old
    <3>2. n \in 1..Len(new) /\ new[n] = i
      BY <1>4, <3>1
    <3> QED BY <1>4, <3>2 DEF ToSet
  <2>2. ASSUME NEW i \in reply.ids PROVE i \in ToSet(new)
    <3>1. PICK n \in 1..Len(page) : page[n] = i
      BY <1>3
    <3>2. Len(old) + n \in 1..Len(new) /\ new[Len(old) + n] = i
      BY <1>4, <3>1
    <3> QED BY <1>4, <3>2 DEF ToSet
  <2>3. ASSUME NEW i \in ToSet(new), i \notin ToSet(old) PROVE i \in reply.ids
    <3>1. PICK n \in 1..Len(new) : new[n] = i
      BY <1>4, <2>3 DEF ToSet
    <3>2. n \in Nat /\ ~(n \in 1..Len(old))
      <4>1. \A k \in 1..Len(old) : old[k] \in ToSet(old)
        BY <1>1 DEF ToSet, old
      <4> QED BY <1>4, <2>3, <3>1, <4>1
    <3>3. n > Len(old)
      BY <1>4, <3>1, <3>2
    <3> QED BY <1>5, <1>6, <3>1, <3>3
  <2> QED BY <2>1, <2>2, <2>3
<1>12. \A i \in walk.stayers : i \in ToSet(new) \/ Last(page) < i
  <2> SUFFICES ASSUME NEW i \in walk.stayers, i \notin ToSet(new) PROVE Last(page) < i
    OBVIOUS
  <2>1. walk.cursor < i /\ i \notin reply.ids
    BY <1>11 DEF WalkInv, old
  <2>2. \A j \in reply.ids : j < i
    BY <2>1 DEF PageCovers
  <2> QED BY <1>3, <1>4, <1>6, <1>9, <2>2
<1>13. walk' \in Walk /\ walk'.cursor = Last(page) /\ walk'.listed = new
       /\ walk'.stayers = walk.stayers /\ walk'.over = FALSE
  BY <1>1, <1>4, <1>9 DEF Walk, new
<1>14. StayersListedOnce'
  BY <1>4, <1>8, <1>13 DEF StayersListedOnce
<1> QED BY <1>9, <1>12, <1>13, <1>14 DEF WalkInv, Answered

(* The client's own steps.                                                 *)
LEMMA ClientWalks ==
  ASSUME EffectInv, WalkInv, ClientStep
  PROVE  WalkInv'
<1>1. issuers \subseteq issuers' /\ UNCHANGED issuers
  BY ClientWritesNothing DEF tables
<1>2. ASSUME NEW from, NEW to, Proceed(from, to), from # "idle",
             to \in Answered => from = "answered"
      PROVE  WalkInv'
  <2>1. UNCHANGED <<walk, command, reply>> /\ stage = from /\ stage' = to
    BY <1>2 DEF Proceed
  <2>2. stage # "idle" /\ (stage' \in Answered => stage \in Answered)
    BY <1>2, <2>1 DEF Answered
  <2> QED BY <1>1, <2>1, <2>2, SameWalk
<1>3. CASE Dial \/ Handshake \/ Execute \/ Send \/ Receive
  BY <1>2, <1>3 DEF Dial, Handshake, Execute, Send, Receive, Answered
<1>4. ASSUME NEW o, Finish(o), UNCHANGED walk PROVE WalkInv'
  <2>1. stage' = "idle" /\ UNCHANGED command
    BY <1>4 DEF Finish
  <2> QED BY <1>1, <1>4, <2>1, SameWalk DEF Answered
<1>5. CASE \/ DialFails \/ ProtocolMismatch \/ InvalidInput \/ LoseCall \/ ReceiveError
           \/ DecodeFails \/ OutputFails
  BY <1>4, <1>5 DEF DialFails, ProtocolMismatch, InvalidInput, LoseCall, ReceiveError,
                    DecodeFails, OutputFails
<1>6. CASE WriteSuccess
  <2>1. stage = "print" /\ stage' = "idle" /\ UNCHANGED command /\ reply.kind \in Messages
    BY <1>6 DEF WriteSuccess, EffectInv
  <2>2. CASE command.op # "list"
    <3>1. UNCHANGED walk
      BY <1>6, <2>2 DEF WriteSuccess
    <3> QED BY <1>1, <2>1, <3>1, SameWalk DEF Answered
  <2>3. CASE command.op = "list"
    <3>1. PageCovers /\ ~walk.over /\ walk' = Turned(reply.ids)
      BY <1>6, <2>1, <2>3 DEF WriteSuccess, WalkInv, Answered
    <3>2. reply.kind = "Ok"
      BY <2>1, <3>1 DEF PageCovers, Messages
    <3> QED BY <1>1, <2>1, <3>1, <3>2, WalkEnds, WalkTurns
  <2> QED BY <2>2, <2>3
<1> QED BY <1>3, <1>5, <1>6, BeginWalks DEF ClientStep

LEMMA HandleWalks ==
  ASSUME TablesInv, EffectInv, WalkInv, Handle
  PROVE  WalkInv'
<1>1. stage = "sent" /\ stage' = "answered" /\ UNCHANGED command
  BY DEF Handle, HandleRegister, HandleEdit, HandleList, HandleAsk, RefuseRequest, Answer
<1>2. CASE command.op # "list"
  <2>1. ASSUME NEW i \in Ids, Erase(i) PROVE WalkInv'
    BY <1>1, <1>2, <2>1, ErasedWalk
  <2>2. ASSUME UNCHANGED walk, issuers \subseteq issuers' PROVE WalkInv'
    BY <1>1, <1>2, <2>2, SameWalk
  <2>3. CASE HandleRegister
    BY <2>2, <2>3 DEF HandleRegister, Store, tables
  <2>4. CASE HandleEdit
    BY <2>1, <2>2, <2>4 DEF HandleEdit, tables
  <2>5. CASE HandleAsk \/ RefuseRequest
    BY <2>2, <2>5 DEF HandleAsk, RefuseRequest, tables
  <2> QED BY <1>2, <2>3, <2>4, <2>5 DEF Handle, HandleList
<1>3. CASE command.op = "list"
  <2>1. CASE HandleList
    BY <2>1, ListCovers
  <2>2. CASE RefuseRequest
    <3>1. UNCHANGED <<walk, issuers>> /\ reply'.kind \in Statuses
      BY <2>2 DEF RefuseRequest, Answer, tables, Statuses
    <3>2. PageCovers'
      BY <3>1 DEF PageCovers, Statuses
    <3>3. StayersListedOnce'
      BY <3>1 DEF WalkInv, StayersListedOnce
    <3>4. ~walk'.over
      BY <1>1, <1>3, <3>1 DEF WalkInv
    <3> QED BY <3>1, <3>2, <3>3, <3>4 DEF WalkInv
  <2> QED BY <1>3, <2>1, <2>2 DEF Handle, HandleRegister, HandleEdit, HandleAsk
<1> QED BY <1>2, <1>3

LEMMA WalkStep ==
  ASSUME TablesInv, EffectInv, WalkInv, [Next]_vars
  PROVE  WalkInv'
<1>1. ASSUME UNCHANGED <<walk, command, stage, reply>>, issuers \subseteq issuers' PROVE WalkInv'
  BY <1>1, SameWalk
<1>2. ASSUME NEW i \in Ids, Erase(i), UNCHANGED <<command, stage, reply>> PROVE WalkInv'
  BY <1>2, ErasedWalk
<1>3. ASSUME NEW i \in Ids, Insert(i) \/ Delete(i) \/ HandleLate(i) PROVE WalkInv'
  BY <1>1, <1>2, <1>3 DEF Insert, Delete, HandleLate, Store, cli
<1>4. ASSUME NEW s \in Securities, NEW i \in Ids \union {Start}, Assign(s, i) PROVE WalkInv'
  BY <1>1, <1>4 DEF Assign, cli
<1>5. ASSUME NEW r \in Reads(Ids, Limits \ {0}), ReadRows(r) PROVE WalkInv'
  BY <1>1, <1>5 DEF ReadRows, cli, tables
<1>6. CASE ReadSecurities \/ ReadFails
  BY <1>1, <1>6 DEF ReadSecurities, ReadFails, cli, tables
<1>7. CASE \E p \in Protocols : StartEngine(p)
  BY <1>1, <1>7 DEF StartEngine, cli, tables
<1>8. CASE StopEngine
  <2>1. /\ stage' = stage \/ (stage = "sent" /\ stage' = "lost")
        /\ UNCHANGED <<walk, command, reply, issuers>>
    BY <1>8 DEF StopEngine, tables
  <2> QED BY <2>1, SameWalk DEF Answered
<1>9. CASE UNCHANGED vars
  BY <1>1, <1>9 DEF vars, cli, tables
<1> QED BY <1>3, <1>4, <1>5, <1>6, <1>7, <1>8, <1>9, HandleWalks, ClientWalks, StepCases

-----------------------------------------------------------------------------
(* A read under way: the tables of its first statement have all of today's *)
(* issuers but the crowd, since whoever stores one joins the crowd.        *)
LEMMA SameRead ==
  ASSUME ReadInv, UNCHANGED <<read, rows>>, issuers' \ crowd' \subseteq issuers \ crowd
  PROVE  ReadInv'
<1> SUFFICES ASSUME read' # NoRead PROVE ReadInv'
  BY DEF ReadInv
<1>1. PICK old \in SUBSET Ids :
        IsFiniteSet(old) /\ rows = RowsOf(old, read) /\ issuers \ crowd \subseteq old
  BY DEF ReadInv
<1>2. IsFiniteSet(old) /\ rows' = RowsOf(old, read') /\ issuers' \ crowd' \subseteq old
  BY <1>1
<1> QED BY <1>2 DEF ReadInv

LEMMA ReadStep ==
  ASSUME TablesInv, ReadInv, [Next]_vars
  PROVE  ReadInv'
<1>1. ASSUME NEW i \in Ids, Store(i), UNCHANGED <<read, rows>> PROVE ReadInv'
  <2>1. CASE read = NoRead
    BY <1>1, <2>1 DEF ReadInv
  <2>2. CASE read # NoRead
    BY <1>1, <2>2, SameRead DEF Store
  <2> QED BY <2>1, <2>2
<1>2. ASSUME NEW i \in Ids, Erase(i), UNCHANGED <<read, rows>> PROVE ReadInv'
  BY <1>2, SameRead DEF Erase
<1>3. ASSUME UNCHANGED <<read, rows, issuers, crowd>> PROVE ReadInv'
  BY <1>3, SameRead
<1>4. ASSUME NEW i \in Ids, Insert(i) \/ Delete(i) \/ HandleLate(i) PROVE ReadInv'
  BY <1>1, <1>2, <1>4 DEF Insert, Delete, HandleLate
<1>5. CASE Handle
  BY <1>1, <1>2, <1>3, <1>5, HandleWrites DEF Handle, tables
<1>6. CASE ClientStep
  BY <1>3, <1>6, ClientWritesNothing DEF tables
<1>7. ASSUME NEW s \in Securities, NEW i \in Ids \union {Start}, Assign(s, i) PROVE ReadInv'
  BY <1>3, <1>7 DEF Assign, reader
<1>8. ASSUME NEW r \in Reads(Ids, Limits \ {0}), ReadRows(r) PROVE ReadInv'
  <2>1. read' = r /\ rows' = RowsOf(issuers, r) /\ UNCHANGED issuers
    BY <1>8 DEF ReadRows, tables
  <2>2. issuers \in SUBSET Ids /\ IsFiniteSet(issuers)
    BY FS_Subset DEF TablesInv
  <2>3. issuers' \ crowd' \subseteq issuers
    BY <2>1
  <2> QED BY <2>1, <2>2, <2>3 DEF ReadInv
<1>9. CASE ReadSecurities \/ ReadFails
  BY <1>9 DEF ReadSecurities, ReadFails, ReadInv
<1>10. CASE StopEngine \/ \E p \in Protocols : StartEngine(p)
  BY <1>3, <1>10 DEF StopEngine, StartEngine, reader, tables
<1>11. CASE UNCHANGED vars
  BY <1>3, <1>11 DEF vars, reader, tables
<1> QED BY <1>4, <1>5, <1>6, <1>7, <1>8, <1>9, <1>10, <1>11, StepCases

-----------------------------------------------------------------------------
(* Reading the securities: rows lost on the way are pushed out by the      *)
(* crowd.                                                                  *)
LEMMA StoredRowIsRead ==
  ASSUME TablesInv, ReadInv, read # NoRead, NEW i \in rows, i \in issuers,
         ~(read.shape = "page" /\ \E j \in crowd : read.key < j /\ j < i)
  PROVE  i \in RowsOf(issuers, read)
<1>1. PICK old \in SUBSET Ids :
        IsFiniteSet(old) /\ rows = RowsOf(old, read) /\ issuers \ crowd \subseteq old
  BY DEF ReadInv
<1>2. read \in Reads(Ids, Limits \ {0})
  BY DEF ReadInv
<1>3. CASE read.shape = "one"
  BY <1>1, <1>3 DEF RowsOf
<1>4. CASE read.shape = "page"
  <2>1. read.key \in Nat /\ read.limit \in Nat
    <3>1. read \in [shape : {"page"}, key : Ids \union {Start}, limit : Limits \ {0}]
      <4>1. \A r \in [shape : {"one"}, key : Ids, limit : {1}] : r.shape = "one"
        OBVIOUS
      <4>2. \A r \in [shape : {"all"}, key : {Start}, limit : {0}] : r.shape = "all"
        OBVIOUS
      <4> QED BY <1>2, <1>4, <4>1, <4>2 DEF Reads
    <3>2. read.key \in Ids \union {Start} /\ read.limit \in Limits
      BY <3>1
    <3>3. Ids \union {Start} \subseteq Nat
      BY IdsAssumption DEF Start
    <3>4. Limits \subseteq Nat
      BY LimitsAssumption
    <3> QED BY <3>2, <3>3, <3>4
  <2>2. old \in SUBSET Nat /\ issuers \in SUBSET Nat
    BY IdsAssumption DEF TablesInv
  <2>3. i \in Page(old, read.key, read.limit)
    BY <1>1, <1>4 DEF RowsOf
  <2>4. \A j \in issuers : read.key < j /\ j < i => j \in old
    BY <1>1, <1>4
  <2>5. i \in Page(issuers, read.key, read.limit)
    BY <1>1, <2>1, <2>2, <2>3, <2>4, RowStaysOnPage
  <2> QED BY <1>4, <2>5 DEF RowsOf
<1>5. CASE read.shape \notin {"one", "page"}
  BY <1>5 DEF RowsOf
<1> QED BY <1>3, <1>4, <1>5

LEMMA RowsHydrate ==
  ASSUME TablesInv, ReadInv, ReadSecurities, NEW i \in DOMAIN result'
  PROVE  \/ result'[i] = { s \in Securities : owner[s] = i }
         \/ /\ result'[i] = {}
            /\ read.shape = "page" /\ \E j \in crowd : read.key < j /\ j < i
<1>1. /\ i \in rows /\ read # NoRead
      /\ result'[i] = { s \in SecuritiesOf(issuers, owner, read) : owner[s] = i }
  BY DEF ReadSecurities, HydrateRows
<1>2. DOMAIN owner = Securities
  BY DEF TablesInv
<1>3. CASE i \in RowsOf(issuers, read)
  BY <1>1, <1>2, <1>3 DEF SecuritiesOf
<1>4. CASE i \notin RowsOf(issuers, read)
  <2>1. result'[i] = {}
    BY <1>1, <1>2, <1>4 DEF SecuritiesOf
  <2>2. CASE { s \in Securities : owner[s] = i } = {}
    BY <2>1, <2>2
  <2>3. CASE { s \in Securities : owner[s] = i } # {}
    <3>1. i \in issuers \union {Start}
      BY <2>3 DEF TablesInv
    <3>2. i # Start
      <4>1. PICK old \in SUBSET Ids : rows = RowsOf(old, read)
        BY <1>1 DEF ReadInv
      <4>2. i \in Ids
        BY <1>1, <4>1 DEF RowsOf, Page
      <4> QED BY <4>2, IdsAssumption DEF Start
    <3> QED BY <1>1, <1>4, <2>1, <3>1, <3>2, StoredRowIsRead
  <2> QED BY <2>2, <2>3
<1> QED BY <1>3, <1>4

(* No other step hands over what a read found.                             *)
LEMMA ResultsAreReads ==
  ASSUME [Next]_vars, result' # result, result' # NoResult
  PROVE  ReadSecurities
<1>1. ~ClientStep
  BY ClientWritesNothing
<1>2. ~Handle
  BY DEF Handle
<1> QED BY <1>1, <1>2, StepCases
    DEF Insert, Delete, HandleLate, Assign, ReadRows, ReadFails, StartEngine, StopEngine, reader, vars

-----------------------------------------------------------------------------
LEMMA InitHolds == Init => IndInv
<1> SUFFICES ASSUME Init PROVE IndInv
  OBVIOUS
<1>1. TablesInv
  BY FS_EmptySet DEF Init, TablesInv
<1>2. EffectInv
  BY FS_EmptySet DEF Init, EffectInv, Underway, Answered, OutcomesTellTheEffect, SafeToRepeat
<1>3. WalkInv
  <2>1. walk \in Walk
    <3>1. <<>> \in Seq(Ids) /\ {} \in SUBSET Ids /\ Start \in Ids \union {Start}
      OBVIOUS
    <3> QED BY <3>1, WalkRecord DEF Init, NewWalk
  <2>2. StayersListedOnce
    BY DEF Init, NewWalk, StayersListedOnce
  <2> QED BY <2>1, <2>2 DEF Init, NewWalk, WalkInv, Answered, NoCommand
<1>4. ReadInv
  BY DEF Init, ReadInv
<1> QED BY <1>1, <1>2, <1>3, <1>4 DEF IndInv

LEMMA NextKeeps == IndInv /\ [Next]_vars => IndInv'
BY TablesStep, EffectStep, WalkStep, ReadStep DEF IndInv

(* The strengthening holds in every reachable state.                       *)
THEOREM Invariance == Spec => []IndInv
BY InitHolds, NextKeeps, PTL DEF Spec

(* However a command ends, the user knows whether to repeat it: a named    *)
(* error or outcome had no effect, a success wrote the one issuer it names *)
(* or nothing (dispatch, map_status, write_outcome_from_proto).            *)
THEOREM OutcomesTold == Spec => []OutcomesTellTheEffect
<1>1. IndInv => OutcomesTellTheEffect
  BY DEF IndInv, EffectInv
<1> QED BY <1>1, Invariance, PTL

(* A walk through the pages lists nothing twice, in order, and nothing     *)
(* that stayed is left out, for every page size, while others insert and   *)
(* delete and engines come and go (list_paged, next_after).                *)
THEOREM WalksAreComplete == Spec => []StayersListedOnce
<1>1. IndInv => StayersListedOnce
  BY DEF IndInv, WalkInv
<1> QED BY <1>1, Invariance, PTL

(* What two statements without a transaction make of an issuer: all of its *)
(* securities, or none on a page that somebody pushed into (list_paged,    *)
(* hydrate_rows).                                                          *)
THEOREM EagerReads == Spec => EagerReadsAreTrue
<1>1. IndInv /\ [Next]_vars =>
        [result' # result /\ result' # NoResult =>
           \A i \in DOMAIN result' :
             \/ result'[i] = { s \in Securities : owner[s] = i }
             \/ /\ result'[i] = {}
                /\ read.shape = "page" /\ \E j \in crowd : read.key < j /\ j < i]_vars
  BY ResultsAreReads, RowsHydrate DEF IndInv
<1> QED BY <1>1, Invariance, PTL DEF Spec, EagerReadsAreTrue
=============================================================================
