------------------------- MODULE ChannelAdmin_proofs -------------------------
(***************************************************************************)
(* Proofs about ChannelAdmin, for every number of requests and channel     *)
(* ids, both providers and every choice of operations and faults.          *)
(***************************************************************************)
EXTENDS ChannelAdmin, TLAPS

(* A chat refers only to channels that have delivered something.           *)
ChatsWorked == chats \subseteq worked

(* A request that is under way has a channel, has inserted its row only    *)
(* once it is past the INSERT, and has armed it when it was told so.       *)
RequestsConsistent ==
    \A q \in Requests :
        /\ req[q].pc # "idle" => req[q].id \in ChannelId
        /\ req[q].inserted => req[q].pc \in {"arm", "armed", "refused"}
        /\ req[q].pc = "armed" => req[q].id \in worked

(* The unique index: the account has one row at most.                      *)
OneRow == \A c, d \in Rows : c = d

(* The request that inserted the row still has it, and is the only one:    *)
(* another could insert only after this one had removed it.                *)
InsertersOwn ==
    /\ \A q \in Requests : req[q].inserted => req[q].id \in Rows
    /\ \A p, q \in Requests : req[p].inserted /\ req[q].inserted => p = q

Consistent == ChatsWorked /\ RequestsConsistent /\ OneRow /\ InsertersOwn

IInv == TypeOK /\ Consistent /\ NeverWorkedIsRemoved

-----------------------------------------------------------------------------
(* Types.                                                                  *)

LEMMA IdTypes ==
    /\ Nowhere \notin ChannelId
    /\ TypeOK => Rows \subseteq ChannelId /\ \A c \in Rows : channels[c] \in {"live", "deleted"}
  BY AdminAssumption DEF TypeOK, Rows, ChannelId, Nowhere

LEMMA IdleIsRequest == Idle \in Request
  BY DEF Idle, Request

LEMMA InitTypes == Init => TypeOK
  BY AdminAssumption, IdleIsRequest DEF Init, TypeOK, ChannelId, Nowhere

(* Moving one request on keeps the type of all.                            *)
LEMMA RequestUpdated ==
    ASSUME TypeOK, NEW q \in Requests, NEW r \in Request
    PROVE  [req EXCEPT ![q] = r] \in [Requests -> Request]
  BY DEF TypeOK

LEMMA PcUpdated ==
    ASSUME TypeOK, NEW q \in Requests,
           NEW pc \in {"idle", "upsert", "drop", "write", "arm", "armed", "refused", "disarm"}
    PROVE  [req EXCEPT ![q].pc = pc] \in [Requests -> Request]
  BY DEF TypeOK, Request

(* The record a request begins with.                                       *)
LEMMA BegunTyped ==
    ASSUME NEW op \in Ops, NEW id \in ChannelId,
           NEW pc \in {"upsert", "drop", "write", "arm", "disarm"},
           NEW inserted \in BOOLEAN, NEW restore \in BOOLEAN, NEW rearm \in BOOLEAN
    PROVE  [op |-> op, pc |-> pc, id |-> id, inserted |-> inserted,
            restore |-> restore, rearm |-> rearm] \in Request
  BY DEF Request

(* Requests that begin: they make up an id or read a row.                  *)
LEMMA BeginsTyped ==
    ASSUME TypeOK, NEW q \in Requests, NEW c \in ChannelId,
           \/ CreateInserts(q) \/ LoginReads(q) \/ DeleteWrites(q, c) \/ RegisterReads(q, c)
           \/ \E newToken, restore \in BOOLEAN : UpdateReads(q, c, newToken, restore)
    PROVE  TypeOK'
<1>1. CASE CreateInserts(q)
  <2>1. nextId \in ChannelId /\ nextId' \in 1 .. MaxChannels + 1
    BY <1>1, AdminAssumption DEF CreateInserts, TypeOK, ChannelId
  <2> DEFINE begun == [Idle EXCEPT !.op = "create", !.pc = "arm", !.id = nextId,
                                   !.inserted = TRUE]
  <2>2. begun \in Request
    <3>1. "create" \in Ops
      BY <1>1 DEF CreateInserts, Begin
    <3> QED
      BY <3>1, <2>1 DEF Idle, Request
  <2>3. req' \in [Requests -> Request]
    <3>1. req' = [req EXCEPT ![q] = begun]
      BY <1>1 DEF CreateInserts
    <3> HIDE DEF begun
    <3> QED
      BY <3>1, <2>2, RequestUpdated
  <2>4. channels' \in [ChannelId -> {"none", "live", "deleted"}]
    BY <1>1, <2>1 DEF CreateInserts, TypeOK
  <2>5. UNCHANGED <<hook, chats, worked, connected, warned, orphaned>>
    BY <1>1 DEF CreateInserts
  <2> QED
    BY <2>1, <2>3, <2>4, <2>5 DEF TypeOK
<1>2. CASE LoginReads(q)
  <2>1. nextId' \in 1 .. MaxChannels + 1
    <3>1. (nextId <= MaxChannels /\ nextId' = nextId + 1) \/ nextId' = nextId
      BY <1>2 DEF LoginReads
    <3> QED
      BY <3>1, AdminAssumption DEF TypeOK
  <2>2. PICK id \in ChannelId :
           req' = [req EXCEPT ![q] = [Idle EXCEPT !.op = "login", !.pc = "upsert",
                                                  !.id = id]]
    <3>1. CASE nextId <= MaxChannels /\ req' = [req EXCEPT ![q] =
                  [Idle EXCEPT !.op = "login", !.pc = "upsert", !.id = nextId]]
      <4>1. nextId \in ChannelId
        BY <3>1, AdminAssumption DEF TypeOK, ChannelId
      <4> QED
        BY <3>1, <4>1
    <3>2. CASE \E d \in Rows : req' = [req EXCEPT ![q] =
                  [Idle EXCEPT !.op = "login", !.pc = "upsert", !.id = d]]
      BY <3>2 DEF Rows
    <3> QED
      BY <1>2, <3>1, <3>2 DEF LoginReads
  <2>3. [op |-> "login", pc |-> "upsert", id |-> id, inserted |-> FALSE,
         restore |-> FALSE, rearm |-> FALSE] \in Request
    BY <1>2, BegunTyped DEF LoginReads, Begin
  <2>4. req' \in [Requests -> Request]
    BY <2>2, <2>3 DEF TypeOK, Idle
  <2> QED
    BY <1>2, <2>1, <2>4 DEF LoginReads, TypeOK
<1>3. CASE DeleteWrites(q, c)
  <2>1. [op |-> "delete", pc |-> "disarm", id |-> c, inserted |-> FALSE,
         restore |-> FALSE, rearm |-> FALSE] \in Request
    BY <1>3, BegunTyped DEF DeleteWrites, Begin
  <2>2. req' \in [Requests -> Request]
    BY <1>3, <2>1 DEF DeleteWrites, TypeOK, Idle
  <2> QED
    BY <1>3, <2>2 DEF DeleteWrites, TypeOK
<1>4. CASE RegisterReads(q, c)
  <2>1. [op |-> "register", pc |-> "arm", id |-> c, inserted |-> FALSE,
         restore |-> FALSE, rearm |-> FALSE] \in Request
    BY <1>4, BegunTyped DEF RegisterReads, Begin
  <2>2. req' \in [Requests -> Request]
    BY <1>4, <2>1 DEF RegisterReads, TypeOK, Idle
  <2> QED
    BY <1>4, <2>2 DEF RegisterReads, TypeOK
<1>5. CASE \E newToken, restore \in BOOLEAN : UpdateReads(q, c, newToken, restore)
  <2>1. PICK newToken \in BOOLEAN, restore \in BOOLEAN : UpdateReads(q, c, newToken, restore)
    BY <1>5
  <2> DEFINE rearm == Rearms(c, newToken, restore)
  <2>2. rearm \in BOOLEAN
    BY DEF Rearms, Live
  <2>3. PICK pc \in {"drop", "write"} :
           req' = [req EXCEPT ![q] = [Idle EXCEPT !.op = "update", !.pc = pc, !.id = c,
                                                  !.restore = restore, !.rearm = rearm]]
    BY <2>1 DEF UpdateReads
  <2> HIDE DEF rearm
  <2>4. [op |-> "update", pc |-> pc, id |-> c, inserted |-> FALSE,
         restore |-> restore, rearm |-> rearm] \in Request
    BY <2>1, <2>2, BegunTyped DEF UpdateReads, Begin
  <2>5. req' \in [Requests -> Request]
    BY <2>3, <2>4 DEF TypeOK, Idle
  <2> QED
    BY <2>1, <2>5 DEF UpdateReads, TypeOK
<1> QED
  BY <1>1, <1>2, <1>3, <1>4, <1>5

(* Requests that go on or end.                                             *)
LEMMA StepsTyped ==
    ASSUME TypeOK, RequestsConsistent, NEW q \in Requests,
           \/ LoginUpserts(q) \/ UpdateDropsHook(q) \/ UpdateWrites(q) \/ UpdateFails(q)
           \/ DeleteDisarms(q) \/ ArmTaken(q) \/ ArmRefused(q) \/ ArmAnswerLost(q)
           \/ AnswerConnected(q) \/ RollBack(q) \/ AnswerUnarmed(q)
    PROVE  TypeOK'
<1>a. req[q] \in Request
  BY DEF TypeOK
<1>b. ~At(q, "idle") => req[q].id \in ChannelId
  BY DEF RequestsConsistent, At
<1>c. End(q) => req' \in [Requests -> Request]
  BY IdleIsRequest, RequestUpdated DEF End
<1>1. CASE LoginUpserts(q)
  <2>1. CASE /\ channels' = [channels EXCEPT ![req[q].id] = "live"]
             /\ req' = [req EXCEPT ![q].pc = "arm", ![q].inserted = TRUE]
    <3>1. [req[q] EXCEPT !.pc = "arm", !.inserted = TRUE] \in Request
      BY <1>a DEF Request
    <3>2. req' = [req EXCEPT ![q] = [req[q] EXCEPT !.pc = "arm", !.inserted = TRUE]]
      BY <2>1 DEF TypeOK
    <3>3. req' \in [Requests -> Request]
      BY <3>1, <3>2, RequestUpdated
    <3> QED
      BY <1>1, <2>1, <3>3, <1>b DEF LoginUpserts, TypeOK, At
  <2>2. CASE \E c \in Rows :
                /\ channels' = [channels EXCEPT ![c] = "live"]
                /\ req' = [req EXCEPT ![q].pc = "arm", ![q].id = c]
    <3>1. PICK c \in ChannelId :
                /\ channels' = [channels EXCEPT ![c] = "live"]
                /\ req' = [req EXCEPT ![q].pc = "arm", ![q].id = c]
      BY <2>2 DEF Rows
    <3>2. [req[q] EXCEPT !.pc = "arm", !.id = c] \in Request
      BY <1>a DEF Request
    <3>3. req' = [req EXCEPT ![q] = [req[q] EXCEPT !.pc = "arm", !.id = c]]
      BY <3>1 DEF TypeOK
    <3>4. req' \in [Requests -> Request]
      BY <3>2, <3>3, RequestUpdated
    <3> QED
      BY <1>1, <3>1, <3>4 DEF LoginUpserts, TypeOK
  <2> QED
    BY <1>1, <2>1, <2>2 DEF LoginUpserts
<1>2. CASE UpdateDropsHook(q)
  <2>1. req' \in [Requests -> Request]
    BY <1>2, PcUpdated DEF UpdateDropsHook, Goto
  <2> QED
    BY <1>2, <2>1 DEF UpdateDropsHook, TypeOK
<1>3. CASE UpdateWrites(q)
  <2>1. req' \in [Requests -> Request]
    BY <1>3, <1>c, PcUpdated DEF UpdateWrites, Goto
  <2>2. Written(q) \in {"none", "live", "deleted"}
    BY <1>3 DEF UpdateWrites, Written, TypeOK, Rows
  <2> QED
    BY <1>3, <2>1, <2>2 DEF UpdateWrites, TypeOK
<1>4. CASE UpdateFails(q)
  BY <1>4, <1>b, <1>c DEF UpdateFails, TypeOK, At
<1>5. CASE DeleteDisarms(q)
  BY <1>5, <1>c DEF DeleteDisarms, TypeOK
<1>6. CASE ArmTaken(q)
  <2>1. req' \in [Requests -> Request]
    BY <1>6, PcUpdated DEF ArmTaken, Goto
  <2> QED
    BY <1>6, <2>1, <1>b DEF ArmTaken, TypeOK, At
<1>7. CASE ArmRefused(q)
  <2>1. req' \in [Requests -> Request]
    BY <1>7, PcUpdated DEF ArmRefused, Goto
  <2> QED
    BY <1>7, <2>1 DEF ArmRefused, TypeOK
<1>8. CASE ArmAnswerLost(q)
  <2>1. req' \in [Requests -> Request]
    BY <1>8, PcUpdated DEF ArmAnswerLost, Goto
  <2> QED
    BY <1>8, <2>1 DEF ArmAnswerLost, TypeOK
<1>9. CASE AnswerConnected(q)
  BY <1>9, <1>b, <1>c DEF AnswerConnected, TypeOK, At
<1>10. CASE RollBack(q)
  BY <1>10, <1>b, <1>c DEF RollBack, TypeOK, At
<1>11. CASE AnswerUnarmed(q)
  BY <1>11, <1>b, <1>c DEF AnswerUnarmed, TypeOK, At
<1> QED
  BY <1>1, <1>2, <1>3, <1>4, <1>5, <1>6, <1>7, <1>8, <1>9, <1>10, <1>11

LEMMA TypesStep == TypeOK /\ RequestsConsistent /\ [Next]_vars => TypeOK'
<1> SUFFICES ASSUME TypeOK, RequestsConsistent, [Next]_vars
             PROVE  TypeOK'
  OBVIOUS
<1>1. CASE \E q \in Requests :
              \/ LoginUpserts(q) \/ UpdateDropsHook(q) \/ UpdateWrites(q) \/ UpdateFails(q)
              \/ DeleteDisarms(q) \/ ArmTaken(q) \/ ArmRefused(q) \/ ArmAnswerLost(q)
              \/ AnswerConnected(q) \/ RollBack(q) \/ AnswerUnarmed(q)
  BY <1>1, StepsTyped
<1>2. CASE \E q \in Requests : CreateInserts(q) \/ LoginReads(q)
  <2>1. PICK q \in Requests : CreateInserts(q) \/ LoginReads(q)
    BY <1>2
  <2>2. PICK c : c \in ChannelId
    <3>1. CASE Rows # {}
      BY <3>1 DEF Rows
    <3>2. CASE Rows = {}
      <4>1. nextId <= MaxChannels
        BY <2>1, <3>2 DEF CreateInserts, LoginReads
      <4>2. nextId \in ChannelId
        BY <4>1, AdminAssumption DEF TypeOK, ChannelId
      <4> QED
        BY <4>2
    <3> QED
      BY <3>1, <3>2
  <2> QED
    BY <2>1, <2>2, BeginsTyped
<1>3. CASE \E q \in Requests, c \in ChannelId :
              \/ DeleteWrites(q, c) \/ RegisterReads(q, c)
              \/ \E newToken, restore \in BOOLEAN : UpdateReads(q, c, newToken, restore)
  BY <1>3, BeginsTyped
<1>4. CASE \E c \in ChannelId : CustomerWrites(c)
  BY <1>4 DEF CustomerWrites, TypeOK
<1>5. CASE Crash
  <2>1. req' \in [Requests -> Request]
    BY <1>5, IdleIsRequest DEF Crash
  <2>2. \A q \in Requests : req[q].inserted => req[q].id \in ChannelId
    BY DEF RequestsConsistent
  <2>3. orphaned' \subseteq ChannelId
    BY <1>5, <2>2 DEF Crash, TypeOK
  <2> QED
    BY <1>5, <2>1, <2>3 DEF Crash, TypeOK
<1>6. CASE UNCHANGED vars
  BY <1>6 DEF vars, TypeOK
<1> QED
  BY <1>1, <1>2, <1>3, <1>4, <1>5, <1>6 DEF Next

-----------------------------------------------------------------------------
(* The shapes of a step.                                                   *)

(* One request goes on, the others stay.                                   *)
Moved(q, pc, id, inserted) ==
    /\ \A p \in Requests : p # q => req'[p] = req[p]
    /\ req'[q].pc = pc
    /\ req'[q].id = id
    /\ req'[q].inserted = inserted

LEMMA GotoMoves ==
    ASSUME TypeOK, NEW q \in Requests, NEW pc, Goto(q, pc)
    PROVE  Moved(q, pc, req[q].id, req[q].inserted)
  BY DEF TypeOK, Request, Goto, Moved

LEMMA EndMoves ==
    ASSUME TypeOK, NEW q \in Requests, End(q)
    PROVE  Moved(q, "idle", Nowhere, FALSE)
  BY DEF TypeOK, End, Idle, Moved

(* A request begins without having inserted anything.                      *)
LEMMA BeginMoves ==
    ASSUME TypeOK, NEW q \in Requests, NEW op, NEW pc, NEW id, NEW restore, NEW rearm,
           \/ req' = [req EXCEPT ![q] = [Idle EXCEPT !.op = op, !.pc = pc, !.id = id]]
           \/ req' = [req EXCEPT ![q] = [Idle EXCEPT !.op = op, !.pc = pc, !.id = id,
                                                    !.restore = restore,
                                                    !.rearm = rearm]]
    PROVE  Moved(q, pc, id, FALSE)
  BY DEF TypeOK, Idle, Moved

(* A step that leaves the set of rows alone: the request keeps what it     *)
(* had, or lets go of a channel that has worked.                           *)
LEMMA RowsStay ==
    ASSUME IInv, NEW q \in Requests, NEW pc, NEW id, NEW inserted \in BOOLEAN,
           Moved(q, pc, id, inserted),
           Rows' = Rows, worked \subseteq worked', chats' \subseteq worked',
           orphaned \subseteq orphaned',
           pc # "idle" => id \in ChannelId,
           inserted => pc \in {"arm", "armed", "refused"},
           pc = "armed" => id \in worked',
           \/ inserted = req[q].inserted /\ id = req[q].id
           \/ /\ ~inserted
              /\ req[q].inserted => req[q].id \in worked' \cup orphaned'
    PROVE  Consistent' /\ NeverWorkedIsRemoved'
<1>1. ChatsWorked' /\ OneRow'
  BY DEF ChatsWorked, OneRow, IInv, Consistent
<1>2. RequestsConsistent'
  BY DEF RequestsConsistent, IInv, Consistent, Moved
<1>3. InsertersOwn'
  BY DEF InsertersOwn, IInv, Consistent, Moved
<1>4. NeverWorkedIsRemoved'
  <2> SUFFICES ASSUME NEW c \in Rows \ (worked' \cup orphaned')
               PROVE  \E p \in Requests : req'[p].inserted /\ req'[p].id = c
    BY DEF NeverWorkedIsRemoved
  <2>1. PICK p \in Requests : req[p].inserted /\ req[p].id = c
    BY DEF IInv, NeverWorkedIsRemoved
  <2>2. CASE p # q
    BY <2>1, <2>2 DEF Moved
  <2>3. CASE p = q
    BY <2>1, <2>3 DEF Moved
  <2> QED
    BY <2>2, <2>3
<1> QED
  BY <1>1, <1>2, <1>3, <1>4 DEF Consistent

(* The INSERT: there was no row, so nobody else has inserted one.          *)
LEMMA RowInserted ==
    ASSUME IInv, NEW q \in Requests, NEW id \in ChannelId,
           Moved(q, "arm", id, TRUE),
           Rows = {}, Rows' = {id}, UNCHANGED <<worked, chats, orphaned>>
    PROVE  Consistent' /\ NeverWorkedIsRemoved'
<1>1. \A p \in Requests : ~req[p].inserted
  BY DEF IInv, Consistent, InsertersOwn
<1>2. ChatsWorked' /\ OneRow'
  BY DEF ChatsWorked, OneRow, IInv, Consistent
<1>3. RequestsConsistent'
  BY DEF RequestsConsistent, IInv, Consistent, Moved
<1>4. InsertersOwn' /\ NeverWorkedIsRemoved'
  BY <1>1 DEF InsertersOwn, NeverWorkedIsRemoved, Moved
<1> QED
  BY <1>2, <1>3, <1>4 DEF Consistent

(* The physical delete: its request is the only one that had inserted.     *)
LEMMA RowRemoved ==
    ASSUME IInv, NEW q \in Requests, req[q].inserted,
           Moved(q, "idle", Nowhere, FALSE),
           Rows' = Rows \ {req[q].id}, UNCHANGED <<worked, chats, orphaned>>
    PROVE  Consistent' /\ NeverWorkedIsRemoved'
<1>1. \A p \in Requests : p # q => ~req[p].inserted
  BY DEF IInv, Consistent, InsertersOwn
<1>2. ChatsWorked' /\ OneRow' /\ Rows' = {}
  BY DEF ChatsWorked, OneRow, InsertersOwn, IInv, Consistent
<1>3. RequestsConsistent'
  BY DEF RequestsConsistent, IInv, Consistent, Moved
<1>4. InsertersOwn' /\ NeverWorkedIsRemoved'
  BY <1>1, <1>2 DEF InsertersOwn, NeverWorkedIsRemoved, Moved
<1> QED
  BY <1>2, <1>3, <1>4 DEF Consistent

-----------------------------------------------------------------------------
(* The inductive invariant.                                                *)

LEMMA InitIInv == Init => IInv
<1> SUFFICES ASSUME Init PROVE IInv
  OBVIOUS
<1>1. Rows = {} /\ \A q \in Requests : req[q] = Idle
  BY DEF Init, Rows
<1> QED
  BY <1>1, InitTypes DEF Init, IInv, Consistent, ChatsWorked, RequestsConsistent, OneRow,
     InsertersOwn, NeverWorkedIsRemoved, Idle

(* A row written over keeps the set of rows.                               *)
LEMMA RowWritten ==
    ASSUME TypeOK, NEW c \in Rows, NEW state \in {"live", "deleted"},
           channels' = [channels EXCEPT ![c] = state]
    PROVE  Rows' = Rows
  BY DEF TypeOK, Rows

(* Requests that begin.                                                    *)
LEMMA BeginsConsistent ==
    ASSUME IInv, NEW q \in Requests, NEW c \in ChannelId,
           \/ LoginReads(q) \/ DeleteWrites(q, c) \/ RegisterReads(q, c)
           \/ \E newToken, restore \in BOOLEAN : UpdateReads(q, c, newToken, restore)
    PROVE  Consistent' /\ NeverWorkedIsRemoved'
<1>a. At(q, "idle") /\ ~req[q].inserted
  BY DEF LoginReads, DeleteWrites, RegisterReads, UpdateReads, Begin, At, IInv,
     Consistent, RequestsConsistent
<1>b. UNCHANGED <<chats, worked, orphaned>> /\ chats' \subseteq worked'
  BY DEF LoginReads, DeleteWrites, RegisterReads, UpdateReads, IInv, Consistent, ChatsWorked
<1>c. TypeOK
  BY DEF IInv
<1>1. Rows' = Rows
  <2>1. CASE DeleteWrites(q, c)
    BY <2>1, <1>c, RowWritten DEF DeleteWrites
  <2>2. CASE UNCHANGED channels
    BY <2>2 DEF Rows
  <2> QED
    BY <2>1, <2>2 DEF LoginReads, RegisterReads, UpdateReads
<1>2. \E id \in ChannelId, pc \in {"upsert", "drop", "write", "arm", "disarm"} :
         Moved(q, pc, id, FALSE)
  <2>1. CASE LoginReads(q)
    <3>1. CASE nextId <= MaxChannels /\ req' = [req EXCEPT ![q] =
                  [Idle EXCEPT !.op = "login", !.pc = "upsert", !.id = nextId]]
      <4>1. nextId \in ChannelId
        BY <3>1, <1>c, AdminAssumption DEF TypeOK, ChannelId
      <4>2. Moved(q, "upsert", nextId, FALSE)
        BY <3>1, <1>c, BeginMoves
      <4> QED
        BY <4>1, <4>2
    <3>2. CASE \E d \in Rows : req' = [req EXCEPT ![q] =
                  [Idle EXCEPT !.op = "login", !.pc = "upsert", !.id = d]]
      <4>1. PICK d \in ChannelId : req' = [req EXCEPT ![q] =
                  [Idle EXCEPT !.op = "login", !.pc = "upsert", !.id = d]]
        BY <3>2 DEF Rows
      <4>2. Moved(q, "upsert", d, FALSE)
        BY <4>1, <1>c, BeginMoves
      <4> QED
        BY <4>2
    <3> QED
      BY <2>1, <3>1, <3>2 DEF LoginReads
  <2>2. CASE DeleteWrites(q, c)
    <3>1. Moved(q, "disarm", c, FALSE)
      BY <2>2, <1>c, BeginMoves DEF DeleteWrites
    <3> QED
      BY <3>1
  <2>3. CASE RegisterReads(q, c)
    <3>1. Moved(q, "arm", c, FALSE)
      BY <2>3, <1>c, BeginMoves DEF RegisterReads
    <3> QED
      BY <3>1
  <2>4. CASE \E newToken, restore \in BOOLEAN : UpdateReads(q, c, newToken, restore)
    <3>1. PICK newToken \in BOOLEAN, restore \in BOOLEAN :
             UpdateReads(q, c, newToken, restore)
      BY <2>4
    <3>2. PICK pc \in {"drop", "write"} :
             req' = [req EXCEPT ![q] =
                       [Idle EXCEPT !.op = "update", !.pc = pc, !.id = c,
                                    !.restore = restore,
                                    !.rearm = Rearms(c, newToken, restore)]]
      BY <3>1 DEF UpdateReads
    <3>3. Moved(q, pc, c, FALSE)
      BY <3>2, <1>c, BeginMoves
    <3> QED
      BY <3>3
  <2> QED
    BY <2>1, <2>2, <2>3, <2>4
<1>3. PICK id \in ChannelId, pc \in {"upsert", "drop", "write", "arm", "disarm"} :
         Moved(q, pc, id, FALSE)
  BY <1>2
<1> QED
  BY <1>a, <1>b, <1>1, <1>3, RowsStay

(* Requests that insert.                                                   *)
LEMMA InsertsConsistent ==
    ASSUME IInv, NEW q \in Requests, CreateInserts(q) \/ LoginUpserts(q)
    PROVE  Consistent' /\ NeverWorkedIsRemoved'
<1>a. TypeOK
  BY DEF IInv
<1>b. UNCHANGED <<chats, worked, orphaned>> /\ chats' \subseteq worked'
  BY DEF CreateInserts, LoginUpserts, IInv, Consistent, ChatsWorked
<1>1. CASE CreateInserts(q)
  <2>1. nextId \in ChannelId
    BY <1>1, <1>a, AdminAssumption DEF CreateInserts, TypeOK, ChannelId
  <2>2. Moved(q, "arm", nextId, TRUE)
    BY <1>1, <1>a DEF CreateInserts, TypeOK, Idle, Moved
  <2>3. Rows = {} /\ Rows' = {nextId}
    BY <1>1, <1>a, <2>1 DEF CreateInserts, TypeOK, Rows
  <2> QED
    BY <1>b, <2>1, <2>2, <2>3, RowInserted
<1>2. CASE LoginUpserts(q)
  <2>1. req[q].id \in ChannelId /\ ~req[q].inserted /\ req[q] \in Request
    BY <1>2, <1>a DEF LoginUpserts, At, IInv, Consistent, RequestsConsistent, TypeOK
  <2>2. CASE /\ Rows = {}
             /\ channels' = [channels EXCEPT ![req[q].id] = "live"]
             /\ req' = [req EXCEPT ![q].pc = "arm", ![q].inserted = TRUE]
    <3>1. Moved(q, "arm", req[q].id, TRUE)
      BY <2>2, <1>a DEF TypeOK, Request, Moved
    <3>2. Rows' = {req[q].id}
      BY <2>1, <2>2, <1>a DEF TypeOK, Rows
    <3> QED
      BY <1>b, <2>1, <2>2, <3>1, <3>2, RowInserted
  <2>3. CASE \E c \in Rows :
                /\ channels' = [channels EXCEPT ![c] = "live"]
                /\ req' = [req EXCEPT ![q].pc = "arm", ![q].id = c]
    <3>1. PICK c \in Rows :
                /\ channels' = [channels EXCEPT ![c] = "live"]
                /\ req' = [req EXCEPT ![q].pc = "arm", ![q].id = c]
      BY <2>3
    <3>2. Moved(q, "arm", c, FALSE)
      BY <2>1, <3>1, <1>a DEF TypeOK, Request, Moved
    <3>3. c \in ChannelId
      BY DEF Rows
    <3>4. Rows' = Rows
      BY <3>1, <1>a, RowWritten
    <3> QED
      BY <1>b, <2>1, <3>2, <3>3, <3>4, RowsStay
  <2> QED
    BY <1>2, <2>2, <2>3 DEF LoginUpserts
<1> QED
  BY <1>1, <1>2

(* Requests that go on or end without touching the set of rows.            *)
LEMMA ProceedsConsistent ==
    ASSUME IInv, NEW q \in Requests,
           \/ UpdateDropsHook(q) \/ UpdateWrites(q) \/ UpdateFails(q) \/ DeleteDisarms(q)
           \/ ArmTaken(q) \/ ArmRefused(q) \/ ArmAnswerLost(q) \/ AnswerConnected(q)
           \/ AnswerUnarmed(q)
    PROVE  Consistent' /\ NeverWorkedIsRemoved'
<1>a. TypeOK /\ req[q] \in Request /\ req[q].inserted \in BOOLEAN
  BY DEF IInv, TypeOK, Request
<1>b. worked \subseteq worked' /\ chats' \subseteq worked' /\ UNCHANGED orphaned
  BY DEF UpdateDropsHook, UpdateWrites, UpdateFails, DeleteDisarms, ArmTaken, ArmRefused,
     ArmAnswerLost, AnswerConnected, AnswerUnarmed, IInv, Consistent, ChatsWorked
<1>c. /\ req[q].pc # "idle" => req[q].id \in ChannelId
      /\ req[q].inserted => req[q].pc \in {"arm", "armed", "refused"}
      /\ req[q].pc = "armed" => req[q].id \in worked
  BY DEF IInv, Consistent, RequestsConsistent
<1>d. UNCHANGED channels => Rows' = Rows
  BY DEF Rows
<1>1. CASE UpdateDropsHook(q)
  <2>1. Moved(q, "write", req[q].id, req[q].inserted)
    BY <1>1, <1>a, GotoMoves DEF UpdateDropsHook
  <2> QED
    BY <1>1, <1>a, <1>b, <1>c, <1>d, <2>1, RowsStay DEF UpdateDropsHook, At
<1>2. CASE UpdateWrites(q)
  <2>1. Rows' = Rows
    <3>1. Written(q) \in {"live", "deleted"}
      BY <1>2, <1>a DEF UpdateWrites, Written, Rows, TypeOK
    <3> QED
      BY <1>2, <1>a, <3>1, RowWritten DEF UpdateWrites
  <2>2. ~req[q].inserted
    BY <1>2, <1>c DEF UpdateWrites, At
  <2>3. CASE Goto(q, "arm")
    <3>1. Moved(q, "arm", req[q].id, req[q].inserted)
      BY <2>3, <1>a, GotoMoves
    <3> QED
      BY <1>2, <1>a, <1>b, <1>c, <2>1, <3>1, RowsStay DEF UpdateWrites, At
  <2>4. CASE End(q)
    <3>1. Moved(q, "idle", Nowhere, FALSE)
      BY <2>4, <1>a, EndMoves
    <3> QED
      BY <1>b, <2>1, <2>2, <3>1, RowsStay
  <2> QED
    BY <1>2, <2>3, <2>4 DEF UpdateWrites
<1>3. CASE UpdateFails(q) \/ DeleteDisarms(q) \/ AnswerConnected(q) \/ AnswerUnarmed(q)
  <2>1. Moved(q, "idle", Nowhere, FALSE)
    BY <1>3, <1>a, EndMoves DEF UpdateFails, DeleteDisarms, AnswerConnected, AnswerUnarmed
  <2>2. req[q].inserted => req[q].id \in worked'
    BY <1>3, <1>b, <1>c DEF UpdateFails, DeleteDisarms, AnswerConnected, AnswerUnarmed, At
  <2>3. Rows' = Rows
    BY <1>3, <1>d DEF UpdateFails, DeleteDisarms, AnswerConnected, AnswerUnarmed
  <2> QED
    BY <1>b, <2>1, <2>2, <2>3, RowsStay
<1>4. CASE ArmTaken(q)
  <2>1. Moved(q, "armed", req[q].id, req[q].inserted)
    BY <1>4, <1>a, GotoMoves DEF ArmTaken
  <2>2. req[q].id \in worked' /\ req[q].id \in ChannelId
    BY <1>4, <1>c DEF ArmTaken, At
  <2> QED
    BY <1>4, <1>a, <1>b, <1>d, <2>1, <2>2, RowsStay DEF ArmTaken
<1>5. CASE ArmRefused(q) \/ ArmAnswerLost(q)
  <2>1. Moved(q, "refused", req[q].id, req[q].inserted)
    BY <1>5, <1>a, GotoMoves DEF ArmRefused, ArmAnswerLost
  <2>2. req[q].id \in ChannelId
    BY <1>5, <1>c DEF ArmRefused, ArmAnswerLost, At
  <2>3. Rows' = Rows
    BY <1>5, <1>d DEF ArmRefused, ArmAnswerLost
  <2> QED
    BY <1>a, <1>b, <2>1, <2>2, <2>3, RowsStay
<1> QED
  BY <1>1, <1>2, <1>3, <1>4, <1>5

(* The rollback: it removes the row, or leaves one that has worked, or its *)
(* statement fails and the row is an orphan.                               *)
LEMMA RollBackConsistent ==
    ASSUME IInv, NEW q \in Requests, RollBack(q)
    PROVE  Consistent' /\ NeverWorkedIsRemoved'
<1>a. TypeOK /\ req[q].inserted
  BY DEF IInv, RollBack
<1>b. UNCHANGED <<chats, worked>> /\ chats \subseteq worked
  BY DEF RollBack, IInv, Consistent, ChatsWorked
<1>1. Moved(q, "idle", Nowhere, FALSE)
  BY <1>a, EndMoves DEF RollBack
<1>2. CASE channels' = [channels EXCEPT ![req[q].id] = "none"] /\ UNCHANGED orphaned
  <2>1. Rows' = Rows \ {req[q].id}
    BY <1>2, <1>a DEF TypeOK, Rows
  <2> QED
    BY <1>a, <1>b, <1>1, <1>2, <2>1, RowRemoved
<1>3. CASE /\ UNCHANGED channels
           /\ \/ req[q].id \in chats /\ UNCHANGED orphaned
              \/ orphaned' = orphaned \cup {req[q].id}
  <2>1. req[q].id \in worked' \cup orphaned'
    BY <1>3, <1>b
  <2>2. Rows' = Rows
    BY <1>3 DEF Rows
  <2>3. orphaned \subseteq orphaned'
    BY <1>3
  <2> QED
    BY <1>b, <1>1, <2>1, <2>2, <2>3, RowsStay
<1> QED
  BY <1>2, <1>3 DEF RollBack

LEMMA NextIInv == IInv /\ [Next]_vars => IInv'
<1> SUFFICES ASSUME IInv, [Next]_vars
             PROVE  IInv'
  OBVIOUS
<1>1. TypeOK'
  BY TypesStep DEF IInv, Consistent
<1>2. Consistent' /\ NeverWorkedIsRemoved'
  <2>1. CASE \E q \in Requests : CreateInserts(q) \/ LoginUpserts(q)
    BY <2>1, InsertsConsistent
  <2>2. CASE \E q \in Requests : LoginReads(q)
    <3>1. PICK q \in Requests : LoginReads(q)
      BY <2>2
    <3>2. CASE ChannelId # {}
      BY <3>1, <3>2, BeginsConsistent
    <3>3. CASE ChannelId = {}
      <4>1. Rows = {} /\ nextId <= MaxChannels
        BY <3>1, <3>3 DEF LoginReads, Rows
      <4>2. nextId \in ChannelId
        BY <4>1, AdminAssumption DEF IInv, TypeOK, ChannelId
      <4> QED
        BY <3>3, <4>2
    <3> QED
      BY <3>2, <3>3
  <2>3. CASE \E q \in Requests, c \in ChannelId :
                \/ DeleteWrites(q, c) \/ RegisterReads(q, c)
                \/ \E newToken, restore \in BOOLEAN : UpdateReads(q, c, newToken, restore)
    BY <2>3, BeginsConsistent
  <2>4. CASE \E q \in Requests :
                \/ UpdateDropsHook(q) \/ UpdateWrites(q) \/ UpdateFails(q)
                \/ DeleteDisarms(q) \/ ArmTaken(q) \/ ArmRefused(q) \/ ArmAnswerLost(q)
                \/ AnswerConnected(q) \/ AnswerUnarmed(q)
    BY <2>4, ProceedsConsistent
  <2>5. CASE \E q \in Requests : RollBack(q)
    BY <2>5, RollBackConsistent
  <2>6. CASE \E c \in ChannelId : CustomerWrites(c)
    BY <2>6 DEF CustomerWrites, Rows, IInv, Consistent, ChatsWorked, RequestsConsistent,
       OneRow, InsertersOwn, NeverWorkedIsRemoved
  <2>7. CASE Crash
    BY <2>7 DEF Crash, Idle, Rows, IInv, Consistent, ChatsWorked, RequestsConsistent,
       OneRow, InsertersOwn, NeverWorkedIsRemoved
  <2>8. CASE UNCHANGED vars
    BY <2>8 DEF vars, Rows, IInv, Consistent, ChatsWorked, RequestsConsistent,
       OneRow, InsertersOwn, NeverWorkedIsRemoved
  <2> QED
    BY <2>1, <2>2, <2>3, <2>4, <2>5, <2>6, <2>7, <2>8 DEF Next
<1> QED
  BY <1>1, <1>2 DEF IInv

-----------------------------------------------------------------------------
(* The theorems.                                                           *)

(* The inductive invariant of channel administration (handler/channels.rs, *)
(* connection.rs, oauth.rs).                                               *)
THEOREM Invariance == Spec => []IInv
<1>1. Init => IInv
  BY InitIInv
<1>2. IInv /\ [Next]_vars => IInv'
  BY NextIInv
<1> QED
  BY <1>1, <1>2, PTL DEF Spec

(* Every variable keeps its type.                                          *)
THEOREM TypeCorrectness == Spec => []TypeOK
<1>1. IInv => TypeOK
  BY DEF IInv
<1> QED
  BY <1>1, Invariance, PTL

(* The rollbacks of create and connect leave no channel behind that never  *)
(* worked, but for those the process or the rollback itself died over.     *)
THEOREM NeverWorkedIsGone == Spec => []NeverWorkedIsRemoved
<1>1. IInv => NeverWorkedIsRemoved
  BY DEF IInv
<1> QED
  BY <1>1, Invariance, PTL

(* A live channel's webhook is repointed only by a request whose own row a *)
(* rollback has removed since it was read, never by one that inserted.     *)
THEOREM HooksAreKept == Spec => OnlyStaleReadsSteal
<1> DEFINE Kept == \A c \in ChannelId :
          Live(c) /\ hook = c /\ hook' \notin {c, Nowhere} =>
              \E q \in Requests :
                  /\ At(q, "arm") /\ req[q].id = hook'
                  /\ ~req[q].inserted
                  /\ req[q].id \notin Rows
<1>1. IInv /\ [Next]_vars => [Kept]_vars
  <2> SUFFICES ASSUME IInv, [Next]_vars, NEW c \in ChannelId,
                      Live(c), hook = c, hook' \notin {c, Nowhere}
               PROVE  \E q \in Requests :
                         /\ At(q, "arm") /\ req[q].id = hook'
                         /\ ~req[q].inserted
                         /\ req[q].id \notin Rows
    OBVIOUS
  <2>1. PICK q \in Requests : ArmTaken(q)
    BY DEF Next, vars, CreateInserts, LoginReads, LoginUpserts, UpdateReads, UpdateDropsHook,
       UpdateWrites, UpdateFails, DeleteWrites, DeleteDisarms, RegisterReads, ArmRefused,
       ArmAnswerLost, AnswerConnected, RollBack, AnswerUnarmed, CustomerWrites, Crash
  <2>2. At(q, "arm") /\ req[q].id = hook' /\ req[q].id # c
    BY <2>1 DEF ArmTaken
  <2>3. c \in Rows
    BY DEF Live, Rows
  <2>4. req[q].id \notin Rows
    BY <2>2, <2>3 DEF IInv, Consistent, OneRow
  <2>5. ~req[q].inserted
    BY <2>4 DEF IInv, Consistent, InsertersOwn
  <2> QED
    BY <2>2, <2>4, <2>5
<1> QED
  BY <1>1, Invariance, PTL DEF Spec, OnlyStaleReadsSteal

(* A deleted channel comes back only by a request asked to bring it back.  *)
THEOREM DeletesStay == Spec => DeletedStaysDeleted
<1> DEFINE Stays == \A c \in ChannelId :
          channels[c] = "deleted" /\ channels'[c] = "live" =>
              \E q \in Requests :
                  \/ At(q, "write") /\ req[q].restore /\ req[q].id = c
                  \/ At(q, "upsert")
<1>1. IInv /\ [Next]_vars => [Stays]_vars
  <2> SUFFICES ASSUME IInv, [Next]_vars, NEW c \in ChannelId,
                      channels[c] = "deleted", channels'[c] = "live"
               PROVE  \E q \in Requests :
                         \/ At(q, "write") /\ req[q].restore /\ req[q].id = c
                         \/ At(q, "upsert")
    OBVIOUS
  <2>a. channels \in [ChannelId -> {"none", "live", "deleted"}]
    BY DEF IInv, TypeOK
  <2>b. c \in Rows
    BY DEF Rows
  <2>1. ~UNCHANGED channels
    OBVIOUS
  <2>2. CASE \E q \in Requests : CreateInserts(q)
    BY <2>2, <2>b DEF CreateInserts
  <2>3. CASE \E q \in Requests : LoginUpserts(q)
    BY <2>3 DEF LoginUpserts
  <2>4. CASE \E q \in Requests : UpdateWrites(q)
    BY <2>4, <2>a DEF UpdateWrites, Written
  <2>5. CASE \E q \in Requests, d \in ChannelId : DeleteWrites(q, d)
    BY <2>5, <2>a DEF DeleteWrites
  <2>6. CASE \E q \in Requests : RollBack(q)
    BY <2>6, <2>a DEF RollBack
  <2> QED
    BY <2>1, <2>2, <2>3, <2>4, <2>5, <2>6 DEF Next, vars, LoginReads, UpdateReads,
       UpdateDropsHook, UpdateFails, DeleteDisarms, RegisterReads, ArmTaken, ArmRefused,
       ArmAnswerLost, AnswerConnected, AnswerUnarmed, CustomerWrites, Crash
<1> QED
  BY <1>1, Invariance, PTL DEF Spec, DeletedStaysDeleted

-----------------------------------------------------------------------------
(* One request after the other.                                            *)

(* A request will say how its last word to the provider ended.             *)
WillArm(q) == req[q].pc \in {"arm", "refused"} \/ (req[q].pc = "write" /\ req[q].rearm)

(* Nobody interferes: the row is there until the request has ended, what   *)
(* was decided on it still fits, and an armed hook has not moved.          *)
Undisturbed(q) ==
    /\ req[q].pc \notin {"idle", "upsert"} => req[q].id \in Rows
    /\ req[q].pc = "armed" => hook = req[q].id
    /\ req[q].pc \in {"drop", "write"} /\ (Live(req[q].id) \/ req[q].restore) => req[q].rearm
    /\ req[q].pc = "disarm" => ~Live(req[q].id)

(* A deaf channel was reported, or the request that is on it will arm it.  *)
Accounted(q) ==
    \A c \in ChannelId :
        Live(c) /\ ~Reaches(c) /\ c \notin warned => req[q].id = c /\ WillArm(q)

Serial(q) == Undisturbed(q) /\ Accounted(q)

(* Requests that begin read the row or make it.                            *)
LEMMA BeginsSerially ==
    ASSUME IInv, NEW q \in Requests, Serial(q),
           \/ CreateInserts(q) \/ LoginReads(q)
           \/ \E c \in ChannelId :
                 \/ DeleteWrites(q, c) \/ RegisterReads(q, c)
                 \/ \E newToken, restore \in BOOLEAN : UpdateReads(q, c, newToken, restore)
    PROVE  Serial(q)'
<1>a. TypeOK /\ req[q].pc = "idle" /\ ~WillArm(q)
  BY DEF IInv, CreateInserts, LoginReads, DeleteWrites, RegisterReads, UpdateReads, Begin, At,
     WillArm
<1>b. \A c \in ChannelId : Live(c) /\ ~Reaches(c) => c \in warned
  BY <1>a DEF Serial, Accounted
<1>1. CASE CreateInserts(q)
  <2>1. nextId \in ChannelId
    BY <1>1, <1>a, AdminAssumption DEF CreateInserts, TypeOK, ChannelId
  <2>2. req'[q].pc = "arm" /\ req'[q].id = nextId
    BY <1>1, <1>a DEF CreateInserts, TypeOK
  <2>3. channels'[nextId] = "live" /\ \A c \in ChannelId : c # nextId => channels'[c] = "none"
    BY <1>1, <1>a, <2>1 DEF CreateInserts, TypeOK, Rows
  <2> QED
    BY <2>1, <2>2, <2>3 DEF Serial, Undisturbed, Accounted, WillArm, Rows, Live
<1>2. CASE LoginReads(q)
  <2>1. req'[q].pc = "upsert" /\ UNCHANGED <<channels, hook, warned>>
    BY <1>2, <1>a DEF LoginReads, TypeOK, Idle
  <2> QED
    BY <1>b, <2>1 DEF Serial, Undisturbed, Accounted, Reaches, Live
<1>3. ASSUME NEW c \in ChannelId, DeleteWrites(q, c)
      PROVE  Serial(q)'
  <2>1. req'[q].pc = "disarm" /\ req'[q].id = c /\ UNCHANGED <<hook, warned>>
    BY <1>3, <1>a DEF DeleteWrites, TypeOK, Idle
  <2>2. channels'[c] = "deleted" /\ \A d \in ChannelId : d # c => channels'[d] = channels[d]
    BY <1>3, <1>a DEF DeleteWrites, TypeOK
  <2> QED
    BY <1>b, <2>1, <2>2 DEF Serial, Undisturbed, Accounted, Reaches, Live, Rows
<1>4. ASSUME NEW c \in ChannelId, RegisterReads(q, c)
      PROVE  Serial(q)'
  <2>1. req'[q].pc = "arm" /\ req'[q].id = c /\ UNCHANGED <<channels, hook, warned>>
    BY <1>4, <1>a DEF RegisterReads, TypeOK, Idle
  <2>2. c \in Rows
    BY <1>4 DEF RegisterReads, Live, Rows
  <2> QED
    BY <1>b, <2>1, <2>2 DEF Serial, Undisturbed, Accounted, Reaches, Live, Rows
<1>5. ASSUME NEW c \in ChannelId, NEW newToken \in BOOLEAN, NEW restore \in BOOLEAN,
             UpdateReads(q, c, newToken, restore)
      PROVE  Serial(q)'
  <2>1. /\ req'[q].pc \in {"drop", "write"} /\ req'[q].id = c
        /\ req'[q].restore = restore /\ req'[q].rearm = Rearms(c, newToken, restore)
        /\ UNCHANGED <<channels, hook, warned>>
    <3>1. PICK pc \in {"drop", "write"} :
             req' = [req EXCEPT ![q] = [Idle EXCEPT !.op = "update", !.pc = pc, !.id = c,
                                                    !.restore = restore,
                                                    !.rearm = Rearms(c, newToken, restore)]]
      <4>1. PICK pc \in IF newToken /\ Provider = "telegram" THEN {"drop", "write"}
                        ELSE {"write"} :
               req' = [req EXCEPT ![q] = [Idle EXCEPT !.op = "update", !.pc = pc, !.id = c,
                                                      !.restore = restore,
                                                      !.rearm = Rearms(c, newToken, restore)]]
        BY <1>5 DEF UpdateReads
      <4>2. pc \in {"drop", "write"}
        OBVIOUS
      <4> QED
        BY <4>1, <4>2
    <3>2. UNCHANGED <<channels, hook, warned>>
      BY <1>5 DEF UpdateReads
    <3> QED
      BY <1>a, <3>1, <3>2 DEF TypeOK, Idle
  <2>2. c \in Rows /\ (newToken \/ restore)
    BY <1>5 DEF UpdateReads
  <2> QED
    BY <1>b, <2>1, <2>2 DEF Serial, Undisturbed, Accounted, Reaches, Live, Rows, Rearms
<1> QED
  BY <1>1, <1>2, <1>3, <1>4, <1>5

(* The statements that write the row.                                      *)
LEMMA WritesSerially ==
    ASSUME IInv, NEW q \in Requests, Serial(q),
           LoginUpserts(q) \/ UpdateWrites(q) \/ UpdateFails(q) \/ RollBack(q)
    PROVE  Serial(q)'
<1>a. TypeOK /\ req[q] \in Request /\ OneRow
  BY DEF IInv, Consistent, TypeOK
<1>1. CASE LoginUpserts(q)
  <2>1. PICK c \in ChannelId :
           /\ channels' = [channels EXCEPT ![c] = "live"]
           /\ req'[q].pc = "arm" /\ req'[q].id = c
           /\ \A d \in Rows : d = c
    <3>1. req[q].id \in ChannelId
      BY <1>1 DEF LoginUpserts, At, IInv, Consistent, RequestsConsistent
    <3>2. CASE Rows = {} /\ channels' = [channels EXCEPT ![req[q].id] = "live"]
               /\ req' = [req EXCEPT ![q].pc = "arm", ![q].inserted = TRUE]
      BY <1>a, <3>1, <3>2 DEF TypeOK, Request
    <3>3. ASSUME NEW c \in Rows, channels' = [channels EXCEPT ![c] = "live"],
                 req' = [req EXCEPT ![q].pc = "arm", ![q].id = c]
          PROVE  \E d \in ChannelId :
                    /\ channels' = [channels EXCEPT ![d] = "live"]
                    /\ req'[q].pc = "arm" /\ req'[q].id = d
                    /\ \A e \in Rows : e = d
      BY <1>a, <3>3 DEF TypeOK, Request, OneRow, Rows
    <3> QED
      BY <1>1, <3>2, <3>3 DEF LoginUpserts
  <2>2. channels'[c] = "live" /\ \A d \in ChannelId : d # c => channels'[d] = "none"
    BY <1>a, <2>1 DEF TypeOK, Rows
  <2> QED
    BY <2>1, <2>2 DEF Serial, Undisturbed, Accounted, WillArm, Rows, Live
<1>2. CASE UpdateWrites(q)
  <2> DEFINE c == req[q].id
  <2>1. c \in Rows /\ channels' = [channels EXCEPT ![c] = Written(q)]
        /\ UNCHANGED <<hook, warned>> /\ req[q].pc = "write"
    BY <1>2 DEF UpdateWrites, At
  <2>2. channels'[c] = Written(q) /\ \A d \in ChannelId : d # c => channels'[d] = "none"
    BY <1>a, <2>1 DEF TypeOK, Rows, OneRow
  <2>3. Written(q) = "live" => req[q].rearm
    BY <2>1 DEF Serial, Undisturbed, Written, Live
  <2>4. Written(q) # "none"
    BY <2>1 DEF Written, Rows
  <2>5. CASE req[q].rearm
    <3>1. req'[q].pc = "arm" /\ req'[q].id = c
      BY <1>2, <1>a, <2>5 DEF UpdateWrites, Goto, TypeOK, Request
    <3> QED
      BY <2>1, <2>2, <2>4, <3>1 DEF Serial, Undisturbed, Accounted, WillArm, Rows, Live
  <2>6. CASE ~req[q].rearm
    <3>1. req'[q].pc = "idle"
      BY <1>2, <1>a, <2>6 DEF UpdateWrites, End, TypeOK, Idle
    <3> QED
      BY <2>2, <2>3, <2>6, <3>1 DEF Serial, Undisturbed, Accounted, Live
  <2> QED
    BY <2>5, <2>6
<1>3. CASE UpdateFails(q)
  <2>1. req'[q].pc = "idle" /\ warned' = warned \cup {req[q].id} /\ UNCHANGED <<channels, hook>>
    BY <1>3, <1>a DEF UpdateFails, End, TypeOK, Idle
  <2> QED
    BY <2>1 DEF Serial, Undisturbed, Accounted, Reaches, Live
<1>4. CASE RollBack(q)
  <2>1. req'[q].pc = "idle" /\ warned' = warned \cup {req[q].id} /\ UNCHANGED hook
    BY <1>4, <1>a DEF RollBack, End, TypeOK, Idle
  <2>2. \A c \in ChannelId : channels'[c] = "live" => channels[c] = "live"
    BY <1>4, <1>a DEF RollBack, TypeOK
  <2> QED
    BY <2>1, <2>2 DEF Serial, Undisturbed, Accounted, Reaches, Live
<1> QED
  BY <1>1, <1>2, <1>3, <1>4

(* What the provider is told, and the answers.                             *)
LEMMA AnswersSerially ==
    ASSUME IInv, NEW q \in Requests, Serial(q),
           \/ UpdateDropsHook(q) \/ DeleteDisarms(q) \/ ArmTaken(q) \/ ArmRefused(q)
           \/ ArmAnswerLost(q) \/ AnswerConnected(q) \/ AnswerUnarmed(q)
    PROVE  Serial(q)'
<1> DEFINE c == req[q].id
<1>a. TypeOK /\ req[q] \in Request /\ Nowhere \notin ChannelId
  BY IdTypes DEF IInv, TypeOK
<1>b. c \in Rows /\ UNCHANGED channels
  BY DEF Serial, Undisturbed, At, UpdateDropsHook, DeleteDisarms, ArmTaken, ArmRefused,
     ArmAnswerLost, AnswerConnected, AnswerUnarmed
<1>c. \A d \in ChannelId : Live(d) => d = c
  BY <1>b DEF IInv, Consistent, OneRow, Rows, Live
<1>1. CASE UpdateDropsHook(q)
  <2>1. req[q].pc = "drop" /\ req' = [req EXCEPT ![q].pc = "write"]
    BY <1>1 DEF UpdateDropsHook, At, Goto
  <2>2. /\ req'[q].pc = "write" /\ req'[q].id = c
        /\ req'[q].restore = req[q].restore /\ req'[q].rearm = req[q].rearm
    BY <1>a, <2>1 DEF TypeOK, Request
  <2> QED
    BY <1>b, <1>c, <2>1, <2>2 DEF Serial, Undisturbed, Accounted, WillArm, Live, Rows
<1>2. CASE DeleteDisarms(q)
  <2>1. ~Live(c)
    BY <1>2 DEF DeleteDisarms, At, Serial, Undisturbed
  <2>2. req'[q].pc = "idle"
    BY <1>2, <1>a DEF DeleteDisarms, End, TypeOK, Idle
  <2> QED
    BY <1>b, <1>c, <2>1, <2>2 DEF Serial, Undisturbed, Accounted, Live
<1>3. CASE ArmTaken(q)
  <2>1. req'[q].pc = "armed" /\ req'[q].id = c /\ hook' = c
    BY <1>3, <1>a DEF ArmTaken, Goto, TypeOK, Request
  <2> QED
    BY <1>a, <1>b, <1>c, <2>1 DEF Serial, Undisturbed, Accounted, Reaches, Live, Rows
<1>4. CASE ArmRefused(q)
  <2>1. req'[q].pc = "refused" /\ req'[q].id = c /\ UNCHANGED <<hook, warned>>
    BY <1>4, <1>a DEF ArmRefused, Goto, TypeOK, Request
  <2> QED
    BY <1>b, <1>c, <2>1 DEF Serial, Undisturbed, Accounted, WillArm, Live, Rows
<1>5. CASE ArmAnswerLost(q)
  <2>1. req'[q].pc = "refused" /\ req'[q].id = c /\ UNCHANGED <<hook, warned>>
    BY <1>5, <1>a DEF ArmAnswerLost, Goto, TypeOK, Request
  <2> QED
    BY <1>b, <1>c, <2>1 DEF Serial, Undisturbed, Accounted, WillArm, Live, Rows
<1>6. CASE AnswerConnected(q)
  <2>1. hook = c /\ UNCHANGED hook
    BY <1>6 DEF AnswerConnected, At, Serial, Undisturbed
  <2>2. req'[q].pc = "idle"
    BY <1>6, <1>a DEF AnswerConnected, End, TypeOK, Idle
  <2> QED
    BY <1>a, <1>b, <1>c, <2>1, <2>2 DEF Serial, Undisturbed, Accounted, Reaches, Live, Rows
<1>7. CASE AnswerUnarmed(q)
  <2>1. req'[q].pc = "idle" /\ c \in warned'
    BY <1>7, <1>a DEF AnswerUnarmed, End, TypeOK, Idle
  <2> QED
    BY <1>b, <1>c, <2>1 DEF Serial, Undisturbed, Accounted, Live
<1> QED
  BY <1>1, <1>2, <1>3, <1>4, <1>5, <1>6, <1>7

(* Whatever the sequence of requests, refusals, lost answers and failed    *)
(* statements, and for either provider: when no request is under way, a    *)
(* live channel that no event reaches was reported to the operator.  Both  *)
(* assumptions are needed: requests that overlap and a process that dies   *)
(* do leave channels nobody was told of.                                   *)
THEOREM DeafnessIsReported ==
    ASSUME NEW only, Requests = {only}, "crash" \notin Faults
    PROVE  Spec => []DeafIsReported
<1>1. Init => Serial(only)
  BY DEF Init, Idle, Serial, Undisturbed, Accounted, WillArm, Live
<1>2. IInv /\ Serial(only) /\ [Next]_vars => Serial(only)'
  <2> SUFFICES ASSUME IInv, Serial(only), [Next]_vars
               PROVE  Serial(only)'
    OBVIOUS
  <2>1. CASE \E c \in ChannelId : CustomerWrites(c)
    BY <2>1 DEF CustomerWrites, Serial, Undisturbed, Accounted, WillArm, Reaches, Live, Rows
  <2>2. CASE UNCHANGED vars
    BY <2>2 DEF vars, Serial, Undisturbed, Accounted, WillArm, Reaches, Live, Rows
  <2> QED
    BY <2>1, <2>2, BeginsSerially, WritesSerially, AnswersSerially DEF Next, Crash
<1>3. Serial(only) => DeafIsReported
  BY DEF Serial, Accounted, DeafIsReported, At, WillArm, Rows
<1> QED
  BY <1>1, <1>2, <1>3, Invariance, PTL DEF Spec
=============================================================================
