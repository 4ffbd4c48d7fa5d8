------------------------ MODULE ReplyDelivery_proofs ------------------------
(***************************************************************************)
(* Proofs about ReplyDelivery, for every bound, every set of panel ids and *)
(* every set of faults.                                                    *)
(***************************************************************************)
EXTENDS ReplyDelivery, TLAPS

-----------------------------------------------------------------------------
(* What the statements of the store return.                                *)

(* An insert leaves a table.                                               *)
LEMMA InsertType ==
    ASSUME NEW t \in Table, NEW r \in RowId, NEW x \in ExtId,
           NEW side \in Side, NEW a \in BOOLEAN, NEW c \in BOOLEAN
    PROVE  Insert(t, r, x, side, a, c) \in Table
  BY DEF Insert, Table, Row, Status

(* A status update of live rows leaves a table.                            *)
LEMMA SetStatusType ==
    ASSUME NEW t \in Table, NEW R \in SUBSET Live(t), NEW s \in Status
    PROVE  SetStatus(t, R, s) \in Table
  <1>1. ASSUME NEW r \in RowId
        PROVE  (IF r \in R THEN [t[r] EXCEPT !.status = s] ELSE t[r])
                   \in Row \cup {NoRow}
    <2>1. CASE r \in R
      BY <2>1 DEF Live, Table, Row
    <2>2. CASE r \notin R
      BY <2>2 DEF Table
    <2>3. QED  BY <2>1, <2>2
  <1>2. QED  BY <1>1 DEF SetStatus, Table

(* The commit of an adoption leaves a table.                               *)
LEMMA AdoptType ==
    ASSUME NEW t \in Table, NEW r \in Live(t), NEW p \in Pid, NEW D
    PROVE  Adopt(t, r, p, D) \in Table
  <1>1. Provider(p) \in ExtId
    BY DEF ExtId
  <1>2. ASSUME NEW q \in RowId
        PROVE  (IF q \in D THEN NoRow
                ELSE IF q = r THEN [t[q] EXCEPT !.ext = Provider(p)]
                ELSE t[q]) \in Row \cup {NoRow}
    <2>1. CASE q = r
      BY <1>1, <2>1 DEF Live, Table, Row
    <2>2. CASE q # r
      BY <2>2 DEF Table
    <2>3. QED  BY <2>1, <2>2
  <1>3. QED  BY <1>2 DEF Adopt, Table

(* Two tables with the same rows but for their statuses.                   *)
SameRows(t, u) ==
    \A r \in RowId :
        /\ u[r] = NoRow <=> t[r] = NoRow
        /\ t[r] # NoRow =>
              /\ u[r].ext = t[r].ext
              /\ u[r].side = t[r].side
              /\ u[r].authored = t[r].authored
              /\ u[r].inChat = t[r].inChat

(* A status update changes the statuses of the rows it names, and nothing  *)
(* else.                                                                   *)
LEMMA SetStatusEffect ==
    ASSUME NEW t \in Table, NEW R \in SUBSET Live(t), NEW s \in Status
    PROVE  /\ SameRows(t, SetStatus(t, R, s))
           /\ \A r \in Live(t) :
                 SetStatus(t, R, s)[r].status = IF r \in R THEN s ELSE t[r].status
  <1> DEFINE u == SetStatus(t, R, s)
  <1>1. ASSUME NEW r \in RowId, r \in R
        PROVE  /\ t[r] \in Row
               /\ u[r] = [t[r] EXCEPT !.status = s]
    BY <1>1 DEF SetStatus, Live, Table
  <1>2. ASSUME NEW r \in RowId, r \notin R
        PROVE  u[r] = t[r]
    BY <1>2 DEF SetStatus
  <1>3. ASSUME NEW r \in RowId, r \in R
        PROVE  /\ u[r] \in Row
               /\ u[r].ext = t[r].ext
               /\ u[r].side = t[r].side
               /\ u[r].authored = t[r].authored
               /\ u[r].inChat = t[r].inChat
               /\ u[r].status = s
    BY <1>1, <1>3 DEF Row
  <1>4. SameRows(t, u)
    BY <1>1, <1>2, <1>3, StoreAssumption DEF SameRows
  <1>5. ASSUME NEW r \in Live(t)
        PROVE  u[r].status = IF r \in R THEN s ELSE t[r].status
    BY <1>2, <1>3 DEF Live
  <1>6. QED  BY <1>4, <1>5

(* An insert adds the one row.                                             *)
LEMMA InsertEffect ==
    ASSUME NEW t \in Table, NEW r \in RowId, NEW x \in ExtId,
           NEW side \in Side, NEW a \in BOOLEAN, NEW c \in BOOLEAN
    PROVE  LET u == Insert(t, r, x, side, a, c)
           IN  /\ \A q \in RowId \ {r} : u[q] = t[q]
               /\ u[r] # NoRow
               /\ u[r].ext = x
               /\ u[r].side = side
               /\ u[r].authored = a
               /\ u[r].inChat = c
               /\ u[r].status = "new"
  <1> DEFINE row == [ext |-> x, side |-> side, authored |-> a, inChat |-> c,
                     status |-> "new"]
  <1>1. row \in Row
    BY DEF Row, Status
  <1>2. row # NoRow
    BY <1>1, StoreAssumption
  <1>3. Insert(t, r, x, side, a, c) = [t EXCEPT ![r] = row]
    BY DEF Insert
  <1>4. QED  BY <1>2, <1>3 DEF Table

(* The commit of an adoption drops the duplicates and renames the row.     *)
LEMMA AdoptEffect ==
    ASSUME NEW t \in Table, NEW r \in Live(t), NEW p \in Pid,
           NEW D \in SUBSET (RowId \ {r})
    PROVE  LET u == Adopt(t, r, p, D)
           IN  /\ \A q \in D : u[q] = NoRow
               /\ \A q \in RowId \ (D \cup {r}) : u[q] = t[q]
               /\ u[r] # NoRow
               /\ u[r].ext = Provider(p)
               /\ u[r].side = t[r].side
               /\ u[r].authored = t[r].authored
               /\ u[r].inChat = t[r].inChat
               /\ u[r].status = t[r].status
  <1> DEFINE u == Adopt(t, r, p, D)
  <1>1. r \in RowId /\ t[r] \in Row
    BY DEF Live, Table
  <1>2. /\ \A q \in D : u[q] = NoRow
        /\ \A q \in RowId \ (D \cup {r}) : u[q] = t[q]
        /\ u[r] = [t[r] EXCEPT !.ext = Provider(p)]
    BY <1>1 DEF Adopt
  <1>3. Provider(p) \in ExtId
    BY DEF ExtId
  <1>4. u[r] \in Row
    BY <1>1, <1>2, <1>3 DEF Row
  <1>5. u[r] # NoRow
    BY <1>4, StoreAssumption
  <1>6. QED  BY <1>1, <1>2, <1>5 DEF Row

-----------------------------------------------------------------------------
(* Type correctness.                                                       *)

(* The rows a read takes are rows of the table.                            *)
LEMMA ReadsAreLive ==
    ASSUME NEW t, NEW A, NEW reader
    PROVE  /\ UpTo(t, A, reader) \in SUBSET Live(t)
           /\ WholeChat(t, reader) \in SUBSET Live(t)
  BY DEF UpTo, WholeChat, Unread

(* Every statement that only writes statuses leaves a table.               *)
LEMMA StatusTypes ==
    ASSUME NEW t \in Table
    PROVE  /\ \A A, reader : MarkRead(t, UpTo(t, A, reader)) \in Table
           /\ \A reader : MarkRead(t, WholeChat(t, reader)) \in Table
           /\ \A r : MarkDeliveredRow(t, r) \in Table
           /\ \A r : MarkFailedRow(t, r) \in Table
  <1>1. {"read", "delivered", "failed"} \subseteq Status
    BY DEF Status
  <1>2. \A R \in SUBSET Live(t) : MarkRead(t, R) \in Table
    BY <1>1, SetStatusType DEF MarkRead
  <1>3. \A r : StillNew(t, r) \in SUBSET Live(t)
    BY DEF StillNew
  <1>4. \A r : MarkDeliveredRow(t, r) \in Table /\ MarkFailedRow(t, r) \in Table
    BY <1>1, <1>3, SetStatusType DEF MarkDeliveredRow, MarkFailedRow
  <1>5. QED  BY <1>2, <1>4, ReadsAreLive

(* The initial state is well typed.                                        *)
LEMMA TypeInit == Init => TypeOK
  BY StoreAssumption DEF Init, TypeOK, Table, RowId, TaskState, Origin,
     Unsent, ReadingState

(* Every step keeps the types; that an adoption commits on a row that is   *)
(* there needs OursInv, that a receipt was sent ReceiptsInv.               *)
LEMMA TypeStep == TypeOK /\ OursInv /\ ReceiptsInv /\ [Next]_vars => TypeOK'
  <1> SUFFICES ASSUME TypeOK, OursInv, ReceiptsInv, [Next]_vars PROVE TypeOK'
    OBVIOUS
  <1> USE DEF TypeOK
  <1>1. ASSUME NEW p \in Pid, CustomerWrites(p) \/ OwnerWrites(p)
        PROVE  TypeOK'
    BY <1>1 DEF CustomerWrites, OwnerWrites, Origin
  <1>2. ASSUME NEW p \in Pid, CustomerReads(p)
        PROVE  TypeOK'
    BY <1>2 DEF CustomerReads
  <1>3. ASSUME NEW m \in Mids, OperatorSends(m)
        PROVE  TypeOK'
    <2>1. nextRow \in RowId /\ nextRow' \in 1 .. MaxRows + 1
      BY <1>3, StoreAssumption DEF OperatorSends, RowId
    <2>2. Local(m) \in ExtId
      BY DEF ExtId
    <2>3. messages' \in Table
      BY <1>3, <2>1, <2>2, InsertType DEF OperatorSends, Side
    <2>4. QED  BY <1>3, <2>1, <2>3 DEF OperatorSends, TaskState, InFlight
  <1>4. ASSUME NEW p \in Pid, NEW c \in BOOLEAN,
               EchoArrives(p, c) \/ InboundArrives(p, c)
        PROVE  TypeOK'
    <2>1. nextRow \in RowId /\ nextRow' \in 1 .. MaxRows + 1
      <3>1. nextRow <= MaxRows /\ nextRow' = nextRow + 1
        BY <1>4 DEF EchoArrives, InboundArrives
      <3>2. QED  BY <3>1, StoreAssumption DEF RowId
    <2>2. Provider(p) \in ExtId
      BY DEF ExtId
    <2>3. messages' \in Table
      BY <1>4, <2>1, <2>2, InsertType DEF EchoArrives, InboundArrives, Side
    <2>4. QED  BY <1>4, <2>1, <2>3 DEF EchoArrives, InboundArrives
  <1>5. ASSUME NEW r \in RowId,
               SpawnDelivery(r) \/ SkipDelivery(r) \/ ProviderRefuses(r)
               \/ AnswerArrives(r) \/ AnswerLost(r) \/ AdoptFails(r)
        PROVE  TypeOK'
    BY <1>5 DEF SpawnDelivery, SkipDelivery, ProviderRefuses, AnswerArrives,
       AnswerLost, AdoptFails, TaskState, InFlight
  <1>6. ASSUME NEW r \in RowId, OperatorReads(r)
        PROVE  TypeOK'
    BY <1>6, StatusTypes DEF OperatorReads
  <1>7. ASSUME NEW r \in RowId, MarkDelivered(r) \/ MarkUndelivered(r)
        PROVE  TypeOK'
    <2>1. messages' \in Table
      BY <1>7, StatusTypes DEF MarkDelivered, MarkUndelivered
    <2>2. QED  BY <1>7, <2>1 DEF MarkDelivered, MarkUndelivered, TaskState, InFlight
  <1>8. ASSUME NEW r \in RowId, NEW p \in Pid, ProviderTakes(r, p)
        PROVE  TypeOK'
    BY <1>8 DEF ProviderTakes, Origin, TaskState, InFlight
  <1>9. ASSUME NEW r \in RowId, NEW p \in Pid,
               AdoptClaim(r, p) \/ AdoptRefused(r, p)
        PROVE  TypeOK'
    BY <1>9 DEF AdoptClaim, AdoptRefused, TaskState, InFlight
  <1>10. ASSUME NEW r \in RowId, NEW p \in Pid, AdoptCommit(r, p)
         PROVE  TypeOK'
    <2>1. r \in Live(messages)
      BY <1>10 DEF AdoptCommit, OursInv, Live
    <2>2. messages' \in Table
      BY <1>10, <2>1, AdoptType DEF AdoptCommit
    <2>3. QED  BY <1>10, <2>2 DEF AdoptCommit, TaskState
  <1>11. ASSUME NEW p \in Pid, ReceiptAnchored(p)
         PROVE  TypeOK'
    BY <1>11, StatusTypes DEF ReceiptAnchored, ReadingState
  <1>12. ASSUME NEW p \in Pid, ReceiptSweeps(p) \/ ReceiptDropped(p)
         PROVE  TypeOK'
    BY <1>12, StatusTypes
       DEF ReceiptSweeps, ReceiptDropped, ReadingState, ReceiptsInv
  <1>13. CASE Crash
    BY <1>13 DEF Crash, TaskState, ReadingState
  <1>14. CASE UNCHANGED vars
    BY <1>14 DEF vars
  <1>15. QED
    BY <1>1, <1>2, <1>3, <1>4, <1>5, <1>6, <1>7, <1>8, <1>9, <1>10, <1>11,
       <1>12, <1>13, <1>14
       DEF Next, ProviderNext, OperatorNext, Deliver, WebhookNext, Receipt

-----------------------------------------------------------------------------
(* The inductive invariant.                                                *)

LEMMA IInvInit == Init => IInv
  <1> SUFFICES ASSUME Init PROVE IInv
    OBVIOUS
  <1>1. TypeOK
    BY TypeInit
  <1>2. Live(messages) = {}
    BY DEF Init, Live
  <1>3. \A p \in Pid : Holders(messages, Provider(p)) = {}
    BY <1>2 DEF Holders
  <1>4. \A r \in RowId : \A p \in Pid : ~TookAs(r, p)
    BY StoreAssumption DEF Init, TookAs, Unsent, RowId
  <1>5. \A r \in RowId : ~Ours(r) /\ task[r] = "none"
    BY DEF Init, Ours
  <1>6. FreshInv /\ OursInv /\ TheirsInv /\ HoldersInv /\ EchoInv /\ PendingInv
    BY <1>2, <1>3, <1>5 DEF Init, FreshInv, OursInv, TheirsInv, HoldersInv,
       EchoInv, PendingInv
  <1>7. ThreadInv
    BY <1>4, <1>5 DEF ThreadInv, Took, AfterTaken
  <1>8. ReceiptsInv
    BY DEF Init, ReceiptsInv
  <1>9. QED  BY <1>1, <1>6, <1>7, <1>8 DEF IInv

(* A step that keeps the rows, the thread and the receipts keeps the       *)
(* invariant when the tasks it moves stay within what the provider did,    *)
(* and the statuses it writes are those the two kinds of rows may have.    *)
LEMMA RowsKept ==
    ASSUME IInv, TypeOK', SameRows(messages, messages'),
           UNCHANGED <<nextRow, midOf, origin, receipts>>,
           \A p \in Pid : reading'[p] # "idle" => p \in receipts,
           \A r \in RowId :
              /\ task'[r] = "none" <=> task[r] = "none"
              /\ task'[r] = "adopted" <=> task[r] = "adopted"
              /\ task'[r] \in BeforeSend => task[r] \in BeforeSend
              /\ task'[r] \in AfterTaken => Took(r)
              /\ task'[r] \in {"stored", "sending", "taken", "marking", "refused"}
                    => messages'[r].status \in {"new", "read"},
           \A r \in Live(messages) : ~Ours(r) => messages'[r].status \in {"new", "read"}
    PROVE  IInv'
  <1> USE DEF IInv
  <1>1. /\ Live(messages') = Live(messages)
        /\ \A r \in Live(messages) : messages'[r].ext = messages[r].ext
    BY DEF SameRows, Live
  <1>2. \A p \in Pid : Holders(messages', Provider(p)) = Holders(messages, Provider(p))
    BY <1>1 DEF Holders
  <1>3. FreshInv'
    BY DEF FreshInv, Ours, SameRows
  <1>4. OursInv'
    BY DEF OursInv, Ours, SameRows, TookAs
  <1>5. TheirsInv'
    BY <1>1 DEF TheirsInv, Ours, SameRows, Live, FromAccount
  <1>6. ThreadInv'
    BY DEF ThreadInv, Took, TookAs
  <1>7. HoldersInv'
    BY <1>1 DEF HoldersInv
  <1>8. EchoInv'
    BY <1>2 DEF EchoInv, TookAs
  <1>9. ReceiptsInv'
    BY DEF ReceiptsInv, FromAccount
  <1>10. PendingInv'
    BY DEF PendingInv
  <1>11. QED  BY <1>3, <1>4, <1>5, <1>6, <1>7, <1>8, <1>9, <1>10

(* The thread grows: by the customer's or the owner's message, or by a     *)
(* reply whose task is sending.                                            *)
LEMMA ThreadGrows ==
    ASSUME IInv, TypeOK', NEW p \in Pid, FirstUnsent(p),
           UNCHANGED <<messages, nextRow, midOf, receipts, reading, settled>>,
           NEW o \in Origin, o # Unsent,
           origin' = [origin EXCEPT ![p] = o],
           \/ o \notin RowId /\ task' = task
           \/ /\ o \in RowId
              /\ task[o] = "sending"
              /\ task' = [task EXCEPT ![o] = "taken"]
    PROVE  IInv'
  <1> USE DEF IInv, TypeOK
  <1>1. /\ origin[p] = Unsent
        /\ origin'[p] = o
        /\ \A q \in Pid \ {p} : origin'[q] = origin[q]
    BY DEF FirstUnsent
  <1>2. Unsent \notin RowId /\ Customer \notin RowId /\ OwnersApp \notin RowId
        /\ Unsent # Customer /\ Unsent # OwnersApp
    BY StoreAssumption DEF Unsent, Customer, OwnersApp, RowId
  <1>3. \A q \in Pid : FromAccount(q) => FromAccount(q)' /\ q # p
    BY <1>1, <1>2 DEF FromAccount
  <1>4. \A r \in RowId, q \in Pid :
           TookAs(r, q)' <=> TookAs(r, q) \/ (q = p /\ r = o)
    BY <1>1, <1>2 DEF TookAs
  <1>5. \A r \in RowId :
           \/ task'[r] = task[r] /\ r # o
           \/ r = o /\ task[r] = "sending" /\ task'[r] = "taken"
    OBVIOUS
  <1>6. FreshInv'
    BY <1>5 DEF FreshInv, Ours
  <1>7. OursInv'
    BY <1>4, <1>5 DEF OursInv, Ours
  <1>8. TheirsInv'
    <2> SUFFICES ASSUME NEW r \in Live(messages), ~Ours(r)
                 PROVE  \E q \in Pid :
                           /\ messages[r].ext = Provider(q)
                           /\ messages[r].side = "operator" => FromAccount(q)'
                           /\ messages[r].side = "client" => origin'[q] = Customer
      BY DEF TheirsInv, Ours
    <2>1. PICK q \in Pid : /\ messages[r].ext = Provider(q)
                           /\ messages[r].side = "operator" => FromAccount(q)
                           /\ messages[r].side = "client" => origin[q] = Customer
      BY DEF TheirsInv
    <2>2. origin[q] = Customer => q # p
      BY <1>1, <1>2
    <2>3. QED  BY <1>1, <1>3, <2>1, <2>2
  <1>9. ThreadInv'
    <2>1. ASSUME NEW r \in RowId
          PROVE  /\ Took(r)' <=> Took(r) \/ r = o
                 /\ task[r] = "sending" => ~Took(r)
      BY <1>4 DEF Took, ThreadInv, BeforeSend
    <2>2. QED
      BY <1>4, <1>5, <2>1 DEF ThreadInv, Took, BeforeSend, AfterTaken
  <1>10. HoldersInv'
    BY DEF HoldersInv
  <1>11. EchoInv'
    <2>1. ASSUME NEW r \in RowId, NEW a \in Holders(messages, Provider(p)), r = o
          PROVE  r <= a
      (* Nobody holds the id of a message that was not sent before. *)
      <3>1. a \in Live(messages) /\ messages[a].ext = Provider(p)
        BY DEF Holders
      <3>2. CASE Ours(a)
        <4>1. messages[a].ext # Local(midOf[a])
          BY <3>1 DEF Provider, Local
        <4>2. \E q \in Pid : TookAs(a, q) /\ messages[a].ext = Provider(q)
          BY <3>1, <3>2, <4>1 DEF OursInv, Live
        <4>3. TookAs(a, p)
          BY <3>1, <4>2 DEF Provider
        <4>4. QED  BY <1>1, <1>2, <3>1, <4>3 DEF TookAs, Live
      <3>3. CASE ~Ours(a)
        <4>1. PICK q \in Pid : /\ messages[a].ext = Provider(q)
                               /\ messages[a].side = "operator" => FromAccount(q)
                               /\ messages[a].side = "client" => origin[q] = Customer
          BY <3>1, <3>3 DEF TheirsInv
        <4>2. q = p
          BY <3>1, <4>1 DEF Provider
        <4>3. messages[a].side \in {"operator", "client"}
          BY <3>1 DEF Live, Table, Row, Side
        <4>4. QED  BY <1>1, <1>2, <4>1, <4>2, <4>3 DEF FromAccount
      <3>4. QED  BY <3>2, <3>3
    <2>2. QED  BY <1>4, <2>1 DEF EchoInv
  <1>12. ReceiptsInv'
    BY <1>3 DEF ReceiptsInv
  <1>13. PendingInv'
    BY <1>5 DEF PendingInv
  <1>14. QED  BY <1>6, <1>7, <1>8, <1>9, <1>10, <1>11, <1>12, <1>13

(* A row is stored at the next index under an id nobody holds: by an       *)
(* operator under the panel's id, or by a webhook under the provider's.    *)
LEMMA RowStored ==
    ASSUME IInv, TypeOK', NEW x \in ExtId, NEW side \in Side,
           NEW a \in BOOLEAN, NEW c \in BOOLEAN,
           nextRow <= MaxRows, ~Conflicts(messages, x),
           messages' = Insert(messages, nextRow, x, side, a, c),
           nextRow' = nextRow + 1,
           UNCHANGED <<origin, receipts, reading, settled>>,
           \/ \E m \in Mids :
                 /\ x = Local(m) /\ side = "operator" /\ a /\ c
                 /\ midOf' = [midOf EXCEPT ![nextRow] = m]
                 /\ task' = [task EXCEPT ![nextRow] = "stored"]
           \/ \E p \in Pid :
                 /\ x = Provider(p)
                 /\ side = "operator" => FromAccount(p) /\ ~a
                 /\ side = "client" => origin[p] = Customer
                 /\ UNCHANGED <<midOf, task>>
    PROVE  IInv'
  <1> USE DEF IInv, TypeOK
  <1> DEFINE n == nextRow
  <1>1. n \in RowId
    BY StoreAssumption DEF RowId
  <1>2. /\ \A q \in RowId \ {n} : messages'[q] = messages[q]
        /\ messages'[n] # NoRow
        /\ messages'[n].ext = x
        /\ messages'[n].side = side
        /\ messages'[n].authored = a
        /\ messages'[n].inChat = c
        /\ messages'[n].status = "new"
    BY <1>1, InsertEffect
  <1>3. messages[n] = NoRow /\ ~Ours(n) /\ task[n] = "none"
    BY <1>1 DEF FreshInv, RowId
  <1>4. Live(messages') = Live(messages) \cup {n} /\ n \notin Live(messages)
    BY <1>1, <1>2, <1>3 DEF Live
  <1>5. \A r \in RowId \ {n} : midOf'[r] = midOf[r] /\ task'[r] = task[r]
    BY <1>1
  <1>6. \/ \E m \in Mids : /\ x = Local(m) /\ side = "operator" /\ a /\ c
                           /\ midOf'[n] = m /\ m # NoMid /\ task'[n] = "stored"
        \/ \E p \in Pid : /\ x = Provider(p)
                          /\ side = "operator" => FromAccount(p) /\ ~a
                          /\ side = "client" => origin[p] = Customer
                          /\ midOf'[n] = NoMid /\ task'[n] = "none"
    BY <1>1, <1>3, MidsAssumption DEF Ours
  <1>7. ~Took(n)
    BY <1>1, <1>3 DEF ThreadInv, BeforeSend
  <1>8. FreshInv'
    BY <1>1, <1>2, <1>5 DEF FreshInv, Ours, RowId
  <1>9. OursInv'
    <2> SUFFICES ASSUME NEW r \in RowId PROVE OursInv!(r)'
      BY DEF OursInv
    <2>1. CASE r = n
      BY <1>2, <1>6, <2>1 DEF Ours
    <2>2. CASE r # n
      BY <1>2, <1>5, <2>2 DEF OursInv, Ours, TookAs
    <2>3. QED  BY <2>1, <2>2
  <1>10. TheirsInv'
    <2> SUFFICES ASSUME NEW r \in Live(messages'), ~Ours(r)' PROVE TheirsInv!(r)'
      BY DEF TheirsInv
    <2>1. CASE r = n
      BY <1>2, <1>6, <2>1 DEF Ours, FromAccount
    <2>2. CASE r # n
      BY <1>2, <1>4, <1>5, <2>2 DEF TheirsInv, Ours, FromAccount, Live
    <2>3. QED  BY <2>1, <2>2
  <1>11. ThreadInv'
    BY <1>5, <1>6, <1>7 DEF ThreadInv, Took, TookAs, BeforeSend, AfterTaken
  <1>12. HoldersInv'
    <2>1. \A r \in Live(messages) : r # n /\ messages'[r].ext = messages[r].ext
                                    /\ messages[r].ext # x
      BY <1>2, <1>4 DEF Conflicts, Holders, Live
    <2>2. QED  BY <1>2, <1>4, <2>1 DEF HoldersInv
  <1>13. EchoInv'
    <2> SUFFICES ASSUME NEW p \in Pid, NEW r \in RowId,
                        NEW q \in Holders(messages', Provider(p)), TookAs(r, p)
                 PROVE  r <= q
      BY DEF EchoInv, TookAs
    <2>1. CASE q = n
      <3>1. task[r] # "none"
        BY DEF ThreadInv, Took, BeforeSend
      <3>2. ~(r >= nextRow)
        BY <3>1 DEF FreshInv
      <3>3. QED  BY <1>1, <2>1, <3>2 DEF RowId
    <2>2. CASE q # n
      <3>1. q \in Holders(messages, Provider(p))
        BY <1>2, <1>4, <2>2 DEF Holders, Live
      <3>2. QED  BY <3>1 DEF EchoInv
    <2>3. QED  BY <2>1, <2>2
  <1>14. ReceiptsInv'
    BY DEF ReceiptsInv, FromAccount
  <1>15. PendingInv'
    BY <1>2, <1>5, <1>6 DEF PendingInv
  <1>16. QED  BY <1>8, <1>9, <1>10, <1>11, <1>12, <1>13, <1>14, <1>15

(* The commit of an adoption: the rows it drops are echoes of its row, and *)
(* its row is left the only holder of the provider's id.                   *)
LEMMA AdoptionCommitted ==
    ASSUME IInv, TypeOK', NEW r \in RowId, NEW p \in Pid, AdoptCommit(r, p)
    PROVE  IInv'
  <1> USE DEF IInv, TypeOK
  <1> DEFINE D == Duplicates(messages, r, p)
  <1>1. /\ task[r] \in {"cleared", "doomed"}
        /\ TookAs(r, p)
        /\ messages' = Adopt(messages, r, p, D)
        /\ task' = [task EXCEPT ![r] = "adopted"]
        /\ UNCHANGED <<nextRow, midOf, origin, receipts, reading, settled>>
    BY DEF AdoptCommit
  <1>2. Ours(r) /\ r \in Live(messages)
    BY <1>1 DEF OursInv, Live
  <1>3. \A d \in D : d \in Live(messages) /\ d # r /\ messages[d].ext = Provider(p)
    BY DEF Duplicates, Holders
  <1>4. /\ \A q \in D : messages'[q] = NoRow
        /\ \A q \in RowId \ (D \cup {r}) : messages'[q] = messages[q]
        /\ messages'[r] # NoRow
        /\ messages'[r].ext = Provider(p)
        /\ messages'[r].side = messages[r].side
        /\ messages'[r].authored = messages[r].authored
        /\ messages'[r].inChat = messages[r].inChat
        /\ messages'[r].status = messages[r].status
    <2>1. D \in SUBSET (RowId \ {r})
      BY <1>3 DEF Live
    <2>2. QED  BY <1>1, <1>2, <2>1, AdoptEffect
  <1>5. \A d \in D : ~Ours(d)
    <2> SUFFICES ASSUME NEW d \in D, Ours(d) PROVE FALSE
      OBVIOUS
    <2>1. d \in RowId /\ messages[d].ext = Provider(p)
      BY <1>3 DEF Live
    <2>2. messages[d].ext # Local(midOf[d])
      BY <2>1 DEF Provider, Local
    <2>3. \E q \in Pid : TookAs(d, q) /\ messages[d].ext = Provider(q)
      BY <2>1, <2>2 DEF OursInv
    <2>4. TookAs(d, p)
      BY <2>1, <2>3 DEF Provider
    <2>5. QED  BY <1>1, <1>3, <2>4 DEF TookAs
  <1>6. /\ Live(messages') = Live(messages) \ D
        /\ \A q \in Live(messages') : q # r => messages'[q] = messages[q]
                                               /\ messages[q].ext # Provider(p)
    BY <1>2, <1>3, <1>4 DEF Live, Duplicates, Holders
  <1>7. \A q \in RowId \ {r} : task'[q] = task[q]
    BY <1>1
  <1>8. FreshInv'
    <2>1. ~(r >= nextRow)
      BY <1>2 DEF FreshInv
    <2>2. QED  BY <1>1, <1>4, <1>7, <2>1 DEF FreshInv, Ours
  <1>9. OursInv'
    <2> SUFFICES ASSUME NEW q \in RowId PROVE OursInv!(q)'
      BY DEF OursInv
    <2>1. CASE q = r
      BY <1>1, <1>2, <1>4, <2>1 DEF OursInv, Ours, TookAs
    <2>2. CASE q # r
      BY <1>1, <1>4, <1>5, <1>7, <2>2 DEF OursInv, Ours, TookAs
    <2>3. QED  BY <2>1, <2>2
  <1>10. TheirsInv'
    BY <1>1, <1>2, <1>6 DEF TheirsInv, Ours, FromAccount
  <1>11. ThreadInv'
    BY <1>1, <1>7 DEF ThreadInv, Took, TookAs, BeforeSend, AfterTaken
  <1>12. HoldersInv'
    BY <1>4, <1>6 DEF HoldersInv
  <1>13. EchoInv'
    <2> SUFFICES ASSUME NEW q \in Pid, NEW s \in RowId,
                        NEW a \in Holders(messages', Provider(q)), TookAs(s, q)
                 PROVE  s <= a
      BY <1>1 DEF EchoInv, TookAs
    <2>1. CASE a = r
      <3>1. q = p
        BY <1>4, <2>1 DEF Holders, Provider
      <3>2. s = r
        BY <1>1, <3>1 DEF TookAs
      <3>3. QED  BY <2>1, <3>2 DEF RowId
    <2>2. CASE a # r
      <3>1. a \in Holders(messages, Provider(q))
        BY <1>6, <2>2 DEF Holders
      <3>2. QED  BY <3>1 DEF EchoInv
    <2>3. QED  BY <2>1, <2>2
  <1>14. ReceiptsInv'
    BY <1>1 DEF ReceiptsInv, FromAccount
  <1>15. PendingInv'
    <2>1. \A q \in RowId : task'[q] \in {"stored", "sending", "taken", "marking", "refused"}
             => q # r /\ task'[q] = task[q] /\ Ours(q) /\ q \notin D
      BY <1>1, <1>5, <1>7 DEF OursInv
    <2>2. QED  BY <1>4, <2>1 DEF PendingInv
  <1>16. QED  BY <1>8, <1>9, <1>10, <1>11, <1>12, <1>13, <1>14, <1>15

(* A step that marks unread rows read, moves no task and touches nothing   *)
(* else but the receipt's own handler.                                     *)
LEMMA RowsRead ==
    ASSUME IInv, TypeOK', NEW R \in SUBSET Live(messages),
           messages' = MarkRead(messages, R),
           UNCHANGED <<nextRow, midOf, task, origin, receipts>>,
           \A p \in Pid : reading'[p] # "idle" => p \in receipts
    PROVE  IInv'
  <1> USE DEF IInv, TypeOK
  <1>1. /\ SameRows(messages, messages')
        /\ \A r \in Live(messages) :
              messages'[r].status = IF r \in R THEN "read" ELSE messages[r].status
    BY SetStatusEffect DEF MarkRead, Status
  <1>2. \A r \in RowId : task[r] # "none" => r \in Live(messages)
    BY DEF OursInv, Live
  <1>3. \A r \in RowId : task[r] \in AfterTaken => Took(r)
    BY DEF ThreadInv
  <1>4. \A r \in RowId :
           task'[r] \in {"stored", "sending", "taken", "marking", "refused"}
               => messages'[r].status \in {"new", "read"}
    BY <1>1, <1>2 DEF PendingInv
  <1>5. \A r \in Live(messages) : ~Ours(r) => messages'[r].status \in {"new", "read"}
    BY <1>1 DEF TheirsInv
  <1>6. QED  BY <1>1, <1>3, <1>4, <1>5, RowsKept

(* A delivery task records its outcome.                                    *)
LEMMA OutcomeRecorded ==
    ASSUME IInv, TypeOK', NEW r \in RowId, MarkDelivered(r) \/ MarkUndelivered(r)
    PROVE  IInv'
  <1> USE DEF IInv, TypeOK
  <1> DEFINE R == StillNew(messages, r)
  <1>1. /\ task[r] \in {"marking", "refused"}
        /\ task' = [task EXCEPT ![r] =
                      IF task[r] = "marking" THEN "adopting" ELSE "undelivered"]
        /\ \/ messages' = messages
           \/ \E s \in {"delivered", "failed"} : messages' = SetStatus(messages, R, s)
        /\ UNCHANGED <<nextRow, midOf, origin, receipts, reading>>
    BY DEF MarkDelivered, MarkUndelivered, MarkDeliveredRow, MarkFailedRow
  <1>2. R \in SUBSET Live(messages) /\ R \subseteq {r}
    BY DEF StillNew
  <1>3. /\ SameRows(messages, messages')
        /\ \A q \in Live(messages) \ {r} : messages'[q].status = messages[q].status
    <2>1. CASE messages' = messages
      BY <2>1 DEF SameRows
    <2>2. CASE \E s \in {"delivered", "failed"} : messages' = SetStatus(messages, R, s)
      BY <1>2, <2>2, SetStatusEffect DEF Status
    <2>3. QED  BY <1>1, <2>1, <2>2
  <1>4. Ours(r)
    BY <1>1 DEF OursInv
  <1>5. \A q \in RowId : task[q] # "none" => q \in Live(messages)
    BY DEF OursInv, Live
  <1>6. \A q \in RowId :
           /\ task'[q] = "none" <=> task[q] = "none"
           /\ task'[q] = "adopted" <=> task[q] = "adopted"
           /\ task'[q] \in BeforeSend => task[q] \in BeforeSend
           /\ task'[q] \in AfterTaken => Took(q)
    BY <1>1 DEF ThreadInv, BeforeSend, AfterTaken
  <1>7. \A q \in RowId :
           task'[q] \in {"stored", "sending", "taken", "marking", "refused"}
               => messages'[q].status \in {"new", "read"}
    BY <1>1, <1>3, <1>5 DEF PendingInv
  <1>8. \A q \in Live(messages) : ~Ours(q) => messages'[q].status \in {"new", "read"}
    BY <1>3, <1>4 DEF TheirsInv
  <1>9. \A p \in Pid : reading'[p] # "idle" => p \in receipts
    BY <1>1 DEF ReceiptsInv
  <1>10. UNCHANGED <<nextRow, midOf, origin, receipts>>
    BY <1>1
  <1>11. QED  BY <1>3, <1>6, <1>7, <1>8, <1>9, <1>10, RowsKept

(* A step that only moves tasks, on what the provider did.                 *)
LEMMA TasksMove ==
    ASSUME IInv, TypeOK',
           UNCHANGED <<messages, nextRow, midOf, origin, receipts>>,
           \A p \in Pid : reading'[p] # "idle" => reading[p] # "idle",
           \A r \in RowId :
              \/ task'[r] = task[r]
              \/ task[r] = "stored" /\ task'[r] \in {"sending", "unsent"}
              \/ task[r] = "sending" /\ task'[r] = "refused"
              \/ task[r] = "taken" /\ task'[r] \in {"marking", "refused"}
              \/ task[r] \in {"adopting", "cleared", "doomed"}
                 /\ task'[r] \in {"cleared", "doomed", "unadopted"}
              \/ task[r] \in InFlight /\ task'[r] = "killed"
    PROVE  IInv'
  <1> USE DEF IInv
  <1>1. SameRows(messages, messages')
    BY DEF SameRows
  <1>2. \A r \in RowId :
           /\ task'[r] = "none" <=> task[r] = "none"
           /\ task'[r] = "adopted" <=> task[r] = "adopted"
           /\ task'[r] \in BeforeSend => task[r] \in BeforeSend
           /\ task'[r] \in AfterTaken => Took(r)
    BY DEF ThreadInv, BeforeSend, AfterTaken, InFlight
  <1>3. \A r \in RowId :
           task'[r] \in {"stored", "sending", "taken", "marking", "refused"}
               => messages'[r].status \in {"new", "read"}
    BY DEF PendingInv
  <1>4. \A r \in Live(messages) : ~Ours(r) => messages'[r].status \in {"new", "read"}
    BY DEF TheirsInv
  <1>5. \A p \in Pid : reading'[p] # "idle" => p \in receipts
    BY DEF ReceiptsInv
  <1>6. QED  BY <1>1, <1>2, <1>3, <1>4, <1>5, RowsKept

(* Every step keeps the invariant.                                         *)
LEMMA IInvStep == IInv /\ [Next]_vars => IInv'
  <1> SUFFICES ASSUME IInv, [Next]_vars PROVE IInv'
    OBVIOUS
  <1>1. TypeOK'
    BY TypeStep DEF IInv
  <1> USE <1>1
  <1>2. ASSUME NEW p \in Pid, CustomerWrites(p) \/ OwnerWrites(p)
        PROVE  IInv'
    <2>1. {Customer, OwnersApp} \subseteq Origin \ (RowId \cup {Unsent})
      BY StoreAssumption DEF Customer, OwnersApp, Unsent, Origin, RowId
    <2>2. QED  BY <1>2, <2>1, ThreadGrows DEF CustomerWrites, OwnerWrites
  <1>3. ASSUME NEW r \in RowId, NEW p \in Pid, ProviderTakes(r, p)
        PROVE  IInv'
    <2>1. r \in Origin /\ r # Unsent
      BY StoreAssumption DEF Unsent, Origin, RowId
    <2>2. QED  BY <1>3, <2>1, ThreadGrows DEF ProviderTakes
  <1>4. ASSUME NEW p \in Pid, CustomerReads(p)
        PROVE  IInv'
    <2>1. /\ receipts' = receipts \cup {p}
          /\ FromAccount(p)
          /\ UNCHANGED <<messages, nextRow, midOf, task, origin, reading>>
      BY <1>4 DEF CustomerReads
    <2>2. ReceiptsInv'
      BY <2>1 DEF IInv, ReceiptsInv, FromAccount
    <2>3. /\ FreshInv' /\ OursInv' /\ TheirsInv' /\ ThreadInv'
          /\ HoldersInv' /\ EchoInv' /\ PendingInv'
      BY <2>1 DEF IInv, FreshInv, OursInv, TheirsInv, ThreadInv, HoldersInv,
         EchoInv, PendingInv, Ours, Took, TookAs, FromAccount
    <2>4. QED  BY <2>2, <2>3 DEF IInv
  <1>5. ASSUME NEW m \in Mids, OperatorSends(m)
        PROVE  IInv'
    <2>1. Local(m) \in ExtId /\ "operator" \in Side
      BY DEF ExtId, Side
    <2>2. QED  BY <1>5, <2>1, RowStored DEF OperatorSends
  <1>6. ASSUME NEW p \in Pid, NEW c \in BOOLEAN, EchoArrives(p, c)
        PROVE  IInv'
    <2>1. Provider(p) \in ExtId /\ "operator" \in Side
      BY DEF ExtId, Side
    <2>2. QED  BY <1>6, <2>1, RowStored DEF EchoArrives
  <1>7. ASSUME NEW p \in Pid, NEW c \in BOOLEAN, InboundArrives(p, c)
        PROVE  IInv'
    <2>1. Provider(p) \in ExtId /\ "client" \in Side
      BY DEF ExtId, Side
    <2>2. QED  BY <1>7, <2>1, RowStored DEF InboundArrives
  <1>8. ASSUME NEW r \in RowId,
               SpawnDelivery(r) \/ SkipDelivery(r) \/ ProviderRefuses(r)
               \/ AnswerArrives(r) \/ AnswerLost(r) \/ AdoptFails(r)
        PROVE  IInv'
    <2>1. UNCHANGED <<messages, nextRow, midOf, origin, receipts, reading>>
      BY <1>8 DEF SpawnDelivery, SkipDelivery, ProviderRefuses, AnswerArrives,
         AnswerLost, AdoptFails
    <2>2. \A q \in RowId :
             \/ task'[q] = task[q]
             \/ task[q] = "stored" /\ task'[q] \in {"sending", "unsent"}
             \/ task[q] = "sending" /\ task'[q] = "refused"
             \/ task[q] = "taken" /\ task'[q] \in {"marking", "refused"}
             \/ task[q] \in {"adopting", "cleared", "doomed"} /\ task'[q] = "unadopted"
      BY <1>8 DEF IInv, TypeOK, SpawnDelivery, SkipDelivery, ProviderRefuses,
         AnswerArrives, AnswerLost, AdoptFails
    <2>3. QED  BY <2>1, <2>2, TasksMove
  <1>9. ASSUME NEW r \in RowId, NEW p \in Pid, AdoptClaim(r, p) \/ AdoptRefused(r, p)
        PROVE  IInv'
    <2>1. UNCHANGED <<messages, nextRow, midOf, origin, receipts, reading>>
      BY <1>9 DEF AdoptClaim, AdoptRefused
    <2>2. \A q \in RowId :
             \/ task'[q] = task[q]
             \/ task[q] \in {"adopting", "cleared", "doomed"}
                /\ task'[q] \in {"cleared", "doomed", "unadopted"}
      BY <1>9 DEF IInv, TypeOK, AdoptClaim, AdoptRefused
    <2>3. QED  BY <2>1, <2>2, TasksMove
  <1>10. ASSUME NEW r \in RowId, NEW p \in Pid, AdoptCommit(r, p)
         PROVE  IInv'
    BY <1>10, AdoptionCommitted
  <1>11. ASSUME NEW r \in RowId, MarkDelivered(r) \/ MarkUndelivered(r)
         PROVE  IInv'
    BY <1>11, OutcomeRecorded
  <1>12. ASSUME NEW r \in RowId, OperatorReads(r)
         PROVE  IInv'
    <2>1. \A p \in Pid : reading'[p] # "idle" => p \in receipts
      BY <1>12 DEF OperatorReads, IInv, ReceiptsInv
    <2>2. QED  BY <1>12, <2>1, ReadsAreLive, RowsRead DEF OperatorReads
  <1>13. ASSUME NEW p \in Pid, ReceiptAnchored(p)
         PROVE  IInv'
    <2>1. \A q \in Pid : reading'[q] # "idle" => q \in receipts
      BY <1>13 DEF ReceiptAnchored, IInv, TypeOK, ReceiptsInv
    <2>2. QED  BY <1>13, <2>1, ReadsAreLive, RowsRead DEF ReceiptAnchored
  <1>14. ASSUME NEW p \in Pid, ReceiptSweeps(p)
         PROVE  IInv'
    <2>1. \A q \in Pid : reading'[q] # "idle" => q \in receipts
      BY <1>14 DEF ReceiptSweeps, IInv, TypeOK, ReceiptsInv
    <2>2. QED  BY <1>14, <2>1, ReadsAreLive, RowsRead DEF ReceiptSweeps
  <1>15. ASSUME NEW p \in Pid, ReceiptDropped(p)
         PROVE  IInv'
    <2>1. /\ UNCHANGED <<messages, nextRow, midOf, task, origin, receipts>>
          /\ \A q \in Pid : reading'[q] # "idle" => reading[q] # "idle"
      BY <1>15 DEF ReceiptDropped, IInv, TypeOK
    <2>2. QED  BY <2>1, TasksMove
  <1>16. CASE Crash
    <2>1. /\ UNCHANGED <<messages, nextRow, midOf, origin, receipts>>
          /\ \A q \in Pid : reading'[q] = "idle"
          /\ \A r \in RowId : \/ task'[r] = task[r]
                              \/ task[r] \in InFlight /\ task'[r] = "killed"
      BY <1>16 DEF Crash
    <2>2. QED  BY <2>1, TasksMove
  <1>17. CASE UNCHANGED vars
    <2>1. UNCHANGED <<messages, nextRow, midOf, task, origin, receipts, reading>>
      BY <1>17 DEF vars
    <2>2. QED  BY <2>1, TasksMove
  <1>18. QED
    BY <1>2, <1>3, <1>4, <1>5, <1>6, <1>7, <1>8, <1>9, <1>10, <1>11, <1>12,
       <1>13, <1>14, <1>15, <1>16, <1>17
       DEF Next, ProviderNext, OperatorNext, Deliver, WebhookNext, Receipt

(* The invariant holds of every reachable state: the index of panel ids,   *)
(* tasks and rows, the provider's thread and the order in which echoes,    *)
(* receipts and adoptions may come are related as IInv says.               *)
THEOREM Invariance == Spec => []IInv
  BY IInvInit, IInvStep, PTL DEF Spec

(* The types of ReplyDelivery are never left.                              *)
THEOREM TypeCorrectness == Spec => []TypeOK
  <1>1. IInv => TypeOK
    BY DEF IInv
  <1>2. QED  BY <1>1, Invariance, PTL

(* A provider id names at most one row, the message the provider holds     *)
(* under that id: no echo, however late or often, and no adoption can      *)
(* attach an id to another message's row.                                  *)
THEOREM ProviderIdsAreNames == Spec => []ProviderIdNamesItsMessage
  <1>1. IInv => ProviderIdNamesItsMessage
    <2> SUFFICES ASSUME IInv, NEW p \in Pid,
                        NEW r \in Holders(messages, Provider(p)),
                        NEW q \in Holders(messages, Provider(p))
                 PROVE  /\ r = q
                        /\ r \in OperatorRows => TookAs(r, p)
                        /\ messages[r].side = "operator" => FromAccount(p)
                        /\ messages[r].side = "client" => origin[p] = Customer
      BY DEF ProviderIdNamesItsMessage
    <2> USE DEF IInv
    <2>1. /\ r \in RowId /\ r \in Live(messages) /\ q \in Live(messages)
          /\ messages[r].ext = Provider(p) /\ messages[q].ext = Provider(p)
      BY DEF Holders, Live
    <2>2. r = q
      BY <2>1 DEF HoldersInv
    <2>3. CASE Ours(r)
      <3>1. messages[r].ext # Local(midOf[r])
        BY <2>1 DEF Provider, Local
      <3>2. TookAs(r, p) /\ messages[r].side = "operator"
        BY <2>1, <2>3, <3>1 DEF OursInv, Provider
      <3>3. QED  BY <2>1, <2>2, <3>2 DEF TookAs, FromAccount
    <2>4. CASE ~Ours(r)
      <3>1. PICK s \in Pid : /\ messages[r].ext = Provider(s)
                             /\ messages[r].side = "operator" => FromAccount(s)
                             /\ messages[r].side = "client" => origin[s] = Customer
        BY <2>1, <2>4 DEF TheirsInv
      <3>2. s = p
        BY <2>1, <3>1 DEF Provider
      <3>3. r \notin OperatorRows
        BY <2>1, <2>4 DEF TheirsInv, OperatorRows
      <3>4. QED  BY <2>2, <3>1, <3>2, <3>3
    <2>5. QED  BY <2>3, <2>4
  <1>2. QED  BY <1>1, Invariance, PTL

-----------------------------------------------------------------------------
(* What one step can do to an operator's row and to the thread.            *)

StatusMoves(r) ==
    \/ messages'[r].status = messages[r].status
    \/ messages[r].status \in {"new", "delivered"} /\ messages'[r].status = "read"
    \/ /\ messages[r].status = "new"
       /\ \/ task[r] = "marking" /\ messages'[r].status = "delivered"
          \/ task[r] = "refused" /\ messages'[r].status = "failed"

Renames(r) ==
    \/ messages'[r].ext = messages[r].ext
    \/ /\ messages[r].ext = Local(midOf[r])
       /\ \E p \in Pid : TookAs(r, p) /\ messages'[r].ext = Provider(p)

Evolves(r) ==
    /\ midOf'[r] = midOf[r]
    /\ messages'[r] # NoRow
    /\ StatusMoves(r)
    /\ Renames(r)

(* Reads move unread rows only, and only to "read".                        *)
LEMMA ReadEvolves ==
    ASSUME IInv, NEW R \in SUBSET Live(messages), NEW reader,
           R \subseteq Unread(messages, reader),
           messages' = MarkRead(messages, R), midOf' = midOf,
           NEW r \in RowId, Ours(r)
    PROVE  Evolves(r)
  <1>1. r \in Live(messages)
    BY DEF IInv, OursInv, Live
  <1>2. /\ SameRows(messages, messages')
        /\ messages'[r].status = IF r \in R THEN "read" ELSE messages[r].status
    BY <1>1, SetStatusEffect DEF MarkRead, Status, IInv, TypeOK
  <1>3. r \in R => messages[r].status \in {"new", "delivered"}
    BY DEF Unread
  <1>4. QED
    BY <1>1, <1>2, <1>3 DEF Evolves, StatusMoves, Renames, SameRows, Live

(* The rows a read takes are unread.                                       *)
LEMMA ReadsAreUnread ==
    ASSUME NEW t, NEW A, NEW reader
    PROVE  /\ UpTo(t, A, reader) \subseteq Unread(t, reader)
           /\ WholeChat(t, reader) \subseteq Unread(t, reader)
  BY DEF UpTo, WholeChat

(* Every step lets an operator's row evolve, and leaves what the provider  *)
(* holds where it is.                                                      *)
LEMMA StepEvolves ==
    ASSUME IInv, [Next]_vars
    PROVE  /\ \A r \in RowId : Ours(r) => Evolves(r)
           /\ \A p \in Pid : origin[p] # Unsent => origin'[p] = origin[p]
  <1> DEFINE Goal == /\ \A r \in RowId : Ours(r) => Evolves(r)
                     /\ \A p \in Pid : origin[p] # Unsent => origin'[p] = origin[p]
  <1> USE DEF IInv, TypeOK
  <1>1. ASSUME UNCHANGED <<messages, midOf>>,
               \A p \in Pid : origin[p] # Unsent => origin'[p] = origin[p]
        PROVE  Goal
    BY <1>1 DEF OursInv, Evolves, StatusMoves, Renames
  <1>2. ASSUME NEW p \in Pid,
               CustomerWrites(p) \/ OwnerWrites(p) \/ CustomerReads(p)
        PROVE  Goal
    BY <1>1, <1>2 DEF CustomerWrites, OwnerWrites, CustomerReads, FirstUnsent
  <1>3. ASSUME NEW r \in RowId, NEW p \in Pid,
               ProviderTakes(r, p) \/ AdoptClaim(r, p) \/ AdoptRefused(r, p)
        PROVE  Goal
    BY <1>1, <1>3 DEF ProviderTakes, FirstUnsent, AdoptClaim, AdoptRefused
  <1>4. ASSUME NEW r \in RowId,
               SpawnDelivery(r) \/ SkipDelivery(r) \/ ProviderRefuses(r)
               \/ AnswerArrives(r) \/ AnswerLost(r) \/ AdoptFails(r)
        PROVE  Goal
    BY <1>1, <1>4 DEF SpawnDelivery, SkipDelivery, ProviderRefuses, AnswerArrives,
       AnswerLost, AdoptFails
  <1>5. ASSUME NEW x \in ExtId, NEW side \in Side, NEW a \in BOOLEAN,
               NEW c \in BOOLEAN, nextRow <= MaxRows,
               messages' = Insert(messages, nextRow, x, side, a, c),
               \A r \in RowId \ {nextRow} : midOf'[r] = midOf[r],
               origin' = origin
        PROVE  Goal
    <2>1. nextRow \in RowId
      BY <1>5, StoreAssumption DEF RowId
    <2>2. \A r \in RowId \ {nextRow} : messages'[r] = messages[r]
      BY <1>5, <2>1, InsertEffect
    <2>3. \A r \in RowId : Ours(r) => r # nextRow /\ messages[r] # NoRow
      BY DEF FreshInv, OursInv, RowId
    <2>4. QED  BY <1>5, <2>2, <2>3 DEF Evolves, StatusMoves, Renames
  <1>6. ASSUME NEW m \in Mids, OperatorSends(m)
        PROVE  Goal
    <2>1. Local(m) \in ExtId /\ "operator" \in Side
      BY DEF ExtId, Side
    <2>2. QED  BY <1>5, <1>6, <2>1 DEF OperatorSends
  <1>7. ASSUME NEW p \in Pid, NEW c \in BOOLEAN,
               EchoArrives(p, c) \/ InboundArrives(p, c)
        PROVE  Goal
    <2>1. Provider(p) \in ExtId /\ {"client", "operator"} \subseteq Side
      BY DEF ExtId, Side
    <2>2. QED  BY <1>5, <1>7, <2>1 DEF EchoArrives, InboundArrives
  <1>8. ASSUME NEW r \in RowId, NEW p \in Pid, AdoptCommit(r, p)
        PROVE  Goal
    <2>1. /\ task[r] \in {"cleared", "doomed"} /\ TookAs(r, p)
          /\ messages' = Adopt(messages, r, p, Duplicates(messages, r, p))
          /\ midOf' = midOf /\ origin' = origin
      BY <1>8 DEF AdoptCommit
    <2>2. r \in Live(messages) /\ messages[r].ext = Local(midOf[r])
      BY <2>1 DEF OursInv, Live
    <2>3. Duplicates(messages, r, p) \in SUBSET (RowId \ {r})
      BY DEF Duplicates, Holders, Live
    <2>4. /\ \A q \in RowId \ (Duplicates(messages, r, p) \cup {r}) :
                messages'[q] = messages[q]
          /\ messages'[r] # NoRow
          /\ messages'[r].ext = Provider(p)
          /\ messages'[r].status = messages[r].status
      BY <2>1, <2>2, <2>3, AdoptEffect
    <2>5. IInv'
      BY <1>8, IInvStep DEF Next, Deliver
    <2>6. \A q \in RowId : Ours(q) => messages[q] # NoRow /\ messages'[q] # NoRow
      BY <2>1, <2>5 DEF OursInv, Ours
    <2>7. \A q \in Duplicates(messages, r, p) : messages'[q] = NoRow
      BY <2>1, <2>2, <2>3, AdoptEffect
    <2>8. ASSUME NEW q \in RowId, Ours(q)
          PROVE  Evolves(q)
      <3>1. CASE q = r
        BY <2>1, <2>2, <2>4, <3>1 DEF Evolves, StatusMoves, Renames
      <3>2. CASE q # r
        BY <2>1, <2>4, <2>6, <2>7, <2>8, <3>2 DEF Evolves, StatusMoves, Renames
      <3>3. QED  BY <3>1, <3>2
    <2>9. QED  BY <2>1, <2>8
  <1>9. ASSUME NEW r \in RowId, MarkDelivered(r) \/ MarkUndelivered(r)
        PROVE  Goal
    <2>1. \/ messages' = messages
          \/ /\ messages' = SetStatus(messages, StillNew(messages, r), "delivered")
             /\ task[r] = "marking"
          \/ /\ messages' = SetStatus(messages, StillNew(messages, r), "failed")
             /\ task[r] = "refused"
      BY <1>9 DEF MarkDelivered, MarkUndelivered, MarkDeliveredRow, MarkFailedRow
    <2>2. midOf' = midOf /\ origin' = origin
      BY <1>9 DEF MarkDelivered, MarkUndelivered
    <2>3. CASE messages' = messages
      BY <1>1, <2>2, <2>3
    <2>4. ASSUME NEW s \in {"delivered", "failed"}, NEW q \in RowId, Ours(q),
                 messages' = SetStatus(messages, StillNew(messages, r), s),
                 s = "delivered" => task[r] = "marking",
                 s = "failed" => task[r] = "refused"
          PROVE  Evolves(q)
      <3>1. q \in Live(messages)
        BY <2>4 DEF OursInv, Live
      <3>2. StillNew(messages, r) \in SUBSET Live(messages)
        BY DEF StillNew
      <3>3. /\ SameRows(messages, messages')
            /\ messages'[q].status = IF q \in StillNew(messages, r) THEN s
                                     ELSE messages[q].status
        BY <2>4, <3>1, <3>2, SetStatusEffect DEF Status
      <3>4. q \in StillNew(messages, r) => q = r /\ messages[q].status = "new"
        BY DEF StillNew
      <3>5. StatusMoves(q)
        BY <2>4, <3>3, <3>4 DEF StatusMoves
      <3>6. QED
        BY <2>2, <3>1, <3>3, <3>5 DEF Evolves, Renames, SameRows, Live
    <2>5. QED  BY <2>1, <2>2, <2>3, <2>4
  <1>10. ASSUME NEW r \in RowId, OperatorReads(r)
         PROVE  Goal
    BY <1>10, ReadEvolves, ReadsAreLive, ReadsAreUnread DEF OperatorReads
  <1>11. ASSUME NEW p \in Pid, ReceiptAnchored(p) \/ ReceiptSweeps(p)
         PROVE  Goal
    BY <1>11, ReadEvolves, ReadsAreLive, ReadsAreUnread
       DEF ReceiptAnchored, ReceiptSweeps
  <1>12. ASSUME NEW p \in Pid, ReceiptDropped(p)
         PROVE  Goal
    BY <1>1, <1>12 DEF ReceiptDropped
  <1>13. CASE Crash
    BY <1>1, <1>13 DEF Crash
  <1>14. CASE UNCHANGED vars
    BY <1>1, <1>14 DEF vars
  <1>15. QED
    BY <1>2, <1>3, <1>4, <1>6, <1>7, <1>8, <1>9, <1>10, <1>11, <1>12, <1>13,
       <1>14 DEF Next, ProviderNext, OperatorNext, Deliver, WebhookNext, Receipt

(* An operator's row on its side with an author is one stored here.        *)
LEMMA OperatorRowsAreOurs == IInv => \A r \in OperatorRows : r \in RowId /\ Ours(r)
  BY DEF IInv, TheirsInv, OperatorRows, Live

(* A reply's id changes only from the panel's to the provider's, once.     *)
THEOREM IdsAreRenamedOnce == Spec => RenamedOnce
  <1> DEFINE Kept ==
        \A r \in OperatorRows :
          /\ messages'[r] # NoRow
          /\ messages'[r].ext # messages[r].ext =>
                /\ messages[r].ext = Local(midOf[r])
                /\ \E p \in Pid : messages'[r].ext = Provider(p) /\ TookAs(r, p)
  <1>1. IInv /\ [Next]_vars => Kept
    BY OperatorRowsAreOurs, StepEvolves DEF Evolves, Renames
  <1>2. QED  BY <1>1, Invariance, PTL DEF Spec, RenamedOnce

-----------------------------------------------------------------------------
(* Receipts.                                                               *)

(* What one step adds to the receipts handled to the end: a receipt that   *)
(* matched rows up to its anchor, or one that swept the chat.              *)
LEMMA StepSettles ==
    ASSUME IInv, [Next]_vars
    PROVE  \A p \in settled' : p \notin settled =>
              /\ p \in receipts
              /\ \/ /\ messages' = MarkRead(messages,
                          UpTo(messages, Holders(messages, Provider(p)), "client"))
                    /\ UpTo(messages, Holders(messages, Provider(p)), "client") # {}
                 \/ messages' = MarkRead(messages, WholeChat(messages, "client"))
  <1> DEFINE Goal == \A p \in settled' : p \notin settled =>
              /\ p \in receipts
              /\ \/ /\ messages' = MarkRead(messages,
                          UpTo(messages, Holders(messages, Provider(p)), "client"))
                    /\ UpTo(messages, Holders(messages, Provider(p)), "client") # {}
                 \/ messages' = MarkRead(messages, WholeChat(messages, "client"))
  <1>1. ASSUME settled' = settled
        PROVE  Goal
    BY <1>1
  <1>2. ASSUME NEW p \in Pid, ReceiptAnchored(p)
        PROVE  Goal
    BY <1>2 DEF ReceiptAnchored
  <1>3. ASSUME NEW p \in Pid, ReceiptSweeps(p)
        PROVE  Goal
    BY <1>3 DEF ReceiptSweeps, IInv, ReceiptsInv
  <1>4. CASE ProviderNext \/ OperatorNext \/ Crash \/ UNCHANGED vars
    BY <1>1, <1>4 DEF ProviderNext, OperatorNext, Crash, vars, CustomerWrites,
       OwnerWrites, CustomerReads, OperatorSends, SpawnDelivery, SkipDelivery,
       OperatorReads
  <1>5. ASSUME NEW r \in RowId, Deliver(r)
        PROVE  Goal
    BY <1>1, <1>5 DEF Deliver, ProviderRefuses, AnswerArrives, AnswerLost,
       MarkDelivered, MarkUndelivered, AdoptFails, ProviderTakes, AdoptClaim,
       AdoptCommit, AdoptRefused
  <1>6. ASSUME NEW p \in Pid, NEW c \in BOOLEAN,
               EchoArrives(p, c) \/ InboundArrives(p, c) \/ ReceiptDropped(p)
        PROVE  Goal
    BY <1>1, <1>6 DEF EchoArrives, InboundArrives, ReceiptDropped
  <1>7. QED
    BY <1>2, <1>3, <1>4, <1>5, <1>6 DEF Next, WebhookNext, Receipt

(* A reply the provider took is unread by the customer or settled already. *)
LEMMA TakenIsUnreadOrFinal ==
    ASSUME IInv, NEW r \in RowId, Took(r)
    PROVE  /\ Ours(r)
           /\ r \in Live(messages)
           /\ messages[r].inChat
           /\ \/ r \in Unread(messages, "client")
              \/ messages[r].status \in {"read", "failed"}
  <1> USE DEF IInv, TypeOK
  <1>1. task[r] # "none"
    BY DEF ThreadInv, BeforeSend
  <1>2. /\ Ours(r) /\ r \in Live(messages)
        /\ messages[r].inChat /\ messages[r].side = "operator"
    BY <1>1 DEF OursInv, Live
  <1>3. messages[r].status \in Status
    BY <1>2 DEF Live, Table, Row
  <1>4. QED  BY <1>2, <1>3 DEF Status, Unread

(* Whatever came first of the receipt, the echo and the adoption, and      *)
(* whatever failed or crashed: once a receipt was handled to its end, the  *)
(* reply it named is read (or was given up as failed).  An anchor is at or *)
(* after the reply it stands for (EchoInv), so the watermark covers it;    *)
(* without an anchor the sweep covers the chat.                            *)
THEOREM ReceiptsSettle == Spec => []ReceiptSettles
  <1>1. Init => ReceiptSettles
    BY DEF Init, ReceiptSettles
  <1>2. ASSUME IInv, ReceiptSettles, [Next]_vars
        PROVE  ReceiptSettles'
    <2> SUFFICES ASSUME NEW p \in settled', NEW r \in RowId, TookAs(r, p)'
                 PROVE  messages'[r].status \in {"read", "failed"}
      BY DEF ReceiptSettles
    <2>1. p \in receipts /\ p \in Pid
      BY <1>2, StepSettles DEF IInv, TypeOK
    <2>2. origin[p] # Unsent
      BY <1>2, <2>1, StoreAssumption DEF IInv, ReceiptsInv, FromAccount, Unsent,
         OwnersApp, RowId
    <2>3. TookAs(r, p) /\ Took(r)
      BY <1>2, <2>1, <2>2, StepEvolves DEF TookAs, Took
    <2>4. /\ Ours(r) /\ r \in Live(messages) /\ messages[r].inChat
          /\ \/ r \in Unread(messages, "client")
             \/ messages[r].status \in {"read", "failed"}
      BY <1>2, <2>3, TakenIsUnreadOrFinal
    <2>5. Evolves(r)
      BY <1>2, <2>4, StepEvolves
    <2>6. CASE messages[r].status \in {"read", "failed"}
      BY <2>5, <2>6 DEF Evolves, StatusMoves
    <2>7. CASE p \in settled
      BY <1>2, <2>3, <2>6, <2>7 DEF ReceiptSettles
    <2>8. CASE p \notin settled /\ r \in Unread(messages, "client")
      <3> DEFINE A == Holders(messages, Provider(p))
      <3>1. \/ messages' = MarkRead(messages, UpTo(messages, A, "client"))
               /\ UpTo(messages, A, "client") # {}
            \/ messages' = MarkRead(messages, WholeChat(messages, "client"))
        BY <1>2, <2>8, StepSettles
      <3>2. ASSUME NEW R \in SUBSET Live(messages), r \in R,
                   messages' = MarkRead(messages, R)
            PROVE  messages'[r].status = "read"
        BY <1>2, <2>4, <3>2, SetStatusEffect DEF MarkRead, Status, IInv, TypeOK
      <3>3. CASE messages' = MarkRead(messages, WholeChat(messages, "client"))
        BY <2>4, <2>8, <3>2, <3>3, ReadsAreLive DEF WholeChat
      <3>4. CASE messages' = MarkRead(messages, UpTo(messages, A, "client"))
                 /\ UpTo(messages, A, "client") # {}
        <4>1. PICK a \in A : messages[a].inChat
          BY <3>4 DEF UpTo
        <4>2. r <= a
          BY <1>2, <2>1, <2>3, <4>1 DEF IInv, EchoInv
        <4>3. r \in UpTo(messages, A, "client")
          BY <2>4, <2>8, <4>1, <4>2 DEF UpTo
        <4>4. QED  BY <3>2, <3>4, <4>3, ReadsAreLive
      <3>5. QED  BY <3>1, <3>3, <3>4
    <2>9. QED  BY <2>4, <2>6, <2>7, <2>8
  <1>3. QED  BY <1>1, <1>2, Invariance, PTL DEF Spec

-----------------------------------------------------------------------------
(* Re-sent replies.                                                        *)

(* Only a send records a panel id.                                         *)
LEMMA OnlySendsRecordMids ==
    ASSUME [Next]_vars
    PROVE  midOf' = midOf \/ \E m \in Mids : OperatorSends(m)
  <1>1. ASSUME NEW r \in RowId, Deliver(r)
        PROVE  midOf' = midOf
    BY <1>1 DEF Deliver, ProviderRefuses, AnswerArrives, AnswerLost,
       MarkDelivered, MarkUndelivered, AdoptFails, ProviderTakes, AdoptClaim,
       AdoptCommit, AdoptRefused
  <1>2. CASE ProviderNext \/ Crash \/ UNCHANGED vars
    BY <1>2 DEF ProviderNext, Crash, vars, CustomerWrites, OwnerWrites, CustomerReads
  <1>3. ASSUME NEW r \in RowId, SpawnDelivery(r) \/ SkipDelivery(r) \/ OperatorReads(r)
        PROVE  midOf' = midOf
    BY <1>3 DEF SpawnDelivery, SkipDelivery, OperatorReads
  <1>4. CASE WebhookNext
    BY <1>4 DEF WebhookNext, Receipt, EchoArrives, InboundArrives,
       ReceiptAnchored, ReceiptSweeps, ReceiptDropped
  <1>5. QED  BY <1>1, <1>2, <1>3, <1>4 DEF Next, OperatorNext

(* A row of the panel's id keeps later sends of that id out until its task *)
(* adopts the provider's id, and at no other time lets them in.            *)
THEOREM ResendsAreStoredOnlyAfterAdoption == Spec => []StoredTwiceOnlyAfterAdoption
  <1> DEFINE Pair(r, q) == r < q /\ midOf[r] # NoMid /\ midOf[r] = midOf[q]
             Twice == \A r, q \in RowId : Pair(r, q) => task[r] = "adopted"
  <1>1. Init => Twice
    BY DEF Init
  <1>2. ASSUME IInv, Twice, [Next]_vars
        PROVE  Twice'
    <2> SUFFICES ASSUME NEW r \in RowId, NEW q \in RowId, Pair(r, q)'
                 PROVE  task'[r] = "adopted"
      OBVIOUS
    <2>1. IInv'
      BY <1>2, IInvStep
    <2>2. ASSUME Ours(r), task[r] = "adopted"
          PROVE  task'[r] = "adopted"
      <3>1. messages[r].ext # Local(midOf[r])
        <4>1. \E p \in Pid : messages[r].ext = Provider(p)
          BY <1>2, <2>2 DEF IInv, OursInv
        <4>2. QED  BY <4>1 DEF Provider, Local
      <3>2. messages'[r].ext = messages[r].ext /\ midOf'[r] = midOf[r]
        BY <1>2, <2>2, <3>1, StepEvolves DEF Evolves, Renames
      <3>3. QED  BY <2>1, <2>2, <3>1, <3>2 DEF IInv, OursInv, Ours, Local
    <2>3. CASE midOf' = midOf
      BY <1>2, <2>2, <2>3 DEF Ours
    <2>4. ASSUME NEW m \in Mids, OperatorSends(m)
          PROVE  task'[r] = "adopted"
      <3>1. nextRow \in RowId
        BY <1>2, <2>4, StoreAssumption DEF OperatorSends, RowId, IInv, TypeOK
      <3>2. \A s \in RowId : midOf'[s] = IF s = nextRow THEN m ELSE midOf[s]
        BY <1>2, <2>4, <3>1 DEF OperatorSends, IInv, TypeOK
      <3>3. \A s \in RowId : s >= nextRow => ~Ours(s)
        BY <1>2 DEF IInv, FreshInv
      <3>4. r # nextRow
        <4>1. CASE r = nextRow
          <5>1. q > nextRow /\ q # nextRow
            BY <4>1, <3>1 DEF RowId
          <5>2. midOf'[q] = midOf[q] /\ ~Ours(q)
            BY <3>2, <3>3, <5>1, <3>1 DEF RowId
          <5>3. QED  BY <5>2 DEF Ours
        <4>2. QED  BY <4>1
      <3>5. Ours(r)
        BY <3>2, <3>4 DEF Ours
      <3>6. CASE q = nextRow
        <4>1. midOf[r] = m
          BY <3>2, <3>4, <3>6
        <4>2. r \notin Holders(messages, Local(m))
          BY <2>4 DEF OperatorSends, Conflicts
        <4>3. task[r] = "adopted"
          BY <1>2, <3>5, <4>1, <4>2 DEF IInv, OursInv, Holders, Live
        <4>4. QED  BY <2>2, <3>5, <4>3
      <3>7. CASE q # nextRow
        <4>1. Pair(r, q)
          BY <3>2, <3>4, <3>7
        <4>2. QED  BY <1>2, <2>2, <3>5, <4>1
      <3>8. QED  BY <3>6, <3>7
    <2>5. QED  BY <1>2, <2>3, <2>4, OnlySendsRecordMids
  <1>3. Twice /\ IInv => StoredTwiceOnlyAfterAdoption
    BY DEF StoredTwiceOnlyAfterAdoption, IInv, OursInv, Ours
  <1>4. QED  BY <1>1, <1>2, <1>3, Invariance, PTL DEF Spec

-----------------------------------------------------------------------------
(* Outcomes.                                                               *)

Delivered == {"adopting", "cleared", "doomed", "adopted", "unadopted"}

(* A task gets its outcome from the step that writes it to the table.      *)
LEMMA OutcomeComesFromMarking ==
    ASSUME IInv, [Next]_vars, NEW r \in RowId
    PROVE  \/ task'[r] \notin Delivered \cup {"undelivered"}
           \/ task'[r] = task[r]
           \/ task[r] \in Delivered /\ task'[r] \in Delivered
           \/ task[r] = "marking" /\ task'[r] = "adopting" /\ MarkDelivered(r)
           \/ task[r] = "refused" /\ task'[r] = "undelivered" /\ MarkUndelivered(r)
  <1> DEFINE Goal == \/ task'[r] \notin Delivered \cup {"undelivered"}
                     \/ task'[r] = task[r]
                     \/ task[r] \in Delivered /\ task'[r] \in Delivered
                     \/ task[r] = "marking" /\ task'[r] = "adopting" /\ MarkDelivered(r)
                     \/ task[r] = "refused" /\ task'[r] = "undelivered" /\ MarkUndelivered(r)
  <1> USE DEF IInv, TypeOK, Delivered
  <1>1. ASSUME NEW q \in RowId, Deliver(q)
        PROVE  Goal
    <2>1. CASE q = r /\ (MarkDelivered(q) \/ MarkUndelivered(q))
      BY <2>1 DEF MarkDelivered, MarkUndelivered
    <2>2. CASE q # r \/ ~(MarkDelivered(q) \/ MarkUndelivered(q))
      BY <1>1, <2>2 DEF Deliver, ProviderRefuses, AnswerArrives, AnswerLost,
         MarkDelivered, MarkUndelivered, AdoptFails, ProviderTakes, AdoptClaim,
         AdoptCommit, AdoptRefused
    <2>3. QED  BY <2>1, <2>2
  <1>2. CASE ProviderNext \/ UNCHANGED vars
    BY <1>2 DEF ProviderNext, vars, CustomerWrites, OwnerWrites, CustomerReads
  <1>3. CASE OperatorNext
    BY <1>3 DEF OperatorNext, OperatorSends, SpawnDelivery, SkipDelivery, OperatorReads
  <1>4. CASE WebhookNext
    BY <1>4 DEF WebhookNext, Receipt, EchoArrives, InboundArrives,
       ReceiptAnchored, ReceiptSweeps, ReceiptDropped
  <1>5. CASE Crash
    BY <1>5 DEF Crash, InFlight
  <1>6. QED  BY <1>1, <1>2, <1>3, <1>4, <1>5 DEF Next

(* Unless the database fails a statement, a task that ended has left its   *)
(* outcome in the history, whatever the receipts did to its row meanwhile. *)
THEOREM OutcomesAreShown == Spec => []OutcomeShown
  <1> DEFINE Outcome ==
        "database" \notin Faults =>
            \A r \in RowId :
                /\ task[r] \in Delivered => messages[r].status \in {"delivered", "read"}
                /\ task[r] = "undelivered" => messages[r].status \in {"failed", "read"}
  <1>1. Init => Outcome
    BY DEF Init, Delivered
  <1>2. ASSUME IInv, Outcome, [Next]_vars
        PROVE  Outcome'
    <2> SUFFICES ASSUME "database" \notin Faults, NEW r \in RowId,
                        task'[r] \in Delivered \cup {"undelivered"}
                 PROVE  /\ task'[r] \in Delivered
                              => messages'[r].status \in {"delivered", "read"}
                        /\ task'[r] = "undelivered"
                              => messages'[r].status \in {"failed", "read"}
      OBVIOUS
    <2>1. "undelivered" \notin Delivered
      BY DEF Delivered
    <2>2. CASE task'[r] = task[r] \/ (task[r] \in Delivered /\ task'[r] \in Delivered)
      <3>1. Ours(r)
        BY <1>2, <2>2 DEF IInv, OursInv, Delivered
      <3>2. StatusMoves(r)
        BY <1>2, <3>1, StepEvolves DEF Evolves
      <3>3. QED  BY <1>2, <2>1, <2>2, <3>2 DEF StatusMoves, Delivered
    <2>3. ASSUME NEW s \in {"delivered", "failed"},
                 task[r] \in {"marking", "refused"},
                 messages' = SetStatus(messages, StillNew(messages, r), s)
          PROVE  messages'[r].status \in {s, "read"}
      <3>1. /\ r \in Live(messages)
            /\ messages[r].status \in {"new", "read"}
            /\ messages \in Table
        BY <1>2, <2>3 DEF IInv, TypeOK, OursInv, PendingInv, Live
      <3>2. StillNew(messages, r) \in SUBSET Live(messages)
        BY DEF StillNew
      <3>3. messages'[r].status = IF r \in StillNew(messages, r) THEN s
                                  ELSE messages[r].status
        BY <2>3, <3>1, <3>2, SetStatusEffect DEF Status
      <3>4. QED  BY <3>1, <3>3 DEF StillNew
    <2>4. CASE MarkDelivered(r) /\ task[r] = "marking" /\ task'[r] = "adopting"
      BY <2>1, <2>3, <2>4 DEF MarkDelivered, MarkDeliveredRow
    <2>5. CASE MarkUndelivered(r) /\ task[r] = "refused" /\ task'[r] = "undelivered"
      BY <2>1, <2>3, <2>5 DEF MarkUndelivered, MarkFailedRow
    <2>6. QED  BY <1>2, <2>2, <2>4, <2>5, OutcomeComesFromMarking
  <1>3. IInv /\ Outcome => OutcomeShown
    BY OperatorRowsAreOurs DEF OutcomeShown, Delivered
  <1>4. QED  BY <1>1, <1>2, <1>3, Invariance, PTL DEF Spec

-----------------------------------------------------------------------------
(* The promise of ReplyLife.                                               *)

ShownRows   == [r \in RowId |-> Shown(r)]
TakenRows   == {r \in RowId : Took(r)}
WrittenRows == {r \in Live(messages) : messages[r].authored}

(* The state ReplyLife sees.                                               *)
Abstract == <<ShownRows, TakenRows, WrittenRows>>

(* Steps that change no row and no thread, or the thread by others'        *)
(* messages, are not seen.                                                 *)
LEMMA Unseen ==
    ASSUME messages' = messages, nextRow' = nextRow,
           \A r \in RowId : Took(r)' <=> Took(r)
    PROVE  UNCHANGED Abstract
  BY DEF Abstract, ShownRows, TakenRows, WrittenRows, Shown

(* Reads are seen as one read of all their rows.                           *)
LEMMA ReadSeen ==
    ASSUME IInv, NEW R \in SUBSET Live(messages), NEW reader,
           R \subseteq Unread(messages, reader),
           messages' = MarkRead(messages, R), UNCHANGED <<nextRow, origin>>
    PROVE  /\ \A r \in R : ShownRows[r] \in {"new", "delivered"}
           /\ ShownRows' = [r \in RowId |-> IF r \in R THEN "read" ELSE ShownRows[r]]
           /\ UNCHANGED <<TakenRows, WrittenRows>>
  <1>1. /\ SameRows(messages, messages')
        /\ \A r \in Live(messages) :
              messages'[r].status = IF r \in R THEN "read" ELSE messages[r].status
    BY SetStatusEffect DEF MarkRead, Status, IInv, TypeOK
  <1>2. Live(messages') = Live(messages)
    BY <1>1 DEF SameRows, Live
  <1>3. ASSUME NEW r \in R
        PROVE  ShownRows[r] \in {"new", "delivered"}
    BY DEF ShownRows, Shown, Unread, Live
  <1>4. ASSUME NEW r \in RowId
        PROVE  Shown(r)' = IF r \in R THEN "read" ELSE Shown(r)
    BY <1>1, <1>2 DEF Shown
  <1>5. ShownRows' = [r \in RowId |-> IF r \in R THEN "read" ELSE ShownRows[r]]
    BY <1>4 DEF ShownRows
  <1>6. TakenRows' = TakenRows
    BY DEF TakenRows, Took, TookAs
  <1>7. WrittenRows' = WrittenRows
    BY <1>1, <1>2 DEF WrittenRows, SameRows, Live
  <1>8. QED  BY <1>3, <1>5, <1>6, <1>7

(* An insert is seen as a row stored.                                      *)
LEMMA StoreSeen ==
    ASSUME IInv, NEW x \in ExtId, NEW side \in Side, NEW a \in BOOLEAN,
           NEW c \in BOOLEAN, nextRow <= MaxRows,
           messages' = Insert(messages, nextRow, x, side, a, c),
           nextRow' = nextRow + 1, origin' = origin
    PROVE  \E n \in RowId : Life!Store(n)
  <1> USE DEF IInv, TypeOK
  <1>1. PICK n \in RowId : n = nextRow
    BY StoreAssumption DEF RowId
  <1>2. /\ \A q \in RowId \ {n} : messages'[q] = messages[q]
        /\ messages'[n] # NoRow
        /\ messages'[n].authored = a
        /\ messages'[n].status = "new"
    BY <1>1, InsertEffect
  <1>3. messages[n] = NoRow
    BY <1>1 DEF FreshInv, RowId
  <1>4. ShownRows[n] = "absent"
    BY <1>1, <1>3 DEF ShownRows, Shown, Live, RowId
  <1>5. Live(messages') = Live(messages) \cup {n} /\ n \notin Live(messages)
    BY <1>1, <1>2, <1>3 DEF Live
  <1>6. ASSUME NEW r \in RowId
        PROVE  Shown(r)' = IF r = n THEN "new" ELSE Shown(r)
    <2>1. CASE r = n
      BY <1>2, <1>5, <2>1 DEF Shown
    <2>2. CASE r # n
      <3>1. r < nextRow <=> r < nextRow'
        BY <2>2, <1>1, StoreAssumption DEF RowId
      <3>2. messages'[r] = messages[r]
        BY <1>2, <2>2
      <3>3. r \in Live(messages') <=> r \in Live(messages)
        BY <1>5, <2>2
      <3>4. QED  BY <2>2, <3>1, <3>2, <3>3 DEF Shown
    <2>3. QED  BY <2>1, <2>2
  <1>7. ShownRows' = [ShownRows EXCEPT ![n] = "new"]
    BY <1>1, <1>6 DEF ShownRows
  <1>8. WrittenRows' \in {WrittenRows, WrittenRows \cup {n}}
    <2>1. \A r \in Live(messages) : messages'[r] = messages[r]
      BY <1>2, <1>5 DEF Live
    <2>2. WrittenRows' = IF a THEN WrittenRows \cup {n} ELSE WrittenRows
      BY <1>2, <1>5, <2>1 DEF WrittenRows
    <2>3. QED  BY <2>2
  <1>9. TakenRows' = TakenRows
    BY DEF TakenRows, Took, TookAs
  <1>10. QED
    BY <1>1, <1>4, <1>7, <1>8, <1>9
       DEF Life!Store, ShownRows, TakenRows, WrittenRows

(* The provider taking a reply is seen as such.                            *)
LEMMA TakeSeen ==
    ASSUME IInv, NEW r \in RowId, NEW p \in Pid, ProviderTakes(r, p)
    PROVE  Life!Take(r)
  <1>1. /\ task[r] = "sending" /\ origin[p] = Unsent
        /\ origin' = [origin EXCEPT ![p] = r]
        /\ messages' = messages /\ nextRow' = nextRow
    BY DEF ProviderTakes, FirstUnsent
  <1>2. r \in Live(messages) /\ messages[r].status \in {"new", "read"}
    BY <1>1 DEF IInv, OursInv, PendingInv, Live
  <1>3. ShownRows[r] \in {"new", "read"}
    BY <1>2 DEF ShownRows, Shown
  <1>4. \A q \in RowId : Took(q)' <=> Took(q) \/ q = r
    BY <1>1, StoreAssumption DEF IInv, TypeOK, Took, TookAs, Unsent, RowId
  <1>5. TakenRows' = TakenRows \cup {r}
    BY <1>4 DEF TakenRows
  <1>6. ShownRows' = ShownRows /\ WrittenRows' = WrittenRows
    BY <1>1 DEF ShownRows, Shown, WrittenRows
  <1>7. QED
    BY <1>3, <1>5, <1>6 DEF Life!Take, ShownRows, TakenRows, WrittenRows

(* An outcome recorded is seen as a tick, as a failure or not at all.      *)
LEMMA OutcomeSeen ==
    ASSUME IInv, NEW r \in RowId, MarkDelivered(r) \/ MarkUndelivered(r)
    PROVE  Life!Tick(r) \/ Life!Fail(r) \/ UNCHANGED Abstract
  <1> DEFINE R == StillNew(messages, r)
  <1>1. /\ nextRow' = nextRow /\ origin' = origin
        /\ \/ messages' = messages
           \/ task[r] = "marking" /\ messages' = SetStatus(messages, R, "delivered")
           \/ task[r] = "refused" /\ messages' = SetStatus(messages, R, "failed")
    BY DEF MarkDelivered, MarkUndelivered, MarkDeliveredRow, MarkFailedRow
  <1>2. \A q \in RowId : Took(q)' <=> Took(q)
    BY <1>1 DEF Took, TookAs
  <1>3. CASE messages' = messages
    BY <1>1, <1>2, <1>3, Unseen
  <1>4. ASSUME NEW s \in {"delivered", "failed"},
               task[r] \in {"marking", "refused"},
               messages' = SetStatus(messages, R, s)
        PROVE  \/ messages' = messages
               \/ /\ ShownRows[r] = "new"
                  /\ ShownRows' = [ShownRows EXCEPT ![r] = s]
                  /\ UNCHANGED <<TakenRows, WrittenRows>>
    <2>1. r \in Live(messages) /\ messages \in Table
      BY <1>4 DEF IInv, TypeOK, OursInv, Live
    <2>2. R \in SUBSET Live(messages) /\ R \subseteq {r}
      BY DEF StillNew
    <2>3. CASE R = {}
      <3>1. messages' = [q \in RowId |-> messages[q]]
        BY <1>4, <2>3 DEF SetStatus
      <3>2. QED  BY <2>1, <3>1 DEF Table
    <2>4. CASE R = {r}
      <3>1. /\ SameRows(messages, messages')
            /\ \A q \in Live(messages) :
                  messages'[q].status = IF q = r THEN s ELSE messages[q].status
        BY <1>4, <2>1, <2>2, <2>4, SetStatusEffect DEF Status
      <3>2. Live(messages') = Live(messages)
        BY <3>1 DEF SameRows, Live
      <3>3. messages[r].status = "new"
        BY <2>4 DEF StillNew
      <3>4. ShownRows[r] = "new"
        BY <2>1, <3>3 DEF ShownRows, Shown
      <3>5. \A q \in RowId : Shown(q)' = IF q = r THEN s ELSE Shown(q)
        BY <1>1, <2>1, <3>1, <3>2 DEF Shown
      <3>6. ShownRows' = [ShownRows EXCEPT ![r] = s]
        BY <3>5 DEF ShownRows
      <3>7. WrittenRows' = WrittenRows
        BY <3>1, <3>2 DEF WrittenRows, SameRows, Live
      <3>8. TakenRows' = TakenRows
        BY <1>2 DEF TakenRows
      <3>9. QED  BY <3>4, <3>6, <3>7, <3>8
    <2>5. QED  BY <2>2, <2>3, <2>4
  <1>5. task[r] = "marking" => r \in TakenRows
    BY DEF IInv, ThreadInv, AfterTaken, TakenRows
  <1>6. QED
    BY <1>1, <1>3, <1>4, <1>5
       DEF Life!Tick, Life!Fail, ShownRows, TakenRows, WrittenRows

(* The commit of an adoption is seen as the drop of the echo, if there was *)
(* one.                                                                    *)
LEMMA AdoptionSeen ==
    ASSUME IInv, NEW r \in RowId, NEW p \in Pid, AdoptCommit(r, p)
    PROVE  (\E d \in RowId : Life!Drop(d)) \/ UNCHANGED Abstract
  <1> USE DEF IInv, TypeOK
  <1> DEFINE D == Duplicates(messages, r, p)
  <1>1. /\ task[r] \in {"cleared", "doomed"} /\ TookAs(r, p)
        /\ messages' = Adopt(messages, r, p, D)
        /\ nextRow' = nextRow /\ origin' = origin /\ midOf' = midOf
    BY DEF AdoptCommit
  <1>2. Ours(r) /\ r \in Live(messages)
    BY <1>1 DEF OursInv, Live
  <1>3. \A d \in D : d \in Live(messages) /\ d # r /\ messages[d].ext = Provider(p)
    BY DEF Duplicates, Holders
  <1>4. D \in SUBSET (RowId \ {r})
    BY <1>3 DEF Live
  <1>5. /\ \A q \in D : messages'[q] = NoRow
        /\ \A q \in RowId \ (D \cup {r}) : messages'[q] = messages[q]
        /\ messages'[r] # NoRow
        /\ messages'[r].authored = messages[r].authored
        /\ messages'[r].status = messages[r].status
    BY <1>1, <1>2, <1>4, AdoptEffect
  <1>6. Live(messages') = Live(messages) \ D
    BY <1>2, <1>3, <1>4, <1>5 DEF Live
  <1>7. \A q \in RowId : Took(q)' <=> Took(q)
    BY <1>1 DEF Took, TookAs
  <1>8. \A q \in RowId : Shown(q)' = IF q \in D THEN "dropped" ELSE Shown(q)
    <2> SUFFICES ASSUME NEW q \in RowId
                 PROVE  Shown(q)' = IF q \in D THEN "dropped" ELSE Shown(q)
      OBVIOUS
    <2>1. q \in D => q < nextRow
      BY <1>3 DEF FreshInv, RowId, Live
    <2>2. QED  BY <1>1, <1>2, <1>5, <1>6, <2>1 DEF Shown
  <1>9. \A d \in D : ~Ours(d)
    <2> SUFFICES ASSUME NEW d \in D PROVE ~Ours(d)
      OBVIOUS
    <2>1. \A q \in RowId : Ours(q) => messages'[q] # NoRow
      BY StepEvolves DEF Evolves, Next, Deliver
    <2>2. QED  BY <1>4, <1>5, <2>1
  <1>10. \A d \in D : d \notin WrittenRows /\ ShownRows[d] \in {"new", "read"}
    <2> SUFFICES ASSUME NEW d \in D
                 PROVE  d \notin WrittenRows /\ ShownRows[d] \in {"new", "read"}
      OBVIOUS
    <2>1. /\ d \in Live(messages) /\ d \in RowId /\ ~Ours(d)
          /\ messages[d].ext = Provider(p)
          /\ messages[d].status \in {"new", "read"}
          /\ messages[d].side \in Side
      BY <1>3, <1>4, <1>9 DEF TheirsInv, Live, Table, Row
    <2>2. messages[d].side # "client"
      <3>1. PICK q \in Pid : /\ messages[d].ext = Provider(q)
                             /\ messages[d].side = "client" => origin[q] = Customer
        BY <2>1 DEF TheirsInv
      <3>2. q = p
        BY <2>1, <3>1 DEF Provider
      <3>3. QED  BY <1>1, <3>1, <3>2, StoreAssumption DEF TookAs, Customer, RowId
    <2>3. ~messages[d].authored
      BY <2>1, <2>2 DEF TheirsInv, Side
    <2>4. QED  BY <2>1, <2>3 DEF WrittenRows, ShownRows, Shown
  <1>11. \A d, e \in D : d = e
    BY <1>3 DEF HoldersInv
  <1>12. TakenRows' = TakenRows
    BY <1>7 DEF TakenRows
  <1>13. WrittenRows' = WrittenRows
    <2>1. \A q \in Live(messages') :
             q \in Live(messages) /\ messages'[q].authored = messages[q].authored
      BY <1>2, <1>5, <1>6 DEF Live
    <2>2. QED  BY <1>6, <1>10, <2>1 DEF WrittenRows
  <1>14. CASE D = {}
    BY <1>8, <1>12, <1>13, <1>14 DEF Abstract, ShownRows
  <1>15. ASSUME NEW d \in D
         PROVE  Life!Drop(d) /\ d \in RowId
    <2>1. D = {d} /\ d \in RowId
      BY <1>4, <1>11, <1>15
    <2>2. ShownRows' = [ShownRows EXCEPT ![d] = "dropped"]
      BY <1>8, <2>1 DEF ShownRows
    <2>3. QED
      BY <1>10, <1>12, <1>13, <1>15, <2>1, <2>2
         DEF Life!Drop, ShownRows, TakenRows, WrittenRows
  <1>16. QED  BY <1>14, <1>15

(* Every step is a step of ReplyLife or is not seen.                       *)
LEMMA StepSeen == IInv /\ [Next]_vars => [Life!Next]_(Life!vars)
  <1> SUFFICES ASSUME IInv, [Next]_vars
               PROVE  Life!Next \/ UNCHANGED Abstract
    BY DEF Life!vars, Abstract, ShownRows, TakenRows, WrittenRows
  <1> DEFINE Goal == Life!Next \/ UNCHANGED Abstract
  <1>1. ASSUME UNCHANGED <<messages, nextRow, origin>>
        PROVE  Goal
    BY <1>1, Unseen DEF Took, TookAs
  <1>2. ASSUME NEW p \in Pid, CustomerWrites(p) \/ OwnerWrites(p)
        PROVE  Goal
    <2>1. \A r \in RowId : Took(r)' <=> Took(r)
      BY <1>2, StoreAssumption
         DEF CustomerWrites, OwnerWrites, FirstUnsent, Took, TookAs, Customer,
             OwnersApp, Unsent, RowId, IInv, TypeOK
    <2>2. messages' = messages /\ nextRow' = nextRow
      BY <1>2 DEF CustomerWrites, OwnerWrites
    <2>3. QED  BY <2>1, <2>2, Unseen
  <1>3. ASSUME NEW p \in Pid, CustomerReads(p) \/ ReceiptDropped(p)
        PROVE  Goal
    BY <1>1, <1>3 DEF CustomerReads, ReceiptDropped
  <1>4. ASSUME NEW m \in Mids, OperatorSends(m)
        PROVE  Goal
    <2>1. Local(m) \in ExtId /\ "operator" \in Side
      BY DEF ExtId, Side
    <2>2. \E n \in RowId : Life!Store(n)
      BY <1>4, <2>1, StoreSeen DEF OperatorSends
    <2>3. QED  BY <2>2 DEF Life!Next
  <1>5. ASSUME NEW p \in Pid, NEW c \in BOOLEAN,
               EchoArrives(p, c) \/ InboundArrives(p, c)
        PROVE  Goal
    <2>1. Provider(p) \in ExtId /\ {"client", "operator"} \subseteq Side
      BY DEF ExtId, Side
    <2>2. \E n \in RowId : Life!Store(n)
      BY <1>5, <2>1, StoreSeen DEF EchoArrives, InboundArrives
    <2>3. QED  BY <2>2 DEF Life!Next
  <1>6. ASSUME NEW r \in RowId, NEW p \in Pid, ProviderTakes(r, p)
        PROVE  Goal
    BY <1>6, TakeSeen DEF Life!Next
  <1>7. ASSUME NEW r \in RowId, MarkDelivered(r) \/ MarkUndelivered(r)
        PROVE  Goal
    BY <1>7, OutcomeSeen DEF Life!Next
  <1>8. ASSUME NEW r \in RowId, NEW p \in Pid, AdoptCommit(r, p)
        PROVE  Goal
    BY <1>8, AdoptionSeen DEF Life!Next
  <1>9. ASSUME NEW r \in RowId, NEW p \in Pid, AdoptClaim(r, p) \/ AdoptRefused(r, p)
        PROVE  Goal
    BY <1>1, <1>9 DEF AdoptClaim, AdoptRefused
  <1>10. ASSUME NEW r \in RowId,
                SpawnDelivery(r) \/ SkipDelivery(r) \/ ProviderRefuses(r)
                \/ AnswerArrives(r) \/ AnswerLost(r) \/ AdoptFails(r)
         PROVE  Goal
    BY <1>1, <1>10 DEF SpawnDelivery, SkipDelivery, ProviderRefuses,
       AnswerArrives, AnswerLost, AdoptFails
  <1>11. ASSUME NEW R \in SUBSET Live(messages), NEW reader,
                R \subseteq Unread(messages, reader),
                messages' = MarkRead(messages, R), UNCHANGED <<nextRow, origin>>
         PROVE  Goal
    <2>1. Life!Read(R)
      BY <1>11, ReadSeen DEF Life!Read, ShownRows, TakenRows, WrittenRows
    <2>2. R \in SUBSET RowId
      BY DEF Live
    <2>3. QED  BY <2>1, <2>2 DEF Life!Next
  <1>12. ASSUME NEW r \in RowId, OperatorReads(r)
         PROVE  Goal
    BY <1>11, <1>12, ReadsAreLive, ReadsAreUnread DEF OperatorReads
  <1>13. ASSUME NEW p \in Pid, ReceiptAnchored(p) \/ ReceiptSweeps(p)
         PROVE  Goal
    BY <1>11, <1>13, ReadsAreLive, ReadsAreUnread DEF ReceiptAnchored, ReceiptSweeps
  <1>14. CASE Crash
    BY <1>1, <1>14 DEF Crash
  <1>15. CASE UNCHANGED vars
    BY <1>1, <1>15 DEF vars
  <1>16. QED
    BY <1>2, <1>3, <1>4, <1>5, <1>6, <1>7, <1>8, <1>9, <1>10, <1>12, <1>13,
       <1>14, <1>15
       DEF Next, ProviderNext, OperatorNext, Deliver, WebhookNext, Receipt

(* The message store, with all its tasks and webhooks, keeps the promise   *)
(* of ReplyLife: statuses climb as MessageStatus says, only what the       *)
(* provider holds is ticked, and only echoes are dropped.                  *)
THEOREM Refinement == Spec => KeepsReplyLife
  <1>1. Init => Life!Init
    <2> SUFFICES ASSUME Init PROVE Life!Init
      OBVIOUS
    <2>1. Live(messages) = {}
      BY DEF Init, Live
    <2>2. \A r \in RowId : Shown(r) = "absent"
      <3>1. \A r \in RowId : ~(r < nextRow)
        BY StoreAssumption DEF Init, RowId
      <3>2. QED  BY <2>1, <3>1 DEF Shown
    <2>3. \A r \in RowId : ~Took(r)
      BY StoreAssumption DEF Init, Took, TookAs, Unsent, RowId
    <2>4. QED  BY <2>1, <2>2, <2>3 DEF Life!Init
  <1>2. QED
    BY <1>1, StepSeen, Invariance, PTL DEF Spec, KeepsReplyLife, Life!Spec
=============================================================================
