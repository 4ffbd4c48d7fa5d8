---------------------------- MODULE ReplyDelivery ----------------------------
(***************************************************************************)
(* An operator's reply on an Instagram channel, from the panel's socket to *)
(* the provider and back.                                                  *)
(*                                                                         *)
(*   - process_operator_message stores the reply under the panel's own id, *)
(*     publishes it and spawns one delivery task for it;                   *)
(*   - the task calls the provider once and then marks the row delivered   *)
(*     and renames it to the provider's id, or marks it failed;            *)
(*   - meanwhile the provider's webhooks bring echoes of what the account  *)
(*     sent, the customer's messages and the customer's read receipts, in  *)
(*     any order and any number of times.                                  *)
(*                                                                         *)
(* Every task and every webhook runs on its own, so each database          *)
(* statement is one step.  The transaction of adopt_external_message_id is *)
(* three: it runs at READ COMMITTED and other statements commit in between.*)
(***************************************************************************)
EXTENDS MessageStore

CONSTANT Faults   \* which of the faults below may happen

ASSUME FaultsAssumption == Faults \subseteq {"crash", "database", "answer"}

NoMid == "no mid"

ASSUME MidsAssumption == NoMid \notin Mids

VARIABLES
    messages,  \* the table
    nextRow,   \* the index the next insert gets
    midOf,     \* history: the panel's id an authored row was stored under
    task,      \* where the row's delivery has got to
    origin,    \* the provider's thread: what its p-th message came from
    receipts,  \* provider ids the customer's read receipts have named
    reading,   \* the webhook that handles the receipt for p
    settled    \* history: receipts handled to the end without an error

vars == <<messages, nextRow, midOf, task, origin, receipts, reading, settled>>

(* Where a message in the provider's thread came from, when not a row.     *)
Unsent    == 0
OwnersApp == -1   \* the account's owner wrote it in the provider's own app
Customer  == -2

Origin == RowId \cup {Unsent, OwnersApp, Customer}

InFlight == {"stored", "sending", "taken", "marking", "refused",
             "adopting", "cleared", "doomed"}
TaskState == InFlight \cup {"none", "unsent", "undelivered", "unadopted",
                            "adopted", "killed"}

ReadingState == {"idle", "sweep"}

TypeOK ==
    /\ messages \in Table
    /\ nextRow \in 1 .. MaxRows + 1
    /\ midOf \in [RowId -> Mids \cup {NoMid}]
    /\ task \in [RowId -> TaskState]
    /\ origin \in [Pid -> Origin]
    /\ receipts \subseteq Pid
    /\ reading \in [Pid -> ReadingState]
    /\ settled \subseteq receipts

Init ==
    /\ messages = [r \in RowId |-> NoRow]
    /\ nextRow = 1
    /\ midOf = [r \in RowId |-> NoMid]
    /\ task = [r \in RowId |-> "none"]
    /\ origin = [p \in Pid |-> Unsent]
    /\ receipts = {}
    /\ reading = [p \in Pid |-> "idle"]
    /\ settled = {}

-----------------------------------------------------------------------------
(* The provider.                                                           *)

(* The thread grows in order: p is the first id not handed out yet.        *)
FirstUnsent(p) ==
    /\ origin[p] = Unsent
    /\ \A q \in Pid : q < p => origin[q] # Unsent

TookAs(r, p) == origin[p] = r
Took(r) == \E p \in Pid : TookAs(r, p)

FromAccount(p) == origin[p] \in RowId \cup {OwnersApp}

CustomerWrites(p) ==
    /\ FirstUnsent(p)
    /\ origin' = [origin EXCEPT ![p] = Customer]
    /\ UNCHANGED <<messages, nextRow, midOf, task, receipts, reading, settled>>

OwnerWrites(p) ==
    /\ FirstUnsent(p)
    /\ origin' = [origin EXCEPT ![p] = OwnersApp]
    /\ UNCHANGED <<messages, nextRow, midOf, task, receipts, reading, settled>>

(* The customer reads the thread up to p; the receipt names p.             *)
CustomerReads(p) ==
    /\ FromAccount(p)
    /\ \A q \in receipts : q < p
    /\ receipts' = receipts \cup {p}
    /\ UNCHANGED <<messages, nextRow, midOf, task, origin, reading, settled>>

-----------------------------------------------------------------------------
(* The operator's socket.                                                  *)

(* insert_message under operator:<mid>.  While a row holds that id the     *)
(* insert conflicts and the handler only acknowledges; what it tests is    *)
(* the id column, nothing else remembers the mid.                          *)
OperatorSends(m) ==
    /\ nextRow <= MaxRows
    /\ ~Conflicts(messages, Local(m))
    /\ messages' = Insert(messages, nextRow, Local(m), "operator", TRUE, TRUE)
    /\ midOf' = [midOf EXCEPT ![nextRow] = m]
    /\ task' = [task EXCEPT ![nextRow] = "stored"]
    /\ nextRow' = nextRow + 1
    /\ UNCHANGED <<origin, receipts, reading, settled>>

(* The provider lookup names an outbound provider: the task is spawned.    *)
SpawnDelivery(r) ==
    /\ task[r] = "stored"
    /\ task' = [task EXCEPT ![r] = "sending"]
    /\ UNCHANGED <<messages, nextRow, midOf, origin, receipts, reading, settled>>

(* The text is empty, or the lookup failed, which the code takes for a     *)
(* widget channel: nothing is sent and the row keeps its status.           *)
SkipDelivery(r) ==
    /\ task[r] = "stored"
    /\ task' = [task EXCEPT ![r] = "unsent"]
    /\ UNCHANGED <<messages, nextRow, midOf, origin, receipts, reading, settled>>

(* mark_messages_read_by_id with the row the panel rendered.               *)
OperatorReads(r) ==
    /\ r \in Live(messages)
    /\ UpTo(messages, {r}, "operator") # {}
    /\ messages' = MarkRead(messages, UpTo(messages, {r}, "operator"))
    /\ UNCHANGED <<nextRow, midOf, task, origin, receipts, reading, settled>>

-----------------------------------------------------------------------------
(* The delivery task of row r.                                             *)

ProviderTakes(r, p) ==
    /\ task[r] = "sending"
    /\ FirstUnsent(p)
    /\ origin' = [origin EXCEPT ![p] = r]
    /\ task' = [task EXCEPT ![r] = "taken"]
    /\ UNCHANGED <<messages, nextRow, midOf, receipts, reading, settled>>

(* The provider said no, or the channel or the customer could not be       *)
(* looked up: deliver_to_instagram returns Err before anything was taken.  *)
ProviderRefuses(r) ==
    /\ task[r] = "sending"
    /\ task' = [task EXCEPT ![r] = "refused"]
    /\ UNCHANGED <<messages, nextRow, midOf, origin, receipts, reading, settled>>

AnswerArrives(r) ==
    /\ task[r] = "taken"
    /\ task' = [task EXCEPT ![r] = "marking"]
    /\ UNCHANGED <<messages, nextRow, midOf, origin, receipts, reading, settled>>

(* The HTTP timeout, or a body without an id: Err, though it was taken.    *)
AnswerLost(r) ==
    /\ "answer" \in Faults
    /\ task[r] = "taken"
    /\ task' = [task EXCEPT ![r] = "refused"]
    /\ UNCHANGED <<messages, nextRow, midOf, origin, receipts, reading, settled>>

(* mark_delivered; the task goes on to the adoption whatever it returns.   *)
MarkDelivered(r) ==
    /\ task[r] = "marking"
    /\ \/ messages' = MarkDeliveredRow(messages, r)
       \/ "database" \in Faults /\ UNCHANGED messages
    /\ task' = [task EXCEPT ![r] = "adopting"]
    /\ UNCHANGED <<nextRow, midOf, origin, receipts, reading, settled>>

(* Mutant of MarkUndelivered: a refused reply is sent again.               *)
MarkUndeliveredAndRetry(r) ==
    /\ task[r] = "refused"
    /\ task' = [task EXCEPT ![r] = "sending"]
    /\ UNCHANGED <<messages, nextRow, midOf, origin, receipts, reading, settled>>

(* Mutant of MarkUndelivered: the outcome is told but not recorded.        *)
MarkUndeliveredSilently(r) ==
    /\ task[r] = "refused"
    /\ task' = [task EXCEPT ![r] = "undelivered"]
    /\ UNCHANGED <<messages, nextRow, midOf, origin, receipts, reading, settled>>

(* mark_undelivered; the operator is told whatever it returns.             *)
MarkUndelivered(r) ==
    /\ task[r] = "refused"
    /\ \/ messages' = MarkFailedRow(messages, r)
       \/ "database" \in Faults /\ UNCHANGED messages
    /\ task' = [task EXCEPT ![r] = "undelivered"]
    /\ UNCHANGED <<nextRow, midOf, origin, receipts, reading, settled>>

(* adopt_external_message_id, first statements: the row is locked and      *)
(* whoever else holds the provider's id is deleted.  The deletion is not   *)
(* visible before the commit, but it holds the id: an echo that arrives    *)
(* meanwhile waits, and then conflicts.  With nothing to delete there is   *)
(* nothing to wait for.  A row that is gone ends the adoption.             *)
AdoptClaim(r, p) ==
    /\ task[r] = "adopting"
    /\ TookAs(r, p)
    /\ task' = [task EXCEPT ![r] =
                  IF r \notin Live(messages) THEN "unadopted"
                  ELSE IF Duplicates(messages, r, p) = {} THEN "cleared"
                  ELSE "doomed"]
    /\ UNCHANGED <<messages, nextRow, midOf, origin, receipts, reading, settled>>

(* The UPDATE of the id and the commit.  When nothing was deleted and a    *)
(* row has taken the id since, the unique index refuses the UPDATE and the *)
(* whole transaction is rolled back.                                       *)
AdoptCommit(r, p) ==
    /\ task[r] \in {"cleared", "doomed"}
    /\ TookAs(r, p)
    /\ task[r] = "cleared" => Duplicates(messages, r, p) = {}
    /\ messages' = Adopt(messages, r, p, Duplicates(messages, r, p))
    /\ task' = [task EXCEPT ![r] = "adopted"]
    /\ UNCHANGED <<nextRow, midOf, origin, receipts, reading, settled>>

AdoptRefused(r, p) ==
    /\ task[r] = "cleared"
    /\ TookAs(r, p)
    /\ Duplicates(messages, r, p) # {}
    /\ task' = [task EXCEPT ![r] = "unadopted"]
    /\ UNCHANGED <<messages, nextRow, midOf, origin, receipts, reading, settled>>

(* Any statement of the transaction fails: a lost connection, or Postgres  *)
(* picking it as the victim of a deadlock with a read over the same rows.  *)
AdoptFails(r) ==
    /\ "database" \in Faults
    /\ task[r] \in {"adopting", "cleared", "doomed"}
    /\ task' = [task EXCEPT ![r] = "unadopted"]
    /\ UNCHANGED <<messages, nextRow, midOf, origin, receipts, reading, settled>>

-----------------------------------------------------------------------------
(* The webhooks.  Meta redelivers, and every delivery is handled by a task *)
(* of its own.                                                             *)

(* Mutant of EchoArrives: an echo is routed as an inbound message is.      *)
EchoArrivesAsInbound(p, inChat) ==
    /\ FromAccount(p)
    /\ nextRow <= MaxRows
    /\ ~Conflicts(messages, Provider(p))
    /\ messages' = Insert(messages, nextRow, Provider(p), "client", inChat, inChat)
    /\ nextRow' = nextRow + 1
    /\ UNCHANGED <<midOf, task, origin, receipts, reading, settled>>

(* persist_and_publish of an echo: the operator's side, nobody's row.      *)
(* inChat is whether the customer could be resolved.                       *)
EchoArrives(p, inChat) ==
    /\ FromAccount(p)
    /\ nextRow <= MaxRows
    /\ ~Conflicts(messages, Provider(p))
    /\ messages' = Insert(messages, nextRow, Provider(p), "operator", FALSE, inChat)
    /\ nextRow' = nextRow + 1
    /\ UNCHANGED <<midOf, task, origin, receipts, reading, settled>>

(* An unresolved customer is no author either.                             *)
InboundArrives(p, inChat) ==
    /\ origin[p] = Customer
    /\ nextRow <= MaxRows
    /\ ~Conflicts(messages, Provider(p))
    /\ messages' = Insert(messages, nextRow, Provider(p), "client", inChat, inChat)
    /\ nextRow' = nextRow + 1
    /\ UNCHANGED <<midOf, task, origin, receipts, reading, settled>>

(* The receipt's first statement.  When it changed nothing, the handler    *)
(* goes on to the second one.                                              *)
ReceiptAnchored(p) ==
    LET matched == UpTo(messages, Holders(messages, Provider(p)), "client")
    IN  /\ p \in receipts
        /\ reading[p] = "idle"
        /\ messages' = MarkRead(messages, matched)
        /\ IF matched # {}
             THEN /\ settled' = settled \cup {p}
                  /\ UNCHANGED reading
             ELSE /\ reading' = [reading EXCEPT ![p] = "sweep"]
                  /\ UNCHANGED settled
        /\ UNCHANGED <<nextRow, midOf, task, origin, receipts>>

ReceiptSweeps(p) ==
    /\ reading[p] = "sweep"
    /\ messages' = MarkRead(messages, WholeChat(messages, "client"))
    /\ reading' = [reading EXCEPT ![p] = "idle"]
    /\ settled' = settled \cup {p}
    /\ UNCHANGED <<nextRow, midOf, task, origin, receipts>>

(* The second statement fails, or the customer of the receipt could not be *)
(* resolved and there is no chat to sweep.                                 *)
ReceiptDropped(p) ==
    /\ "database" \in Faults
    /\ reading[p] = "sweep"
    /\ reading' = [reading EXCEPT ![p] = "idle"]
    /\ UNCHANGED <<messages, nextRow, midOf, task, origin, receipts, settled>>

-----------------------------------------------------------------------------
(* The process dies, or stops before its tasks are done: nothing on disk   *)
(* says a delivery was under way, so nothing takes it up again.            *)
Crash ==
    /\ "crash" \in Faults
    /\ \/ \E r \in RowId : task[r] \in InFlight
       \/ \E p \in Pid : reading[p] # "idle"
    /\ task' = [r \in RowId |-> IF task[r] \in InFlight THEN "killed" ELSE task[r]]
    /\ reading' = [p \in Pid |-> "idle"]
    /\ UNCHANGED <<messages, nextRow, midOf, origin, receipts, settled>>

-----------------------------------------------------------------------------
ProviderNext ==
    \E p \in Pid : CustomerWrites(p) \/ OwnerWrites(p) \/ CustomerReads(p)

OperatorNext ==
    \/ \E m \in Mids : OperatorSends(m)
    \/ \E r \in RowId : SpawnDelivery(r) \/ SkipDelivery(r) \/ OperatorReads(r)

Deliver(r) ==
    \/ ProviderRefuses(r)
    \/ AnswerArrives(r)
    \/ AnswerLost(r)
    \/ MarkDelivered(r)
    \/ MarkUndelivered(r)
    \/ AdoptFails(r)
    \/ \E p \in Pid :
         \/ ProviderTakes(r, p)
         \/ AdoptClaim(r, p)
         \/ AdoptCommit(r, p)
         \/ AdoptRefused(r, p)

Receipt(p) == ReceiptAnchored(p) \/ ReceiptSweeps(p) \/ ReceiptDropped(p)

WebhookNext ==
    \/ \E p \in Pid, inChat \in BOOLEAN : EchoArrives(p, inChat)
    \/ \E p \in Pid, inChat \in BOOLEAN : InboundArrives(p, inChat)
    \/ \E p \in Pid : Receipt(p)

Next ==
    \/ ProviderNext
    \/ OperatorNext
    \/ \E r \in RowId : Deliver(r)
    \/ WebhookNext
    \/ Crash

Spec == Init /\ [][Next]_vars

(* The inductive invariant.                                                *)

(* A row some operator wrote here, from its insert on.                     *)
Ours(r) == midOf[r] # NoMid

(* The states of a task the provider has, or has not, answered.            *)
BeforeSend == {"none", "stored", "sending", "unsent"}
AfterTaken == {"taken", "marking", "adopting", "cleared", "doomed",
               "adopted", "unadopted"}

(* Nothing is known of an index before its insert.                         *)
FreshInv ==
    \A r \in RowId : r >= nextRow =>
        messages[r] = NoRow /\ ~Ours(r) /\ task[r] = "none"

(* An operator's row stays, on its side and in its chat, under the panel's *)
(* id until its task adopts the provider's.                                *)
OursInv ==
    \A r \in RowId :
        /\ Ours(r) <=> task[r] # "none"
        /\ Ours(r) =>
              /\ messages[r] # NoRow
              /\ messages[r].side = "operator"
              /\ messages[r].authored
              /\ messages[r].inChat
              /\ task[r] # "adopted" => messages[r].ext = Local(midOf[r])
              /\ task[r] = "adopted" =>
                    \E p \in Pid : TookAs(r, p) /\ messages[r].ext = Provider(p)

(* Every other row was brought by a webhook.                               *)
TheirsInv ==
    \A r \in Live(messages) : ~Ours(r) =>
        /\ messages[r].status \in {"new", "read"}
        /\ messages[r].side = "operator" => ~messages[r].authored
        /\ \E p \in Pid :
              /\ messages[r].ext = Provider(p)
              /\ messages[r].side = "operator" => FromAccount(p)
              /\ messages[r].side = "client" => origin[p] = Customer

(* The provider holds a reply once at most, and only after its task sent.  *)
ThreadInv ==
    \A r \in RowId :
        /\ \A p, q \in Pid : TookAs(r, p) /\ TookAs(r, q) => p = q
        /\ Took(r) => task[r] \notin BeforeSend
        /\ task[r] \in AfterTaken => Took(r)

HoldersInv ==
    \A r, q \in Live(messages) : messages[r].ext = messages[q].ext => r = q

(* An echo is stored after the row it echoes.                              *)
EchoInv ==
    \A p \in Pid : \A r \in RowId : \A a \in Holders(messages, Provider(p)) :
        TookAs(r, p) => r <= a

(* Only receipts the customer sent, for what the account sent, are handled.*)
ReceiptsInv ==
    /\ \A p \in receipts : FromAccount(p)
    /\ \A p \in Pid : reading[p] # "idle" => p \in receipts

(* Before its outcome is known a reply is unread, or swept up by a receipt.*)
PendingInv ==
    \A r \in RowId :
        task[r] \in {"stored", "sending", "taken", "marking", "refused"} =>
            messages[r].status \in {"new", "read"}

(* The invariant the proofs rest on.                                       *)
IInv ==
    /\ TypeOK
    /\ FreshInv
    /\ OursInv
    /\ TheirsInv
    /\ ThreadInv
    /\ HoldersInv
    /\ EchoInv
    /\ ReceiptsInv
    /\ PendingInv

-----------------------------------------------------------------------------
(* Fairness.  A spawned task and a webhook's task are run by the tokio     *)
(* executor until they end, and every provider call ends by its HTTP       *)
(* timeout; what operators, customers and the provider's thread do is      *)
(* nobody's obligation.                                                    *)
Fairness ==
    /\ \A r \in RowId : WF_vars(SpawnDelivery(r) \/ SkipDelivery(r))
    /\ \A r \in RowId : WF_vars(Deliver(r))
    /\ \A p \in Pid : WF_vars(Receipt(p))

FairSpec == Spec /\ Fairness

-----------------------------------------------------------------------------
(* Properties.                                                             *)

OperatorRows == {r \in Live(messages) :
                    messages[r].side = "operator" /\ messages[r].authored}

(* A provider id is held by at most one row, and only by a row that is the *)
(* message the id names: the reply whose task was told that id, an echo of *)
(* what the account sent, or the customer's own message.  Adoption deletes *)
(* and renames rows by that id, so a wrong holder would lose a message.    *)
ProviderIdNamesItsMessage ==
    \A p \in Pid : \A r, q \in Holders(messages, Provider(p)) :
        /\ r = q
        /\ r \in OperatorRows => TookAs(r, p)
        /\ messages[r].side = "operator" => FromAccount(p)
        /\ messages[r].side = "client" => origin[p] = Customer

(* A receipt handled to its end has marked the reply it named, whichever   *)
(* of the receipt, the echo and the adoption came first, and whatever      *)
(* else failed: the reason the handler has two statements                  *)
(* (src/db.rs mark_chat_read, "the receipt overtook the id adoption").     *)
ReceiptSettles ==
    \A p \in settled : \A r \in RowId :
        TookAs(r, p) => messages[r].status \in {"read", "failed"}

(* The panel's id is stored a second time only after the first row was     *)
(* renamed to the provider's id: until then a re-send finds the row.       *)
StoredTwiceOnlyAfterAdoption ==
    \A r, q \in RowId :
        r < q /\ midOf[r] # NoMid /\ midOf[r] = midOf[q] =>
            /\ task[r] = "adopted"
            /\ \E p \in Pid : messages[r].ext = Provider(p)

(* When the database fails no statement, a delivery task that ended has    *)
(* left its outcome in the history: a tick or better for what the provider *)
(* acknowledged, and for the rest a failure unless a read came first.      *)
OutcomeShown ==
    "database" \notin Faults =>
        \A r \in OperatorRows :
            /\ task[r] \in {"adopted", "unadopted"} =>
                  messages[r].status \in {"delivered", "read"}
            /\ task[r] = "undelivered" =>
                  messages[r].status \in {"failed", "read"}

(* A stored reply keeps the panel's id until its own task renames it, to   *)
(* an id under which the provider holds this reply, and keeps that one:    *)
(* the anchor a receipt resolved against does not move again.              *)
RenamedOnce ==
    [][\A r \in OperatorRows :
          /\ messages'[r] # NoRow
          /\ messages'[r].ext # messages[r].ext =>
                /\ messages[r].ext = Local(midOf[r])
                /\ \E p \in Pid : messages'[r].ext = Provider(p) /\ TookAs(r, p)]_vars

(* The store keeps the promise of ReplyLife.                               *)
Shown(r) == IF r \in Live(messages) THEN messages[r].status
            ELSE IF r < nextRow THEN "dropped" ELSE "absent"

Life == INSTANCE ReplyLife WITH
            Rows    <- RowId,
            shown   <- [r \in RowId |-> Shown(r)],
            taken   <- {r \in RowId : Took(r)},
            written <- {r \in Live(messages) : messages[r].authored}

KeepsReplyLife == Life!Spec

(* A delivery task that started comes to an end, whatever the echoes and   *)
(* receipts do to the rows it works on.                                    *)
DeliveryEnds ==
    \A r \in RowId : task[r] = "stored" ~> task[r] \notin InFlight

(* A reply the customer has read ends up read, unless its answer was lost  *)
(* and it is shown as failed.                                              *)
ReadReachesTheRow ==
    \A p \in Pid : \A r \in RowId :
        (p \in receipts /\ TookAs(r, p))
            ~> Shown(r) \in {"read", "failed"}

-----------------------------------------------------------------------------
(* What the repository says of the program, and the code does not keep.    *)

(* instagram_flow.rs: "the echo of our own reply must not duplicate it".   *)
(* Once the task has ended, its row is the only one for that message.      *)
EchoDoesNotDuplicate ==
    \A p \in Pid : \A r \in RowId :
        TookAs(r, p) /\ task[r] \in {"adopted", "unadopted"} =>
            Holders(messages, Provider(p)) \subseteq {r}

(* db.rs, mark_chat_read: "The fallback for a read receipt whose anchor we *)
(* do not have", for "a read means 'everything up to here'".  A receipt    *)
(* whose anchor is in the chat, read before, marks nothing later than it.  *)
ReadsOnlyUpToTheAnchor ==
    [][\A p \in Pid :
          reading[p] = "sweep" /\ reading'[p] = "idle" =>
              \A a \in Holders(messages, Provider(p)) :
                  messages[a].inChat /\ messages[a].status = "read" =>
                      \A r \in RowId : r > a => messages'[r] = messages[r]]_vars
=============================================================================
