---------------------------- MODULE MessageStore ----------------------------
(***************************************************************************)
(* The `messages` table of one channel, and the statements src/db.rs runs  *)
(* against it, as operators over a table t.  A row's index is its place in *)
(* created_at order, so "created_at <= the anchor's" is r <= anchor.       *)
(*                                                                         *)
(* One customer talks on the channel, so every row is in that customer's   *)
(* active chat or, when the customer could not be resolved, in no chat     *)
(* (chat_id NULL).  Text, raw payloads and authors' names are left out.    *)
(***************************************************************************)
EXTENDS Integers, FiniteSets

CONSTANTS MaxRows,  \* bound on the rows ever inserted
          MaxPid,   \* bound on the messages the provider ever holds
          Mids,     \* the ids the operator's panel makes up
          NoRow     \* marks an index that holds no row

RowId == 1 .. MaxRows
Pid   == 1 .. MaxPid

Side   == {"operator", "client"}
Status == {"new", "delivered", "read", "failed"}

(* external_message_id: namespaced by who made it up (src/external_id.rs). *)
Local(m)    == <<"operator", m>>
Provider(p) == <<"instagram", p>>
ExtId == {Local(m) : m \in Mids} \cup {Provider(p) : p \in Pid}

Row == [ext : ExtId, side : Side, authored : BOOLEAN, inChat : BOOLEAN,
        status : Status]

Table == [RowId -> Row \cup {NoRow}]

ASSUME StoreAssumption ==
    /\ MaxRows \in Nat
    /\ MaxPid \in Nat
    /\ NoRow \notin Row

-----------------------------------------------------------------------------
Live(t) == {r \in RowId : t[r] # NoRow}

(* The unique index on (channel_id, external_message_id) keeps this set to *)
(* at most one row.                                                        *)
Holders(t, x) == {r \in Live(t) : t[r].ext = x}

(* Mutant of Conflicts: the lookup leaves out rows already read.           *)
ConflictsAmongUnread(t, x) == \E r \in Holders(t, x) : t[r].status # "read"

(* insert_message: ON CONFLICT DO NOTHING.  The caller tests Conflicts.    *)
Conflicts(t, x) == Holders(t, x) # {}

Insert(t, r, x, side, authored, inChat) ==
    [t EXCEPT ![r] = [ext |-> x, side |-> side, authored |-> authored,
                      inChat |-> inChat, status |-> "new"]]

(* Mutant of Unread: a ticked row counts as read.                          *)
UnreadOnlyNew(t, reader) ==
    {r \in Live(t) : t[r].side # reader /\ t[r].status = "new"}

(* What a read may still change: the other side's rows that are "new" or   *)
(* "delivered".                                                            *)
Unread(t, reader) ==
    {r \in Live(t) : /\ t[r].side # reader
                     /\ t[r].status \in {"new", "delivered"}}

(* Mutant of UpTo: the watermark excludes its anchor.                      *)
UpToExclusive(t, anchors, reader) ==
    {r \in Unread(t, reader) :
        \E a \in anchors : t[a].inChat /\ t[r].inChat /\ r < a}

(* mark_messages_read and mark_messages_read_by_id: the anchor's chat, up  *)
(* to and including the anchor.  No anchor, or one without a chat, matches *)
(* nothing: the comparison is with NULL.                                   *)
UpTo(t, anchors, reader) ==
    {r \in Unread(t, reader) :
        \E a \in anchors : t[a].inChat /\ t[r].inChat /\ r <= a}

(* mark_chat_read: everything unread in the customer's active chat.        *)
WholeChat(t, reader) == {r \in Unread(t, reader) : t[r].inChat}

SetStatus(t, R, s) ==
    [r \in RowId |-> IF r \in R THEN [t[r] EXCEPT !.status = s] ELSE t[r]]

MarkRead(t, R) == SetStatus(t, R, "read")

(* Mutant of StillNew: the status guard is dropped.                        *)
AnyStatus(t, r) == {q \in Live(t) : q = r}

(* mark_message_delivered and mark_message_failed: guarded by status "new".*)
StillNew(t, r) == {q \in Live(t) : q = r /\ t[q].status = "new"}

MarkDeliveredRow(t, r) == SetStatus(t, StillNew(t, r), "delivered")

(* Mutant of MarkFailedRow: a status the CHECK constraint does not know.   *)
MarkUnknownStatus(t, r) == SetStatus(t, StillNew(t, r), "undelivered")

MarkFailedRow(t, r) == SetStatus(t, StillNew(t, r), "failed")

(* The rows adopt_external_message_id deletes: whoever else holds the id.  *)
Duplicates(t, r, p) == Holders(t, Provider(p)) \ {r}

(* Mutant of Adopt: of two rows for one message the later one survives.    *)
AdoptIntoEcho(t, r, p, dropped) ==
    IF dropped = {} THEN [t EXCEPT ![r].ext = Provider(p)]
    ELSE [t EXCEPT ![r] = NoRow]

(* What its commit leaves: the duplicates it deleted are gone and r holds  *)
(* the provider's id.                                                      *)
Adopt(t, r, p, dropped) ==
    [q \in RowId |-> IF q \in dropped THEN NoRow
                     ELSE IF q = r THEN [t[q] EXCEPT !.ext = Provider(p)]
                     ELSE t[q]]
=============================================================================
