---------------------------- MODULE OperatorPage ----------------------------
(***************************************************************************)
(* What an operator sees (frontend/operator.html, src/handler/             *)
(* operator_ws.rs, src/listener.rs, src/registry.rs).                      *)
(*                                                                         *)
(* One panel is looked at with its page; a second panel of the operator    *)
(* only comes and goes, because the registry keeps the operator's id for   *)
(* both.  The page fetches a chat over HTTP when it is selected, is sent   *)
(* events over its socket, draws its own messages before they are stored,  *)
(* and answers what it draws with read receipts.  All of these overtake    *)
(* each other.                                                             *)
(***************************************************************************)
EXTENDS Integers, Sequences, FiniteSets

CONSTANTS Chats, NoChat,
          Writers,     \* who writes into the chats, beside the page's operator
          MaxRows,     \* bound on the messages stored, within the history's LIMIT
          MaxSends,    \* bound on the messages this page sends
          MaxSelects,  \* bound on the clicks on a chat
          MaxFaults,   \* bound on the things that fail
          MaxActs      \* bound on these three together

HistoryLimit == 100     \* get_chat_messages finds no more than this

ASSUME PageAssumption ==
    /\ NoChat \notin Chats
    /\ Writers \subseteq {"client", "colleague", "app"}
    /\ MaxRows \in 1 .. HistoryLimit
    /\ {MaxSends, MaxSelects, MaxFaults, MaxActs} \subseteq Nat

RowId == 1 .. MaxRows
NoRow == 0
Mid(n) == -n            \* the id the page makes up for its n-th message
BubbleId == (-MaxSends) .. MaxRows
Status == {"new", "delivered", "read", "failed"}

(* The customer, the panel's operator, another operator, and whoever wrote *)
(* in the provider's own app, or seems to have: an echo of a reply.        *)
Author == {"client", "me", "colleague", "app"}
Operators == {"me", "colleague"}
Row == [chat : Chats, author : Author, status : Status, echoOf : RowId \cup {NoRow}]
Event == [kind : {"message", "read", "delivered", "failed"}, row : RowId]
Frame == [action : {"send", "read"}, chat : Chats, id : BubbleId]
Ack == [mid : BubbleId, row : RowId \cup {NoRow}]
Bubble == [id : BubbleId, tick : {"", "one", "two"}, failed : BOOLEAN]
Fetch == [n : 1 .. MaxSelects, chat : Chats, answered : BOOLEAN,
          found : UNION {[R -> Status] : R \in SUBSET RowId}]

VARIABLES
    rows,       \* messages, in the order of created_at
    sending,    \* operators' messages whose delivery has no answer yet
    adopting,   \* those the provider took, their task still to adopt its id
    gone,       \* rows that an adoption deleted
    unrecorded, \* history: refused messages whose refusal was not written
    events,     \* events and notices on their way to the operator
    phase,      \* the panel's socket: "off", "registered" or "open"
    other,      \* whether the other panel is connected
    listed,     \* operator_ids contains the operator
    up,         \* frames the page sent and the socket loop has not read
    acks,       \* acks on their way to the page
    selected,   \* selectedChatId
    view,       \* the bubbles in messagesEl
    fetches,    \* the history requests of selectChat
    sends, selects, faults,  \* how many there were
    seenMarks,  \* chats whose customer was told that they were seen
    shown,      \* history: rows that were ever in the view
    excused,    \* history: rows whose bubbles something raced with; all after a fault
    mixed       \* history: chats into whose view another chat's answer was drawn

deliveryVars == <<sending, adopting, gone, unrecorded>>
serverVars == <<rows, events, deliveryVars>>
wireVars == <<up, acks>>
socketVars == <<phase, other, listed>>
pageVars == <<selected, view, fetches, sends, selects>>
otherVars == <<seenMarks, faults>>
historyVars == <<shown, excused, mixed>>

vars == <<serverVars, socketVars, wireVars, pageVars, otherVars, historyVars>>

Stored == DOMAIN rows
InChat(c) == {r \in Stored : rows[r].chat = c}   \* stored there at any time
Held(c) == InChat(c) \ gone                       \* and still
IsInbound(r) == rows[r].author = "client"
Acts == sends + selects + faults

TypeOK ==
    /\ rows \in Seq(Row) /\ Len(rows) <= MaxRows
    /\ sending \subseteq {r \in Stored : rows[r].author \in Operators}
    /\ adopting \subseteq Stored \ sending
    /\ gone \subseteq Stored
    /\ unrecorded \subseteq Stored \ sending
    /\ events \subseteq Event
    /\ phase \in {"off", "registered", "open"}
    /\ other \in BOOLEAN /\ listed \in BOOLEAN
    /\ up \in Seq(Frame) /\ acks \in Seq(Ack)
    /\ selected \in Chats \cup {NoChat}
    /\ view \in Seq(Bubble)
    /\ \A f \in fetches : f \in Fetch /\ DOMAIN f.found \subseteq InChat(f.chat)
    /\ sends \in 0 .. MaxSends /\ selects \in 0 .. MaxSelects
    /\ seenMarks \subseteq Chats /\ mixed \subseteq Chats
    /\ shown \subseteq Stored /\ excused \subseteq RowId
    /\ faults \in 0 .. MaxFaults

Init ==
    /\ rows = <<>> /\ events = {}
    /\ sending = {} /\ adopting = {} /\ gone = {} /\ unrecorded = {}
    /\ phase = "off" /\ other = FALSE /\ listed = FALSE
    /\ up = <<>> /\ acks = <<>>
    /\ selected = NoChat /\ view = <<>> /\ fetches = {} /\ sends = 0 /\ selects = 0
    /\ seenMarks = {} /\ shown = {} /\ excused = RowId /\ mixed = {} /\ faults = 0

-----------------------------------------------------------------------------
(* The table, and the tasks that change it.                                *)

(* A statement fails.                                                      *)
StatementFails ==
    /\ faults < MaxFaults /\ Acts < MaxActs
    /\ faults' = faults + 1

(* Something fails, and until the next selection the view may be wrong.    *)
Fails ==
    /\ StatementFails
    /\ excused' = RowId

(* insert_message, the message event, which the listener sends to no panel *)
(* of its own author, and the delivery of what an operator wrote.          *)
Stores(chat, author, echoOf) ==
    /\ Len(rows) < MaxRows
    /\ rows' = Append(rows, [chat |-> chat, author |-> author, status |-> "new",
                             echoOf |-> echoOf])
    /\ sending' = IF author \in Operators THEN sending \cup {Len(rows')} ELSE sending
    /\ events' = IF author # "me" THEN events \cup {[kind |-> "message", row |-> Len(rows')]}
                 ELSE events
    /\ UNCHANGED <<adopting, gone, unrecorded>>

SomebodyWrites(chat, author) ==
    /\ Stores(chat, author, NoRow)
    /\ UNCHANGED <<socketVars, wireVars, pageVars, otherVars, historyVars>>

(* The provider echoes a reply before its id is adopted: to the pipeline   *)
(* it is a message from the provider's app.  Another echo of the reply     *)
(* finds the id taken and adds nothing; one that comes when the adoption   *)
(* has failed, or a delivery was cut short, stays for good, as what was    *)
(* written in the app does.                                                *)
EchoArrives(r) ==
    /\ r \in sending \cup adopting
    /\ \A e \in Stored : rows[e].echoOf # r
    /\ Stores(rows[r].chat, "app", r)
    /\ UNCHANGED <<socketVars, wireVars, pageVars, otherVars, historyVars>>

WithStatus(R, s) == [r \in Stored |-> IF r \in R THEN [rows[r] EXCEPT !.status = s] ELSE rows[r]]

(* The customer's receipt: the chat's unread replies up to a row, and one  *)
(* read event each.                                                        *)
CustomerReads(anchor) ==
    LET R == {r \in Held(rows[anchor].chat) :
                 r <= anchor /\ ~IsInbound(r) /\ rows[r].status \in {"new", "delivered"}}
    IN  /\ anchor \notin gone /\ R # {}
        /\ rows' = WithStatus(R, "read")
        /\ events' = events \cup {[kind |-> "read", row |-> r] : r \in R}
        /\ UNCHANGED <<deliveryVars, socketVars, wireVars, pageVars, otherVars, historyVars>>

(* Mutant of MarkedDelivered: the guard on "new" is dropped.               *)
MarkedDeliveredAnyway(r) == WithStatus({r}, "delivered")

MarkedDelivered(r) == IF rows[r].status = "new" THEN WithStatus({r}, "delivered") ELSE rows

(* A notice to the author of a message, who is told nothing if it is a     *)
(* colleague's.                                                            *)
Notice(kind, r) == IF rows[r].author = "me" THEN {[kind |-> kind, row |-> r]} ELSE {}

(* No provider is sent anything: a widget's chat, no text, the lookup of   *)
(* the channel's provider failed, or the process went down.                *)
NothingIsSent(r) ==
    /\ r \in sending
    /\ sending' = sending \ {r}
    /\ UNCHANGED <<rows, events, adopting, gone, unrecorded, socketVars, wireVars, pageVars,
                   otherVars, historyVars>>

(* mark_delivered tells the author, and nobody when the row was no longer  *)
(* new or the statement failed.  The adoption follows in any case.         *)
ProviderTakes(r) ==
    /\ r \in sending
    /\ sending' = sending \ {r} /\ adopting' = adopting \cup {r}
    /\ \/ /\ rows' = MarkedDelivered(r)
          /\ events' = IF rows[r].status = "new" THEN events \cup Notice("delivered", r)
                       ELSE events
          /\ UNCHANGED faults
       \/ StatementFails /\ UNCHANGED <<rows, events>>
    /\ UNCHANGED <<gone, unrecorded, socketVars, wireVars, pageVars, seenMarks, historyVars>>

(* mark_undelivered, which keeps a failed statement to itself, and the     *)
(* notice in any case.                                                     *)
ProviderRefuses(r) ==
    /\ r \in sending
    /\ sending' = sending \ {r}
    /\ \/ /\ rows' = IF rows[r].status = "new" THEN WithStatus({r}, "failed") ELSE rows
          /\ UNCHANGED <<unrecorded, faults>>
       \/ StatementFails /\ unrecorded' = unrecorded \cup {r} /\ UNCHANGED rows
    /\ events' = events \cup Notice("failed", r)
    /\ UNCHANGED <<adopting, gone, socketVars, wireVars, pageVars, seenMarks, historyVars>>

(* adopt_external_message_id deletes the reply's echo.  No event says so,  *)
(* and a panel that drew it, or is about to, keeps it.                     *)
Adopts(r) ==
    LET dropped == {e \in Stored : rows[e].echoOf = r}
    IN  /\ r \in adopting
        /\ adopting' = adopting \ {r}
        /\ gone' = gone \cup dropped
        /\ excused' = excused \cup dropped
        /\ UNCHANGED <<rows, events, sending, unrecorded, socketVars, wireVars, pageVars,
                       otherVars, shown, mixed>>

(* Its transaction fails, or an echo between the two statements holds the  *)
(* id and the unique index refuses; both rows stay.                        *)
AdoptionFails(r) ==
    /\ r \in adopting
    /\ adopting' = adopting \ {r}
    /\ UNCHANGED <<rows, events, sending, gone, unrecorded, socketVars, wireVars, pageVars,
                   otherVars, historyVars>>

-----------------------------------------------------------------------------
(* The registry.  An event waits in a task, in Redis, at the listener and  *)
(* in the connection's queue; here it waits in `events` for all of it.     *)

(* Notices are sent to the operator's connections, events to those of the  *)
(* operators that are listed.                                              *)
Reached(e) ==
    /\ phase # "off"
    /\ e.kind \in {"message", "read"} => listed

EventMisses(e) ==
    /\ ~Reached(e)
    /\ events' = events \ {e}
    /\ UNCHANGED <<rows, deliveryVars, socketVars, wireVars, pageVars, otherVars, historyVars>>

(* try_send to a full queue.                                               *)
EventIsDropped(e) ==
    /\ Fails
    /\ Reached(e)
    /\ events' = events \ {e}
    /\ UNCHANGED <<rows, deliveryVars, socketVars, wireVars, pageVars, seenMarks, shown, mixed>>

(* register: the connection under one lock, the operator's id under        *)
(* another, and then the socket's loop.                                    *)
PanelRegisters ==
    /\ phase = "off"
    /\ phase' = "registered"
    /\ UNCHANGED <<serverVars, other, listed, wireVars, pageVars, otherVars, historyVars>>

PanelIsListed ==
    /\ phase = "registered"
    /\ phase' = "open"
    /\ listed' = TRUE
    /\ UNCHANGED <<serverVars, other, wireVars, pageVars, otherVars, historyVars>>

(* Mutant of ListedWithout: any connection that closes takes the id along. *)
ListedWithoutAsking(remains) == FALSE

(* deregister takes the id out with the operator's last connection.        *)
ListedWithout(remains) == listed /\ remains

(* Frames and acks under way are gone, and what waits in the queue: those  *)
(* events miss.                                                            *)
PanelDisconnects ==
    /\ Fails
    /\ phase = "open"
    /\ phase' = "off"
    /\ listed' = ListedWithout(other)
    /\ up' = <<>> /\ acks' = <<>>
    /\ UNCHANGED <<serverVars, other, pageVars, seenMarks, shown, mixed>>

OtherConnects ==
    /\ ~other
    /\ other' = TRUE
    /\ listed' = TRUE
    /\ UNCHANGED <<serverVars, phase, wireVars, pageVars, otherVars, historyVars>>

OtherDisconnects ==
    /\ other
    /\ other' = FALSE
    /\ listed' = ListedWithout(phase # "off")
    /\ UNCHANGED <<serverVars, phase, wireVars, pageVars, otherVars, historyVars>>

-----------------------------------------------------------------------------
(* The page.                                                               *)

TickOf(r, s) == IF IsInbound(r) THEN ""
                ELSE IF s = "read" THEN "two" ELSE IF s = "delivered" THEN "one" ELSE ""

BubbleOf(r, s) == [id |-> r, tick |-> TickOf(r, s), failed |-> s = "failed"]

(* Mutant of Answers: the panel's own side is acknowledged too.            *)
AnswersEverything(r, s) == phase # "off" /\ s # "read"

(* Whether appendMessage answers a row it draws with a read receipt.       *)
Answers(r, s) == IsInbound(r) /\ phase # "off" /\ s # "read"

(* The rows of R from the oldest to the newest; this is the one way.       *)
InOrder(R) ==
    {q \in [1 .. Cardinality(R) -> R] : \A i, j \in 1 .. Cardinality(R) : i < j => q[i] < q[j]}

(* appendMessage of each row in turn.  The receipt names the selected chat.*)
Draws(found) ==
    /\ \E order \in InOrder(DOMAIN found) :
          view' = view \o [i \in DOMAIN order |-> BubbleOf(order[i], found[order[i]])]
    /\ \E unread \in InOrder({r \in DOMAIN found : Answers(r, found[r])}) :
          up' = up \o [i \in DOMAIN unread |->
                          [action |-> "read", chat |-> selected, id |-> unread[i]]]
    /\ shown' = shown \cup DOMAIN found

(* querySelector: where the first bubble of an id is, if there is one.     *)
FirstOf(id) == {i \in DOMAIN view : view[i].id = id /\ \A j \in 1 .. i - 1 : view[j].id # id}

(* The view with some bubbles ticked, ticked unless they are, or crossed.  *)
Ticked(I, tick) == [i \in DOMAIN view |-> IF i \in I THEN [view[i] EXCEPT !.tick = tick] ELSE view[i]]
TickedOnce(I) == Ticked({i \in I : view[i].tick = ""}, "one")
Crossed(I) == [i \in DOMAIN view |-> IF i \in I THEN [view[i] EXCEPT !.failed = TRUE] ELSE view[i]]

(* Rows whose own message event is still to reach this page.               *)
OnTheirWay == {r \in Stored : [kind |-> "message", row |-> r] \in events}

(* The view is emptied and the chat's history asked for.  A deleted echo   *)
(* is drawn after this only if its own event is still on its way.          *)
Selects(chat) ==
    /\ selects < MaxSelects /\ Acts < MaxActs
    /\ selects' = selects + 1
    /\ selected' = chat
    /\ view' = <<>>
    /\ fetches' = fetches \cup {[n |-> selects', chat |-> chat, answered |-> FALSE, found |-> <<>>]}
    /\ excused' = IF fetches = {} /\ phase = "open" THEN gone \cap OnTheirWay ELSE RowId
    /\ UNCHANGED <<serverVars, socketVars, wireVars, sends, otherVars, shown, mixed>>

(* What the page does while a fetch is outstanding may be undone or done   *)
(* again by what the fetch draws.                                          *)
Overlaps(R) == excused' = IF fetches = {} THEN excused \cup R ELSE RowId

(* Mutant of Found: the rows of every chat.                                *)
FoundAnywhere(chat) == [r \in Stored |-> rows[r].status]

(* get_chat_messages.                                                      *)
Found(chat) == [r \in Held(chat) |-> rows[r].status]

(* The query runs.  What it finds and is on its way as an event is drawn   *)
(* twice.                                                                  *)
FetchIsAnswered(f) ==
    /\ ~f.answered
    /\ fetches' = (fetches \ {f}) \cup
                    {[f EXCEPT !.answered = TRUE, !.found = Found(f.chat)]}
    /\ excused' = excused \cup (Held(f.chat) \cap OnTheirWay)
    /\ UNCHANGED <<serverVars, socketVars, wireVars, selected, view, sends, selects,
                   otherVars, shown, mixed>>

(* The rest of selectChat draws the answer, whatever is selected by now.   *)
FetchIsDrawn(f) ==
    /\ f.answered
    /\ fetches' = fetches \ {f}
    /\ Draws(f.found)
    /\ mixed' = IF f.chat = selected THEN mixed ELSE mixed \cup {selected}
    /\ UNCHANGED <<serverVars, socketVars, acks, selected, sends, selects, otherVars, excused>>

FetchFails(f) ==
    /\ Fails
    /\ fetches' = fetches \ {f}
    /\ UNCHANGED <<serverVars, socketVars, wireVars, selected, view, sends, selects,
                   seenMarks, shown, mixed>>

(* sendMessage: the frame, and the bubble under the id it was given.       *)
PageSends ==
    /\ selected # NoChat /\ phase # "off"
    /\ sends < MaxSends /\ Acts < MaxActs
    /\ sends' = sends + 1
    /\ up' = Append(up, [action |-> "send", chat |-> selected, id |-> Mid(sends')])
    /\ view' = Append(view, [id |-> Mid(sends'), tick |-> "", failed |-> FALSE])
    /\ Overlaps({})
    /\ UNCHANGED <<serverVars, socketVars, acks, selected, fetches, selects, otherVars,
                   shown, mixed>>

(* handleEvent, markDelivered and markUndelivered.  The loop writes an ack *)
(* before it looks at the queue again.  A read that overtook its message,  *)
(* as one that goes up to a later row may, finds no bubble.                *)
Handles(e) ==
    \/ /\ e.kind = "message"
       /\ IF rows[e.row].chat = selected THEN Draws([r \in {e.row} |-> "new"])
          ELSE UNCHANGED <<view, up, shown>>
    \/ /\ e.kind = "read"
       /\ view' = Ticked(FirstOf(e.row), "two")
       /\ UNCHANGED <<up, shown>>
    \/ /\ e.kind = "delivered"
       /\ view' = TickedOnce(FirstOf(e.row))
       /\ UNCHANGED <<up, shown>>
    \/ /\ e.kind = "failed"
       /\ view' = Crossed(FirstOf(e.row))
       /\ UNCHANGED <<up, shown>>

PageHandlesEvent(e) ==
    /\ phase = "open" /\ Reached(e) /\ acks = <<>>
    /\ events' = events \ {e}
    /\ Handles(e)
    /\ Overlaps(IF e.kind = "read" THEN OnTheirWay \cap {e.row} ELSE {})
    /\ UNCHANGED <<rows, deliveryVars, socketVars, acks, selected, fetches, sends, selects,
                   otherVars, mixed>>

(* The bubble takes the row's id, which later events name; an ack without  *)
(* one changes nothing.                                                    *)
Acked(a) ==
    [i \in DOMAIN view |-> IF i \in FirstOf(a.mid) /\ a.row # NoRow
                           THEN [view[i] EXCEPT !.id = a.row] ELSE view[i]]

PageHandlesAck ==
    /\ phase = "open" /\ acks # <<>>
    /\ acks' = Tail(acks)
    /\ view' = Acked(Head(acks))
    /\ Overlaps({})
    /\ UNCHANGED <<serverVars, socketVars, up, selected, fetches, sends, selects,
                   otherVars, shown, mixed>>

-----------------------------------------------------------------------------
(* process_operator_message, one frame at a time.                          *)

(* A message: stored, published, handed to its delivery and acked.  One    *)
(* whose bubble a selection has wiped is not drawn again by any event.     *)
SocketStores ==
    /\ phase = "open" /\ up # <<>> /\ Head(up).action = "send"
    /\ up' = Tail(up)
    /\ Stores(Head(up).chat, "me", NoRow)
    /\ acks' = Append(acks, [mid |-> Head(up).id, row |-> Len(rows')])
    /\ excused' = IF \E i \in DOMAIN view : view[i].id = Head(up).id
                  THEN excused ELSE excused \cup {Len(rows')}
    /\ UNCHANGED <<socketVars, pageVars, otherVars, shown, mixed>>

(* The insert fails: no row, and an ack all the same; or the chat's lookup *)
(* does, and the page is sent an error it only shows.                      *)
SocketStoreFails ==
    /\ Fails
    /\ phase = "open" /\ up # <<>> /\ Head(up).action = "send"
    /\ up' = Tail(up)
    /\ acks' \in {Append(acks, [mid |-> Head(up).id, row |-> NoRow]), acks}
    /\ UNCHANGED <<serverVars, socketVars, pageVars, seenMarks, shown, mixed>>

(* Mutant of Marked: the watermark is taken in the chat the page named.    *)
MarkedAsClaimed(frame) ==
    {r \in InChat(frame.chat) : r <= frame.id /\ IsInbound(r) /\ rows[r].status # "read"}

(* mark_messages_read_by_id: the target's own chat, up to the target.      *)
Marked(frame) ==
    {r \in Held(rows[frame.id].chat) :
        r <= frame.id /\ IsInbound(r) /\ rows[r].status # "read"}

(* A receipt: what it marked is announced to the customer, on a socket or  *)
(* through the provider, and there to the customer of the chat it named.   *)
SocketReads ==
    /\ phase = "open" /\ up # <<>> /\ Head(up).action = "read"
    /\ up' = Tail(up)
    /\ rows' = WithStatus(Marked(Head(up)), "read")
    /\ seenMarks' = IF Marked(Head(up)) = {} THEN seenMarks ELSE seenMarks \cup {Head(up).chat}
    /\ UNCHANGED <<events, deliveryVars, socketVars, acks, pageVars, faults, historyVars>>

(* The receipt's statement or the chat's lookup fails.  The page never     *)
(* repeats a receipt, so the message stays unread until a later one's.     *)
SocketReadFails ==
    /\ StatementFails
    /\ phase = "open" /\ up # <<>> /\ Head(up).action = "read"
    /\ up' = Tail(up)
    /\ excused' = excused \cup {Head(up).id}
    /\ UNCHANGED <<serverVars, socketVars, acks, pageVars, seenMarks, shown, mixed>>

DeliveryNext ==
    \E r \in Stored :
        \/ NothingIsSent(r) \/ ProviderTakes(r) \/ ProviderRefuses(r)
        \/ EchoArrives(r) \/ Adopts(r) \/ AdoptionFails(r)

ServerNext ==
    \/ \E c \in Chats, a \in Writers : SomebodyWrites(c, a)
    \/ \E r \in Stored : CustomerReads(r)
    \/ DeliveryNext
    \/ \E e \in events : EventMisses(e) \/ EventIsDropped(e)
    \/ SocketStores \/ SocketStoreFails \/ SocketReads \/ SocketReadFails

SocketNext ==
    \/ PanelRegisters \/ PanelIsListed \/ PanelDisconnects
    \/ OtherConnects \/ OtherDisconnects

PageNext ==
    \/ \E c \in Chats : Selects(c)
    \/ \E f \in fetches : FetchIsAnswered(f) \/ FetchIsDrawn(f) \/ FetchFails(f)
    \/ PageSends
    \/ \E e \in events : PageHandlesEvent(e)
    \/ PageHandlesAck

Next == ServerNext \/ SocketNext \/ PageNext

Spec == Init /\ [][Next]_vars

-----------------------------------------------------------------------------
(* Properties.                                                             *)

Quiet == events = {} /\ up = <<>> /\ acks = <<>> /\ fetches = {}

BubblesOf(r) == {i \in DOMAIN view : view[i].id = r}

(* When everything has arrived, the panel shows the selected chat: each    *)
(* message once, whoever wrote it and however it came (history, event or   *)
(* own bubble), with the tick its row has, and nothing of another chat or  *)
(* deleted.  Of a colleague's reply only the second tick is told: the rest *)
(* is as the history had it.  Needed: the panel was connected when the     *)
(* chat was selected, and no event, ack or own message fell between the    *)
(* selection and its answer.  Excepted are rows that raced with the fetch, *)
(* echoes deleted since, which stay on a panel that drew them, and         *)
(* messages whose receipt the database refused (operator.html, listener.rs,*)
(* registry.rs, operator_ws.rs:205, db.rs:662).                            *)
ViewSettles ==
    Quiet =>
        /\ \A i \in DOMAIN view :
              /\ view[i].id > 0 => rows[view[i].id].chat = selected \/ excused = RowId
              /\ view[i].id \notin gone \ excused
        /\ \A r \in Held(selected) \ excused :
              /\ Cardinality(BubblesOf(r)) = 1
              /\ \A i \in BubblesOf(r) :
                    /\ view[i].tick = "two" <=> ~IsInbound(r) /\ rows[r].status = "read"
                    /\ rows[r].author # "colleague" =>
                          /\ view[i].tick = TickOf(r, rows[r].status)
                          /\ rows[r].status = "failed" => view[i].failed
              /\ IsInbound(r) => rows[r].status = "read"

(* At any time, whatever raced: two ticks only on what the customer read,  *)
(* one only on what the provider took.  A cross only on what the provider  *)
(* refused: its row says so, or was read before or since, or still says    *)
(* new because the refusal could not be written and the operator was told  *)
(* all the same (operator_ws.rs:331).                                      *)
TicksAreTrue ==
    \A i \in DOMAIN view : LET b == view[i] IN
        /\ b.id < 0 => b.tick = "" /\ ~b.failed
        /\ b.tick = "two" => rows[b.id].status = "read"
        /\ b.tick = "one" => rows[b.id].status \in {"delivered", "read"}
        /\ b.failed => \/ rows[b.id].status \in {"failed", "read"}
                       \/ rows[b.id].status = "new" /\ b.id \in unrecorded

(* A customer's message is read only if it, or a later one of the same     *)
(* customer, was on the operator's screen, also when an answer was drawn   *)
(* into another chat and its receipts name that one (operator_ws.rs).      *)
ReadMeansShown ==
    \A r \in Stored : IsInbound(r) /\ rows[r].status = "read" =>
        \E s \in shown : s >= r /\ IsInbound(s) /\ rows[s].chat = rows[r].chat

(* A customer is told "seen" only if something of theirs was on screen, or *)
(* another chat's answer was drawn into theirs.                            *)
SeenIsHonest ==
    \A c \in seenMarks \ mixed : \E s \in shown : IsInbound(s) /\ rows[s].chat = c
=============================================================================
