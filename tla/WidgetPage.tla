----------------------------- MODULE WidgetPage -----------------------------
(***************************************************************************)
(* What a customer sees in the widget (frontend/widget.html,               *)
(* src/handler/widget_ws.rs, src/listener.rs, src/registry.rs).            *)
(*                                                                         *)
(* One tab and its chat.  A tab that connects is registered, told its chat *)
(* and fetches the history over HTTP, while events reach it over the       *)
(* socket.  Its own messages are drawn at once and get the row's id with   *)
(* their ack; an edit is drawn at once and acked without an id.  What is   *)
(* drawn survives a reconnection, what is under way on the socket does     *)
(* not.                                                                    *)
(***************************************************************************)
EXTENDS Integers, Sequences, FiniteSets

CONSTANTS MaxRows,    \* bound on the messages stored
          MaxSends,   \* bound on the messages the customer sends
          MaxEdits,   \* bound on edits, of either side
          MaxFaults   \* bound on the things that fail

HistoryLimit == 100   \* get_chat_messages finds no more than this

ASSUME WidgetAssumption ==
    /\ MaxRows \in 0 .. HistoryLimit
    /\ {MaxSends, MaxEdits, MaxFaults} \subseteq Nat

RowId == 1 .. MaxRows
NoRow == 0
Mid == 1 .. MaxSends
NoMid == 0              \* a message of the operator's
Text == 0 .. MaxEdits   \* a message's first text, and that of each edit in turn

Row == [mid : Mid \cup {NoMid}, read : BOOLEAN, text : Text]
Event == [kind : {"message", "edit", "read"}, row : RowId, text : Text]
Frame == [action : {"send", "edit", "read"}, mid : Mid \cup {NoMid},
          row : RowId \cup {NoRow}, text : Text]
Ack == [mid : Mid, row : RowId \cup {NoRow}]
Bubble == [id : RowId \cup {NoRow}, mid : Mid \cup {NoMid}, text : Text,
           mark : {"", "spinner", "one", "two"}]
Entry == [bubble : Nat, acknowledged : BOOLEAN]
NoEntry == [bubble |-> 0, acknowledged |-> FALSE]

VARIABLES
    rows,        \* the chat's messages in the order of created_at
    stream,      \* events on their way to the customer
    phase,       \* the socket: "off", "registered", "told" or "open"
    up,          \* frames the page sent and the loop has not read
    acks,        \* acks on their way to the page
    connection,  \* how many times the tab connected
    fetches,     \* history requests, and what each was answered
    history,     \* the last load: "loading", "loaded" or "failed"
    historyLoaded, \* a load was drawn
    dom,         \* bubbles, from the top
    entries,     \* sentMessages
    renderedIds,
    sends, edits, faults, \* how many there were
    lost,        \* history: rows whose message event was swallowed
    stale,       \* history: rows of which an edit or a read passed the page by, until
                 \* a load draws them as they are
    unstored,    \* history: messages and edits that an error kept out of the table
    overtaken,   \* history: rows that a load drew before their ack or event came
    late,        \* history: rows whose ack came after a load drew them
    edited       \* history: own messages the customer edited

tableVars == <<rows, stream>>
socketVars == <<phase, connection>>
wireVars == <<up, acks>>
loadVars == <<fetches, history, historyLoaded>>
domVars == <<dom, entries, renderedIds>>
countVars == <<sends, edits, faults>>
historyVars == <<lost, stale, unstored, overtaken, late, edited>>

vars == <<tableVars, socketVars, wireVars, loadVars, domVars, countVars, historyVars>>

Stored == DOMAIN rows
IsMine(r) == rows[r].mid # NoMid
IsConnected == phase # "off"

TypeOK ==
    /\ rows \in Seq(Row) /\ Len(rows) <= MaxRows
    /\ stream \subseteq Event
    /\ phase \in {"off", "registered", "told", "open"}
    /\ up \in Seq(Frame) /\ acks \in Seq(Ack)
    /\ connection \in 0 .. MaxFaults + 1
    /\ \A f \in fetches :
          /\ f.n \in 1 .. connection /\ f.answered \in BOOLEAN
          /\ f.found \in Seq(Row) /\ Len(f.found) <= Len(rows)
    /\ history \in {"loading", "loaded", "failed"} /\ historyLoaded \in BOOLEAN
    /\ dom \in Seq(Bubble)
    /\ entries \in [Mid -> Entry] /\ \A m \in Mid : entries[m].bubble \in 0 .. Len(dom)
    /\ renderedIds \subseteq Stored
    /\ sends \in 0 .. MaxSends /\ edits \in 0 .. MaxEdits /\ faults \in 0 .. MaxFaults
    /\ {lost, stale, overtaken, late} \subseteq SUBSET Stored
    /\ unstored \subseteq Mid /\ edited \subseteq Mid

(* A new customer, or one with a reply to an earlier visit, whose own      *)
(* messages are left out.                                                  *)
Init ==
    /\ rows = <<>> \/ (MaxRows > 0 /\ rows = <<[mid |-> NoMid, read |-> FALSE, text |-> 0]>>)
    /\ stream = {}
    /\ phase = "off" /\ connection = 0 /\ up = <<>> /\ acks = <<>>
    /\ fetches = {} /\ history = "loading" /\ historyLoaded = FALSE
    /\ dom = <<>> /\ entries = [m \in Mid |-> NoEntry] /\ renderedIds = {}
    /\ sends = 0 /\ edits = 0 /\ faults = 0
    /\ lost = {} /\ stale = {} /\ unstored = {} /\ overtaken = {} /\ late = {} /\ edited = {}

Fails ==
    /\ faults < MaxFaults
    /\ faults' = faults + 1

-----------------------------------------------------------------------------
(* The operator.  What is committed is published after it; the event is    *)
(* under way until a listener hands it to the tab, or to nobody.           *)

(* The customer's first message makes the chat.                            *)
OperatorSends ==
    /\ rows # <<>> /\ Len(rows) < MaxRows
    /\ rows' = Append(rows, [mid |-> NoMid, read |-> FALSE, text |-> 0])
    /\ stream' = stream \cup {[kind |-> "message", row |-> Len(rows'), text |-> 0]}
    /\ UNCHANGED <<socketVars, wireVars, loadVars, domVars, countVars, historyVars>>

OperatorEdits(r) ==
    /\ ~IsMine(r) /\ edits < MaxEdits
    /\ edits' = edits + 1
    /\ rows' = [rows EXCEPT ![r].text = edits']
    /\ stream' = stream \cup {[kind |-> "edit", row |-> r, text |-> edits']}
    /\ UNCHANGED <<socketVars, wireVars, loadVars, domVars, sends, faults, historyVars>>

(* mark_messages_read_by_id, for either reader.                            *)
MarkRead(R) == [r \in Stored |-> IF r \in R THEN [rows[r] EXCEPT !.read = TRUE] ELSE rows[r]]

OperatorReads(anchor) ==
    LET R == {r \in Stored : r <= anchor /\ IsMine(r) /\ ~rows[r].read}
    IN  /\ R # {}
        /\ rows' = MarkRead(R)
        /\ stream' = stream \cup {[kind |-> "read", row |-> r, text |-> 0] : r \in R}
        /\ UNCHANGED <<socketVars, wireVars, loadVars, domVars, countVars, historyVars>>

-----------------------------------------------------------------------------
(* The socket.                                                             *)

(* register.  The page's socket is open from here on.                      *)
Connects ==
    /\ phase = "off"
    /\ phase' = "registered"
    /\ connection' = connection + 1
    /\ history' = "loading"
    /\ UNCHANGED <<tableVars, wireVars, fetches, historyLoaded, domVars, countVars, historyVars>>

(* find_last_chat and the chat event, which starts loadHistory; nothing is *)
(* sent to a client that has no chat.                                      *)
IsToldItsChat ==
    /\ phase = "registered"
    /\ phase' = "told"
    /\ IF rows = <<>>
       THEN /\ history' = "loaded"
            /\ UNCHANGED fetches
       ELSE /\ fetches' = fetches \cup {[n |-> connection, answered |-> FALSE, found |-> <<>>]}
            /\ UNCHANGED history
    /\ UNCHANGED <<tableVars, connection, wireVars, historyLoaded, domVars, countVars, historyVars>>

(* find_last_chat fails: the socket goes on without a history.             *)
IsNotToldItsChat ==
    /\ Fails
    /\ phase = "registered"
    /\ phase' = "told"
    /\ history' = "failed"
    /\ UNCHANGED <<tableVars, connection, wireVars, fetches, historyLoaded, domVars, sends, edits,
                   historyVars>>

LoopBegins ==
    /\ phase = "told"
    /\ phase' = "open"
    /\ UNCHANGED <<tableVars, connection, wireVars, loadVars, domVars, countVars, historyVars>>

(* Frames and acks under way are gone, and what waits in the queue: those  *)
(* events miss.                                                            *)
Disconnects ==
    /\ Fails
    /\ IsConnected
    /\ phase' = "off"
    /\ up' = <<>> /\ acks' = <<>>
    /\ UNCHANGED <<tableVars, connection, loadVars, domVars, sends, edits, historyVars>>

(* Mutant of Reached: a tab is registered after its chat was looked up.    *)
ReachedWhenOpen == phase = "open"

(* send_to finds the connections that are registered.                      *)
Reached == phase # "off"

(* Events of one row come from one task or follow from each other, so they *)
(* arrive in order; those of different rows may overtake each other.       *)
MayArrive(e) == \A d \in stream : d.row = e.row => e.text <= d.text

(* What passes a row that has no bubble yet, or a page that is closed, is  *)
(* known to a load that is answered later, if that draws the row at all.   *)
Passes(e) == stale' = IF e.kind = "message" THEN stale ELSE stale \cup {e.row}

EventMisses(e) ==
    /\ MayArrive(e) /\ ~Reached
    /\ stream' = stream \ {e}
    /\ Passes(e)
    /\ UNCHANGED <<rows, socketVars, wireVars, loadVars, domVars, countVars,
                   lost, unstored, overtaken, late, edited>>

(* Redis refuses it, or the queue of 64 is full.                           *)
EventIsDropped(e) ==
    /\ Fails
    /\ MayArrive(e)
    /\ stream' = stream \ {e}
    /\ Passes(e)
    /\ lost' = IF e.kind = "message" THEN lost \cup {e.row} ELSE lost
    /\ UNCHANGED <<rows, socketVars, wireVars, loadVars, domVars, sends, edits,
                   unstored, overtaken, late, edited>>

-----------------------------------------------------------------------------
(* The loop reads a frame (process_text_message).                          *)

Reads(action) ==
    /\ phase = "open" /\ up # <<>> /\ Head(up).action = action
    /\ up' = Tail(up)

(* A message is stored and acked with its row.                             *)
SocketStores ==
    /\ Reads("send")
    /\ Len(rows) < MaxRows
    /\ rows' = Append(rows, [mid |-> Head(up).mid, read |-> FALSE, text |-> 0])
    /\ acks' = Append(acks, [mid |-> Head(up).mid, row |-> Len(rows')])
    /\ UNCHANGED <<stream, socketVars, loadVars, domVars, countVars, historyVars>>

RowOf(m) == {r \in Stored : rows[r].mid = m}

(* An edit finds its row by the customer and the mid, if there is one, and *)
(* is acked without an id.                                                 *)
SocketEdits ==
    /\ Reads("edit")
    /\ rows' = [r \in Stored |-> IF r \in RowOf(Head(up).mid)
                                 THEN [rows[r] EXCEPT !.text = Head(up).text] ELSE rows[r]]
    /\ acks' = Append(acks, [mid |-> Head(up).mid, row |-> NoRow])
    /\ UNCHANGED <<stream, socketVars, loadVars, domVars, countVars, historyVars>>

(* The statement fails, and the ack is the same as for an edit.            *)
SocketStoreFails ==
    /\ Fails
    /\ Reads("send") \/ Reads("edit")
    /\ acks' = Append(acks, [mid |-> Head(up).mid, row |-> NoRow])
    /\ unstored' = unstored \cup {Head(up).mid}
    /\ UNCHANGED <<tableVars, socketVars, loadVars, domVars, sends, edits,
                   lost, stale, overtaken, late, edited>>

(* Mutant of SocketReads: the receipt clears what is newer, too.           *)
SocketReadsEverything ==
    /\ Reads("read")
    /\ rows' = MarkRead({r \in Stored : ~IsMine(r)})
    /\ UNCHANGED <<stream, acks, socketVars, loadVars, domVars, countVars, historyVars>>

(* A receipt is not answered; one whose statement fails marks nothing.     *)
SocketReads ==
    /\ Reads("read")
    /\ rows' \in {MarkRead({r \in Stored : r <= Head(up).row /\ ~IsMine(r)}), rows}
    /\ UNCHANGED <<stream, acks, socketVars, loadVars, domVars, countVars, historyVars>>

-----------------------------------------------------------------------------
(* The page.                                                               *)

Receipt(r) == [action |-> "read", mid |-> NoMid, row |-> r, text |-> 0]

(* send and addSentMessage.                                                *)
CustomerSends ==
    /\ IsConnected /\ sends < MaxSends
    /\ sends' = sends + 1
    /\ dom' = Append(dom, [id |-> NoRow, mid |-> sends', text |-> 0, mark |-> "spinner"])
    /\ entries' = [entries EXCEPT ![sends'] = [bubble |-> Len(dom'), acknowledged |-> FALSE]]
    /\ up' = Append(up, [action |-> "send", mid |-> sends', row |-> NoRow, text |-> 0])
    /\ UNCHANGED <<tableVars, socketVars, acks, loadVars, renderedIds, edits, faults, historyVars>>

(* startEdit and submitEdit: only what is acknowledged can be edited, but  *)
(* nobody looks whether the socket is open; then the frame goes nowhere.   *)
CustomerEdits(m) ==
    /\ entries[m].acknowledged /\ edits < MaxEdits
    /\ edits' = edits + 1
    /\ entries' = [entries EXCEPT ![m].acknowledged = FALSE]
    /\ dom' = [dom EXCEPT ![entries[m].bubble] = [@ EXCEPT !.text = edits', !.mark = "spinner"]]
    /\ up' = IF IsConnected
             THEN Append(up, [action |-> "edit", mid |-> m, row |-> NoRow, text |-> edits'])
             ELSE up
    /\ edited' = edited \cup {m}
    /\ UNCHANGED <<tableVars, socketVars, acks, loadVars, renderedIds, sends, faults,
                   lost, stale, unstored, overtaken, late>>

(* Mutants of Rendered: the ack's row is not put into renderedIds; it is,  *)
(* even if there is none.                                                  *)
RenderedBefore(a) == renderedIds
RenderedAlways(a) == renderedIds \cup {a.row}

Rendered(a) == IF a.row = NoRow THEN renderedIds ELSE renderedIds \cup {a.row}

(* handleAck: one tick, with or without an id.                             *)
HandlesAck ==
    /\ phase = "open" /\ acks # <<>>
    /\ acks' = Tail(acks)
    /\ LET a == Head(acks)
           k == entries[a.mid].bubble
       IN  /\ dom' = [dom EXCEPT ![k] =
                        [@ EXCEPT !.id = IF a.row = NoRow THEN dom[k].id ELSE a.row, !.mark = "one"]]
           /\ entries' = [entries EXCEPT ![a.mid].acknowledged = TRUE]
           /\ renderedIds' = Rendered(a)
           /\ late' = late \cup ({a.row} \cap renderedIds)
    /\ UNCHANGED <<tableVars, socketVars, up, loadVars, countVars,
                   lost, stale, unstored, overtaken, edited>>

(* querySelector: where the first bubble of an id is, if there is one.     *)
FirstOf(r) == {i \in DOMAIN dom : dom[i].id = r /\ \A j \in 1 .. i - 1 : dom[j].id # r}

(* appendInboundMessage, whatever renderedIds says, and a receipt.         *)
HandlesMessage(e) ==
    /\ e.kind = "message"
    /\ dom' = Append(dom, [id |-> e.row, mid |-> NoMid, text |-> e.text, mark |-> ""])
    /\ renderedIds' = renderedIds \cup {e.row}
    /\ up' = Append(up, Receipt(e.row))
    /\ UNCHANGED stale

(* updateInboundEdit and updateReadStatus, if there is a bubble.           *)
HandlesUpdate(e) ==
    /\ \/ /\ e.kind = "edit"
          /\ dom' = [i \in DOMAIN dom |->
                        IF i \in FirstOf(e.row) THEN [dom[i] EXCEPT !.text = e.text] ELSE dom[i]]
       \/ /\ e.kind = "read"
          /\ dom' = [i \in DOMAIN dom |->
                        IF i \in FirstOf(e.row) THEN [dom[i] EXCEPT !.mark = "two"] ELSE dom[i]]
    /\ stale' = IF FirstOf(e.row) = {} THEN stale \cup {e.row} ELSE stale
    /\ UNCHANGED <<renderedIds, up>>

HandlesEvent(e) ==
    /\ phase = "open" /\ acks = <<>> /\ MayArrive(e) /\ Reached
    /\ stream' = stream \ {e}
    /\ HandlesMessage(e) \/ HandlesUpdate(e)
    /\ UNCHANGED <<rows, acks, socketVars, loadVars, entries, countVars,
                   lost, unstored, overtaken, late, edited>>

(* get_chat_messages runs.                                                 *)
FetchIsAnswered(f) ==
    /\ ~f.answered
    /\ fetches' = (fetches \ {f}) \cup {[f EXCEPT !.answered = TRUE, !.found = rows]}
    /\ UNCHANGED <<tableVars, socketVars, wireVars, history, historyLoaded, domVars, countVars,
                   historyVars>>

(* Mutant of Unrendered: a row is skipped once any newer one is shown.     *)
UnrenderedNewer(found) == {r \in DOMAIN found : \A n \in renderedIds : n < r}

Unrendered(found) == DOMAIN found \ renderedIds

(* Mutants of HistoryBubble: the row's status is not looked at.            *)
HistoryBubbleRead(r, row) ==
    [id |-> r, mid |-> row.mid, text |-> row.text, mark |-> IF row.mid = NoMid THEN "" ELSE "two"]
HistoryBubbleUnread(r, row) ==
    [id |-> r, mid |-> row.mid, text |-> row.text, mark |-> IF row.mid = NoMid THEN "" ELSE "one"]

(* buildHistorySent and buildHistoryReceived.                              *)
HistoryBubble(r, row) ==
    [id |-> r, mid |-> row.mid, text |-> row.text,
     mark |-> IF row.mid = NoMid THEN "" ELSE IF row.read THEN "two" ELSE "one"]

(* The rows a receipt is due for; the newest clears them all.              *)
NewestUnread(found) == {r \in DOMAIN found : found[r].mid = NoMid /\ ~found[r].read}

(* The rows of R from the oldest to the newest; this is the one way.       *)
InOrder(R) ==
    {q \in [1 .. Cardinality(R) -> R] : \A i, j \in 1 .. Cardinality(R) : i < j => q[i] < q[j]}

(* The first load goes above what is drawn, later ones below.  A bubble of *)
(* an own message takes over the entry of the one that was drawn when it   *)
(* was sent.                                                               *)
Draws(bubbles) ==
    /\ dom' = IF historyLoaded THEN dom \o bubbles ELSE bubbles \o dom
    /\ entries' = [m \in Mid |->
          IF \E i \in DOMAIN bubbles : bubbles[i].mid = m
          THEN [bubble |-> (CHOOSE i \in DOMAIN bubbles : bubbles[i].mid = m)
                             + (IF historyLoaded THEN Len(dom) ELSE 0),
                acknowledged |-> TRUE]
          ELSE [entries[m] EXCEPT !.bubble = IF @ = 0 \/ historyLoaded THEN @
                                             ELSE @ + Len(bubbles)]]

(* The rest of loadHistory.                                                *)
HistoryIsDrawn(f) ==
    /\ f.answered
    /\ fetches' = fetches \ {f}
    /\ history' = IF history = "loading" THEN "loaded" ELSE history
    /\ historyLoaded' = TRUE
    /\ \E new \in InOrder(Unrendered(f.found)) :
          Draws([i \in DOMAIN new |-> HistoryBubble(new[i], f.found[new[i]])])
    /\ renderedIds' = renderedIds \cup Unrendered(f.found)
    /\ IF NewestUnread(f.found) # {} /\ IsConnected
       THEN \E r \in NewestUnread(f.found) :
              /\ \A s \in NewestUnread(f.found) : s <= r
              /\ up' = Append(up, Receipt(r))
       ELSE UNCHANGED up
    /\ overtaken' = overtaken \cup
          {r \in Unrendered(f.found) :
              \/ IsMine(r) /\ ~entries[rows[r].mid].acknowledged
              \/ \E e \in stream : e.kind = "message" /\ e.row = r}
    /\ stale' = stale \ {r \in Unrendered(f.found) : f.found[r] = rows[r]}
    /\ UNCHANGED <<tableVars, socketVars, acks, countVars, lost, unstored, late, edited>>

(* "Failed to load history": shown, and not tried again.                   *)
HistoryFails(f) ==
    /\ Fails
    /\ fetches' = fetches \ {f}
    /\ history' = "failed"
    /\ UNCHANGED <<tableVars, socketVars, wireVars, historyLoaded, domVars, sends, edits,
                   historyVars>>

OperatorNext ==
    \/ OperatorSends
    \/ \E r \in Stored : OperatorEdits(r) \/ OperatorReads(r)

SocketNext ==
    \/ Connects \/ IsToldItsChat \/ IsNotToldItsChat \/ LoopBegins \/ Disconnects
    \/ \E e \in stream : EventMisses(e) \/ EventIsDropped(e)
    \/ SocketStores \/ SocketEdits \/ SocketStoreFails \/ SocketReads

PageNext ==
    \/ CustomerSends
    \/ \E m \in Mid : CustomerEdits(m)
    \/ HandlesAck
    \/ \E e \in stream : HandlesEvent(e)
    \/ \E f \in fetches : FetchIsAnswered(f) \/ HistoryIsDrawn(f) \/ HistoryFails(f)

Next == OperatorNext \/ SocketNext \/ PageNext

Spec == Init /\ [][Next]_vars

(* Tasks the runtime has woken run: a socket's handler and its loop, the   *)
(* listener; and the page is answered.  Nobody has to connect, write, read *)
(* or disconnect, and nothing has to fail.                                 *)
Fairness ==
    /\ WF_vars(IsToldItsChat \/ LoopBegins)
    /\ WF_vars(HandlesAck)
    /\ WF_vars(\E e \in stream : HandlesEvent(e))
    /\ WF_vars(\E f \in fetches : FetchIsAnswered(f) \/ HistoryIsDrawn(f))

FairSpec == Spec /\ Fairness

-----------------------------------------------------------------------------
(* Properties.                                                             *)

Quiet == stream = {} /\ up = <<>> /\ acks = <<>> /\ fetches = {}

ForTheClient == {r \in Stored : ~IsMine(r)}

(* A tab that is connected and has loaded its history shows everything the *)
(* customer was ever written, whether it was stored before the tab         *)
(* connected, between its registration and its fetch, or afterwards; only  *)
(* what a full queue or Redis swallowed may be missing.  It needs the      *)
(* commit to come before the event and the registration before the lookup  *)
(* of the chat (widget_ws.rs handle_widget_socket).                        *)
NothingMissed ==
    Quiet /\ phase = "open" /\ history = "loaded" => ForTheClient \subseteq renderedIds \cup lost

(* A message has one bubble, however often the history is loaded again,    *)
(* and two only if a load drew it before its ack or its event came, which  *)
(* is always so for an ack that a disconnection lost (widget.html          *)
(* renderedIds, handleAck, appendInboundMessage).                          *)
OnceUnlessOvertaken ==
    \A r \in Stored \ overtaken :
        Cardinality({i \in DOMAIN dom : dom[i].id = r \/ (IsMine(r) /\ dom[i].mid = rows[r].mid)}) <= 1

(* When everything has arrived, the first bubble of a row shows what the   *)
(* table has, unless its ack is missing: the text, and for an own message  *)
(* whether it was read.  The entry and not the spinner tells what is not   *)
(* acknowledged: a read event takes the spinner of an edit away.  Excepted *)
(* are rows of which an edit or a read passed the page by, unless a load   *)
(* drew them after that; rows whose ack came after a load drew them (it    *)
(* passes for an edit's, and puts one tick for two); what an error kept    *)
(* out of the table; and the ticks of a message that was edited            *)
(* (widget.html handleAck, updateReadStatus, updateInboundEdit).           *)
BubblesSettle ==
    Quiet => \A i \in DOMAIN dom :
        LET b == dom[i]
            isFirst == \A j \in 1 .. i - 1 : dom[j].id # b.id
            isPending == \E m \in Mid : entries[m].bubble = i /\ ~entries[m].acknowledged
        IN  b.id \notin {NoRow} \cup stale \cup late /\ isFirst /\ ~isPending /\ b.mid \notin unstored =>
              /\ b.text = rows[b.id].text
              /\ b.mid \in Mid \ edited => (b.mark = "two" <=> rows[b.id].read)

(* At any time: two ticks only on what the operator read, one tick only on *)
(* what is stored, or what an error kept out of the table: handleAck does  *)
(* not look whether the ack has an id.                                     *)
TicksAreTrue ==
    \A i \in DOMAIN dom : LET b == dom[i] IN
        /\ b.mark = "two" => rows[b.id].read
        /\ b.mark = "one" => b.id # NoRow \/ b.mid \in unstored

(* An operator's message is marked as read only if it, or a later one, is  *)
(* in the tab (widget.html, widget_ws.rs).                                 *)
ReadMeansShown ==
    \A r \in ForTheClient : rows[r].read => \E s \in renderedIds : s >= r /\ ~IsMine(s)

(* A tab that stays connected shows, in finite time, all the customer was  *)
(* written, unless it was swallowed or the history could not be loaded     *)
(* (widget_ws.rs, listener.rs, widget.html).                               *)
RepliesAreShown ==
    phase # "off" /\ history # "failed"
        ~> ForTheClient \subseteq renderedIds \cup lost \/ phase = "off" \/ history = "failed"
=============================================================================
