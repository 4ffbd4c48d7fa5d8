-------------------------- MODULE WidgetPage_proofs --------------------------
(***************************************************************************)
(* Proofs about WidgetPage, for every bound on rows, sends, edits and      *)
(* failures.                                                               *)
(***************************************************************************)
EXTENDS WidgetPage, PageSequences

Fetch == [n : Nat, answered : BOOLEAN, found : Seq(Row)]

(* Each disconnection is a failure.                                        *)
ConnectionsCounted ==
    /\ connection <= faults + (IF phase = "off" THEN 0 ELSE 1)
    /\ phase # "off" => connection > 0

EventFits(e) ==
    /\ e.row \in Stored
    /\ e.kind = "message" => ~IsMine(e.row)
    /\ e.kind = "read" => rows[e.row].read

BubbleFits(b) ==
    /\ b.mark = "two" => b.id \in Stored /\ rows[b.id].read
    /\ b.mark = "one" => b.id # NoRow \/ b.mid \in unstored

(* What a load found is still so, but for texts.                           *)
AnswerFits(f) ==
    \A r \in DOMAIN f.found :
        f.found[r].mid = rows[r].mid /\ (f.found[r].read => rows[r].read)

(* An entry's bubble is of its message; what is settled may get a tick.    *)
Pointed(m) == entries[m].bubble # 0 => dom[entries[m].bubble].mid = m
Settled(m) == entries[m].bubble # 0 => dom[entries[m].bubble].id # NoRow \/ m \in unstored

EntryFits(m) == Pointed(m) /\ (entries[m].acknowledged => m <= sends /\ Settled(m))

FrameFits(f) ==
    /\ f.action = "read" => f.row \in renderedIds /\ ~IsMine(f.row)
    /\ f.action # "read" => f.mid \in Mid /\ f.mid <= sends
    /\ f.action = "edit" => Settled(f.mid)

AckFits(a) ==
    /\ a.mid <= sends /\ a.row \in Stored \cup {NoRow}
    /\ a.row = NoRow => Settled(a.mid)

(* A row for the customer is in the tab, or it, a load or the lookup of    *)
(* the chat is under way, unless it was swallowed or the load failed.      *)
Arrives(r) ==
    \/ r \in renderedIds \cup lost
    \/ \E e \in stream : e.kind = "message" /\ e.row = r
    \/ phase \in {"off", "registered"}
    \/ \E f \in fetches : ~f.answered \/ r \in DOMAIN f.found
    \/ history = "failed"

FetchesTyped == fetches \subseteq Fetch
RowsSent == \A r \in Stored : rows[r].mid <= sends
EventsFit == \A e \in stream : EventFits(e)
BubblesFit == \A i \in DOMAIN dom : BubbleFits(dom[i])
AnswersFit == \A f \in fetches : AnswerFits(f)
EntriesFit == \A m \in Mid : EntryFits(m)
FramesFit == \A i \in DOMAIN up : FrameFits(up[i])
AcksFit == \A i \in DOMAIN acks : AckFits(acks[i])
Arriving == \A r \in ForTheClient : Arrives(r)

Fits ==
    /\ FetchesTyped /\ ConnectionsCounted /\ RowsSent /\ EventsFit /\ BubblesFit
    /\ AnswersFit /\ EntriesFit /\ FramesFit /\ AcksFit

IInv == TypeOK /\ Fits /\ Arriving /\ ReadMeansShown

(* What a step may do to what is there.                                    *)
RowsGrow ==
    /\ Stored \subseteq DOMAIN rows'
    /\ \A r \in Stored : rows'[r].mid = rows[r].mid /\ (rows[r].read => rows'[r].read)

Grows ==
    /\ RowsGrow
    /\ renderedIds \subseteq renderedIds' /\ lost \subseteq lost' /\ unstored \subseteq unstored'
    /\ sends <= sends'

-----------------------------------------------------------------------------
(* The rows.                                                               *)

LEMMA Constants == MaxRows \in Nat /\ MaxSends \in Nat /\ MaxEdits \in Nat /\ MaxFaults \in Nat
  BY WidgetAssumption

LEMMA StoredRows ==
    TypeOK => /\ Stored = 1 .. Len(rows) /\ Len(rows) \in Nat /\ Stored \subseteq RowId
              /\ \A r \in Stored : rows[r] \in Row /\ r \in Nat /\ r > 0
  BY Constants DEF TypeOK, Stored, RowId

LEMMA FirstFrame ==
    TypeOK /\ up # <<>> =>
        /\ Tail(up) \in Seq(Frame) /\ Head(up) \in Frame /\ Head(up) = up[1] /\ 1 \in DOMAIN up
        /\ \A i \in DOMAIN Tail(up) : \E j \in DOMAIN up : Tail(up)[i] = up[j]
<1> SUFFICES ASSUME TypeOK, up # <<>>
             PROVE  /\ Tail(up) \in Seq(Frame) /\ Head(up) \in Frame /\ Head(up) = up[1] /\ 1 \in DOMAIN up
                    /\ \A i \in DOMAIN Tail(up) : \E j \in DOMAIN up : Tail(up)[i] = up[j]
  OBVIOUS
<1>1. up \in Seq(Frame)
  BY DEF TypeOK
<1> QED
  BY <1>1, TailElements

LEMMA FirstAck ==
    TypeOK /\ acks # <<>> =>
        /\ Tail(acks) \in Seq(Ack) /\ Head(acks) \in Ack /\ Head(acks) = acks[1] /\ 1 \in DOMAIN acks
        /\ \A i \in DOMAIN Tail(acks) : \E j \in DOMAIN acks : Tail(acks)[i] = acks[j]
<1> SUFFICES ASSUME TypeOK, acks # <<>>
             PROVE  /\ Tail(acks) \in Seq(Ack) /\ Head(acks) \in Ack /\ Head(acks) = acks[1] /\ 1 \in DOMAIN acks
                    /\ \A i \in DOMAIN Tail(acks) : \E j \in DOMAIN acks : Tail(acks)[i] = acks[j]
  OBVIOUS
<1>1. acks \in Seq(Ack)
  BY DEF TypeOK
<1> QED
  BY <1>1, TailElements

(* A message is stored below the others.                                   *)
LEMMA StoredRow ==
    ASSUME TypeOK, NEW row \in Row, Len(rows) < MaxRows, rows' = Append(rows, row)
    PROVE  /\ RowsGrow /\ rows' \in Seq(Row) /\ Len(rows') <= MaxRows
           /\ Len(rows') = Len(rows) + 1 /\ DOMAIN rows' = 1 .. Len(rows')
           /\ Len(rows') \in RowId /\ Len(rows') \notin Stored /\ rows'[Len(rows')] = row
           /\ \A r \in Stored : rows'[r] = rows[r]
<1>1. rows \in Seq(Row)
  BY DEF TypeOK
<1>2. /\ rows' \in Seq(Row) /\ Len(rows') = Len(rows) + 1 /\ rows'[Len(rows) + 1] = row
      /\ \A r \in Stored : r \in DOMAIN rows' /\ rows'[r] = rows[r]
  BY <1>1, AppendElements DEF Stored
<1>3. Len(rows') <= MaxRows /\ Len(rows') \in RowId /\ Len(rows') \notin Stored
      /\ DOMAIN rows' = 1 .. Len(rows')
  BY <1>1, <1>2, Constants, StoredRows DEF RowId
<1>4. RowsGrow
  BY <1>2 DEF RowsGrow
<1> QED
  BY <1>2, <1>3, <1>4

(* Rows that are changed in place stay messages of their authors.          *)
LEMMA ChangedRows ==
    ASSUME TypeOK, NEW new, new = [r \in Stored |-> new[r]],
           \A r \in Stored : new[r] \in Row /\ new[r].mid = rows[r].mid /\ (rows[r].read => new[r].read),
           rows' = new
    PROVE  /\ RowsGrow /\ rows' \in Seq(Row) /\ Len(rows') = Len(rows) /\ Len(rows') <= MaxRows
           /\ DOMAIN rows' = Stored
<1>1. rows \in Seq(Row) /\ Len(rows) <= MaxRows
  BY DEF TypeOK
<1>2. new \in Seq(Row) /\ DOMAIN new = Stored /\ Len(new) = Len(rows)
  BY <1>1, MappedSequence DEF Stored
<1> QED
  BY <1>1, <1>2 DEF RowsGrow

LEMMA MarkedRows ==
    ASSUME TypeOK, NEW R, rows' = MarkRead(R)
    PROVE  /\ RowsGrow /\ rows' \in Seq(Row) /\ Len(rows') = Len(rows) /\ Len(rows') <= MaxRows
           /\ DOMAIN rows' = Stored
           /\ \A r \in Stored : r \in R => rows'[r].read
           /\ \A r \in Stored : r \notin R => rows'[r] = rows[r]
<1> DEFINE new == MarkRead(R)
<1>1. \A r \in Stored : new[r] = IF r \in R THEN [rows[r] EXCEPT !.read = TRUE] ELSE rows[r]
  BY DEF MarkRead
<1>2. new = [r \in Stored |-> new[r]]
  BY DEF MarkRead
<1> HIDE DEF new
<1>3. \A r \in Stored :
          /\ new[r] \in Row /\ new[r].mid = rows[r].mid /\ (rows[r].read => new[r].read)
          /\ r \in R => new[r].read
          /\ r \notin R => new[r] = rows[r]
  BY <1>1, StoredRows DEF Row
<1>4. rows' = new
  BY DEF new
<1>5. /\ RowsGrow /\ rows' \in Seq(Row) /\ Len(rows') = Len(rows) /\ Len(rows') <= MaxRows
      /\ DOMAIN rows' = Stored
  BY <1>2, <1>3, <1>4, ChangedRows
<1> QED
  BY <1>3, <1>4, <1>5

(* An edit changes a text.                                                 *)
LEMMA EditedRows ==
    ASSUME TypeOK, NEW R, NEW t \in Text,
           rows' = [r \in Stored |-> IF r \in R THEN [rows[r] EXCEPT !.text = t] ELSE rows[r]]
    PROVE  /\ RowsGrow /\ rows' \in Seq(Row) /\ Len(rows') = Len(rows) /\ Len(rows') <= MaxRows
           /\ DOMAIN rows' = Stored
           /\ \A r \in Stored : rows'[r].read = rows[r].read
<1> DEFINE new == [r \in Stored |-> IF r \in R THEN [rows[r] EXCEPT !.text = t] ELSE rows[r]]
<1>1. \A r \in Stored : new[r] = IF r \in R THEN [rows[r] EXCEPT !.text = t] ELSE rows[r]
  OBVIOUS
<1>2. new = [r \in Stored |-> new[r]] /\ rows' = new
  OBVIOUS
<1> HIDE DEF new
<1>3. \A r \in Stored : new[r] \in Row /\ new[r].mid = rows[r].mid /\ new[r].read = rows[r].read
  BY <1>1, StoredRows DEF Row
<1>4. /\ RowsGrow /\ rows' \in Seq(Row) /\ Len(rows') = Len(rows) /\ Len(rows') <= MaxRows
      /\ DOMAIN rows' = Stored
  BY <1>2, <1>3, ChangedRows
<1> QED
  BY <1>2, <1>3, <1>4

LEMMA OperatorEditsRows ==
    ASSUME TypeOK, NEW r \in Stored, OperatorEdits(r)
    PROVE  /\ RowsGrow /\ rows' \in Seq(Row) /\ Len(rows') = Len(rows) /\ Len(rows') <= MaxRows
           /\ DOMAIN rows' = Stored /\ edits' \in 0 .. MaxEdits
           /\ \A q \in Stored : rows'[q].read = rows[q].read
<1>1. edits' \in 0 .. MaxEdits
  <2>1. edits \in 0 .. MaxEdits /\ edits < MaxEdits /\ edits' = edits + 1
    BY DEF OperatorEdits, TypeOK
  <2> QED
    BY <2>1, Constants
<1>2. rows' = [q \in Stored |-> IF q \in {r} THEN [rows[q] EXCEPT !.text = edits'] ELSE rows[q]]
  BY DEF OperatorEdits, Stored
<1>3. PICK t \in Text : t = edits'
  BY <1>1 DEF Text
<1>4. rows' = [q \in Stored |-> IF q \in {r} THEN [rows[q] EXCEPT !.text = t] ELSE rows[q]]
  BY <1>2, <1>3
<1> QED
  BY <1>1, <1>4, EditedRows

LEMMA SocketStoresRows ==
    ASSUME TypeOK, SocketStores
    PROVE  /\ RowsGrow /\ rows' \in Seq(Row) /\ Len(rows') <= MaxRows
           /\ Len(rows') = Len(rows) + 1 /\ DOMAIN rows' = 1 .. Len(rows')
           /\ Len(rows') \in RowId /\ Len(rows') \notin Stored
           /\ rows'[Len(rows')].mid = Head(up).mid
           /\ \A r \in Stored : rows'[r] = rows[r]
<1>1. PICK row : row = [mid |-> Head(up).mid, read |-> FALSE, text |-> 0]
  OBVIOUS
<1>2. Head(up) \in Frame
  BY FirstFrame DEF SocketStores, Reads
<1>3. row \in Row /\ row.mid = Head(up).mid
  BY <1>1, <1>2, Constants DEF Row, Frame, Text
<1>4. Len(rows) < MaxRows /\ rows' = Append(rows, row)
  BY <1>1 DEF SocketStores
<1> QED
  BY <1>3, <1>4, StoredRow

LEMMA OperatorSendsRows ==
    ASSUME TypeOK, OperatorSends
    PROVE  /\ RowsGrow /\ rows' \in Seq(Row) /\ Len(rows') <= MaxRows
           /\ Len(rows') = Len(rows) + 1 /\ DOMAIN rows' = 1 .. Len(rows')
           /\ Len(rows') \in RowId /\ Len(rows') \notin Stored
           /\ rows'[Len(rows')].mid = NoMid
           /\ \A r \in Stored : rows'[r] = rows[r]
           /\ ~rows'[Len(rows')].read
<1>1. PICK row : row = [mid |-> NoMid, read |-> FALSE, text |-> 0]
  OBVIOUS
<1>3. row \in Row /\ row.mid = NoMid /\ ~row.read
  BY <1>1, Constants DEF Row, Text
<1>4. Len(rows) < MaxRows /\ rows' = Append(rows, row)
  BY <1>1 DEF OperatorSends
<1> QED
  BY <1>3, <1>4, StoredRow

(* What every step keeps of the rows.                                      *)
LEMMA RowsStep ==
    TypeOK /\ [Next]_vars =>
        /\ RowsGrow /\ rows' \in Seq(Row) /\ Len(rows') <= MaxRows /\ Len(rows) <= Len(rows')
        /\ Stored \subseteq Stored'
<1> DEFINE Goal == /\ RowsGrow /\ rows' \in Seq(Row) /\ Len(rows') <= MaxRows /\ Len(rows) <= Len(rows')
                   /\ Stored \subseteq Stored'
<1> SUFFICES ASSUME TypeOK, [Next]_vars
             PROVE  Goal
  OBVIOUS
<1>1. ASSUME UNCHANGED rows
      PROVE  Goal
  BY <1>1, StoredRows DEF TypeOK, RowsGrow, Stored
<1>2. ASSUME RowsGrow, rows' \in Seq(Row), Len(rows') <= MaxRows,
             Len(rows') = Len(rows) \/ Len(rows') = Len(rows) + 1
      PROVE  Goal
  BY <1>2, StoredRows DEF RowsGrow, Stored
<1>3. CASE OperatorSends
  BY <1>2, <1>3, OperatorSendsRows
<1>4. ASSUME NEW r \in Stored, OperatorEdits(r)
      PROVE  Goal
  BY <1>2, <1>4, OperatorEditsRows
<1>5. ASSUME NEW r \in Stored, OperatorReads(r)
      PROVE  Goal
  BY <1>2, <1>5, MarkedRows DEF OperatorReads
<1>6. CASE SocketStores
  BY <1>2, <1>6, SocketStoresRows
<1>7. CASE SocketEdits
  <2>1. PICK t \in Text : t = Head(up).text
    BY <1>7, FirstFrame DEF SocketEdits, Reads, Frame
  <2>2. rows' = [r \in Stored |-> IF r \in RowOf(Head(up).mid) THEN [rows[r] EXCEPT !.text = t] ELSE rows[r]]
    BY <1>7, <2>1 DEF SocketEdits
  <2> QED
    BY <1>2, <2>2, EditedRows
<1>8. CASE SocketReads
  <2>1. CASE rows' = rows
    BY <1>1, <2>1
  <2>2. CASE rows' = MarkRead({r \in Stored : r <= Head(up).row /\ ~IsMine(r)})
    BY <1>2, <2>2, MarkedRows
  <2> QED
    BY <1>8, <2>1, <2>2 DEF SocketReads
<1>9. ASSUME \/ Connects \/ IsToldItsChat \/ IsNotToldItsChat \/ LoopBegins \/ Disconnects
             \/ SocketStoreFails \/ PageNext
             \/ \E e \in stream : EventMisses(e) \/ EventIsDropped(e)
      PROVE  UNCHANGED rows
  BY <1>9 DEF Connects, IsToldItsChat, IsNotToldItsChat, LoopBegins, Disconnects, SocketStoreFails,
              EventMisses, EventIsDropped, PageNext, CustomerSends, CustomerEdits, HandlesAck,
              HandlesEvent, FetchIsAnswered, HistoryIsDrawn, HistoryFails, tableVars
<1>10. CASE UNCHANGED vars
  BY <1>1, <1>10 DEF vars, tableVars
<1> HIDE DEF Goal
<1> QED
  BY <1>1, <1>3, <1>4, <1>5, <1>6, <1>7, <1>8, <1>9, <1>10 DEF Next, OperatorNext, SocketNext
-----------------------------------------------------------------------------
(* What the page's operations make of its bubbles.                         *)

LEMMA Bubbles ==
    TypeOK => /\ dom \in Seq(Bubble) /\ Len(dom) \in Nat /\ DOMAIN dom = 1 .. Len(dom)
              /\ \A i \in DOMAIN dom : dom[i] \in Bubble
  BY DEF TypeOK

LEMMA Entries ==
    TypeOK => /\ DOMAIN entries = Mid
              /\ \A m \in Mid : /\ entries[m] \in Entry /\ entries[m].bubble \in 0 .. Len(dom)
                                /\ entries[m].bubble # 0 => entries[m].bubble \in DOMAIN dom
<1> SUFFICES ASSUME TypeOK
             PROVE  /\ DOMAIN entries = Mid
                    /\ \A m \in Mid : /\ entries[m] \in Entry /\ entries[m].bubble \in 0 .. Len(dom)
                                      /\ entries[m].bubble # 0 => entries[m].bubble \in DOMAIN dom
  OBVIOUS
<1>1. entries \in [Mid -> Entry] /\ \A m \in Mid : entries[m].bubble \in 0 .. Len(dom)
  BY DEF TypeOK
<1> QED
  BY <1>1, Bubbles

LEMMA SendsElements ==
    ASSUME TypeOK, CustomerSends
    PROVE  /\ sends' = sends + 1 /\ sends' \in Mid /\ sends' \in 0 .. MaxSends
           /\ dom' \in Seq(Bubble) /\ Len(dom') = Len(dom) + 1
           /\ \A i \in DOMAIN dom : i \in DOMAIN dom' /\ dom'[i] = dom[i]
           /\ dom'[Len(dom')].id = NoRow /\ dom'[Len(dom')].mid = sends'
           /\ dom'[Len(dom')].text = 0 /\ dom'[Len(dom')].mark = "spinner"
           /\ \A i \in DOMAIN dom' : i \in DOMAIN dom \/ i = Len(dom')
           /\ entries' \in [Mid -> Entry]
           /\ \A m \in Mid : m # sends' => entries'[m] = entries[m]
           /\ entries'[sends'].bubble = Len(dom') /\ ~entries'[sends'].acknowledged
<1>1. sends' = sends + 1 /\ sends' \in Mid /\ sends' \in 0 .. MaxSends
  <2>1. sends \in 0 .. MaxSends /\ sends < MaxSends /\ sends' = sends + 1
    BY DEF CustomerSends, TypeOK
  <2> QED
    BY <2>1, Constants DEF Mid
<1>2. PICK b : b = [id |-> NoRow, mid |-> sends', text |-> 0, mark |-> "spinner"]
  OBVIOUS
<1>3. b \in Bubble /\ b.id = NoRow /\ b.mid = sends' /\ b.text = 0 /\ b.mark = "spinner"
  BY <1>1, <1>2, Constants DEF Bubble, Text
<1>4. dom' = Append(dom, b)
  BY <1>2 DEF CustomerSends
<1>5. /\ dom' \in Seq(Bubble) /\ Len(dom') = Len(dom) + 1 /\ dom'[Len(dom) + 1] = b
      /\ \A i \in DOMAIN dom : i \in DOMAIN dom' /\ dom'[i] = dom[i]
  BY <1>3, <1>4, Bubbles, AppendElements
<1>6. \A i \in DOMAIN dom' : i \in DOMAIN dom \/ i = Len(dom')
  BY <1>5, Bubbles
<1>7. PICK n : n = Len(dom') /\ n \in Nat
  BY <1>5
<1>8. PICK entry : entry = [bubble |-> n, acknowledged |-> FALSE]
  OBVIOUS
<1>9. entry \in Entry /\ entry.bubble = n /\ ~entry.acknowledged
  BY <1>7, <1>8 DEF Entry
<1>10. entries' = [entries EXCEPT ![sends'] = entry] /\ entries \in [Mid -> Entry]
  BY <1>7, <1>8 DEF CustomerSends, TypeOK
<1>11. /\ entries' \in [Mid -> Entry] /\ entries'[sends'] = entry
       /\ \A m \in Mid : m # sends' => entries'[m] = entries[m]
  BY <1>1, <1>9, <1>10
<1> QED
  BY <1>1, <1>3, <1>5, <1>6, <1>7, <1>9, <1>11

LEMMA EditsElements ==
    ASSUME TypeOK, NEW m \in Mid, CustomerEdits(m)
    PROVE  /\ edits' \in 0 .. MaxEdits
           /\ dom' \in Seq(Bubble) /\ Len(dom') = Len(dom) /\ DOMAIN dom' = DOMAIN dom
           /\ \A i \in DOMAIN dom :
                 /\ dom'[i].id = dom[i].id /\ dom'[i].mid = dom[i].mid
                 /\ dom'[i].mark = dom[i].mark \/ dom'[i].mark = "spinner"
                 /\ i # entries[m].bubble => dom'[i] = dom[i]
                 /\ i = entries[m].bubble => dom'[i].text = edits'
           /\ entries' \in [Mid -> Entry]
           /\ \A q \in Mid : /\ entries'[q].bubble = entries[q].bubble
                             /\ entries'[q].acknowledged => entries[q].acknowledged /\ q # m
                             /\ q # m => entries'[q] = entries[q]
<1>1. edits' \in 0 .. MaxEdits
  <2>1. edits \in 0 .. MaxEdits /\ edits < MaxEdits /\ edits' = edits + 1
    BY DEF CustomerEdits, TypeOK
  <2> QED
    BY <2>1, Constants
<1>2. PICK k, t : k = entries[m].bubble /\ t = edits' /\ t \in Text
  BY <1>1 DEF Text
<1>3. PICK b : b = [dom[k] EXCEPT !.text = t, !.mark = "spinner"]
  OBVIOUS
<1>4. dom' = [dom EXCEPT ![k] = b]
  BY <1>2, <1>3 DEF CustomerEdits
<1>5. ASSUME k \in DOMAIN dom
      PROVE  /\ b \in Bubble /\ b.id = dom[k].id /\ b.mid = dom[k].mid
             /\ b.mark = "spinner" /\ b.text = t
  <2>1. dom[k] \in Bubble
    BY <1>5, Bubbles
  <2> QED
    BY <1>2, <1>3, <2>1 DEF Bubble
<1>6. /\ dom' \in Seq(Bubble) /\ DOMAIN dom' = DOMAIN dom /\ Len(dom') = Len(dom)
      /\ \A i \in DOMAIN dom : dom'[i] = IF i = k THEN b ELSE dom[i]
  <2>1. dom \in Seq(Bubble) /\ (k \in DOMAIN dom => b \in Bubble)
    BY <1>5, Bubbles
  <2> QED
    BY <1>4, <2>1, ReplacedElement
<1>7. \A i \in DOMAIN dom :
          /\ dom'[i].id = dom[i].id /\ dom'[i].mid = dom[i].mid
          /\ dom'[i].mark = dom[i].mark \/ dom'[i].mark = "spinner"
          /\ i # entries[m].bubble => dom'[i] = dom[i]
          /\ i = entries[m].bubble => dom'[i].text = edits'
  BY <1>2, <1>5, <1>6
<1>8. entries' = [entries EXCEPT ![m] = [entries[m] EXCEPT !.acknowledged = FALSE]]
  BY DEF CustomerEdits
<1>9. PICK entry : entry = [entries[m] EXCEPT !.acknowledged = FALSE]
  OBVIOUS
<1>10. entry \in Entry /\ entry.bubble = entries[m].bubble /\ ~entry.acknowledged
  <2>1. entries[m] \in Entry
    BY Entries
  <2> QED
    BY <1>9, <2>1 DEF Entry
<1>11. /\ entries' \in [Mid -> Entry] /\ entries'[m] = entry
       /\ \A q \in Mid : q # m => entries'[q] = entries[q]
  <2>1. entries \in [Mid -> Entry]
    BY DEF TypeOK
  <2> QED
    BY <1>8, <1>9, <1>10, <2>1
<1>12. \A q \in Mid : /\ entries'[q].bubble = entries[q].bubble
                      /\ entries'[q].acknowledged => entries[q].acknowledged /\ q # m
                      /\ q # m => entries'[q] = entries[q]
  BY <1>10, <1>11
<1> QED
  BY <1>1, <1>6, <1>7, <1>11, <1>12

LEMMA AckElements ==
    ASSUME TypeOK, HandlesAck, NEW a, a = Head(acks), a.row \in Stored \cup {NoRow}
    PROVE  /\ a \in Ack /\ dom' \in Seq(Bubble) /\ Len(dom') = Len(dom) /\ DOMAIN dom' = DOMAIN dom
           /\ \A i \in DOMAIN dom :
                 /\ dom'[i].mid = dom[i].mid /\ dom'[i].text = dom[i].text
                 /\ i # entries[a.mid].bubble => dom'[i] = dom[i]
                 /\ i = entries[a.mid].bubble =>
                       /\ dom'[i].mark = "one"
                       /\ a.row = NoRow => dom'[i].id = dom[i].id
                       /\ a.row # NoRow => dom'[i].id = a.row
           /\ entries' \in [Mid -> Entry]
           /\ \A q \in Mid : /\ entries'[q].bubble = entries[q].bubble
                             /\ q # a.mid => entries'[q] = entries[q]
           /\ entries'[a.mid].acknowledged
<1>1. a \in Ack
  BY FirstAck DEF HandlesAck
<1>2. PICK k : k = entries[a.mid].bubble
  OBVIOUS
<1>3. PICK b : b = [dom[k] EXCEPT !.id = IF a.row = NoRow THEN dom[k].id ELSE a.row, !.mark = "one"]
  OBVIOUS
<1>4. dom' = [dom EXCEPT ![k] = b]
  <2>1. dom' = [dom EXCEPT ![k] = [dom[k] EXCEPT !.id = IF a.row = NoRow THEN dom[k].id ELSE a.row,
                                                 !.mark = "one"]]
    BY <1>2 DEF HandlesAck
  <2> QED
    BY <1>3, <2>1
<1>5. ASSUME k \in DOMAIN dom
      PROVE  /\ b \in Bubble /\ b.mid = dom[k].mid /\ b.text = dom[k].text /\ b.mark = "one"
             /\ a.row = NoRow => b.id = dom[k].id
             /\ a.row # NoRow => b.id = a.row
  <2>1. dom[k] \in Bubble /\ a.row \in RowId \cup {NoRow}
    BY <1>1, <1>5, Bubbles DEF Ack
  <2> QED
    BY <1>3, <2>1 DEF Bubble
<1>6. /\ dom' \in Seq(Bubble) /\ DOMAIN dom' = DOMAIN dom /\ Len(dom') = Len(dom)
      /\ \A i \in DOMAIN dom : dom'[i] = IF i = k THEN b ELSE dom[i]
  <2>1. dom \in Seq(Bubble) /\ (k \in DOMAIN dom => b \in Bubble)
    BY <1>5, Bubbles
  <2> QED
    BY <1>4, <2>1, ReplacedElement
<1>7. \A i \in DOMAIN dom :
          /\ dom'[i].mid = dom[i].mid /\ dom'[i].text = dom[i].text
          /\ i # k => dom'[i] = dom[i]
          /\ i = k => /\ dom'[i].mark = "one"
                      /\ a.row = NoRow => dom'[i].id = dom[i].id
                      /\ a.row # NoRow => dom'[i].id = a.row
  BY <1>5, <1>6
<1>8. entries' = [entries EXCEPT ![a.mid] = [entries[a.mid] EXCEPT !.acknowledged = TRUE]]
  BY DEF HandlesAck
<1>9. PICK entry : entry = [entries[a.mid] EXCEPT !.acknowledged = TRUE]
  OBVIOUS
<1>10. /\ a.mid \in Mid /\ entry \in Entry /\ entry.bubble = entries[a.mid].bubble
       /\ entry.acknowledged
  <2>1. a.mid \in Mid
    BY <1>1 DEF Ack
  <2>2. entries[a.mid] \in Entry
    BY <2>1, Entries
  <2> QED
    BY <1>9, <2>1, <2>2 DEF Entry
<1>11. /\ entries' \in [Mid -> Entry] /\ entries'[a.mid] = entry
       /\ \A q \in Mid : q # a.mid => entries'[q] = entries[q]
  <2>1. entries \in [Mid -> Entry]
    BY DEF TypeOK
  <2> QED
    BY <1>8, <1>9, <1>10, <2>1
<1> QED
  BY <1>1, <1>2, <1>6, <1>7, <1>10, <1>11

LEMMA MessageElements ==
    ASSUME TypeOK, NEW e \in stream, HandlesMessage(e)
    PROVE  /\ dom' \in Seq(Bubble) /\ Len(dom') = Len(dom) + 1
           /\ \A i \in DOMAIN dom : i \in DOMAIN dom' /\ dom'[i] = dom[i]
           /\ \A i \in DOMAIN dom' :
                 \/ i \in DOMAIN dom
                 \/ /\ dom'[i].id = e.row /\ dom'[i].mid = NoMid
                    /\ dom'[i].text = e.text /\ dom'[i].mark = ""
<1>1. e \in Event
  BY DEF TypeOK
<1>2. PICK b : b = [id |-> e.row, mid |-> NoMid, text |-> e.text, mark |-> ""]
  OBVIOUS
<1>3. b \in Bubble /\ b.id = e.row /\ b.mid = NoMid /\ b.text = e.text /\ b.mark = ""
  BY <1>1, <1>2 DEF Bubble, Event
<1>4. dom' = Append(dom, b)
  BY <1>2 DEF HandlesMessage
<1>5. /\ dom' \in Seq(Bubble) /\ Len(dom') = Len(dom) + 1 /\ dom'[Len(dom) + 1] = b
      /\ \A i \in DOMAIN dom : i \in DOMAIN dom' /\ dom'[i] = dom[i]
  <2>1. dom \in Seq(Bubble) /\ b \in Bubble
    BY <1>3, Bubbles
  <2>2. /\ Append(dom, b) \in Seq(Bubble) /\ Len(Append(dom, b)) = Len(dom) + 1
        /\ Append(dom, b)[Len(dom) + 1] = b
        /\ \A i \in DOMAIN dom : i \in DOMAIN Append(dom, b) /\ Append(dom, b)[i] = dom[i]
    BY <2>1, AppendElements
  <2> QED
    BY <1>4, <2>2
<1>6. \A i \in DOMAIN dom' : i \in DOMAIN dom \/ i = Len(dom) + 1
  BY <1>5, Bubbles
<1> QED
  BY <1>3, <1>5, <1>6

LEMMA UpdateElements ==
    ASSUME TypeOK, NEW e \in stream, HandlesUpdate(e)
    PROVE  /\ dom' \in Seq(Bubble) /\ Len(dom') = Len(dom) /\ DOMAIN dom' = DOMAIN dom
           /\ \A i \in DOMAIN dom :
                 /\ dom'[i].id = dom[i].id /\ dom'[i].mid = dom[i].mid
                 /\ i \notin FirstOf(e.row) => dom'[i] = dom[i]
                 /\ i \in FirstOf(e.row) =>
                       \/ e.kind = "edit" /\ dom'[i].text = e.text /\ dom'[i].mark = dom[i].mark
                       \/ e.kind = "read" /\ dom'[i].text = dom[i].text /\ dom'[i].mark = "two"
                 /\ \/ dom'[i].mark = dom[i].mark
                    \/ e.kind = "read" /\ dom[i].id = e.row /\ dom'[i].mark = "two"
<1>1. e.text \in Text
  BY DEF TypeOK, Event
<1>2. /\ dom' = [i \in DOMAIN dom |-> dom'[i]]
      /\ \A i \in DOMAIN dom :
            \/ i \notin FirstOf(e.row) /\ dom'[i] = dom[i]
            \/ /\ i \in FirstOf(e.row)
               /\ \/ e.kind = "edit" /\ dom'[i] = [dom[i] EXCEPT !.text = e.text]
                  \/ e.kind = "read" /\ dom'[i] = [dom[i] EXCEPT !.mark = "two"]
  <2>1. CASE /\ e.kind = "edit"
             /\ dom' = [i \in DOMAIN dom |->
                           IF i \in FirstOf(e.row) THEN [dom[i] EXCEPT !.text = e.text] ELSE dom[i]]
    BY <2>1
  <2>2. CASE /\ e.kind = "read"
             /\ dom' = [i \in DOMAIN dom |->
                           IF i \in FirstOf(e.row) THEN [dom[i] EXCEPT !.mark = "two"] ELSE dom[i]]
    BY <2>2
  <2> QED
    BY <2>1, <2>2 DEF HandlesUpdate
<1> DEFINE new == dom'
           Changed(i) == /\ new[i].id = dom[i].id /\ new[i].mid = dom[i].mid
                         /\ i \notin FirstOf(e.row) => new[i] = dom[i]
                         /\ i \in FirstOf(e.row) =>
                               \/ e.kind = "edit" /\ new[i].text = e.text /\ new[i].mark = dom[i].mark
                               \/ e.kind = "read" /\ new[i].text = dom[i].text /\ new[i].mark = "two"
<1> HIDE DEF new
<1>3. ASSUME NEW i \in DOMAIN dom
      PROVE  new[i] \in Bubble /\ Changed(i)
  <2>1. dom[i] \in Bubble
    BY Bubbles
  <2>2. CASE i \notin FirstOf(e.row) /\ new[i] = dom[i]
    BY <2>1, <2>2
  <2>3. CASE i \in FirstOf(e.row) /\ e.kind = "edit" /\ new[i] = [dom[i] EXCEPT !.text = e.text]
    BY <1>1, <2>1, <2>3 DEF Bubble
  <2>4. CASE i \in FirstOf(e.row) /\ e.kind = "read" /\ new[i] = [dom[i] EXCEPT !.mark = "two"]
    BY <2>1, <2>4 DEF Bubble
  <2> QED
    BY <1>2, <2>2, <2>3, <2>4 DEF new
<1>4. new \in Seq(Bubble) /\ DOMAIN new = DOMAIN dom /\ Len(new) = Len(dom)
  <2>1. new = [i \in DOMAIN dom |-> new[i]]
    BY <1>2 DEF new
  <2> QED
    BY <1>3, <2>1, Bubbles, MappedSequence
<1>5. \A i \in FirstOf(e.row) : dom[i].id = e.row
  BY DEF FirstOf
<1> QED
  BY <1>3, <1>4, <1>5 DEF new

(* Bubbles that are put above or below: each stays what it was, and so     *)
(* does each entry, or it is a new bubble's.                               *)
LEMMA DrawsElements ==
    ASSUME TypeOK, NEW bubbles \in Seq(Bubble), Draws(bubbles)
    PROVE  /\ dom' \in Seq(Bubble) /\ Len(dom') = Len(dom) + Len(bubbles)
           /\ \A i \in DOMAIN dom' :
                 (\E j \in DOMAIN dom : dom'[i] = dom[j]) \/ (\E j \in DOMAIN bubbles : dom'[i] = bubbles[j])
           /\ entries' \in [Mid -> Entry]
           /\ \A m \in Mid :
                 \/ \E j \in DOMAIN bubbles :
                       /\ bubbles[j].mid = m /\ entries'[m].bubble \in DOMAIN dom'
                       /\ dom'[entries'[m].bubble] = bubbles[j]
                 \/ /\ entries'[m].acknowledged = entries[m].acknowledged
                    /\ \/ entries[m].bubble = 0 /\ entries'[m].bubble = 0
                       \/ /\ entries[m].bubble \in DOMAIN dom /\ entries'[m].bubble \in DOMAIN dom'
                          /\ dom'[entries'[m].bubble] = dom[entries[m].bubble]
<1> DEFINE shift == IF historyLoaded THEN Len(dom) ELSE 0
           down == IF historyLoaded THEN 0 ELSE Len(bubbles)
<1>1. dom \in Seq(Bubble) /\ Len(dom) \in Nat /\ Len(bubbles) \in Nat /\ historyLoaded \in BOOLEAN
  BY DEF TypeOK
<1>2. /\ dom \o bubbles \in Seq(Bubble) /\ Len(dom \o bubbles) = Len(dom) + Len(bubbles)
      /\ \A i \in DOMAIN dom : (dom \o bubbles)[i] = dom[i]
      /\ \A i \in DOMAIN bubbles : (dom \o bubbles)[i + Len(dom)] = bubbles[i]
  BY <1>1, ConcatElements
<1>3. /\ bubbles \o dom \in Seq(Bubble) /\ Len(bubbles \o dom) = Len(bubbles) + Len(dom)
      /\ \A i \in DOMAIN bubbles : (bubbles \o dom)[i] = bubbles[i]
      /\ \A i \in DOMAIN dom : (bubbles \o dom)[i + Len(bubbles)] = dom[i]
  BY <1>1, ConcatElements
<1>4. /\ \A i \in DOMAIN (dom \o bubbles) :
             \/ \E j \in DOMAIN dom : (dom \o bubbles)[i] = dom[j]
             \/ \E j \in DOMAIN bubbles : (dom \o bubbles)[i] = bubbles[j]
      /\ \A i \in DOMAIN (bubbles \o dom) :
             \/ \E j \in DOMAIN bubbles : (bubbles \o dom)[i] = bubbles[j]
             \/ \E j \in DOMAIN dom : (bubbles \o dom)[i] = dom[j]
  <2>1. /\ dom \in Seq(Bubble) /\ bubbles \in Seq(Bubble)
        /\ Len(dom) \in Nat /\ Len(bubbles) \in Nat
    BY <1>1
  <2>2. \A i \in DOMAIN (dom \o bubbles) :
           \/ \E j \in DOMAIN dom : (dom \o bubbles)[i] = dom[j]
           \/ \E j \in DOMAIN bubbles : (dom \o bubbles)[i] = bubbles[j]
    BY <2>1, ConcatIsOfParts
  <2>3. \A i \in DOMAIN (bubbles \o dom) :
           \/ \E j \in DOMAIN bubbles : (bubbles \o dom)[i] = bubbles[j]
           \/ \E j \in DOMAIN dom : (bubbles \o dom)[i] = dom[j]
    BY <2>1, ConcatIsOfParts
  <2> QED
    BY <2>2, <2>3
<1>5. /\ dom' \in Seq(Bubble) /\ Len(dom') = Len(dom) + Len(bubbles)
      /\ \A i \in DOMAIN dom' :
            (\E j \in DOMAIN dom : dom'[i] = dom[j]) \/ (\E j \in DOMAIN bubbles : dom'[i] = bubbles[j])
  <2>1. CASE historyLoaded
    BY <1>2, <1>4, <2>1 DEF Draws
  <2>2. CASE ~historyLoaded
    <3>1. dom' = bubbles \o dom
      BY <2>2 DEF Draws
    <3>2. Len(dom') = Len(dom) + Len(bubbles)
      BY <1>1, <1>3, <3>1
    <3> QED
      BY <1>3, <1>4, <3>1, <3>2
  <2> QED
    BY <2>1, <2>2
<1>6. /\ shift \in Nat /\ down \in Nat
      /\ \A i \in DOMAIN bubbles : i + shift \in DOMAIN dom' /\ dom'[i + shift] = bubbles[i]
      /\ \A i \in DOMAIN dom : i + down \in DOMAIN dom' /\ dom'[i + down] = dom[i]
  <2>1. DOMAIN dom' = 1 .. Len(dom) + Len(bubbles) /\ DOMAIN dom = 1 .. Len(dom)
        /\ DOMAIN bubbles = 1 .. Len(bubbles)
    BY <1>1, <1>5
  <2>2. CASE historyLoaded
    BY <1>1, <1>2, <2>1, <2>2 DEF Draws
  <2>3. CASE ~historyLoaded
    BY <1>1, <1>3, <2>1, <2>3 DEF Draws
  <2> QED
    BY <2>2, <2>3
<1>7. ASSUME NEW m \in Mid
      PROVE  /\ entries'[m] \in Entry
             /\ \/ \E j \in DOMAIN bubbles :
                       /\ bubbles[j].mid = m /\ entries'[m].bubble \in DOMAIN dom'
                       /\ dom'[entries'[m].bubble] = bubbles[j]
                \/ /\ entries'[m].acknowledged = entries[m].acknowledged
                   /\ \/ entries[m].bubble = 0 /\ entries'[m].bubble = 0
                      \/ /\ entries[m].bubble \in DOMAIN dom /\ entries'[m].bubble \in DOMAIN dom'
                         /\ dom'[entries'[m].bubble] = dom[entries[m].bubble]
  <2>1. CASE \E i \in DOMAIN bubbles : bubbles[i].mid = m
    <3>1. PICK j \in DOMAIN bubbles : /\ bubbles[j].mid = m
                                      /\ entries'[m] = [bubble |-> j + shift, acknowledged |-> TRUE]
      <4>1. /\ (CHOOSE i \in DOMAIN bubbles : bubbles[i].mid = m) \in DOMAIN bubbles
            /\ bubbles[CHOOSE i \in DOMAIN bubbles : bubbles[i].mid = m].mid = m
        BY <2>1
      <4>2. entries'[m] = [bubble |-> (CHOOSE i \in DOMAIN bubbles : bubbles[i].mid = m) + shift,
                           acknowledged |-> TRUE]
        BY <2>1 DEF Draws
      <4> QED
        BY <4>1, <4>2
    <3>2. entries'[m].bubble = j + shift /\ j + shift \in Nat /\ entries'[m] \in Entry
      BY <1>1, <1>6, <3>1 DEF Entry
    <3> QED
      BY <1>6, <3>1, <3>2
  <2>2. CASE ~\E i \in DOMAIN bubbles : bubbles[i].mid = m
    <3> DEFINE k == entries[m].bubble
    <3>1. entries[m] \in Entry /\ k \in Nat /\ (k # 0 => k \in DOMAIN dom)
      BY Entries DEF Entry
    <3>2. PICK n : /\ n = (IF k = 0 \/ historyLoaded THEN k ELSE k + Len(bubbles))
                   /\ entries'[m] = [entries[m] EXCEPT !.bubble = n]
      BY <2>2 DEF Draws
    <3>3. n \in Nat /\ (k = 0 => n = 0) /\ (k # 0 => n = k + down)
      BY <1>1, <3>1, <3>2
    <3>4. /\ entries'[m] \in Entry /\ entries'[m].bubble = n
          /\ entries'[m].acknowledged = entries[m].acknowledged
      BY <3>1, <3>2, <3>3 DEF Entry
    <3> QED
      BY <1>6, <3>1, <3>3, <3>4
  <2> QED
    BY <2>1, <2>2
<1>8. entries' \in [Mid -> Entry]
  <2>1. entries' = [m \in Mid |-> entries'[m]]
    BY DEF Draws
  <2> QED
    BY <1>7, <2>1
<1> QED
  BY <1>5, <1>7, <1>8

LEMMA HistoryElements ==
    ASSUME TypeOK, FetchesTyped, NEW f \in fetches, HistoryIsDrawn(f)
    PROVE  /\ dom' \in Seq(Bubble) /\ Len(dom) <= Len(dom')
           /\ \A i \in DOMAIN dom' :
                 \/ \E j \in DOMAIN dom : dom'[i] = dom[j]
                 \/ \E r \in Unrendered(f.found) : dom'[i] = HistoryBubble(r, f.found[r])
           /\ entries' \in [Mid -> Entry]
           /\ \A m \in Mid :
                 \/ \E r \in Unrendered(f.found) :
                       /\ f.found[r].mid = m /\ entries'[m].bubble \in DOMAIN dom'
                       /\ dom'[entries'[m].bubble] = HistoryBubble(r, f.found[r])
                 \/ /\ entries'[m].acknowledged = entries[m].acknowledged
                    /\ \/ entries[m].bubble = 0 /\ entries'[m].bubble = 0
                       \/ /\ entries[m].bubble \in DOMAIN dom /\ entries'[m].bubble \in DOMAIN dom'
                          /\ dom'[entries'[m].bubble] = dom[entries[m].bubble]
<1> DEFINE R == Unrendered(f.found)
<1>1. /\ f.found \in Seq(Row) /\ DOMAIN f.found \subseteq Stored /\ R \in SUBSET (1 .. MaxRows)
      /\ \A r \in DOMAIN f.found : f.found[r] \in Row
  <2>1. f.found \in Seq(Row) /\ Len(f.found) <= Len(rows) /\ Len(rows) \in Nat /\ Len(rows) <= MaxRows
    BY DEF TypeOK
  <2>2. DOMAIN f.found = 1 .. Len(f.found) /\ Len(f.found) \in Nat
        /\ \A r \in DOMAIN f.found : f.found[r] \in Row
    BY <2>1
  <2> QED
    BY <2>1, <2>2, StoredRows, Constants DEF Unrendered
<1>2. PICK new \in InOrder(R) : Draws([i \in DOMAIN new |-> HistoryBubble(new[i], f.found[new[i]])])
  BY DEF HistoryIsDrawn
<1> DEFINE bubbles == [i \in DOMAIN new |-> HistoryBubble(new[i], f.found[new[i]])]
<1>3. Cardinality(R) \in Nat /\ new \in [1 .. Cardinality(R) -> R]
  BY <1>1, RowsAreCounted, Constants DEF InOrder
<1>4. ASSUME NEW r \in R
      PROVE  HistoryBubble(r, f.found[r]) \in Bubble
  <2>1. f.found[r] \in Row /\ r \in RowId
    BY <1>1 DEF Unrendered, RowId
  <2> QED
    BY <2>1 DEF HistoryBubble, Bubble, Row
<1>5. bubbles \in [1 .. Cardinality(R) -> Bubble]
  BY <1>3, <1>4
<1>6. \A j \in DOMAIN bubbles : \E r \in R : bubbles[j] = HistoryBubble(r, f.found[r])
  BY <1>3
<1>7. Draws(bubbles)
  BY <1>2
<1> HIDE DEF bubbles, R
<1>8. bubbles \in Seq(Bubble) /\ Len(bubbles) \in Nat
  BY <1>3, <1>5, FunctionIsSequence
<1>9. /\ dom' \in Seq(Bubble) /\ Len(dom') = Len(dom) + Len(bubbles)
      /\ \A i \in DOMAIN dom' :
            (\E j \in DOMAIN dom : dom'[i] = dom[j]) \/ (\E j \in DOMAIN bubbles : dom'[i] = bubbles[j])
      /\ entries' \in [Mid -> Entry]
      /\ \A m \in Mid :
            \/ \E j \in DOMAIN bubbles :
                  /\ bubbles[j].mid = m /\ entries'[m].bubble \in DOMAIN dom'
                  /\ dom'[entries'[m].bubble] = bubbles[j]
            \/ /\ entries'[m].acknowledged = entries[m].acknowledged
               /\ \/ entries[m].bubble = 0 /\ entries'[m].bubble = 0
                  \/ /\ entries[m].bubble \in DOMAIN dom /\ entries'[m].bubble \in DOMAIN dom'
                     /\ dom'[entries'[m].bubble] = dom[entries[m].bubble]
  BY <1>7, <1>8, DrawsElements
<1>10. Len(dom) <= Len(dom')
  BY <1>8, <1>9, Bubbles
<1>11. \A i \in DOMAIN dom' :
           \/ \E j \in DOMAIN dom : dom'[i] = dom[j]
           \/ \E r \in R : dom'[i] = HistoryBubble(r, f.found[r])
  BY <1>6, <1>9
<1>12. \A r, m : HistoryBubble(r, f.found[r]).mid = m => f.found[r].mid = m
  BY DEF HistoryBubble
<1>13. ASSUME NEW m \in Mid
       PROVE  \/ \E r \in R :
                    /\ f.found[r].mid = m /\ entries'[m].bubble \in DOMAIN dom'
                    /\ dom'[entries'[m].bubble] = HistoryBubble(r, f.found[r])
              \/ /\ entries'[m].acknowledged = entries[m].acknowledged
                 /\ \/ entries[m].bubble = 0 /\ entries'[m].bubble = 0
                    \/ /\ entries[m].bubble \in DOMAIN dom /\ entries'[m].bubble \in DOMAIN dom'
                       /\ dom'[entries'[m].bubble] = dom[entries[m].bubble]
  <2>1. ASSUME NEW j \in DOMAIN bubbles, bubbles[j].mid = m, entries'[m].bubble \in DOMAIN dom',
               dom'[entries'[m].bubble] = bubbles[j]
        PROVE  \E r \in R :
                  /\ f.found[r].mid = m /\ entries'[m].bubble \in DOMAIN dom'
                  /\ dom'[entries'[m].bubble] = HistoryBubble(r, f.found[r])
    BY <1>6, <1>12, <2>1
  <2> QED
    BY <1>9, <2>1
<1> QED
  BY <1>9, <1>10, <1>11, <1>13 DEF R
-----------------------------------------------------------------------------
(* Every step keeps the types.                                             *)

LEMMA KeptTypes ==
    TypeOK /\ [Next]_vars =>
        /\ rows' \in Seq(Row) /\ Len(rows') <= MaxRows
        /\ \A f \in fetches :
              /\ f.n \in 1 .. connection /\ f.answered \in BOOLEAN
              /\ f.found \in Seq(Row) /\ Len(f.found) <= Len(rows')
        /\ renderedIds \subseteq Stored'
        /\ lost \subseteq Stored' /\ stale \subseteq Stored' /\ overtaken \subseteq Stored'
        /\ late \subseteq Stored'
<1> SUFFICES ASSUME TypeOK, [Next]_vars
             PROVE  /\ rows' \in Seq(Row) /\ Len(rows') <= MaxRows
                    /\ \A f \in fetches :
                          /\ f.n \in 1 .. connection /\ f.answered \in BOOLEAN
                          /\ f.found \in Seq(Row) /\ Len(f.found) <= Len(rows')
                    /\ renderedIds \subseteq Stored'
                    /\ lost \subseteq Stored' /\ stale \subseteq Stored' /\ overtaken \subseteq Stored'
                    /\ late \subseteq Stored'
  OBVIOUS
<1>1. /\ rows' \in Seq(Row) /\ Len(rows') <= MaxRows /\ Len(rows) <= Len(rows')
      /\ Stored \subseteq Stored' /\ Len(rows) \in Nat /\ Len(rows') \in Nat
  BY RowsStep, StoredRows
<1>2. /\ renderedIds \subseteq Stored /\ {lost, stale, overtaken, late} \subseteq SUBSET Stored
      /\ \A f \in fetches :
            /\ f.n \in 1 .. connection /\ f.answered \in BOOLEAN
            /\ f.found \in Seq(Row) /\ Len(f.found) <= Len(rows) /\ Len(f.found) \in Nat
  BY DEF TypeOK
<1>3. lost \subseteq Stored /\ stale \subseteq Stored /\ overtaken \subseteq Stored /\ late \subseteq Stored
  BY <1>2
<1> QED
  BY <1>1, <1>2, <1>3

LEMMA RowEvent ==
    ASSUME NEW k \in {"message", "edit", "read"}, NEW r \in RowId, NEW t \in Text
    PROVE  [kind |-> k, row |-> r, text |-> t] \in Event
  BY DEF Event

LEMMA ReceiptTypes == \A r \in RowId : Receipt(r) \in Frame
  BY Constants DEF Receipt, Frame, Text

LEMMA OperatorTypes == TypeOK /\ OperatorNext => TypeOK'
<1> SUFFICES ASSUME TypeOK, OperatorNext
             PROVE  TypeOK'
  OBVIOUS
<1> USE DEF tableVars, socketVars, wireVars, loadVars, domVars, countVars, historyVars
<1>1. /\ rows' \in Seq(Row) /\ Len(rows') <= MaxRows
      /\ \A f \in fetches :
            /\ f.n \in 1 .. connection /\ f.answered \in BOOLEAN
            /\ f.found \in Seq(Row) /\ Len(f.found) <= Len(rows')
      /\ renderedIds \subseteq Stored'
      /\ lost \subseteq Stored' /\ stale \subseteq Stored' /\ overtaken \subseteq Stored'
      /\ late \subseteq Stored'
  BY KeptTypes DEF Next
<1>2. stream \subseteq Event /\ 0 \in Text
  BY Constants DEF TypeOK, Text
<1>3. CASE OperatorSends
  <2>1. Len(rows') \in RowId
    BY <1>3, OperatorSendsRows
  <2>2. stream' \subseteq Event
    BY <1>2, <1>3, <2>1, RowEvent DEF OperatorSends
  <2> QED
    BY <1>1, <1>3, <2>2 DEF OperatorSends, TypeOK
<1>4. ASSUME NEW r \in Stored, OperatorEdits(r)
      PROVE  TypeOK'
  <2>1. edits' \in 0 .. MaxEdits /\ r \in RowId
    BY <1>4, OperatorEditsRows, StoredRows
  <2>2. stream' \subseteq Event
    BY <1>2, <1>4, <2>1, RowEvent DEF OperatorEdits, Text
  <2> QED
    BY <1>1, <1>4, <2>1, <2>2 DEF OperatorEdits, TypeOK
<1>5. ASSUME NEW r \in Stored, OperatorReads(r)
      PROVE  TypeOK'
  <2>1. stream' \subseteq Event
    BY <1>2, <1>5, StoredRows, RowEvent DEF OperatorReads
  <2> QED
    BY <1>1, <1>5, <2>1 DEF OperatorReads, TypeOK
<1> QED
  BY <1>3, <1>4, <1>5 DEF OperatorNext

LEMMA SocketTypes == TypeOK /\ Fits /\ SocketNext => TypeOK'
<1> SUFFICES ASSUME TypeOK, Fits, SocketNext
             PROVE  TypeOK'
  OBVIOUS
<1> USE DEF tableVars, socketVars, wireVars, loadVars, domVars, countVars, historyVars
<1>1. /\ rows' \in Seq(Row) /\ Len(rows') <= MaxRows
      /\ \A f \in fetches :
            /\ f.n \in 1 .. connection /\ f.answered \in BOOLEAN
            /\ f.found \in Seq(Row) /\ Len(f.found) <= Len(rows')
      /\ renderedIds \subseteq Stored'
      /\ lost \subseteq Stored' /\ stale \subseteq Stored' /\ overtaken \subseteq Stored'
      /\ late \subseteq Stored'
  BY KeptTypes DEF Next
<1>2. /\ connection \in 0 .. MaxFaults + 1 /\ faults \in 0 .. MaxFaults /\ MaxFaults \in Nat
      /\ ConnectionsCounted
  BY Constants DEF TypeOK, Fits
<1>3. Fails => faults' \in 0 .. MaxFaults
  BY <1>2 DEF Fails
<1>4. CASE Connects
  <2>1. connection' \in 0 .. MaxFaults + 1 /\ connection' = connection + 1
    BY <1>2, <1>4 DEF Connects, ConnectionsCounted
  <2>2. \A f \in fetches : f.n \in 1 .. connection'
    BY <1>1, <1>2, <2>1
  <2> QED
    BY <1>1, <1>4, <2>1, <2>2 DEF Connects, TypeOK
<1>5. CASE IsToldItsChat
  <2>1. \A f \in fetches' :
            /\ f.n \in 1 .. connection /\ f.answered \in BOOLEAN
            /\ f.found \in Seq(Row) /\ Len(f.found) <= Len(rows')
    <3>1. PICK new : new = [n |-> connection, answered |-> FALSE, found |-> <<>>]
      OBVIOUS
    <3>2. /\ new.n \in 1 .. connection /\ new.answered \in BOOLEAN
          /\ new.found \in Seq(Row) /\ Len(new.found) <= Len(rows')
      <4>1. connection \in 1 .. connection
        BY <1>2, <1>5 DEF IsToldItsChat, ConnectionsCounted
      <4>2. <<>> \in Seq(Row) /\ Len(<<>>) = 0 /\ Len(rows') >= 0
        BY <1>1
      <4> QED
        BY <3>1, <4>1, <4>2
    <3>3. fetches' \subseteq fetches \cup {new}
      BY <1>5, <3>1 DEF IsToldItsChat
    <3> QED
      BY <1>1, <3>2, <3>3
  <2>2. history' \in {"loading", "loaded", "failed"}
    BY <1>5 DEF IsToldItsChat, TypeOK
  <2> QED
    BY <1>1, <1>5, <2>1, <2>2 DEF IsToldItsChat, TypeOK
<1>6. CASE IsNotToldItsChat
  BY <1>1, <1>3, <1>6 DEF IsNotToldItsChat, TypeOK
<1>7. CASE LoopBegins
  BY <1>1, <1>7 DEF LoopBegins, TypeOK
<1>8. CASE Disconnects
  <2>1. up' \in Seq(Frame) /\ acks' \in Seq(Ack)
    BY <1>8 DEF Disconnects
  <2> QED
    BY <1>1, <1>3, <1>8, <2>1 DEF Disconnects, TypeOK
<1>9. ASSUME NEW e \in stream, EventMisses(e) \/ EventIsDropped(e)
      PROVE  TypeOK'
  <2>1. e.row \in Stored' /\ stream' \subseteq Event
    <3>1. e.row \in Stored
      BY DEF Fits, EventsFit, EventFits
    <3> QED
      BY <1>9, <3>1 DEF EventMisses, EventIsDropped, TypeOK, Stored
  <2>2. stale' \subseteq Stored' /\ lost' \subseteq Stored' /\ overtaken' \subseteq Stored'
        /\ late' \subseteq Stored' /\ faults' \in 0 .. MaxFaults
    BY <1>1, <1>2, <1>3, <1>9, <2>1 DEF EventMisses, EventIsDropped, Passes
  <2> QED
    BY <1>1, <1>9, <2>1, <2>2 DEF EventMisses, EventIsDropped, TypeOK
<1>10. ASSUME Reads("send") \/ Reads("edit") \/ Reads("read")
       PROVE  /\ Head(up) \in Frame /\ up' \in Seq(Frame)
              /\ ~Reads("read") => Head(up).mid \in Mid
  <2>1. up # <<>> /\ up' = Tail(up) /\ (~Reads("read") => Head(up).action # "read")
    BY <1>10 DEF Reads
  <2>2. Head(up) \in Frame /\ up' \in Seq(Frame) /\ Head(up) = up[1] /\ 1 \in DOMAIN up
    BY <2>1, FirstFrame
  <2> QED
    BY <2>1, <2>2 DEF Fits, FramesFit, FrameFits
<1>11. ASSUME NEW a \in Ack, acks' = Append(acks, a)
       PROVE  acks' \in Seq(Ack)
  BY <1>11, AppendElements DEF TypeOK
<1>12. CASE SocketStores
  <2>1. /\ up' \in Seq(Frame) /\ Head(up).mid \in Mid /\ Len(rows') \in RowId
    BY <1>10, <1>12, SocketStoresRows DEF SocketStores, Reads
  <2>2. acks' \in Seq(Ack)
    BY <1>11, <1>12, <2>1 DEF SocketStores, Ack
  <2> QED
    BY <1>1, <1>12, <2>1, <2>2 DEF SocketStores, TypeOK
<1>13. CASE SocketEdits
  <2>1. /\ up' \in Seq(Frame) /\ Head(up).mid \in Mid
    BY <1>10, <1>13 DEF SocketEdits, Reads
  <2>2. acks' \in Seq(Ack)
    BY <1>11, <1>13, <2>1 DEF SocketEdits, Ack
  <2> QED
    BY <1>1, <1>13, <2>1, <2>2 DEF SocketEdits, TypeOK
<1>14. CASE SocketStoreFails
  <2>1. /\ up' \in Seq(Frame) /\ Head(up).mid \in Mid
    BY <1>10, <1>14 DEF SocketStoreFails, Reads
  <2>2. acks' \in Seq(Ack) /\ unstored' \subseteq Mid /\ faults' \in 0 .. MaxFaults
    BY <1>3, <1>11, <1>14, <2>1 DEF SocketStoreFails, Ack, TypeOK
  <2> QED
    BY <1>1, <1>14, <2>1, <2>2 DEF SocketStoreFails, TypeOK
<1>15. CASE SocketReads
  BY <1>1, <1>10, <1>15 DEF SocketReads, TypeOK
<1> QED
  BY <1>4, <1>5, <1>6, <1>7, <1>8, <1>9, <1>12, <1>13, <1>14, <1>15 DEF SocketNext

LEMMA PageTypes == TypeOK /\ Fits /\ PageNext => TypeOK'
<1> SUFFICES ASSUME TypeOK, Fits, PageNext
             PROVE  TypeOK'
  OBVIOUS
<1> USE DEF tableVars, socketVars, wireVars, loadVars, domVars, countVars, historyVars
<1>1. /\ rows' \in Seq(Row) /\ Len(rows') <= MaxRows
      /\ \A f \in fetches :
            /\ f.n \in 1 .. connection /\ f.answered \in BOOLEAN
            /\ f.found \in Seq(Row) /\ Len(f.found) <= Len(rows')
      /\ renderedIds \subseteq Stored'
      /\ lost \subseteq Stored' /\ stale \subseteq Stored' /\ overtaken \subseteq Stored'
      /\ late \subseteq Stored'
  BY KeptTypes DEF Next
<1>2. ASSUME dom' \in Seq(Bubble), Len(dom) <= Len(dom'),
             \A m \in Mid : entries'[m].bubble = entries[m].bubble
      PROVE  \A m \in Mid : entries'[m].bubble \in 0 .. Len(dom')
  <2>1. Len(dom') \in Nat /\ Len(dom) \in Nat
    BY <1>2, Bubbles
  <2> QED
    BY <1>2, <2>1, Entries
<1>3. ASSUME NEW f \in Frame, up' = Append(up, f)
      PROVE  up' \in Seq(Frame)
  BY <1>3, AppendElements DEF TypeOK
<1>4. UNCHANGED rows
  BY DEF PageNext, CustomerSends, CustomerEdits, HandlesAck, HandlesEvent, FetchIsAnswered,
         HistoryIsDrawn, HistoryFails
<1>5. CASE CustomerSends
  <2>1. /\ sends' \in Mid /\ sends' \in 0 .. MaxSends
        /\ dom' \in Seq(Bubble) /\ Len(dom') = Len(dom) + 1 /\ Len(dom) \in Nat
        /\ entries' \in [Mid -> Entry]
        /\ \A m \in Mid : m # sends' => entries'[m] = entries[m]
        /\ entries'[sends'].bubble = Len(dom')
    BY <1>5, SendsElements, Bubbles
  <2>2. ASSUME NEW m \in Mid
        PROVE  entries'[m].bubble \in 0 .. Len(dom')
    <3>1. Len(dom') \in Nat /\ Len(dom) <= Len(dom')
      BY <2>1
    <3>2. CASE m = sends'
      BY <2>1, <3>1, <3>2
    <3>3. CASE m # sends'
      <4>1. entries'[m] = entries[m] /\ entries[m].bubble \in 0 .. Len(dom) /\ Len(dom) \in Nat
        BY <2>1, <3>3, Entries
      <4> QED
        BY <3>1, <4>1
    <3> QED
      BY <3>2, <3>3
  <2>3. [action |-> "send", mid |-> sends', row |-> NoRow, text |-> 0] \in Frame
    BY <2>1, Constants DEF Frame, Text
  <2>4. up' \in Seq(Frame)
    BY <1>3, <1>5, <2>3 DEF CustomerSends
  <2>5. UNCHANGED <<tableVars, socketVars, acks, loadVars, renderedIds, edits, faults, historyVars>>
    BY <1>5 DEF CustomerSends
  <2> QED
    BY <1>1, <2>1, <2>2, <2>4, <2>5 DEF TypeOK
<1>6. ASSUME NEW m \in Mid, CustomerEdits(m)
      PROVE  TypeOK'
  <2>1. /\ edits' \in 0 .. MaxEdits /\ dom' \in Seq(Bubble) /\ Len(dom') = Len(dom)
        /\ entries' \in [Mid -> Entry]
        /\ \A q \in Mid : entries'[q].bubble = entries[q].bubble
    BY <1>6, EditsElements
  <2>2. \A q \in Mid : entries'[q].bubble \in 0 .. Len(dom')
    BY <1>2, <2>1, Bubbles
  <2>3. [action |-> "edit", mid |-> m, row |-> NoRow, text |-> edits'] \in Frame
    BY <2>1 DEF Frame, Text
  <2>4. up' \in Seq(Frame)
    BY <1>3, <1>6, <2>3 DEF CustomerEdits, TypeOK
  <2>5. edited' \subseteq Mid
    BY <1>6 DEF CustomerEdits, TypeOK
  <2> QED
    BY <1>1, <1>6, <2>1, <2>2, <2>4, <2>5 DEF CustomerEdits, TypeOK
<1>7. CASE HandlesAck
  <2>1. PICK a : a = Head(acks)
    OBVIOUS
  <2>2. acks # <<>> /\ acks' = Tail(acks)
    BY <1>7 DEF HandlesAck
  <2>3. a \in Ack /\ acks' \in Seq(Ack) /\ a.row \in Stored \cup {NoRow}
    BY <2>1, <2>2, FirstAck DEF Fits, AcksFit, AckFits
  <2>4. /\ dom' \in Seq(Bubble) /\ Len(dom') = Len(dom)
        /\ entries' \in [Mid -> Entry]
        /\ \A q \in Mid : entries'[q].bubble = entries[q].bubble
    BY <1>7, <2>1, <2>3, AckElements
  <2>5. \A q \in Mid : entries'[q].bubble \in 0 .. Len(dom')
    BY <1>2, <2>4, Bubbles
  <2>6. renderedIds' \subseteq Stored' /\ late' \subseteq Stored'
    BY <1>1, <1>4, <1>7, <2>1, <2>3 DEF HandlesAck, Rendered, Stored
  <2>7. UNCHANGED <<tableVars, socketVars, up, loadVars, countVars, lost, stale, unstored, overtaken, edited>>
    BY <1>7 DEF HandlesAck
  <2> QED
    BY <1>1, <2>3, <2>4, <2>5, <2>6, <2>7 DEF TypeOK
<1>8. ASSUME NEW e \in stream, HandlesEvent(e)
      PROVE  TypeOK'
  <2>1. e.row \in Stored /\ e.row \in RowId
    BY StoredRows DEF Fits, EventsFit, EventFits
  <2>2. dom' \in Seq(Bubble) /\ Len(dom) <= Len(dom')
    <3>1. CASE HandlesMessage(e)
      <4>1. dom' \in Seq(Bubble) /\ Len(dom') = Len(dom) + 1
        BY <3>1, MessageElements
      <4> QED
        BY <4>1, Bubbles
    <3>2. CASE HandlesUpdate(e)
      BY <3>2, UpdateElements, Bubbles
    <3> QED
      BY <1>8, <3>1, <3>2 DEF HandlesEvent
  <2>3. entries' \in [Mid -> Entry] /\ \A m \in Mid : entries'[m].bubble \in 0 .. Len(dom')
    BY <1>2, <1>8, <2>2 DEF HandlesEvent, TypeOK
  <2>4. up' \in Seq(Frame) /\ renderedIds' \subseteq Stored' /\ stale' \subseteq Stored'
    <3>1. CASE HandlesMessage(e)
      BY <1>1, <1>3, <1>4, <2>1, <3>1, ReceiptTypes DEF HandlesMessage, Stored
    <3>2. CASE HandlesUpdate(e)
      BY <1>1, <1>4, <2>1, <3>2 DEF HandlesUpdate, Stored, TypeOK
    <3> QED
      BY <1>8, <3>1, <3>2 DEF HandlesEvent
  <2>5. stream' \subseteq Event
    BY <1>8 DEF HandlesEvent, TypeOK
  <2> QED
    BY <1>1, <1>8, <2>2, <2>3, <2>4, <2>5 DEF HandlesEvent, TypeOK
<1>9. ASSUME NEW f \in fetches, FetchIsAnswered(f)
      PROVE  TypeOK'
  <2>1. PICK new : new = [f EXCEPT !.answered = TRUE, !.found = rows]
    OBVIOUS
  <2>2. new.n = f.n /\ new.answered = TRUE /\ new.found = rows
    BY <2>1 DEF Fits, FetchesTyped, Fetch
  <2>3. fetches' = (fetches \ {f}) \cup {new}
    BY <1>9, <2>1 DEF FetchIsAnswered
  <2>4. \A g \in fetches' :
            /\ g.n \in 1 .. connection /\ g.answered \in BOOLEAN
            /\ g.found \in Seq(Row) /\ Len(g.found) <= Len(rows')
    <3> SUFFICES ASSUME NEW g \in fetches'
                 PROVE  /\ g.n \in 1 .. connection /\ g.answered \in BOOLEAN
                        /\ g.found \in Seq(Row) /\ Len(g.found) <= Len(rows')
      OBVIOUS
    <3>1. CASE g \in fetches
      BY <1>1, <3>1
    <3>2. CASE g = new
      <4>1. f.n \in 1 .. connection /\ rows' = rows /\ rows' \in Seq(Row)
        BY <1>1, <1>4
      <4>2. g.n = f.n /\ g.answered = TRUE /\ g.found = rows'
        BY <2>2, <3>2, <4>1
      <4>3. Len(rows') \in Nat
        BY <4>1
      <4>4. g.n \in 1 .. connection
        BY <4>1, <4>2
      <4>5. g.answered \in BOOLEAN
        BY <4>2
      <4>6. g.found \in Seq(Row) /\ Len(g.found) <= Len(rows')
        BY <4>1, <4>2, <4>3
      <4> QED
        BY <4>4, <4>5, <4>6
    <3> QED
      BY <2>3, <3>1, <3>2
  <2> QED
    BY <1>1, <1>9, <2>4 DEF FetchIsAnswered, TypeOK
<1>10. ASSUME NEW f \in fetches, HistoryIsDrawn(f)
       PROVE  TypeOK'
  <2>1. DOMAIN f.found \subseteq Stored /\ DOMAIN f.found \subseteq RowId
    <3>1. DOMAIN f.found = 1 .. Len(f.found) /\ Len(f.found) \in Nat /\ Len(f.found) <= Len(rows)
      BY DEF TypeOK
    <3> QED
      BY <3>1, StoredRows
  <2>2. /\ dom' \in Seq(Bubble)
        /\ entries' \in [Mid -> Entry]
        /\ \A m \in Mid : entries'[m].bubble \in 0 .. Len(dom')
    <3>1. /\ dom' \in Seq(Bubble) /\ entries' \in [Mid -> Entry]
          /\ \A m \in Mid : entries'[m].bubble \in DOMAIN dom' \/ entries'[m].bubble = 0
      BY <1>10, HistoryElements DEF Fits
    <3>2. DOMAIN dom' = 1 .. Len(dom') /\ Len(dom') \in Nat
      BY <3>1
    <3> QED
      BY <3>1, <3>2
  <2>3. up' \in Seq(Frame)
    <3>1. CASE UNCHANGED up
      BY <3>1 DEF TypeOK
    <3>2. CASE \E r \in NewestUnread(f.found) : up' = Append(up, Receipt(r))
      <4>1. PICK r \in NewestUnread(f.found) : up' = Append(up, Receipt(r))
        BY <3>2
      <4> QED
        BY <1>3, <2>1, <4>1, ReceiptTypes DEF NewestUnread
    <3> QED
      BY <1>10, <3>1, <3>2 DEF HistoryIsDrawn
  <2>4. renderedIds' \subseteq Stored' /\ overtaken' \subseteq Stored' /\ stale' \subseteq Stored'
    BY <1>1, <1>4, <1>10, <2>1 DEF HistoryIsDrawn, Unrendered, Stored
  <2>5. /\ \A g \in fetches' :
              /\ g.n \in 1 .. connection /\ g.answered \in BOOLEAN
              /\ g.found \in Seq(Row) /\ Len(g.found) <= Len(rows')
        /\ history' \in {"loading", "loaded", "failed"} /\ historyLoaded' \in BOOLEAN
    BY <1>1, <1>10 DEF HistoryIsDrawn, TypeOK
  <2> QED
    BY <1>1, <1>10, <2>2, <2>3, <2>4, <2>5 DEF HistoryIsDrawn, TypeOK
<1>11. ASSUME NEW f \in fetches, HistoryFails(f)
       PROVE  TypeOK'
  <2>1. faults' \in 0 .. MaxFaults
    BY <1>11, Constants DEF HistoryFails, Fails, TypeOK
  <2>2. \A g \in fetches' :
            /\ g.n \in 1 .. connection /\ g.answered \in BOOLEAN
            /\ g.found \in Seq(Row) /\ Len(g.found) <= Len(rows')
    BY <1>1, <1>11 DEF HistoryFails
  <2> QED
    BY <1>1, <1>11, <2>1, <2>2 DEF HistoryFails, TypeOK
<1> QED
  BY <1>5, <1>6, <1>7, <1>8, <1>9, <1>10, <1>11 DEF PageNext

LEMMA StutterTypes == TypeOK /\ UNCHANGED vars => TypeOK'
  BY DEF TypeOK, vars, tableVars, socketVars, wireVars, loadVars, domVars, countVars, historyVars, Stored

LEMMA InitTypes == Init => TypeOK
<1> SUFFICES ASSUME Init
             PROVE  TypeOK
  OBVIOUS
<1>1. rows \in Seq(Row) /\ Len(rows) <= MaxRows
  <2>1. CASE rows = <<>>
    BY <2>1, Constants
  <2>2. CASE MaxRows > 0 /\ rows = <<[mid |-> NoMid, read |-> FALSE, text |-> 0]>>
    <3>1. [mid |-> NoMid, read |-> FALSE, text |-> 0] \in Row
      BY Constants DEF Row, Text
    <3> QED
      BY <2>2, <3>1, Constants
  <2> QED
    BY <2>1, <2>2 DEF Init
<1>2. dom \in Seq(Bubble) /\ Len(dom) = 0 /\ up \in Seq(Frame) /\ acks \in Seq(Ack)
  BY DEF Init
<1>3. entries \in [Mid -> Entry] /\ \A m \in Mid : entries[m].bubble \in 0 .. Len(dom)
  BY <1>2 DEF Init, Entry, NoEntry
<1>4. /\ stream \subseteq Event /\ phase \in {"off", "registered", "told", "open"} /\ fetches = {}
      /\ history \in {"loading", "loaded", "failed"} /\ historyLoaded \in BOOLEAN
      /\ renderedIds \subseteq Stored /\ unstored \subseteq Mid /\ edited \subseteq Mid
      /\ {lost, stale, overtaken, late} \subseteq SUBSET Stored
  BY DEF Init
<1>5. /\ connection \in 0 .. MaxFaults + 1
      /\ sends \in 0 .. MaxSends /\ edits \in 0 .. MaxEdits /\ faults \in 0 .. MaxFaults
  BY Constants DEF Init
<1> QED
  BY <1>1, <1>2, <1>3, <1>4, <1>5 DEF TypeOK

LEMMA TypesStep == TypeOK /\ Fits /\ [Next]_vars => TypeOK'
  BY OperatorTypes, SocketTypes, PageTypes, StutterTypes DEF Next

-----------------------------------------------------------------------------
(* What fits the table and the page goes on fitting.                       *)

LEMMA Growing == TypeOK /\ [Next]_vars => Grows
<1> SUFFICES ASSUME TypeOK, [Next]_vars
             PROVE  Grows
  OBVIOUS
<1> USE DEF tableVars, socketVars, wireVars, loadVars, domVars, countVars, historyVars
<1>1. RowsGrow
  BY RowsStep
<1>2. sends <= sends'
  <2>1. sends \in Nat
    BY Constants DEF TypeOK
  <2>2. CASE CustomerSends
    BY <2>1, <2>2 DEF CustomerSends
  <2>3. CASE UNCHANGED sends
    BY <2>1, <2>3
  <2> QED
    BY <2>2, <2>3 DEF Next, OperatorNext, SocketNext, PageNext, vars,
        OperatorSends, OperatorEdits, OperatorReads, Connects, IsToldItsChat, IsNotToldItsChat, LoopBegins,
        Disconnects, EventMisses, EventIsDropped, SocketStores, SocketEdits, SocketStoreFails, SocketReads,
        CustomerEdits, HandlesAck, HandlesEvent, FetchIsAnswered, HistoryIsDrawn, HistoryFails
<1>3. renderedIds \subseteq renderedIds'
  BY DEF Next, OperatorNext, SocketNext, PageNext, vars,
         OperatorSends, OperatorEdits, OperatorReads, Connects, IsToldItsChat, IsNotToldItsChat, LoopBegins,
         Disconnects, EventMisses, EventIsDropped, SocketStores, SocketEdits, SocketStoreFails, SocketReads,
         CustomerSends, CustomerEdits, HandlesAck, Rendered, HandlesEvent, HandlesMessage, HandlesUpdate,
         FetchIsAnswered, HistoryIsDrawn, HistoryFails
<1>4. lost \subseteq lost' /\ unstored \subseteq unstored'
  BY DEF Next, OperatorNext, SocketNext, PageNext, vars,
         OperatorSends, OperatorEdits, OperatorReads, Connects, IsToldItsChat, IsNotToldItsChat, LoopBegins,
         Disconnects, EventMisses, EventIsDropped, SocketStores, SocketEdits, SocketStoreFails, SocketReads,
         CustomerSends, CustomerEdits, HandlesAck, HandlesEvent, FetchIsAnswered, HistoryIsDrawn, HistoryFails
<1> QED
  BY <1>1, <1>2, <1>3, <1>4 DEF Grows

LEMMA EventsStep == TypeOK /\ Fits /\ [Next]_vars => EventsFit'
<1> SUFFICES ASSUME TypeOK, Fits, [Next]_vars
             PROVE  EventsFit'
  OBVIOUS
<1>1. RowsGrow /\ Stored' = DOMAIN rows'
  BY RowsStep DEF Stored
<1>2. \A e \in stream : EventFits(e)'
  <2> SUFFICES ASSUME NEW e \in stream
               PROVE  EventFits(e)'
    OBVIOUS
  <2>1. EventFits(e)
    BY DEF Fits, EventsFit
  <2> QED
    BY <1>1, <2>1 DEF EventFits, RowsGrow, IsMine
<1>3. ASSUME stream' \subseteq stream
      PROVE  EventsFit'
  BY <1>2, <1>3 DEF EventsFit
<1>4. CASE OperatorSends
  <2>1. /\ Len(rows') \in DOMAIN rows' /\ rows'[Len(rows')].mid = NoMid
    BY <1>4, OperatorSendsRows, Constants DEF RowId
  <2>2. PICK e : e = [kind |-> "message", row |-> Len(rows'), text |-> 0]
    OBVIOUS
  <2>3. EventFits(e)'
    BY <1>1, <2>1, <2>2 DEF EventFits, IsMine
  <2>4. stream' = stream \cup {e}
    BY <1>4, <2>2 DEF OperatorSends
  <2> QED
    BY <1>2, <2>3, <2>4 DEF EventsFit
<1>5. ASSUME NEW r \in Stored, OperatorEdits(r)
      PROVE  EventsFit'
  <2>1. PICK e : e = [kind |-> "edit", row |-> r, text |-> edits']
    OBVIOUS
  <2>2. EventFits(e)'
    BY <1>1, <2>1 DEF EventFits, RowsGrow
  <2>3. stream' = stream \cup {e}
    BY <1>5, <2>1 DEF OperatorEdits
  <2> QED
    BY <1>2, <2>2, <2>3 DEF EventsFit
<1>6. ASSUME NEW anchor \in Stored, OperatorReads(anchor)
      PROVE  EventsFit'
  <2>1. PICK R : /\ R = {r \in Stored : r <= anchor /\ IsMine(r) /\ ~rows[r].read}
                 /\ rows' = MarkRead(R)
                 /\ stream' = stream \cup {[kind |-> "read", row |-> r, text |-> 0] : r \in R}
    BY <1>6 DEF OperatorReads
  <2>2. ASSUME NEW r \in R, NEW e, e = [kind |-> "read", row |-> r, text |-> 0]
        PROVE  EventFits(e)'
    <3>1. r \in Stored
      BY <2>1
    <3>2. rows'[r].read
      BY <2>1, <3>1, MarkedRows
    <3> QED
      BY <1>1, <2>2, <3>1, <3>2 DEF EventFits, RowsGrow
  <2> QED
    BY <1>2, <2>1, <2>2 DEF EventsFit
<1>7. CASE SocketNext \/ PageNext \/ UNCHANGED vars
  <2>1. stream' \subseteq stream
    BY <1>7 DEF SocketNext, PageNext, vars, tableVars, Connects, IsToldItsChat, IsNotToldItsChat, LoopBegins,
         Disconnects, EventMisses, EventIsDropped, SocketStores, SocketEdits, SocketStoreFails, SocketReads,
         CustomerSends, CustomerEdits, HandlesAck, HandlesEvent, FetchIsAnswered, HistoryIsDrawn, HistoryFails
  <2> QED
    BY <1>3, <2>1
<1> QED
  BY <1>4, <1>5, <1>6, <1>7 DEF Next, OperatorNext

LEMMA CountsAreNats == TypeOK /\ Fits /\ [Next]_vars => sends \in Nat /\ sends' \in Nat
<1> SUFFICES ASSUME TypeOK, Fits, [Next]_vars
             PROVE  sends \in Nat /\ sends' \in Nat
  OBVIOUS
<1>1. TypeOK'
  BY TypesStep
<1>2. sends \in 0 .. MaxSends /\ sends' \in 0 .. MaxSends
  BY <1>1 DEF TypeOK
<1> QED
  BY <1>2, Constants

LEMMA RowsSentStep == TypeOK /\ Fits /\ [Next]_vars => RowsSent'
<1> SUFFICES ASSUME TypeOK, Fits, [Next]_vars
             PROVE  RowsSent'
  OBVIOUS
<1>1. Grows /\ sends \in Nat /\ sends' \in Nat
  BY Growing, CountsAreNats
<1>2. \A r \in Stored : rows'[r].mid <= sends'
  <2> SUFFICES ASSUME NEW r \in Stored
               PROVE  rows'[r].mid <= sends'
    OBVIOUS
  <2>1. rows[r].mid <= sends /\ rows'[r].mid = rows[r].mid
    BY <1>1 DEF Fits, RowsSent, Grows, RowsGrow
  <2>2. rows[r].mid \in Int
    BY StoredRows, Constants DEF Row, Mid, NoMid
  <2> QED
    BY <1>1, <2>1, <2>2 DEF Grows
<1>3. ASSUME DOMAIN rows' \subseteq Stored \cup {Len(rows')}, rows'[Len(rows')].mid <= sends'
      PROVE  RowsSent'
  BY <1>2, <1>3 DEF RowsSent, Stored
<1>4. CASE OperatorSends
  <2>1. rows'[Len(rows')].mid = 0
    BY <1>4, OperatorSendsRows DEF NoMid
  <2>2. DOMAIN rows' \subseteq Stored \cup {Len(rows')}
    BY <1>4, OperatorSendsRows, StoredRows
  <2> QED
    BY <1>1, <1>3, <2>1, <2>2
<1>5. CASE SocketStores
  <2>1. Head(up).mid <= sends
    BY <1>5, FirstFrame DEF SocketStores, Reads, Fits, FramesFit, FrameFits
  <2>2. sends' = sends
    BY <1>5 DEF SocketStores, countVars
  <2> QED
    BY <1>3, <1>5, <2>1, <2>2, SocketStoresRows, StoredRows
<1>6. ASSUME DOMAIN rows' = Stored
      PROVE  RowsSent'
  BY <1>2, <1>6 DEF RowsSent, Stored
<1>7. ASSUME ~OperatorSends, ~SocketStores
      PROVE  DOMAIN rows' = Stored
  BY <1>7, <1>1 DEF Next, OperatorNext, SocketNext, PageNext, vars, tableVars, Stored, MarkRead,
         OperatorEdits, OperatorReads, Connects, IsToldItsChat, IsNotToldItsChat, LoopBegins,
         Disconnects, EventMisses, EventIsDropped, SocketEdits, SocketStoreFails, SocketReads,
         CustomerSends, CustomerEdits, HandlesAck, HandlesEvent, FetchIsAnswered, HistoryIsDrawn, HistoryFails
<1> QED
  BY <1>4, <1>5, <1>6, <1>7

LEMMA NextBubblesFit ==
    ASSUME \A i \in DOMAIN dom' : \E b : dom'[i] = b /\ BubbleFits(b)'
    PROVE  BubblesFit'
  BY DEF BubblesFit, BubbleFits, Stored

LEMMA NextFramesFit ==
    ASSUME \A i \in DOMAIN up' : \E f : up'[i] = f /\ FrameFits(f)'
    PROVE  FramesFit'
  BY DEF FramesFit, FrameFits, IsMine, Settled

LEMMA NextAcksFit ==
    ASSUME \A i \in DOMAIN acks' : \E a : acks'[i] = a /\ AckFits(a)'
    PROVE  AcksFit'
  BY DEF AcksFit, AckFits, Stored, Settled

LEMMA BubblesStep == TypeOK /\ Fits /\ [Next]_vars => BubblesFit'
<1> SUFFICES ASSUME TypeOK, Fits, [Next]_vars
             PROVE  BubblesFit'
  OBVIOUS
<1>1. Grows /\ Stored' = DOMAIN rows'
  BY Growing DEF Stored
<1>2. ASSUME NEW b, BubbleFits(b)
      PROVE  BubbleFits(b)'
  BY <1>1, <1>2 DEF BubbleFits, Grows, RowsGrow
<1>3. \A i \in DOMAIN dom : BubbleFits(dom[i])
  BY DEF Fits, BubblesFit
<1>4. ASSUME UNCHANGED dom
      PROVE  BubblesFit'
  <2> SUFFICES ASSUME NEW i \in DOMAIN dom'
               PROVE  \E b : dom'[i] = b /\ BubbleFits(b)'
    BY NextBubblesFit
  <2>1. PICK b : b = dom[i]
    OBVIOUS
  <2>2. dom'[i] = b /\ BubbleFits(b)
    BY <1>3, <1>4, <2>1
  <2> QED
    BY <1>2, <2>2
<1>5. CASE CustomerSends
  <2> SUFFICES ASSUME NEW i \in DOMAIN dom'
               PROVE  \E b : dom'[i] = b /\ BubbleFits(b)'
    BY NextBubblesFit
  <2>1. PICK b : b = dom'[i]
    OBVIOUS
  <2>2. CASE i \in DOMAIN dom
    <3>1. BubbleFits(b)
      BY <1>3, <1>5, <2>1, <2>2, SendsElements
    <3> QED
      BY <1>2, <2>1, <3>1
  <2>3. CASE i = Len(dom')
    <3>1. b.mark = "spinner"
      BY <1>5, <2>1, <2>3, SendsElements
    <3> QED
      BY <2>1, <3>1 DEF BubbleFits
  <2> QED
    BY <1>5, <2>2, <2>3, SendsElements
<1>6. ASSUME NEW m \in Mid, CustomerEdits(m)
      PROVE  BubblesFit'
  <2> SUFFICES ASSUME NEW i \in DOMAIN dom'
               PROVE  \E b : dom'[i] = b /\ BubbleFits(b)'
    BY NextBubblesFit
  <2>1. PICK b : b = dom'[i]
    OBVIOUS
  <2>2. /\ b.id = dom[i].id /\ b.mid = dom[i].mid
        /\ b.mark = dom[i].mark \/ b.mark = "spinner"
        /\ i \in DOMAIN dom
    BY <1>6, <2>1, EditsElements
  <2>3. BubbleFits(b)
    BY <1>3, <2>2 DEF BubbleFits
  <2> QED
    BY <1>2, <2>1, <2>3
<1>7. CASE HandlesAck
  <2> SUFFICES ASSUME NEW i \in DOMAIN dom'
               PROVE  \E b : dom'[i] = b /\ BubbleFits(b)'
    BY NextBubblesFit
  <2>1. PICK a : a = Head(acks)
    OBVIOUS
  <2>2. AckFits(a)
    BY <1>7, <2>1, FirstAck DEF HandlesAck, Fits, AcksFit
  <2>3. a.row \in Stored \cup {NoRow}
    BY <2>2 DEF AckFits
  <2>4. PICK b : b = dom'[i]
    OBVIOUS
  <2>5. /\ a.mid \in Mid /\ i \in DOMAIN dom /\ b.mid = dom[i].mid
        /\ i # entries[a.mid].bubble => b = dom[i]
        /\ i = entries[a.mid].bubble =>
              /\ b.mark = "one"
              /\ a.row = NoRow => b.id = dom[i].id
              /\ a.row # NoRow => b.id = a.row
    BY <1>7, <2>1, <2>3, <2>4, AckElements DEF Ack
  <2>6. CASE i # entries[a.mid].bubble
    BY <1>2, <1>3, <2>4, <2>5, <2>6
  <2>7. CASE i = entries[a.mid].bubble
    <3>1. i # 0
      BY <2>5, Bubbles
    <3>2. dom[i].mid = a.mid
      BY <2>5, <2>7, <3>1 DEF Fits, EntriesFit, EntryFits, Pointed
    <3>3. b.id # NoRow \/ b.mid \in unstored
      BY <2>2, <2>5, <2>7, <3>1, <3>2 DEF AckFits, Settled
    <3>4. BubbleFits(b)
      BY <2>5, <2>7, <3>3 DEF BubbleFits
    <3> QED
      BY <1>2, <2>4, <3>4
  <2> QED
    BY <2>6, <2>7
<1>8. ASSUME NEW e \in stream, HandlesEvent(e)
      PROVE  BubblesFit'
  <2> SUFFICES ASSUME NEW i \in DOMAIN dom'
               PROVE  \E b : dom'[i] = b /\ BubbleFits(b)'
    BY NextBubblesFit
  <2>1. PICK b : b = dom'[i]
    OBVIOUS
  <2>2. EventFits(e)
    BY DEF Fits, EventsFit
  <2>3. CASE HandlesMessage(e)
    <3>1. (i \in DOMAIN dom /\ b = dom[i]) \/ b.mark = ""
      BY <2>1, <2>3, MessageElements
    <3>2. BubbleFits(b)
      BY <1>3, <3>1 DEF BubbleFits
    <3> QED
      BY <1>2, <2>1, <3>2
  <2>4. CASE HandlesUpdate(e)
    <3>1. /\ b.id = dom[i].id /\ b.mid = dom[i].mid /\ i \in DOMAIN dom
          /\ \/ b.mark = dom[i].mark
             \/ e.kind = "read" /\ dom[i].id = e.row /\ b.mark = "two"
      BY <2>1, <2>4, UpdateElements
    <3>2. BubbleFits(b)
      BY <1>3, <2>2, <3>1 DEF BubbleFits, EventFits
    <3> QED
      BY <1>2, <2>1, <3>2
  <2> QED
    BY <1>8, <2>3, <2>4 DEF HandlesEvent
<1>9. ASSUME NEW f \in fetches, HistoryIsDrawn(f)
      PROVE  BubblesFit'
  <2> SUFFICES ASSUME NEW i \in DOMAIN dom'
               PROVE  \E b : dom'[i] = b /\ BubbleFits(b)'
    BY NextBubblesFit
  <2>1. PICK b : b = dom'[i]
    OBVIOUS
  <2>2. \/ \E j \in DOMAIN dom : b = dom[j]
        \/ \E r \in Unrendered(f.found) : b = HistoryBubble(r, f.found[r])
    BY <1>9, <2>1, HistoryElements DEF Fits
  <2>3. CASE \E j \in DOMAIN dom : b = dom[j]
    BY <1>2, <1>3, <2>1, <2>3
  <2>4. CASE \E r \in Unrendered(f.found) : b = HistoryBubble(r, f.found[r])
    <3>1. PICK r \in Unrendered(f.found) : b = HistoryBubble(r, f.found[r])
      BY <2>4
    <3>2. r \in DOMAIN f.found /\ r \in Stored /\ r # NoRow
      <4>1. r \in DOMAIN f.found
        BY DEF Unrendered
      <4>2. DOMAIN f.found = 1 .. Len(f.found) /\ Len(f.found) \in Nat /\ Len(f.found) <= Len(rows)
        BY DEF TypeOK
      <4> QED
        BY <4>1, <4>2, StoredRows DEF NoRow
    <3>3. b.id = r /\ (b.mark = "two" => f.found[r].read)
      BY <3>1 DEF HistoryBubble
    <3>4. f.found[r].read => rows[r].read
      BY <3>2 DEF Fits, AnswersFit, AnswerFits
    <3>5. BubbleFits(b)
      BY <3>2, <3>3, <3>4 DEF BubbleFits
    <3> QED
      BY <1>2, <2>1, <3>5
  <2> QED
    BY <2>2, <2>3, <2>4
<1>10. CASE OperatorNext \/ SocketNext \/ UNCHANGED vars
  <2>1. UNCHANGED dom
    BY <1>10 DEF OperatorNext, SocketNext, vars, domVars, OperatorSends, OperatorEdits, OperatorReads,
         Connects, IsToldItsChat, IsNotToldItsChat, LoopBegins, Disconnects, EventMisses, EventIsDropped,
         SocketStores, SocketEdits, SocketStoreFails, SocketReads
  <2> QED
    BY <1>4, <2>1
<1>11. ASSUME NEW f \in fetches, FetchIsAnswered(f) \/ HistoryFails(f)
       PROVE  BubblesFit'
  BY <1>4, <1>11 DEF FetchIsAnswered, HistoryFails, domVars
<1> QED
  BY <1>5, <1>6, <1>7, <1>8, <1>9, <1>10, <1>11 DEF Next, PageNext

LEMMA AnswersStep == TypeOK /\ Fits /\ [Next]_vars => AnswersFit' /\ FetchesTyped'
<1> SUFFICES ASSUME TypeOK, Fits, [Next]_vars
             PROVE  AnswersFit' /\ FetchesTyped'
  OBVIOUS
<1>1. RowsGrow /\ rows \in Seq(Row)
  BY RowsStep DEF TypeOK
<1>2. ASSUME NEW f \in fetches
      PROVE  f \in Fetch /\ AnswerFits(f)'
  <2>1. f \in Fetch /\ AnswerFits(f)
    BY DEF Fits, AnswersFit, FetchesTyped
  <2>2. DOMAIN f.found \subseteq Stored
    <3>1. DOMAIN f.found = 1 .. Len(f.found) /\ Len(f.found) \in Nat /\ Len(f.found) <= Len(rows)
      BY DEF TypeOK
    <3> QED
      BY <3>1, StoredRows
  <2> QED
    BY <1>1, <2>1, <2>2 DEF AnswerFits, RowsGrow
<1>3. ASSUME NEW f \in Fetch, AnswerFits(f)', fetches' \subseteq fetches \cup {f}
      PROVE  AnswersFit' /\ FetchesTyped'
  BY <1>2, <1>3 DEF AnswersFit, FetchesTyped
<1>4. ASSUME fetches' \subseteq fetches
      PROVE  AnswersFit' /\ FetchesTyped'
  BY <1>2, <1>4 DEF AnswersFit, FetchesTyped
<1>5. CASE IsToldItsChat
  <2>1. PICK f : f = [n |-> connection, answered |-> FALSE, found |-> <<>>]
    OBVIOUS
  <2>2. f \in Fetch
    BY <2>1, Constants DEF Fetch, TypeOK
  <2>3. AnswerFits(f)'
    BY <2>1 DEF AnswerFits
  <2>4. fetches' \subseteq fetches \cup {f}
    BY <1>5, <2>1 DEF IsToldItsChat
  <2> QED
    BY <1>3, <2>2, <2>3, <2>4
<1>6. ASSUME NEW f \in fetches, FetchIsAnswered(f)
      PROVE  AnswersFit' /\ FetchesTyped'
  <2>1. PICK new : new = [f EXCEPT !.answered = TRUE, !.found = rows]
    OBVIOUS
  <2>2. new \in Fetch /\ new.found = rows
    BY <1>1, <1>2, <2>1 DEF Fetch
  <2>3. AnswerFits(new)'
    BY <1>1, <2>2 DEF AnswerFits, RowsGrow, Stored
  <2>4. fetches' \subseteq fetches \cup {new}
    BY <1>6, <2>1 DEF FetchIsAnswered
  <2> QED
    BY <1>3, <2>2, <2>3, <2>4
<1>7. ASSUME NEW f \in fetches, HistoryIsDrawn(f) \/ HistoryFails(f)
      PROVE  fetches' \subseteq fetches
  BY <1>7 DEF HistoryIsDrawn, HistoryFails
<1>8. ASSUME \/ OperatorNext \/ Connects \/ IsNotToldItsChat \/ LoopBegins \/ Disconnects
             \/ \E e \in stream : EventMisses(e) \/ EventIsDropped(e) \/ HandlesEvent(e)
             \/ SocketStores \/ SocketEdits \/ SocketStoreFails \/ SocketReads
             \/ CustomerSends \/ \E m \in Mid : CustomerEdits(m)
             \/ HandlesAck \/ UNCHANGED vars
      PROVE  fetches' \subseteq fetches
  BY <1>8 DEF OperatorNext, vars, loadVars, OperatorSends, OperatorEdits, OperatorReads,
       Connects, IsNotToldItsChat, LoopBegins, Disconnects, EventMisses, EventIsDropped, HandlesEvent,
       SocketStores, SocketEdits, SocketStoreFails, SocketReads, CustomerSends, CustomerEdits, HandlesAck
<1> QED
  BY <1>4, <1>5, <1>6, <1>7, <1>8 DEF Next, SocketNext, PageNext

LEMMA ConnectionsStep == TypeOK /\ Fits /\ [Next]_vars => ConnectionsCounted'
<1> SUFFICES ASSUME TypeOK, Fits, [Next]_vars
             PROVE  ConnectionsCounted'
  OBVIOUS
<1>1. connection \in Nat /\ faults \in Nat /\ ConnectionsCounted
  BY Constants DEF TypeOK, Fits
<1> USE DEF socketVars, countVars, ConnectionsCounted
<1>2. CASE Connects
  BY <1>1, <1>2 DEF Connects
<1>3. CASE Disconnects
  BY <1>1, <1>3 DEF Disconnects, Fails, IsConnected
<1>4. CASE IsToldItsChat \/ LoopBegins
  BY <1>1, <1>4 DEF IsToldItsChat, LoopBegins
<1>5. CASE IsNotToldItsChat
  BY <1>1, <1>5 DEF IsNotToldItsChat, Fails
<1>6. ASSUME UNCHANGED socketVars, faults' = faults \/ Fails
      PROVE  ConnectionsCounted'
  BY <1>1, <1>6 DEF Fails
<1>7. ASSUME \/ OperatorNext \/ PageNext \/ UNCHANGED vars
             \/ \E e \in stream : EventMisses(e) \/ EventIsDropped(e)
             \/ SocketStores \/ SocketEdits \/ SocketStoreFails \/ SocketReads
      PROVE  UNCHANGED socketVars /\ (faults' = faults \/ Fails)
  BY <1>7 DEF OperatorNext, PageNext, vars, OperatorSends, OperatorEdits, OperatorReads,
       EventMisses, EventIsDropped, HandlesEvent,
       SocketStores, SocketEdits, SocketStoreFails, SocketReads, CustomerSends, CustomerEdits, HandlesAck,
       FetchIsAnswered, HistoryIsDrawn, HistoryFails
<1> QED
  BY <1>2, <1>3, <1>4, <1>5, <1>6, <1>7 DEF Next, SocketNext

(* An entry's bubble moves, but stays its message's and keeps its id.      *)
LEMMA EntriesStep ==
    TypeOK /\ Fits /\ [Next]_vars =>
        EntriesFit' /\ \A m \in Mid : m <= sends /\ Settled(m) => Settled(m)'
<1> SUFFICES ASSUME TypeOK, Fits, [Next]_vars
             PROVE  EntriesFit' /\ \A m \in Mid : m <= sends /\ Settled(m) => Settled(m)'
  OBVIOUS
<1>1. Grows /\ sends \in Nat /\ sends' \in Nat
  BY Growing, CountsAreNats
<1>2. \A m \in Mid : m \in Nat /\ EntryFits(m)
  BY DEF Fits, EntriesFit, Mid
<1> DEFINE Kept(m) == Pointed(m)' /\ (m <= sends /\ Settled(m) => Settled(m)')
                      /\ (entries'[m].acknowledged => m <= sends' /\ Settled(m)')
<1>3. ASSUME NEW m \in Mid,
             entries[m].bubble = 0 => entries'[m].bubble = 0,
             entries[m].bubble # 0 =>
                /\ dom'[entries'[m].bubble].mid = dom[entries[m].bubble].mid
                /\ \/ dom'[entries'[m].bubble].id = dom[entries[m].bubble].id
                   \/ dom'[entries'[m].bubble].id # NoRow,
             entries'[m].acknowledged => entries[m].acknowledged
      PROVE  Kept(m)
  <2>1. Pointed(m)'
    BY <1>2, <1>3 DEF EntryFits, Pointed
  <2>2. Settled(m) => Settled(m)'
    BY <1>1, <1>3 DEF Settled, Grows
  <2>3. m <= sends => m <= sends'
    BY <1>1, <1>2 DEF Grows
  <2> QED
    BY <1>2, <1>3, <2>1, <2>2, <2>3 DEF EntryFits
<1>4. ASSUME \A m \in Mid : Kept(m)
      PROVE  EntriesFit' /\ \A m \in Mid : m <= sends /\ Settled(m) => Settled(m)'
  BY <1>4 DEF EntriesFit, EntryFits
<1>5. ASSUME UNCHANGED <<dom, entries>>
      PROVE  \A m \in Mid : Kept(m)
  <2> HIDE DEF Kept
  <2> QED
    BY <1>3, <1>5
<1>6. ASSUME CustomerSends, NEW m \in Mid
      PROVE  Kept(m)
  <2>1. CASE m = sends'
    <3>1. entries'[m].bubble = Len(dom') /\ ~entries'[m].acknowledged /\ dom'[Len(dom')].mid = m
      BY <1>6, <2>1, SendsElements
    <3>2. ~(m <= sends)
      BY <1>1, <1>6, <2>1 DEF CustomerSends
    <3> QED
      BY <3>1, <3>2 DEF Pointed
  <2>2. CASE m # sends'
    <3>1. entries'[m] = entries[m] /\ \A i \in DOMAIN dom : dom'[i] = dom[i]
      BY <1>6, <2>2, SendsElements
    <3>2. entries[m].bubble # 0 => entries[m].bubble \in DOMAIN dom
      BY Entries
    <3> HIDE DEF Kept
    <3> QED
      BY <1>3, <3>1, <3>2
  <2> QED
    BY <2>1, <2>2
<1>7. ASSUME NEW q \in Mid, CustomerEdits(q), NEW m \in Mid
      PROVE  Kept(m)
  <2>1. /\ entries'[m].bubble = entries[m].bubble
        /\ entries'[m].acknowledged => entries[m].acknowledged
        /\ \A i \in DOMAIN dom : dom'[i].id = dom[i].id /\ dom'[i].mid = dom[i].mid
    BY <1>7, EditsElements
  <2>2. entries[m].bubble # 0 => entries[m].bubble \in DOMAIN dom
    BY Entries
  <2> HIDE DEF Kept
  <2> QED
    BY <1>3, <2>1, <2>2
<1>8. ASSUME HandlesAck, NEW m \in Mid
      PROVE  Kept(m)
  <2>1. PICK a : a = Head(acks)
    OBVIOUS
  <2>2. AckFits(a)
    BY <1>8, <2>1, FirstAck DEF HandlesAck, Fits, AcksFit
  <2>3. a.row \in Stored \cup {NoRow}
    BY <2>2 DEF AckFits
  <2>4. /\ a.mid \in Mid
        /\ entries'[m].bubble = entries[m].bubble
        /\ m # a.mid => entries'[m] = entries[m]
        /\ \A i \in DOMAIN dom :
              /\ dom'[i].mid = dom[i].mid
              /\ i # entries[a.mid].bubble => dom'[i] = dom[i]
              /\ i = entries[a.mid].bubble =>
                    /\ a.row = NoRow => dom'[i].id = dom[i].id
                    /\ a.row # NoRow => dom'[i].id = a.row
    BY <1>8, <2>1, <2>3, AckElements DEF Ack
  <2>5. entries[m].bubble # 0 => entries[m].bubble \in DOMAIN dom
    BY Entries
  <2>6. CASE m # a.mid
    <3> HIDE DEF Kept
    <3> QED
      BY <1>3, <2>4, <2>5, <2>6
  <2>7. CASE m = a.mid
    <3>1. Pointed(m)'
      BY <1>2, <2>4, <2>5 DEF EntryFits, Pointed
    <3>2. Settled(m)'
      BY <1>1, <2>2, <2>4, <2>5, <2>7 DEF AckFits, Settled, Grows
    <3>3. m <= sends'
      BY <1>1, <1>2, <2>2, <2>7 DEF AckFits, Grows
    <3> QED
      BY <3>1, <3>2, <3>3
  <2> QED
    BY <2>6, <2>7
<1>9. ASSUME NEW e \in stream, HandlesEvent(e), NEW m \in Mid
      PROVE  Kept(m)
  <2>1. entries' = entries
    BY <1>9 DEF HandlesEvent
  <2>2. \A i \in DOMAIN dom : dom'[i].id = dom[i].id /\ dom'[i].mid = dom[i].mid
    BY <1>9, MessageElements, UpdateElements DEF HandlesEvent
  <2>3. entries[m].bubble # 0 => entries[m].bubble \in DOMAIN dom
    BY Entries
  <2> HIDE DEF Kept
  <2> QED
    BY <1>3, <2>1, <2>2, <2>3
<1>10. ASSUME NEW f \in fetches, HistoryIsDrawn(f), NEW m \in Mid
       PROVE  Kept(m)
  <2>1. \/ \E r \in Unrendered(f.found) :
              /\ f.found[r].mid = m /\ entries'[m].bubble \in DOMAIN dom'
              /\ dom'[entries'[m].bubble] = HistoryBubble(r, f.found[r])
        \/ /\ entries'[m].acknowledged = entries[m].acknowledged
           /\ \/ entries[m].bubble = 0 /\ entries'[m].bubble = 0
              \/ /\ entries[m].bubble \in DOMAIN dom /\ entries'[m].bubble \in DOMAIN dom'
                 /\ dom'[entries'[m].bubble] = dom[entries[m].bubble]
    BY <1>10, HistoryElements DEF Fits
  <2>2. CASE \E r \in Unrendered(f.found) :
                /\ f.found[r].mid = m /\ entries'[m].bubble \in DOMAIN dom'
                /\ dom'[entries'[m].bubble] = HistoryBubble(r, f.found[r])
    <3>1. PICK r \in Unrendered(f.found) :
                /\ f.found[r].mid = m
                /\ dom'[entries'[m].bubble] = HistoryBubble(r, f.found[r])
      BY <2>2
    <3>2. dom'[entries'[m].bubble].mid = m /\ dom'[entries'[m].bubble].id = r
      <4>1. PICK b : b = HistoryBubble(r, f.found[r])
        OBVIOUS
      <4>2. b.mid = f.found[r].mid /\ b.id = r
        BY <4>1 DEF HistoryBubble
      <4> QED
        BY <3>1, <4>1, <4>2
    <3>3. r \in DOMAIN f.found /\ r \in Stored /\ r # NoRow
      <4>1. r \in DOMAIN f.found
        BY DEF Unrendered
      <4>2. DOMAIN f.found = 1 .. Len(f.found) /\ Len(f.found) \in Nat /\ Len(f.found) <= Len(rows)
        BY DEF TypeOK
      <4> QED
        BY <4>1, <4>2, StoredRows DEF NoRow
    <3>4. rows[r].mid = m /\ rows[r].mid <= sends
      BY <3>1, <3>3 DEF Fits, AnswersFit, AnswerFits, RowsSent
    <3>5. m <= sends'
      BY <1>1, <1>2, <3>4 DEF Grows
    <3>6. Pointed(m)' /\ Settled(m)'
      BY <3>2, <3>3 DEF Pointed, Settled
    <3> QED
      BY <3>5, <3>6
  <2>3. CASE /\ entries'[m].acknowledged = entries[m].acknowledged
             /\ \/ entries[m].bubble = 0 /\ entries'[m].bubble = 0
                \/ /\ entries[m].bubble \in DOMAIN dom /\ entries'[m].bubble \in DOMAIN dom'
                   /\ dom'[entries'[m].bubble] = dom[entries[m].bubble]
    <3>1. entries[m].bubble \in DOMAIN dom => entries[m].bubble # 0
      BY Bubbles
    <3> HIDE DEF Kept
    <3> QED
      BY <1>3, <2>3, <3>1
  <2> HIDE DEF Kept
  <2> QED
    BY <2>1, <2>2, <2>3
<1>11. ASSUME \/ OperatorNext \/ SocketNext \/ UNCHANGED vars
              \/ \E f \in fetches : FetchIsAnswered(f) \/ HistoryFails(f)
       PROVE  UNCHANGED <<dom, entries>>
  BY <1>11 DEF OperatorNext, SocketNext, vars, domVars, OperatorSends, OperatorEdits, OperatorReads,
       Connects, IsToldItsChat, IsNotToldItsChat, LoopBegins, Disconnects, EventMisses, EventIsDropped,
       SocketStores, SocketEdits, SocketStoreFails, SocketReads, FetchIsAnswered, HistoryFails
<1> HIDE DEF Kept
<1>12. \A m \in Mid : Kept(m)
  BY <1>5, <1>6, <1>7, <1>8, <1>9, <1>10, <1>11 DEF Next, PageNext
<1> QED
  BY <1>4, <1>12

LEMMA FramesStep == TypeOK /\ Fits /\ [Next]_vars => FramesFit'
<1> SUFFICES ASSUME TypeOK, Fits, [Next]_vars
             PROVE  FramesFit'
  OBVIOUS
<1>1. Grows /\ sends \in Nat /\ sends' \in Nat /\ renderedIds \subseteq Stored /\ Stored' = DOMAIN rows'
  BY Growing, CountsAreNats DEF TypeOK, Stored
<1>2. \A m \in Mid : m \in Nat /\ (m <= sends => m <= sends') /\ (m <= sends /\ Settled(m) => Settled(m)')
  BY <1>1, EntriesStep DEF Grows, Mid
<1>3. ASSUME NEW f, FrameFits(f), f.action \in {"send", "edit", "read"}
      PROVE  FrameFits(f)'
  <2>1. f.action = "read" => f.row \in renderedIds' /\ ~IsMine(f.row)'
    BY <1>1, <1>3 DEF FrameFits, Grows, RowsGrow, IsMine
  <2>2. f.action # "read" => f.mid \in Mid /\ f.mid <= sends'
    BY <1>2, <1>3 DEF FrameFits
  <2>3. f.action = "edit" => Settled(f.mid)'
    BY <1>2, <1>3 DEF FrameFits
  <2> QED
    BY <2>1, <2>2, <2>3 DEF FrameFits
<1>4. \A i \in DOMAIN up : FrameFits(up[i]) /\ up[i].action \in {"send", "edit", "read"}
  <2>1. \A i \in DOMAIN up : up[i] \in Frame
    BY DEF TypeOK
  <2>2. \A f \in Frame : f.action \in {"send", "edit", "read"}
    BY DEF Frame
  <2> QED
    BY <2>1, <2>2 DEF Fits, FramesFit
<1>5. ASSUME \A i \in DOMAIN up' : \E j \in DOMAIN up : up'[i] = up[j]
      PROVE  FramesFit'
  <2> SUFFICES ASSUME NEW i \in DOMAIN up'
               PROVE  \E f : up'[i] = f /\ FrameFits(f)'
    BY NextFramesFit
  <2>1. PICK j \in DOMAIN up : up'[i] = up[j]
    BY <1>5
  <2>2. PICK f : f = up[j]
    OBVIOUS
  <2> QED
    BY <1>3, <1>4, <2>1, <2>2
<1>6. ASSUME NEW f \in Frame, FrameFits(f)', up' = Append(up, f)
      PROVE  FramesFit'
  <2> SUFFICES ASSUME NEW i \in DOMAIN up'
               PROVE  \E g : up'[i] = g /\ FrameFits(g)'
    BY NextFramesFit
  <2>1. up'[i] = f \/ \E j \in DOMAIN up : up'[i] = up[j]
    <3>1. up \in Seq(Frame)
      BY DEF TypeOK
    <3>2. \A k \in DOMAIN Append(up, f) :
              Append(up, f)[k] = f \/ \E j \in DOMAIN up : Append(up, f)[k] = up[j]
      BY <3>1, AppendElements
    <3> QED
      BY <1>6, <3>2
  <2>2. CASE up'[i] = f
    BY <1>6, <2>2
  <2>3. CASE \E j \in DOMAIN up : up'[i] = up[j]
    <3>1. PICK j \in DOMAIN up : up'[i] = up[j]
      BY <2>3
    <3>2. PICK g : g = up[j]
      OBVIOUS
    <3> QED
      BY <1>3, <1>4, <3>1, <3>2
  <2> QED
    BY <2>1, <2>2, <2>3
<1>7. CASE UNCHANGED up
  BY <1>5, <1>7
<1>8. CASE Disconnects
  BY <1>8 DEF Disconnects, FramesFit
<1>9. ASSUME Reads("send") \/ Reads("edit") \/ Reads("read")
      PROVE  FramesFit'
  BY <1>5, <1>9, FirstFrame DEF Reads
<1>10. CASE CustomerSends
  <2>1. PICK f : f = [action |-> "send", mid |-> sends', row |-> NoRow, text |-> 0]
    OBVIOUS
  <2>2. sends' \in Mid
    BY <1>10, SendsElements
  <2>3. f \in Frame
    BY <2>1, <2>2, Constants DEF Frame, Text
  <2>4. FrameFits(f)'
    BY <1>1, <2>1, <2>2 DEF FrameFits
  <2> QED
    BY <1>6, <1>10, <2>1, <2>3, <2>4 DEF CustomerSends
<1>11. ASSUME NEW m \in Mid, CustomerEdits(m)
       PROVE  FramesFit'
  <2>1. PICK f : f = [action |-> "edit", mid |-> m, row |-> NoRow, text |-> edits']
    OBVIOUS
  <2>2. f \in Frame
    BY <1>11, <2>1, EditsElements DEF Frame, Text
  <2>3. m <= sends /\ Settled(m)
    BY <1>11 DEF CustomerEdits, Fits, EntriesFit, EntryFits
  <2>4. FrameFits(f)'
    BY <1>2, <2>1, <2>3 DEF FrameFits
  <2>5. up' = Append(up, f) \/ up' = up
    BY <1>11, <2>1 DEF CustomerEdits
  <2> QED
    BY <1>6, <1>7, <2>2, <2>4, <2>5
<1>12. ASSUME NEW e \in stream, HandlesEvent(e)
       PROVE  FramesFit'
  <2>1. CASE HandlesMessage(e)
    <3>1. e.row \in RowId /\ e.row \in Stored /\ ~IsMine(e.row)
      BY <2>1, StoredRows DEF Fits, EventsFit, EventFits, HandlesMessage
    <3>2. PICK f : f = Receipt(e.row)
      OBVIOUS
    <3>3. f \in Frame
      BY <3>1, <3>2, ReceiptTypes
    <3>4. FrameFits(f)'
      BY <1>1, <2>1, <3>1, <3>2 DEF FrameFits, Receipt, HandlesMessage, Grows, RowsGrow, IsMine
    <3> QED
      BY <1>6, <2>1, <3>2, <3>3, <3>4 DEF HandlesMessage
  <2>2. CASE HandlesUpdate(e)
    BY <1>7, <2>2 DEF HandlesUpdate
  <2> QED
    BY <1>12, <2>1, <2>2 DEF HandlesEvent
<1>13. ASSUME NEW f \in fetches, HistoryIsDrawn(f)
       PROVE  FramesFit'
  <2>1. CASE \E r \in NewestUnread(f.found) : up' = Append(up, Receipt(r))
    <3>1. PICK r \in NewestUnread(f.found) : up' = Append(up, Receipt(r))
      BY <2>1
    <3>2. r \in DOMAIN f.found /\ r \in Stored /\ r \in RowId /\ f.found[r].mid = NoMid
      <4>1. DOMAIN f.found = 1 .. Len(f.found) /\ Len(f.found) \in Nat /\ Len(f.found) <= Len(rows)
        BY DEF TypeOK
      <4> QED
        BY <3>1, <4>1, StoredRows DEF NewestUnread
    <3>3. ~IsMine(r)
      BY <3>2 DEF Fits, AnswersFit, AnswerFits, IsMine
    <3>4. r \in renderedIds'
      BY <1>13, <3>2 DEF HistoryIsDrawn, Unrendered
    <3>5. PICK g : g = Receipt(r)
      OBVIOUS
    <3>6. g \in Frame
      BY <3>2, <3>5, ReceiptTypes
    <3>7. FrameFits(g)'
      BY <1>1, <3>2, <3>3, <3>4, <3>5 DEF FrameFits, Receipt, Grows, RowsGrow, IsMine
    <3> QED
      BY <1>6, <3>1, <3>5, <3>6, <3>7
  <2> QED
    BY <1>7, <1>13, <2>1 DEF HistoryIsDrawn
<1>14. ASSUME \/ OperatorNext \/ Connects \/ IsToldItsChat \/ IsNotToldItsChat \/ LoopBegins
              \/ \E e \in stream : EventMisses(e) \/ EventIsDropped(e)
              \/ HandlesAck \/ UNCHANGED vars
              \/ \E f \in fetches : FetchIsAnswered(f) \/ HistoryFails(f)
       PROVE  UNCHANGED up
  BY <1>14 DEF OperatorNext, vars, wireVars, OperatorSends, OperatorEdits, OperatorReads, Connects,
       IsToldItsChat, IsNotToldItsChat, LoopBegins, EventMisses, EventIsDropped, HandlesAck,
       FetchIsAnswered, HistoryFails
<1>15. ASSUME SocketStores \/ SocketEdits \/ SocketStoreFails \/ SocketReads
       PROVE  Reads("send") \/ Reads("edit") \/ Reads("read")
  BY <1>15 DEF SocketStores, SocketEdits, SocketStoreFails, SocketReads
<1> QED
  BY <1>7, <1>8, <1>9, <1>10, <1>11, <1>12, <1>13, <1>14, <1>15 DEF Next, SocketNext, PageNext

LEMMA AcksStep == TypeOK /\ Fits /\ [Next]_vars => AcksFit'
<1> SUFFICES ASSUME TypeOK, Fits, [Next]_vars
             PROVE  AcksFit'
  OBVIOUS
<1>1. /\ Grows /\ sends \in Nat /\ sends' \in Nat /\ Stored \subseteq Stored' /\ Stored' = DOMAIN rows'
  <2>1. TypeOK' /\ Stored' = DOMAIN rows'
    BY TypesStep DEF Stored
  <2>2. sends \in Nat /\ sends' \in Nat
    BY <2>1, Constants DEF TypeOK
  <2> QED
    BY <2>1, <2>2, Growing, RowsStep
<1>2. \A m \in Mid : m \in Nat /\ (m <= sends => m <= sends') /\ (m <= sends /\ Settled(m) => Settled(m)')
  BY <1>1, EntriesStep DEF Grows, Mid
<1>3. ASSUME NEW a \in Ack, AckFits(a)
      PROVE  AckFits(a)'
  <2>1. a.mid \in Mid
    BY DEF Ack
  <2>2. a.mid <= sends' /\ (a.row = NoRow => Settled(a.mid)')
    BY <1>2, <1>3, <2>1 DEF AckFits
  <2> QED
    BY <1>1, <1>3, <2>2 DEF AckFits
<1>4. \A i \in DOMAIN acks : acks[i] \in Ack /\ AckFits(acks[i])
  BY DEF Fits, AcksFit, TypeOK
<1>5. ASSUME \A i \in DOMAIN acks' : \E j \in DOMAIN acks : acks'[i] = acks[j]
      PROVE  AcksFit'
  <2> SUFFICES ASSUME NEW i \in DOMAIN acks'
               PROVE  \E a : acks'[i] = a /\ AckFits(a)'
    BY NextAcksFit
  <2>1. PICK j \in DOMAIN acks : acks'[i] = acks[j]
    BY <1>5
  <2>2. PICK a : a = acks[j]
    OBVIOUS
  <2> QED
    BY <1>3, <1>4, <2>1, <2>2
<1>6. ASSUME NEW a \in Ack, AckFits(a)', acks' = Append(acks, a)
      PROVE  AcksFit'
  <2> SUFFICES ASSUME NEW i \in DOMAIN acks'
               PROVE  \E g : acks'[i] = g /\ AckFits(g)'
    BY NextAcksFit
  <2>1. acks'[i] = a \/ \E j \in DOMAIN acks : acks'[i] = acks[j]
    <3>1. acks \in Seq(Ack)
      BY DEF TypeOK
    <3>2. \A k \in DOMAIN Append(acks, a) :
              Append(acks, a)[k] = a \/ \E j \in DOMAIN acks : Append(acks, a)[k] = acks[j]
      BY <3>1, AppendElements
    <3> QED
      BY <1>6, <3>2
  <2>2. CASE acks'[i] = a
    BY <1>6, <2>2
  <2>3. CASE \E j \in DOMAIN acks : acks'[i] = acks[j]
    <3>1. PICK j \in DOMAIN acks : acks'[i] = acks[j]
      BY <2>3
    <3>2. PICK g : g = acks[j]
      OBVIOUS
    <3> QED
      BY <1>3, <1>4, <3>1, <3>2
  <2> QED
    BY <2>1, <2>2, <2>3
<1>7. CASE UNCHANGED acks
  BY <1>5, <1>7
<1>8. CASE Disconnects
  BY <1>8 DEF Disconnects, AcksFit
<1>9. CASE HandlesAck
  BY <1>5, <1>9, FirstAck DEF HandlesAck
<1>10. ASSUME Reads("send") \/ Reads("edit")
       PROVE  FrameFits(Head(up)) /\ Head(up).mid \in Mid /\ Head(up).mid <= sends
  BY <1>10, FirstFrame DEF Reads, Fits, FramesFit, FrameFits
<1>11. CASE SocketStores
  <2>1. PICK a : a = [mid |-> Head(up).mid, row |-> Len(rows')]
    OBVIOUS
  <2>2. Len(rows') \in RowId /\ Len(rows') \in DOMAIN rows' /\ Len(rows') # NoRow
    BY <1>11, SocketStoresRows, Constants DEF RowId, NoRow
  <2>3. Reads("send") /\ acks' = Append(acks, a)
    BY <1>11, <2>1 DEF SocketStores
  <2>4. a \in Ack /\ a.mid <= sends
    BY <1>10, <2>1, <2>2, <2>3 DEF Ack
  <2>5. AckFits(a)'
    BY <1>1, <1>2, <1>10, <2>1, <2>2, <2>3, <2>4 DEF AckFits
  <2> QED
    BY <1>6, <2>3, <2>4, <2>5
<1>12. CASE SocketEdits
  <2>1. PICK a : a = [mid |-> Head(up).mid, row |-> NoRow]
    OBVIOUS
  <2>2. Reads("edit") /\ acks' = Append(acks, a)
    BY <1>12, <2>1 DEF SocketEdits
  <2>3. Settled(Head(up).mid)
    BY <1>10, <2>2 DEF FrameFits, Reads
  <2>4. a \in Ack /\ AckFits(a)'
    BY <1>2, <1>10, <2>1, <2>2, <2>3 DEF Ack, AckFits
  <2> QED
    BY <1>6, <2>2, <2>4
<1>13. CASE SocketStoreFails
  <2>1. PICK m : m = Head(up).mid
    OBVIOUS
  <2>2. PICK a : a = [mid |-> m, row |-> NoRow]
    OBVIOUS
  <2>3. (Reads("send") \/ Reads("edit")) /\ acks' = Append(acks, a) /\ m \in unstored'
    BY <1>13, <2>1, <2>2 DEF SocketStoreFails
  <2>4. m \in Mid /\ m <= sends' /\ Settled(m)'
    BY <1>2, <1>10, <2>1, <2>3 DEF Settled
  <2>5. a \in Ack /\ AckFits(a)'
    BY <2>2, <2>4 DEF Ack, AckFits
  <2> QED
    BY <1>6, <2>3, <2>5
<1>14. ASSUME \/ OperatorNext \/ Connects \/ IsToldItsChat \/ IsNotToldItsChat \/ LoopBegins
              \/ \E e \in stream : EventMisses(e) \/ EventIsDropped(e) \/ HandlesEvent(e)
              \/ SocketReads \/ CustomerSends \/ UNCHANGED vars
              \/ \E m \in Mid : CustomerEdits(m)
              \/ \E f \in fetches : FetchIsAnswered(f) \/ HistoryIsDrawn(f) \/ HistoryFails(f)
       PROVE  UNCHANGED acks
  BY <1>14 DEF OperatorNext, vars, wireVars, OperatorSends, OperatorEdits, OperatorReads, Connects,
       IsToldItsChat, IsNotToldItsChat, LoopBegins, EventMisses, EventIsDropped, HandlesEvent, SocketReads,
       CustomerSends, CustomerEdits, FetchIsAnswered, HistoryIsDrawn, HistoryFails
<1> QED
  BY <1>7, <1>8, <1>9, <1>11, <1>12, <1>13, <1>14 DEF Next, SocketNext, PageNext

LEMMA FitsStep == TypeOK /\ Fits /\ [Next]_vars => Fits'
  BY AnswersStep, ConnectionsStep, RowsSentStep, EventsStep, BubblesStep, EntriesStep, FramesStep, AcksStep
  DEF Fits

LEMMA InitFits == Init => Fits
<1> SUFFICES ASSUME Init
             PROVE  Fits
  OBVIOUS
<1>1. RowsSent
  BY DEF Init, RowsSent, NoMid, Stored
<1>2. EntriesFit
  BY DEF Init, EntriesFit, EntryFits, Pointed, NoEntry
<1>3. BubblesFit /\ FramesFit /\ AcksFit
  BY DEF Init, BubblesFit, FramesFit, AcksFit
<1>4. FetchesTyped /\ ConnectionsCounted /\ EventsFit /\ AnswersFit
  BY Constants DEF Init, FetchesTyped, ConnectionsCounted, EventsFit, AnswersFit
<1> QED
  BY <1>1, <1>2, <1>3, <1>4 DEF Fits

-----------------------------------------------------------------------------
(* What a customer is written arrives.                                     *)

LEMMA NewRow ==
    TypeOK /\ Fits /\ [Next]_vars =>
        \A r \in ForTheClient' :
            \/ r \in ForTheClient
            \/ OperatorSends /\ [kind |-> "message", row |-> r, text |-> 0] \in stream' /\ ~rows'[r].read
<1> SUFFICES ASSUME TypeOK, Fits, [Next]_vars, NEW r \in ForTheClient'
             PROVE  \/ r \in ForTheClient
                    \/ /\ OperatorSends /\ [kind |-> "message", row |-> r, text |-> 0] \in stream'
                       /\ ~rows'[r].read
  OBVIOUS
<1>1. r \in DOMAIN rows' /\ rows'[r].mid = NoMid /\ RowsGrow
  BY RowsStep DEF ForTheClient, IsMine, Stored
<1>2. CASE r \in Stored
  BY <1>1, <1>2 DEF ForTheClient, IsMine, RowsGrow
<1>3. CASE OperatorSends /\ r \notin Stored
  <2>1. r = Len(rows') /\ ~rows'[r].read
    BY <1>1, <1>3, OperatorSendsRows, StoredRows
  <2> QED
    BY <1>3, <2>1 DEF OperatorSends
<1>4. CASE SocketStores /\ r \notin Stored
  <2>1. r = Len(rows') /\ rows'[r].mid = Head(up).mid
    BY <1>1, <1>4, SocketStoresRows, StoredRows
  <2>2. Head(up).mid \in Mid
    BY <1>4, FirstFrame DEF SocketStores, Reads, Fits, FramesFit, FrameFits
  <2> QED
    BY <1>1, <2>1, <2>2, Constants DEF Mid, NoMid
<1>5. ASSUME ~OperatorSends, ~SocketStores
      PROVE  DOMAIN rows' = Stored
  BY <1>5 DEF Next, OperatorNext, SocketNext, PageNext, vars, tableVars, Stored, MarkRead,
         OperatorEdits, OperatorReads, Connects, IsToldItsChat, IsNotToldItsChat, LoopBegins,
         Disconnects, EventMisses, EventIsDropped, SocketEdits, SocketStoreFails, SocketReads,
         CustomerSends, CustomerEdits, HandlesAck, HandlesEvent, FetchIsAnswered, HistoryIsDrawn, HistoryFails
<1> QED
  BY <1>1, <1>2, <1>3, <1>4, <1>5

LEMMA ArrivingStep == TypeOK /\ Fits /\ Arriving /\ [Next]_vars => Arriving'
<1> SUFFICES ASSUME TypeOK, Fits, Arriving, [Next]_vars, NEW r \in ForTheClient'
             PROVE  Arrives(r)'
  BY DEF Arriving
<1> USE DEF tableVars, socketVars, wireVars, loadVars, domVars, countVars, historyVars
<1>1. CASE r \notin ForTheClient
  <2>1. OperatorSends /\ [kind |-> "message", row |-> r, text |-> 0] \in stream'
    BY <1>1, NewRow
  <2> QED
    BY <2>1 DEF Arrives
<1>2. CASE r \in ForTheClient
  <2>1. Arrives(r) /\ r \in Stored /\ rows # <<>>
    BY <1>2 DEF Arriving, ForTheClient, Stored
  <2>2. renderedIds \subseteq renderedIds' /\ lost \subseteq lost'
    BY Growing DEF Grows
  <2>3. CASE r \in renderedIds \cup lost
    BY <2>2, <2>3 DEF Arrives
  <2>4. ASSUME stream \subseteq stream', UNCHANGED <<phase, history>>, fetches \subseteq fetches'
        PROVE  Arrives(r)'
    BY <2>1, <2>2, <2>4 DEF Arrives
  <2>5. CASE OperatorNext
    BY <2>4, <2>5 DEF OperatorNext, OperatorSends, OperatorEdits, OperatorReads
  <2>6. CASE Connects \/ Disconnects
    BY <2>6 DEF Connects, Disconnects, Arrives
  <2>7. CASE IsToldItsChat
    <3>1. PICK f : f = [n |-> connection, answered |-> FALSE, found |-> <<>>]
      OBVIOUS
    <3>2. ~f.answered /\ f \in fetches'
      BY <2>1, <2>7, <3>1 DEF IsToldItsChat
    <3> QED
      BY <3>2 DEF Arrives
  <2>8. CASE IsNotToldItsChat
    BY <2>8 DEF IsNotToldItsChat, Arrives
  <2>9. CASE LoopBegins
    <3>1. /\ phase \notin {"off", "registered"}
          /\ UNCHANGED <<stream, fetches, history, renderedIds, lost>>
      BY <2>9 DEF LoopBegins
    <3> QED
      BY <2>1, <3>1 DEF Arrives
  <2>10. ASSUME NEW e \in stream, stream' = stream \ {e}, UNCHANGED <<phase, history, fetches>>,
                e.kind = "message" /\ e.row = r => phase = "off" \/ r \in renderedIds' \cup lost'
         PROVE  Arrives(r)'
    BY <2>1, <2>2, <2>10 DEF Arrives
  <2>11. ASSUME NEW e \in stream, EventMisses(e) \/ EventIsDropped(e)
         PROVE  Arrives(r)'
    BY <2>10, <2>11 DEF EventMisses, EventIsDropped, Reached
  <2>12. ASSUME NEW e \in stream, HandlesEvent(e)
         PROVE  Arrives(r)'
    <3>1. e.kind = "message" => HandlesMessage(e)
      BY <2>12 DEF HandlesEvent, HandlesUpdate
    <3>2. e.kind = "message" => e.row \in renderedIds'
      BY <3>1 DEF HandlesMessage
    <3> QED
      BY <2>10, <2>12, <3>2 DEF HandlesEvent
  <2>13. CASE SocketStores \/ SocketEdits \/ SocketStoreFails \/ SocketReads
    BY <2>4, <2>13 DEF SocketStores, SocketEdits, SocketStoreFails, SocketReads
  <2>14. CASE CustomerSends \/ HandlesAck \/ UNCHANGED vars
    BY <2>4, <2>14 DEF CustomerSends, HandlesAck, vars
  <2>15. ASSUME NEW m \in Mid, CustomerEdits(m)
         PROVE  Arrives(r)'
    BY <2>4, <2>15 DEF CustomerEdits
  <2>16. ASSUME NEW f \in fetches, FetchIsAnswered(f)
         PROVE  Arrives(r)'
    <3>1. PICK new : new = [f EXCEPT !.answered = TRUE, !.found = rows]
      OBVIOUS
    <3>2. new.found = rows
      BY <3>1 DEF Fits, FetchesTyped, Fetch
    <3>3. new \in fetches'
      BY <2>16, <3>1 DEF FetchIsAnswered
    <3> QED
      BY <2>1, <3>2, <3>3 DEF Arrives, Stored
  <2>17. ASSUME NEW f \in fetches, HistoryIsDrawn(f)
         PROVE  Arrives(r)'
    <3>1. /\ f.answered /\ fetches' = fetches \ {f} /\ UNCHANGED <<stream, phase>>
          /\ history = "failed" => history' = "failed"
          /\ DOMAIN f.found \subseteq renderedIds'
      BY <2>17 DEF HistoryIsDrawn, Unrendered
    <3> QED
      BY <2>1, <2>2, <3>1 DEF Arrives
  <2>18. ASSUME NEW f \in fetches, HistoryFails(f)
         PROVE  Arrives(r)'
    BY <2>18 DEF HistoryFails, Arrives
  <2> QED
    BY <2>5, <2>6, <2>7, <2>8, <2>9, <2>11, <2>12, <2>13, <2>14, <2>15, <2>16, <2>17, <2>18
    DEF Next, SocketNext, PageNext
<1> QED
  BY <1>1, <1>2

(* Only a receipt of the tab marks a row for the customer as read.         *)
LEMMA ReadStep == TypeOK /\ Fits /\ ReadMeansShown /\ [Next]_vars => ReadMeansShown'
<1> SUFFICES ASSUME TypeOK, Fits, ReadMeansShown, [Next]_vars,
                    NEW r \in ForTheClient', rows'[r].read
             PROVE  \E s \in renderedIds' : s >= r /\ ~IsMine(s)'
  BY DEF ReadMeansShown
<1>1. Grows /\ renderedIds \subseteq Stored
  BY Growing DEF TypeOK
<1>2. \A s \in renderedIds : s \in renderedIds' /\ (~IsMine(s) => ~IsMine(s)')
  BY <1>1 DEF Grows, RowsGrow, IsMine
<1>3. r \in ForTheClient /\ r \in Stored /\ ~IsMine(r)
  BY NewRow DEF ForTheClient
<1>4. CASE rows[r].read
  BY <1>2, <1>3, <1>4 DEF ReadMeansShown
<1>5. CASE rows'[r] = rows[r] \/ rows'[r].read = rows[r].read
  BY <1>4, <1>5
<1>6. CASE SocketReads /\ rows' # rows
  <2>1. PICK R : R = {q \in Stored : q <= Head(up).row /\ ~IsMine(q)} /\ rows' = MarkRead(R)
    BY <1>6 DEF SocketReads
  <2>2. CASE r \in R
    <3>1. Head(up).row \in renderedIds /\ ~IsMine(Head(up).row)
      BY <1>6, FirstFrame DEF SocketReads, Reads, Fits, FramesFit, FrameFits
    <3>2. r <= Head(up).row
      BY <2>1, <2>2
    <3>3. r \in Nat /\ Head(up).row \in Nat
      BY <1>1, <1>3, <3>1, StoredRows
    <3>4. PICK s : s = Head(up).row
      OBVIOUS
    <3>5. s \in renderedIds /\ s >= r /\ ~IsMine(s)
      BY <3>1, <3>2, <3>3, <3>4
    <3> QED
      BY <1>2, <3>5
  <2>3. CASE r \notin R
    BY <1>3, <1>5, <2>1, <2>3, MarkedRows
  <2> QED
    BY <2>2, <2>3
<1>7. ASSUME NEW anchor \in Stored, OperatorReads(anchor)
      PROVE  rows'[r] = rows[r]
  <2>1. PICK R : R = {q \in Stored : q <= anchor /\ IsMine(q) /\ ~rows[q].read} /\ rows' = MarkRead(R)
    BY <1>7 DEF OperatorReads
  <2>2. r \notin R
    BY <1>3, <2>1
  <2> QED
    BY <1>3, <2>1, <2>2, MarkedRows
<1>8. ASSUME NEW q \in Stored, OperatorEdits(q)
      PROVE  rows'[r].read = rows[r].read
  BY <1>3, <1>8, OperatorEditsRows
<1>9. CASE OperatorSends
  BY <1>3, <1>5, <1>9, OperatorSendsRows
<1>10. CASE SocketStores
  BY <1>3, <1>5, <1>10, SocketStoresRows
<1>11. CASE SocketEdits
  <2>1. PICK t \in Text : t = Head(up).text
    BY <1>11, FirstFrame DEF SocketEdits, Reads, Frame
  <2>2. rows' = [q \in Stored |-> IF q \in RowOf(Head(up).mid) THEN [rows[q] EXCEPT !.text = t] ELSE rows[q]]
    BY <1>11, <2>1 DEF SocketEdits
  <2> QED
    BY <1>3, <1>5, <2>2, EditedRows
<1>12. ASSUME \/ Connects \/ IsToldItsChat \/ IsNotToldItsChat \/ LoopBegins \/ Disconnects
              \/ SocketStoreFails \/ PageNext \/ UNCHANGED vars
              \/ \E e \in stream : EventMisses(e) \/ EventIsDropped(e)
       PROVE  UNCHANGED rows
  BY <1>12 DEF Connects, IsToldItsChat, IsNotToldItsChat, LoopBegins, Disconnects, SocketStoreFails,
              EventMisses, EventIsDropped, PageNext, CustomerSends, CustomerEdits, HandlesAck,
              HandlesEvent, FetchIsAnswered, HistoryIsDrawn, HistoryFails, tableVars, vars
<1> QED
  BY <1>5, <1>6, <1>7, <1>8, <1>9, <1>10, <1>11, <1>12 DEF Next, OperatorNext, SocketNext

-----------------------------------------------------------------------------
(* The theorems.                                                           *)

LEMMA InitHolds == Init => IInv
<1> SUFFICES ASSUME Init
             PROVE  IInv
  OBVIOUS
<1>1. Arriving
  BY DEF Init, Arriving, Arrives
<1>2. ReadMeansShown
  <2>1. \A r \in Stored : ~rows[r].read
    BY DEF Init, Stored
  <2> QED
    BY <2>1 DEF ReadMeansShown, ForTheClient
<1> QED
  BY <1>1, <1>2, InitTypes, InitFits DEF IInv

LEMMA StepHolds == IInv /\ [Next]_vars => IInv'
  BY TypesStep, FitsStep, ArrivingStep, ReadStep DEF IInv

LEMMA Holds == Spec => []IInv
  BY InitHolds, StepHolds, PTL DEF Spec

(* The state of the widget, of its socket and of the chat is well formed.  *)
THEOREM Types == Spec => []TypeOK
<1>1. IInv => TypeOK
  BY DEF IInv
<1> QED
  BY <1>1, Holds, PTL

(* A tab that is connected, has loaded its history and has nothing under   *)
(* way shows all that the customer was written, but for what a full queue  *)
(* or Redis swallowed (widget_ws.rs, listener.rs, widget.html).            *)
THEOREM Missed == Spec => []NothingMissed
<1>1. IInv => NothingMissed
  BY DEF IInv, Arriving, Arrives, NothingMissed, Quiet
<1> QED
  BY <1>1, Holds, PTL

(* Two ticks are only on what the operator read, one only on what is       *)
(* stored or an error kept out of the table (widget.html handleAck,        *)
(* updateReadStatus, buildHistorySent).                                    *)
THEOREM TrueTicks == Spec => []TicksAreTrue
<1>1. IInv => TicksAreTrue
  BY DEF IInv, Fits, BubblesFit, BubbleFits, TicksAreTrue
<1> QED
  BY <1>1, Holds, PTL

(* A reply counts as read only if it or a later one is in the tab          *)
(* (widget.html loadHistory and appendInboundMessage, widget_ws.rs).       *)
THEOREM ReadsShown == Spec => []ReadMeansShown
<1>1. IInv => ReadMeansShown
  BY DEF IInv
<1> QED
  BY <1>1, Holds, PTL

-----------------------------------------------------------------------------
(* A message has one bubble: what the page, the wire and the table have to *)
(* agree on for it.                                                        *)

(* The frames and acks of a message that say that it was answered for.     *)
Answered(m) ==
    \/ entries[m].acknowledged
    \/ \E i \in DOMAIN up : up[i].action = "edit" /\ up[i].mid = m
    \/ \E i \in DOMAIN acks : acks[i].row = NoRow /\ acks[i].mid = m

BubbleOf(i, r) == dom[i].id = r \/ (IsMine(r) /\ dom[i].mid = rows[r].mid)

(* A bubble with an id is of a rendered row; none is of a message to come. *)
BubblesKnown ==
    \A i \in DOMAIN dom : dom[i].id \in renderedIds \cup {NoRow} /\ dom[i].mid <= sends

(* A message is stored once, for its frame is read once.                   *)
MidsOnce == \A q, r \in Stored : IsMine(q) /\ rows[q].mid = rows[r].mid => q = r

SendsPending ==
    \A i \in DOMAIN up : up[i].action = "send" =>
        /\ RowOf(up[i].mid) = {} /\ ~Answered(up[i].mid)
        /\ \A j \in DOMAIN up : up[j].action = "send" /\ up[j].mid = up[i].mid => i = j

(* What was answered for is in renderedIds, if it is in the table.         *)
AnsweredRendered == \A r \in Stored : IsMine(r) /\ Answered(rows[r].mid) => r \in renderedIds

AcksOfRows == \A i \in DOMAIN acks : acks[i].row # NoRow => rows[acks[i].row].mid = acks[i].mid

(* A message that is still to come has no bubble.                          *)
MessagesPending ==
    \A e \in stream : e.kind = "message" =>
        e.text = 0 /\ (e.row \notin overtaken => \A i \in DOMAIN dom : dom[i].id # e.row)

(* What is not stored was drawn when it was sent.                          *)
DraftsOnce ==
    \A m \in Mid : RowOf(m) = {} =>
        \A i, j \in DOMAIN dom : dom[i].mid = m /\ dom[j].mid = m => i = j

RowsOnce ==
    \A r \in Stored \ overtaken :
        \A i, j \in DOMAIN dom : BubbleOf(i, r) /\ BubbleOf(j, r) => i = j

OInv ==
    /\ BubblesKnown /\ MidsOnce /\ SendsPending /\ AnsweredRendered /\ AcksOfRows
    /\ MessagesPending /\ DraftsOnce /\ RowsOnce

(* The wire.                                                               *)

LEMMA RowsStay == TypeOK /\ [Next]_vars /\ ~OperatorSends /\ ~SocketStores => Stored' = Stored
<1> SUFFICES ASSUME TypeOK, [Next]_vars, ~OperatorSends, ~SocketStores
             PROVE  Stored' = Stored
  OBVIOUS
<1> QED
  BY RowsStep DEF Next, OperatorNext, SocketNext, PageNext, vars, tableVars, Stored, MarkRead,
         OperatorEdits, OperatorReads, Connects, IsToldItsChat, IsNotToldItsChat, LoopBegins,
         Disconnects, EventMisses, EventIsDropped, SocketEdits, SocketStoreFails, SocketReads,
         CustomerSends, CustomerEdits, HandlesAck, HandlesEvent, FetchIsAnswered, HistoryIsDrawn, HistoryFails

LEMMA MidTypes ==
    TypeOK => /\ NoMid \notin Mid /\ NoRow \notin Stored
              /\ \A r \in Stored : IsMine(r) <=> rows[r].mid \in Mid
              /\ \A m \in Mid : m \in Nat
  BY StoredRows, Constants DEF Mid, NoMid, NoRow, IsMine, Row

LEMMA AppendedAt ==
    ASSUME NEW S, NEW s \in Seq(S), NEW e \in S
    PROVE  /\ \A i \in DOMAIN Append(s, e) :
                 \/ i \in DOMAIN s /\ Append(s, e)[i] = s[i]
                 \/ i = Len(s) + 1 /\ Append(s, e)[i] = e
           /\ Len(s) + 1 \notin DOMAIN s
  BY AppendProperties

LEMMA TailAt ==
    ASSUME NEW S, NEW s \in Seq(S), s # <<>>
    PROVE  /\ \A i \in DOMAIN Tail(s) :
                 i \in Int /\ i + 1 \in DOMAIN s /\ i + 1 # 1 /\ Tail(s)[i] = s[i + 1]
           /\ 1 \in DOMAIN s /\ s[1] = Head(s)
  BY HeadTailProperties

SocketStep == SocketStores \/ SocketEdits \/ SocketStoreFails \/ SocketReads

LEMMA UpShapes ==
    ASSUME TypeOK, Fits, [Next]_vars
    PROVE  \/ up' = up \/ up' = <<>>
           \/ SocketStep /\ up # <<>> /\ up' = Tail(up)
           \/ \E f \in Frame :
                 /\ up' = Append(up, f)
                 /\ \/ f.action = "read"
                    \/ f.action = "send" /\ f.mid = sends' /\ CustomerSends
                    \/ /\ f.action = "edit" /\ entries[f.mid].acknowledged /\ f.mid \in Mid
                       /\ CustomerEdits(f.mid) /\ f.text = edits'
<1> USE DEF wireVars
<1>1. CASE CustomerSends
  <2>1. PICK f : f = [action |-> "send", mid |-> sends', row |-> NoRow, text |-> 0]
    OBVIOUS
  <2>2. f \in Frame /\ f.action = "send" /\ f.mid = sends'
    BY <1>1, <2>1, SendsElements, Constants DEF Frame, Text
  <2> QED
    BY <1>1, <2>1, <2>2 DEF CustomerSends
<1>2. ASSUME NEW m \in Mid, CustomerEdits(m)
      PROVE  \/ up' = up
             \/ \E f \in Frame : /\ up' = Append(up, f) /\ f.action = "edit"
                                 /\ entries[f.mid].acknowledged /\ f.mid \in Mid
                                 /\ CustomerEdits(f.mid) /\ f.text = edits'
  <2>1. PICK f : f = [action |-> "edit", mid |-> m, row |-> NoRow, text |-> edits']
    OBVIOUS
  <2>2. f \in Frame /\ f.action = "edit" /\ f.mid = m /\ f.text = edits'
    BY <1>2, <2>1, EditsElements DEF Frame, Text
  <2>3. entries[m].acknowledged /\ (up' = up \/ up' = Append(up, f))
    BY <1>2, <2>1 DEF CustomerEdits
  <2> QED
    BY <1>2, <2>2, <2>3
<1>3. ASSUME NEW e \in stream, HandlesEvent(e)
      PROVE  up' = up \/ \E f \in Frame : up' = Append(up, f) /\ f.action = "read"
  <2>1. CASE HandlesMessage(e)
    <3>1. Receipt(e.row) \in Frame /\ Receipt(e.row).action = "read"
      BY ReceiptTypes DEF TypeOK, Event, Receipt
    <3> QED
      BY <2>1, <3>1 DEF HandlesMessage
  <2> QED
    BY <1>3, <2>1 DEF HandlesEvent, HandlesUpdate
<1>4. ASSUME NEW f \in fetches, HistoryIsDrawn(f)
      PROVE  up' = up \/ \E g \in Frame : up' = Append(up, g) /\ g.action = "read"
  <2>1. CASE up' = up
    BY <2>1
  <2>2. CASE \E r \in NewestUnread(f.found) : up' = Append(up, Receipt(r))
    <3>1. PICK r \in NewestUnread(f.found) : up' = Append(up, Receipt(r))
      BY <2>2
    <3>2. r \in RowId
      <4>1. r \in DOMAIN f.found
        BY DEF NewestUnread
      <4>2. DOMAIN f.found = 1 .. Len(f.found) /\ Len(f.found) \in Nat /\ Len(f.found) <= Len(rows)
        BY DEF TypeOK
      <4> QED
        BY <4>1, <4>2, StoredRows
    <3>3. Receipt(r) \in Frame /\ Receipt(r).action = "read"
      BY <3>2, ReceiptTypes DEF Receipt
    <3> QED
      BY <3>1, <3>3
  <2> QED
    BY <1>4, <2>1, <2>2 DEF HistoryIsDrawn
<1>5. CASE SocketStep
  BY <1>5 DEF SocketStep, SocketStores, SocketEdits, SocketStoreFails, SocketReads, Reads
<1>6. CASE OperatorNext \/ UNCHANGED vars
  BY <1>6 DEF OperatorNext, OperatorSends, OperatorEdits, OperatorReads, vars
<1>7. CASE \/ Connects \/ IsToldItsChat \/ IsNotToldItsChat \/ LoopBegins \/ Disconnects
           \/ \E e \in stream : EventMisses(e) \/ EventIsDropped(e)
  BY <1>7 DEF Connects, IsToldItsChat, IsNotToldItsChat, LoopBegins, Disconnects, EventMisses, EventIsDropped
<1>8. CASE HandlesAck \/ \E f \in fetches : FetchIsAnswered(f) \/ HistoryFails(f)
  BY <1>8 DEF HandlesAck, FetchIsAnswered, HistoryFails
<1> QED
  BY <1>1, <1>2, <1>3, <1>4, <1>5, <1>6, <1>7, <1>8 DEF Next, SocketNext, PageNext, SocketStep

LEMMA AckShapes ==
    ASSUME TypeOK, Fits, [Next]_vars
    PROVE  \/ acks' = acks \/ acks' = <<>>
           \/ HandlesAck /\ acks # <<>> /\ acks' = Tail(acks)
           \/ \E a \in Ack :
                 /\ acks' = Append(acks, a) /\ up # <<>> /\ a.mid = Head(up).mid
                 /\ \/ SocketStores /\ a.row = Len(rows')
                    \/ /\ a.row = NoRow /\ Head(up).action = "edit"
                       /\ SocketEdits \/ SocketStoreFails
                    \/ a.row = NoRow /\ Head(up).action = "send" /\ SocketStoreFails
<1> USE DEF wireVars
<1>1. CASE SocketStores
  <2>1. PICK a : a = [mid |-> Head(up).mid, row |-> Len(rows')]
    OBVIOUS
  <2>2. up # <<>> /\ Head(up).action = "send" /\ acks' = Append(acks, a)
    BY <1>1, <2>1 DEF SocketStores, Reads
  <2>3. Head(up).mid \in Mid
    BY <2>2, FirstFrame DEF Fits, FramesFit, FrameFits
  <2>4. a \in Ack
    BY <1>1, <2>1, <2>3, SocketStoresRows DEF Ack
  <2> QED
    BY <1>1, <2>1, <2>2, <2>4
<1>2. CASE SocketEdits \/ SocketStoreFails
  <2>1. PICK a : a = [mid |-> Head(up).mid, row |-> NoRow]
    OBVIOUS
  <2>2. /\ up # <<>> /\ acks' = Append(acks, a)
        /\ Head(up).action = "edit" \/ (Head(up).action = "send" /\ SocketStoreFails)
    BY <1>2, <2>1 DEF SocketEdits, SocketStoreFails, Reads
  <2>3. Head(up).mid \in Mid
    BY <2>2, FirstFrame DEF Fits, FramesFit, FrameFits
  <2>4. a \in Ack
    BY <2>1, <2>3 DEF Ack
  <2> QED
    BY <1>2, <2>1, <2>2, <2>4
<1>3. CASE HandlesAck
  BY <1>3 DEF HandlesAck
<1> QED
  BY <1>1, <1>2, <1>3 DEF Next, OperatorNext, SocketNext, PageNext, vars,
     OperatorSends, OperatorEdits, OperatorReads, Connects, IsToldItsChat, IsNotToldItsChat, LoopBegins,
     Disconnects, EventMisses, EventIsDropped, SocketReads,
     CustomerSends, CustomerEdits, HandlesEvent, FetchIsAnswered, HistoryIsDrawn, HistoryFails

(* What is answered for was so before, or is rendered, or its frame was    *)
(* read just now and kept out of the table.                                *)
LEMMA AnsweredStep ==
    ASSUME TypeOK, Fits, OInv, [Next]_vars, NEW m \in Mid, Answered(m)'
    PROVE  \/ Answered(m)
           \/ \E r \in Stored : rows[r].mid = m /\ r \in renderedIds'
           \/ SocketStoreFails /\ up # <<>> /\ Head(up).action = "send" /\ Head(up).mid = m
<1> DEFINE Goal == \/ Answered(m)
                   \/ \E r \in Stored : rows[r].mid = m /\ r \in renderedIds'
                   \/ SocketStoreFails /\ up # <<>> /\ Head(up).action = "send" /\ Head(up).mid = m
<1> HIDE DEF Goal
<1>1. CASE entries'[m].acknowledged
  <2>1. CASE entries' = entries
    BY <1>1, <2>1 DEF Answered, Goal
  <2>2. CASE CustomerSends
    <3>1. entries'[m] = entries[m]
      BY <1>1, <2>2, SendsElements
    <3> QED
      BY <1>1, <3>1 DEF Answered, Goal
  <2>3. ASSUME NEW q \in Mid, CustomerEdits(q)
        PROVE  Goal
    BY <1>1, <2>3, EditsElements DEF Answered, Goal
  <2>4. CASE HandlesAck
    <3>1. PICK a : a = Head(acks)
      OBVIOUS
    <3>2. acks # <<>>
      BY <2>4 DEF HandlesAck
    <3>3. 1 \in DOMAIN acks /\ a = acks[1]
      BY <3>1, <3>2, FirstAck
    <3>4. a.row \in Stored \cup {NoRow}
      BY <3>3 DEF Fits, AcksFit, AckFits
    <3>5. CASE m # a.mid
      <4>1. entries'[m] = entries[m]
        BY <2>4, <3>1, <3>4, <3>5, AckElements
      <4> QED
        BY <1>1, <4>1 DEF Answered, Goal
    <3>6. CASE m = a.mid /\ a.row = NoRow
      BY <3>3, <3>6 DEF Answered, Goal
    <3>7. CASE m = a.mid /\ a.row # NoRow
      <4>1. rows[a.row].mid = m /\ a.row \in Stored
        BY <3>3, <3>4, <3>7 DEF OInv, AcksOfRows
      <4>2. a.row \in renderedIds'
        BY <2>4, <3>1, <3>7 DEF HandlesAck, Rendered
      <4> QED
        BY <4>1, <4>2 DEF Goal
    <3> QED
      BY <3>5, <3>6, <3>7
  <2>5. ASSUME NEW f \in fetches, HistoryIsDrawn(f)
        PROVE  Goal
    <3>1. \/ entries'[m].acknowledged = entries[m].acknowledged
          \/ \E r \in Unrendered(f.found) : f.found[r].mid = m
      BY <2>5, HistoryElements DEF Fits
    <3>2. ASSUME NEW r \in Unrendered(f.found), f.found[r].mid = m
          PROVE  Goal
      <4>1. r \in DOMAIN f.found /\ r \in Stored
        <5>1. r \in DOMAIN f.found
          BY DEF Unrendered
        <5>2. DOMAIN f.found = 1 .. Len(f.found) /\ Len(f.found) \in Nat /\ Len(f.found) <= Len(rows)
          BY DEF TypeOK
        <5> QED
          BY <5>1, <5>2, StoredRows
      <4>2. rows[r].mid = m
        BY <3>2, <4>1 DEF Fits, AnswersFit, AnswerFits
      <4>3. r \in renderedIds'
        BY <2>5 DEF HistoryIsDrawn
      <4> QED
        BY <4>1, <4>2, <4>3 DEF Goal
    <3> QED
      BY <1>1, <3>1, <3>2 DEF Answered, Goal
  <2>6. CASE \/ OperatorNext \/ SocketNext \/ UNCHANGED vars \/ \E e \in stream : HandlesEvent(e)
             \/ \E f \in fetches : FetchIsAnswered(f) \/ HistoryFails(f)
    <3>1. entries' = entries
      BY <2>6 DEF OperatorNext, SocketNext, vars, domVars, OperatorSends, OperatorEdits, OperatorReads,
         Connects, IsToldItsChat, IsNotToldItsChat, LoopBegins, Disconnects, EventMisses, EventIsDropped,
         SocketStores, SocketEdits, SocketStoreFails, SocketReads, FetchIsAnswered, HistoryFails,
         HandlesEvent
    <3> QED
      BY <2>1, <3>1
  <2> QED
    BY <2>2, <2>3, <2>4, <2>5, <2>6 DEF Next, PageNext, Goal
<1>2. ASSUME NEW i \in DOMAIN up', up'[i].action = "edit", up'[i].mid = m
      PROVE  Goal
  <2>1. up \in Seq(Frame)
    BY DEF TypeOK
  <2>2. CASE up' = up
    BY <1>2, <2>2 DEF Answered, Goal
  <2>3. CASE up' = <<>>
    BY <1>2, <2>3
  <2>4. CASE up # <<>> /\ up' = Tail(up)
    BY <1>2, <2>1, <2>4, TailAt DEF Answered, Goal
  <2>5. ASSUME NEW f \in Frame, up' = Append(up, f),
               f.action \in {"read", "send"} \/ entries[f.mid].acknowledged
        PROVE  Goal
    <3>1. (i \in DOMAIN up /\ up'[i] = up[i]) \/ up'[i] = f
      BY <1>2, <2>1, <2>5, AppendedAt
    <3> QED
      BY <1>2, <2>5, <3>1 DEF Answered, Goal
  <2> QED
    BY <2>2, <2>3, <2>4, <2>5, UpShapes
<1>3. ASSUME NEW i \in DOMAIN acks', acks'[i].row = NoRow, acks'[i].mid = m
      PROVE  Goal
  <2>1. acks \in Seq(Ack)
    BY DEF TypeOK
  <2>2. CASE acks' = acks
    BY <1>3, <2>2 DEF Answered, Goal
  <2>3. CASE acks' = <<>>
    BY <1>3, <2>3
  <2>4. CASE acks # <<>> /\ acks' = Tail(acks)
    BY <1>3, <2>1, <2>4, TailAt DEF Answered, Goal
  <2>5. ASSUME NEW a \in Ack, acks' = Append(acks, a), up # <<>>, a.mid = Head(up).mid,
               \/ SocketStores /\ a.row = Len(rows')
               \/ a.row = NoRow /\ Head(up).action = "edit"
               \/ a.row = NoRow /\ Head(up).action = "send" /\ SocketStoreFails
        PROVE  Goal
    <3>1. (i \in DOMAIN acks /\ acks'[i] = acks[i]) \/ acks'[i] = a
      BY <1>3, <2>1, <2>5, AppendedAt
    <3>2. SocketStores => Len(rows') # NoRow
      BY SocketStoresRows DEF RowId, NoRow
    <3>3. 1 \in DOMAIN up /\ Head(up) = up[1]
      BY <2>5, FirstFrame
    <3> QED
      BY <1>3, <2>5, <3>1, <3>2, <3>3 DEF Answered, Goal
  <2> QED
    BY <2>2, <2>3, <2>4, <2>5, AckShapes
<1> QED
  BY <1>1, <1>2, <1>3 DEF Answered, Goal

(* Nothing is answered for that was not sent.                              *)
LEMMA AnsweredSent ==
    ASSUME TypeOK, Fits, NEW m \in Mid, Answered(m)
    PROVE  m <= sends
<1>1. entries[m].acknowledged => m <= sends
  BY DEF Fits, EntriesFit, EntryFits
<1>2. \A i \in DOMAIN up : up[i].action = "edit" => up[i].mid <= sends
  BY DEF Fits, FramesFit, FrameFits
<1>3. \A i \in DOMAIN acks : acks[i].mid <= sends
  BY DEF Fits, AcksFit, AckFits
<1> QED
  BY <1>1, <1>2, <1>3 DEF Answered

(* The first frame, if it is a message, is the only one of it.             *)
LEMMA FirstSend ==
    ASSUME TypeOK, Fits, OInv, up # <<>>, Head(up).action = "send"
    PROVE  /\ Head(up).mid \in Mid /\ RowOf(Head(up).mid) = {} /\ ~Answered(Head(up).mid)
           /\ \A i \in DOMAIN Tail(up) :
                 Tail(up)[i].action = "send" => Tail(up)[i].mid # Head(up).mid
<1>1. up \in Seq(Frame)
  BY DEF TypeOK
<1>2. 1 \in DOMAIN up /\ up[1] = Head(up)
  BY <1>1, TailAt
<1>3. Head(up).mid \in Mid
  BY <1>2 DEF Fits, FramesFit, FrameFits
<1>4. ASSUME NEW i \in DOMAIN Tail(up), Tail(up)[i].action = "send", Tail(up)[i].mid = Head(up).mid
      PROVE  FALSE
  <2>1. i + 1 \in DOMAIN up /\ i + 1 # 1 /\ Tail(up)[i] = up[i + 1]
    BY <1>1, TailAt
  <2> QED
    BY <1>2, <1>4, <2>1 DEF OInv, SendsPending
<1> QED
  BY <1>2, <1>3, <1>4 DEF OInv, SendsPending

LEMMA MidsStep == TypeOK /\ Fits /\ OInv /\ [Next]_vars => MidsOnce'
<1> SUFFICES ASSUME TypeOK, Fits, OInv, [Next]_vars
             PROVE  MidsOnce'
  OBVIOUS
<1>1. RowsGrow /\ MidsOnce
  BY RowsStep DEF OInv
<1>2. CASE OperatorSends
  <2>1. /\ DOMAIN rows' \subseteq Stored \cup {Len(rows')}
        /\ rows'[Len(rows')].mid = NoMid
    BY <1>2, OperatorSendsRows, StoredRows
  <2> QED
    BY <1>1, <2>1 DEF MidsOnce, IsMine, RowsGrow, Stored
<1>3. CASE SocketStores
  <2>1. up # <<>> /\ Head(up).action = "send"
    BY <1>3 DEF SocketStores, Reads
  <2>2. \A r \in Stored : rows[r].mid # Head(up).mid
    BY <2>1, FirstSend DEF RowOf
  <2>3. /\ DOMAIN rows' \subseteq Stored \cup {Len(rows')}
        /\ rows'[Len(rows')].mid = Head(up).mid
    BY <1>3, SocketStoresRows, StoredRows
  <2> QED
    BY <1>1, <2>2, <2>3 DEF MidsOnce, IsMine, RowsGrow, Stored
<1>4. CASE ~OperatorSends /\ ~SocketStores
  <2>1. Stored' = Stored
    BY <1>4, RowsStay
  <2> QED
    BY <1>1, <2>1 DEF MidsOnce, IsMine, RowsGrow
<1> QED
  BY <1>2, <1>3, <1>4

(* What a message has no row of has one only once it is stored.            *)
LEMMA UnstoredStep ==
    ASSUME TypeOK, Fits, OInv, [Next]_vars, NEW m \in Mid, RowOf(m) = {}
    PROVE  \/ RowOf(m)' = {}
           \/ SocketStores /\ up # <<>> /\ Head(up).action = "send" /\ Head(up).mid = m
<1>1. RowsGrow
  BY RowsStep
<1>2. CASE OperatorSends
  <2>1. /\ DOMAIN rows' \subseteq Stored \cup {Len(rows')}
        /\ rows'[Len(rows')].mid = NoMid
    BY <1>2, OperatorSendsRows, StoredRows
  <2> QED
    BY <1>1, <2>1, MidTypes DEF RowOf, RowsGrow, Stored
<1>3. CASE SocketStores
  <2>1. up # <<>> /\ Head(up).action = "send"
    BY <1>3 DEF SocketStores, Reads
  <2>2. /\ DOMAIN rows' \subseteq Stored \cup {Len(rows')}
        /\ rows'[Len(rows')].mid = Head(up).mid
    BY <1>3, SocketStoresRows, StoredRows
  <2> QED
    BY <1>1, <1>3, <2>1, <2>2 DEF RowOf, RowsGrow, Stored
<1>4. CASE ~OperatorSends /\ ~SocketStores
  <2>1. Stored' = Stored
    BY <1>4, RowsStay
  <2> QED
    BY <1>1, <2>1 DEF RowOf, RowsGrow
<1> QED
  BY <1>2, <1>3, <1>4

(* A frame that waits was neither stored nor answered for, before or after *)
(* a step that does not read it.                                           *)
LEMMA FrameWaits ==
    ASSUME TypeOK, Fits, OInv, [Next]_vars, NEW i \in DOMAIN up, up[i].action = "send",
           NEW m \in Mid, m = up[i].mid,
           SocketStep => up # <<>> /\ (Head(up).action = "send" => m # Head(up).mid)
    PROVE  RowOf(m)' = {} /\ ~Answered(m)'
<1>1. RowOf(m) = {} /\ ~Answered(m)
  BY DEF OInv, SendsPending
<1>2. RowOf(m)' = {}
  BY <1>1, UnstoredStep DEF SocketStep
<1>3. ~\E r \in Stored : rows[r].mid = m
  BY <1>1 DEF RowOf
<1> QED
  BY <1>1, <1>2, <1>3, AnsweredStep DEF SocketStep

LEMMA SendsStep == TypeOK /\ Fits /\ OInv /\ [Next]_vars => SendsPending'
<1> SUFFICES ASSUME TypeOK, Fits, OInv, [Next]_vars
             PROVE  SendsPending'
  OBVIOUS
<1>a. up \in Seq(Frame)
  BY DEF TypeOK
<1>b. \A i \in DOMAIN up : up[i].action = "send" => up[i].mid \in Mid
  BY DEF Fits, FramesFit, FrameFits
<1> DEFINE Waits(m) == RowOf(m)' = {} /\ ~Answered(m)'
<1>c. ASSUME \A i \in DOMAIN up' : up'[i].action = "send" =>
                /\ \E m \in Mid : m = up'[i].mid /\ Waits(m)
                /\ \A j \in DOMAIN up' : up'[j].action = "send" /\ up'[j].mid = up'[i].mid => i = j
      PROVE  SendsPending'
  BY <1>c DEF SendsPending, RowOf, Answered
<1> HIDE DEF Waits
<1>1. CASE up' = <<>>
  BY <1>1, <1>c
<1>2. CASE SocketStep /\ up # <<>> /\ up' = Tail(up)
  <2>1. \A i \in DOMAIN Tail(up) :
           /\ i \in Int /\ i + 1 \in DOMAIN up /\ Tail(up)[i] = up[i + 1]
           /\ Tail(up)[i].action = "send" /\ Head(up).action = "send" => Tail(up)[i].mid # Head(up).mid
    BY <1>2, <1>a, TailAt, FirstSend
  <2>2. ASSUME NEW i \in DOMAIN Tail(up), Tail(up)[i].action = "send"
        PROVE  \E m \in Mid : m = Tail(up)[i].mid /\ Waits(m)
    <3>1. PICK m \in Mid : m = up[i + 1].mid
      BY <1>b, <2>1, <2>2
    <3>2. i + 1 \in DOMAIN up /\ up[i + 1].action = "send" /\ m = Tail(up)[i].mid
          /\ (Head(up).action = "send" => m # Head(up).mid)
      BY <2>1, <2>2, <3>1
    <3>3. Waits(m)
      BY <1>2, <3>1, <3>2, FrameWaits DEF Waits
    <3> QED
      BY <3>2, <3>3
  <2>3. ASSUME NEW i \in DOMAIN Tail(up), Tail(up)[i].action = "send",
               NEW j \in DOMAIN Tail(up), Tail(up)[j].action = "send", Tail(up)[j].mid = Tail(up)[i].mid
        PROVE  i = j
    <3>1. i + 1 = j + 1
      BY <2>1, <2>3 DEF OInv, SendsPending
    <3> QED
      BY <2>1, <3>1
  <2> QED
    BY <1>2, <1>c, <2>2, <2>3
<1>3. CASE ~SocketStep
  <2>1. ASSUME NEW i \in DOMAIN up, up[i].action = "send"
        PROVE  \E m \in Mid : m = up[i].mid /\ Waits(m)
    <3>1. PICK m \in Mid : m = up[i].mid
      BY <1>b, <2>1
    <3> QED
      BY <1>3, <2>1, <3>1, FrameWaits DEF Waits
  <2>2. \A i, j \in DOMAIN up :
           up[i].action = "send" /\ up[j].action = "send" /\ up[j].mid = up[i].mid => i = j
    BY DEF OInv, SendsPending
  <2>3. CASE up' = up
    BY <1>c, <2>1, <2>2, <2>3
  <2>4. ASSUME NEW f \in Frame, up' = Append(up, f),
               \/ f.action = "read"
               \/ f.action = "send" /\ f.mid = sends' /\ CustomerSends
               \/ f.action = "edit"
        PROVE  SendsPending'
    <3>1. \A i \in DOMAIN up' : \/ i \in DOMAIN up /\ up'[i] = up[i]
                                \/ i = Len(up) + 1 /\ up'[i] = f
      BY <1>a, <2>4, AppendedAt
    <3>2. CASE f.action # "send"
      BY <1>c, <2>1, <2>2, <3>1, <3>2
    <3>3. CASE f.action = "send"
      <4>1. PICK m \in Mid : m = sends' /\ m = f.mid /\ m = sends + 1
        BY <2>4, <3>3, SendsElements
      <4>2. sends \in Nat /\ ~(m <= sends)
        BY <4>1, Constants DEF TypeOK
      <4>3. \A i \in DOMAIN up : up[i].action = "send" => up[i].mid # m
        BY <4>2 DEF Fits, FramesFit, FrameFits
      <4>4. RowOf(m) = {}
        BY <4>2 DEF RowOf, Fits, RowsSent
      <4>5. ~Answered(m)
        BY <4>2, AnsweredSent
      <4>6. Waits(m)
        <5>1. RowOf(m)' = {}
          BY <1>3, <4>4, UnstoredStep DEF SocketStep
        <5>2. ~\E r \in Stored : rows[r].mid = m
          BY <4>4 DEF RowOf
        <5> QED
          BY <1>3, <4>5, <5>1, <5>2, AnsweredStep DEF Waits, SocketStep
      <4> QED
        BY <1>c, <2>1, <2>2, <3>1, <4>1, <4>3, <4>6
    <3> QED
      BY <3>2, <3>3
  <2> QED
    BY <1>1, <1>3, <2>3, <2>4, UpShapes
<1>4. CASE SocketStep
  <2>1. up # <<>> /\ up' = Tail(up)
    BY <1>4 DEF SocketStep, SocketStores, SocketEdits, SocketStoreFails, SocketReads, Reads, wireVars
  <2> QED
    BY <1>2, <1>4, <2>1
<1> QED
  BY <1>3, <1>4

LEMMA AnsweredRenderedStep == TypeOK /\ Fits /\ OInv /\ [Next]_vars => AnsweredRendered'
<1> SUFFICES ASSUME TypeOK, Fits, OInv, [Next]_vars
             PROVE  AnsweredRendered'
  OBVIOUS
<1> SUFFICES ASSUME NEW r \in Stored', NEW m \in Mid, m = rows'[r].mid, Answered(m)'
             PROVE  r \in renderedIds'
  <2>1. rows' \in Seq(Row)
    BY RowsStep
  <2>2. \A r \in Stored' : rows'[r].mid # NoMid => rows'[r].mid \in Mid
    <3> SUFFICES ASSUME NEW r \in Stored', rows'[r].mid # NoMid
                 PROVE  rows'[r].mid \in Mid
      OBVIOUS
    <3>1. rows'[r] \in Row
      BY <2>1 DEF Stored
    <3> QED
      BY <3>1 DEF Row
  <2>3. \A r \in Stored' : Answered(rows[r].mid)' => \A m \in Mid : m = rows'[r].mid => Answered(m)'
    BY DEF Answered
  <2> QED
    BY <2>2, <2>3 DEF AnsweredRendered, IsMine
<1>1. RowsGrow /\ renderedIds \subseteq renderedIds' /\ NoMid \notin Mid
  BY Growing, MidTypes DEF Grows
<1>2. \/ Answered(m)
      \/ \E q \in Stored : rows[q].mid = m /\ q \in renderedIds'
      \/ SocketStoreFails /\ up # <<>> /\ Head(up).action = "send" /\ Head(up).mid = m
  BY AnsweredStep
<1>3. CASE r \in Stored
  <2>1. rows[r].mid = m /\ IsMine(r)
    BY <1>1, <1>3 DEF RowsGrow, IsMine
  <2>2. Answered(m) => r \in renderedIds'
    BY <1>1, <1>3, <2>1 DEF OInv, AnsweredRendered
  <2>3. \A q \in Stored : rows[q].mid = m => q = r
    BY <1>3, <2>1 DEF OInv, MidsOnce
  <2>4. ~(up # <<>> /\ Head(up).action = "send" /\ Head(up).mid = m)
    BY <1>3, <2>1, FirstSend DEF RowOf
  <2> QED
    BY <1>2, <2>2, <2>3, <2>4
<1>4. CASE r \notin Stored
  <2>1. CASE OperatorSends
    <3>1. DOMAIN rows' \subseteq Stored \cup {Len(rows')} /\ rows'[Len(rows')].mid = NoMid
      BY <2>1, OperatorSendsRows, StoredRows
    <3> QED
      BY <1>1, <1>4, <3>1 DEF Stored
  <2>2. CASE SocketStores
    <3>1. up # <<>> /\ Head(up).action = "send"
      BY <2>2 DEF SocketStores, Reads
    <3>2. DOMAIN rows' \subseteq Stored \cup {Len(rows')} /\ rows'[Len(rows')].mid = Head(up).mid
      BY <2>2, SocketStoresRows, StoredRows
    <3>3. m = Head(up).mid
      BY <1>4, <3>2 DEF Stored
    <3>4. ~Answered(m) /\ RowOf(m) = {}
      BY <3>1, <3>3, FirstSend
    <3>5. ~SocketStoreFails
      BY <2>2, StoredRows, SocketStoresRows DEF SocketStores, SocketStoreFails, tableVars
    <3> QED
      BY <1>2, <3>4, <3>5 DEF RowOf
  <2>3. CASE ~OperatorSends /\ ~SocketStores
    BY <1>4, <2>3, RowsStay
  <2> QED
    BY <2>1, <2>2, <2>3
<1> QED
  BY <1>3, <1>4

LEMMA AcksOfRowsStep == TypeOK /\ Fits /\ OInv /\ [Next]_vars => AcksOfRows'
<1> SUFFICES ASSUME TypeOK, Fits, OInv, [Next]_vars
             PROVE  AcksOfRows'
  OBVIOUS
<1>a. acks \in Seq(Ack) /\ RowsGrow
  BY RowsStep DEF TypeOK
<1>b. \A i \in DOMAIN acks : acks[i].row # NoRow => rows'[acks[i].row].mid = acks[i].mid
  BY <1>a DEF OInv, AcksOfRows, Fits, AcksFit, AckFits, RowsGrow
<1>1. CASE acks' = acks \/ acks' = <<>>
  BY <1>1, <1>b DEF AcksOfRows
<1>2. CASE acks # <<>> /\ acks' = Tail(acks)
  BY <1>2, <1>a, <1>b, TailAt DEF AcksOfRows
<1>3. ASSUME NEW a \in Ack, acks' = Append(acks, a), a.mid = Head(up).mid,
             (SocketStores /\ a.row = Len(rows')) \/ a.row = NoRow
      PROVE  AcksOfRows'
  <2>1. \A i \in DOMAIN acks' : (i \in DOMAIN acks /\ acks'[i] = acks[i]) \/ acks'[i] = a
    BY <1>a, <1>3, AppendedAt
  <2>2. a.row # NoRow => rows'[a.row].mid = a.mid
    BY <1>3, SocketStoresRows
  <2> QED
    BY <1>b, <2>1, <2>2 DEF AcksOfRows
<1> QED
  BY <1>1, <1>2, <1>3, AckShapes

(* The page.  What stays in place keeps its message, and gets an id only   *)
(* of a row that is its message's.                                         *)

PageOnce == BubblesKnown /\ MessagesPending /\ DraftsOnce /\ RowsOnce

LEMMA KnownBubbles ==
    TypeOK /\ OInv => \A i \in DOMAIN dom : dom[i].id \in Stored \cup {NoRow}
  BY DEF TypeOK, OInv, BubblesKnown

LEMMA BubbleMids == TypeOK => \A i \in DOMAIN dom : dom[i].mid \in Nat
<1> SUFFICES ASSUME TypeOK, NEW i \in DOMAIN dom
             PROVE  dom[i].mid \in Nat
  OBVIOUS
<1>1. dom[i] \in Bubble
  BY Bubbles
<1>2. dom[i].mid \in Mid \cup {NoMid}
  BY <1>1 DEF Bubble
<1> QED
  BY <1>2, Constants DEF Mid, NoMid

LEMMA OvertakenGrow == [Next]_vars => overtaken \subseteq overtaken'
  BY DEF Next, OperatorNext, SocketNext, PageNext, vars, historyVars,
     OperatorSends, OperatorEdits, OperatorReads, Connects, IsToldItsChat, IsNotToldItsChat, LoopBegins,
     Disconnects, EventMisses, EventIsDropped, SocketStores, SocketEdits, SocketStoreFails, SocketReads,
     CustomerSends, CustomerEdits, HandlesAck, HandlesEvent, FetchIsAnswered, HistoryIsDrawn, HistoryFails

LEMMA InPlace ==
    ASSUME TypeOK, Fits, OInv, [Next]_vars, Stored' = Stored, DOMAIN dom' = DOMAIN dom,
           \A e \in stream' : e.kind = "message" => e \in stream,
           \A i \in DOMAIN dom :
              /\ dom'[i].mid = dom[i].mid
              /\ \/ dom'[i].id = dom[i].id
                 \/ /\ dom'[i].id \in Stored /\ dom'[i].id \in renderedIds'
                    /\ IsMine(dom'[i].id) /\ rows[dom'[i].id].mid = dom[i].mid
    PROVE  PageOnce'
<1>1. Grows /\ overtaken \subseteq overtaken' /\ sends \in Nat /\ sends' \in Nat
  <2>1. sends \in Nat /\ sends' \in Nat
    BY TypesStep, Constants DEF TypeOK
  <2>2. Grows
    BY Growing
  <2>3. overtaken \subseteq overtaken'
    BY OvertakenGrow
  <2> QED
    BY <2>1, <2>2, <2>3
<1>2. \A r \in Stored : rows'[r].mid = rows[r].mid /\ (IsMine(r)' <=> IsMine(r))
  BY <1>1 DEF Grows, RowsGrow, IsMine
<1>3. BubblesKnown'
  <2>2. \A i \in DOMAIN dom : dom'[i].mid <= sends'
    BY <1>1, BubbleMids DEF OInv, BubblesKnown, Grows
  <2> QED
    BY <1>1, <2>2 DEF OInv, BubblesKnown, Grows
<1>4. MessagesPending'
  <2> SUFFICES ASSUME NEW e \in stream', e.kind = "message"
               PROVE  e.text = 0 /\ (e.row \notin overtaken' => \A i \in DOMAIN dom : dom'[i].id # e.row)
    BY DEF MessagesPending
  <2>1. e.row \in Stored /\ ~IsMine(e.row)
    BY DEF Fits, EventsFit, EventFits
  <2> QED
    BY <1>1, <2>1 DEF OInv, MessagesPending
<1>5. DraftsOnce'
  <2> SUFFICES ASSUME NEW m \in Mid, RowOf(m)' = {}
               PROVE  \A i, j \in DOMAIN dom : dom'[i].mid = m /\ dom'[j].mid = m => i = j
    BY DEF DraftsOnce
  <2>1. RowOf(m) = {}
    BY <1>2 DEF RowOf
  <2> QED
    BY <2>1 DEF OInv, DraftsOnce
<1>6. RowsOnce'
  <2> SUFFICES ASSUME NEW r \in Stored, r \notin overtaken'
               PROVE  \A i, j \in DOMAIN dom : BubbleOf(i, r)' /\ BubbleOf(j, r)' => i = j
    BY DEF RowsOnce
  <2>1. \A i \in DOMAIN dom : BubbleOf(i, r)' => BubbleOf(i, r)
    BY <1>2 DEF BubbleOf
  <2> QED
    BY <1>1, <2>1 DEF OInv, RowsOnce
<1> QED
  BY <1>3, <1>4, <1>5, <1>6 DEF PageOnce

(* A row that is stored below the others has no bubble, but its draft.     *)
LEMMA StoresPageOnce ==
    ASSUME TypeOK, Fits, OInv, [Next]_vars, OperatorSends \/ SocketStores
    PROVE  PageOnce'
<1>1. Grows /\ overtaken \subseteq overtaken' /\ UNCHANGED <<dom, overtaken, sends, renderedIds>>
  BY Growing, OvertakenGrow DEF OperatorSends, SocketStores, domVars, historyVars, countVars
<1>2. \A r \in Stored : rows'[r].mid = rows[r].mid /\ (IsMine(r)' <=> IsMine(r))
  BY <1>1 DEF Grows, RowsGrow, IsMine
<1> DEFINE n == Len(rows')
<1>3. DOMAIN rows' \subseteq Stored \cup {n} /\ n \notin Stored /\ n # NoRow
  BY OperatorSendsRows, SocketStoresRows, StoredRows DEF RowId, NoRow
<1>4. \A i \in DOMAIN dom : dom[i].id # n
  BY <1>3, KnownBubbles
<1>5. BubblesKnown'
  BY <1>1 DEF OInv, BubblesKnown
<1>6. MessagesPending'
  <2>1. ASSUME NEW e \in stream', e \notin stream
        PROVE  e.row = n /\ e.text = 0
    BY <2>1 DEF OperatorSends, SocketStores
  <2>2. \A e \in stream : e.row # n
    BY <1>3 DEF Fits, EventsFit, EventFits
  <2> QED
    BY <1>1, <1>4, <2>1, <2>2 DEF OInv, MessagesPending
<1>7. DraftsOnce'
  <2> SUFFICES ASSUME NEW m \in Mid, RowOf(m)' = {}
               PROVE  \A i, j \in DOMAIN dom : dom'[i].mid = m /\ dom'[j].mid = m => i = j
    BY <1>1 DEF DraftsOnce
  <2>1. RowOf(m) = {}
    BY <1>1, <1>2 DEF RowOf, Grows, RowsGrow, Stored
  <2> QED
    BY <1>1, <2>1 DEF OInv, DraftsOnce
<1>8. ASSUME NEW r \in Stored', r \notin overtaken',
             NEW i \in DOMAIN dom, NEW j \in DOMAIN dom, BubbleOf(i, r)', BubbleOf(j, r)'
      PROVE  i = j
  <2>1. CASE r \in Stored
    <3>1. BubbleOf(i, r) /\ BubbleOf(j, r)
      BY <1>1, <1>2, <1>8, <2>1 DEF BubbleOf
    <3> QED
      BY <1>1, <1>8, <2>1, <3>1 DEF OInv, RowsOnce
  <2>2. CASE r = n
    <3>1. dom[i].mid = rows'[r].mid /\ dom[j].mid = rows'[r].mid /\ rows'[r].mid # NoMid
      BY <1>1, <1>4, <1>8, <2>2 DEF BubbleOf, IsMine
    <3>2. CASE OperatorSends
      BY <2>2, <3>1, <3>2, OperatorSendsRows
    <3>3. CASE SocketStores
      <4>1. Head(up).mid \in Mid /\ RowOf(Head(up).mid) = {}
        BY <3>3, FirstSend DEF SocketStores, Reads
      <4>2. rows'[r].mid = Head(up).mid
        BY <2>2, <3>3, SocketStoresRows
      <4> QED
        BY <3>1, <4>1, <4>2 DEF OInv, DraftsOnce
    <3> QED
      BY <3>2, <3>3
  <2> QED
    BY <1>3, <2>1, <2>2 DEF Stored
<1>9. RowsOnce'
  BY <1>1, <1>8 DEF RowsOnce
<1> QED
  BY <1>5, <1>6, <1>7, <1>9 DEF PageOnce

(* A message that is sent has a new mid.                                   *)
LEMMA SendsPageOnce ==
    ASSUME TypeOK, Fits, OInv, [Next]_vars, CustomerSends
    PROVE  PageOnce'
<1>1. /\ sends' = sends + 1 /\ sends \in Nat /\ sends' \in Mid /\ Stored' = Stored
      /\ UNCHANGED <<rows, stream, renderedIds, overtaken>>
  <2>1. sends' = sends + 1 /\ sends' \in Mid
    BY SendsElements
  <2>2. sends \in Nat
    BY Constants DEF TypeOK
  <2>3. UNCHANGED <<rows, stream, renderedIds, overtaken>>
    BY DEF CustomerSends, tableVars, historyVars
  <2> QED
    BY <2>1, <2>2, <2>3 DEF Stored
<1>2. PICK b : b = [id |-> NoRow, mid |-> sends', text |-> 0, mark |-> "spinner"]
  OBVIOUS
<1>3. b \in Bubble /\ b.id = NoRow /\ b.mid = sends'
  BY <1>1, <1>2, Constants DEF Bubble, Text
<1>4. dom' = Append(dom, b) /\ dom \in Seq(Bubble)
  BY <1>2 DEF CustomerSends, TypeOK
<1>5. \A i \in DOMAIN dom' : \/ i \in DOMAIN dom /\ dom'[i] = dom[i]
                             \/ i = Len(dom) + 1 /\ dom'[i] = b
  BY <1>3, <1>4, AppendedAt
<1>6. \A i \in DOMAIN dom : dom[i].mid \in Nat /\ dom[i].mid <= sends
  <2> SUFFICES ASSUME NEW i \in DOMAIN dom
               PROVE  dom[i].mid \in Nat /\ dom[i].mid <= sends
    OBVIOUS
  <2> QED
    BY BubbleMids DEF OInv, BubblesKnown
<1>7. BubblesKnown'
  BY <1>1, <1>3, <1>5, <1>6 DEF OInv, BubblesKnown
<1>8. MessagesPending'
  <2>1. \A e \in stream : e.kind = "message" => e.row # NoRow
    BY MidTypes DEF Fits, EventsFit, EventFits
  <2> QED
    BY <1>1, <1>3, <1>5, <2>1 DEF OInv, MessagesPending
<1>9. \A i \in DOMAIN dom : dom[i].mid # sends'
  BY <1>1, <1>6
<1>10. DraftsOnce'
  BY <1>1, <1>3, <1>5, <1>9 DEF OInv, DraftsOnce, RowOf
<1>11. RowsOnce'
  <2>1. \A r \in Stored : rows[r].mid # sends' /\ r # NoRow
    BY <1>1, MidTypes DEF Fits, RowsSent
  <2>2. \A r \in Stored : \A i \in DOMAIN dom' : BubbleOf(i, r)' => i \in DOMAIN dom /\ BubbleOf(i, r)
    BY <1>1, <1>3, <1>5, <2>1 DEF BubbleOf, IsMine
  <2> QED
    BY <1>1, <2>2 DEF OInv, RowsOnce
<1> QED
  BY <1>7, <1>8, <1>10, <1>11 DEF PageOnce

(* A message that arrives was pending, unless a load overtook it.          *)
LEMMA MessagePageOnce ==
    ASSUME TypeOK, Fits, OInv, [Next]_vars, NEW e \in stream, HandlesEvent(e), HandlesMessage(e)
    PROVE  PageOnce'
<1>1. /\ stream' = stream \ {e} /\ renderedIds' = renderedIds \cup {e.row}
      /\ UNCHANGED <<rows, overtaken, sends>> /\ Stored' = Stored
  BY DEF HandlesEvent, HandlesMessage, countVars, Stored
<1>2. e \in Event /\ e.kind = "message" /\ e.row \in Stored /\ ~IsMine(e.row) /\ e.text = 0
  BY DEF HandlesMessage, Fits, EventsFit, EventFits, OInv, MessagesPending, TypeOK
<1>3. PICK b : b = [id |-> e.row, mid |-> NoMid, text |-> e.text, mark |-> ""]
  OBVIOUS
<1>4. b \in Bubble /\ b.id = e.row /\ b.mid = NoMid
  BY <1>2, <1>3 DEF Bubble, Event
<1>5. dom' = Append(dom, b) /\ dom \in Seq(Bubble)
  BY <1>3 DEF HandlesMessage, TypeOK
<1>6. \A i \in DOMAIN dom' : \/ i \in DOMAIN dom /\ dom'[i] = dom[i]
                             \/ i = Len(dom) + 1 /\ dom'[i] = b
  BY <1>4, <1>5, AppendedAt
<1>7. BubblesKnown'
  <2>1. NoMid <= sends
    BY Constants DEF TypeOK, NoMid
  <2> QED
    BY <1>1, <1>4, <1>6, <2>1 DEF OInv, BubblesKnown
<1>8. MessagesPending'
  <2>1. ASSUME NEW d \in stream', d.kind = "message"
        PROVE  d.row # e.row
    <3>1. d \in Event /\ d.text = 0 /\ d # e
      BY <1>1, <2>1 DEF OInv, MessagesPending, TypeOK
    <3> QED
      BY <1>2, <2>1, <3>1 DEF Event
  <2> QED
    BY <1>1, <1>4, <1>6, <2>1 DEF OInv, MessagesPending
<1>9. DraftsOnce'
  BY <1>1, <1>4, <1>6, MidTypes DEF OInv, DraftsOnce, RowOf
<1>10. RowsOnce'
  <2>1. \A r \in Stored : IsMine(r) => rows[r].mid # NoMid
    BY DEF IsMine
  <2>2. \A r \in Stored \ {e.row} : \A i \in DOMAIN dom' :
           BubbleOf(i, r)' => i \in DOMAIN dom /\ BubbleOf(i, r)
    BY <1>1, <1>4, <1>6, <2>1 DEF BubbleOf, IsMine
  <2>3. e.row \notin overtaken => \A i \in DOMAIN dom' : BubbleOf(i, e.row)' => i = Len(dom) + 1
    BY <1>1, <1>2, <1>4, <1>6 DEF BubbleOf, IsMine, OInv, MessagesPending
  <2> QED
    BY <1>1, <2>2, <2>3 DEF OInv, RowsOnce
<1> QED
  BY <1>7, <1>8, <1>9, <1>10 DEF PageOnce

(* Where the bubbles of a load are: what was drawn keeps its order, and    *)
(* each entry is a new bubble's or moves with its own.                     *)
EntryAt(bubbles, m, down, shift) ==
    \/ \E j \in DOMAIN bubbles :
          bubbles[j].mid = m /\ entries'[m] = [bubble |-> j + shift, acknowledged |-> TRUE]
    \/ /\ \A j \in DOMAIN bubbles : bubbles[j].mid # m
       /\ entries'[m].acknowledged = entries[m].acknowledged
       /\ entries'[m].bubble = IF entries[m].bubble = 0 THEN 0 ELSE entries[m].bubble + down

DrawnAt(bubbles, down, shift) ==
    /\ \A i \in DOMAIN dom' :
          \/ \E j \in DOMAIN dom : i = j + down /\ dom'[i] = dom[j]
          \/ \E j \in DOMAIN bubbles : i = j + shift /\ dom'[i] = bubbles[j]
    /\ \A j \in DOMAIN dom : j + down \in DOMAIN dom' /\ dom'[j + down] = dom[j]
    /\ \A m \in Mid : EntryAt(bubbles, m, down, shift)

LEMMA DrawsAt ==
    ASSUME TypeOK, NEW bubbles \in Seq(Bubble), Draws(bubbles)
    PROVE  \E down, shift \in Nat : DrawnAt(bubbles, down, shift)
<1>1. dom \in Seq(Bubble) /\ Len(dom) \in Nat /\ Len(bubbles) \in Nat
  BY DEF TypeOK
<1>2. ASSUME NEW s \in Seq(Bubble), NEW t \in Seq(Bubble), NEW i \in DOMAIN (s \o t)
      PROVE  \/ \E j \in DOMAIN s : i = j + 0 /\ (s \o t)[i] = s[j]
             \/ \E j \in DOMAIN t : i = j + Len(s) /\ (s \o t)[i] = t[j]
  <2>1. /\ Len(s \o t) = Len(s) + Len(t) /\ s \o t \in Seq(Bubble)
        /\ \A k \in 1 .. Len(s) + Len(t) : (s \o t)[k] = IF k <= Len(s) THEN s[k] ELSE t[k - Len(s)]
    BY ConcatProperties
  <2>2. i \in 1 .. Len(s) + Len(t) /\ Len(s) \in Nat /\ Len(t) \in Nat
    BY <2>1
  <2>3. CASE i <= Len(s)
    <3>1. i \in DOMAIN s /\ i = i + 0 /\ (s \o t)[i] = s[i]
      BY <2>1, <2>2, <2>3
    <3> QED
      BY <3>1
  <2>4. CASE ~(i <= Len(s))
    <3>1. i - Len(s) \in DOMAIN t /\ i = (i - Len(s)) + Len(s) /\ (s \o t)[i] = t[i - Len(s)]
      BY <2>1, <2>2, <2>4
    <3> QED
      BY <3>1
  <2> QED
    BY <2>3, <2>4
<1>3. ASSUME NEW s \in Seq(Bubble), NEW t \in Seq(Bubble)
      PROVE  /\ \A j \in DOMAIN s : j + 0 \in DOMAIN (s \o t) /\ (s \o t)[j + 0] = s[j]
             /\ \A j \in DOMAIN t : j + Len(s) \in DOMAIN (s \o t) /\ (s \o t)[j + Len(s)] = t[j]
  <2>1. /\ Len(s \o t) = Len(s) + Len(t) /\ s \o t \in Seq(Bubble)
        /\ \A k \in 1 .. Len(s) + Len(t) : (s \o t)[k] = IF k <= Len(s) THEN s[k] ELSE t[k - Len(s)]
    BY ConcatProperties
  <2>2. Len(s) \in Nat /\ Len(t) \in Nat /\ DOMAIN s = 1 .. Len(s) /\ DOMAIN t = 1 .. Len(t)
    OBVIOUS
  <2>3. DOMAIN (s \o t) = 1 .. Len(s) + Len(t)
    BY <2>1, <2>2
  <2> QED
    BY <2>1, <2>2, <2>3
<1>4. ASSUME NEW m \in Mid, NEW down \in Nat, NEW shift \in Nat,
             shift = IF historyLoaded THEN Len(dom) ELSE 0, down = IF historyLoaded THEN 0 ELSE Len(bubbles)
      PROVE  EntryAt(bubbles, m, down, shift)
  <2>1. CASE \E i \in DOMAIN bubbles : bubbles[i].mid = m
    <3>1. /\ (CHOOSE i \in DOMAIN bubbles : bubbles[i].mid = m) \in DOMAIN bubbles
          /\ bubbles[CHOOSE i \in DOMAIN bubbles : bubbles[i].mid = m].mid = m
      BY <2>1
    <3>2. entries'[m] = [bubble |-> (CHOOSE i \in DOMAIN bubbles : bubbles[i].mid = m) + shift,
                         acknowledged |-> TRUE]
      BY <1>4, <2>1 DEF Draws
    <3> QED
      BY <3>1, <3>2 DEF EntryAt
  <2>2. CASE ~\E i \in DOMAIN bubbles : bubbles[i].mid = m
    <3> DEFINE k == entries[m].bubble
    <3>1. entries[m] \in Entry /\ k \in Nat
      BY Entries DEF Entry
    <3>2. PICK n : /\ n = (IF k = 0 \/ historyLoaded THEN k ELSE k + Len(bubbles))
                   /\ entries'[m] = [entries[m] EXCEPT !.bubble = n]
      BY <2>2 DEF Draws
    <3>3. n = IF k = 0 THEN 0 ELSE k + down
      BY <1>1, <1>4, <3>1, <3>2
    <3>4. entries'[m].bubble = n /\ entries'[m].acknowledged = entries[m].acknowledged
      BY <3>1, <3>2 DEF Entry
    <3> QED
      BY <2>2, <3>3, <3>4 DEF EntryAt
  <2> QED
    BY <2>1, <2>2
<1>5. CASE historyLoaded
  <2>1. dom' = dom \o bubbles
    BY <1>5 DEF Draws
  <2>2. \A i \in DOMAIN dom' :
           \/ \E j \in DOMAIN dom : i = j + 0 /\ dom'[i] = dom[j]
           \/ \E j \in DOMAIN bubbles : i = j + Len(dom) /\ dom'[i] = bubbles[j]
    BY <1>1, <1>2, <2>1
  <2>3. \A j \in DOMAIN dom : j + 0 \in DOMAIN dom' /\ dom'[j + 0] = dom[j]
    BY <1>1, <1>3, <2>1
  <2>4. 0 \in Nat /\ Len(dom) \in Nat
    BY <1>1
  <2>5. \A m \in Mid : EntryAt(bubbles, m, 0, Len(dom))
    BY <1>4, <1>5, <2>4
  <2>6. DrawnAt(bubbles, 0, Len(dom))
    BY <2>2, <2>3, <2>5 DEF DrawnAt
  <2> QED
    BY <2>4, <2>6
<1>6. CASE ~historyLoaded
  <2>1. dom' = bubbles \o dom
    BY <1>6 DEF Draws
  <2>2. \A i \in DOMAIN dom' :
           \/ \E j \in DOMAIN dom : i = j + Len(bubbles) /\ dom'[i] = dom[j]
           \/ \E j \in DOMAIN bubbles : i = j + 0 /\ dom'[i] = bubbles[j]
    BY <1>1, <1>2, <2>1
  <2>3. \A j \in DOMAIN dom : j + Len(bubbles) \in DOMAIN dom' /\ dom'[j + Len(bubbles)] = dom[j]
    BY <1>1, <1>3, <2>1
  <2>4. Len(bubbles) \in Nat /\ 0 \in Nat
    BY <1>1
  <2>5. \A m \in Mid : EntryAt(bubbles, m, Len(bubbles), 0)
    BY <1>4, <1>6, <2>4
  <2>6. DrawnAt(bubbles, Len(bubbles), 0)
    BY <2>2, <2>3, <2>5 DEF DrawnAt
  <2> QED
    BY <2>4, <2>6
<1> QED
  BY <1>5, <1>6

(* What was drawn is moved down, and each row that was not rendered has a  *)
(* place of its own, as has its entry.                                     *)
PlacedAt(f, down, at) ==
    LET R == Unrendered(f.found) IN
    /\ \A i \in DOMAIN dom' :
          \/ \E j \in DOMAIN dom : i = j + down /\ dom'[i] = dom[j]
          \/ \E r \in R : i = at[r] /\ dom'[i] = HistoryBubble(r, f.found[r])
    /\ \A j \in DOMAIN dom : j + down \in DOMAIN dom' /\ dom'[j + down] = dom[j]
    /\ \A m \in Mid :
          \/ \E r \in R : /\ f.found[r].mid = m
                          /\ entries'[m].bubble = at[r] /\ entries'[m].acknowledged
          \/ /\ \A r \in R : f.found[r].mid # m
             /\ entries'[m].acknowledged = entries[m].acknowledged
             /\ entries'[m].bubble = IF entries[m].bubble = 0 THEN 0 ELSE entries[m].bubble + down

LEMMA HistoryAt ==
    ASSUME TypeOK, NEW f \in fetches, HistoryIsDrawn(f)
    PROVE  \E down \in Nat, at \in [Unrendered(f.found) -> Int] : PlacedAt(f, down, at)
<1> DEFINE R == Unrendered(f.found)
<1>1. /\ DOMAIN f.found \subseteq Stored /\ R \in SUBSET (1 .. MaxRows)
      /\ \A r \in DOMAIN f.found : f.found[r] \in Row
  <2>1. f.found \in Seq(Row) /\ Len(f.found) <= Len(rows) /\ Len(rows) \in Nat /\ Len(rows) <= MaxRows
    BY DEF TypeOK
  <2>2. DOMAIN f.found = 1 .. Len(f.found) /\ Len(f.found) \in Nat
        /\ \A r \in DOMAIN f.found : f.found[r] \in Row
    BY <2>1
  <2> QED
    BY <2>1, <2>2, StoredRows, Constants DEF Unrendered
<1>2. PICK new \in InOrder(R) : Draws([i \in DOMAIN new |-> HistoryBubble(new[i], f.found[new[i]])])
  BY DEF HistoryIsDrawn
<1> DEFINE bubbles == [i \in DOMAIN new |-> HistoryBubble(new[i], f.found[new[i]])]
           n == Cardinality(R)
<1>3. /\ n \in Nat /\ new \in [1 .. n -> R]
      /\ \A i, j \in 1 .. n : i < j => new[i] < new[j]
  BY <1>1, RowsAreCounted, Constants DEF InOrder
<1>4. ASSUME NEW r \in R
      PROVE  HistoryBubble(r, f.found[r]) \in Bubble
  <2>1. f.found[r] \in Row /\ r \in RowId
    BY <1>1 DEF Unrendered, RowId
  <2> QED
    BY <2>1 DEF HistoryBubble, Bubble, Row
<1>5. bubbles \in [1 .. n -> Bubble]
  BY <1>3, <1>4
<1>6. \A j \in 1 .. n : bubbles[j] = HistoryBubble(new[j], f.found[new[j]])
  BY <1>3
<1>7. Draws(bubbles)
  BY <1>2
<1>8. \A r : HistoryBubble(r, f.found[r]).id = r /\ HistoryBubble(r, f.found[r]).mid = f.found[r].mid
  BY DEF HistoryBubble
<1> HIDE DEF bubbles, R, n
<1>9. bubbles \in Seq(Bubble) /\ DOMAIN bubbles = 1 .. n
  BY <1>3, <1>5, FunctionIsSequence
<1>10. PICK down \in Nat, shift \in Nat : DrawnAt(bubbles, down, shift)
  BY <1>7, <1>9, DrawsAt
<1>11. \A i, j \in 1 .. n : new[i] = new[j] => i = j
  <2> SUFFICES ASSUME NEW i \in 1 .. n, NEW j \in 1 .. n, new[i] = new[j]
               PROVE  i = j
    OBVIOUS
  <2>1. new[i] \in Int /\ new[j] \in Int
    BY <1>1, <1>3, Constants DEF R
  <2> QED
    BY <1>3, <2>1
<1> DEFINE at == [r \in R |-> IF \E j \in 1 .. n : new[j] = r
                              THEN (CHOOSE j \in 1 .. n : new[j] = r) + shift ELSE 0]
<1>12. at \in [R -> Int] /\ \A j \in 1 .. n : at[new[j]] = j + shift
  <2>1. ASSUME NEW j \in 1 .. n
        PROVE  (CHOOSE k \in 1 .. n : new[k] = new[j]) = j
    BY <1>11, <2>1
  <2>2. \A j \in 1 .. n : at[new[j]] = j + shift
    BY <1>3, <2>1
  <2>3. \A r \in R : at[r] \in Int
    <3> SUFFICES ASSUME NEW r \in R PROVE at[r] \in Int
      OBVIOUS
    <3>1. (\E j \in 1 .. n : new[j] = r) => (CHOOSE j \in 1 .. n : new[j] = r) \in 1 .. n
      OBVIOUS
    <3> QED
      BY <1>3, <3>1
  <2> QED
    BY <2>2, <2>3
<1> HIDE DEF at
<1>13. ASSUME NEW i \in DOMAIN dom', NEW j \in DOMAIN bubbles, i = j + shift, dom'[i] = bubbles[j]
       PROVE  \E r \in R : i = at[r] /\ dom'[i] = HistoryBubble(r, f.found[r])
  <2>1. new[j] \in R /\ i = at[new[j]] /\ dom'[i] = HistoryBubble(new[j], f.found[new[j]])
    BY <1>3, <1>6, <1>9, <1>12, <1>13
  <2> QED
    BY <2>1
<1>14. \A i \in DOMAIN dom' :
          \/ \E j \in DOMAIN dom : i = j + down /\ dom'[i] = dom[j]
          \/ \E r \in R : i = at[r] /\ dom'[i] = HistoryBubble(r, f.found[r])
  BY <1>10, <1>13 DEF DrawnAt
<1>15. ASSUME NEW m \in Mid, NEW j \in DOMAIN bubbles, bubbles[j].mid = m,
              entries'[m] = [bubble |-> j + shift, acknowledged |-> TRUE]
       PROVE  \E r \in R : f.found[r].mid = m /\ entries'[m].bubble = at[r] /\ entries'[m].acknowledged
  <2>1. new[j] \in R /\ bubbles[j] = HistoryBubble(new[j], f.found[new[j]]) /\ at[new[j]] = j + shift
    BY <1>3, <1>6, <1>9, <1>12
  <2>2. f.found[new[j]].mid = m
    BY <1>8, <1>15, <2>1
  <2> QED
    BY <1>15, <2>1, <2>2
<1>16. ASSUME NEW r \in R
       PROVE  \E j \in DOMAIN bubbles : bubbles[j].mid = f.found[r].mid
  <2>1. IsFiniteSet(R)
    BY <1>1, RowsAreCounted, Constants
  <2>2. PICK j \in 1 .. n : new[j] = r
    BY <1>3, <1>11, <2>1, AllAreListed DEF n
  <2> QED
    BY <1>6, <1>8, <1>9, <2>2
<1>17. ASSUME NEW m \in Mid
       PROVE  \/ \E r \in R :
                    /\ f.found[r].mid = m
                    /\ entries'[m].bubble = at[r] /\ entries'[m].acknowledged
              \/ /\ \A r \in R : f.found[r].mid # m
                 /\ entries'[m].acknowledged = entries[m].acknowledged
                 /\ entries'[m].bubble = IF entries[m].bubble = 0 THEN 0 ELSE entries[m].bubble + down
  <2>1. CASE \E j \in DOMAIN bubbles :
                bubbles[j].mid = m /\ entries'[m] = [bubble |-> j + shift, acknowledged |-> TRUE]
    BY <1>15, <2>1
  <2>2. CASE /\ \A j \in DOMAIN bubbles : bubbles[j].mid # m
             /\ entries'[m].acknowledged = entries[m].acknowledged
             /\ entries'[m].bubble = IF entries[m].bubble = 0 THEN 0 ELSE entries[m].bubble + down
    <3>1. \A r \in R : f.found[r].mid # m
      BY <1>16, <2>2
    <3> QED
      BY <2>2, <3>1
  <2> QED
    BY <1>10, <2>1, <2>2 DEF DrawnAt, EntryAt
<1>18. PlacedAt(f, down, at)
  BY <1>10, <1>14, <1>17 DEF PlacedAt, DrawnAt, R
<1> QED
  BY <1>12, <1>18 DEF R

(* A load draws what is not rendered; whatever it draws twice is overtaken. *)
LEMMA HistoryPageOnce ==
    ASSUME TypeOK, Fits, OInv, [Next]_vars, NEW f \in fetches, HistoryIsDrawn(f)
    PROVE  PageOnce'
<1> DEFINE R == Unrendered(f.found)
<1>1. /\ renderedIds' = renderedIds \cup R /\ overtaken \subseteq overtaken'
      /\ \A r \in R : \/ IsMine(r) /\ ~entries[rows[r].mid].acknowledged
                      \/ \E e \in stream : e.kind = "message" /\ e.row = r
                      => r \in overtaken'
      /\ UNCHANGED <<rows, stream, sends>> /\ Stored' = Stored
  BY DEF HistoryIsDrawn, tableVars, countVars, Stored
<1>2. \A r \in R : r \in Stored /\ r \notin renderedIds /\ f.found[r].mid = rows[r].mid
  <2>1. DOMAIN f.found = 1 .. Len(f.found) /\ Len(f.found) \in Nat /\ Len(f.found) <= Len(rows)
    BY DEF TypeOK
  <2> QED
    BY <2>1, StoredRows DEF Unrendered, Fits, AnswersFit, AnswerFits
<1> HIDE DEF R
<1>3. PICK down \in Nat, at \in [R -> Int] : \A i \in DOMAIN dom' :
         \/ \E j \in DOMAIN dom : i = j + down /\ dom'[i] = dom[j]
         \/ \E r \in R : i = at[r] /\ dom'[i].id = r /\ dom'[i].mid = rows[r].mid
  <2>1. PICK down \in Nat, at \in [R -> Int] : PlacedAt(f, down, at)
    BY HistoryAt DEF R
  <2>2. \A r : HistoryBubble(r, f.found[r]).id = r /\ HistoryBubble(r, f.found[r]).mid = f.found[r].mid
    BY DEF HistoryBubble
  <2>3. \A i \in DOMAIN dom' :
           \/ \E j \in DOMAIN dom : i = j + down /\ dom'[i] = dom[j]
           \/ \E r \in R : i = at[r] /\ dom'[i] = HistoryBubble(r, f.found[r])
    BY <2>1 DEF PlacedAt, R
  <2> QED
    BY <1>2, <2>2, <2>3
<1> DEFINE Old(i, j) == j \in DOMAIN dom /\ i = j + down /\ dom'[i] = dom[j]
           New(i, r) == r \in R /\ i = at[r] /\ dom'[i].id = r /\ dom'[i].mid = rows[r].mid
<1>4. \A i \in DOMAIN dom' : (\E j : Old(i, j)) \/ (\E r : New(i, r))
  BY <1>3
<1>5. \A i, k, j : Old(i, j) /\ Old(k, j) => i = k
  OBVIOUS
<1>6. \A i, k, r : New(i, r) /\ New(k, r) => i = k
  OBVIOUS
<1>7. \A i, j : Old(i, j) => j \in DOMAIN dom /\ dom'[i] = dom[j]
  OBVIOUS
<1>8. \A i, r : New(i, r) => r \in R /\ r \in Stored /\ dom'[i].id = r /\ dom'[i].mid = rows[r].mid
  BY <1>2
<1> HIDE DEF Old, New
<1>9. BubblesKnown'
  BY <1>1, <1>4, <1>7, <1>8 DEF OInv, BubblesKnown, Fits, RowsSent
<1>10. MessagesPending'
  <2> SUFFICES ASSUME NEW e \in stream, e.kind = "message", e.row \notin overtaken',
                      NEW i \in DOMAIN dom'
               PROVE  dom'[i].id # e.row
    BY <1>1 DEF OInv, MessagesPending
  <2>1. e.row \notin R /\ e.row \notin overtaken
    BY <1>1
  <2> QED
    BY <1>4, <1>7, <1>8, <2>1 DEF OInv, MessagesPending
<1>11. DraftsOnce'
  <2> SUFFICES ASSUME NEW m \in Mid, RowOf(m)' = {}, NEW i \in DOMAIN dom', NEW k \in DOMAIN dom',
                      dom'[i].mid = m, dom'[k].mid = m
               PROVE  i = k
    BY DEF DraftsOnce
  <2>1. RowOf(m) = {}
    BY <1>1 DEF RowOf
  <2>2. \A j, r : New(j, r) => dom'[j].mid # m
    BY <1>8, <2>1 DEF RowOf
  <2>3. PICK j, l : Old(i, j) /\ Old(k, l)
    BY <1>4, <2>2
  <2>4. j = l
    BY <1>7, <2>1, <2>3 DEF OInv, DraftsOnce
  <2> QED
    BY <1>5, <2>3, <2>4
<1>12. RowsOnce'
  <2> SUFFICES ASSUME NEW r \in Stored, r \notin overtaken', NEW i \in DOMAIN dom', NEW k \in DOMAIN dom',
                      BubbleOf(i, r)', BubbleOf(k, r)'
               PROVE  i = k
    BY <1>1 DEF RowsOnce
  <2>1. \A j, l : Old(j, l) /\ BubbleOf(j, r)' => l \in DOMAIN dom /\ BubbleOf(l, r)
    BY <1>1, <1>7 DEF BubbleOf, IsMine
  <2>2. \A j, q : New(j, q) /\ BubbleOf(j, r)' => q = r
    BY <1>1, <1>8 DEF BubbleOf, IsMine, OInv, MidsOnce
  <2>3. CASE r \in R
    <3>1. ASSUME NEW l \in DOMAIN dom, BubbleOf(l, r)
          PROVE  FALSE
      <4>1. dom[l].id # r
        BY <1>2, <2>3, <3>1, MidTypes DEF OInv, BubblesKnown
      <4>2. IsMine(r) /\ dom[l].mid = rows[r].mid
        BY <3>1, <4>1 DEF BubbleOf
      <4>3. entries[rows[r].mid].acknowledged
        BY <1>1, <2>3, <4>2
      <4>4. r \in renderedIds
        BY <4>2, <4>3 DEF OInv, AnsweredRendered, Answered
      <4> QED
        BY <1>2, <2>3, <4>4
    <3>2. New(i, r) /\ New(k, r)
      BY <1>4, <2>1, <2>2, <3>1
    <3> QED
      BY <1>6, <3>2
  <2>4. CASE r \notin R
    <3>1. PICK j, l : Old(i, j) /\ Old(k, l)
      BY <1>4, <1>8, <2>2, <2>4
    <3>2. j = l
      BY <1>1, <2>1, <3>1 DEF OInv, RowsOnce
    <3> QED
      BY <1>5, <3>1, <3>2
  <2> QED
    BY <2>3, <2>4
<1> QED
  BY <1>9, <1>10, <1>11, <1>12 DEF PageOnce

(* An ack puts its row's id on the bubble of its message.                  *)
LEMMA AckPageOnce ==
    ASSUME TypeOK, Fits, OInv, [Next]_vars, HandlesAck
    PROVE  PageOnce'
<1>1. PICK a : a = Head(acks)
  OBVIOUS
<1>2. acks # <<>> /\ UNCHANGED <<rows, stream>> /\ Stored' = Stored
  BY DEF HandlesAck, tableVars, Stored
<1>3. 1 \in DOMAIN acks /\ a = acks[1] /\ a \in Ack
  BY <1>1, <1>2, FirstAck
<1>4. a.row \in Stored \cup {NoRow}
  BY <1>3 DEF Fits, AcksFit, AckFits
<1>5. a.row # NoRow => a.row \in Stored /\ rows[a.row].mid = a.mid /\ IsMine(a.row) /\ a.row \in renderedIds'
  <2>1. a.mid \in Mid
    BY <1>3 DEF Ack
  <2>2. a.row # NoRow => a.row \in Stored /\ rows[a.row].mid = a.mid
    BY <1>3, <1>4 DEF OInv, AcksOfRows
  <2>3. a.row # NoRow => a.row \in renderedIds'
    BY <1>1 DEF HandlesAck, Rendered
  <2> QED
    BY <2>1, <2>2, <2>3, MidTypes
<1> DEFINE k == entries[a.mid].bubble
<1>6. /\ DOMAIN dom' = DOMAIN dom
      /\ \A i \in DOMAIN dom :
            /\ dom'[i].mid = dom[i].mid
            /\ i # k => dom'[i] = dom[i]
            /\ i = k => dom'[i].id = IF a.row = NoRow THEN dom[i].id ELSE a.row
  BY <1>1, <1>4, AckElements
<1>7. k \in DOMAIN dom => dom[k].mid = a.mid
  <2>1. a.mid \in Mid /\ (k \in DOMAIN dom => k # 0)
    BY <1>3, Bubbles DEF Ack
  <2> QED
    BY <2>1 DEF Fits, EntriesFit, EntryFits, Pointed
<1> HIDE DEF k
<1>8. \A i \in DOMAIN dom :
         /\ dom'[i].mid = dom[i].mid
         /\ \/ dom'[i].id = dom[i].id
            \/ /\ dom'[i].id \in Stored /\ dom'[i].id \in renderedIds'
               /\ IsMine(dom'[i].id) /\ rows[dom'[i].id].mid = dom[i].mid
  BY <1>5, <1>6, <1>7
<1> QED
  BY <1>2, <1>6, <1>8, InPlace

LEMMA PageStep == TypeOK /\ Fits /\ OInv /\ [Next]_vars => PageOnce'
<1> SUFFICES ASSUME TypeOK, Fits, OInv, [Next]_vars
             PROVE  PageOnce'
  OBVIOUS
<1>1. CASE ~OperatorSends /\ ~SocketStores
  <2>1. Stored' = Stored
    BY <1>1, RowsStay
  <2>2. CASE UNCHANGED dom /\ \A e \in stream' : e.kind = "message" => e \in stream
    BY <2>1, <2>2, InPlace
  <2>3. CASE OperatorNext \/ SocketNext \/ UNCHANGED vars
    <3>1. UNCHANGED dom
      BY <2>3 DEF OperatorNext, SocketNext, vars, domVars, OperatorSends, OperatorEdits, OperatorReads,
       Connects, IsToldItsChat, IsNotToldItsChat, LoopBegins, Disconnects, EventMisses, EventIsDropped,
       SocketStores, SocketEdits, SocketStoreFails, SocketReads
    <3>2. \A e \in stream' : e.kind = "message" => e \in stream
      <4>1. ASSUME NEW r, OperatorEdits(r)
            PROVE  \A e \in stream' : e.kind = "message" => e \in stream
        BY <4>1 DEF OperatorEdits
      <4>2. ASSUME NEW r, OperatorReads(r)
            PROVE  \A e \in stream' : e.kind = "message" => e \in stream
        BY <4>2 DEF OperatorReads
      <4>3. CASE SocketEdits
        BY <4>3 DEF SocketEdits
      <4>4. CASE SocketReads \/ SocketStoreFails
        BY <4>4 DEF SocketReads, SocketStoreFails, tableVars
      <4>5. CASE \E e \in stream : EventMisses(e) \/ EventIsDropped(e)
        BY <4>5 DEF EventMisses, EventIsDropped
      <4>6. CASE Connects \/ IsToldItsChat \/ IsNotToldItsChat \/ LoopBegins \/ Disconnects
                 \/ UNCHANGED vars
        BY <4>6 DEF Connects, IsToldItsChat, IsNotToldItsChat, LoopBegins, Disconnects, vars, tableVars
      <4> QED
        BY <1>1, <2>3, <4>1, <4>2, <4>3, <4>4, <4>5, <4>6 DEF OperatorNext, SocketNext
    <3> QED
      BY <2>2, <3>1, <3>2
  <2>4. CASE CustomerSends
    BY <2>4, SendsPageOnce
  <2>5. ASSUME NEW m \in Mid, CustomerEdits(m)
        PROVE  PageOnce'
    BY <2>1, <2>5, EditsElements, InPlace DEF CustomerEdits, tableVars
  <2>6. CASE HandlesAck
    BY <2>6, AckPageOnce
  <2>7. ASSUME NEW e \in stream, HandlesEvent(e)
        PROVE  PageOnce'
    <3>1. CASE HandlesMessage(e)
      BY <2>7, <3>1, MessagePageOnce
    <3>2. CASE HandlesUpdate(e)
      BY <2>1, <2>7, <3>2, UpdateElements, InPlace DEF HandlesEvent
    <3> QED
      BY <2>7, <3>1, <3>2 DEF HandlesEvent
  <2>8. ASSUME NEW f \in fetches, HistoryIsDrawn(f)
        PROVE  PageOnce'
    BY <2>8, HistoryPageOnce
  <2>9. ASSUME NEW f \in fetches, FetchIsAnswered(f) \/ HistoryFails(f)
        PROVE  PageOnce'
    BY <2>2, <2>9 DEF FetchIsAnswered, HistoryFails, domVars, tableVars
  <2> QED
    BY <2>3, <2>4, <2>5, <2>6, <2>7, <2>8, <2>9 DEF Next, PageNext
<1>2. CASE OperatorSends \/ SocketStores
  BY <1>2, StoresPageOnce
<1> QED
  BY <1>1, <1>2

(* What is told apart is counted.                                          *)
LEMMA AtMostOne ==
    ASSUME NEW S, \A i, j \in S : i = j
    PROVE  Cardinality(S) <= 1
<1>1. CASE S = {}
  BY <1>1, FS_EmptySet
<1>2. ASSUME NEW i \in S
      PROVE  Cardinality(S) <= 1
  <2>1. S = {i}
    BY <1>2
  <2>2. Cardinality({i}) = 1
    BY FS_Singleton, Zenon
  <2> QED
    BY <2>1, <2>2
<1> QED
  BY <1>1, <1>2

LEMMA OnceHolds == Spec => []OInv
<1>1. Init => OInv
  BY DEF Init, OInv, BubblesKnown, MidsOnce, SendsPending, AnsweredRendered, Answered, AcksOfRows,
         MessagesPending, DraftsOnce, RowsOnce, Stored, NoEntry, IsMine
<1>2. IInv /\ OInv /\ [Next]_vars => OInv'
  BY MidsStep, SendsStep, AnsweredRenderedStep, AcksOfRowsStep, PageStep DEF IInv, OInv, PageOnce
<1> QED
  BY <1>1, <1>2, Holds, PTL DEF Spec

(* However often the tab reconnects and loads its history, and whatever    *)
(* overtakes what, a message of which no load came before its ack or its   *)
(* event has one bubble (widget.html renderedIds).                         *)
THEOREM DrawnOnce == Spec => []OnceUnlessOvertaken
<1>1. OInv => OnceUnlessOvertaken
  <2> SUFFICES ASSUME OInv, NEW r \in Stored \ overtaken
               PROVE  Cardinality({i \in DOMAIN dom : dom[i].id = r \/ (IsMine(r) /\ dom[i].mid = rows[r].mid)}) <= 1
    BY DEF OnceUnlessOvertaken
  <2> DEFINE S == {i \in DOMAIN dom : dom[i].id = r \/ (IsMine(r) /\ dom[i].mid = rows[r].mid)}
  <2>1. \A i, j \in S : i = j
    BY DEF OInv, RowsOnce, BubbleOf
  <2> HIDE DEF S
  <2>2. Cardinality(S) <= 1
    BY <2>1, AtMostOne
  <2> QED
    BY <2>2 DEF S
<1> QED
  BY <1>1, OnceHolds, PTL

-----------------------------------------------------------------------------
(* What a bubble shows settles on what the table has: what the table, the  *)
(* wire and the page have to agree on for it.                              *)

EditOf(r) == [kind |-> "edit", row |-> r, text |-> rows[r].text]
ReadOf(r) == [kind |-> "read", row |-> r, text |-> 0]

(* A text that is the row's, or will be replaced by it.                    *)
Current(r, text) == text = rows[r].text \/ EditOf(r) \in stream

IsFirst(i) == \A j \in 1 .. i - 1 : dom[j].id # dom[i].id

(* An edit or its ack that is under way.                                   *)
EditFrames(m) == {i \in DOMAIN up : up[i].action = "edit" /\ up[i].mid = m}
EditAcks(m) == {i \in DOMAIN acks : acks[i].row = NoRow /\ acks[i].mid = m}

(* The last of a row's events brings what the table has.                   *)
EventsInOrder ==
    \A e \in stream :
        /\ e.kind = "message" => e.text = 0 /\ Current(e.row, 0)
        /\ e.kind = "edit" => /\ ~IsMine(e.row) /\ EditOf(e.row) \in stream
                              /\ 0 < e.text /\ e.text <= rows[e.row].text
        /\ e.kind = "read" => IsMine(e.row) /\ e = ReadOf(e.row)

TextsCounted == \A r \in Stored : ~IsMine(r) => rows[r].text <= edits

FoundCurrent ==
    \A f \in fetches : \A r \in DOMAIN f.found \ (renderedIds \cup stale) :
        Current(r, f.found[r].text)

RepliesCurrent ==
    \A i \in DOMAIN dom :
        dom[i].id \in Stored \ stale /\ ~IsMine(dom[i].id) /\ IsFirst(i) =>
            Current(dom[i].id, dom[i].text)

IdsOfRows == \A i \in DOMAIN dom : dom[i].id \in Stored => dom[i].mid = rows[dom[i].id].mid

(* An own row has one bubble with its id, the entry's.                     *)
OwnBubbles ==
    \A i \in DOMAIN dom : dom[i].id \in Stored /\ dom[i].mid \in Mid => entries[dom[i].mid].bubble = i

(* What was not answered for was not edited.                               *)
RowsPlain == \A r \in Stored \ renderedIds : IsMine(r) => rows[r].text = 0
DraftsPlain ==
    \A i \in DOMAIN dom : dom[i].mid \in Mid \ unstored /\ dom[i].id = NoRow => dom[i].text = 0

EditsNoted ==
    \A m \in Mid : /\ EditFrames(m) # {} => m \in edited
                   /\ EditAcks(m) # {} => m \in edited \cup unstored

(* An own bubble shows what the table has, or what an edit that is under   *)
(* way makes of it; one edit of a message is under way at a time.          *)
OwnShows(i, m) ==
    /\ entries[m].acknowledged => /\ dom[i].text = rows[dom[i].id].text
                                  /\ EditFrames(m) = {} /\ EditAcks(m) = {}
    /\ \A k \in EditFrames(m) :
          up[k].text = dom[i].text /\ EditAcks(m) = {} /\ \A l \in EditFrames(m) : l = k
    /\ \A k \in EditAcks(m) :
          dom[i].text = rows[dom[i].id].text /\ \A l \in EditAcks(m) : l = k

OwnCurrent ==
    \A i \in DOMAIN dom : \A m \in Mid \ unstored :
        dom[i].id \in Stored \ (stale \cup late) /\ dom[i].mid = m => OwnShows(i, m)

ReadsCome ==
    \A r \in Stored \ (renderedIds \cup stale) : IsMine(r) /\ rows[r].read => ReadOf(r) \in stream

MarksCurrent ==
    \A i \in DOMAIN dom :
        /\ dom[i].id \in Stored \ (stale \cup late)
        /\ dom[i].mid \in Mid \ (edited \cup unstored)
        /\ rows[dom[i].id].read
        => dom[i].mark = "two" \/ ReadOf(dom[i].id) \in stream

SInv ==
    /\ EventsInOrder /\ TextsCounted /\ FoundCurrent /\ RepliesCurrent /\ IdsOfRows /\ OwnBubbles
    /\ RowsPlain /\ DraftsPlain /\ EditsNoted /\ OwnCurrent /\ ReadsCome /\ MarksCurrent

(* What a step does to a row's text, and to whether it was read.           *)
LEMMA RowTexts ==
    ASSUME TypeOK, Fits, [Next]_vars, NEW r \in Stored
    PROVE  /\ r \in Stored' /\ rows'[r].mid = rows[r].mid /\ (IsMine(r)' <=> IsMine(r))
           /\ \/ rows'[r].text = rows[r].text
              \/ /\ OperatorEdits(r) /\ ~IsMine(r) /\ rows'[r].text = edits + 1 /\ edits' = edits + 1
                 /\ EditOf(r)' \in stream'
              \/ SocketEdits /\ up # <<>> /\ rows[r].mid = Head(up).mid /\ rows'[r].text = Head(up).text
           /\ \/ rows'[r].read = rows[r].read
              \/ IsMine(r) /\ ReadOf(r) \in stream'
              \/ ~IsMine(r)
<1>1. RowsGrow /\ Stored \subseteq Stored'
  BY RowsStep
<1>2. r \in Stored' /\ rows'[r].mid = rows[r].mid /\ (IsMine(r)' <=> IsMine(r))
  BY <1>1 DEF RowsGrow, IsMine
<1>3. rows[r] \in Row
  BY StoredRows
<1>4. CASE OperatorSends
  BY <1>2, <1>4, OperatorSendsRows
<1>5. ASSUME NEW q \in Stored, OperatorEdits(q)
      PROVE  /\ \/ rows'[r].text = rows[r].text
                \/ /\ OperatorEdits(r) /\ ~IsMine(r) /\ rows'[r].text = edits + 1 /\ edits' = edits + 1
                   /\ EditOf(r)' \in stream'
             /\ rows'[r].read = rows[r].read
  <2>1. rows'[r].read = rows[r].read
    BY <1>5, OperatorEditsRows
  <2>2. CASE q = r
    <3>1. rows'[r].text = edits + 1 /\ edits' = edits + 1
      BY <1>3, <1>5, <2>2 DEF OperatorEdits, Row, Stored
    <3>2. EditOf(r)' \in stream'
      BY <1>5, <2>2, <3>1 DEF OperatorEdits, EditOf
    <3> QED
      BY <1>5, <2>1, <2>2, <3>1, <3>2 DEF OperatorEdits
  <2>3. CASE q # r
    <3>1. rows'[r] = rows[r]
      BY <1>5, <2>3 DEF OperatorEdits, Stored
    <3> QED
      BY <3>1
  <2> QED
    BY <2>2, <2>3
<1>6. ASSUME NEW q \in Stored, OperatorReads(q)
      PROVE  /\ rows'[r].text = rows[r].text
             /\ \/ rows'[r].read = rows[r].read
                \/ IsMine(r) /\ ReadOf(r) \in stream'
  <2> DEFINE R == {s \in Stored : s <= q /\ IsMine(s) /\ ~rows[s].read}
  <2>1. /\ rows' = MarkRead(R)
        /\ stream' = stream \cup {[kind |-> "read", row |-> s, text |-> 0] : s \in R}
    BY <1>6 DEF OperatorReads
  <2>2. rows'[r] = IF r \in R THEN [rows[r] EXCEPT !.read = TRUE] ELSE rows[r]
    BY <2>1 DEF MarkRead
  <2>3. r \in R => ReadOf(r) \in stream' /\ IsMine(r)
    BY <2>1 DEF ReadOf
  <2> HIDE DEF R
  <2> QED
    BY <1>3, <2>2, <2>3 DEF Row
<1>7. CASE SocketStores
  BY <1>2, <1>7, SocketStoresRows
<1>8. CASE SocketEdits
  <2>1. up # <<>> /\ rows'[r] = IF r \in RowOf(Head(up).mid) THEN [rows[r] EXCEPT !.text = Head(up).text]
                                ELSE rows[r]
    BY <1>8 DEF SocketEdits, Reads
  <2> QED
    BY <1>2, <1>3, <1>8, <2>1 DEF RowOf, Row
<1>9. CASE SocketReads
  <2>1. \/ rows'[r] = rows[r]
        \/ rows'[r] = IF r \in {s \in Stored : s <= Head(up).row /\ ~IsMine(s)}
                      THEN [rows[r] EXCEPT !.read = TRUE] ELSE rows[r]
    BY <1>9 DEF SocketReads, MarkRead
  <2> QED
    BY <1>2, <1>3, <2>1 DEF Row
<1>10. CASE UNCHANGED rows
  BY <1>2, <1>10
<1>11. CASE \/ Connects \/ IsToldItsChat \/ IsNotToldItsChat \/ LoopBegins \/ Disconnects
            \/ SocketStoreFails \/ PageNext \/ UNCHANGED vars
            \/ \E e \in stream : EventMisses(e) \/ EventIsDropped(e)
  BY <1>10, <1>11 DEF Connects, IsToldItsChat, IsNotToldItsChat, LoopBegins, Disconnects, SocketStoreFails,
              EventMisses, EventIsDropped, PageNext, CustomerSends, CustomerEdits, HandlesAck,
              HandlesEvent, FetchIsAnswered, HistoryIsDrawn, HistoryFails, tableVars, vars
<1> QED
  BY <1>2, <1>4, <1>5, <1>6, <1>7, <1>8, <1>9, <1>11 DEF Next, OperatorNext, SocketNext

(* What comes into the stream.                                             *)
LEMMA StreamGains ==
    ASSUME TypeOK, Fits, [Next]_vars, NEW e \in stream', e \notin stream
    PROVE  \/ /\ OperatorSends /\ e.kind = "message" /\ e.row = Len(rows') /\ e.text = 0
           \/ \E r \in Stored : OperatorEdits(r) /\ e = EditOf(r)'
           \/ \E r \in Stored : IsMine(r) /\ e = ReadOf(r)
<1>1. CASE OperatorSends
  BY <1>1 DEF OperatorSends
<1>2. ASSUME NEW r \in Stored, OperatorEdits(r)
      PROVE  e = EditOf(r)'
  <2>1. rows'[r].text = edits'
    BY <1>2, StoredRows DEF OperatorEdits, Row, Stored
  <2> QED
    BY <1>2, <2>1 DEF OperatorEdits, EditOf
<1>3. ASSUME NEW r \in Stored, OperatorReads(r)
      PROVE  \E s \in Stored : IsMine(s) /\ e = ReadOf(s)
  <2>1. PICK s \in {s \in Stored : s <= r /\ IsMine(s) /\ ~rows[s].read} :
                e = [kind |-> "read", row |-> s, text |-> 0]
    BY <1>3 DEF OperatorReads
  <2> QED
    BY <2>1 DEF ReadOf
<1>4. CASE \E d \in stream : EventMisses(d) \/ EventIsDropped(d) \/ HandlesEvent(d)
  BY <1>4 DEF EventMisses, EventIsDropped, HandlesEvent
<1>5. CASE \/ Connects \/ IsToldItsChat \/ IsNotToldItsChat \/ LoopBegins \/ Disconnects
           \/ SocketStores \/ SocketEdits \/ SocketStoreFails \/ SocketReads \/ CustomerSends
           \/ HandlesAck \/ UNCHANGED vars
           \/ \E m \in Mid : CustomerEdits(m)
           \/ \E f \in fetches : FetchIsAnswered(f) \/ HistoryIsDrawn(f) \/ HistoryFails(f)
  <2>1. UNCHANGED stream
    BY <1>5 DEF Connects, IsToldItsChat, IsNotToldItsChat, LoopBegins, Disconnects,
         SocketStores, SocketEdits, SocketStoreFails, SocketReads, CustomerSends, CustomerEdits, HandlesAck,
         FetchIsAnswered, HistoryIsDrawn, HistoryFails, tableVars, vars
  <2> QED
    BY <2>1
<1> QED
  BY <1>1, <1>2, <1>3, <1>4, <1>5 DEF Next, OperatorNext, SocketNext, PageNext

(* What leaves it is handled, or its row is stale.                         *)
LEMMA StreamLoses ==
    ASSUME TypeOK, Fits, [Next]_vars, NEW e \in stream, e \notin stream'
    PROVE  /\ MayArrive(e) /\ stream' = stream \ {e} /\ UNCHANGED <<rows, edits, fetches>>
           /\ \/ e.kind = "message"
              \/ e.row \in stale'
              \/ HandlesEvent(e) /\ HandlesUpdate(e) /\ FirstOf(e.row) # {}
<1>1. ASSUME NEW d \in stream, EventMisses(d) \/ EventIsDropped(d)
      PROVE  /\ MayArrive(e) /\ stream' = stream \ {e} /\ UNCHANGED <<rows, edits, fetches>>
             /\ e.kind = "message" \/ e.row \in stale'
  BY <1>1 DEF EventMisses, EventIsDropped, Passes, loadVars, countVars
<1>2. ASSUME NEW d \in stream, HandlesEvent(d)
      PROVE  /\ MayArrive(e) /\ stream' = stream \ {e} /\ UNCHANGED <<rows, edits, fetches>>
             /\ \/ e.kind = "message"
                \/ e.row \in stale'
                \/ HandlesEvent(e) /\ HandlesUpdate(e) /\ FirstOf(e.row) # {}
  <2>1. d = e /\ MayArrive(e) /\ stream' = stream \ {e} /\ UNCHANGED <<rows, edits, fetches>>
    BY <1>2 DEF HandlesEvent, loadVars, countVars
  <2> QED
    BY <1>2, <2>1 DEF HandlesEvent, HandlesMessage, HandlesUpdate
<1>3. CASE \/ OperatorSends \/ \E r \in Stored : OperatorEdits(r) \/ OperatorReads(r)
  BY <1>3 DEF OperatorSends, OperatorEdits, OperatorReads
<1>4. CASE \/ Connects \/ IsToldItsChat \/ IsNotToldItsChat \/ LoopBegins \/ Disconnects
           \/ SocketStores \/ SocketEdits \/ SocketStoreFails \/ SocketReads \/ CustomerSends
           \/ HandlesAck \/ UNCHANGED vars
           \/ \E m \in Mid : CustomerEdits(m)
           \/ \E f \in fetches : FetchIsAnswered(f) \/ HistoryIsDrawn(f) \/ HistoryFails(f)
  <2>1. UNCHANGED stream
    BY <1>4 DEF Connects, IsToldItsChat, IsNotToldItsChat, LoopBegins, Disconnects,
         SocketStores, SocketEdits, SocketStoreFails, SocketReads, CustomerSends, CustomerEdits, HandlesAck,
         FetchIsAnswered, HistoryIsDrawn, HistoryFails, tableVars, vars
  <2> QED
    BY <2>1
<1> QED
  BY <1>1, <1>2, <1>3, <1>4 DEF Next, OperatorNext, SocketNext, PageNext

(* A row is stale until a load draws it.                                   *)
LEMMA StaleStays ==
    ASSUME [Next]_vars, NEW r \in stale, r \notin stale'
    PROVE  r \in renderedIds' /\ r \notin renderedIds
<1>1. ASSUME NEW f \in fetches, HistoryIsDrawn(f)
      PROVE  r \in renderedIds' /\ r \notin renderedIds
  BY <1>1 DEF HistoryIsDrawn, Unrendered
<1>2. CASE \E e \in stream : EventMisses(e) \/ EventIsDropped(e) \/ HandlesEvent(e)
  BY <1>2 DEF EventMisses, EventIsDropped, HandlesEvent, HandlesMessage, HandlesUpdate, Passes
<1>3. CASE \/ OperatorNext \/ Connects \/ IsToldItsChat \/ IsNotToldItsChat \/ LoopBegins \/ Disconnects
           \/ SocketStores \/ SocketEdits \/ SocketStoreFails \/ SocketReads \/ CustomerSends
           \/ HandlesAck \/ UNCHANGED vars
           \/ \E m \in Mid : CustomerEdits(m)
           \/ \E f \in fetches : FetchIsAnswered(f) \/ HistoryFails(f)
  <2>1. UNCHANGED stale
    BY <1>3 DEF OperatorNext, OperatorSends, OperatorEdits, OperatorReads, Connects, IsToldItsChat,
         IsNotToldItsChat, LoopBegins, Disconnects,
         SocketStores, SocketEdits, SocketStoreFails, SocketReads, CustomerSends, CustomerEdits, HandlesAck,
         FetchIsAnswered, HistoryFails, historyVars, vars
  <2> QED
    BY <2>1
<1> QED
  BY <1>1, <1>2, <1>3 DEF Next, SocketNext, PageNext

LEMMA TextsCountedStep == TypeOK /\ Fits /\ TextsCounted /\ [Next]_vars => TextsCounted'
<1> SUFFICES ASSUME TypeOK, Fits, TextsCounted, [Next]_vars, NEW r \in Stored', ~IsMine(r)'
             PROVE  rows'[r].text <= edits'
  BY DEF TextsCounted
<1>1. edits \in Nat /\ edits' \in Nat /\ edits <= edits'
  <2>1. TypeOK'
    BY TypesStep
  <2>2. edits \in Nat /\ edits' \in Nat
    BY <2>1 DEF TypeOK
  <2>3. edits' = edits \/ edits' = edits + 1
    BY DEF Next, OperatorNext, SocketNext, PageNext, vars, countVars, OperatorSends, OperatorEdits,
         OperatorReads, Connects, IsToldItsChat, IsNotToldItsChat, LoopBegins, Disconnects, EventMisses,
         EventIsDropped, SocketStores, SocketEdits, SocketStoreFails, SocketReads, CustomerSends,
         CustomerEdits, HandlesAck, HandlesEvent, FetchIsAnswered, HistoryIsDrawn, HistoryFails
  <2> QED
    BY <2>2, <2>3
<1>2. CASE r \in Stored
  <2>1. ~IsMine(r) /\ rows[r].text <= edits /\ rows[r] \in Row
    BY <1>2, RowTexts, StoredRows DEF TextsCounted
  <2>2. rows[r].text \in Nat
    BY <2>1, Constants DEF Row, Text
  <2>3. CASE rows'[r].text = rows[r].text
    BY <1>1, <2>1, <2>2, <2>3
  <2>4. CASE rows'[r].text = edits + 1 /\ edits' = edits + 1
    BY <1>1, <2>4
  <2>5. CASE SocketEdits /\ up # <<>> /\ rows[r].mid = Head(up).mid
    <3>1. Head(up).mid \in Mid
      BY <2>5, FirstFrame DEF SocketEdits, Reads, Fits, FramesFit, FrameFits
    <3> QED
      BY <2>1, <2>5, <3>1, MidTypes DEF IsMine
  <2> QED
    BY <1>2, <2>3, <2>4, <2>5, RowTexts
<1>3. CASE r \notin Stored
  <2>1. OperatorSends \/ SocketStores
    BY <1>3, RowsStay
  <2>2. rows'[r].text = 0
    <3>1. PICK row : rows' = Append(rows, row) /\ row.text = 0
      BY <2>1 DEF OperatorSends, SocketStores
    <3>2. r = Len(rows) + 1
      BY <1>3, <2>1, StoredRows, OperatorSendsRows, SocketStoresRows DEF Stored
    <3>3. rows \in Seq(Row)
      BY DEF TypeOK
    <3> QED
      BY <3>1, <3>2, <3>3
  <2> QED
    BY <1>1, <2>2
<1> QED
  BY <1>2, <1>3

LEMMA EventsInOrderStep ==
    TypeOK /\ Fits /\ EventsInOrder /\ TextsCounted /\ [Next]_vars => EventsInOrder'
<1> SUFFICES ASSUME TypeOK, Fits, EventsInOrder, TextsCounted, [Next]_vars, NEW e \in stream'
             PROVE  /\ e.kind = "message" => e.text = 0 /\ Current(e.row, 0)'
                    /\ e.kind = "edit" => /\ ~IsMine(e.row)' /\ EditOf(e.row)' \in stream'
                                          /\ 0 < e.text /\ e.text <= rows'[e.row].text
                    /\ e.kind = "read" => IsMine(e.row)' /\ e = ReadOf(e.row)
  BY DEF EventsInOrder, ReadOf
<1>1. edits \in Nat
  BY DEF TypeOK
<1>2. CASE e \in stream
  <2> DEFINE r == e.row
  <2>1. r \in Stored /\ rows[r] \in Row /\ rows[r].text \in Nat
    <3>1. r \in Stored
      BY <1>2 DEF Fits, EventsFit, EventFits
    <3> QED
      BY <3>1, StoredRows, Constants DEF Row, Text
  <2>2. IsMine(r)' <=> IsMine(r)
    BY <2>1, RowTexts
  <2>3. e \in Event /\ e.text \in Nat
    BY <1>2, Constants DEF TypeOK, Event, Text
  <2>4. ASSUME EditOf(r) \in stream, ~IsMine(r), e.kind = "edit" => e.text <= rows[r].text
        PROVE  EditOf(r)' \in stream' /\ (e.kind = "edit" => e.text <= rows'[r].text)
    <3>1. CASE rows'[r].text = rows[r].text
      <4>1. EditOf(r)' = EditOf(r)
        BY <3>1 DEF EditOf
      <4>2. CASE EditOf(r) \in stream'
        BY <2>4, <3>1, <4>1, <4>2
      <4>3. CASE EditOf(r) \notin stream'
        <5>1. MayArrive(EditOf(r)) /\ stream' = stream \ {EditOf(r)}
          BY <2>4, <4>3, StreamLoses
        <5>2. rows[r].text <= e.text
          BY <1>2, <5>1 DEF MayArrive, EditOf
        <5>3. e.kind = "edit"
          <6>1. e.kind = "message" => e.text = 0
            BY <1>2 DEF EventsInOrder
          <6>2. e.kind # "read"
            BY <1>2, <2>4 DEF EventsInOrder
          <6>3. e.kind # "message"
            <7>1. 0 < rows[r].text
              BY <2>4 DEF EventsInOrder, EditOf
            <7> QED
              BY <2>1, <5>2, <6>1, <7>1
          <6> QED
            BY <2>3, <6>2, <6>3 DEF Event
        <5>4. e.text = rows[r].text
          BY <2>1, <2>3, <2>4, <5>2, <5>3
        <5>5. e = EditOf(r)
          BY <2>3, <5>3, <5>4 DEF Event, EditOf
        <5> QED
          BY <4>3, <5>5
      <4> QED
        BY <4>2, <4>3
    <3>2. CASE rows'[r].text = edits + 1 /\ EditOf(r)' \in stream'
      <4>1. rows[r].text <= edits
        BY <2>1, <2>4 DEF TextsCounted
      <4> QED
        BY <1>1, <2>1, <2>3, <2>4, <3>2, <4>1
    <3>3. CASE SocketEdits /\ up # <<>> /\ rows[r].mid = Head(up).mid
      <4>1. Head(up).mid \in Mid
        BY <3>3, FirstFrame DEF SocketEdits, Reads, Fits, FramesFit, FrameFits
      <4> QED
        BY <2>4, <3>3, <4>1, MidTypes DEF IsMine
    <3> QED
      BY <2>1, <3>1, <3>2, <3>3, RowTexts
  <2>5. CASE e.kind = "message"
    <3>1. e.text = 0 /\ Current(r, 0) /\ ~IsMine(r)
      BY <1>2, <2>5 DEF EventsInOrder, Fits, EventsFit, EventFits
    <3>2. CASE EditOf(r) \in stream
      BY <2>4, <2>5, <3>1, <3>2 DEF Current
    <3>3. CASE EditOf(r) \notin stream
      <4>1. rows[r].text = 0
        BY <3>1, <3>3 DEF Current
      <4>2. CASE rows'[r].text = rows[r].text
        BY <2>5, <3>1, <4>1, <4>2 DEF Current
      <4>3. CASE EditOf(r)' \in stream'
        BY <2>5, <3>1, <4>3 DEF Current
      <4>4. CASE SocketEdits /\ up # <<>> /\ rows[r].mid = Head(up).mid
        <5>1. Head(up).mid \in Mid
          BY <4>4, FirstFrame DEF SocketEdits, Reads, Fits, FramesFit, FrameFits
        <5> QED
          BY <3>1, <4>4, <5>1, MidTypes DEF IsMine
      <4> QED
        BY <2>1, <4>2, <4>3, <4>4, RowTexts
    <3> QED
      BY <3>2, <3>3
  <2>6. CASE e.kind = "edit"
    <3>1. /\ ~IsMine(r) /\ EditOf(r) \in stream /\ 0 < e.text /\ e.text <= rows[r].text
      BY <1>2, <2>6 DEF EventsInOrder
    <3>2. EditOf(r)' \in stream' /\ e.text <= rows'[r].text
      BY <2>4, <2>6, <3>1
    <3> QED
      BY <2>2, <2>6, <3>1, <3>2
  <2>7. CASE e.kind = "read"
    BY <1>2, <2>2, <2>7 DEF EventsInOrder
  <2> QED
    BY <2>3, <2>5, <2>6, <2>7 DEF Event
<1>3. CASE e \notin stream
  <2>1. CASE OperatorSends /\ e.kind = "message" /\ e.row = Len(rows') /\ e.text = 0
    <3>1. rows'[Len(rows')].text = 0
      <4>1. rows' = Append(rows, [mid |-> NoMid, read |-> FALSE, text |-> 0]) /\ rows \in Seq(Row)
        BY <2>1 DEF OperatorSends, TypeOK
      <4>2. rows'[Len(rows')] = [mid |-> NoMid, read |-> FALSE, text |-> 0]
        BY <4>1
      <4> QED
        BY <4>2
    <3> QED
      BY <2>1, <3>1 DEF Current
  <2>2. ASSUME NEW r \in Stored, OperatorEdits(r), e = EditOf(r)'
        PROVE  /\ e.kind = "edit" /\ ~IsMine(r)' /\ e.row = r /\ EditOf(e.row)' \in stream'
               /\ 0 < e.text /\ e.text = rows'[r].text
    <3>1. e.kind = "edit" /\ e.row = r /\ e.text = rows'[r].text
      BY <2>2 DEF EditOf
    <3>2. rows'[r].text = edits + 1
      BY <2>2, StoredRows DEF OperatorEdits, Row, Stored
    <3>3. ~IsMine(r)'
      BY <2>2, RowTexts DEF OperatorEdits
    <3>4. EditOf(e.row)' \in stream'
      BY <2>2, <3>1 DEF EditOf
    <3> QED
      BY <1>1, <3>1, <3>2, <3>3, <3>4
  <2>3. ASSUME NEW r \in Stored, IsMine(r), e = ReadOf(r)
        PROVE  e.kind = "read" /\ IsMine(e.row)' /\ e = ReadOf(e.row)
    BY <2>3, RowTexts DEF ReadOf
  <2>4. rows'[e.row].text \in Nat
    <3>1. TypeOK' /\ e.row \in Stored'
      BY TypesStep, FitsStep DEF Fits, EventsFit, EventFits
    <3>2. rows' \in Seq(Row) /\ e.row \in DOMAIN rows'
      BY <3>1 DEF TypeOK, Stored
    <3>3. rows'[e.row] \in Row
      BY <3>2
    <3> QED
      BY <3>3, Constants DEF Row, Text
  <2> QED
    BY <1>3, <2>1, <2>2, <2>3, <2>4, StreamGains
<1> QED
  BY <1>2, <1>3

(* What is the row's text, or will be replaced by it, stays so, unless the *)
(* edit is handled just now.                                               *)
LEMMA CurrentStep ==
    ASSUME TypeOK, Fits, OInv, EventsInOrder, [Next]_vars, NEW r \in Stored, NEW text, Current(r, text),
           IsMine(r) => r \notin renderedIds,
           r \notin stale'
    PROVE  \/ Current(r, text)'
           \/ /\ EditOf(r) \in stream /\ HandlesEvent(EditOf(r)) /\ HandlesUpdate(EditOf(r))
              /\ FirstOf(r) # {} /\ UNCHANGED rows
<1>1. CASE rows'[r].text = rows[r].text
  <2>1. EditOf(r)' = EditOf(r)
    BY <1>1 DEF EditOf
  <2>2. CASE EditOf(r) \in stream /\ EditOf(r) \notin stream'
    <3>1. EditOf(r).kind = "edit" /\ EditOf(r).row = r
      BY DEF EditOf
    <3> QED
      BY <2>2, <3>1, StreamLoses
  <2> QED
    BY <1>1, <2>1, <2>2 DEF Current
<1>2. CASE EditOf(r)' \in stream'
  BY <1>2 DEF Current
<1>3. CASE SocketEdits /\ up # <<>> /\ rows[r].mid = Head(up).mid
  <2>1. Head(up).mid \in Mid /\ Head(up).action = "edit" /\ Head(up) = up[1] /\ 1 \in DOMAIN up
    BY <1>3, FirstFrame DEF SocketEdits, Reads, Fits, FramesFit, FrameFits
  <2>2. IsMine(r) /\ Answered(rows[r].mid)
    BY <1>3, <2>1, MidTypes DEF IsMine, Answered
  <2> QED
    BY <2>2 DEF OInv, AnsweredRendered
<1> QED
  BY <1>1, <1>2, <1>3, RowTexts

LEMMA FoundCurrentStep ==
    TypeOK /\ Fits /\ OInv /\ EventsInOrder /\ FoundCurrent /\ [Next]_vars => FoundCurrent'
<1> SUFFICES ASSUME TypeOK, Fits, OInv, EventsInOrder, FoundCurrent, [Next]_vars,
                    NEW f \in fetches', NEW r \in DOMAIN f.found, r \notin renderedIds' \cup stale'
             PROVE  Current(r, f.found[r].text)'
  BY DEF FoundCurrent
<1>1. renderedIds \subseteq renderedIds'
  BY Growing DEF Grows
<1>2. r \notin renderedIds \cup stale
  BY <1>1, StaleStays
<1>3. CASE f \in fetches
  <2>1. r \in Stored
    BY <1>3, StoredRows DEF TypeOK
  <2>2. Current(r, f.found[r].text)
    BY <1>2, <1>3 DEF FoundCurrent
  <2>3. FirstOf(r) = {}
    <3>1. \A i \in DOMAIN dom : dom[i].id # r
      BY <1>2, <2>1, MidTypes DEF OInv, BubblesKnown
    <3> QED
      BY <3>1 DEF FirstOf
  <2> QED
    BY <1>2, <2>1, <2>2, <2>3, CurrentStep
<1>4. CASE f \notin fetches
  <2>1. f.found = <<>> \/ (f.found = rows /\ UNCHANGED rows)
    <3>1. CASE IsToldItsChat
      BY <1>4, <3>1 DEF IsToldItsChat
    <3>2. ASSUME NEW g \in fetches, FetchIsAnswered(g)
          PROVE  f.found = rows /\ UNCHANGED rows
      <4>1. f = [g EXCEPT !.answered = TRUE, !.found = rows] /\ g \in Fetch /\ UNCHANGED rows
        BY <1>4, <3>2 DEF FetchIsAnswered, tableVars, Fits, FetchesTyped
      <4> QED
        BY <4>1 DEF Fetch
    <3>3. CASE ~IsToldItsChat /\ ~\E g \in fetches : FetchIsAnswered(g)
      <4>1. fetches' \subseteq fetches
        BY <3>3 DEF Next, OperatorNext, SocketNext, PageNext, vars, loadVars, OperatorSends, OperatorEdits,
           OperatorReads, Connects, IsNotToldItsChat, LoopBegins, Disconnects, EventMisses,
           EventIsDropped, SocketStores, SocketEdits, SocketStoreFails, SocketReads, CustomerSends,
           CustomerEdits, HandlesAck, HandlesEvent, HistoryIsDrawn, HistoryFails
      <4> QED
        BY <1>4, <4>1
    <3> QED
      BY <3>1, <3>2, <3>3
  <2>2. CASE f.found = <<>>
    BY <2>2
  <2>3. CASE f.found = rows /\ UNCHANGED rows
    BY <2>3 DEF Current
  <2> QED
    BY <2>1, <2>2, <2>3
<1> QED
  BY <1>3, <1>4

(* What a step of the page's leaves alone, and what it works on.           *)
PageStands == UNCHANGED <<dom, entries, renderedIds, late, edited>>

TabStep ==
    \/ CustomerSends
    \/ \E m \in Mid : CustomerEdits(m)
    \/ HandlesAck
    \/ \E e \in stream : HandlesEvent(e)
    \/ \E f \in fetches : HistoryIsDrawn(f)

LEMMA StepKinds == [Next]_vars => PageStands \/ TabStep
  BY DEF Next, OperatorNext, SocketNext, PageNext, PageStands, TabStep, vars, domVars, historyVars,
     OperatorSends, OperatorEdits, OperatorReads, Connects, IsToldItsChat, IsNotToldItsChat, LoopBegins,
     Disconnects, EventMisses, EventIsDropped, SocketStores, SocketEdits, SocketStoreFails, SocketReads,
     FetchIsAnswered, HistoryFails

LEMMA PageKeepsRows == TabStep => UNCHANGED rows /\ Stored' = Stored
  BY DEF TabStep, tableVars, Stored, CustomerSends, CustomerEdits, HandlesAck, HandlesEvent, HistoryIsDrawn

LEMMA HistoriesGrow == [Next]_vars => late \subseteq late' /\ edited \subseteq edited'
  BY DEF Next, OperatorNext, SocketNext, PageNext, vars, historyVars,
     OperatorSends, OperatorEdits, OperatorReads, Connects, IsToldItsChat, IsNotToldItsChat, LoopBegins,
     Disconnects, EventMisses, EventIsDropped, SocketStores, SocketEdits, SocketStoreFails, SocketReads,
     CustomerSends, CustomerEdits, HandlesAck, HandlesEvent, FetchIsAnswered, HistoryIsDrawn, HistoryFails

(* A row that a bubble has the id of is rendered, so that no load draws it *)
(* again.                                                                  *)
LEMMA OldBubble ==
    ASSUME TypeOK, Fits, OInv, [Next]_vars, NEW j \in DOMAIN dom, dom[j].id \in Stored'
    PROVE  /\ dom[j].id \in Stored /\ dom[j].id \in renderedIds
           /\ dom[j].id \in stale => dom[j].id \in stale'
           /\ rows'[dom[j].id].mid = rows[dom[j].id].mid
<1>1. NoRow \notin Stored'
  BY RowsStep DEF Stored, NoRow
<1>2. dom[j].id \in renderedIds /\ dom[j].id \in Stored
  BY <1>1, KnownBubbles DEF OInv, BubblesKnown
<1> QED
  BY <1>2, RowTexts, StaleStays

LEMMA NewRowsPlain ==
    ASSUME TypeOK, Fits, [Next]_vars, NEW r \in Stored', r \notin Stored
    PROVE  rows'[r].text = 0 /\ ~rows'[r].read
<1>1. OperatorSends \/ SocketStores
  BY RowsStay
<1>2. PICK row : rows' = Append(rows, row) /\ row.text = 0 /\ ~row.read
  BY <1>1 DEF OperatorSends, SocketStores
<1>3. r = Len(rows) + 1
  BY <1>1, StoredRows, OperatorSendsRows, SocketStoresRows DEF Stored
<1>4. rows \in Seq(Row)
  BY DEF TypeOK
<1> QED
  BY <1>2, <1>3, <1>4

LEMMA AckFacts ==
    ASSUME TypeOK, Fits, OInv, HandlesAck, NEW a, a = Head(acks)
    PROVE  /\ acks # <<>> /\ a = acks[1] /\ 1 \in DOMAIN acks /\ acks' = Tail(acks)
           /\ UNCHANGED <<rows, stream, up, stale, unstored, edited>> /\ Stored' = Stored
           /\ late' = late \cup ({a.row} \cap renderedIds)
           /\ a.mid \in Mid
           /\ a.row # NoRow => a.row \in Stored /\ rows[a.row].mid = a.mid /\ IsMine(a.row)
           /\ DOMAIN dom' = DOMAIN dom
           /\ \A i \in DOMAIN dom :
                 /\ dom'[i].mid = dom[i].mid /\ dom'[i].text = dom[i].text
                 /\ i # entries[a.mid].bubble => dom'[i] = dom[i]
                 /\ i = entries[a.mid].bubble =>
                       /\ dom[i].mid = a.mid
                       /\ dom'[i].id = IF a.row = NoRow THEN dom[i].id ELSE a.row
           /\ \A q \in Mid : /\ entries'[q].bubble = entries[q].bubble
                             /\ q # a.mid => entries'[q] = entries[q]
           /\ entries'[a.mid].acknowledged
<1>1. /\ acks # <<>> /\ acks' = Tail(acks) /\ late' = late \cup ({a.row} \cap renderedIds)
      /\ UNCHANGED <<rows, stream, up, stale, unstored, edited>> /\ Stored' = Stored
  BY DEF HandlesAck, tableVars, Stored
<1>2. 1 \in DOMAIN acks /\ a = acks[1] /\ a \in Ack
  BY <1>1, FirstAck
<1>3. a.mid \in Mid /\ a.row \in Stored \cup {NoRow}
  BY <1>2 DEF Fits, AcksFit, AckFits, Ack
<1>4. a.row # NoRow => a.row \in Stored /\ rows[a.row].mid = a.mid /\ IsMine(a.row)
  BY <1>2, <1>3, MidTypes DEF OInv, AcksOfRows
<1>5. /\ DOMAIN dom' = DOMAIN dom
      /\ \A i \in DOMAIN dom :
            /\ dom'[i].mid = dom[i].mid /\ dom'[i].text = dom[i].text
            /\ i # entries[a.mid].bubble => dom'[i] = dom[i]
            /\ i = entries[a.mid].bubble => dom'[i].id = IF a.row = NoRow THEN dom[i].id ELSE a.row
      /\ \A q \in Mid : /\ entries'[q].bubble = entries[q].bubble
                        /\ q # a.mid => entries'[q] = entries[q]
      /\ entries'[a.mid].acknowledged
  BY <1>3, AckElements
<1>6. \A i \in DOMAIN dom : i = entries[a.mid].bubble => dom[i].mid = a.mid
  <2>1. \A i \in DOMAIN dom : i # 0
    BY Bubbles
  <2> QED
    BY <1>3, <2>1 DEF Fits, EntriesFit, EntryFits, Pointed
<1> QED
  BY <1>1, <1>2, <1>3, <1>4, <1>5, <1>6

LEMMA EditsFacts ==
    ASSUME TypeOK, Fits, OInv, NEW m \in Mid, CustomerEdits(m)
    PROVE  /\ UNCHANGED <<rows, stream, acks, renderedIds, stale, late, unstored>> /\ Stored' = Stored
           /\ edited' = edited \cup {m} /\ entries[m].acknowledged
           /\ DOMAIN dom' = DOMAIN dom
           /\ \A i \in DOMAIN dom :
                 /\ dom'[i].id = dom[i].id /\ dom'[i].mid = dom[i].mid
                 /\ i # entries[m].bubble => dom'[i] = dom[i]
                 /\ i = entries[m].bubble =>
                       /\ dom[i].mid = m /\ dom'[i].text = edits'
                       /\ dom[i].id # NoRow \/ m \in unstored
           /\ \A q \in Mid : /\ entries'[q].bubble = entries[q].bubble
                             /\ entries'[q].acknowledged => q # m
                             /\ q # m => entries'[q] = entries[q]
<1>1. /\ UNCHANGED <<rows, stream, acks, renderedIds, stale, late, unstored>> /\ Stored' = Stored
      /\ edited' = edited \cup {m} /\ entries[m].acknowledged
  BY DEF CustomerEdits, tableVars, Stored
<1>2. \A i \in DOMAIN dom :
         i = entries[m].bubble => dom[i].mid = m /\ (dom[i].id # NoRow \/ m \in unstored)
  <2>1. \A i \in DOMAIN dom : i # 0
    BY Bubbles
  <2> QED
    BY <1>1, <2>1 DEF Fits, EntriesFit, EntryFits, Pointed, Settled
<1> QED
  BY <1>1, <1>2, EditsElements

LEMMA SendsFacts ==
    ASSUME TypeOK, Fits, OInv, CustomerSends
    PROVE  /\ UNCHANGED <<rows, stream, acks, renderedIds, stale, late, unstored, edited>> /\ Stored' = Stored
           /\ sends' \in Mid /\ \A i \in DOMAIN dom : i \in DOMAIN dom' /\ dom'[i] = dom[i]
           /\ \A i \in DOMAIN dom' :
                 \/ i \in DOMAIN dom /\ dom'[i] = dom[i] /\ dom[i].mid # sends'
                 \/ dom'[i].id = NoRow /\ dom'[i].text = 0
           /\ \A m \in Mid : m # sends' => entries'[m] = entries[m]
<1>1. /\ UNCHANGED <<rows, stream, acks, renderedIds, stale, late, unstored, edited>> /\ Stored' = Stored
  BY DEF CustomerSends, tableVars, historyVars, Stored
<1>2. /\ sends' \in Mid /\ \A i \in DOMAIN dom : i \in DOMAIN dom' /\ dom'[i] = dom[i]
      /\ \A i \in DOMAIN dom' : \/ i \in DOMAIN dom /\ dom'[i] = dom[i]
                                \/ dom'[i].id = NoRow /\ dom'[i].text = 0
      /\ \A m \in Mid : m # sends' => entries'[m] = entries[m]
  BY SendsElements
<1>3. \A i \in DOMAIN dom : dom[i].mid # sends'
  <2> SUFFICES ASSUME NEW i \in DOMAIN dom
               PROVE  dom[i].mid # sends'
    OBVIOUS
  <2>1. dom[i].mid \in Nat /\ dom[i].mid <= sends
    BY BubbleMids DEF OInv, BubblesKnown
  <2>2. sends' = sends + 1 /\ sends \in Nat
    BY SendsElements, Constants DEF TypeOK
  <2> QED
    BY <2>1, <2>2
<1> QED
  BY <1>1, <1>2, <1>3

LEMMA MessageFacts ==
    ASSUME TypeOK, Fits, OInv, NEW e \in stream, HandlesEvent(e), HandlesMessage(e)
    PROVE  /\ UNCHANGED <<rows, acks, entries, stale, late, unstored, edited>> /\ Stored' = Stored
           /\ e.kind = "message" /\ e.row \in Stored /\ ~IsMine(e.row) /\ e.text = 0
           /\ \A i \in DOMAIN dom : i \in DOMAIN dom' /\ dom'[i] = dom[i]
           /\ \A i \in DOMAIN dom' :
                 \/ i \in DOMAIN dom /\ dom'[i] = dom[i]
                 \/ dom'[i].id = e.row /\ dom'[i].mid = NoMid /\ dom'[i].text = e.text
<1>1. /\ UNCHANGED <<rows, acks, entries, stale, late, unstored, edited>> /\ Stored' = Stored
  BY DEF HandlesEvent, HandlesMessage, Stored
<1>2. e.kind = "message" /\ e.row \in Stored /\ ~IsMine(e.row) /\ e.text = 0
  BY DEF HandlesMessage, Fits, EventsFit, EventFits, OInv, MessagesPending
<1>3. /\ \A i \in DOMAIN dom : i \in DOMAIN dom' /\ dom'[i] = dom[i]
      /\ \A i \in DOMAIN dom' :
            \/ i \in DOMAIN dom
            \/ dom'[i].id = e.row /\ dom'[i].mid = NoMid /\ dom'[i].text = e.text
  BY MessageElements
<1> QED
  BY <1>1, <1>2, <1>3

LEMMA UpdateFacts ==
    ASSUME TypeOK, Fits, OInv, NEW e \in stream, HandlesEvent(e), HandlesUpdate(e)
    PROVE  /\ UNCHANGED <<rows, acks, up, entries, renderedIds, late, unstored, edited>> /\ Stored' = Stored
           /\ e.row \in Stored /\ stream' = stream \ {e}
           /\ DOMAIN dom' = DOMAIN dom
           /\ \A i \in DOMAIN dom :
                 /\ dom'[i].id = dom[i].id /\ dom'[i].mid = dom[i].mid
                 /\ i \notin FirstOf(e.row) => dom'[i] = dom[i]
                 /\ i \in FirstOf(e.row) =>
                       /\ dom[i].id = e.row
                       /\ \/ e.kind = "edit" /\ dom'[i].text = e.text /\ dom'[i].mark = dom[i].mark
                          \/ e.kind = "read" /\ dom'[i].text = dom[i].text /\ dom'[i].mark = "two"
<1>1. /\ UNCHANGED <<rows, acks, up, entries, renderedIds, late, unstored, edited>> /\ Stored' = Stored
      /\ stream' = stream \ {e}
  BY DEF HandlesEvent, HandlesUpdate, Stored
<1>2. e.row \in Stored
  BY DEF Fits, EventsFit, EventFits
<1>3. \A i \in FirstOf(e.row) : dom[i].id = e.row
  BY DEF FirstOf
<1> QED
  BY <1>1, <1>2, <1>3, UpdateElements

LEMMA HistoryFacts ==
    ASSUME TypeOK, Fits, OInv, NEW f \in fetches, HistoryIsDrawn(f)
    PROVE  /\ UNCHANGED <<rows, stream, acks, late, unstored, edited>> /\ Stored' = Stored
           /\ renderedIds' = renderedIds \cup Unrendered(f.found)
           /\ \A r \in Unrendered(f.found) :
                 /\ r \in DOMAIN f.found /\ r \in Stored /\ r \notin renderedIds
                 /\ f.found[r].mid = rows[r].mid
                 /\ r \in stale /\ r \notin stale' => f.found[r] = rows[r]
<1>1. /\ UNCHANGED <<rows, stream, acks, late, unstored, edited>> /\ Stored' = Stored
      /\ renderedIds' = renderedIds \cup Unrendered(f.found)
      /\ stale' = stale \ {r \in Unrendered(f.found) : f.found[r] = rows[r]}
  BY DEF HistoryIsDrawn, tableVars, Stored
<1>2. \A r \in Unrendered(f.found) :
         r \in DOMAIN f.found /\ r \in Stored /\ r \notin renderedIds /\ f.found[r].mid = rows[r].mid
  <2>1. DOMAIN f.found = 1 .. Len(f.found) /\ Len(f.found) \in Nat /\ Len(f.found) <= Len(rows)
    BY DEF TypeOK
  <2> QED
    BY <2>1, StoredRows DEF Unrendered, Fits, AnswersFit, AnswerFits
<1> QED
  BY <1>1, <1>2

LEMMA RowsBubble ==
    \A r, row : LET b == HistoryBubble(r, row) IN
        /\ b.id = r /\ b.mid = row.mid /\ b.text = row.text
        /\ row.mid # NoMid /\ row.read => b.mark = "two"
  BY DEF HistoryBubble

(* Bubbles have their row's message, and an own row has one bubble with    *)
(* its id.                                                                 *)
LEMMA IdsOfRowsStep == TypeOK /\ Fits /\ OInv /\ IdsOfRows /\ [Next]_vars => IdsOfRows'
<1> SUFFICES ASSUME TypeOK, Fits, OInv, IdsOfRows, [Next]_vars, NEW i \in DOMAIN dom', dom'[i].id \in Stored'
             PROVE  dom'[i].mid = rows'[dom'[i].id].mid
  BY DEF IdsOfRows
<1>1. \A j \in DOMAIN dom : dom'[i].id = dom[j].id /\ dom'[i].mid = dom[j].mid
                               => dom'[i].mid = rows'[dom'[i].id].mid
  BY OldBubble DEF IdsOfRows
<1>2. CASE PageStands
  BY <1>1, <1>2 DEF PageStands
<1>3. CASE CustomerSends
  BY <1>1, <1>3, SendsFacts, MidTypes
<1>4. ASSUME NEW m \in Mid, CustomerEdits(m)
      PROVE  dom'[i].mid = rows'[dom'[i].id].mid
  BY <1>1, <1>4, EditsFacts
<1>5. CASE HandlesAck
  <2>1. PICK a : a = Head(acks)
    OBVIOUS
  <2>2. i \in DOMAIN dom /\ dom'[i].mid = dom[i].mid /\ UNCHANGED rows
    BY <1>5, <2>1, AckFacts
  <2>3. CASE dom'[i].id = dom[i].id
    BY <1>1, <2>2, <2>3
  <2>4. CASE dom'[i].id = a.row /\ a.row # NoRow /\ dom[i].mid = a.mid
    BY <1>5, <2>1, <2>2, <2>4, AckFacts
  <2> QED
    BY <1>5, <2>1, <2>2, <2>3, <2>4, AckFacts
<1>6. ASSUME NEW e \in stream, HandlesEvent(e)
      PROVE  dom'[i].mid = rows'[dom'[i].id].mid
  <2>1. CASE HandlesMessage(e)
    BY <1>1, <1>6, <2>1, MessageFacts DEF IsMine
  <2>2. CASE HandlesUpdate(e)
    BY <1>1, <1>6, <2>2, UpdateFacts
  <2> QED
    BY <1>6, <2>1, <2>2 DEF HandlesEvent
<1>7. ASSUME NEW f \in fetches, HistoryIsDrawn(f)
      PROVE  dom'[i].mid = rows'[dom'[i].id].mid
  <2>1. PICK down \in Nat, at \in [Unrendered(f.found) -> Int] : PlacedAt(f, down, at)
    BY <1>7, HistoryAt
  <2>2. ASSUME NEW r \in Unrendered(f.found), dom'[i] = HistoryBubble(r, f.found[r])
        PROVE  dom'[i].mid = rows'[dom'[i].id].mid
    <3>1. dom'[i].id = r /\ dom'[i].mid = f.found[r].mid
      BY <2>2, RowsBubble
    <3> QED
      BY <1>7, <3>1, HistoryFacts
  <2> QED
    BY <1>1, <2>1, <2>2 DEF PlacedAt
<1> QED
  BY <1>2, <1>3, <1>4, <1>5, <1>6, <1>7, StepKinds DEF TabStep

LEMMA OwnBubblesStep ==
    TypeOK /\ Fits /\ OInv /\ IdsOfRows /\ OwnBubbles /\ [Next]_vars => OwnBubbles'
<1> SUFFICES ASSUME TypeOK, Fits, OInv, IdsOfRows, OwnBubbles, [Next]_vars, NEW i \in DOMAIN dom',
                    NEW m \in Mid, dom'[i].id \in Stored', dom'[i].mid = m
             PROVE  entries'[m].bubble = i
  BY DEF OwnBubbles
<1>1. ASSUME i \in DOMAIN dom, dom'[i].id = dom[i].id, dom'[i].mid = dom[i].mid,
             entries'[m].bubble = entries[m].bubble
      PROVE  entries'[m].bubble = i
  BY <1>1, OldBubble DEF OwnBubbles
<1>2. CASE PageStands
  BY <1>1, <1>2 DEF PageStands
<1>3. CASE CustomerSends
  BY <1>1, <1>3, SendsFacts, MidTypes
<1>4. ASSUME NEW q \in Mid, CustomerEdits(q)
      PROVE  entries'[m].bubble = i
  BY <1>1, <1>4, EditsFacts
<1>5. CASE HandlesAck
  <2>1. PICK a : a = Head(acks)
    OBVIOUS
  <2>2. i \in DOMAIN dom /\ dom'[i].mid = dom[i].mid /\ entries'[m].bubble = entries[m].bubble
    BY <1>5, <2>1, AckFacts
  <2>3. CASE dom'[i] = dom[i]
    BY <1>1, <2>2, <2>3
  <2>4. CASE i = entries[a.mid].bubble
    BY <1>5, <2>1, <2>2, <2>4, AckFacts
  <2> QED
    BY <1>5, <2>1, <2>2, <2>3, <2>4, AckFacts
<1>6. ASSUME NEW e \in stream, HandlesEvent(e)
      PROVE  entries'[m].bubble = i
  <2>1. CASE HandlesMessage(e)
    BY <1>1, <1>6, <2>1, MessageFacts, MidTypes
  <2>2. CASE HandlesUpdate(e)
    BY <1>1, <1>6, <2>2, UpdateFacts
  <2> QED
    BY <1>6, <2>1, <2>2 DEF HandlesEvent
<1>7. ASSUME NEW f \in fetches, HistoryIsDrawn(f)
      PROVE  entries'[m].bubble = i
  <2> DEFINE R == Unrendered(f.found)
  <2>1. PICK down \in Nat, at \in [R -> Int] : PlacedAt(f, down, at)
    BY <1>7, HistoryAt
  <2>2. \A r \in R : r \in Stored /\ r \notin renderedIds /\ f.found[r].mid = rows[r].mid
    BY <1>7, HistoryFacts
  <2>3. \/ \E j \in DOMAIN dom : i = j + down /\ dom'[i] = dom[j]
        \/ \E r \in R : i = at[r] /\ dom'[i] = HistoryBubble(r, f.found[r])
    BY <2>1 DEF PlacedAt
  <2>4. \/ \E r \in R : f.found[r].mid = m /\ entries'[m].bubble = at[r]
        \/ /\ \A r \in R : f.found[r].mid # m
           /\ entries'[m].bubble = IF entries[m].bubble = 0 THEN 0 ELSE entries[m].bubble + down
    BY <2>1 DEF PlacedAt
  <2>5. \A q, r \in Stored : rows[q].mid = m /\ rows[r].mid = m => q = r
    BY MidTypes DEF OInv, MidsOnce
  <2> HIDE DEF R
  <2>6. ASSUME NEW j \in DOMAIN dom, i = j + down, dom'[i] = dom[j]
        PROVE  entries'[m].bubble = i
    <3>1. dom[j].id \in Stored /\ dom[j].id \in renderedIds
      BY <2>6, OldBubble
    <3>2. rows[dom[j].id].mid = m /\ entries[m].bubble = j /\ j # 0
      BY <2>6, <3>1, Bubbles DEF IdsOfRows, OwnBubbles
    <3> QED
      BY <2>2, <2>4, <2>5, <2>6, <3>1, <3>2
  <2>7. ASSUME NEW r \in R, i = at[r], dom'[i] = HistoryBubble(r, f.found[r])
        PROVE  entries'[m].bubble = i
    <3>1. f.found[r].mid = m
      BY <2>7, RowsBubble
    <3> QED
      BY <2>2, <2>4, <2>5, <2>7, <3>1
  <2> QED
    BY <2>3, <2>6, <2>7
<1> QED
  BY <1>2, <1>3, <1>4, <1>5, <1>6, <1>7, StepKinds DEF TabStep

(* What was not answered for was not edited, in the table or on the page.  *)
LEMMA RowsPlainStep == TypeOK /\ Fits /\ OInv /\ RowsPlain /\ [Next]_vars => RowsPlain'
<1> SUFFICES ASSUME TypeOK, Fits, OInv, RowsPlain, [Next]_vars,
                    NEW r \in Stored', r \notin renderedIds', IsMine(r)'
             PROVE  rows'[r].text = 0
  BY DEF RowsPlain
<1>1. r \notin renderedIds
  BY Growing DEF Grows
<1>2. CASE r \notin Stored
  BY <1>2, NewRowsPlain
<1>3. CASE r \in Stored
  <2>1. IsMine(r) /\ rows[r].text = 0
    BY <1>1, <1>3, RowTexts DEF RowsPlain
  <2>2. CASE SocketEdits /\ up # <<>> /\ rows[r].mid = Head(up).mid
    <3>1. Head(up).mid \in Mid /\ Head(up).action = "edit" /\ Head(up) = up[1] /\ 1 \in DOMAIN up
      BY <2>2, FirstFrame DEF SocketEdits, Reads, Fits, FramesFit, FrameFits
    <3>2. Answered(rows[r].mid)
      BY <2>2, <3>1 DEF Answered
    <3> QED
      BY <1>1, <1>3, <2>1, <3>2 DEF OInv, AnsweredRendered
  <2> QED
    BY <1>3, <2>1, <2>2, RowTexts
<1> QED
  BY <1>2, <1>3

LEMMA DraftsPlainStep == TypeOK /\ Fits /\ OInv /\ DraftsPlain /\ [Next]_vars => DraftsPlain'
<1> SUFFICES ASSUME TypeOK, Fits, OInv, DraftsPlain, [Next]_vars, NEW i \in DOMAIN dom',
                    dom'[i].mid \in Mid, dom'[i].mid \notin unstored', dom'[i].id = NoRow
             PROVE  dom'[i].text = 0
  BY DEF DraftsPlain
<1>1. \A j \in DOMAIN dom : dom'[i] = dom[j] => dom'[i].text = 0
  <2>1. unstored \subseteq unstored'
    BY Growing DEF Grows
  <2> QED
    BY <2>1 DEF DraftsPlain
<1>2. CASE PageStands
  BY <1>1, <1>2 DEF PageStands
<1>3. CASE CustomerSends
  BY <1>1, <1>3, SendsFacts
<1>4. ASSUME NEW m \in Mid, CustomerEdits(m)
      PROVE  dom'[i].text = 0
  BY <1>1, <1>4, EditsFacts
<1>5. CASE HandlesAck
  <2>1. PICK a : a = Head(acks)
    OBVIOUS
  <2>2. i \in DOMAIN dom /\ dom'[i].mid = dom[i].mid /\ dom'[i].text = dom[i].text
        /\ dom[i].id = NoRow /\ unstored' = unstored
    BY <1>5, <2>1, AckFacts
  <2> QED
    BY <2>2 DEF DraftsPlain
<1>6. ASSUME NEW e \in stream, HandlesEvent(e)
      PROVE  dom'[i].text = 0
  <2>1. CASE HandlesMessage(e)
    BY <1>1, <1>6, <2>1, MessageFacts, MidTypes
  <2>2. CASE HandlesUpdate(e)
    BY <1>1, <1>6, <2>2, UpdateFacts, MidTypes
  <2> QED
    BY <1>6, <2>1, <2>2 DEF HandlesEvent
<1>7. ASSUME NEW f \in fetches, HistoryIsDrawn(f)
      PROVE  dom'[i].text = 0
  <2>1. PICK down \in Nat, at \in [Unrendered(f.found) -> Int] : PlacedAt(f, down, at)
    BY <1>7, HistoryAt
  <2>2. ASSUME NEW r \in Unrendered(f.found), dom'[i] = HistoryBubble(r, f.found[r])
        PROVE  FALSE
    <3>1. dom'[i].id = r
      BY <2>2, RowsBubble
    <3> QED
      BY <1>7, <3>1, HistoryFacts, MidTypes
  <2> QED
    BY <1>1, <2>1, <2>2 DEF PlacedAt
<1> QED
  BY <1>2, <1>3, <1>4, <1>5, <1>6, <1>7, StepKinds DEF TabStep

(* A row that was read before it was drawn has the receipt under way.      *)
LEMMA ReadsComeStep == TypeOK /\ Fits /\ OInv /\ ReadsCome /\ [Next]_vars => ReadsCome'
<1> SUFFICES ASSUME TypeOK, Fits, OInv, ReadsCome, [Next]_vars, NEW r \in Stored',
                    r \notin renderedIds', r \notin stale', IsMine(r)', rows'[r].read
             PROVE  ReadOf(r) \in stream'
  BY DEF ReadsCome, ReadOf
<1>1. r \notin renderedIds /\ r \notin stale /\ r \in Stored
  BY Growing, StaleStays, NewRowsPlain DEF Grows
<1>2. IsMine(r)
  BY <1>1, RowTexts
<1>3. CASE rows[r].read
  <2>1. ReadOf(r) \in stream
    BY <1>1, <1>2, <1>3 DEF ReadsCome
  <2>2. ReadOf(r).kind = "read" /\ ReadOf(r).row = r
    BY DEF ReadOf
  <2>3. FirstOf(r) = {}
    <3>1. \A i \in DOMAIN dom : dom[i].id # r
      BY <1>1, MidTypes DEF OInv, BubblesKnown
    <3> QED
      BY <3>1 DEF FirstOf
  <2>4. ReadOf(r) \notin stream' => FALSE
    <3> SUFFICES ASSUME ReadOf(r) \notin stream'
                 PROVE  FALSE
      OBVIOUS
    <3> PICK e \in stream : e = ReadOf(r)
      BY <2>1
    <3>1. \/ e.kind = "message"
          \/ e.row \in stale'
          \/ FirstOf(e.row) # {}
      BY StreamLoses
    <3> QED
      BY <2>2, <2>3, <3>1
  <2> QED
    BY <2>4
<1>4. CASE ~rows[r].read
  BY <1>1, <1>2, <1>4, RowTexts
<1> QED
  BY <1>3, <1>4

(* Edits and their acks under way keep their order, a new one is the last. *)
LEMMA FramesAt ==
    ASSUME TypeOK, Fits, [Next]_vars, NEW m \in Mid, NEW i \in EditFrames(m)'
    PROVE  \/ ~SocketStep /\ i \in EditFrames(m) /\ up'[i] = up[i]
           \/ /\ SocketStep /\ i \in Int /\ i + 1 \in EditFrames(m) /\ i + 1 # 1
              /\ up'[i] = up[i + 1]
           \/ CustomerEdits(m) /\ i = Len(up) + 1 /\ up'[i].text = edits'
<1>1. i \in DOMAIN up' /\ up'[i].action = "edit" /\ up'[i].mid = m /\ up \in Seq(Frame)
  BY DEF EditFrames, TypeOK
<1>2. CASE SocketStep
  <2>1. up # <<>> /\ up' = Tail(up)
    BY <1>2 DEF SocketStep, SocketStores, SocketEdits, SocketStoreFails, SocketReads, Reads
  <2>2. i \in Int /\ i + 1 \in DOMAIN up /\ i + 1 # 1 /\ up'[i] = up[i + 1]
    BY <1>1, <2>1, TailAt
  <2> QED
    BY <1>1, <1>2, <2>2 DEF EditFrames
<1>3. CASE ~SocketStep
  <2>1. CASE up' = up \/ up' = <<>>
    BY <1>1, <1>3, <2>1 DEF EditFrames
  <2>2. ASSUME NEW f \in Frame, up' = Append(up, f),
               f.action \in {"read", "send"} \/ (CustomerEdits(f.mid) /\ f.text = edits')
        PROVE  \/ i \in EditFrames(m) /\ up'[i] = up[i]
               \/ CustomerEdits(m) /\ i = Len(up) + 1 /\ up'[i].text = edits'
    <3>1. (i \in DOMAIN up /\ up'[i] = up[i]) \/ (i = Len(up) + 1 /\ up'[i] = f)
      BY <1>1, <2>2, AppendedAt
    <3> QED
      BY <1>1, <2>2, <3>1 DEF EditFrames
  <2> QED
    BY <1>3, <2>1, <2>2, UpShapes
<1> QED
  BY <1>2, <1>3

LEMMA AcksAt ==
    ASSUME TypeOK, Fits, [Next]_vars, NEW m \in Mid, NEW i \in EditAcks(m)'
    PROVE  \/ ~HandlesAck /\ i \in EditAcks(m)
           \/ HandlesAck /\ i \in Int /\ i + 1 \in EditAcks(m) /\ i + 1 # 1
           \/ /\ SocketEdits \/ SocketStoreFails
              /\ up # <<>> /\ Head(up).mid = m /\ i = Len(acks) + 1
              /\ Head(up).action = "edit" \/ SocketStoreFails
<1>1. i \in DOMAIN acks' /\ acks'[i].row = NoRow /\ acks'[i].mid = m /\ acks \in Seq(Ack)
  BY DEF EditAcks, TypeOK
<1>2. CASE HandlesAck
  <2>1. acks # <<>> /\ acks' = Tail(acks)
    BY <1>2 DEF HandlesAck
  <2>2. i \in Int /\ i + 1 \in DOMAIN acks /\ i + 1 # 1 /\ acks'[i] = acks[i + 1]
    BY <1>1, <2>1, TailAt
  <2> QED
    BY <1>1, <1>2, <2>2 DEF EditAcks
<1>3. CASE ~HandlesAck
  <2>1. CASE acks' = acks \/ acks' = <<>>
    BY <1>1, <1>3, <2>1 DEF EditAcks
  <2>2. ASSUME NEW a \in Ack, acks' = Append(acks, a), up # <<>>, a.mid = Head(up).mid,
               \/ SocketStores /\ a.row = Len(rows')
               \/ /\ a.row = NoRow /\ Head(up).action = "edit"
                  /\ SocketEdits \/ SocketStoreFails
               \/ a.row = NoRow /\ Head(up).action = "send" /\ SocketStoreFails
        PROVE  \/ i \in EditAcks(m)
               \/ /\ SocketEdits \/ SocketStoreFails
                  /\ up # <<>> /\ Head(up).mid = m /\ i = Len(acks) + 1
                  /\ Head(up).action = "edit" \/ SocketStoreFails
    <3>1. (i \in DOMAIN acks /\ acks'[i] = acks[i]) \/ (i = Len(acks) + 1 /\ acks'[i] = a)
      BY <1>1, <2>2, AppendedAt
    <3>2. SocketStores => Len(rows') # NoRow
      BY SocketStoresRows DEF RowId, NoRow
    <3> QED
      BY <1>1, <2>2, <3>1, <3>2 DEF EditAcks
  <2> QED
    BY <1>3, <2>1, <2>2, AckShapes
<1> QED
  BY <1>2, <1>3

(* What waits for an ack says that it was answered for.                    *)
LEMMA NothingUnderWay ==
    ASSUME TypeOK, OInv, NEW m \in Mid, NEW r \in Stored, rows[r].mid = m, r \notin renderedIds
    PROVE  EditFrames(m) = {} /\ EditAcks(m) = {}
<1>1. ~Answered(m)
  BY MidTypes DEF OInv, AnsweredRendered
<1> QED
  BY <1>1 DEF Answered, EditFrames, EditAcks

LEMMA EditsNotedStep == TypeOK /\ Fits /\ EditsNoted /\ [Next]_vars => EditsNoted'
<1> SUFFICES ASSUME TypeOK, Fits, EditsNoted, [Next]_vars, NEW m \in Mid
             PROVE  /\ \A i \in EditFrames(m)' : m \in edited'
                    /\ \A i \in EditAcks(m)' : m \in edited' \cup unstored'
  BY DEF EditsNoted
<1>1. edited \subseteq edited' /\ unstored \subseteq unstored'
  BY HistoriesGrow, Growing DEF Grows
<1>2. ASSUME NEW i \in EditFrames(m)'
      PROVE  m \in edited'
  <2>1. EditFrames(m) # {} \/ CustomerEdits(m)
    BY FramesAt
  <2> QED
    BY <1>1, <2>1 DEF EditsNoted, CustomerEdits
<1>3. ASSUME NEW i \in EditAcks(m)'
      PROVE  m \in edited' \cup unstored'
  <2>1. CASE EditAcks(m) # {}
    BY <1>1, <2>1 DEF EditsNoted
  <2>2. CASE up # <<>> /\ Head(up).mid = m /\ Head(up).action = "edit"
    <3>1. 1 \in EditFrames(m)
      BY <2>2, FirstFrame DEF EditFrames
    <3> QED
      BY <1>1, <3>1 DEF EditsNoted
  <2>3. CASE SocketStoreFails /\ Head(up).mid = m
    BY <2>3 DEF SocketStoreFails
  <2> QED
    BY <2>1, <2>2, <2>3, AcksAt
<1> QED
  BY <1>2, <1>3

(* A bubble and an entry that stay what they were.                         *)
LEMMA OwnKept ==
    ASSUME TypeOK, Fits, OInv, OwnCurrent, [Next]_vars, ~SocketEdits,
           NEW i \in DOMAIN dom', NEW j \in DOMAIN dom, NEW m \in Mid, NEW r \in Stored',
           dom'[i].id = r, dom[j].id = r, dom[j].mid = m, dom'[i].text = dom[j].text,
           r \notin stale', r \notin late', m \notin unstored',
           entries'[m].acknowledged <=> entries[m].acknowledged,
           rows'[r].text = rows[r].text
    PROVE  OwnShows(i, m)'
<1>1. r \in Stored /\ r \notin stale /\ r \notin late /\ m \notin unstored
  BY OldBubble, HistoriesGrow, Growing DEF Grows
<1>2. OwnShows(j, m)
  BY <1>1 DEF OwnCurrent
<1>3. ~CustomerEdits(m)
  BY EditsFacts
<1>4. \A k \in EditFrames(m)' :
         \/ ~SocketStep /\ k \in EditFrames(m) /\ up'[k] = up[k]
         \/ SocketStep /\ k \in Int /\ k + 1 \in EditFrames(m) /\ up'[k] = up[k + 1]
  BY <1>3, FramesAt
<1>5. ~(SocketStoreFails /\ Head(up).mid = m)
  BY DEF SocketStoreFails
<1>6. \A k \in EditAcks(m)' :
         \/ ~HandlesAck /\ k \in EditAcks(m)
         \/ HandlesAck /\ k \in Int /\ k + 1 \in EditAcks(m)
  BY <1>5, AcksAt
<1>7. \A k, l \in EditFrames(m)' : (\A p, q \in EditFrames(m) : p = q) => k = l
  <2> SUFFICES ASSUME NEW k \in EditFrames(m)', NEW l \in EditFrames(m)',
                      \A p, q \in EditFrames(m) : p = q
               PROVE  k = l
    OBVIOUS
  <2>1. CASE SocketStep
    <3>1. k \in Int /\ l \in Int /\ k + 1 = l + 1
      BY <1>4, <2>1
    <3> QED
      BY <3>1
  <2> QED
    BY <1>4, <2>1
<1>8. \A k, l \in EditAcks(m)' : (\A p, q \in EditAcks(m) : p = q) => k = l
  <2> SUFFICES ASSUME NEW k \in EditAcks(m)', NEW l \in EditAcks(m)',
                      \A p, q \in EditAcks(m) : p = q
               PROVE  k = l
    OBVIOUS
  <2>1. CASE HandlesAck
    <3>1. k \in Int /\ l \in Int /\ k + 1 = l + 1
      BY <1>6, <2>1
    <3> QED
      BY <3>1
  <2> QED
    BY <1>6, <2>1
<1>9. entries'[m].acknowledged =>
         dom'[i].text = rows'[r].text /\ EditFrames(m)' = {} /\ EditAcks(m)' = {}
  BY <1>2, <1>4, <1>6 DEF OwnShows
<1>10. ASSUME NEW k \in EditFrames(m)'
       PROVE  up'[k].text = dom'[i].text /\ EditAcks(m)' = {} /\ \A l \in EditFrames(m)' : l = k
  <2>1. PICK p \in EditFrames(m) : up'[k] = up[p]
    BY <1>4
  <2>2. up[p].text = dom[j].text /\ EditAcks(m) = {} /\ \A l \in EditFrames(m) : l = p
    BY <1>2 DEF OwnShows
  <2> QED
    BY <1>6, <1>7, <2>1, <2>2
<1>11. ASSUME NEW k \in EditAcks(m)'
       PROVE  dom'[i].text = rows'[r].text /\ \A l \in EditAcks(m)' : l = k
  <2>1. PICK p \in EditAcks(m) : TRUE
    BY <1>6
  <2>2. dom[j].text = rows[r].text /\ \A l \in EditAcks(m) : l = p
    BY <1>2 DEF OwnShows
  <2> QED
    BY <1>8, <2>2
<1> QED
  BY <1>9, <1>10, <1>11 DEF OwnShows

(* The edit that is read makes the row what the bubble shows.              *)
LEMMA OwnEditRead ==
    ASSUME TypeOK, Fits, OInv, IdsOfRows, OwnCurrent, [Next]_vars, SocketEdits,
           NEW i \in DOMAIN dom, NEW m \in Mid, NEW r \in Stored',
           dom[i].id = r, dom[i].mid = m, r \notin stale', r \notin late', m \notin unstored'
    PROVE  OwnShows(i, m)'
<1>1. /\ UNCHANGED <<dom, entries>> /\ up # <<>> /\ SocketStep
      /\ \A s \in Stored : s \in RowOf(Head(up).mid) => rows'[s] = [rows[s] EXCEPT !.text = Head(up).text]
      /\ \A s \in Stored : s \notin RowOf(Head(up).mid) => rows'[s] = rows[s]
  BY DEF SocketEdits, domVars, Reads, SocketStep
<1>2. r \in Stored /\ r \notin stale /\ r \notin late /\ m \notin unstored /\ rows[r].mid = m
  BY OldBubble, HistoriesGrow, Growing DEF Grows, IdsOfRows
<1>3. OwnShows(i, m)
  BY <1>2 DEF OwnCurrent
<1>4. \A k \in EditFrames(m)' : k \in Int /\ k + 1 \in EditFrames(m) /\ k + 1 # 1 /\ up'[k] = up[k + 1]
  <2>1. entries'[m].acknowledged <=> entries[m].acknowledged
    BY <1>1
  <2>2. ~CustomerEdits(m)
    BY <2>1, EditsFacts
  <2> QED
    BY <1>1, <2>2, FramesAt
<1>5. ~HandlesAck
  BY <1>1 DEF SocketEdits, HandlesAck, Reads
<1>6. rows[r] \in Row
  BY <1>2, StoredRows
<1>7. CASE Head(up).mid = m
  <2>1. 1 \in EditFrames(m) /\ up[1] = Head(up)
    BY <1>1, <1>7, FirstFrame DEF SocketEdits, Reads, EditFrames
  <2>2. up[1].text = dom[i].text /\ EditAcks(m) = {} /\ \A l \in EditFrames(m) : l = 1
    BY <1>3, <2>1 DEF OwnShows
  <2>3. EditFrames(m)' = {}
    BY <1>4, <2>2
  <2>4. \A k \in EditAcks(m)' : k = Len(acks) + 1
    BY <1>5, <2>2, AcksAt
  <2>5. rows'[r].text = dom'[i].text
    <3>1. rows'[r] = [rows[r] EXCEPT !.text = Head(up).text]
      BY <1>1, <1>2, <1>7 DEF RowOf
    <3>2. rows'[r].text = Head(up).text
      BY <1>6, <3>1 DEF Row
    <3> QED
      BY <1>1, <2>1, <2>2, <3>2
  <2>6. ~entries'[m].acknowledged
    BY <1>1, <1>3, <2>1 DEF OwnShows
  <2> QED
    BY <1>1, <2>3, <2>4, <2>5, <2>6 DEF OwnShows
<1>8. CASE Head(up).mid # m
  <2>1. rows'[r].text = rows[r].text
    BY <1>1, <1>2, <1>8 DEF RowOf
  <2>2. \A k \in EditAcks(m)' : k \in EditAcks(m)
    BY <1>5, <1>8, AcksAt
  <2>3. entries'[m].acknowledged =>
           dom'[i].text = rows'[r].text /\ EditFrames(m)' = {} /\ EditAcks(m)' = {}
    BY <1>1, <1>3, <1>4, <2>1, <2>2 DEF OwnShows
  <2>4. ASSUME NEW k \in EditFrames(m)'
        PROVE  up'[k].text = dom'[i].text /\ EditAcks(m)' = {} /\ \A l \in EditFrames(m)' : l = k
    <3>1. k \in Int /\ k + 1 \in EditFrames(m) /\ up'[k] = up[k + 1]
      BY <1>4
    <3>2. up[k + 1].text = dom[i].text /\ EditAcks(m) = {} /\ \A l \in EditFrames(m) : l = k + 1
      BY <1>3, <3>1 DEF OwnShows
    <3>3. ASSUME NEW l \in EditFrames(m)'
          PROVE  l = k
      <4>1. l \in Int /\ l + 1 = k + 1
        BY <1>4, <3>2
      <4> QED
        BY <3>1, <4>1
    <3> QED
      BY <1>1, <2>2, <3>1, <3>2, <3>3
  <2>5. \A k \in EditAcks(m)' : dom'[i].text = rows'[r].text /\ \A l \in EditAcks(m)' : l = k
    BY <1>1, <1>3, <2>1, <2>2 DEF OwnShows
  <2> QED
    BY <1>1, <2>3, <2>4, <2>5 DEF OwnShows
<1> QED
  BY <1>7, <1>8

(* The page's steps keep the table.                                        *)
LEMMA OwnPageStep ==
    ASSUME TypeOK, Fits, OInv, EventsInOrder, FoundCurrent, IdsOfRows, OwnBubbles, RowsPlain, DraftsPlain,
           OwnCurrent, [Next]_vars, TabStep, ~SocketEdits,
           NEW i \in DOMAIN dom', NEW m \in Mid, NEW r \in Stored',
           dom'[i].id = r, dom'[i].mid = m, r \notin stale', r \notin late', m \notin unstored'
    PROVE  OwnShows(i, m)'
<1>1. UNCHANGED rows /\ Stored' = Stored
  BY PageKeepsRows
<1>2. ASSUME NEW j \in DOMAIN dom, dom'[i] = dom[j],
             entries'[m].acknowledged <=> entries[m].acknowledged
      PROVE  OwnShows(i, m)'
  BY <1>1, <1>2, OwnKept
<1>3. NoRow \notin Stored
  BY MidTypes
<1>4. CASE CustomerSends
  BY <1>1, <1>2, <1>3, <1>4, SendsFacts
<1>5. ASSUME NEW q \in Mid, CustomerEdits(q)
      PROVE  OwnShows(i, m)'
  <2>1. i \in DOMAIN dom /\ dom[i].id = r /\ dom[i].mid = m /\ r \in Stored
    BY <1>1, <1>5, EditsFacts
  <2>2. CASE q # m
    <3>1. dom'[i] = dom[i] /\ entries'[m] = entries[m]
      BY <1>5, <2>1, <2>2, EditsFacts
    <3> QED
      BY <1>2, <2>1, <3>1
  <2>3. CASE q = m
    <3>1. entries[m].bubble = i
      BY <2>1 DEF OwnBubbles
    <3>2. dom'[i].text = edits' /\ ~entries'[m].acknowledged /\ entries[m].acknowledged
      BY <1>5, <2>1, <2>3, <3>1, EditsFacts
    <3>3. r \notin stale /\ r \notin late /\ m \notin unstored
      BY <1>5, <2>3, EditsFacts
    <3>4. EditFrames(m) = {} /\ EditAcks(m) = {}
      BY <2>1, <3>2, <3>3 DEF OwnCurrent, OwnShows
    <3>5. EditAcks(m)' = {}
      BY <1>5, <3>4, EditsFacts DEF EditAcks
    <3>6. \A k \in EditFrames(m)' : k = Len(up) + 1 /\ up'[k].text = edits'
      BY <3>4, FramesAt
    <3> QED
      BY <3>2, <3>5, <3>6 DEF OwnShows
  <2> QED
    BY <2>2, <2>3
<1>6. CASE HandlesAck
  <2>1. PICK a : a = Head(acks)
    OBVIOUS
  <2>2. /\ i \in DOMAIN dom /\ dom[i].mid = m /\ dom'[i].text = dom[i].text
        /\ UNCHANGED <<stale, unstored>> /\ late \subseteq late' /\ up' = up
        /\ a.mid \in Mid
    BY <1>6, <2>1, AckFacts
  <2>3. CASE a.mid # m
    <3>1. dom'[i] = dom[i] /\ entries'[m] = entries[m]
      BY <1>6, <2>1, <2>2, <2>3, AckFacts
    <3> QED
      BY <1>2, <2>2, <3>1
  <2>4. EditFrames(m)' = EditFrames(m)
    BY <2>2 DEF EditFrames
  <2>5. entries'[m].acknowledged \/ a.mid # m
    BY <1>6, <2>1, AckFacts
  <2>6. CASE a.mid = m /\ a.row = NoRow
    <3>1. dom[i].id = r
      BY <1>6, <2>1, <2>2, <2>6, AckFacts
    <3>2. OwnShows(i, m)
      BY <1>1, <2>2, <3>1 DEF OwnCurrent
    <3>3. 1 \in EditAcks(m)
      BY <1>6, <2>1, <2>6, AckFacts DEF EditAcks
    <3>4. dom[i].text = rows[r].text /\ \A l \in EditAcks(m) : l = 1
      BY <3>1, <3>2, <3>3 DEF OwnShows
    <3>5. EditFrames(m) = {}
      BY <3>2, <3>3 DEF OwnShows
    <3>6. ~SocketStoreFails
      BY <1>6 DEF SocketStoreFails, HandlesAck, Fails, countVars, TypeOK
    <3>7. EditAcks(m)' = {}
      BY <1>6, <3>4, <3>6, AcksAt
    <3> QED
      BY <1>1, <2>2, <2>4, <3>4, <3>5, <3>7 DEF OwnShows
  <2>7. CASE a.mid = m /\ a.row # NoRow
    <3>1. a.row \in Stored /\ rows[a.row].mid = m /\ IsMine(a.row)
      BY <1>6, <2>1, <2>7, AckFacts
    <3>2. i = entries[m].bubble /\ r = a.row
      <4>1. CASE i = entries[m].bubble
        BY <1>6, <2>1, <2>2, <2>7, <4>1, AckFacts
      <4>2. CASE i # entries[m].bubble
        <5>1. dom[i].id = r
          BY <1>6, <2>1, <2>2, <2>7, <4>2, AckFacts
        <5> QED
          BY <1>1, <2>2, <4>2, <5>1 DEF OwnBubbles
      <4> QED
        BY <4>1, <4>2
    <3>3. r \notin renderedIds
      BY <1>6, <2>1, <3>2, AckFacts
    <3>4. EditFrames(m) = {} /\ EditAcks(m) = {}
      BY <3>1, <3>2, <3>3, NothingUnderWay
    <3>5. dom[i].id = NoRow
      <4> SUFFICES ASSUME dom[i].id # NoRow
                   PROVE  FALSE
        OBVIOUS
      <4>1. dom[i].id \in Stored /\ dom[i].id \in renderedIds
        BY <2>2, KnownBubbles DEF OInv, BubblesKnown
      <4>2. rows[dom[i].id].mid = m
        BY <2>2, <4>1 DEF IdsOfRows
      <4>3. dom[i].id = r
        BY <3>1, <3>2, <4>1, <4>2 DEF OInv, MidsOnce
      <4> QED
        BY <3>3, <4>1, <4>3
    <3>6. dom[i].text = 0
      BY <2>2, <3>5 DEF DraftsPlain
    <3>7. rows[r].text = 0
      BY <3>1, <3>2, <3>3 DEF RowsPlain
    <3>8. EditAcks(m)' = {}
      <4>1. \A k \in EditAcks(m)' : FALSE
        <5>1. ~SocketStoreFails
          BY <1>6 DEF SocketStoreFails, HandlesAck, Fails, countVars, TypeOK
        <5> QED
          BY <3>4, <5>1, AcksAt
      <4> QED
        BY <4>1
    <3> QED
      BY <1>1, <2>2, <2>4, <3>4, <3>6, <3>7, <3>8 DEF OwnShows
  <2> QED
    BY <2>3, <2>6, <2>7
<1>7. ASSUME NEW e \in stream, HandlesEvent(e)
      PROVE  OwnShows(i, m)'
  <2>1. CASE HandlesMessage(e)
    BY <1>2, <1>7, <2>1, MessageFacts, MidTypes
  <2>2. CASE HandlesUpdate(e)
    <3>1. /\ i \in DOMAIN dom /\ dom[i].id = r /\ dom[i].mid = m /\ entries' = entries
          /\ dom'[i].text = dom[i].text \/ (e.kind = "edit" /\ e.row = r)
      BY <1>7, <2>2, UpdateFacts
    <3>2. IsMine(r)
      BY <1>1, <3>1, MidTypes DEF IdsOfRows
    <3>3. e.kind = "edit" => ~IsMine(e.row)
      BY DEF EventsInOrder
    <3> QED
      BY <1>1, <3>1, <3>2, <3>3, OwnKept
  <2> QED
    BY <1>7, <2>1, <2>2 DEF HandlesEvent
<1>8. ASSUME NEW f \in fetches, HistoryIsDrawn(f)
      PROVE  OwnShows(i, m)'
  <2> DEFINE R == Unrendered(f.found)
  <2>1. PICK down \in Nat, at \in [R -> Int] : PlacedAt(f, down, at)
    BY <1>8, HistoryAt
  <2>2. \A q \in R : q \in DOMAIN f.found /\ q \in Stored /\ q \notin renderedIds /\ f.found[q].mid = rows[q].mid
    BY <1>8, HistoryFacts
  <2>3. \/ \E j \in DOMAIN dom : i = j + down /\ dom'[i] = dom[j]
        \/ \E q \in R : i = at[q] /\ dom'[i] = HistoryBubble(q, f.found[q])
    BY <2>1 DEF PlacedAt
  <2>4. \/ \E q \in R : f.found[q].mid = m /\ entries'[m].acknowledged
        \/ /\ \A q \in R : f.found[q].mid # m
           /\ entries'[m].acknowledged = entries[m].acknowledged
    BY <2>1 DEF PlacedAt
  <2>5. \A p, q \in Stored : rows[p].mid = m /\ rows[q].mid = m => p = q
    BY MidTypes DEF OInv, MidsOnce
  <2>6. r \in R /\ r \in stale => f.found[r] = rows[r]
    BY <1>8, HistoryFacts
  <2> HIDE DEF R
  <2>7. ASSUME NEW j \in DOMAIN dom, dom'[i] = dom[j]
        PROVE  OwnShows(i, m)'
    <3>1. r \in Stored /\ r \in renderedIds
      BY <2>7, OldBubble
    <3>2. rows[r].mid = m
      BY <2>7, <3>1 DEF IdsOfRows
    <3>3. entries'[m].acknowledged = entries[m].acknowledged
      BY <2>2, <2>4, <2>5, <3>1, <3>2
    <3> QED
      BY <1>2, <2>7, <3>3
  <2>8. ASSUME NEW q \in R, dom'[i] = HistoryBubble(q, f.found[q])
        PROVE  OwnShows(i, m)'
    <3>1. q = r /\ f.found[q].mid = m /\ dom'[i].text = f.found[q].text
      BY <2>8, RowsBubble
    <3>2. r \in Stored /\ rows[r].mid = m /\ r \notin renderedIds /\ r \in DOMAIN f.found
      BY <2>2, <3>1
    <3>3. f.found[r].text = rows[r].text
      <4>1. CASE r \in stale
        BY <2>6, <3>1, <4>1
      <4>2. CASE r \notin stale
        <5>1. Current(r, f.found[r].text)
          BY <3>2, <4>2 DEF FoundCurrent
        <5>2. EditOf(r) \notin stream
          <6>1. IsMine(r) /\ EditOf(r).kind = "edit" /\ EditOf(r).row = r
            BY <3>2, MidTypes DEF EditOf
          <6> QED
            BY <6>1 DEF EventsInOrder
        <5> QED
          BY <5>1, <5>2 DEF Current
      <4> QED
        BY <4>1, <4>2
    <3>4. EditFrames(m) = {} /\ EditAcks(m) = {}
      BY <3>2, NothingUnderWay
    <3>5. EditAcks(m)' = {}
      BY <1>8, <3>4, HistoryFacts DEF EditAcks
    <3>6. EditFrames(m)' = {}
      <4>1. ~CustomerEdits(m)
        BY <2>2, <2>4, <2>5, <3>1, <3>2, EditsFacts
      <4> QED
        BY <3>4, <4>1, FramesAt
    <3> QED
      BY <1>1, <3>1, <3>3, <3>5, <3>6 DEF OwnShows
  <2> QED
    BY <2>3, <2>7, <2>8
<1> QED
  BY <1>4, <1>5, <1>6, <1>7, <1>8 DEF TabStep

LEMMA OwnCurrentStep ==
    TypeOK /\ Fits /\ OInv /\ SInv /\ [Next]_vars => OwnCurrent'
<1> SUFFICES ASSUME TypeOK, Fits, OInv, SInv, [Next]_vars,
                    NEW i \in DOMAIN dom', NEW m \in Mid, m \notin unstored', NEW r \in Stored',
                    dom'[i].id = r, r \notin stale', r \notin late', dom'[i].mid = m
             PROVE  OwnShows(i, m)'
  BY DEF OwnCurrent
<1>1. CASE SocketEdits
  <2>1. UNCHANGED dom
    BY <1>1 DEF SocketEdits, domVars
  <2> QED
    BY <1>1, <2>1, OwnEditRead DEF SInv
<1>2. CASE ~SocketEdits /\ TabStep
  BY <1>2, OwnPageStep DEF SInv
<1>3. CASE ~SocketEdits /\ PageStands
  <2>1. i \in DOMAIN dom /\ UNCHANGED <<dom, entries>>
    BY <1>3 DEF PageStands
  <2>2. r \in Stored /\ rows[r].mid = m
    BY <2>1, OldBubble DEF SInv, IdsOfRows
  <2>3. rows'[r].text = rows[r].text
    BY <1>3, <2>2, RowTexts, MidTypes
  <2> QED
    BY <1>3, <2>1, <2>3, OwnKept DEF SInv
<1> QED
  BY <1>1, <1>2, <1>3, StepKinds

(* What a reply's bubble shows.                                            *)
LEMMA RepliesCurrentStep == TypeOK /\ Fits /\ OInv /\ SInv /\ [Next]_vars => RepliesCurrent'
<1> SUFFICES ASSUME TypeOK, Fits, OInv, SInv, [Next]_vars,
                    NEW i \in DOMAIN dom', NEW r \in Stored', dom'[i].id = r, r \notin stale',
                    ~IsMine(r)', IsFirst(i)', NEW text, dom'[i].text = text
             PROVE  Current(r, text)'
  BY DEF RepliesCurrent, Current, EditOf, IsMine
<1> DEFINE Handled == EditOf(r) \in stream /\ HandlesEvent(EditOf(r)) /\ HandlesUpdate(EditOf(r))
<1>1. r \in Stored /\ Current(r, text) => Current(r, text)' \/ (Handled /\ UNCHANGED rows)
  BY RowTexts, CurrentStep DEF SInv
<1>2. CASE Handled /\ UNCHANGED rows
  <2>1. PICK e \in stream : /\ e = EditOf(r) /\ HandlesEvent(e) /\ HandlesUpdate(e)
                            /\ e.kind = "edit" /\ e.row = r /\ e.text = rows[r].text
    BY <1>2 DEF EditOf
  <2>2. i \in FirstOf(r)
    BY <2>1, Bubbles, UpdateFacts DEF FirstOf, IsFirst
  <2>3. text = rows[r].text
    BY <2>1, <2>2, UpdateFacts
  <2> QED
    BY <1>2, <2>3 DEF Current
<1> HIDE DEF Handled
<1>3. ASSUME NEW j \in DOMAIN dom, dom[j].id = r, dom[j].text = text, IsFirst(j)
      PROVE  Current(r, text)'
  <2>1. r \in Stored /\ r \notin stale /\ ~IsMine(r)
    BY <1>3, OldBubble DEF IsMine
  <2>2. Current(r, text)
    BY <1>3, <2>1 DEF SInv, RepliesCurrent
  <2> QED
    BY <1>1, <1>2, <2>1, <2>2
<1>4. \A j \in 1 .. i - 1 : dom'[j].id # r
  BY DEF IsFirst
<1>5. \A j \in DOMAIN dom : dom[j].id = r => ~(dom[j].mid \in Mid) /\ r \in Stored
  BY OldBubble, MidTypes DEF SInv, IdsOfRows, IsMine
<1>6. r # NoRow /\ i \in Int
  <2>1. dom' \in Seq(Bubble) /\ rows' \in Seq(Row)
    BY TypesStep DEF TypeOK
  <2> QED
    BY <2>1 DEF Stored, NoRow
<1>7. CASE PageStands
  BY <1>3, <1>7 DEF PageStands, IsFirst
<1>8. CASE CustomerSends
  <2>1. i \in DOMAIN dom /\ dom[i] = dom'[i]
    BY <1>6, <1>8, SendsFacts
  <2>2. IsFirst(i)
    BY <1>4, <1>8, <2>1, Bubbles, SendsFacts DEF IsFirst
  <2> QED
    BY <1>3, <2>1, <2>2
<1>9. ASSUME NEW m \in Mid, CustomerEdits(m)
      PROVE  Current(r, text)'
  <2>1. i \in DOMAIN dom /\ dom[i].id = r
    BY <1>9, EditsFacts
  <2>2. i # entries[m].bubble
    BY <1>5, <1>9, <2>1, EditsFacts
  <2>3. dom[i].text = text
    BY <1>9, <2>1, <2>2, EditsFacts
  <2>4. IsFirst(i)
    BY <1>4, <1>9, <2>1, Bubbles, EditsFacts DEF IsFirst
  <2> QED
    BY <1>3, <2>1, <2>3, <2>4
<1>10. CASE HandlesAck
  <2>1. PICK a : a = Head(acks)
    OBVIOUS
  <2>2. /\ DOMAIN dom' = DOMAIN dom /\ Stored' = Stored /\ UNCHANGED rows /\ a.mid \in Mid
        /\ a.row # NoRow => IsMine(a.row)
        /\ \A j \in DOMAIN dom :
              /\ dom'[j].text = dom[j].text
              /\ \/ dom'[j].id = dom[j].id
                 \/ dom[j].mid = a.mid /\ dom'[j].id = a.row /\ a.row # NoRow
    BY <1>10, <2>1, AckFacts
  <2>3. dom[i].id = r /\ dom[i].text = text
    BY <2>2 DEF IsMine
  <2>4. \A j \in DOMAIN dom : dom[j].id = r => dom'[j].id = r
    BY <1>5, <2>2
  <2>5. IsFirst(i)
    BY <1>4, <2>2, <2>3, <2>4, Bubbles DEF IsFirst
  <2> QED
    BY <1>3, <2>2, <2>3, <2>5
<1>11. ASSUME NEW e \in stream, HandlesEvent(e)
       PROVE  Current(r, text)'
  <2>1. CASE HandlesMessage(e)
    <3>1. CASE i \in DOMAIN dom
      <4>1. dom'[i] = dom[i]
        BY <1>11, <2>1, <3>1, MessageFacts
      <4>2. IsFirst(i)
        BY <1>4, <1>11, <2>1, <3>1, <4>1, Bubbles, MessageFacts DEF IsFirst
      <4> QED
        BY <1>3, <3>1, <4>1, <4>2
    <3>2. CASE i \notin DOMAIN dom
      <4>1. r = e.row /\ text = 0 /\ e.kind = "message" /\ r \in Stored
        BY <1>11, <2>1, <3>2, MessageFacts
      <4>2. Current(r, text)
        BY <4>1 DEF SInv, EventsInOrder
      <4> QED
        BY <1>1, <1>2, <4>1, <4>2
    <3> QED
      BY <3>1, <3>2
  <2>2. CASE HandlesUpdate(e)
    <3>1. /\ DOMAIN dom' = DOMAIN dom /\ dom[i].id = r /\ UNCHANGED rows /\ stream' = stream \ {e}
          /\ \A j \in DOMAIN dom : dom'[j].id = dom[j].id
      BY <1>11, <2>2, UpdateFacts
    <3>2. IsFirst(i)
      BY <1>4, <3>1, Bubbles DEF IsFirst
    <3>3. CASE dom[i].text = text
      BY <1>3, <3>1, <3>2, <3>3
    <3>4. CASE dom[i].text # text
      <4>1. e.kind = "edit" /\ text = e.text /\ r = e.row
        BY <1>11, <2>2, <3>1, <3>4, UpdateFacts
      <4>2. EditOf(r) \in stream /\ EditOf(r).text = rows[r].text
        BY <4>1 DEF SInv, EventsInOrder, EditOf
      <4>3. CASE e = EditOf(r)
        BY <3>1, <4>1, <4>2, <4>3 DEF Current
      <4>4. CASE e # EditOf(r)
        BY <3>1, <4>2, <4>4 DEF Current, EditOf
      <4> QED
        BY <4>3, <4>4
    <3> QED
      BY <3>3, <3>4
  <2> QED
    BY <1>11, <2>1, <2>2 DEF HandlesEvent
<1>12. ASSUME NEW f \in fetches, HistoryIsDrawn(f)
       PROVE  Current(r, text)'
  <2> DEFINE R == Unrendered(f.found)
  <2>1. PICK down \in Nat, at \in [R -> Int] : PlacedAt(f, down, at)
    BY <1>12, HistoryAt
  <2>2. /\ \A q \in R : q \in DOMAIN f.found /\ q \in Stored /\ q \notin renderedIds
        /\ r \in R /\ r \in stale => f.found[r] = rows[r]
    BY <1>12, HistoryFacts
  <2>3. \/ \E j \in DOMAIN dom : i = j + down /\ dom'[i] = dom[j]
        \/ \E q \in R : dom'[i] = HistoryBubble(q, f.found[q])
    BY <2>1 DEF PlacedAt
  <2>4. \A j \in DOMAIN dom : j + down \in DOMAIN dom' /\ dom'[j + down] = dom[j]
    BY <2>1 DEF PlacedAt
  <2> HIDE DEF R
  <2>5. ASSUME NEW j \in DOMAIN dom, i = j + down, dom'[i] = dom[j]
        PROVE  Current(r, text)'
    <3>1. ASSUME NEW k \in 1 .. j - 1
          PROVE  dom[k].id # r
      <4>1. k \in DOMAIN dom /\ k + down \in 1 .. i - 1
        BY <2>5, Bubbles
      <4> QED
        BY <1>4, <2>4, <4>1
    <3> QED
      BY <1>3, <2>5, <3>1 DEF IsFirst
  <2>6. ASSUME NEW q \in R, dom'[i] = HistoryBubble(q, f.found[q])
        PROVE  Current(r, text)'
    <3>1. q = r /\ text = f.found[r].text
      BY <2>6, RowsBubble
    <3>2. r \in Stored /\ r \in DOMAIN f.found /\ r \notin renderedIds
      BY <2>2, <3>1
    <3>3. Current(r, text)
      <4>1. CASE r \in stale
        BY <2>2, <3>1, <4>1 DEF Current
      <4>2. CASE r \notin stale
        BY <3>1, <3>2, <4>2 DEF SInv, FoundCurrent
      <4> QED
        BY <4>1, <4>2
    <3> QED
      BY <1>1, <1>2, <3>2, <3>3
  <2> QED
    BY <2>3, <2>5, <2>6
<1> QED
  BY <1>7, <1>8, <1>9, <1>10, <1>11, <1>12, StepKinds DEF TabStep

(* The ticks of an own bubble.                                             *)
LEMMA MarksCurrentStep == TypeOK /\ Fits /\ OInv /\ SInv /\ [Next]_vars => MarksCurrent'
<1> SUFFICES ASSUME TypeOK, Fits, OInv, SInv, [Next]_vars,
                    NEW i \in DOMAIN dom', NEW m \in Mid, NEW r \in Stored', dom'[i].id = r, dom'[i].mid = m,
                    r \notin stale', r \notin late', m \notin edited', m \notin unstored', rows'[r].read
             PROVE  dom'[i].mark = "two" \/ ReadOf(r) \in stream'
  BY DEF MarksCurrent, ReadOf
<1>1. /\ edited \subseteq edited' /\ unstored \subseteq unstored' /\ late \subseteq late'
  BY HistoriesGrow, Growing DEF Grows
<1> DEFINE Handled == /\ ReadOf(r) \in stream /\ HandlesEvent(ReadOf(r)) /\ HandlesUpdate(ReadOf(r))
                      /\ FirstOf(r) # {}
<1>2. ASSUME r \in Stored, IsMine(r), rows[r].read => ReadOf(r) \in stream
      PROVE  ReadOf(r) \in stream' \/ Handled
  <2>1. CASE ReadOf(r) \in stream /\ ReadOf(r) \notin stream'
    <3>1. ReadOf(r).kind = "read" /\ ReadOf(r).row = r
      BY DEF ReadOf
    <3> QED
      BY <2>1, <3>1, StreamLoses
  <2>2. CASE ~rows[r].read
    BY <1>2, <2>2, RowTexts
  <2> QED
    BY <1>2, <2>1, <2>2
<1>3. IsMine(r)'
  <2>1. \A j \in DOMAIN dom' : dom'[j].id = r => dom'[j].mid = rows'[r].mid
    BY IdsOfRowsStep DEF SInv, IdsOfRows
  <2> QED
    BY <2>1, MidTypes DEF IsMine
<1>4. CASE Handled
  <2>1. PICK e \in stream : /\ e = ReadOf(r) /\ HandlesEvent(e) /\ HandlesUpdate(e)
                            /\ e.kind = "read" /\ e.row = r
    BY <1>4 DEF ReadOf
  <2>2. PICK k \in FirstOf(r) : TRUE
    BY <1>4
  <2>3. /\ k \in DOMAIN dom /\ dom[k].id = r /\ dom'[k].mark = "two"
        /\ i \in DOMAIN dom /\ dom[i].id = r /\ dom[i].mid = m /\ r \in Stored
    BY <2>1, UpdateFacts DEF FirstOf
  <2>4. dom[k].mid = m
    BY <2>3 DEF SInv, IdsOfRows
  <2>5. entries[m].bubble = i /\ entries[m].bubble = k
    BY <2>3, <2>4 DEF SInv, OwnBubbles
  <2> QED
    BY <2>3, <2>5
<1> HIDE DEF Handled
<1>5. ASSUME NEW j \in DOMAIN dom, dom[j].id = r, dom[j].mid = m,
             dom'[i].mark = dom[j].mark \/ dom'[i].mark = "two"
      PROVE  dom'[i].mark = "two" \/ ReadOf(r) \in stream'
  <2>1. r \in Stored /\ r \notin stale /\ r \notin late /\ IsMine(r)
    BY <1>1, <1>3, <1>5, OldBubble DEF IsMine
  <2>2. rows[r].read => dom[j].mark = "two" \/ ReadOf(r) \in stream
    BY <1>1, <1>5, <2>1 DEF SInv, MarksCurrent
  <2>3. CASE dom[j].mark = "two"
    BY <1>5, <2>3
  <2> QED
    BY <1>2, <1>4, <2>1, <2>2, <2>3
<1>6. ASSUME r \in Stored, r \notin renderedIds, r \notin stale
      PROVE  rows[r].read => ReadOf(r) \in stream
  BY <1>3, <1>6, RowTexts DEF SInv, ReadsCome
<1>7. CASE PageStands
  BY <1>5, <1>7 DEF PageStands
<1>8. NoRow \notin Stored
  BY MidTypes
<1>9. CASE CustomerSends
  BY <1>5, <1>8, <1>9, SendsFacts
<1>10. ASSUME NEW q \in Mid, CustomerEdits(q)
       PROVE  dom'[i].mark = "two" \/ ReadOf(r) \in stream'
  BY <1>5, <1>10, EditsFacts
<1>11. CASE HandlesAck
  <2>1. PICK a : a = Head(acks)
    OBVIOUS
  <2>2. /\ i \in DOMAIN dom /\ dom[i].mid = m /\ UNCHANGED <<stream, rows, stale, edited, unstored>>
        /\ r \in Stored /\ late' = late \cup ({a.row} \cap renderedIds)
    BY <1>11, <2>1, AckFacts
  <2>3. CASE i # entries[a.mid].bubble
    BY <1>5, <1>11, <2>1, <2>2, <2>3, AckFacts
  <2>4. CASE i = entries[a.mid].bubble
    <3>1. a.mid = m
      BY <1>11, <2>1, <2>2, <2>4, AckFacts
    <3>2. CASE a.row = NoRow
      <4>1. 1 \in EditAcks(m)
        BY <1>11, <2>1, <3>1, <3>2, AckFacts DEF EditAcks
      <4> QED
        BY <1>1, <4>1 DEF SInv, EditsNoted
    <3>3. CASE a.row # NoRow
      <4>1. r = a.row
        BY <1>11, <2>1, <2>2, <2>4, <3>3, AckFacts
      <4> QED
        BY <1>6, <2>2, <4>1
    <3> QED
      BY <3>2, <3>3
  <2> QED
    BY <2>3, <2>4
<1>12. ASSUME NEW e \in stream, HandlesEvent(e)
       PROVE  dom'[i].mark = "two" \/ ReadOf(r) \in stream'
  <2>1. CASE HandlesMessage(e)
    BY <1>5, <1>12, <2>1, MessageFacts, MidTypes
  <2>2. CASE HandlesUpdate(e)
    BY <1>5, <1>12, <2>2, UpdateFacts
  <2> QED
    BY <1>12, <2>1, <2>2 DEF HandlesEvent
<1>13. ASSUME NEW f \in fetches, HistoryIsDrawn(f)
       PROVE  dom'[i].mark = "two" \/ ReadOf(r) \in stream'
  <2>1. PICK down \in Nat, at \in [Unrendered(f.found) -> Int] : PlacedAt(f, down, at)
    BY <1>13, HistoryAt
  <2>2. ASSUME NEW q \in Unrendered(f.found), dom'[i] = HistoryBubble(q, f.found[q])
        PROVE  dom'[i].mark = "two" \/ ReadOf(r) \in stream'
    <3>1. /\ q = r /\ f.found[r].mid = m
          /\ f.found[r].mid # NoMid /\ f.found[r].read => dom'[i].mark = "two"
      BY <2>2, RowsBubble
    <3>2. /\ UNCHANGED <<rows, stream>> /\ r \in Stored /\ r \notin renderedIds
          /\ r \in stale => f.found[r] = rows[r]
      BY <1>13, <3>1, HistoryFacts
    <3>3. CASE r \in stale
      BY <3>1, <3>2, <3>3, MidTypes
    <3>4. CASE r \notin stale
      BY <1>6, <3>2, <3>4
    <3> QED
      BY <3>3, <3>4
  <2> QED
    BY <1>5, <2>1, <2>2 DEF PlacedAt
<1> QED
  BY <1>7, <1>9, <1>10, <1>11, <1>12, <1>13, StepKinds DEF TabStep

LEMMA InitSettles == Init => SInv
<1> SUFFICES ASSUME Init
             PROVE  SInv
  OBVIOUS
<1>1. EventsInOrder /\ FoundCurrent /\ RepliesCurrent /\ IdsOfRows /\ OwnBubbles /\ DraftsPlain
      /\ EditsNoted /\ OwnCurrent /\ MarksCurrent
  BY DEF Init, EventsInOrder, FoundCurrent, RepliesCurrent, IdsOfRows, OwnBubbles, DraftsPlain,
         EditsNoted, EditFrames, EditAcks, OwnCurrent, MarksCurrent
<1>2. TextsCounted /\ RowsPlain /\ ReadsCome
  BY DEF Init, TextsCounted, RowsPlain, ReadsCome, Stored, IsMine
<1> QED
  BY <1>1, <1>2 DEF SInv

(* What has no spinner, and was not overtaken by what nobody told the page *)
(* of, shows the table (widget.html handleAck, updateReadStatus,           *)
(* updateInboundEdit).                                                     *)
THEOREM BubblesSettled == Spec => []BubblesSettle
<1>1. Spec => [](IInv /\ OInv)
  BY Holds, OnceHolds, PTL
<1>2. IInv /\ OInv /\ SInv /\ [Next]_vars => SInv'
  BY EventsInOrderStep, TextsCountedStep, FoundCurrentStep, RepliesCurrentStep, IdsOfRowsStep,
     OwnBubblesStep, RowsPlainStep, DraftsPlainStep, EditsNotedStep, OwnCurrentStep, ReadsComeStep,
     MarksCurrentStep
     DEF IInv, SInv
<1>3. IInv /\ OInv /\ SInv => BubblesSettle
  <2> SUFFICES ASSUME TypeOK, Fits, OInv, SInv, Quiet, NEW i \in DOMAIN dom, NEW r, dom[i].id = r,
                      r # NoRow, r \notin stale, r \notin late, IsFirst(i), dom[i].mid \notin unstored,
                      ~\E m \in Mid : entries[m].bubble = i /\ ~entries[m].acknowledged
               PROVE  /\ dom[i].text = rows[r].text
                      /\ dom[i].mid \in Mid \ edited => (dom[i].mark = "two" <=> rows[r].read)
    BY DEF IInv, BubblesSettle, IsFirst
  <2>1. r \in Stored /\ dom[i].mid = rows[r].mid
    BY KnownBubbles DEF SInv, IdsOfRows
  <2>2. CASE ~IsMine(r)
    <3>1. dom[i].text = rows[r].text
      BY <2>1, <2>2 DEF SInv, RepliesCurrent, Current, Quiet
    <3>2. dom[i].mid \notin Mid
      BY <2>1, <2>2, MidTypes
    <3> QED
      BY <3>1, <3>2
  <2>3. CASE IsMine(r)
    <3>1. PICK m \in Mid : m = dom[i].mid
      BY <2>1, <2>3, MidTypes
    <3>2. entries[m].acknowledged
      BY <2>1, <3>1 DEF SInv, OwnBubbles
    <3>3. dom[i].text = rows[r].text
      BY <2>1, <3>1, <3>2 DEF SInv, OwnCurrent, OwnShows
    <3>4. rows[r].read /\ m \notin edited => dom[i].mark = "two"
      BY <2>1, <3>1 DEF SInv, MarksCurrent, Quiet
    <3>5. dom[i].mark = "two" => rows[r].read
      BY DEF Fits, BubblesFit, BubbleFits
    <3> QED
      BY <3>1, <3>3, <3>4, <3>5
  <2> QED
    BY <2>2, <2>3
<1> QED
  BY <1>1, <1>2, <1>3, InitSettles, PTL DEF Spec
=============================================================================
