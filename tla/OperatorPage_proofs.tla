------------------------ MODULE OperatorPage_proofs ------------------------
(***************************************************************************)
(* Proofs about OperatorPage, for any chats, any writers, every bound on   *)
(* sends, clicks and failures, and as many rows as the history shows.      *)
(***************************************************************************)
EXTENDS OperatorPage, PageSequences

(* What was once said of a row's status, by an event, an answer or a tick, *)
(* is still true of it.                                                    *)
Holds(s, r) ==
    /\ r \in Stored
    /\ s = "read" => rows[r].status = "read"
    /\ s = "delivered" => rows[r].status \in {"delivered", "read"}
    /\ s = "failed" => \/ rows[r].status \in {"failed", "read"}
                       \/ rows[r].status = "new" /\ r \in unrecorded

EventFits(e) == Holds(e.kind, e.row)

BubbleFits(b) ==
    \/ b.id < 0 /\ b.tick = "" /\ ~b.failed
    \/ /\ Holds("new", b.id)
       /\ b.tick = "two" => Holds("read", b.id)
       /\ b.tick = "one" => Holds("delivered", b.id)
       /\ b.failed => Holds("failed", b.id)

(* A receipt names a row that was drawn, and its chat, unless an answer    *)
(* came late.                                                              *)
FrameFits(f) ==
    /\ f.action = "send" => f.id < 0
    /\ f.action = "read" =>
          /\ f.id \in shown /\ IsInbound(f.id)
          /\ rows[f.id].chat = f.chat \/ f.chat \in mixed

AckFits(a) == a.mid < 0 /\ a.row \in Stored \cup {NoRow}

AnswerFits(f) == \A r \in DOMAIN f.found : Holds(f.found[r], r)

EventsFit == \A e \in events : EventFits(e)
ViewFits == \A i \in DOMAIN view : BubbleFits(view[i])
FramesFit == \A i \in DOMAIN up : FrameFits(up[i])
AcksFit == \A i \in DOMAIN acks : AckFits(acks[i])
AnswersFit == \A f \in fetches : AnswerFits(f)

(* No provider has answered what is still being sent.                      *)
SendingFits == \A r \in sending : rows[r].status \in {"new", "read"}

IsSelected == fetches # {} => selected \in Chats

Fits ==
    /\ EventsFit /\ ViewFits /\ FramesFit /\ AcksFit /\ AnswersFit
    /\ SendingFits /\ IsSelected

Honest == ReadMeansShown /\ SeenIsHonest

IInv == TypeOK /\ Fits /\ Honest

(* What a step may do to the rows there are.                               *)
Grows ==
    /\ Stored \subseteq DOMAIN rows'
    /\ \A r \in Stored :
          /\ rows'[r].chat = rows[r].chat /\ rows'[r].author = rows[r].author
          /\ rows'[r].echoOf = rows[r].echoOf
          /\ rows[r].status = "read" => rows'[r].status = "read"
          /\ rows[r].status = "delivered" => rows'[r].status \in {"delivered", "read"}
          /\ rows[r].status = "failed" => rows'[r].status \in {"failed", "read"}
          /\ rows[r].status = "new" /\ r \in unrecorded => rows'[r].status \in {"new", "read"}
    /\ unrecorded \subseteq unrecorded' /\ gone \subseteq gone'

-----------------------------------------------------------------------------
(* Types.                                                                  *)

LEMMA Constants ==
    /\ MaxRows \in Nat \ {0} /\ MaxSends \in Nat /\ MaxSelects \in Nat
    /\ MaxFaults \in Nat /\ MaxActs \in Nat /\ NoChat \notin Chats
    /\ Writers \subseteq Author \ {"me"}
  BY PageAssumption DEF Author

LEMMA OrderIsSequence ==
    ASSUME NEW R \in SUBSET RowId, NEW q \in InOrder(R)
    PROVE  /\ Cardinality(R) \in Nat
           /\ q \in [1 .. Cardinality(R) -> R]
  BY Constants, RowsAreCounted DEF InOrder, RowId

LEMMA StoredRows == TypeOK => Stored = 1 .. Len(rows) /\ Len(rows) \in Nat /\ Stored \subseteq RowId
  BY Constants DEF TypeOK, Stored, RowId

LEMMA FirstFrame ==
    TypeOK /\ up # <<>> =>
        /\ Tail(up) \in Seq(Frame) /\ Head(up) \in Frame /\ Head(up) = up[1] /\ 1 \in DOMAIN up
        /\ \A i \in DOMAIN Tail(up) : \E j \in DOMAIN up : Tail(up)[i] = up[j]
<1> SUFFICES ASSUME TypeOK, up # <<>>
             PROVE  /\ Tail(up) \in Seq(Frame) /\ Head(up) \in Frame /\ Head(up) = up[1] /\ 1 \in DOMAIN up
                    /\ \A i \in DOMAIN Tail(up) : \E j \in DOMAIN up : Tail(up)[i] = up[j]
  OBVIOUS
<1>1. up \in Seq(Frame)
  BY DEF TypeOK
<1> QED
  BY <1>1, TailElements

LEMMA FirstAck ==
    TypeOK /\ acks # <<>> =>
        /\ Tail(acks) \in Seq(Ack) /\ Head(acks) \in Ack /\ Head(acks) = acks[1] /\ 1 \in DOMAIN acks
        /\ \A i \in DOMAIN Tail(acks) : \E j \in DOMAIN acks : Tail(acks)[i] = acks[j]
<1> SUFFICES ASSUME TypeOK, acks # <<>>
             PROVE  /\ Tail(acks) \in Seq(Ack) /\ Head(acks) \in Ack /\ Head(acks) = acks[1] /\ 1 \in DOMAIN acks
                    /\ \A i \in DOMAIN Tail(acks) : \E j \in DOMAIN acks : Tail(acks)[i] = acks[j]
  OBVIOUS
<1>1. acks \in Seq(Ack)
  BY DEF TypeOK
<1> QED
  BY <1>1, TailElements

LEMMA InitTypes == Init => TypeOK
<1> SUFFICES ASSUME Init
             PROVE  TypeOK
  OBVIOUS
<1>1. <<>> \in Seq(Row) /\ <<>> \in Seq(Frame) /\ <<>> \in Seq(Ack) /\ <<>> \in Seq(Bubble) /\ Len(<<>>) = 0
  OBVIOUS
<1>2. /\ rows \in Seq(Row) /\ Len(rows) <= MaxRows /\ up \in Seq(Frame) /\ acks \in Seq(Ack)
      /\ view \in Seq(Bubble)
  BY <1>1, Constants DEF Init
<1>3. /\ sends \in 0 .. MaxSends /\ selects \in 0 .. MaxSelects /\ faults \in 0 .. MaxFaults
      /\ phase \in {"off", "registered", "open"} /\ selected \in Chats \cup {NoChat}
  BY Constants DEF Init
<1> QED
  BY <1>2, <1>3 DEF Init, TypeOK

LEMMA WithStatusTypes ==
    ASSUME TypeOK, NEW R, NEW s \in Status
    PROVE  /\ WithStatus(R, s) \in Seq(Row)
           /\ Len(WithStatus(R, s)) = Len(rows) /\ DOMAIN WithStatus(R, s) = Stored
           /\ \A r \in Stored :
                 /\ WithStatus(R, s)[r].chat = rows[r].chat
                 /\ WithStatus(R, s)[r].author = rows[r].author
                 /\ WithStatus(R, s)[r].echoOf = rows[r].echoOf
                 /\ WithStatus(R, s)[r].status = IF r \in R THEN s ELSE rows[r].status
<1> DEFINE new == WithStatus(R, s)
<1>1. \A r \in Stored : rows[r] \in Row
  BY DEF TypeOK, Stored
<1>2. \A r \in Stored : new[r] = IF r \in R THEN [rows[r] EXCEPT !.status = s] ELSE rows[r]
  BY DEF WithStatus
<1>3. \A r \in Stored : /\ new[r] \in Row
                         /\ new[r].chat = rows[r].chat
                         /\ new[r].author = rows[r].author
                         /\ new[r].echoOf = rows[r].echoOf
                         /\ new[r].status = IF r \in R THEN s ELSE rows[r].status
  BY <1>1, <1>2 DEF Row
<1>4. new = [r \in DOMAIN rows |-> new[r]]
  BY DEF WithStatus, Stored
<1>5. rows \in Seq(Row)
  BY DEF TypeOK
<1> HIDE DEF new
<1>6. new \in Seq(Row) /\ DOMAIN new = DOMAIN rows /\ Len(new) = Len(rows)
  BY <1>3, <1>4, <1>5, MappedSequence DEF Stored
<1> QED
  BY <1>3, <1>6 DEF new, Stored

LEMMA StoresTypes ==
    ASSUME TypeOK, NEW c \in Chats, NEW a \in Author, NEW q \in RowId \cup {NoRow}, Stores(c, a, q)
    PROVE  /\ rows' \in Seq(Row) /\ Len(rows') = Len(rows) + 1 /\ Len(rows') <= MaxRows
           /\ DOMAIN rows' = 1 .. Len(rows) + 1
           /\ \A r \in Stored : rows'[r] = rows[r]
           /\ rows'[Len(rows')] = [chat |-> c, author |-> a, status |-> "new", echoOf |-> q]
           /\ Len(rows') \in RowId /\ Len(rows') \notin Stored
<1> DEFINE row == [chat |-> c, author |-> a, status |-> "new", echoOf |-> q]
<1>1. row \in Row
  BY DEF Row, Status
<1>2. rows \in Seq(Row) /\ rows' = Append(rows, row)
  BY DEF TypeOK, Stores
<1> HIDE DEF row
<1>3. /\ rows' \in Seq(Row) /\ Len(rows') = Len(rows) + 1
      /\ \A i \in 1 .. Len(rows) : rows'[i] = rows[i]
      /\ rows'[Len(rows) + 1] = row
  BY <1>1, <1>2, AppendProperties
<1>4. Len(rows) < MaxRows /\ Len(rows) \in Nat
  BY DEF Stores, TypeOK
<1> QED
  BY <1>2, <1>3, <1>4, Constants DEF Stored, RowId, row

(* What a stored message adds.                                             *)
LEMMA StoresAdds ==
    ASSUME TypeOK, NEW c \in Chats, NEW a \in Author, NEW q \in RowId \cup {NoRow}, Stores(c, a, q)
    PROVE  /\ events' \subseteq Event
           /\ sending' \subseteq {r \in Stored' : rows'[r].author \in Operators}
           /\ adopting' \subseteq Stored' \ sending' /\ gone' \subseteq Stored'
           /\ unrecorded' \subseteq Stored' \ sending'
<1> DEFINE n == Len(rows')
<1>1. /\ DOMAIN rows' = 1 .. Len(rows) + 1 /\ n = Len(rows) + 1 /\ n \in RowId /\ n \notin Stored
      /\ \A r \in Stored : rows'[r] = rows[r]
      /\ rows'[n] = [chat |-> c, author |-> a, status |-> "new", echoOf |-> q]
  BY StoresTypes
<1>1a. rows'[n].author = a
  BY <1>1
<1>2. Stored \subseteq Stored' /\ n \in Stored'
  BY <1>1, StoredRows DEF Stored
<1>3. events' \subseteq events \cup {[kind |-> "message", row |-> n]}
  BY DEF Stores
<1>4. [kind |-> "message", row |-> n] \in Event
  BY <1>1 DEF Event
<1>5. sending' \subseteq sending \cup {n} /\ (n \in sending' => n \in sending \/ a \in Operators)
  BY DEF Stores
<1>6. UNCHANGED <<adopting, gone, unrecorded>>
  BY DEF Stores
<1> HIDE DEF n
<1>7. events' \subseteq Event
  BY <1>3, <1>4 DEF TypeOK
<1> QED
  BY <1>1, <1>1a, <1>2, <1>5, <1>6, <1>7 DEF TypeOK

LEMMA EchoStores ==
    ASSUME TypeOK, NEW r \in Stored, EchoArrives(r)
    PROVE  /\ Stores(rows[r].chat, "app", r)
           /\ rows[r].chat \in Chats /\ "app" \in Author /\ r \in RowId \cup {NoRow}
<1>1. rows[r] \in Row
  BY DEF TypeOK, Stored
<1> QED
  BY <1>1, StoredRows DEF EchoArrives, Row, Author

LEMMA SocketStoresOne ==
    ASSUME TypeOK, SocketStores
    PROVE  /\ Stores(Head(up).chat, "me", NoRow)
           /\ Head(up).chat \in Chats /\ "me" \in Author /\ NoRow \in RowId \cup {NoRow}
  BY FirstFrame DEF SocketStores, Frame, Author

LEMMA SomebodyStores ==
    ASSUME TypeOK, NEW c \in Chats, NEW a \in Writers, SomebodyWrites(c, a)
    PROVE  /\ Stores(c, a, NoRow)
           /\ a \in Author /\ a # "me" /\ NoRow \in RowId \cup {NoRow}
  BY Constants DEF SomebodyWrites

LEMMA RowsGrow == TypeOK /\ [Next]_vars => Grows
<1> SUFFICES ASSUME TypeOK, [Next]_vars
             PROVE  Grows
  OBVIOUS
<1> USE DEF serverVars, deliveryVars
<1>0. \A r \in Stored : rows[r] \in Row
  BY DEF TypeOK, Stored
<1>1. ASSUME UNCHANGED rows, unrecorded \subseteq unrecorded', gone \subseteq gone'
      PROVE  Grows
  BY <1>1, <1>0 DEF Grows, Stored, Row
<1>2. ASSUME NEW c \in Chats, NEW a \in Author, NEW q \in RowId \cup {NoRow}, Stores(c, a, q)
      PROVE  Grows
  <2>1. DOMAIN rows' = 1 .. Len(rows) + 1 /\ \A r \in Stored : rows'[r] = rows[r]
    BY <1>2, StoresTypes
  <2>2. Stored \subseteq DOMAIN rows'
    BY <2>1, StoredRows
  <2>3. UNCHANGED <<gone, unrecorded>>
    BY <1>2 DEF Stores
  <2> QED
    BY <1>0, <2>1, <2>2, <2>3 DEF Grows
<1>3. ASSUME NEW R, NEW s \in Status, rows' = WithStatus(R, s),
             \A r \in R \cap Stored : s = "read" \/ (rows[r].status = "new" /\ r \notin unrecorded),
             UNCHANGED gone, unrecorded \subseteq unrecorded'
      PROVE  Grows
  BY <1>3, <1>0, WithStatusTypes DEF Grows
<1>4. ASSUME NEW r \in Stored, CustomerReads(r)
      PROVE  Grows
  BY <1>4, <1>3 DEF CustomerReads, Status
<1>5. ASSUME NEW r \in Stored, ProviderTakes(r)
      PROVE  Grows
  <2>1. r \notin unrecorded /\ UNCHANGED <<gone, unrecorded>>
    BY <1>5 DEF ProviderTakes, TypeOK
  <2> QED
    BY <1>5, <1>3, <1>1, <2>1 DEF ProviderTakes, MarkedDelivered, Status
<1>6. ASSUME NEW r \in Stored, ProviderRefuses(r)
      PROVE  Grows
  <2>1. r \notin unrecorded /\ UNCHANGED gone /\ unrecorded \subseteq unrecorded'
    BY <1>6 DEF ProviderRefuses, TypeOK
  <2> QED
    BY <1>6, <1>3, <1>1, <2>1 DEF ProviderRefuses, Status
<1>7. CASE SocketReads
  BY <1>7, <1>3 DEF SocketReads, Status
<1>8. CASE SocketStores
  BY <1>8, <1>2, SocketStoresOne
<1>9. ASSUME NEW c \in Chats, NEW a \in Writers, SomebodyWrites(c, a)
      PROVE  Grows
  BY <1>9, <1>2, SomebodyStores
<1>10. ASSUME \/ SocketNext \/ PageNext \/ SocketStoreFails \/ SocketReadFails
              \/ \E e \in events : EventMisses(e) \/ EventIsDropped(e)
              \/ \E r \in Stored : NothingIsSent(r) \/ Adopts(r) \/ AdoptionFails(r)
       PROVE  UNCHANGED <<rows, unrecorded>> /\ gone \subseteq gone'
  BY <1>10 DEF SocketNext, PageNext, SocketStoreFails, SocketReadFails, EventMisses, EventIsDropped,
               NothingIsSent, Adopts, AdoptionFails, PanelRegisters,
               PanelIsListed, PanelDisconnects, OtherConnects, OtherDisconnects, Selects, FetchIsAnswered,
               FetchIsDrawn, FetchFails, PageSends, PageHandlesEvent, PageHandlesAck
<1>11. CASE UNCHANGED vars
  BY <1>11, <1>1 DEF vars
<1>12. ASSUME NEW r \in Stored, EchoArrives(r)
       PROVE  Grows
  BY <1>12, <1>2, EchoStores
<1> QED
  BY <1>1, <1>4, <1>5, <1>6, <1>7, <1>8, <1>9, <1>10, <1>11, <1>12 DEF Next, ServerNext, DeliveryNext
-----------------------------------------------------------------------------
(* What the page's operations make of the view and of what it sent.        *)

LEMMA DrawsElements ==
    ASSUME TypeOK, NEW R \in SUBSET Stored, NEW found \in [R -> Status], selected \in Chats,
           Draws(found)
    PROVE  /\ view' \in Seq(Bubble) /\ up' \in Seq(Frame) /\ shown' = shown \cup R
           /\ \A i \in DOMAIN view' :
                 \/ \E j \in DOMAIN view : view'[i] = view[j]
                 \/ \E r \in R : view'[i] = BubbleOf(r, found[r])
           /\ \A i \in DOMAIN up' :
                 \/ \E j \in DOMAIN up : up'[i] = up[j]
                 \/ \E r \in R : /\ Answers(r, found[r])
                                 /\ up'[i] = [action |-> "read", chat |-> selected, id |-> r]
<1>0. Stored \subseteq RowId /\ RowId \subseteq BubbleId /\ DOMAIN found = R
  BY StoredRows, Constants DEF RowId, BubbleId
<1>1. PICK order \in InOrder(R) :
          view' = view \o [i \in DOMAIN order |-> BubbleOf(order[i], found[order[i]])]
  BY <1>0 DEF Draws
<1> DEFINE U == {r \in R : Answers(r, found[r])}
<1>2. PICK unread \in InOrder(U) :
          up' = up \o [i \in DOMAIN unread |->
                          [action |-> "read", chat |-> selected, id |-> unread[i]]]
  BY <1>0 DEF Draws
<1>3. /\ Cardinality(R) \in Nat /\ order \in [1 .. Cardinality(R) -> R]
      /\ Cardinality(U) \in Nat /\ unread \in [1 .. Cardinality(U) -> U]
  BY <1>0, OrderIsSequence
<1> DEFINE drawn == [i \in DOMAIN order |-> BubbleOf(order[i], found[order[i]])]
           frames == [i \in DOMAIN unread |-> [action |-> "read", chat |-> selected, id |-> unread[i]]]
<1>4. ASSUME NEW r \in R
      PROVE  BubbleOf(r, found[r]) \in Bubble
  BY <1>0 DEF BubbleOf, TickOf, Bubble
<1>5. drawn \in [1 .. Cardinality(R) -> Bubble]
  BY <1>3, <1>4
<1>6. frames \in [1 .. Cardinality(U) -> Frame]
  BY <1>0, <1>3 DEF Frame
<1>7. \A i \in DOMAIN drawn : \E r \in R : drawn[i] = BubbleOf(r, found[r])
  BY <1>3
<1>8. \A i \in DOMAIN frames : \E r \in R : /\ Answers(r, found[r])
                                            /\ frames[i] = [action |-> "read", chat |-> selected, id |-> r]
  BY <1>3
<1> HIDE DEF drawn, frames, U
<1>9. drawn \in Seq(Bubble) /\ frames \in Seq(Frame)
  BY <1>3, <1>5, <1>6, FunctionIsSequence
<1>10. view \in Seq(Bubble) /\ up \in Seq(Frame)
  BY DEF TypeOK
<1>11. view' = view \o drawn /\ up' = up \o frames /\ shown' = shown \cup R
  BY <1>0, <1>1, <1>2 DEF drawn, frames, Draws
<1>12. /\ view' \in Seq(Bubble)
       /\ \A i \in DOMAIN view' :
             (\E j \in DOMAIN view : view'[i] = view[j]) \/ (\E j \in DOMAIN drawn : view'[i] = drawn[j])
  <2>1. view \in Seq(Bubble) /\ drawn \in Seq(Bubble)
    BY <1>9, <1>10
  <2>2. /\ view \o drawn \in Seq(Bubble)
        /\ \A i \in DOMAIN (view \o drawn) :
              \/ \E j \in DOMAIN view : (view \o drawn)[i] = view[j]
              \/ \E j \in DOMAIN drawn : (view \o drawn)[i] = drawn[j]
    BY <2>1, ConcatIsOfParts
  <2> QED
    BY <1>11, <2>2
<1>13. /\ up' \in Seq(Frame)
       /\ \A i \in DOMAIN up' :
             (\E j \in DOMAIN up : up'[i] = up[j]) \/ (\E j \in DOMAIN frames : up'[i] = frames[j])
  <2>1. up \in Seq(Frame) /\ frames \in Seq(Frame)
    BY <1>9, <1>10
  <2>2. /\ up \o frames \in Seq(Frame)
        /\ \A i \in DOMAIN (up \o frames) :
              \/ \E j \in DOMAIN up : (up \o frames)[i] = up[j]
              \/ \E j \in DOMAIN frames : (up \o frames)[i] = frames[j]
    BY <2>1, ConcatIsOfParts
  <2> QED
    BY <1>11, <2>2
<1>14. \A i \in DOMAIN view' :
           \/ \E j \in DOMAIN view : view'[i] = view[j]
           \/ \E r \in R : view'[i] = BubbleOf(r, found[r])
  BY <1>7, <1>12
<1>15. \A i \in DOMAIN up' :
           \/ \E j \in DOMAIN up : up'[i] = up[j]
           \/ \E r \in R : /\ Answers(r, found[r])
                           /\ up'[i] = [action |-> "read", chat |-> selected, id |-> r]
  BY <1>8, <1>13
<1> QED
  BY <1>11, <1>12, <1>13, <1>14, <1>15

(* Ticks, crosses and acks change bubbles where they are.                  *)
LEMMA ChangedView ==
    ASSUME TypeOK, NEW new, new = [i \in DOMAIN view |-> new[i]],
           \A i \in DOMAIN view : new[i] \in Bubble
    PROVE  new \in Seq(Bubble) /\ DOMAIN new = DOMAIN view
<1>1. view \in Seq(Bubble)
  BY DEF TypeOK
<1> QED
  BY <1>1, MappedSequence

LEMMA Bubbles == TypeOK => \A i \in DOMAIN view : view[i] \in Bubble
  BY DEF TypeOK

LEMMA BubbleIds == TypeOK => \A i \in DOMAIN view : view[i].id \in Int
<1>1. BubbleId \subseteq Int
  BY Constants DEF BubbleId
<1> QED
  BY <1>1, Bubbles DEF Bubble

LEMMA TickedElements ==
    ASSUME TypeOK, NEW I, NEW tick \in {"one", "two"}
    PROVE  /\ Ticked(I, tick) \in Seq(Bubble) /\ DOMAIN Ticked(I, tick) = DOMAIN view
           /\ \A i \in DOMAIN view :
                 /\ Ticked(I, tick)[i].id = view[i].id
                 /\ Ticked(I, tick)[i].failed = view[i].failed
                 /\ Ticked(I, tick)[i].tick = IF i \in I THEN tick ELSE view[i].tick
<1> DEFINE new == Ticked(I, tick)
<1>1. \A i \in DOMAIN view :
          new[i] = IF i \in I THEN [view[i] EXCEPT !.tick = tick] ELSE view[i]
  BY DEF Ticked
<1>2. new = [i \in DOMAIN view |-> new[i]]
  BY DEF Ticked
<1> HIDE DEF new
<1>3. \A i \in DOMAIN view :
          /\ new[i] \in Bubble /\ new[i].id = view[i].id /\ new[i].failed = view[i].failed
          /\ new[i].tick = IF i \in I THEN tick ELSE view[i].tick
  BY <1>1, Bubbles DEF Bubble
<1>4. new \in Seq(Bubble) /\ DOMAIN new = DOMAIN view
  BY <1>2, <1>3, ChangedView
<1> QED
  BY <1>3, <1>4 DEF new

LEMMA CrossedElements ==
    ASSUME TypeOK, NEW I
    PROVE  /\ Crossed(I) \in Seq(Bubble) /\ DOMAIN Crossed(I) = DOMAIN view
           /\ \A i \in DOMAIN view :
                 /\ Crossed(I)[i].id = view[i].id
                 /\ Crossed(I)[i].tick = view[i].tick
                 /\ i \notin I => Crossed(I)[i].failed = view[i].failed
<1> DEFINE new == Crossed(I)
<1>1. \A i \in DOMAIN view :
          new[i] = IF i \in I THEN [view[i] EXCEPT !.failed = TRUE] ELSE view[i]
  BY DEF Crossed
<1>2. new = [i \in DOMAIN view |-> new[i]]
  BY DEF Crossed
<1> HIDE DEF new
<1>3. \A i \in DOMAIN view :
          /\ new[i] \in Bubble /\ new[i].id = view[i].id /\ new[i].tick = view[i].tick
          /\ i \notin I => new[i].failed = view[i].failed
  BY <1>1, Bubbles DEF Bubble
<1>4. new \in Seq(Bubble) /\ DOMAIN new = DOMAIN view
  BY <1>2, <1>3, ChangedView
<1> QED
  BY <1>3, <1>4 DEF new

LEMMA AckedElements ==
    ASSUME TypeOK, NEW a \in Ack
    PROVE  /\ Acked(a) \in Seq(Bubble) /\ DOMAIN Acked(a) = DOMAIN view
           /\ \A i \in DOMAIN view :
                 /\ Acked(a)[i].tick = view[i].tick
                 /\ Acked(a)[i].failed = view[i].failed
                 /\ Acked(a)[i].id = IF i \in FirstOf(a.mid) /\ a.row # NoRow
                                     THEN a.row ELSE view[i].id
<1> DEFINE new == Acked(a)
<1>0. a.row # NoRow => a.row \in BubbleId
  BY Constants DEF Ack, RowId, BubbleId
<1>1. \A i \in DOMAIN view :
          new[i] = IF i \in FirstOf(a.mid) /\ a.row # NoRow
                   THEN [view[i] EXCEPT !.id = a.row] ELSE view[i]
  BY DEF Acked
<1>2. new = [i \in DOMAIN view |-> new[i]]
  BY DEF Acked
<1> HIDE DEF new
<1>3. \A i \in DOMAIN view :
          /\ new[i] \in Bubble /\ new[i].tick = view[i].tick /\ new[i].failed = view[i].failed
          /\ new[i].id = IF i \in FirstOf(a.mid) /\ a.row # NoRow THEN a.row ELSE view[i].id
  BY <1>0, <1>1, Bubbles DEF Bubble
<1>4. new \in Seq(Bubble) /\ DOMAIN new = DOMAIN view
  BY <1>2, <1>3, ChangedView
<1> QED
  BY <1>3, <1>4 DEF new

-----------------------------------------------------------------------------
(* Every step keeps the types.                                             *)

LEMMA RowsTypes == TypeOK /\ [Next]_vars => rows' \in Seq(Row) /\ Len(rows') <= MaxRows
<1> SUFFICES ASSUME TypeOK, [Next]_vars
             PROVE  rows' \in Seq(Row) /\ Len(rows') <= MaxRows
  OBVIOUS
<1> USE DEF serverVars, deliveryVars
<1>1. ASSUME UNCHANGED rows
      PROVE  rows' \in Seq(Row) /\ Len(rows') <= MaxRows
  BY <1>1 DEF TypeOK
<1>3. ASSUME NEW R, NEW s \in Status, rows' = WithStatus(R, s)
      PROVE  rows' \in Seq(Row) /\ Len(rows') <= MaxRows
  BY <1>3, WithStatusTypes DEF TypeOK
<1>4. ASSUME NEW r \in Stored, CustomerReads(r)
      PROVE  rows' \in Seq(Row) /\ Len(rows') <= MaxRows
  BY <1>4, <1>3 DEF CustomerReads, Status
<1>5. ASSUME NEW r \in Stored, ProviderTakes(r)
      PROVE  rows' \in Seq(Row) /\ Len(rows') <= MaxRows
  BY <1>5, <1>3, <1>1 DEF ProviderTakes, MarkedDelivered, Status
<1>6. ASSUME NEW r \in Stored, ProviderRefuses(r)
      PROVE  rows' \in Seq(Row) /\ Len(rows') <= MaxRows
  BY <1>6, <1>3, <1>1 DEF ProviderRefuses, Status
<1>7. CASE SocketReads
  BY <1>7, <1>3 DEF SocketReads, Status
<1>8. CASE SocketStores
  BY <1>8, SocketStoresOne, StoresTypes
<1>9. ASSUME NEW c \in Chats, NEW a \in Writers, SomebodyWrites(c, a)
      PROVE  rows' \in Seq(Row) /\ Len(rows') <= MaxRows
  BY <1>9, SomebodyStores, StoresTypes
<1>10. ASSUME \/ SocketNext \/ PageNext \/ SocketStoreFails \/ SocketReadFails
              \/ \E e \in events : EventMisses(e) \/ EventIsDropped(e)
              \/ \E r \in Stored : NothingIsSent(r) \/ Adopts(r) \/ AdoptionFails(r)
       PROVE  UNCHANGED rows
  BY <1>10 DEF SocketNext, PageNext, SocketStoreFails, SocketReadFails, EventMisses, EventIsDropped,
               NothingIsSent, Adopts, AdoptionFails, PanelRegisters,
               PanelIsListed, PanelDisconnects, OtherConnects, OtherDisconnects, Selects, FetchIsAnswered,
               FetchIsDrawn, FetchFails, PageSends, PageHandlesEvent, PageHandlesAck
<1>11. CASE UNCHANGED vars
  BY <1>11, <1>1 DEF vars
<1>12. ASSUME NEW r \in Stored, EchoArrives(r)
       PROVE  rows' \in Seq(Row) /\ Len(rows') <= MaxRows
  BY <1>12, EchoStores, StoresTypes
<1> QED
  BY <1>1, <1>4, <1>5, <1>6, <1>7, <1>8, <1>9, <1>10, <1>11, <1>12 DEF Next, ServerNext, DeliveryNext

LEMMA KeptTypes ==
    TypeOK /\ [Next]_vars =>
        /\ sending \subseteq {r \in Stored' : rows'[r].author \in Operators}
        /\ adopting \subseteq Stored' \ sending /\ gone \subseteq Stored'
        /\ unrecorded \subseteq Stored' \ sending
        /\ \A f \in fetches : f \in Fetch /\ DOMAIN f.found \subseteq InChat(f.chat)'
        /\ shown \subseteq Stored'
<1> SUFFICES ASSUME TypeOK, Grows
             PROVE  /\ sending \subseteq {r \in Stored' : rows'[r].author \in Operators}
                    /\ adopting \subseteq Stored' \ sending /\ gone \subseteq Stored'
                    /\ unrecorded \subseteq Stored' \ sending
                    /\ \A f \in fetches : f \in Fetch /\ DOMAIN f.found \subseteq InChat(f.chat)'
                    /\ shown \subseteq Stored'
  BY RowsGrow
<1> QED
  BY DEF TypeOK, Grows, Stored, InChat

LEMMA NewFetch ==
    ASSUME NEW n \in 1 .. MaxSelects, NEW c \in Chats, NEW b \in BOOLEAN, NEW R \in SUBSET RowId,
           NEW found \in [R -> Status]
    PROVE  [n |-> n, chat |-> c, answered |-> b, found |-> found] \in Fetch
  BY DEF Fetch

LEMMA AnsweredFetch ==
    ASSUME NEW f \in Fetch, NEW R \in SUBSET RowId, NEW found \in [R -> Status]
    PROVE  /\ [f EXCEPT !.answered = TRUE, !.found = found] \in Fetch
           /\ [f EXCEPT !.answered = TRUE, !.found = found].chat = f.chat
           /\ [f EXCEPT !.answered = TRUE, !.found = found].found = found
           /\ DOMAIN [f EXCEPT !.answered = TRUE, !.found = found].found = R
<1> DEFINE F == UNION {[Q -> Status] : Q \in SUBSET RowId}
<1>1. Fetch = [n : 1 .. MaxSelects, chat : Chats, answered : BOOLEAN, found : F]
  BY DEF Fetch
<1>2. found \in F /\ DOMAIN found = R
  OBVIOUS
<1> HIDE DEF F
<1>3. /\ [f EXCEPT !.answered = TRUE, !.found = found] \in Fetch
      /\ [f EXCEPT !.answered = TRUE, !.found = found].chat = f.chat
      /\ [f EXCEPT !.answered = TRUE, !.found = found].found = found
  BY <1>1, <1>2
<1> QED
  BY <1>2, <1>3

LEMMA NothingFound == <<>> \in [{} -> Status] /\ DOMAIN <<>> = {}
  OBVIOUS

LEMMA ServerTypes == TypeOK /\ Fits /\ ServerNext => TypeOK'
<1> SUFFICES ASSUME TypeOK, Fits, ServerNext
             PROVE  TypeOK'
  OBVIOUS
<1> USE DEF serverVars, deliveryVars, wireVars, socketVars, pageVars, otherVars, historyVars
<1>1. /\ rows' \in Seq(Row) /\ Len(rows') <= MaxRows
      /\ sending \subseteq {r \in Stored' : rows'[r].author \in Operators}
      /\ adopting \subseteq Stored' \ sending /\ gone \subseteq Stored'
      /\ unrecorded \subseteq Stored' \ sending
      /\ \A f \in fetches : f \in Fetch /\ DOMAIN f.found \subseteq InChat(f.chat)'
      /\ shown \subseteq Stored'
  BY RowsTypes, KeptTypes DEF Next
<1>2. Stored \subseteq RowId /\ excused \subseteq RowId /\ events \subseteq Event
  BY StoredRows DEF TypeOK
<1>3. ASSUME NEW c \in Chats, NEW a \in Writers, SomebodyWrites(c, a)
      PROVE  TypeOK'
  <2>1. /\ events' \subseteq Event
        /\ sending' \subseteq {r \in Stored' : rows'[r].author \in Operators}
        /\ adopting' \subseteq Stored' \ sending' /\ gone' \subseteq Stored'
        /\ unrecorded' \subseteq Stored' \ sending'
    BY <1>3, SomebodyStores, StoresAdds
  <2> QED
    BY <1>1, <1>3, <2>1 DEF SomebodyWrites, TypeOK
<1>3a. ASSUME NEW r \in Stored, EchoArrives(r)
       PROVE  TypeOK'
  <2>1. /\ events' \subseteq Event
        /\ sending' \subseteq {q \in Stored' : rows'[q].author \in Operators}
        /\ adopting' \subseteq Stored' \ sending' /\ gone' \subseteq Stored'
        /\ unrecorded' \subseteq Stored' \ sending'
    BY <1>3a, EchoStores, StoresAdds
  <2> QED
    BY <1>1, <1>3a, <2>1 DEF EchoArrives, TypeOK
<1>4. ASSUME NEW r \in Stored, CustomerReads(r)
      PROVE  TypeOK'
  <2>1. events' \subseteq Event
    BY <1>2, <1>4 DEF CustomerReads, Held, InChat, Event
  <2> QED
    BY <1>1, <1>4, <2>1 DEF CustomerReads, TypeOK
<1>5. ASSUME NEW r \in Stored, ProviderTakes(r)
      PROVE  TypeOK'
  <2>1. events' \subseteq Event /\ sending' = sending \ {r} /\ adopting' = adopting \cup {r}
    BY <1>2, <1>5 DEF ProviderTakes, Notice, Event
  <2>2. faults' \in 0 .. MaxFaults
    BY <1>5, Constants DEF ProviderTakes, StatementFails, TypeOK
  <2>3. r \in Stored'
    BY <1>1, <1>5 DEF ProviderTakes
  <2> QED
    BY <1>1, <1>5, <2>1, <2>2, <2>3 DEF ProviderTakes, TypeOK
<1>6. ASSUME NEW r \in Stored, ProviderRefuses(r)
      PROVE  TypeOK'
  <2>1. events' \subseteq Event /\ sending' = sending \ {r} /\ unrecorded' \subseteq unrecorded \cup {r}
    BY <1>2, <1>6 DEF ProviderRefuses, Notice, Event
  <2>2. faults' \in 0 .. MaxFaults
    BY <1>6, Constants DEF ProviderRefuses, StatementFails, TypeOK
  <2>3. r \in Stored'
    BY <1>1, <1>6 DEF ProviderRefuses
  <2> QED
    BY <1>1, <1>6, <2>1, <2>2, <2>3 DEF ProviderRefuses, TypeOK
<1>6a. ASSUME NEW r \in Stored, NothingIsSent(r) \/ AdoptionFails(r)
       PROVE  TypeOK'
  BY <1>1, <1>6a DEF NothingIsSent, AdoptionFails, TypeOK
<1>6b. ASSUME NEW r \in Stored, Adopts(r)
       PROVE  TypeOK'
  <2>1. gone' \subseteq Stored' /\ excused' \subseteq RowId
    BY <1>1, <1>2, <1>6b DEF Adopts, Stored
  <2> QED
    BY <1>1, <1>6b, <2>1 DEF Adopts, TypeOK
<1>7. ASSUME NEW e \in events, EventMisses(e)
      PROVE  TypeOK'
  <2>1. events' \subseteq Event
    BY <1>2, <1>7 DEF EventMisses
  <2> QED
    BY <1>1, <1>7, <2>1 DEF EventMisses, TypeOK
<1>8. ASSUME NEW e \in events, EventIsDropped(e)
      PROVE  TypeOK'
  <2>1. events' \subseteq Event /\ faults' \in 0 .. MaxFaults /\ excused' \subseteq RowId
    BY <1>2, <1>8, Constants DEF EventIsDropped, Fails, StatementFails, TypeOK
  <2> QED
    BY <1>1, <1>8, <2>1 DEF EventIsDropped, TypeOK
<1>9. CASE SocketStores
  <2>1. /\ Head(up) \in Frame /\ Head(up).chat \in Chats /\ Head(up).id \in BubbleId
        /\ Tail(up) \in Seq(Frame)
    BY <1>9, FirstFrame DEF SocketStores, Frame
  <2>2. Len(rows') \in RowId
    BY <1>9, SocketStoresOne, StoresTypes
  <2>3. /\ events' \subseteq Event
        /\ sending' \subseteq {r \in Stored' : rows'[r].author \in Operators}
        /\ adopting' \subseteq Stored' \ sending' /\ gone' \subseteq Stored'
        /\ unrecorded' \subseteq Stored' \ sending'
    BY <1>9, SocketStoresOne, StoresAdds
  <2>4. [mid |-> Head(up).id, row |-> Len(rows')] \in Ack
    BY <2>1, <2>2 DEF Ack
  <2>5. acks' \in Seq(Ack)
    BY <1>9, <2>4, AppendElements DEF SocketStores, TypeOK
  <2>6. excused' \subseteq RowId
    BY <1>2, <1>9, <2>2 DEF SocketStores
  <2>7. up' \in Seq(Frame)
    BY <1>9, <2>1 DEF SocketStores
  <2> QED
    BY <1>1, <1>9, <2>3, <2>5, <2>6, <2>7 DEF SocketStores, TypeOK
<1>10. CASE SocketStoreFails
  <2>1. /\ Head(up) \in Frame /\ Head(up).id \in BubbleId /\ Tail(up) \in Seq(Frame)
    BY <1>10, FirstFrame DEF SocketStoreFails, Frame
  <2>2. [mid |-> Head(up).id, row |-> NoRow] \in Ack
    BY <2>1 DEF Ack
  <2>3. acks' \in Seq(Ack)
    <3>1. acks \in Seq(Ack)
      BY DEF TypeOK
    <3>2. Append(acks, [mid |-> Head(up).id, row |-> NoRow]) \in Seq(Ack)
      BY <2>2, <3>1, AppendElements
    <3> QED
      BY <1>10, <3>1, <3>2 DEF SocketStoreFails
  <2>4. faults' \in 0 .. MaxFaults /\ excused' \subseteq RowId /\ up' \in Seq(Frame)
    BY <1>10, <2>1, Constants DEF SocketStoreFails, Fails, StatementFails, TypeOK
  <2> QED
    BY <1>1, <1>10, <2>3, <2>4 DEF SocketStoreFails, TypeOK
<1>11. CASE SocketReads
  <2>1. Head(up) \in Frame /\ Head(up).chat \in Chats /\ Tail(up) \in Seq(Frame)
    BY <1>11, FirstFrame DEF SocketReads, Frame
  <2>2. up' \in Seq(Frame) /\ seenMarks' \subseteq Chats
    BY <1>11, <2>1 DEF SocketReads, TypeOK
  <2> QED
    BY <1>1, <1>11, <2>2 DEF SocketReads, TypeOK
<1>12. CASE SocketReadFails
  <2>1. Head(up) \in Frame /\ Tail(up) \in Seq(Frame)
    BY <1>12, FirstFrame DEF SocketReadFails
  <2>2. Head(up).id \in RowId
    <3>1. FrameFits(Head(up)) /\ Head(up).action = "read"
      BY <1>12, FirstFrame DEF SocketReadFails, Fits, FramesFit
    <3> QED
      BY <1>2, <3>1 DEF FrameFits, TypeOK
  <2>3. faults' \in 0 .. MaxFaults /\ excused' \subseteq RowId /\ up' \in Seq(Frame)
    BY <1>12, <2>1, <2>2, Constants DEF SocketReadFails, StatementFails, TypeOK
  <2> QED
    BY <1>1, <1>12, <2>3 DEF SocketReadFails, TypeOK
<1> QED
  BY <1>3, <1>3a, <1>4, <1>5, <1>6, <1>6a, <1>6b, <1>7, <1>8, <1>9, <1>10, <1>11, <1>12
     DEF ServerNext, DeliveryNext

LEMMA SocketTypes == TypeOK /\ SocketNext => TypeOK'
<1> SUFFICES ASSUME TypeOK, SocketNext
             PROVE  TypeOK'
  OBVIOUS
<1> USE DEF serverVars, deliveryVars, wireVars, socketVars, pageVars, otherVars, historyVars
<1>1. /\ rows' \in Seq(Row) /\ Len(rows') <= MaxRows
      /\ sending \subseteq {r \in Stored' : rows'[r].author \in Operators}
      /\ adopting \subseteq Stored' \ sending /\ gone \subseteq Stored'
      /\ unrecorded \subseteq Stored' \ sending
      /\ \A f \in fetches : f \in Fetch /\ DOMAIN f.found \subseteq InChat(f.chat)'
      /\ shown \subseteq Stored'
  BY RowsTypes, KeptTypes DEF Next
<1>2. CASE PanelRegisters
  BY <1>1, <1>2 DEF PanelRegisters, TypeOK
<1>3. CASE PanelIsListed
  BY <1>1, <1>3 DEF PanelIsListed, TypeOK
<1>4. CASE PanelDisconnects
  <2>1. faults' \in 0 .. MaxFaults /\ excused' \subseteq RowId
    BY <1>4, Constants DEF PanelDisconnects, Fails, StatementFails, TypeOK
  <2>2. up' \in Seq(Frame) /\ acks' \in Seq(Ack)
    BY <1>4 DEF PanelDisconnects
  <2>3. listed' \in BOOLEAN
    BY <1>4 DEF PanelDisconnects, ListedWithout, TypeOK
  <2> QED
    BY <1>1, <1>4, <2>1, <2>2, <2>3 DEF PanelDisconnects, TypeOK
<1>5. CASE OtherConnects
  BY <1>1, <1>5 DEF OtherConnects, TypeOK
<1>6. CASE OtherDisconnects
  <2>1. listed' \in BOOLEAN
    BY <1>6 DEF OtherDisconnects, ListedWithout, TypeOK
  <2> QED
    BY <1>1, <1>6, <2>1 DEF OtherDisconnects, TypeOK
<1> QED
  BY <1>2, <1>3, <1>4, <1>5, <1>6 DEF SocketNext

LEMMA PageTypes == TypeOK /\ EventsFit /\ IsSelected /\ PageNext => TypeOK'
<1> SUFFICES ASSUME TypeOK, EventsFit, IsSelected, PageNext
             PROVE  TypeOK'
  OBVIOUS
<1> USE DEF serverVars, deliveryVars, wireVars, socketVars, pageVars, otherVars, historyVars
<1>1. /\ rows' \in Seq(Row) /\ Len(rows') <= MaxRows
      /\ sending \subseteq {r \in Stored' : rows'[r].author \in Operators}
      /\ adopting \subseteq Stored' \ sending /\ gone \subseteq Stored'
      /\ unrecorded \subseteq Stored' \ sending
      /\ \A f \in fetches : f \in Fetch /\ DOMAIN f.found \subseteq InChat(f.chat)'
      /\ shown \subseteq Stored'
  BY RowsTypes, KeptTypes DEF Next
<1>2. /\ Stored \subseteq RowId /\ excused \subseteq RowId /\ events \subseteq Event
      /\ \A r \in Stored : rows[r] \in Row
  BY StoredRows DEF TypeOK, Stored
<1>3. ASSUME NEW c \in Chats, Selects(c)
      PROVE  TypeOK'
  <2>1. selects' \in 1 .. MaxSelects
    BY <1>3, Constants DEF Selects, TypeOK
  <2>2. [n |-> selects', chat |-> c, answered |-> FALSE, found |-> <<>>] \in Fetch
    BY <2>1, NothingFound, NewFetch
  <2>3. \A f \in fetches' : f \in Fetch /\ DOMAIN f.found \subseteq InChat(f.chat)'
    <3> DEFINE new == [n |-> selects', chat |-> c, answered |-> FALSE, found |-> <<>>]
    <3>1. new \in Fetch /\ DOMAIN new.found = {}
      BY <2>2, NothingFound
    <3>2. fetches' = fetches \cup {new}
      BY <1>3 DEF Selects
    <3> HIDE DEF new
    <3> QED
      BY <1>1, <3>1, <3>2
  <2>4. excused' \subseteq RowId /\ view' \in Seq(Bubble)
    BY <1>2, <1>3 DEF Selects, OnTheirWay
  <2> QED
    BY <1>1, <1>3, <2>1, <2>3, <2>4 DEF Selects, TypeOK
<1>4. ASSUME NEW f \in fetches, FetchIsAnswered(f)
      PROVE  TypeOK'
  <2>1. /\ f \in Fetch /\ Found(f.chat) \in [Held(f.chat) -> Status]
        /\ Held(f.chat) \in SUBSET RowId
    BY <1>1, <1>2 DEF Found, Held, InChat, Row
  <2>2. /\ [f EXCEPT !.answered = TRUE, !.found = Found(f.chat)] \in Fetch
        /\ [f EXCEPT !.answered = TRUE, !.found = Found(f.chat)].chat = f.chat
        /\ DOMAIN [f EXCEPT !.answered = TRUE, !.found = Found(f.chat)].found = Held(f.chat)
    <3> DEFINE R == Held(f.chat)
               found == Found(f.chat)
    <3>1. R \in SUBSET RowId /\ found \in [R -> Status]
      BY <2>1
    <3> HIDE DEF R, found
    <3>2. /\ [f EXCEPT !.answered = TRUE, !.found = found] \in Fetch
          /\ [f EXCEPT !.answered = TRUE, !.found = found].chat = f.chat
          /\ DOMAIN [f EXCEPT !.answered = TRUE, !.found = found].found = R
      BY <2>1, <3>1, AnsweredFetch
    <3> QED
      BY <3>2 DEF R, found
  <2>3. PICK new : /\ new \in Fetch /\ new.chat = f.chat /\ DOMAIN new.found = Held(f.chat)
                   /\ fetches' = (fetches \ {f}) \cup {new}
    BY <1>4, <2>2 DEF FetchIsAnswered
  <2>4. UNCHANGED rows
    BY <1>4 DEF FetchIsAnswered
  <2>5. \A g \in fetches' : g \in Fetch /\ DOMAIN g.found \subseteq InChat(g.chat)'
    <3> SUFFICES ASSUME NEW g \in fetches'
                 PROVE  g \in Fetch /\ DOMAIN g.found \subseteq InChat(g.chat)'
      OBVIOUS
    <3>1. CASE g \in fetches
      BY <1>1, <3>1
    <3>2. CASE g = new
      BY <2>3, <2>4, <3>2 DEF Held, InChat, Stored
    <3> QED
      BY <2>3, <3>1, <3>2
  <2>6. excused' \subseteq RowId
    BY <1>2, <1>4 DEF FetchIsAnswered, Held, InChat
  <2> QED
    BY <1>1, <1>4, <2>5, <2>6 DEF FetchIsAnswered, TypeOK
<1>5. ASSUME NEW f \in fetches, FetchIsDrawn(f)
      PROVE  TypeOK'
  <2>1. f \in Fetch /\ DOMAIN f.found \subseteq Stored /\ f.found \in [DOMAIN f.found -> Status]
    BY DEF TypeOK, InChat, Fetch
  <2>2. selected \in Chats /\ Draws(f.found)
    BY <1>5 DEF IsSelected, FetchIsDrawn
  <2>3. view' \in Seq(Bubble) /\ up' \in Seq(Frame) /\ shown' = shown \cup DOMAIN f.found
    BY <2>1, <2>2, DrawsElements
  <2>4. shown' \subseteq Stored' /\ mixed' \subseteq Chats
    BY <1>1, <1>5, <2>1, <2>2, <2>3 DEF FetchIsDrawn, Stored, TypeOK
  <2>5. \A g \in fetches' : g \in Fetch /\ DOMAIN g.found \subseteq InChat(g.chat)'
    BY <1>1, <1>5 DEF FetchIsDrawn
  <2> QED
    BY <1>1, <1>5, <2>3, <2>4, <2>5 DEF FetchIsDrawn, TypeOK
<1>6. ASSUME NEW f \in fetches, FetchFails(f)
      PROVE  TypeOK'
  <2>1. \A g \in fetches' : g \in Fetch /\ DOMAIN g.found \subseteq InChat(g.chat)'
    BY <1>1, <1>6 DEF FetchFails
  <2>2. faults' \in 0 .. MaxFaults /\ excused' \subseteq RowId
    BY <1>6, Constants DEF FetchFails, Fails, StatementFails, TypeOK
  <2> QED
    BY <1>1, <1>6, <2>1, <2>2 DEF FetchFails, TypeOK
<1>7. CASE PageSends
  <2>1. sends' \in 0 .. MaxSends /\ Mid(sends') \in BubbleId /\ selected \in Chats
    <3>1. sends \in 0 .. MaxSends /\ sends < MaxSends /\ sends' = sends + 1
      BY <1>7 DEF PageSends, TypeOK
    <3>2. sends' \in 0 .. MaxSends /\ Mid(sends') \in BubbleId
      BY <3>1, Constants DEF Mid, BubbleId
    <3>3. selected \in Chats
      BY <1>7 DEF PageSends, TypeOK
    <3> QED
      BY <3>2, <3>3
  <2>2. /\ [action |-> "send", chat |-> selected, id |-> Mid(sends')] \in Frame
        /\ [id |-> Mid(sends'), tick |-> "", failed |-> FALSE] \in Bubble
    BY <2>1 DEF Frame, Bubble
  <2>3. up' \in Seq(Frame) /\ view' \in Seq(Bubble)
    BY <1>7, <2>2, AppendElements DEF PageSends, TypeOK
  <2>4. excused' \subseteq RowId
    BY <1>2, <1>7 DEF PageSends, Overlaps
  <2> QED
    BY <1>1, <1>7, <2>1, <2>3, <2>4 DEF PageSends, TypeOK
<1>8. ASSUME NEW e \in events, PageHandlesEvent(e)
      PROVE  TypeOK'
  <2>1. e.row \in Stored
    BY DEF EventsFit, EventFits, Holds
  <2>2. view' \in Seq(Bubble) /\ up' \in Seq(Frame) /\ shown' \subseteq Stored'
    <3>1. CASE Draws([r \in {e.row} |-> "new"]) /\ rows[e.row].chat = selected
      <4>1. [r \in {e.row} |-> "new"] \in [{e.row} -> Status] /\ {e.row} \in SUBSET Stored
        BY <2>1 DEF Status
      <4>2. selected \in Chats
        BY <1>2, <2>1, <3>1 DEF Row
      <4>3. view' \in Seq(Bubble) /\ up' \in Seq(Frame) /\ shown' = shown \cup {e.row}
        BY <3>1, <4>1, <4>2, DrawsElements
      <4> QED
        BY <1>1, <1>8, <2>1, <4>3 DEF PageHandlesEvent, Stored
    <3>2. CASE UNCHANGED <<view, up, shown>>
      BY <1>1, <3>2 DEF TypeOK
    <3>3. CASE /\ UNCHANGED <<up, shown>>
               /\ \E I : view' = Ticked(I, "two") \/ view' = Ticked(I, "one") \/ view' = Crossed(I)
      <4>1. PICK I : view' = Ticked(I, "two") \/ view' = Ticked(I, "one") \/ view' = Crossed(I)
        BY <3>3
      <4>2. /\ Ticked(I, "two") \in Seq(Bubble) /\ Ticked(I, "one") \in Seq(Bubble)
            /\ Crossed(I) \in Seq(Bubble)
        BY TickedElements, CrossedElements
      <4> QED
        BY <1>1, <3>3, <4>1, <4>2 DEF TypeOK
    <3> QED
      BY <1>8, <3>1, <3>2, <3>3 DEF PageHandlesEvent, Handles, TickedOnce
  <2>3. excused' \subseteq RowId /\ events' \subseteq Event
    BY <1>2, <1>8, <2>1 DEF PageHandlesEvent, Overlaps
  <2> QED
    BY <1>1, <1>8, <2>2, <2>3 DEF PageHandlesEvent, TypeOK
<1>9. CASE PageHandlesAck
  <2>1. Head(acks) \in Ack /\ acks' \in Seq(Ack)
    BY <1>9, FirstAck DEF PageHandlesAck
  <2>2. view' \in Seq(Bubble)
    BY <1>9, <2>1, AckedElements DEF PageHandlesAck
  <2>3. excused' \subseteq RowId
    BY <1>2, <1>9 DEF PageHandlesAck, Overlaps
  <2> QED
    BY <1>1, <1>9, <2>1, <2>2, <2>3 DEF PageHandlesAck, TypeOK
<1> QED
  BY <1>3, <1>4, <1>5, <1>6, <1>7, <1>8, <1>9 DEF PageNext

LEMMA StutterTypes == TypeOK /\ UNCHANGED vars => TypeOK'
  BY DEF TypeOK, vars, serverVars, deliveryVars, wireVars, socketVars, pageVars, otherVars, historyVars,
         Stored, IsInbound, InChat
-----------------------------------------------------------------------------
(* Every step keeps what fits.                                             *)

LEMMA HoldsOn ==
    ASSUME Grows, NEW s, NEW r, Holds(s, r)
    PROVE  Holds(s, r)'
  BY DEF Grows, Holds, Stored

(* What fitted fits, as the rows only grow.                                *)
LEMMA FitsOn ==
    ASSUME Fits, Grows, shown \subseteq shown', mixed \subseteq mixed', shown \subseteq Stored
    PROVE  /\ \A e \in events : EventFits(e)'
           /\ \A b : \A i \in DOMAIN view : view[i] = b => BubbleFits(b)'
           /\ \A f : \A i \in DOMAIN up : up[i] = f => FrameFits(f)'
           /\ \A a : \A i \in DOMAIN acks : acks[i] = a => AckFits(a)'
           /\ \A f \in fetches : AnswerFits(f)'
<1>1. \A e \in events : EventFits(e)'
  BY HoldsOn DEF Fits, EventsFit, EventFits
<1>2. ASSUME NEW b, BubbleFits(b)
      PROVE  BubbleFits(b)'
  BY <1>2, HoldsOn DEF BubbleFits
<1>3. ASSUME NEW f, FrameFits(f)
      PROVE  FrameFits(f)'
  BY <1>3 DEF FrameFits, IsInbound, Grows
<1>4. ASSUME NEW a, AckFits(a)
      PROVE  AckFits(a)'
  BY <1>4 DEF AckFits, Grows, Stored
<1>5. \A f \in fetches : AnswerFits(f)'
  BY HoldsOn DEF Fits, AnswersFit, AnswerFits
<1>6. \A b : \A i \in DOMAIN view : view[i] = b => BubbleFits(b)'
  BY <1>2 DEF Fits, ViewFits
<1>7. \A f : \A i \in DOMAIN up : up[i] = f => FrameFits(f)'
  BY <1>3 DEF Fits, FramesFit
<1>8. \A a : \A i \in DOMAIN acks : acks[i] = a => AckFits(a)'
  BY <1>4 DEF Fits, AcksFit
<1> QED
  BY <1>1, <1>5, <1>6, <1>7, <1>8

LEMMA ViewFitsNext ==
    ASSUME \A i \in DOMAIN view' : \E b : view'[i] = b /\ BubbleFits(b)'
    PROVE  ViewFits'
  BY DEF ViewFits, BubbleFits, Holds, Stored

LEMMA FramesFitNext ==
    ASSUME \A i \in DOMAIN up' : \E f : up'[i] = f /\ FrameFits(f)'
    PROVE  FramesFit'
  BY DEF FramesFit, FrameFits, IsInbound

LEMMA AcksFitNext ==
    ASSUME \A i \in DOMAIN acks' : \E a : acks'[i] = a /\ AckFits(a)'
    PROVE  AcksFit'
  BY DEF AcksFit, AckFits, Stored

(* What a step leaves alone still fits.                                    *)
LEMMA UnchangedFits ==
    ASSUME TypeOK, Fits, Grows, shown \subseteq shown', mixed \subseteq mixed'
    PROVE  /\ events' \subseteq events => EventsFit'
           /\ UNCHANGED view => ViewFits'
           /\ UNCHANGED up => FramesFit'
           /\ UNCHANGED acks => AcksFit'
           /\ fetches' \subseteq fetches => AnswersFit'
           /\ fetches' \subseteq fetches /\ UNCHANGED selected => IsSelected'
           /\ UNCHANGED rows /\ sending' \subseteq sending => SendingFits'
<1>0. shown \subseteq Stored
  BY DEF TypeOK
<1>1. /\ \A e \in events : EventFits(e)'
      /\ \A b : \A i \in DOMAIN view : view[i] = b => BubbleFits(b)'
      /\ \A f : \A i \in DOMAIN up : up[i] = f => FrameFits(f)'
      /\ \A a : \A i \in DOMAIN acks : acks[i] = a => AckFits(a)'
      /\ \A f \in fetches : AnswerFits(f)'
  BY <1>0, FitsOn
<1>2. events' \subseteq events => EventsFit'
  BY <1>1 DEF EventsFit
<1>3. UNCHANGED view => ViewFits'
  BY <1>1, ViewFitsNext
<1>4. UNCHANGED up => FramesFit'
  BY <1>1, FramesFitNext
<1>5. UNCHANGED acks => AcksFit'
  BY <1>1, AcksFitNext
<1>6. fetches' \subseteq fetches => AnswersFit'
  BY <1>1 DEF AnswersFit
<1>7. fetches' \subseteq fetches /\ UNCHANGED selected => IsSelected'
  BY DEF Fits, IsSelected
<1>8. UNCHANGED rows /\ sending' \subseteq sending => SendingFits'
  BY DEF Fits, SendingFits
<1> QED
  BY <1>2, <1>3, <1>4, <1>5, <1>6, <1>7, <1>8

LEMMA TailFits ==
    ASSUME TypeOK, Fits, Grows, shown \subseteq shown', mixed \subseteq mixed'
    PROVE  /\ up # <<>> /\ up' = Tail(up) => FramesFit'
           /\ acks # <<>> /\ acks' = Tail(acks) => AcksFit'
<1>0. shown \subseteq Stored
  BY DEF TypeOK
<1>1. /\ \A f : \A i \in DOMAIN up : up[i] = f => FrameFits(f)'
      /\ \A a : \A i \in DOMAIN acks : acks[i] = a => AckFits(a)'
  BY <1>0, FitsOn
<1>2. ASSUME up # <<>>, up' = Tail(up)
      PROVE  FramesFit'
  <2>1. \A i \in DOMAIN up' : \E j \in DOMAIN up : up'[i] = up[j]
    BY <1>2, FirstFrame
  <2>2. \A i \in DOMAIN up' : \E f : up'[i] = f /\ FrameFits(f)'
    BY <1>1, <2>1
  <2> QED
    BY <2>2, FramesFitNext
<1>3. ASSUME acks # <<>>, acks' = Tail(acks)
      PROVE  AcksFit'
  <2>1. \A i \in DOMAIN acks' : \E j \in DOMAIN acks : acks'[i] = acks[j]
    BY <1>3, FirstAck
  <2>2. \A i \in DOMAIN acks' : \E a : acks'[i] = a /\ AckFits(a)'
    BY <1>1, <2>1
  <2> QED
    BY <2>2, AcksFitNext
<1> QED
  BY <1>2, <1>3

LEMMA Monotonic ==
    TypeOK /\ EventsFit /\ IsSelected /\ [Next]_vars => shown \subseteq shown' /\ mixed \subseteq mixed'
<1> SUFFICES ASSUME TypeOK, EventsFit, IsSelected, [Next]_vars
             PROVE  shown \subseteq shown' /\ mixed \subseteq mixed'
  OBVIOUS
<1> USE DEF serverVars, deliveryVars, wireVars, socketVars, pageVars, otherVars, historyVars
<1>1. CASE ServerNext
  BY <1>1 DEF ServerNext, SomebodyWrites, CustomerReads, ProviderTakes, ProviderRefuses, EventMisses,
              EventIsDropped, SocketStores, SocketStoreFails, SocketReads, SocketReadFails, DeliveryNext,
              NothingIsSent, EchoArrives, Adopts, AdoptionFails
<1>2. CASE SocketNext
  BY <1>2 DEF SocketNext, PanelRegisters, PanelIsListed, PanelDisconnects, OtherConnects, OtherDisconnects
<1>3. CASE PageNext
  BY <1>3 DEF PageNext, Selects, FetchIsAnswered, FetchIsDrawn, FetchFails, PageSends, PageHandlesEvent,
              PageHandlesAck, Handles, Draws
<1>4. CASE UNCHANGED vars
  BY <1>4 DEF vars
<1> QED
  BY <1>1, <1>2, <1>3, <1>4 DEF Next
LEMMA ServerFits == TypeOK /\ Fits /\ ServerNext => Fits'
<1> SUFFICES ASSUME TypeOK, Fits, ServerNext
             PROVE  Fits'
  OBVIOUS
<1> USE DEF serverVars, deliveryVars, wireVars, socketVars, pageVars, otherVars, historyVars
<1>1. Grows /\ shown \subseteq shown' /\ mixed \subseteq mixed'
  BY RowsGrow, Monotonic DEF Next, Fits
<1>2. /\ events' \subseteq events => EventsFit'
      /\ UNCHANGED view => ViewFits'
      /\ UNCHANGED up => FramesFit'
      /\ UNCHANGED acks => AcksFit'
      /\ fetches' \subseteq fetches => AnswersFit'
      /\ fetches' \subseteq fetches /\ UNCHANGED selected => IsSelected'
      /\ UNCHANGED rows /\ sending' \subseteq sending => SendingFits'
  BY <1>1, UnchangedFits
<1>3. /\ up # <<>> /\ up' = Tail(up) => FramesFit'
      /\ acks # <<>> /\ acks' = Tail(acks) => AcksFit'
  BY <1>1, TailFits
<1>4. shown \subseteq Stored /\ sending \subseteq Stored /\ \A r \in Stored : rows[r] \in Row
  BY DEF TypeOK, Stored
<1>5. /\ \A e \in events : EventFits(e)'
      /\ \A a : \A i \in DOMAIN acks : acks[i] = a => AckFits(a)'
  BY <1>1, <1>4, FitsOn
<1>6. ASSUME NEW c \in Chats, NEW a \in Author, NEW q \in RowId \cup {NoRow}, Stores(c, a, q)
      PROVE  /\ Len(rows') \in Stored' /\ Len(rows') \notin Stored
             /\ Len(rows') > 0
             /\ EventsFit' /\ SendingFits'
  <2>1. /\ DOMAIN rows' = 1 .. Len(rows) + 1 /\ Len(rows') = Len(rows) + 1
        /\ \A r \in Stored : rows'[r] = rows[r]
        /\ rows'[Len(rows')].status = "new"
        /\ Len(rows') \notin Stored
    <3>1. /\ DOMAIN rows' = 1 .. Len(rows) + 1 /\ Len(rows') = Len(rows) + 1
          /\ \A r \in Stored : rows'[r] = rows[r]
          /\ rows'[Len(rows')] = [chat |-> c, author |-> a, status |-> "new", echoOf |-> q]
          /\ Len(rows') \notin Stored
      BY <1>6, StoresTypes
    <3> QED
      BY <3>1
  <2>2. Len(rows') \in Stored' /\ Len(rows') > 0
    BY <2>1, StoredRows DEF Stored
  <2>3. PICK e : e = [kind |-> "message", row |-> Len(rows')]
    OBVIOUS
  <2>4. EventsFit'
    <3>1. EventFits(e)'
      BY <2>2, <2>3 DEF EventFits, Holds, Stored
    <3>2. events' \subseteq events \cup {e}
      BY <1>6, <2>3 DEF Stores
    <3> QED
      BY <1>5, <3>1, <3>2 DEF EventsFit
  <2>5. SendingFits'
    BY <1>4, <1>6, <2>1 DEF Stores, Fits, SendingFits
  <2> QED
    BY <2>1, <2>2, <2>4, <2>5
<1>7. ASSUME NEW c \in Chats, NEW a \in Writers, SomebodyWrites(c, a)
      PROVE  Fits'
  BY <1>2, <1>6, <1>7, SomebodyStores DEF SomebodyWrites, Fits
<1>7a. ASSUME NEW r \in Stored, EchoArrives(r)
       PROVE  Fits'
  <2>1. EventsFit' /\ SendingFits'
    BY <1>6, <1>7a, EchoStores
  <2> QED
    BY <1>2, <1>7a, <2>1 DEF EchoArrives, Fits
<1>7b. ASSUME NEW r \in Stored, NothingIsSent(r) \/ Adopts(r) \/ AdoptionFails(r)
       PROVE  Fits'
  BY <1>2, <1>7b DEF NothingIsSent, Adopts, AdoptionFails, Fits
<1>8. ASSUME NEW r \in Stored, CustomerReads(r)
      PROVE  Fits'
  <2> DEFINE R == {q \in Held(rows[r].chat) :
                     q <= r /\ ~IsInbound(q) /\ rows[q].status \in {"new", "delivered"}}
  <2>1. /\ R \subseteq Stored
        /\ rows' = WithStatus(R, "read") /\ UNCHANGED sending
        /\ events' = events \cup {[kind |-> "read", row |-> q] : q \in R}
    BY <1>8 DEF CustomerReads, Held, InChat
  <2> HIDE DEF R
  <2>2. /\ DOMAIN rows' = Stored
        /\ \A q \in Stored : rows'[q].status = IF q \in R THEN "read" ELSE rows[q].status
    BY <2>1, WithStatusTypes DEF Status
  <2>3. \A q \in R : EventFits([kind |-> "read", row |-> q])'
    BY <2>1, <2>2 DEF EventFits, Holds, Stored
  <2>4. EventsFit'
    BY <1>5, <2>1, <2>3 DEF EventsFit
  <2>5. SendingFits'
    BY <1>4, <2>1, <2>2 DEF Fits, SendingFits
  <2> QED
    BY <1>2, <1>8, <2>4, <2>5 DEF CustomerReads, Fits
<1>9. ASSUME NEW r \in Stored, ProviderTakes(r)
      PROVE  Fits'
  <2>1. CASE rows' = MarkedDelivered(r)
    <3>1. /\ DOMAIN rows' = Stored
          /\ \A q \in Stored : q # r => rows'[q].status = rows[q].status
          /\ rows[r].status = "new" => rows'[r].status = "delivered"
      BY <2>1, WithStatusTypes DEF MarkedDelivered, Status, Stored
    <3>2. rows[r].status = "new" => EventFits([kind |-> "delivered", row |-> r])'
      BY <3>1 DEF EventFits, Holds, Stored
    <3>3. EventsFit'
      BY <1>5, <1>9, <3>2 DEF EventsFit, ProviderTakes, Notice
    <3>4. SendingFits'
      BY <1>4, <1>9, <3>1 DEF ProviderTakes, Fits, SendingFits
    <3> QED
      BY <1>2, <1>9, <3>3, <3>4 DEF ProviderTakes, Fits
  <2>2. CASE UNCHANGED <<rows, events>>
    BY <1>2, <1>9, <2>2 DEF ProviderTakes, Fits
  <2> QED
    BY <1>9, <2>1, <2>2 DEF ProviderTakes
<1>10. ASSUME NEW r \in Stored, ProviderRefuses(r)
       PROVE  Fits'
  <2>1. rows[r].status \in {"new", "read"}
    BY <1>10 DEF ProviderRefuses, Fits, SendingFits
  <2>2. /\ DOMAIN rows' = Stored
        /\ \A q \in Stored : q # r => rows'[q].status = rows[q].status
        /\ \/ rows'[r].status \in {"failed", "read"}
           \/ rows'[r].status = "new" /\ r \in unrecorded'
    <3>1. CASE rows' = WithStatus({r}, "failed")
      BY <3>1, WithStatusTypes DEF Status
    <3>2. CASE UNCHANGED rows /\ (rows[r].status = "read" \/ r \in unrecorded')
      BY <2>1, <3>2 DEF Stored
    <3> QED
      BY <1>10, <2>1, <3>1, <3>2 DEF ProviderRefuses
  <2>3. EventFits([kind |-> "failed", row |-> r])'
    BY <2>2 DEF EventFits, Holds, Stored
  <2>4. EventsFit'
    BY <1>5, <1>10, <2>3 DEF EventsFit, ProviderRefuses, Notice
  <2>5. SendingFits'
    BY <1>4, <1>10, <2>2 DEF ProviderRefuses, Fits, SendingFits
  <2> QED
    BY <1>2, <1>10, <2>4, <2>5 DEF ProviderRefuses, Fits
<1>11. ASSUME NEW e \in events, EventMisses(e) \/ EventIsDropped(e)
       PROVE  Fits'
  BY <1>2, <1>11 DEF EventMisses, EventIsDropped, Fits
<1>12. CASE SocketStores
  <2>1. /\ Head(up) = up[1] /\ 1 \in DOMAIN up /\ Head(up).chat \in Chats
    BY <1>12, FirstFrame DEF SocketStores, Frame
  <2>2. Head(up).id < 0
    BY <1>12, <2>1 DEF SocketStores, Fits, FramesFit, FrameFits
  <2>3. Len(rows') \in Stored' /\ EventsFit' /\ SendingFits'
    BY <1>6, <1>12, SocketStoresOne
  <2>4. Head(up).id \in BubbleId /\ Len(rows') \in RowId
    <3>1. Len(rows') \in RowId
      BY <1>12, SocketStoresOne, StoresTypes
    <3> QED
      BY <1>12, <3>1, FirstFrame DEF SocketStores, Frame
  <2>5. \A i \in DOMAIN acks' : \E a : acks'[i] = a /\ AckFits(a)'
    <3>1. PICK ack : ack = [mid |-> Head(up).id, row |-> Len(rows')]
      OBVIOUS
    <3>2. ack \in Ack /\ acks' = Append(acks, ack) /\ acks \in Seq(Ack)
      BY <1>12, <2>4, <3>1 DEF SocketStores, Ack, TypeOK
    <3>3. \A i \in DOMAIN acks' : acks'[i] = ack \/ \E j \in DOMAIN acks : acks'[i] = acks[j]
      BY <3>2, AppendElements
    <3>4. AckFits(ack)'
      BY <2>2, <2>3, <3>1 DEF AckFits, Stored
    <3> QED
      BY <1>5, <3>3, <3>4
  <2>6. AcksFit'
    BY <2>5, AcksFitNext
  <2> QED
    BY <1>2, <1>3, <1>12, <2>3, <2>6 DEF SocketStores, Fits
<1>13. CASE SocketStoreFails
  <2>1. Head(up) = up[1] /\ 1 \in DOMAIN up /\ Head(up) \in Frame
    BY <1>13, FirstFrame DEF SocketStoreFails
  <2>2. Head(up).id < 0 /\ Head(up).id \in BubbleId
    BY <1>13, <2>1 DEF SocketStoreFails, Fits, FramesFit, FrameFits, Frame
  <2>3. ASSUME acks' = Append(acks, [mid |-> Head(up).id, row |-> NoRow])
        PROVE  AcksFit'
    <3>1. PICK ack : ack = [mid |-> Head(up).id, row |-> NoRow]
      OBVIOUS
    <3>2. ack \in Ack /\ acks' = Append(acks, ack) /\ acks \in Seq(Ack)
      BY <2>2, <2>3, <3>1 DEF Ack, TypeOK
    <3>3. \A i \in DOMAIN acks' : acks'[i] = ack \/ \E j \in DOMAIN acks : acks'[i] = acks[j]
      BY <3>2, AppendElements
    <3>4. AckFits(ack)'
      BY <2>2, <3>1 DEF AckFits
    <3>5. \A i \in DOMAIN acks' : \E a : acks'[i] = a /\ AckFits(a)'
      BY <1>5, <3>3, <3>4
    <3> QED
      BY <3>5, AcksFitNext
  <2>4. AcksFit'
    BY <1>2, <1>13, <2>3 DEF SocketStoreFails
  <2> QED
    BY <1>2, <1>3, <1>13, <2>4 DEF SocketStoreFails, Fits
<1>14. CASE SocketReads
  <2>1. /\ DOMAIN rows' = Stored
        /\ \A q \in Stored : rows'[q].status \in {rows[q].status, "read"}
    BY <1>14, WithStatusTypes DEF SocketReads, Status
  <2>2. SendingFits'
    BY <1>4, <1>14, <2>1 DEF SocketReads, Fits, SendingFits
  <2> QED
    BY <1>2, <1>3, <1>14, <2>2 DEF SocketReads, Fits
<1>15. CASE SocketReadFails
  BY <1>2, <1>3, <1>15 DEF SocketReadFails, Fits
<1> QED
  BY <1>7, <1>7a, <1>7b, <1>8, <1>9, <1>10, <1>11, <1>12, <1>13, <1>14, <1>15 DEF ServerNext, DeliveryNext

LEMMA SocketFits == TypeOK /\ Fits /\ SocketNext => Fits'
<1> SUFFICES ASSUME TypeOK, Fits, SocketNext
             PROVE  Fits'
  OBVIOUS
<1> USE DEF serverVars, deliveryVars, wireVars, socketVars, pageVars, otherVars, historyVars
<1>1. Grows /\ shown \subseteq shown' /\ mixed \subseteq mixed'
  BY RowsGrow, Monotonic DEF Next, Fits
<1>2. UNCHANGED <<rows, sending, events, view, fetches, selected>>
  BY DEF SocketNext, PanelRegisters, PanelIsListed, PanelDisconnects, OtherConnects, OtherDisconnects
<1>3. FramesFit' /\ AcksFit'
  <2>1. UNCHANGED <<up, acks>> \/ (up' = <<>> /\ acks' = <<>>)
    BY DEF SocketNext, PanelRegisters, PanelIsListed, PanelDisconnects, OtherConnects, OtherDisconnects
  <2>2. ASSUME up' = <<>>, acks' = <<>>
        PROVE  FramesFit' /\ AcksFit'
    BY <2>2 DEF FramesFit, AcksFit
  <2> QED
    BY <1>1, <2>1, <2>2, UnchangedFits
<1> QED
  BY <1>1, <1>2, <1>3, UnchangedFits DEF Fits
(* A drawn answer fits: its receipts name the chat it is of, or the        *)
(* selected one is mixed from now on.                                      *)
LEMMA DrawsFit ==
    ASSUME TypeOK, Fits, Grows, shown \subseteq shown', mixed \subseteq mixed', UNCHANGED rows,
           NEW R \in SUBSET Stored, NEW found \in [R -> Status], selected \in Chats, Draws(found),
           \A r \in R : Holds(found[r], r),
           (\A r \in R : rows[r].chat = selected) \/ selected \in mixed'
    PROVE  ViewFits' /\ FramesFit'
<1>0. shown \subseteq Stored
  BY DEF TypeOK
<1>1. /\ \A b : \A i \in DOMAIN view : view[i] = b => BubbleFits(b)'
      /\ \A f : \A i \in DOMAIN up : up[i] = f => FrameFits(f)'
  BY <1>0, FitsOn
<1>2. /\ shown' = shown \cup R
      /\ \A i \in DOMAIN view' :
            \/ \E j \in DOMAIN view : view'[i] = view[j]
            \/ \E r \in R : view'[i] = BubbleOf(r, found[r])
      /\ \A i \in DOMAIN up' :
            \/ \E j \in DOMAIN up : up'[i] = up[j]
            \/ \E r \in R : /\ Answers(r, found[r])
                            /\ up'[i] = [action |-> "read", chat |-> selected, id |-> r]
  BY DrawsElements
<1>3. ASSUME NEW i \in DOMAIN view'
      PROVE  \E b : view'[i] = b /\ BubbleFits(b)'
  <2>1. CASE \E j \in DOMAIN view : view'[i] = view[j]
    BY <1>1, <2>1
  <2>2. ASSUME NEW r \in R, view'[i] = BubbleOf(r, found[r])
        PROVE  \E b : view'[i] = b /\ BubbleFits(b)'
    <3>1. PICK b : b = BubbleOf(r, found[r])
      OBVIOUS
    <3>2. /\ b.id = r
          /\ b.tick = "two" => found[r] = "read"
          /\ b.tick = "one" => found[r] = "delivered"
          /\ b.failed => found[r] = "failed"
      BY <3>1 DEF BubbleOf, TickOf
    <3>3. Holds(found[r], r)'
      BY HoldsOn
    <3>4. BubbleFits(b)'
      BY <3>2, <3>3 DEF BubbleFits, Holds
    <3> QED
      BY <2>2, <3>1, <3>4
  <2> QED
    BY <1>2, <2>1, <2>2
<1>4. ASSUME NEW i \in DOMAIN up'
      PROVE  \E f : up'[i] = f /\ FrameFits(f)'
  <2>1. CASE \E j \in DOMAIN up : up'[i] = up[j]
    BY <1>1, <2>1
  <2>2. ASSUME NEW r \in R, Answers(r, found[r]),
               up'[i] = [action |-> "read", chat |-> selected, id |-> r]
        PROVE  \E f : up'[i] = f /\ FrameFits(f)'
    <3>1. PICK f : f = [action |-> "read", chat |-> selected, id |-> r]
      OBVIOUS
    <3>2. FrameFits(f)'
      BY <1>2, <2>2, <3>1 DEF FrameFits, Answers, IsInbound
    <3> QED
      BY <2>2, <3>1, <3>2
  <2> QED
    BY <1>2, <2>1, <2>2
<1> QED
  BY <1>3, <1>4, ViewFitsNext, FramesFitNext

(* So does a view whose bubbles say no more than what holds of their rows. *)
LEMMA ChangedFits ==
    ASSUME TypeOK, Fits, Grows, shown \subseteq shown', mixed \subseteq mixed',
           view' \in Seq(Bubble), DOMAIN view' = DOMAIN view,
           \A i \in DOMAIN view :
              /\ view[i].id > 0 => view'[i].id = view[i].id
              /\ view'[i].id = view[i].id \/ Holds("new", view'[i].id)
              /\ view[i].id < 0 => view'[i].tick = view[i].tick /\ view'[i].failed = view[i].failed
              /\ view'[i].tick = view[i].tick \/ Holds("read", view[i].id)
                 \/ (view'[i].tick = "one" /\ Holds("delivered", view[i].id))
              /\ view'[i].failed = view[i].failed \/ Holds("failed", view[i].id)
    PROVE  ViewFits'
<1>0. /\ shown \subseteq Stored /\ \A s, r : Holds(s, r) => r \in Nat \ {0}
      /\ \A i \in DOMAIN view : view[i].id \in Int
  <2>1. shown \subseteq Stored
    BY DEF TypeOK
  <2>2. \A r \in Stored : r \in Nat \ {0}
    BY StoredRows, Constants DEF RowId
  <2> QED
    BY <2>1, <2>2, BubbleIds DEF Holds
<1> SUFFICES ASSUME NEW i \in DOMAIN view'
             PROVE  \E b : view'[i] = b /\ BubbleFits(b)'
  BY ViewFitsNext
<1>1. BubbleFits(view[i])
  BY DEF Fits, ViewFits
<1>2. PICK b : b = view'[i]
  OBVIOUS
<1>3. BubbleFits(b)
  <2>1. CASE view[i].id < 0
    <3>1. ~Holds("new", view[i].id)
      BY <1>0, <2>1
    <3>2. view[i].tick = "" /\ ~view[i].failed
      BY <1>1, <3>1 DEF BubbleFits
    <3>3. b.tick = "" /\ ~b.failed /\ (b.id < 0 \/ Holds("new", b.id))
      BY <1>2, <2>1, <3>2
    <3> QED
      BY <3>3 DEF BubbleFits
  <2>2. CASE ~(view[i].id < 0)
    <3>1. view[i].id > 0 /\ b.id = view[i].id /\ Holds("new", b.id)
      <4>1. Holds("new", view[i].id)
        BY <1>1, <2>2 DEF BubbleFits
      <4>2. view[i].id > 0
        BY <1>0, <4>1
      <4> QED
        BY <1>2, <4>1, <4>2
    <3>2. b.tick = "two" => Holds("read", b.id)
      BY <1>1, <1>2, <2>2, <3>1 DEF BubbleFits
    <3>3. b.tick = "one" => Holds("delivered", b.id)
      BY <1>1, <1>2, <2>2, <3>1 DEF BubbleFits, Holds
    <3>4. b.failed => Holds("failed", b.id)
      BY <1>1, <1>2, <2>2, <3>1 DEF BubbleFits
    <3> QED
      BY <3>1, <3>2, <3>3, <3>4 DEF BubbleFits
  <2> QED
    BY <2>1, <2>2
<1>4. BubbleFits(b)'
  BY <1>3, HoldsOn DEF BubbleFits
<1> QED
  BY <1>2, <1>4
LEMMA TickedFits ==
    ASSUME TypeOK, Fits, Grows, shown \subseteq shown', mixed \subseteq mixed',
           NEW e \in events, NEW I \in SUBSET FirstOf(e.row), NEW tick \in {"one", "two"},
           view' = Ticked(I, tick),
           Holds(IF tick = "two" THEN "read" ELSE "delivered", e.row)
    PROVE  ViewFits'
<1>1. /\ view' \in Seq(Bubble) /\ DOMAIN view' = DOMAIN view
      /\ \A i \in DOMAIN view :
            /\ view'[i].id = view[i].id /\ view'[i].failed = view[i].failed
            /\ view'[i].tick = IF i \in I THEN tick ELSE view[i].tick
  BY TickedElements
<1>2. \A i \in I : view[i].id = e.row
  BY DEF FirstOf
<1>3. e.row \in Nat /\ e.row > 0
  BY StoredRows, Constants DEF Holds, RowId
<1>4. \A i \in DOMAIN view :
          /\ view'[i].tick = view[i].tick \/ Holds("read", view[i].id)
             \/ (view'[i].tick = "one" /\ Holds("delivered", view[i].id))
          /\ view[i].id < 0 => view'[i].tick = view[i].tick
  <2> SUFFICES ASSUME NEW i \in DOMAIN view
               PROVE  /\ view'[i].tick = view[i].tick \/ Holds("read", view[i].id)
                         \/ (view'[i].tick = "one" /\ Holds("delivered", view[i].id))
                      /\ view[i].id < 0 => view'[i].tick = view[i].tick
    OBVIOUS
  <2>1. CASE i \in I
    <3>1. view[i].id = e.row /\ view'[i].tick = tick /\ ~(view[i].id < 0)
      BY <1>1, <1>2, <1>3, <2>1
    <3>2. CASE tick = "two"
      BY <3>1, <3>2
    <3>3. CASE tick = "one"
      BY <3>1, <3>3
    <3> QED
      BY <3>2, <3>3
  <2>2. CASE i \notin I
    BY <1>1, <2>2
  <2> QED
    BY <2>1, <2>2
<1> QED
  BY <1>1, <1>4, ChangedFits

LEMMA CrossedFits ==
    ASSUME TypeOK, Fits, Grows, shown \subseteq shown', mixed \subseteq mixed',
           NEW e \in events, NEW I \in SUBSET FirstOf(e.row), view' = Crossed(I),
           Holds("failed", e.row)
    PROVE  ViewFits'
<1>1. /\ view' \in Seq(Bubble) /\ DOMAIN view' = DOMAIN view
      /\ \A i \in DOMAIN view :
            /\ view'[i].id = view[i].id /\ view'[i].tick = view[i].tick
            /\ i \notin I => view'[i].failed = view[i].failed
  BY CrossedElements
<1>2. \A i \in I : view[i].id = e.row
  BY DEF FirstOf
<1>3. e.row \in Nat /\ e.row > 0
  BY StoredRows, Constants DEF Holds, RowId
<1>4. \A i \in DOMAIN view :
          /\ view'[i].failed = view[i].failed \/ Holds("failed", view[i].id)
          /\ view[i].id < 0 => view'[i].failed = view[i].failed
  <2> SUFFICES ASSUME NEW i \in DOMAIN view
               PROVE  /\ view'[i].failed = view[i].failed \/ Holds("failed", view[i].id)
                      /\ view[i].id < 0 => view'[i].failed = view[i].failed
    OBVIOUS
  <2>1. CASE i \in I
    <3>1. view[i].id = e.row /\ ~(view[i].id < 0)
      BY <1>2, <1>3, <2>1
    <3> QED
      BY <3>1
  <2>2. CASE i \notin I
    BY <1>1, <2>2
  <2> QED
    BY <2>1, <2>2
<1> QED
  BY <1>1, <1>4, ChangedFits

LEMMA PageFits == TypeOK /\ Fits /\ PageNext => Fits'
<1> SUFFICES ASSUME TypeOK, Fits, PageNext
             PROVE  Fits'
  OBVIOUS
<1> USE DEF serverVars, deliveryVars, wireVars, socketVars, pageVars, otherVars, historyVars
<1>1. Grows /\ shown \subseteq shown' /\ mixed \subseteq mixed' /\ UNCHANGED <<rows, sending>>
  <2>1. UNCHANGED <<rows, sending>>
    BY DEF PageNext, Selects, FetchIsAnswered, FetchIsDrawn, FetchFails, PageSends, PageHandlesEvent,
           PageHandlesAck
  <2> QED
    BY <2>1, RowsGrow, Monotonic DEF Next, Fits
<1>2. /\ events' \subseteq events => EventsFit'
      /\ UNCHANGED view => ViewFits'
      /\ UNCHANGED up => FramesFit'
      /\ UNCHANGED acks => AcksFit'
      /\ fetches' \subseteq fetches => AnswersFit'
      /\ fetches' \subseteq fetches /\ UNCHANGED selected => IsSelected'
      /\ SendingFits'
  BY <1>1, UnchangedFits
<1>3. shown \subseteq Stored /\ \A r \in Stored : rows[r] \in Row
  BY DEF TypeOK, Stored
<1>4. /\ \A b : \A i \in DOMAIN view : view[i] = b => BubbleFits(b)'
      /\ \A f : \A i \in DOMAIN up : up[i] = f => FrameFits(f)'
      /\ \A f \in fetches : AnswerFits(f)'
  BY <1>1, <1>3, FitsOn
<1>5. ASSUME NEW c \in Chats, Selects(c)
      PROVE  Fits'
  <2>1. ViewFits' /\ IsSelected'
    BY <1>5 DEF Selects, ViewFits, IsSelected
  <2>2. PICK f : f = [n |-> selects', chat |-> c, answered |-> FALSE, found |-> <<>>]
    OBVIOUS
  <2>3. AnswerFits(f)'
    BY <2>2, NothingFound DEF AnswerFits
  <2>4. AnswersFit'
    BY <1>4, <1>5, <2>2, <2>3 DEF Selects, AnswersFit
  <2> QED
    BY <1>2, <1>5, <2>1, <2>4 DEF Selects, Fits
<1>6. ASSUME NEW f \in fetches, FetchIsAnswered(f)
      PROVE  Fits'
  <2>1. /\ f \in Fetch /\ Found(f.chat) \in [Held(f.chat) -> Status]
        /\ Held(f.chat) \in SUBSET RowId
    BY <1>3, StoredRows DEF Found, Held, InChat, Row, TypeOK
  <2>2. PICK new : /\ new.found = Found(f.chat)
                   /\ fetches' = (fetches \ {f}) \cup {new}
    <3> DEFINE R == Held(f.chat)
               found == Found(f.chat)
    <3>1. R \in SUBSET RowId /\ found \in [R -> Status]
      BY <2>1
    <3> HIDE DEF R, found
    <3>2. /\ [f EXCEPT !.answered = TRUE, !.found = found] \in Fetch
          /\ [f EXCEPT !.answered = TRUE, !.found = found].chat = f.chat
          /\ [f EXCEPT !.answered = TRUE, !.found = found].found = found
          /\ DOMAIN [f EXCEPT !.answered = TRUE, !.found = found].found = R
      BY <2>1, <3>1, AnsweredFetch, Zenon
    <3>3. fetches' = (fetches \ {f}) \cup {[f EXCEPT !.answered = TRUE, !.found = found]}
      BY <1>6 DEF FetchIsAnswered, found
    <3>4. found = Found(f.chat)
      BY DEF found
    <3> QED
      BY <3>2, <3>3, <3>4
  <2>3. \A r \in DOMAIN new.found : r \in Stored /\ new.found[r] = rows[r].status
    BY <2>2 DEF Found, Held, InChat
  <2>4. AnswerFits(new)'
    BY <1>1, <2>3 DEF AnswerFits, Holds, Stored
  <2>5. AnswersFit' /\ IsSelected'
    BY <1>4, <1>6, <2>2, <2>4 DEF FetchIsAnswered, AnswersFit, IsSelected, Fits
  <2> QED
    BY <1>2, <1>6, <2>5 DEF FetchIsAnswered, Fits
<1>7. ASSUME NEW f \in fetches, FetchIsDrawn(f)
      PROVE  Fits'
  <2>1. /\ DOMAIN f.found \subseteq Stored /\ f.found \in [DOMAIN f.found -> Status]
        /\ \A r \in DOMAIN f.found : rows[r].chat = f.chat
    BY DEF TypeOK, InChat, Fetch
  <2>2. selected \in Chats /\ Draws(f.found) /\ (f.chat = selected \/ selected \in mixed')
    BY <1>7 DEF Fits, IsSelected, FetchIsDrawn
  <2>3. \A r \in DOMAIN f.found : Holds(f.found[r], r)
    BY DEF Fits, AnswersFit, AnswerFits
  <2>4. ViewFits' /\ FramesFit'
    BY <1>1, <2>1, <2>2, <2>3, DrawsFit
  <2>5. UNCHANGED <<events, acks, selected>> /\ fetches' \subseteq fetches
    BY <1>7 DEF FetchIsDrawn
  <2> QED
    BY <1>2, <2>4, <2>5 DEF Fits
<1>8. ASSUME NEW f \in fetches, FetchFails(f)
      PROVE  Fits'
  BY <1>2, <1>8 DEF FetchFails, Fits
<1>9. CASE PageSends
  <2>1. Mid(sends') < 0 /\ Mid(sends') \in BubbleId /\ selected \in Chats
    <3>1. sends \in 0 .. MaxSends /\ sends < MaxSends /\ sends' = sends + 1
      BY <1>9 DEF PageSends, TypeOK
    <3>2. selected \in Chats
      BY <1>9 DEF PageSends, TypeOK
    <3> QED
      BY <3>1, <3>2, Constants DEF Mid, BubbleId
  <2>2. PICK f, b : /\ f = [action |-> "send", chat |-> selected, id |-> Mid(sends')]
                    /\ b = [id |-> Mid(sends'), tick |-> "", failed |-> FALSE]
    OBVIOUS
  <2>3. up' = Append(up, f) /\ f \in Frame /\ view' = Append(view, b) /\ b \in Bubble
    BY <1>9, <2>1, <2>2 DEF PageSends, Frame, Bubble
  <2>4. /\ \A i \in DOMAIN up' : up'[i] = f \/ \E j \in DOMAIN up : up'[i] = up[j]
        /\ \A i \in DOMAIN view' : view'[i] = b \/ \E j \in DOMAIN view : view'[i] = view[j]
    BY <2>3, AppendElements DEF TypeOK
  <2>5. FrameFits(f)' /\ BubbleFits(b)'
    BY <2>1, <2>2 DEF FrameFits, BubbleFits
  <2>6. FramesFit' /\ ViewFits'
    BY <1>4, <2>4, <2>5, ViewFitsNext, FramesFitNext
  <2>7. UNCHANGED <<events, acks, selected, fetches>>
    BY <1>9 DEF PageSends
  <2> QED
    BY <1>2, <2>6, <2>7 DEF Fits
<1>10. ASSUME NEW e \in events, PageHandlesEvent(e)
       PROVE  Fits'
  <2>1. Holds(e.kind, e.row)
    BY DEF Fits, EventsFit, EventFits
  <2>2. ViewFits' /\ FramesFit'
    <3>1. CASE /\ Draws([r \in {e.row} |-> "new"]) /\ rows[e.row].chat = selected
      <4> DEFINE found == [r \in {e.row} |-> "new"]
      <4>1. found \in [{e.row} -> Status] /\ {e.row} \in SUBSET Stored
        BY <2>1 DEF Status, Holds
      <4>2. selected \in Chats
        BY <1>3, <2>1, <3>1 DEF Row, Holds
      <4>3. \A r \in {e.row} : Holds(found[r], r)
        BY <2>1 DEF Holds
      <4>4. Draws(found) /\ \A r \in {e.row} : rows[r].chat = selected
        BY <3>1
      <4> HIDE DEF found
      <4> QED
        BY <1>1, <4>1, <4>2, <4>3, <4>4, DrawsFit
    <3>2. CASE UNCHANGED <<view, up, shown>>
      BY <1>2, <3>2
    <3>3. CASE e.kind = "read" /\ view' = Ticked(FirstOf(e.row), "two") /\ UNCHANGED up
      BY <1>1, <1>2, <2>1, <3>3, TickedFits
    <3>4. CASE e.kind = "delivered" /\ view' = TickedOnce(FirstOf(e.row)) /\ UNCHANGED up
      <4>1. PICK I \in SUBSET FirstOf(e.row) : view' = Ticked(I, "one")
        BY <3>4 DEF TickedOnce
      <4> QED
        BY <1>1, <1>2, <2>1, <3>4, <4>1, TickedFits
    <3>5. CASE e.kind = "failed" /\ view' = Crossed(FirstOf(e.row)) /\ UNCHANGED up
      <4>1. PICK I \in SUBSET FirstOf(e.row) : view' = Crossed(I)
        BY <3>5
      <4> QED
        BY <1>1, <1>2, <2>1, <3>5, <4>1, CrossedFits
    <3> QED
      BY <1>10, <3>1, <3>2, <3>3, <3>4, <3>5 DEF PageHandlesEvent, Handles
  <2>3. events' \subseteq events /\ UNCHANGED <<acks, selected, fetches>>
    BY <1>10 DEF PageHandlesEvent
  <2> QED
    BY <1>2, <2>2, <2>3 DEF Fits
<1>11. CASE PageHandlesAck
  <2>1. /\ Head(acks) \in Ack /\ acks # <<>> /\ acks' = Tail(acks)
        /\ Head(acks) = acks[1] /\ 1 \in DOMAIN acks
    BY <1>11, FirstAck DEF PageHandlesAck
  <2>2. PICK a \in Ack : a = Head(acks) /\ AckFits(a)
    BY <2>1 DEF Fits, AcksFit
  <2>3. /\ view' \in Seq(Bubble) /\ DOMAIN view' = DOMAIN view
        /\ \A i \in DOMAIN view :
              /\ view'[i].tick = view[i].tick /\ view'[i].failed = view[i].failed
              /\ view'[i].id = IF i \in FirstOf(a.mid) /\ a.row # NoRow THEN a.row ELSE view[i].id
    BY <1>11, <2>2, AckedElements DEF PageHandlesAck
  <2>4. a.row # NoRow => Holds("new", a.row)
    BY <2>2 DEF AckFits, Holds
  <2>5. \A i \in FirstOf(a.mid) : view[i].id = a.mid /\ a.mid < 0
    BY <2>2 DEF FirstOf, AckFits
  <2>6. \A i \in DOMAIN view :
            /\ view[i].id > 0 => view'[i].id = view[i].id
            /\ view'[i].id = view[i].id \/ Holds("new", view'[i].id)
    <3> SUFFICES ASSUME NEW i \in DOMAIN view
                 PROVE  /\ view[i].id > 0 => view'[i].id = view[i].id
                        /\ view'[i].id = view[i].id \/ Holds("new", view'[i].id)
      OBVIOUS
    <3>1. view[i].id \in Int
      BY BubbleIds
    <3> QED
      BY <2>3, <2>4, <2>5, <3>1
  <2>7. ViewFits'
    BY <1>1, <2>3, <2>6, ChangedFits
  <2>8. AcksFit'
    BY <1>1, <2>1, TailFits
  <2>9. UNCHANGED <<events, up, selected, fetches>>
    BY <1>11 DEF PageHandlesAck
  <2> QED
    BY <1>2, <2>7, <2>8, <2>9 DEF Fits
<1> QED
  BY <1>5, <1>6, <1>7, <1>8, <1>9, <1>10, <1>11 DEF PageNext

LEMMA StutterFits == Fits /\ UNCHANGED vars => Fits'
  BY DEF Fits, EventsFit, EventFits, ViewFits, BubbleFits, FramesFit, FrameFits, AcksFit, AckFits,
         AnswersFit, AnswerFits, SendingFits, IsSelected, Holds, Stored, IsInbound,
         vars, serverVars, deliveryVars, wireVars, socketVars, pageVars, otherVars, historyVars
-----------------------------------------------------------------------------
(* Every step keeps what is read, and what is told, honest.                *)

(* Unless a receipt is processed, no customer's message becomes read.      *)
LEMMA NothingIsRead ==
    TypeOK /\ [Next]_vars /\ ~SocketReads =>
        /\ \A r \in Stored' : (IsInbound(r) /\ rows[r].status = "read")' =>
              r \in Stored /\ IsInbound(r) /\ rows[r].status = "read"
        /\ UNCHANGED seenMarks
<1> DEFINE Goal == \A r \in Stored' : (IsInbound(r) /\ rows[r].status = "read")' =>
                      r \in Stored /\ IsInbound(r) /\ rows[r].status = "read"
<1> SUFFICES ASSUME TypeOK, [Next]_vars, ~SocketReads
             PROVE  Goal /\ UNCHANGED seenMarks
  OBVIOUS
<1> USE DEF serverVars, deliveryVars, wireVars, socketVars, pageVars, otherVars, historyVars
<1>1. ASSUME UNCHANGED rows
      PROVE  Goal
  BY <1>1 DEF IsInbound, Stored
<1>2. ASSUME NEW c \in Chats, NEW a \in Author, NEW q \in RowId \cup {NoRow}, Stores(c, a, q)
      PROVE  Goal
  <2>1. /\ DOMAIN rows' = 1 .. Len(rows) + 1 /\ Len(rows') = Len(rows) + 1
        /\ \A r \in Stored : rows'[r] = rows[r]
        /\ rows'[Len(rows')] = [chat |-> c, author |-> a, status |-> "new", echoOf |-> q]
    BY <1>2, StoresTypes
  <2>2. \A r \in Stored' : r \in Stored \/ r = Len(rows')
    BY <2>1, StoredRows DEF Stored
  <2>3. rows'[Len(rows')].status # "read"
    BY <2>1
  <2> QED
    BY <2>1, <2>2, <2>3 DEF IsInbound
<1>3. ASSUME NEW R, NEW s \in Status, rows' = WithStatus(R, s),
             s # "read" \/ \A r \in R : ~IsInbound(r)
      PROVE  Goal
  BY <1>3, WithStatusTypes DEF IsInbound, Stored
<1>4. ASSUME NEW r \in Stored, CustomerReads(r)
      PROVE  Goal /\ UNCHANGED seenMarks
  <2> DEFINE R == {q \in Held(rows[r].chat) :
                     q <= r /\ ~IsInbound(q) /\ rows[q].status \in {"new", "delivered"}}
  <2>1. rows' = WithStatus(R, "read") /\ (\A q \in R : ~IsInbound(q)) /\ "read" \in Status
    BY <1>4 DEF CustomerReads, Status
  <2> HIDE DEF R
  <2> QED
    BY <1>3, <1>4, <2>1 DEF CustomerReads
<1>5. ASSUME NEW r \in Stored, ProviderTakes(r)
      PROVE  Goal /\ UNCHANGED seenMarks
  BY <1>1, <1>3, <1>5 DEF ProviderTakes, MarkedDelivered, Status
<1>6. ASSUME NEW r \in Stored, ProviderRefuses(r)
      PROVE  Goal /\ UNCHANGED seenMarks
  BY <1>1, <1>3, <1>6 DEF ProviderRefuses, Status
<1>7. CASE SocketStores
  BY <1>2, <1>7, SocketStoresOne DEF SocketStores
<1>8. ASSUME NEW c \in Chats, NEW a \in Writers, SomebodyWrites(c, a)
      PROVE  Goal /\ UNCHANGED seenMarks
  BY <1>2, <1>8, SomebodyStores DEF SomebodyWrites
<1>10. ASSUME NEW r \in Stored, EchoArrives(r)
       PROVE  Goal /\ UNCHANGED seenMarks
  BY <1>2, <1>10, EchoStores DEF EchoArrives
<1>9. ASSUME \/ SocketNext \/ PageNext \/ SocketStoreFails \/ SocketReadFails \/ UNCHANGED vars
             \/ \E e \in events : EventMisses(e) \/ EventIsDropped(e)
             \/ \E r \in Stored : NothingIsSent(r) \/ Adopts(r) \/ AdoptionFails(r)
      PROVE  UNCHANGED <<rows, seenMarks>>
  BY <1>9 DEF SocketNext, PageNext, SocketStoreFails, SocketReadFails, EventMisses, EventIsDropped,
              NothingIsSent, Adopts, AdoptionFails, PanelRegisters,
              PanelIsListed, PanelDisconnects, OtherConnects, OtherDisconnects, Selects, FetchIsAnswered,
              FetchIsDrawn, FetchFails, PageSends, PageHandlesEvent, PageHandlesAck, vars
<1> HIDE DEF Goal
<1> QED
  BY <1>1, <1>4, <1>5, <1>6, <1>7, <1>8, <1>9, <1>10 DEF Next, ServerNext, DeliveryNext

LEMMA HonestStep == TypeOK /\ Fits /\ Honest /\ [Next]_vars => Honest'
<1> SUFFICES ASSUME TypeOK, Fits, Honest, [Next]_vars
             PROVE  ReadMeansShown' /\ SeenIsHonest'
  BY DEF Honest
<1>1. Grows /\ shown \subseteq shown' /\ mixed \subseteq mixed' /\ shown \subseteq Stored
  BY RowsGrow, Monotonic DEF Fits, TypeOK
<1>2. /\ \A r \in Stored : IsInbound(r) /\ rows[r].status = "read" =>
            \E s \in shown : s >= r /\ IsInbound(s) /\ rows[s].chat = rows[r].chat
      /\ \A c \in seenMarks \ mixed : \E s \in shown : IsInbound(s) /\ rows[s].chat = c
  BY DEF Honest, ReadMeansShown, SeenIsHonest
<1>3. \A s \in shown : s \in shown' /\ rows'[s].chat = rows[s].chat /\ (IsInbound(s) => IsInbound(s)')
  BY <1>1 DEF Grows, IsInbound
<1>4. CASE ~SocketReads
  <2>1. /\ \A r \in Stored' : (IsInbound(r) /\ rows[r].status = "read")' =>
              r \in Stored /\ IsInbound(r) /\ rows[r].status = "read"
        /\ UNCHANGED seenMarks
    BY <1>4, NothingIsRead
  <2>2. \A r \in Stored : rows'[r].chat = rows[r].chat
    BY <1>1 DEF Grows
  <2>3. ReadMeansShown'
    BY <1>2, <1>3, <2>1, <2>2 DEF ReadMeansShown
  <2>4. SeenIsHonest'
    BY <1>1, <1>2, <1>3, <2>1 DEF SeenIsHonest
  <2> QED
    BY <2>3, <2>4
<1>5. CASE SocketReads
  <2>1. PICK f : /\ f = Head(up) /\ f.action = "read" /\ FrameFits(f)
                 /\ rows' = WithStatus(Marked(f), "read")
                 /\ seenMarks' = IF Marked(f) = {} THEN seenMarks ELSE seenMarks \cup {f.chat}
                 /\ UNCHANGED <<shown, mixed>>
    <3>1. Head(up) = up[1] /\ 1 \in DOMAIN up
      BY <1>5, FirstFrame DEF SocketReads
    <3> QED
      BY <1>5, <3>1 DEF SocketReads, Fits, FramesFit, historyVars
  <2>2. f.id \in shown /\ IsInbound(f.id) /\ (rows[f.id].chat = f.chat \/ f.chat \in mixed)
    BY <2>1 DEF FrameFits
  <2>3. /\ DOMAIN rows' = Stored
        /\ \A r \in Stored :
              /\ rows'[r].chat = rows[r].chat /\ rows'[r].author = rows[r].author
              /\ rows'[r].status = IF r \in Marked(f) THEN "read" ELSE rows[r].status
    BY <2>1, WithStatusTypes DEF Status
  <2>4. ASSUME NEW r \in Stored, rows[r].author = "client", rows'[r].status = "read"
        PROVE  \E s \in shown : s >= r /\ IsInbound(s) /\ rows[s].chat = rows[r].chat
    <3>1. CASE r \in Marked(f)
      <4>1. r <= f.id /\ rows[r].chat = rows[f.id].chat /\ r \in Int /\ f.id \in Int
        BY <1>1, <2>2, <3>1, StoredRows DEF Marked, Held, InChat
      <4> QED
        BY <2>2, <4>1
    <3>2. CASE r \notin Marked(f)
      BY <1>2, <2>3, <2>4, <3>2 DEF IsInbound
    <3> QED
      BY <3>1, <3>2
  <2>5. ReadMeansShown'
    BY <1>1, <2>1, <2>3, <2>4 DEF ReadMeansShown, IsInbound, Stored
  <2>6. \A c \in seenMarks' \ mixed : \E s \in shown : IsInbound(s) /\ rows[s].chat = c
    BY <1>2, <2>1, <2>2
  <2>7. SeenIsHonest'
    BY <1>1, <2>1, <2>3, <2>6 DEF SeenIsHonest, IsInbound
  <2> QED
    BY <2>5, <2>7
<1> QED
  BY <1>4, <1>5

-----------------------------------------------------------------------------
(* The inductive invariant.                                                *)

LEMMA InitIInv == Init => IInv
<1> SUFFICES ASSUME Init
             PROVE  Fits /\ Honest
  BY InitTypes DEF IInv
<1>1. Fits
  BY DEF Init, Fits, EventsFit, ViewFits, FramesFit, AcksFit, AnswersFit, SendingFits, IsSelected
<1>2. Honest
  BY DEF Init, Honest, ReadMeansShown, SeenIsHonest, Stored
<1> QED
  BY <1>1, <1>2

LEMMA StepIInv == IInv /\ [Next]_vars => IInv'
<1> SUFFICES ASSUME IInv, [Next]_vars
             PROVE  TypeOK' /\ Fits' /\ Honest'
  BY DEF IInv
<1>1. TypeOK /\ Fits /\ Honest /\ EventsFit /\ IsSelected
  BY DEF IInv, Fits
<1>2. Honest'
  BY <1>1, HonestStep
<1>3. CASE ServerNext
  BY <1>1, <1>2, <1>3, ServerTypes, ServerFits
<1>4. CASE SocketNext
  BY <1>1, <1>2, <1>4, SocketTypes, SocketFits
<1>5. CASE PageNext
  BY <1>1, <1>2, <1>5, PageTypes, PageFits
<1>6. CASE UNCHANGED vars
  BY <1>1, <1>2, <1>6, StutterTypes, StutterFits
<1> QED
  BY <1>3, <1>4, <1>5, <1>6 DEF Next

LEMMA Invariance == Spec => []IInv
  BY InitIInv, StepIInv, PTL DEF Spec

(* Every reachable state of the panel, its socket and the rows is          *)
(* well-formed (operator.html, operator_ws.rs).                            *)
THEOREM Types == Spec => []TypeOK
<1>1. IInv => TypeOK
  BY DEF IInv
<1> QED
  BY <1>1, Invariance, PTL

(* What a bubble says of a message is true of its row, in whatever order   *)
(* answers, events and acks came, and whatever statement failed; the row   *)
(* of a crossed bubble still says new only where mark_undelivered could    *)
(* not write the refusal (operator.html: handleEvent, markDelivered,       *)
(* markUndelivered, selectChat; operator_ws.rs:331).                       *)
THEOREM TrueTicks == Spec => []TicksAreTrue
<1>1. IInv => TicksAreTrue
  <2> SUFFICES ASSUME IInv, NEW i \in DOMAIN view
               PROVE  /\ view[i].id < 0 => view[i].tick = "" /\ ~view[i].failed
                      /\ view[i].tick = "two" => rows[view[i].id].status = "read"
                      /\ view[i].tick = "one" => rows[view[i].id].status \in {"delivered", "read"}
                      /\ view[i].failed =>
                            \/ rows[view[i].id].status \in {"failed", "read"}
                            \/ rows[view[i].id].status = "new" /\ view[i].id \in unrecorded
    BY DEF TicksAreTrue
  <2>1. TypeOK /\ BubbleFits(view[i])
    BY DEF IInv, Fits, ViewFits
  <2>2. \A r \in Stored : ~(r < 0)
    BY <2>1, StoredRows, Constants DEF RowId
  <2> QED
    BY <2>1, <2>2 DEF BubbleFits, Holds
<1> QED
  BY <1>1, Invariance, PTL

(* A customer's message is marked read only if it, or a later one of the   *)
(* chat, was on the operator's screen (operator.html: appendMessage;       *)
(* db.rs: mark_messages_read_by_id).                                       *)
THEOREM ReadsShown == Spec => []ReadMeansShown
<1>1. IInv => ReadMeansShown
  BY DEF IInv, Honest
<1> QED
  BY <1>1, Invariance, PTL

(* A customer is told "seen" only if a message of theirs was on screen, or *)
(* another chat's answer was drawn into their view (operator_ws.rs:        *)
(* process_operator_message).                                              *)
THEOREM HonestSeen == Spec => []SeenIsHonest
<1>1. IInv => SeenIsHonest
  BY DEF IInv, Honest
<1> QED
  BY <1>1, Invariance, PTL

-----------------------------------------------------------------------------
(* What the selected chat is owed, from its selection on.                  *)

(* What is in the view, and what is under way between it and the socket.   *)
Drawn == {view[i] : i \in DOMAIN view}
FramesUp == {up[k] : k \in DOMAIN up}
AcksDown == {acks[k] : k \in DOMAIN acks}

HasBubble(id) == \E b \in Drawn : b.id = id
InAnswer(r) == \E f \in fetches : f.answered /\ r \in DOMAIN f.found
Announced(kind, r) == [kind |-> kind, row |-> r] \in events
Acknowledged(r) == \E a \in AcksDown, b \in Drawn : a.row = r /\ a.mid = b.id

(* Only what an operator wrote is delivered, the page's operator alone is  *)
(* told of it, and no event tells of the reading of what a customer wrote. *)
(* Only echoes are deleted.                                                *)
AuthorsFit ==
    /\ \A r \in Stored :
          /\ rows[r].author \notin Operators => rows[r].status \in {"new", "read"}
          /\ rows[r].echoOf # NoRow \/ r \in gone => rows[r].author = "app"
    /\ \A e \in events :
          /\ e.kind = "message" => rows[e.row].author # "me"
          /\ e.kind = "read" => ~IsInbound(e.row)
          /\ e.kind \in {"delivered", "failed"} => rows[e.row].author = "me"
    /\ \A a \in AcksDown : a.row # NoRow => rows[a.row].author = "me"
    /\ \A b \in Drawn : b.id > 0 /\ IsInbound(b.id) => b.tick = ""

(* An id the page makes up is in one frame or one ack, and an ack has a    *)
(* row of its own.                                                         *)
MidsOnce ==
    /\ \A f \in FramesUp : f.action = "send" => -sends <= f.id
    /\ \A a \in AcksDown : -sends <= a.mid
    /\ \A k, l \in DOMAIN up :
          up[k].action = "send" /\ up[l].action = "send" /\ up[k].id = up[l].id => k = l
    /\ \A k, l \in DOMAIN acks : acks[k].mid = acks[l].mid => k = l
    /\ \A k, l \in DOMAIN acks : acks[k].row = acks[l].row /\ acks[k].row # NoRow => k = l
    /\ \A f \in FramesUp, a \in AcksDown : f.action = "send" => f.id # a.mid

ListedWhenOpen == phase = "open" => listed

(* Since the selection the panel was connected, and until its answer is    *)
(* drawn the view is empty.                                                *)
OneFetch ==
    /\ phase = "open" /\ selected \in Chats
    /\ \A f \in fetches : fetches = {f} /\ f.chat = selected /\ view = <<>>

OfSelected ==
    /\ \A b \in Drawn : b.id > 0 => rows[b.id].chat = selected
    /\ \A f \in FramesUp, b \in Drawn : f.action = "send" /\ f.id = b.id => f.chat = selected
    /\ \A a \in AcksDown, b \in Drawn : a.mid = b.id =>
          a.row # NoRow /\ rows[a.row].chat = selected /\ ~HasBubble(a.row)

(* The rows the view is to have, once the selection's query has run.       *)
Due == {r \in Held(selected) \ excused : \A f \in fetches : f.answered}

(* What was deleted before the selection is not drawn after it, unless its *)
(* own event was on its way then.                                          *)
NoneDeleted ==
    \A r \in gone \ excused : ~HasBubble(r) /\ ~InAnswer(r) /\ ~Announced("message", r)

Placed ==
    \A r \in Due : HasBubble(r) \/ InAnswer(r) \/ Announced("message", r) \/ Acknowledged(r)

PlacedOnce ==
    \A r \in Due :
        /\ Announced("message", r) => ~HasBubble(r) /\ ~InAnswer(r)
        /\ \A i, j \in DOMAIN view : view[i].id = r /\ view[j].id = r => i = j

(* What a row was drawn with, or will be, is what it has, or what is       *)
(* announced of it; the delivery of a colleague's reply is not.            *)
Tick(s) == IF s = "read" THEN "two" ELSE IF s = "delivered" THEN "one" ELSE ""
Shows(r, tick, failed) ==
    /\ rows[r].status = "read" => tick = "two" \/ Announced("read", r)
    /\ rows[r].author # "colleague" =>
          /\ rows[r].status = "delivered" => tick = "one" \/ Announced("delivered", r)
          /\ rows[r].status = "failed" => failed \/ Announced("failed", r)

Current ==
    \A r \in Due : ~IsInbound(r) =>
        /\ \A b \in Drawn : b.id = r => Shows(r, b.tick, b.failed)
        /\ \A f \in fetches : r \in DOMAIN f.found =>
              Shows(r, Tick(f.found[r]), f.found[r] = "failed")
        /\ Announced("message", r) \/ Acknowledged(r) => Shows(r, "", FALSE)

(* A customer's message that was drawn is read, or its receipt is under    *)
(* way, unless the receipt's statement failed.                             *)
ReadsDue ==
    \A b \in Drawn : b.id > 0 /\ IsInbound(b.id) /\ b.id \notin excused =>
        \/ rows[b.id].status = "read"
        \/ \E f \in FramesUp : f.action = "read" /\ f.id = b.id

Settling ==
    /\ OneFetch /\ OfSelected /\ NoneDeleted /\ Placed /\ PlacedOnce /\ Current /\ ReadsDue

(* Nothing has raced with everything.                                      *)
Clean == excused # RowId

VInv == AuthorsFit /\ MidsOnce /\ ListedWhenOpen /\ (Clean => Settling)

-----------------------------------------------------------------------------
(* What the page's operations leave in place, and where they put the rest. *)

LEMMA FirstFramePlaces ==
    ASSUME TypeOK, up # <<>>
    PROVE  /\ Head(up) = up[1] /\ 1 \in DOMAIN up
           /\ \A k \in DOMAIN Tail(up) : k + 1 \in DOMAIN up /\ Tail(up)[k] = up[k + 1]
           /\ \A k \in DOMAIN up : k = 1 \/ (k - 1 \in DOMAIN Tail(up) /\ Tail(up)[k - 1] = up[k])
<1>1. up \in Seq(Frame)
  BY DEF TypeOK
<1> QED
  BY <1>1, TailPlaces

LEMMA FirstAckPlaces ==
    ASSUME TypeOK, acks # <<>>
    PROVE  /\ Head(acks) = acks[1] /\ 1 \in DOMAIN acks
           /\ \A k \in DOMAIN Tail(acks) : k + 1 \in DOMAIN acks /\ Tail(acks)[k] = acks[k + 1]
           /\ \A k \in DOMAIN acks :
                 k = 1 \/ (k - 1 \in DOMAIN Tail(acks) /\ Tail(acks)[k - 1] = acks[k])
<1>1. acks \in Seq(Ack)
  BY DEF TypeOK
<1> QED
  BY <1>1, TailPlaces

(* What is drawn is listed once each.                                      *)
LEMMA OrderListsAll ==
    ASSUME NEW R \in SUBSET RowId, NEW q \in InOrder(R)
    PROVE  /\ \A i, j \in DOMAIN q : q[i] = q[j] => i = j
           /\ \A r \in R : \E j \in DOMAIN q : q[j] = r
<1>1. /\ Cardinality(R) \in Nat /\ IsFiniteSet(R) /\ q \in [1 .. Cardinality(R) -> R]
      /\ \A i, j \in 1 .. Cardinality(R) : i < j => q[i] < q[j]
  BY Constants, RowsAreCounted DEF InOrder, RowId
<1>2. \A i \in 1 .. Cardinality(R) : q[i] \in Int
  <2>1. RowId \subseteq Int
    BY Constants DEF RowId
  <2> QED
    BY <1>1, <2>1
<1>3. \A i, j \in 1 .. Cardinality(R) : q[i] = q[j] => i = j
  BY <1>1, <1>2
<1>4. \A r \in R : \E j \in 1 .. Cardinality(R) : q[j] = r
  BY <1>1, <1>3, AllAreListed
<1> QED
  BY <1>1, <1>3, <1>4

LEMMA DrawsPlaces ==
    ASSUME TypeOK, NEW R \in SUBSET Stored, NEW found \in [R -> Status], selected \in Chats,
           Draws(found)
    PROVE  /\ \A i \in DOMAIN view : i \in DOMAIN view' /\ view'[i] = view[i]
           /\ \A i \in DOMAIN view' \ DOMAIN view : \E r \in R : view'[i] = BubbleOf(r, found[r])
           /\ \A i, j \in DOMAIN view' \ DOMAIN view : view'[i].id = view'[j].id => i = j
           /\ \A r \in R : \E i \in DOMAIN view' : view'[i] = BubbleOf(r, found[r])
           /\ \A k \in DOMAIN up : k \in DOMAIN up' /\ up'[k] = up[k]
           /\ \A k \in DOMAIN up' \ DOMAIN up : up'[k].action = "read"
           /\ \A r \in R : Answers(r, found[r]) =>
                 \E k \in DOMAIN up' : up'[k] = [action |-> "read", chat |-> selected, id |-> r]
<1>0. Stored \subseteq RowId /\ RowId \subseteq BubbleId /\ DOMAIN found = R
  BY StoredRows, Constants DEF RowId, BubbleId
<1>1. PICK order \in InOrder(R) :
          view' = view \o [i \in DOMAIN order |-> BubbleOf(order[i], found[order[i]])]
  BY <1>0 DEF Draws
<1> DEFINE U == {r \in R : Answers(r, found[r])}
<1>2. PICK unread \in InOrder(U) :
          up' = up \o [i \in DOMAIN unread |->
                          [action |-> "read", chat |-> selected, id |-> unread[i]]]
  BY <1>0 DEF Draws
<1>3. /\ Cardinality(R) \in Nat /\ order \in [1 .. Cardinality(R) -> R]
      /\ Cardinality(U) \in Nat /\ unread \in [1 .. Cardinality(U) -> U]
  BY <1>0, OrderIsSequence
<1>4. /\ \A i, j \in DOMAIN order : order[i] = order[j] => i = j
      /\ \A r \in R : \E j \in DOMAIN order : order[j] = r
      /\ \A r \in U : \E j \in DOMAIN unread : unread[j] = r
  BY <1>0, OrderListsAll
<1> DEFINE bubbles == [i \in DOMAIN order |-> BubbleOf(order[i], found[order[i]])]
           frames == [i \in DOMAIN unread |-> [action |-> "read", chat |-> selected, id |-> unread[i]]]
<1>5. ASSUME NEW r \in R
      PROVE  BubbleOf(r, found[r]) \in Bubble /\ BubbleOf(r, found[r]).id = r
  BY <1>0 DEF BubbleOf, TickOf, Bubble
<1>6. bubbles \in [1 .. Cardinality(R) -> Bubble] /\ frames \in [1 .. Cardinality(U) -> Frame]
  <2>1. bubbles \in [1 .. Cardinality(R) -> Bubble]
    BY <1>3, <1>5
  <2>2. frames \in [1 .. Cardinality(U) -> Frame]
    BY <1>0, <1>3 DEF Frame
  <2> QED
    BY <2>1, <2>2
<1>7. /\ \A i \in DOMAIN bubbles : \E r \in R : bubbles[i] = BubbleOf(r, found[r])
      /\ \A i, j \in DOMAIN bubbles : bubbles[i].id = bubbles[j].id => i = j
      /\ \A r \in R : \E i \in DOMAIN bubbles : bubbles[i] = BubbleOf(r, found[r])
  <2>1. \A i \in DOMAIN order : order[i] \in R /\ bubbles[i].id = order[i]
                                /\ bubbles[i] = BubbleOf(order[i], found[order[i]])
    BY <1>3, <1>5
  <2> QED
    BY <1>4, <2>1
<1>8. /\ \A i \in DOMAIN frames : frames[i].action = "read"
      /\ \A r \in U : \E i \in DOMAIN frames : frames[i] = [action |-> "read", chat |-> selected, id |-> r]
  BY <1>4
<1>9. view' = view \o bubbles /\ up' = up \o frames
  BY <1>1, <1>2
<1> HIDE DEF bubbles, frames
<1>10. /\ bubbles \in Seq(Bubble) /\ frames \in Seq(Frame)
       /\ view \in Seq(Bubble) /\ up \in Seq(Frame)
  BY <1>3, <1>6, FunctionIsSequence DEF TypeOK
<1>11. /\ \A i \in DOMAIN view : i \in DOMAIN view' /\ view'[i] = view[i]
       /\ \A i \in DOMAIN bubbles : i + Len(view) \in DOMAIN view' /\ view'[i + Len(view)] = bubbles[i]
       /\ \A i \in DOMAIN view' \ DOMAIN view : i - Len(view) \in DOMAIN bubbles /\ view'[i] = bubbles[i - Len(view)]
  BY <1>9, <1>10, ConcatPlaces
<1>12. /\ \A i \in DOMAIN up : i \in DOMAIN up' /\ up'[i] = up[i]
       /\ \A i \in DOMAIN frames : i + Len(up) \in DOMAIN up' /\ up'[i + Len(up)] = frames[i]
       /\ \A i \in DOMAIN up' \ DOMAIN up : i - Len(up) \in DOMAIN frames /\ up'[i] = frames[i - Len(up)]
  BY <1>9, <1>10, ConcatPlaces
<1>13. \A i \in DOMAIN view' \ DOMAIN view : \E r \in R : view'[i] = BubbleOf(r, found[r])
  BY <1>7, <1>11
<1>14. ASSUME NEW i \in DOMAIN view' \ DOMAIN view, NEW j \in DOMAIN view' \ DOMAIN view,
              view'[i].id = view'[j].id
       PROVE  i = j
  <2>1. i - Len(view) = j - Len(view)
    BY <1>7, <1>11, <1>14
  <2>2. view' \in Seq(Bubble)
    BY <1>9, <1>10, ConcatElements
  <2>3. i \in Int /\ j \in Int /\ Len(view) \in Int
    BY <1>10, <2>2
  <2> QED
    BY <2>1, <2>3
<1>15. \A r \in R : \E i \in DOMAIN view' : view'[i] = BubbleOf(r, found[r])
  BY <1>7, <1>11
<1>16. \A k \in DOMAIN up' \ DOMAIN up : up'[k].action = "read"
  BY <1>8, <1>12
<1>17. \A r \in R : Answers(r, found[r]) =>
           \E k \in DOMAIN up' : up'[k] = [action |-> "read", chat |-> selected, id |-> r]
  BY <1>8, <1>12
<1> QED
  BY <1>11, <1>12, <1>13, <1>14, <1>15, <1>16, <1>17

LEMMA DrawsSets ==
    ASSUME TypeOK, NEW R \in SUBSET Stored, NEW found \in [R -> Status], selected \in Chats,
           Draws(found)
    PROVE  /\ Drawn \subseteq Drawn'
           /\ \A b \in Drawn' : b \in Drawn \/ \E r \in R : b = BubbleOf(r, found[r])
           /\ \A r \in R : BubbleOf(r, found[r]) \in Drawn'
           /\ FramesUp \subseteq FramesUp'
           /\ \A f \in FramesUp' : f \in FramesUp \/ f.action = "read"
           /\ \A r \in R : Answers(r, found[r]) =>
                 [action |-> "read", chat |-> selected, id |-> r] \in FramesUp'
<1>1. /\ \A i \in DOMAIN view : i \in DOMAIN view' /\ view'[i] = view[i]
      /\ \A i \in DOMAIN view' \ DOMAIN view : \E r \in R : view'[i] = BubbleOf(r, found[r])
      /\ \A r \in R : \E i \in DOMAIN view' : view'[i] = BubbleOf(r, found[r])
      /\ \A k \in DOMAIN up : k \in DOMAIN up' /\ up'[k] = up[k]
      /\ \A k \in DOMAIN up' \ DOMAIN up : up'[k].action = "read"
      /\ \A r \in R : Answers(r, found[r]) =>
            \E k \in DOMAIN up' : up'[k] = [action |-> "read", chat |-> selected, id |-> r]
  BY DrawsPlaces
<1>2. Drawn \subseteq Drawn' /\ FramesUp \subseteq FramesUp'
  BY <1>1 DEF Drawn, FramesUp
<1>3. \A b \in Drawn' : b \in Drawn \/ \E r \in R : b = BubbleOf(r, found[r])
  BY <1>1 DEF Drawn
<1>4. \A r \in R : BubbleOf(r, found[r]) \in Drawn'
  <2> SUFFICES ASSUME NEW r \in R
               PROVE  BubbleOf(r, found[r]) \in Drawn'
    OBVIOUS
  <2>1. PICK i \in DOMAIN view' : view'[i] = BubbleOf(r, found[r])
    BY <1>1
  <2> QED
    BY <2>1 DEF Drawn
<1>5. \A f \in FramesUp' : f \in FramesUp \/ f.action = "read"
  BY <1>1 DEF FramesUp
<1>6. \A r \in R : Answers(r, found[r]) =>
          [action |-> "read", chat |-> selected, id |-> r] \in FramesUp'
  BY <1>1 DEF FramesUp
<1> QED
  BY <1>2, <1>3, <1>4, <1>5, <1>6

-----------------------------------------------------------------------------
(* What a step does to a row, and what it announces of it.                 *)

LEMMA StoresRow ==
    ASSUME TypeOK, NEW c \in Chats, NEW a \in Author, NEW q \in RowId \cup {NoRow}, Stores(c, a, q)
    PROVE  /\ \A r \in Stored : rows'[r] = rows[r]
           /\ \A r \in DOMAIN rows' \ Stored : r = Len(rows')
           /\ Len(rows') \in DOMAIN rows' \ Stored
           /\ rows'[Len(rows')].chat = c /\ rows'[Len(rows')].author = a
           /\ rows'[Len(rows')].status = "new" /\ rows'[Len(rows')].echoOf = q
<1>1. /\ Len(rows') = Len(rows) + 1 /\ DOMAIN rows' = 1 .. Len(rows) + 1
      /\ \A r \in Stored : rows'[r] = rows[r]
      /\ rows'[Len(rows')] = [chat |-> c, author |-> a, status |-> "new", echoOf |-> q]
      /\ Len(rows') \notin Stored
  BY StoresTypes
<1>2. Len(rows) \in Nat /\ Stored = 1 .. Len(rows)
  BY StoredRows
<1>3. Len(rows') \in DOMAIN rows' /\ \A r \in DOMAIN rows' \ Stored : r = Len(rows')
  BY <1>1, <1>2
<1>4. PICK row : row = rows'[Len(rows')] /\ row = [chat |-> c, author |-> a, status |-> "new", echoOf |-> q]
  BY <1>1
<1>5. row.chat = c /\ row.author = a /\ row.status = "new" /\ row.echoOf = q
  BY <1>4
<1> QED
  BY <1>1, <1>3, <1>4, <1>5

(* Only the delivery of a colleague's reply changes a row unannounced.     *)
RowSteps(r) ==
    \/ rows'[r].status = rows[r].status
    \/ rows'[r].status = "read" /\ (IsInbound(r) \/ [kind |-> "read", row |-> r] \in events')
    \/ /\ r \in sending /\ rows'[r].status \in {"delivered", "failed"}
       /\ rows[r].author = "me" => [kind |-> rows'[r].status, row |-> r] \in events'

RowComes(r) ==
    /\ rows'[r].status = "new"
    /\ rows'[r].echoOf # NoRow => rows'[r].author = "app"
    /\ \/ rows'[r].author = "me" /\ SocketStores /\ r = Len(rows')
       \/ rows'[r].author # "me" /\ [kind |-> "message", row |-> r] \in events' /\ UNCHANGED <<up, acks>>

RowsStep ==
    /\ \A r \in Stored : RowSteps(r)
    /\ \A r \in DOMAIN rows' \ Stored : RowComes(r)
    /\ \A r \in gone' : r \in gone \/ (r \in Stored /\ rows[r].echoOf # NoRow /\ r \in excused')

LEMMA StepRows == TypeOK /\ [Next]_vars => RowsStep
<1> SUFFICES ASSUME TypeOK, [Next]_vars
             PROVE  RowsStep
  OBVIOUS
<1> USE DEF serverVars, deliveryVars, wireVars, socketVars, pageVars, otherVars, historyVars
<1>1. ASSUME UNCHANGED <<rows, gone>>
      PROVE  RowsStep
  BY <1>1 DEF RowsStep, RowSteps, Stored
<1>2. ASSUME NEW c \in Chats, NEW a \in Author, NEW q \in RowId \cup {NoRow}, Stores(c, a, q),
             q # NoRow => a = "app",
             a = "me" => SocketStores, a # "me" => UNCHANGED <<up, acks>>
      PROVE  RowsStep
  <2>1. /\ \A r \in Stored : rows'[r] = rows[r]
        /\ \A r \in DOMAIN rows' \ Stored : r = Len(rows')
        /\ rows'[Len(rows')].author = a /\ rows'[Len(rows')].status = "new"
        /\ rows'[Len(rows')].echoOf = q
    BY <1>2, StoresRow
  <2>2. UNCHANGED gone /\ (a # "me" => [kind |-> "message", row |-> Len(rows')] \in events')
    BY <1>2 DEF Stores
  <2>3. \A r \in Stored : RowSteps(r)
    BY <2>1 DEF RowSteps
  <2>4. \A r \in DOMAIN rows' \ Stored : RowComes(r)
    BY <1>2, <2>1, <2>2 DEF RowComes
  <2> QED
    BY <2>2, <2>3, <2>4 DEF RowsStep
<1>3. CASE SocketStores
  BY <1>2, <1>3, SocketStoresOne
<1>3a. ASSUME NEW c \in Chats, NEW a \in Writers, SomebodyWrites(c, a)
       PROVE  RowsStep
  <2>1. Stores(c, a, NoRow) /\ a \in Author /\ a # "me" /\ NoRow \in RowId \cup {NoRow}
    BY <1>3a, SomebodyStores
  <2> QED
    BY <1>2, <1>3a, <2>1 DEF SomebodyWrites
<1>3b. ASSUME NEW r \in Stored, EchoArrives(r)
       PROVE  RowsStep
  <2>1. /\ Stores(rows[r].chat, "app", r) /\ "app" # "me" /\ UNCHANGED <<up, acks>>
        /\ rows[r].chat \in Chats /\ "app" \in Author /\ r \in RowId \cup {NoRow}
    BY <1>3b, EchoStores DEF EchoArrives
  <2> QED
    BY <1>2, <2>1
<1>4. ASSUME NEW R, NEW s \in Status, rows' = WithStatus(R, s), UNCHANGED gone,
             \A r \in R \cap Stored :
                \/ s = "read" /\ (IsInbound(r) \/ [kind |-> "read", row |-> r] \in events')
                \/ /\ s \in {"delivered", "failed"} /\ r \in sending
                   /\ rows[r].author = "me" => [kind |-> s, row |-> r] \in events'
      PROVE  RowsStep
  <2>1. /\ DOMAIN rows' = Stored
        /\ \A r \in Stored : rows'[r].status = IF r \in R THEN s ELSE rows[r].status
    BY <1>4, WithStatusTypes
  <2>2. \A r \in Stored : RowSteps(r)
    BY <1>4, <2>1 DEF RowSteps
  <2> QED
    BY <1>4, <2>1, <2>2 DEF RowsStep
<1>5. ASSUME NEW r \in Stored, CustomerReads(r)
      PROVE  RowsStep
  <2> DEFINE R == {q \in Held(rows[r].chat) :
                     q <= r /\ ~IsInbound(q) /\ rows[q].status \in {"new", "delivered"}}
  <2>1. rows' = WithStatus(R, "read") /\ (\A q \in R : [kind |-> "read", row |-> q] \in events')
    BY <1>5 DEF CustomerReads
  <2>2. UNCHANGED gone /\ "read" \in Status
    BY <1>5 DEF CustomerReads, Status
  <2> HIDE DEF R
  <2> QED
    BY <1>4, <2>1, <2>2
<1>6. ASSUME NEW r \in Stored, ProviderTakes(r)
      PROVE  RowsStep
  <2>0. r \in sending /\ UNCHANGED gone
    BY <1>6 DEF ProviderTakes
  <2>1. CASE rows[r].status = "new" /\ rows' = MarkedDelivered(r) /\ events' = events \cup Notice("delivered", r)
    <3>1. /\ rows' = WithStatus({r}, "delivered") /\ "delivered" \in Status
          /\ rows[r].author = "me" => [kind |-> "delivered", row |-> r] \in events'
      BY <2>1 DEF MarkedDelivered, Status, Notice
    <3> QED
      BY <1>4, <2>0, <3>1
  <2>2. CASE UNCHANGED rows
    BY <1>1, <2>0, <2>2
  <2> QED
    BY <1>6, <2>1, <2>2 DEF ProviderTakes, MarkedDelivered
<1>7. ASSUME NEW r \in Stored, ProviderRefuses(r)
      PROVE  RowsStep
  <2>0. r \in sending /\ UNCHANGED gone /\ events' = events \cup Notice("failed", r)
    BY <1>7 DEF ProviderRefuses
  <2>1. CASE rows' = WithStatus({r}, "failed")
    <3>1. /\ "failed" \in Status
          /\ rows[r].author = "me" => [kind |-> "failed", row |-> r] \in events'
      BY <2>0 DEF Status, Notice
    <3> QED
      BY <1>4, <2>0, <2>1, <3>1
  <2>2. CASE UNCHANGED rows
    BY <1>1, <2>0, <2>2
  <2> QED
    BY <1>7, <2>1, <2>2 DEF ProviderRefuses
<1>7a. ASSUME NEW r \in Stored, Adopts(r)
       PROVE  RowsStep
  <2>1. /\ UNCHANGED rows /\ gone' = gone \cup {e \in Stored : rows[e].echoOf = r}
        /\ excused' = excused \cup {e \in Stored : rows[e].echoOf = r}
    BY <1>7a DEF Adopts
  <2>2. r # NoRow
    BY StoredRows, Constants DEF RowId, NoRow
  <2>3. \A e \in gone' : e \in gone \/ (e \in Stored /\ rows[e].echoOf # NoRow /\ e \in excused')
    BY <2>1, <2>2
  <2> QED
    BY <2>1, <2>3 DEF RowsStep, RowSteps, Stored
<1>8. CASE SocketReads
  <2>1. PICK R : R = Marked(Head(up))
    OBVIOUS
  <2>2. rows' = WithStatus(R, "read") /\ UNCHANGED gone /\ "read" \in Status
    BY <1>8, <2>1 DEF SocketReads, Status
  <2>3. \A r \in R : IsInbound(r)
    BY <2>1 DEF Marked
  <2> QED
    BY <1>4, <2>2, <2>3
<1>9. ASSUME SocketNext \/ PageNext \/ SocketStoreFails \/ SocketReadFails \/ UNCHANGED vars
             \/ (\E r \in Stored : NothingIsSent(r) \/ AdoptionFails(r))
             \/ \E e \in events : EventMisses(e) \/ EventIsDropped(e)
      PROVE  UNCHANGED <<rows, gone>>
  BY <1>9 DEF SocketNext, PageNext, SocketStoreFails, SocketReadFails, NothingIsSent, AdoptionFails,
              EventMisses, EventIsDropped, PanelRegisters,
              PanelIsListed, PanelDisconnects, OtherConnects, OtherDisconnects, Selects, FetchIsAnswered,
              FetchIsDrawn, FetchFails, PageSends, PageHandlesEvent, PageHandlesAck, vars
<1> QED
  BY <1>1, <1>3, <1>3a, <1>3b, <1>5, <1>6, <1>7, <1>7a, <1>8, <1>9 DEF Next, ServerNext, DeliveryNext

(* What a step announces, and that only a row's own step does.             *)
EventComes(e) ==
    \/ e.kind = "message" /\ e.row \in DOMAIN rows' \ Stored /\ rows'[e.row].author # "me"
    \/ e.kind = "read" /\ e.row \in Stored /\ ~IsInbound(e.row)
    \/ e.kind \in {"delivered", "failed"} /\ e.row \in sending /\ rows[e.row].author = "me"

LEMMA StepEvents ==
    TypeOK /\ [Next]_vars => \A e \in events' : e \in events \/ EventComes(e)
<1> SUFFICES ASSUME TypeOK, [Next]_vars
             PROVE  \A e \in events' : e \in events \/ EventComes(e)
  OBVIOUS
<1> USE DEF serverVars, deliveryVars, wireVars, socketVars, pageVars, otherVars, historyVars
<1>0. ASSUME NEW c \in Chats, NEW a \in Author, NEW q \in RowId \cup {NoRow}, Stores(c, a, q), a # "me"
      PROVE  \A e \in events' : e \in events \/ EventComes(e)
  <2>1. Len(rows') \in DOMAIN rows' \ Stored /\ rows'[Len(rows')].author = a
    BY <1>0, StoresRow
  <2>2. events' = events \cup {[kind |-> "message", row |-> Len(rows')]}
    BY <1>0 DEF Stores
  <2>3. EventComes([kind |-> "message", row |-> Len(rows')])
    BY <1>0, <2>1 DEF EventComes
  <2> QED
    BY <2>2, <2>3
<1>1. ASSUME NEW c \in Chats, NEW a \in Writers, SomebodyWrites(c, a)
      PROVE  \A e \in events' : e \in events \/ EventComes(e)
  BY <1>0, <1>1, SomebodyStores
<1>1a. ASSUME NEW r \in Stored, EchoArrives(r)
       PROVE  \A e \in events' : e \in events \/ EventComes(e)
  BY <1>0, <1>1a, EchoStores
<1>2. ASSUME NEW r \in Stored, CustomerReads(r)
      PROVE  \A e \in events' : e \in events \/ EventComes(e)
  BY <1>2 DEF CustomerReads, EventComes, Held, InChat
<1>3. ASSUME NEW r \in Stored, ProviderTakes(r) \/ ProviderRefuses(r)
      PROVE  \A e \in events' : e \in events \/ EventComes(e)
  <2>1. r \in sending
    BY <1>3 DEF ProviderTakes, ProviderRefuses
  <2>2. \A k \in {"delivered", "failed"} : \A e \in Notice(k, r) : EventComes(e)
    BY <2>1 DEF Notice, EventComes
  <2>3. events' = events \/ events' = events \cup Notice("delivered", r) \/ events' = events \cup Notice("failed", r)
    BY <1>3 DEF ProviderTakes, ProviderRefuses
  <2> QED
    BY <2>2, <2>3
<1>4. ASSUME SocketNext \/ PageNext \/ SocketStores \/ SocketStoreFails \/ SocketReads
             \/ SocketReadFails \/ UNCHANGED vars
             \/ (\E r \in Stored : NothingIsSent(r) \/ Adopts(r) \/ AdoptionFails(r))
             \/ \E e \in events : EventMisses(e) \/ EventIsDropped(e)
      PROVE  events' \subseteq events
  BY <1>4 DEF SocketNext, PageNext, SocketStores, Stores, SocketStoreFails, SocketReads, SocketReadFails,
              NothingIsSent, Adopts, AdoptionFails, EventMisses,
              EventIsDropped, PanelRegisters, PanelIsListed, PanelDisconnects, OtherConnects,
              OtherDisconnects, Selects, FetchIsAnswered, FetchIsDrawn, FetchFails, PageSends,
              PageHandlesEvent, PageHandlesAck, vars
<1> QED
  BY <1>1, <1>1a, <1>2, <1>3, <1>4 DEF Next, ServerNext, DeliveryNext

-----------------------------------------------------------------------------
(* Authors.                                                                *)

LEMMA StepAcks ==
    TypeOK /\ [Next]_vars =>
        \A a \in AcksDown' :
            \/ a \in AcksDown \/ a.row = NoRow
            \/ a.row = Len(rows') /\ a.row \in DOMAIN rows' \ Stored /\ rows'[a.row].author = "me"
               /\ SocketStores
<1> SUFFICES ASSUME TypeOK, [Next]_vars, NEW k \in DOMAIN acks'
             PROVE  LET a == acks'[k] IN
                       \/ a \in AcksDown \/ a.row = NoRow
                       \/ a.row = Len(rows') /\ a.row \in DOMAIN rows' \ Stored /\ rows'[a.row].author = "me"
                          /\ SocketStores
  BY DEF AcksDown
<1> USE DEF serverVars, deliveryVars, wireVars, socketVars, pageVars, otherVars, historyVars
<1>1. CASE SocketStores
  <2>1. /\ Stores(Head(up).chat, "me", NoRow) /\ NoRow \in RowId \cup {NoRow}
        /\ "me" \in Author /\ Head(up).chat \in Chats
    BY <1>1, SocketStoresOne
  <2>2. Head(up).id \in BubbleId
    BY <1>1, FirstFrame DEF SocketStores, Frame
  <2>3. Len(rows') \in DOMAIN rows' \ Stored /\ rows'[Len(rows')].author = "me" /\ Len(rows') \in RowId
    BY <2>1, StoresRow, StoresTypes
  <2>4. PICK a : a = [mid |-> Head(up).id, row |-> Len(rows')]
    OBVIOUS
  <2>5. a \in Ack /\ acks \in Seq(Ack) /\ acks' = Append(acks, a) /\ a.row = Len(rows')
    BY <1>1, <2>2, <2>3, <2>4 DEF SocketStores, TypeOK, Ack
  <2>6. acks'[k] = a \/ \E j \in DOMAIN acks : acks'[k] = acks[j]
    BY <2>5, AppendElements
  <2> QED
    BY <1>1, <2>3, <2>5, <2>6 DEF AcksDown
<1>2. CASE SocketStoreFails
  <2>1. Head(up).id \in BubbleId
    BY <1>2, FirstFrame DEF SocketStoreFails, Frame
  <2>2. PICK a : a = [mid |-> Head(up).id, row |-> NoRow]
    OBVIOUS
  <2>3. a \in Ack /\ acks \in Seq(Ack) /\ acks' \in {Append(acks, a), acks} /\ a.row = NoRow
    BY <1>2, <2>1, <2>2 DEF SocketStoreFails, TypeOK, Ack
  <2>4. acks'[k] = a \/ \E j \in DOMAIN acks : acks'[k] = acks[j]
    BY <2>3, AppendElements
  <2> QED
    BY <2>3, <2>4 DEF AcksDown
<1>3. CASE PageHandlesAck
  <2>1. \E j \in DOMAIN acks : acks'[k] = acks[j]
    BY <1>3, FirstAck DEF PageHandlesAck
  <2> QED
    BY <2>1 DEF AcksDown
<1>4. CASE PanelDisconnects
  BY <1>4 DEF PanelDisconnects
<1>5. ASSUME ~SocketStores, ~SocketStoreFails, ~PageHandlesAck, ~PanelDisconnects
      PROVE  UNCHANGED acks
  <2>1. CASE ServerNext
    BY <1>5, <2>1 DEF ServerNext, DeliveryNext, SomebodyWrites, CustomerReads, NothingIsSent, ProviderTakes,
                      ProviderRefuses, EchoArrives, Adopts, AdoptionFails, SocketReads, SocketReadFails,
                      EventMisses, EventIsDropped
  <2>2. CASE SocketNext
    BY <1>5, <2>2 DEF SocketNext, PanelRegisters, PanelIsListed, OtherConnects, OtherDisconnects
  <2>3. CASE PageNext
    BY <1>5, <2>3 DEF PageNext, Selects, FetchIsAnswered, FetchIsDrawn, FetchFails, PageSends,
                      PageHandlesEvent
  <2>4. CASE UNCHANGED vars
    BY <2>4 DEF vars
  <2> QED
    BY <2>1, <2>2, <2>3, <2>4 DEF Next
<1>6. CASE UNCHANGED acks
  BY <1>6 DEF AcksDown
<1> QED
  BY <1>1, <1>2, <1>3, <1>4, <1>5, <1>6

LEMMA AppendedBubble ==
    ASSUME TypeOK, NEW b \in Bubble
    PROVE  /\ DOMAIN view \subseteq DOMAIN Append(view, b)
           /\ \A i \in DOMAIN view : Append(view, b)[i] = view[i]
           /\ \A i \in DOMAIN Append(view, b) \ DOMAIN view : i = Len(view) + 1
           /\ \A i \in DOMAIN Append(view, b) :
                 Append(view, b)[i] = b \/ \E j \in DOMAIN view : Append(view, b)[i] = view[j]
           /\ \E i \in DOMAIN Append(view, b) : Append(view, b)[i] = b
<1>1. view \in Seq(Bubble)
  BY DEF TypeOK
<1>2. /\ Len(Append(view, b)) = Len(view) + 1 /\ Append(view, b) \in Seq(Bubble)
      /\ Append(view, b)[Len(view) + 1] = b
      /\ \A i \in DOMAIN view : i \in DOMAIN Append(view, b) /\ Append(view, b)[i] = view[i]
      /\ \A i \in DOMAIN Append(view, b) :
            Append(view, b)[i] = b \/ \E j \in DOMAIN view : Append(view, b)[i] = view[j]
  BY <1>1, AppendElements
<1>3. DOMAIN view = 1 .. Len(view) /\ DOMAIN Append(view, b) = 1 .. Len(view) + 1 /\ Len(view) \in Nat
  BY <1>1, <1>2
<1> QED
  BY <1>2, <1>3

(* Bubbles that are ticked or crossed where they are.                      *)
SameIds == DOMAIN view' = DOMAIN view /\ \A i \in DOMAIN view : view'[i].id = view[i].id

LEMMA TickedInPlace ==
    ASSUME TypeOK, NEW r, NEW I \in SUBSET FirstOf(r), NEW tick \in {"one", "two"},
           view' = Ticked(I, tick)
    PROVE  /\ SameIds
           /\ \A i \in DOMAIN view :
                 /\ view'[i].failed = view[i].failed
                 /\ view'[i].tick = IF i \in I THEN tick ELSE view[i].tick
                 /\ view'[i].tick = view[i].tick \/ view[i].id = r
<1>1. /\ DOMAIN view' = DOMAIN view
      /\ \A i \in DOMAIN view :
            /\ view'[i].id = view[i].id /\ view'[i].failed = view[i].failed
            /\ view'[i].tick = IF i \in I THEN tick ELSE view[i].tick
  BY TickedElements
<1>2. \A i \in I : view[i].id = r
  BY DEF FirstOf
<1> QED
  BY <1>1, <1>2 DEF SameIds

LEMMA CrossedInPlace ==
    ASSUME TypeOK, NEW I, view' = Crossed(I)
    PROVE  /\ SameIds
           /\ \A i \in DOMAIN view :
                 /\ view'[i].tick = view[i].tick
                 /\ view'[i].failed = (i \in I \/ view[i].failed)
<1>1. /\ DOMAIN view' = DOMAIN view
      /\ \A i \in DOMAIN view :
            view'[i] = IF i \in I THEN [view[i] EXCEPT !.failed = TRUE] ELSE view[i]
  BY DEF Crossed
<1>2. \A i \in DOMAIN view : view[i] \in Bubble
  BY Bubbles
<1>3. \A i \in DOMAIN view : /\ view'[i].id = view[i].id /\ view'[i].tick = view[i].tick
                             /\ view'[i].failed = (i \in I \/ view[i].failed)
  BY <1>1, <1>2 DEF Bubble
<1> QED
  BY <1>1, <1>3 DEF SameIds

Plain == \A b \in Drawn : b.id > 0 /\ IsInbound(b.id) => b.tick = ""

LEMMA PlainStep == TypeOK /\ Fits /\ AuthorsFit /\ [Next]_vars => Plain'
<1> SUFFICES ASSUME TypeOK, Fits, AuthorsFit, [Next]_vars
             PROVE  Plain'
  OBVIOUS
<1> USE DEF serverVars, deliveryVars, wireVars, socketVars, pageVars, otherVars, historyVars
<1>1. Grows /\ Plain
  BY RowsGrow DEF AuthorsFit, Plain
<1>2. /\ \A r \in Stored : IsInbound(r)' <=> IsInbound(r)
      /\ \A i \in DOMAIN view : view[i].id > 0 => view[i].id \in Stored
      /\ \A i \in DOMAIN view : view[i].id \in Int
      /\ \A r \in Stored : rows[r] \in Row /\ r > 0
  <2>1. \A i \in DOMAIN view : view[i].id \in Int
    BY BubbleIds
  <2>2. \A r \in Stored : rows[r] \in Row /\ r > 0
    BY StoredRows, Constants DEF TypeOK, Stored, RowId
  <2>3. ASSUME NEW i \in DOMAIN view, view[i].id > 0
        PROVE  view[i].id \in Stored
    <3>1. BubbleFits(view[i]) /\ ~(view[i].id < 0)
      BY <2>1, <2>3 DEF Fits, ViewFits
    <3> QED
      BY <3>1 DEF BubbleFits, Holds
  <2> QED
    BY <1>1, <2>1, <2>2, <2>3 DEF Grows, IsInbound
<1>3. \A i \in DOMAIN view : view[i].id > 0 /\ IsInbound(view[i].id) => view[i].tick = ""
  BY <1>1 DEF Plain, Drawn
<1>4. ASSUME \A i \in DOMAIN view' :
                \/ \E j \in DOMAIN view : view'[i] = view[j]
                \/ view'[i].tick = ""
                \/ view'[i].id \in Stored /\ ~IsInbound(view'[i].id)
                \/ \E j \in DOMAIN view : view'[i].id = view[j].id /\ view'[i].tick = view[j].tick
      PROVE  Plain'
  <2> SUFFICES ASSUME NEW b \in Drawn', b.id > 0, rows'[b.id].author = "client", b.tick # ""
               PROVE  FALSE
    BY DEF Plain, IsInbound
  <2>1. PICK i \in DOMAIN view' : view'[i] = b
    BY DEF Drawn
  <2>2. b.id \in Stored => IsInbound(b.id)
    BY <1>1 DEF IsInbound, Grows
  <2>3. PICK j \in DOMAIN view : b.id = view[j].id /\ b.tick = view[j].tick
    BY <1>4, <2>1, <2>2
  <2> QED
    BY <1>2, <1>3, <2>2, <2>3
<1>5. CASE UNCHANGED view
  BY <1>4, <1>5
<1>6. CASE view' = <<>>
  <2>1. DOMAIN view' = {}
    BY <1>6
  <2> QED
    BY <1>4, <2>1
<1>7. ASSUME NEW R \in SUBSET Stored, NEW found \in [R -> Status], selected \in Chats, Draws(found)
      PROVE  Plain'
  <2>1. \A i \in DOMAIN view' :
            (\E j \in DOMAIN view : view'[i] = view[j]) \/ \E r \in R : view'[i] = BubbleOf(r, found[r])
    BY <1>7, DrawsElements
  <2>2. \A r \in R : /\ BubbleOf(r, found[r]).id = r
                     /\ IsInbound(r) => BubbleOf(r, found[r]).tick = ""
    BY DEF BubbleOf, TickOf
  <2>3. \A i \in DOMAIN view' :
            \/ \E j \in DOMAIN view : view'[i] = view[j]
            \/ view'[i].tick = ""
            \/ view'[i].id \in Stored /\ ~IsInbound(view'[i].id)
    <3> SUFFICES ASSUME NEW i \in DOMAIN view', NEW r \in R, view'[i] = BubbleOf(r, found[r])
                 PROVE  view'[i].tick = "" \/ (view'[i].id \in Stored /\ ~IsInbound(view'[i].id))
      BY <2>1
    <3>1. view'[i].id = r /\ (IsInbound(r) => view'[i].tick = "")
      BY <2>2
    <3> QED
      BY <3>1
  <2> QED
    BY <1>4, <2>3
<1>8. ASSUME NEW f \in fetches, FetchIsDrawn(f)
      PROVE  Plain'
  <2>1. /\ DOMAIN f.found \subseteq Stored /\ f.found \in [DOMAIN f.found -> Status]
    BY DEF TypeOK, InChat, Fetch
  <2>2. selected \in Chats /\ Draws(f.found)
    BY <1>8 DEF Fits, IsSelected, FetchIsDrawn
  <2> QED
    BY <1>7, <2>1, <2>2
<1>9. CASE PageSends
  <2>1. PICK b : b = [id |-> Mid(sends'), tick |-> "", failed |-> FALSE]
    OBVIOUS
  <2>2. Mid(sends') \in BubbleId
    <3>1. sends \in 0 .. MaxSends /\ sends < MaxSends /\ sends' = sends + 1
      BY <1>9 DEF PageSends, TypeOK
    <3> QED
      BY <3>1, Constants DEF Mid, BubbleId
  <2>3. view' = Append(view, b) /\ b \in Bubble /\ view \in Seq(Bubble) /\ b.tick = ""
    BY <1>9, <2>1, <2>2 DEF PageSends, Bubble, TypeOK
  <2>4. \A i \in DOMAIN Append(view, b) :
            Append(view, b)[i] = b \/ \E j \in DOMAIN view : Append(view, b)[i] = view[j]
    BY <2>3, AppendedBubble
  <2> QED
    BY <1>4, <2>3, <2>4
<1>10. ASSUME NEW e \in events, PageHandlesEvent(e)
       PROVE  Plain'
  <2>1. e \in Event /\ e.row \in Stored
    BY DEF TypeOK, Fits, EventsFit, EventFits, Holds
  <2>2. e.kind # "message" => ~IsInbound(e.row)
    <3>1. e.kind \in {"message", "read", "delivered", "failed"}
      BY <2>1 DEF Event
    <3> QED
      BY <3>1 DEF AuthorsFit, IsInbound
  <2>3. CASE e.kind = "message" /\ rows[e.row].chat = selected /\ Draws([r \in {e.row} |-> "new"])
    <3>1. [r \in {e.row} |-> "new"] \in [{e.row} -> Status] /\ {e.row} \in SUBSET Stored
      BY <2>1 DEF Status
    <3>2. selected \in Chats
      BY <1>2, <2>1, <2>3 DEF Row
    <3> QED
      BY <1>7, <2>3, <3>1, <3>2
  <2>4. CASE /\ e.kind # "message"
             /\ \E I \in SUBSET FirstOf(e.row), tick \in {"one", "two"} : view' = Ticked(I, tick)
    <3>a. PICK r : r = e.row
      OBVIOUS
    <3>0. PICK I \in SUBSET FirstOf(r), tick \in {"one", "two"} : view' = Ticked(I, tick)
      BY <2>4, <3>a
    <3>1. /\ DOMAIN view' = DOMAIN view
          /\ \A i \in DOMAIN view : /\ view'[i].id = view[i].id
                                    /\ view'[i].tick = view[i].tick \/ view[i].id = e.row
      <4>1. /\ SameIds
            /\ \A i \in DOMAIN view : view'[i].tick = view[i].tick \/ view[i].id = r
        BY <3>0, TickedInPlace
      <4> QED
        BY <3>a, <4>1 DEF SameIds
    <3> QED
      BY <1>4, <2>1, <2>2, <2>4, <3>1
  <2>5. CASE \E I : view' = Crossed(I)
    <3>1. /\ DOMAIN view' = DOMAIN view
          /\ \A i \in DOMAIN view : view'[i].id = view[i].id /\ view'[i].tick = view[i].tick
      BY <2>5, CrossedInPlace DEF SameIds
    <3> QED
      BY <1>4, <3>1
  <2> QED
    BY <1>5, <1>10, <2>3, <2>4, <2>5 DEF PageHandlesEvent, Handles, TickedOnce
<1>11. CASE PageHandlesAck
  <2>1. /\ Head(acks) \in Ack /\ Head(acks) \in AcksDown
    BY <1>11, FirstAck DEF PageHandlesAck, AcksDown
  <2>2. PICK a \in Ack : a = Head(acks) /\ a \in AcksDown
    BY <2>1
  <2>3. /\ DOMAIN view' = DOMAIN view
        /\ \A i \in DOMAIN view :
              /\ view'[i].tick = view[i].tick
              /\ view'[i].id = IF i \in FirstOf(a.mid) /\ a.row # NoRow THEN a.row ELSE view[i].id
    BY <1>11, <2>2, AckedElements DEF PageHandlesAck
  <2>4. a.row # NoRow => a.row \in Stored /\ ~IsInbound(a.row)
    <3>1. a.row \in Stored \cup {NoRow}
      BY <2>2 DEF Fits, AcksFit, AckFits, AcksDown
    <3>2. a.row # NoRow => rows[a.row].author = "me"
      BY <2>2 DEF AuthorsFit
    <3> QED
      BY <3>1, <3>2 DEF IsInbound
  <2> QED
    BY <1>4, <2>3, <2>4
<1>12. ASSUME ServerNext \/ SocketNext \/ UNCHANGED vars
       PROVE  UNCHANGED view
  BY <1>12 DEF ServerNext, DeliveryNext, SomebodyWrites, CustomerReads, NothingIsSent, ProviderTakes,
               ProviderRefuses, EchoArrives, Adopts, AdoptionFails, EventMisses,
               EventIsDropped, SocketStores, SocketStoreFails, SocketReads, SocketReadFails, SocketNext,
               PanelRegisters, PanelIsListed, PanelDisconnects, OtherConnects, OtherDisconnects, vars
<1>13. ASSUME NEW c \in Chats, Selects(c)
       PROVE  view' = <<>>
  BY <1>13 DEF Selects
<1>14. ASSUME NEW f \in fetches, FetchIsAnswered(f) \/ FetchFails(f)
       PROVE  UNCHANGED view
  BY <1>14 DEF FetchIsAnswered, FetchFails
<1> QED
  BY <1>5, <1>6, <1>8, <1>9, <1>10, <1>11, <1>12, <1>13, <1>14 DEF Next, PageNext

LEMMA AuthorsStep == TypeOK /\ Fits /\ AuthorsFit /\ [Next]_vars => AuthorsFit'
<1> SUFFICES ASSUME TypeOK, Fits, AuthorsFit, [Next]_vars
             PROVE  AuthorsFit'
  OBVIOUS
<1>1. Grows /\ RowsStep /\ Plain'
  BY RowsGrow, StepRows, PlainStep
<1>2. /\ \A r \in Stored : r \in DOMAIN rows' /\ rows'[r].author = rows[r].author
      /\ sending \subseteq Stored
      /\ \A e \in events : e.row \in Stored
      /\ \A a \in AcksDown : a.row # NoRow => a.row \in Stored
  BY <1>1 DEF Grows, TypeOK, Fits, EventsFit, EventFits, Holds, AcksFit, AckFits, AcksDown
<1>3. ASSUME NEW r \in DOMAIN rows'
      PROVE  /\ rows'[r].author \notin Operators => rows'[r].status \in {"new", "read"}
             /\ rows'[r].echoOf # NoRow => rows'[r].author = "app"
  <2>1. CASE r \in Stored
    <3>1. /\ rows[r].author \notin Operators => rows[r].status \in {"new", "read"}
          /\ rows[r].echoOf # NoRow => rows[r].author = "app"
          /\ r \in sending => rows[r].author \in Operators
      BY <2>1 DEF AuthorsFit, TypeOK
    <3>2. RowSteps(r) /\ rows'[r].author = rows[r].author /\ rows'[r].echoOf = rows[r].echoOf
      BY <1>1, <2>1 DEF RowsStep, Grows
    <3> QED
      BY <3>1, <3>2 DEF RowSteps
  <2>2. CASE r \notin Stored
    <3>1. RowComes(r)
      BY <1>1, <2>2 DEF RowsStep
    <3> QED
      BY <3>1 DEF RowComes
  <2> QED
    BY <2>1, <2>2
<1>4. \A r \in gone' : rows'[r].author = "app"
  <2> SUFFICES ASSUME NEW r \in gone'
               PROVE  rows'[r].author = "app"
    OBVIOUS
  <2>1. r \in gone \/ (r \in Stored /\ rows[r].echoOf # NoRow)
    BY <1>1 DEF RowsStep
  <2>2. r \in Stored /\ rows[r].author = "app"
    BY <2>1 DEF AuthorsFit, TypeOK
  <2> QED
    BY <1>2, <2>2
<1>5. \A e \in events' : /\ e.kind = "message" => rows'[e.row].author # "me"
                         /\ e.kind = "read" => rows'[e.row].author # "client"
                         /\ e.kind \in {"delivered", "failed"} => rows'[e.row].author = "me"
  <2> SUFFICES ASSUME NEW e \in events'
               PROVE  /\ e.kind = "message" => rows'[e.row].author # "me"
                      /\ e.kind = "read" => rows'[e.row].author # "client"
                      /\ e.kind \in {"delivered", "failed"} => rows'[e.row].author = "me"
    OBVIOUS
  <2>1. CASE e \in events
    BY <1>2, <2>1 DEF AuthorsFit, IsInbound
  <2>2. CASE EventComes(e)
    BY <1>2, <2>2 DEF EventComes, IsInbound
  <2> QED
    BY <2>1, <2>2, StepEvents
<1>6. \A a \in AcksDown' : a.row # NoRow => rows'[a.row].author = "me"
  <2> SUFFICES ASSUME NEW a \in AcksDown', a.row # NoRow
               PROVE  rows'[a.row].author = "me"
    OBVIOUS
  <2>1. a \in AcksDown \/ rows'[a.row].author = "me"
    BY StepAcks
  <2> QED
    BY <1>2, <2>1 DEF AuthorsFit
<1> QED
  BY <1>1, <1>3, <1>4, <1>5, <1>6 DEF AuthorsFit, Plain, IsInbound, Stored

LEMMA ListedStep == TypeOK /\ ListedWhenOpen /\ [Next]_vars => ListedWhenOpen'
<1> SUFFICES ASSUME TypeOK, ListedWhenOpen, [Next]_vars
             PROVE  ListedWhenOpen'
  OBVIOUS
<1> USE DEF serverVars, deliveryVars, wireVars, socketVars, pageVars, otherVars, historyVars
<1>1. CASE SocketNext
  BY <1>1 DEF SocketNext, PanelRegisters, PanelIsListed, PanelDisconnects, OtherConnects, OtherDisconnects,
              ListedWithout, ListedWhenOpen
<1>2. CASE ServerNext
  BY <1>2 DEF ServerNext, DeliveryNext, SomebodyWrites, CustomerReads, NothingIsSent, ProviderTakes,
              ProviderRefuses, EchoArrives, Adopts, AdoptionFails, EventMisses, EventIsDropped,
              SocketStores, SocketStoreFails, SocketReads, SocketReadFails, ListedWhenOpen
<1>3. CASE PageNext
  BY <1>3 DEF PageNext, Selects, FetchIsAnswered, FetchIsDrawn, FetchFails, PageSends, PageHandlesEvent,
              PageHandlesAck, ListedWhenOpen
<1>4. CASE UNCHANGED vars
  BY <1>4 DEF vars, ListedWhenOpen
<1> QED
  BY <1>1, <1>2, <1>3, <1>4 DEF Next

-----------------------------------------------------------------------------
(* The ids the page makes up.                                              *)

LEMMA WireIds ==
    ASSUME NEW s \in Seq(Frame), NEW t \in Seq(Ack)
    PROVE  /\ \A k \in DOMAIN s : k \in Int /\ s[k].id \in Int
           /\ \A k \in DOMAIN t : k \in Int /\ t[k].mid \in Int
<1>1. BubbleId \subseteq Int
  BY Constants DEF BubbleId
<1>2. \A k \in DOMAIN s : k \in Int /\ s[k] \in Frame
  OBVIOUS
<1>3. \A k \in DOMAIN t : k \in Int /\ t[k] \in Ack
  OBVIOUS
<1>4. \A f \in Frame : f.id \in Int
  BY <1>1 DEF Frame
<1>5. \A a \in Ack : a.mid \in Int
  BY <1>1 DEF Ack
<1> QED
  BY <1>2, <1>3, <1>4, <1>5

(* Frames and acks that go, and receipts that come, leave them apart.      *)
LEMMA MidsKept ==
    ASSUME TypeOK, TypeOK', MidsOnce, sends <= sends', NEW d \in {0, 1}, NEW e \in {0, 1},
           \A k \in DOMAIN up' : up'[k].action = "send" => k + d \in DOMAIN up /\ up'[k] = up[k + d],
           \A k \in DOMAIN acks' : k + e \in DOMAIN acks /\ acks'[k] = acks[k + e]
    PROVE  MidsOnce'
<1>1. /\ up' \in Seq(Frame) /\ acks' \in Seq(Ack) /\ sends \in Int /\ sends' \in Int
      /\ BubbleId \subseteq Int
  BY Constants DEF TypeOK, BubbleId
<1>2. /\ \A k \in DOMAIN up' : k \in Int /\ up'[k].id \in Int
      /\ \A k \in DOMAIN acks' : k \in Int /\ acks'[k].mid \in Int
  BY <1>1, WireIds
<1>3. /\ \A k \in DOMAIN up : up[k].action = "send" => -sends <= up[k].id
      /\ \A k \in DOMAIN acks : -sends <= acks[k].mid
      /\ \A k \in DOMAIN up, l \in DOMAIN acks : up[k].action = "send" => up[k].id # acks[l].mid
  BY DEF MidsOnce, FramesUp, AcksDown
<1>4. \A k \in DOMAIN up' : up'[k].action = "send" => -sends' <= up'[k].id
  BY <1>1, <1>2, <1>3
<1>5. \A k \in DOMAIN acks' : -sends' <= acks'[k].mid
  BY <1>1, <1>2, <1>3
<1>6. ASSUME NEW k \in DOMAIN up', NEW l \in DOMAIN up', up'[k].action = "send", up'[l].action = "send",
             up'[k].id = up'[l].id
      PROVE  k = l
  <2>1. k + d = l + d
    BY <1>6 DEF MidsOnce
  <2> QED
    BY <1>2, <2>1
<1>7. ASSUME NEW k \in DOMAIN acks', NEW l \in DOMAIN acks',
             acks'[k].mid = acks'[l].mid \/ (acks'[k].row = acks'[l].row /\ acks'[k].row # NoRow)
      PROVE  k = l
  <2>1. k + e = l + e
    BY <1>7 DEF MidsOnce
  <2>2. k \in Int /\ l \in Int
    BY <1>2
  <2> QED
    BY <2>1, <2>2
<1>8. \A k \in DOMAIN up', l \in DOMAIN acks' : up'[k].action = "send" => up'[k].id # acks'[l].mid
  BY <1>3
<1>9. /\ \A f \in FramesUp' : f.action = "send" => -sends' <= f.id
      /\ \A a \in AcksDown' : -sends' <= a.mid
      /\ \A f \in FramesUp', a \in AcksDown' : f.action = "send" => f.id # a.mid
  BY <1>4, <1>5, <1>8 DEF FramesUp, AcksDown
<1> QED
  BY <1>6, <1>7, <1>9 DEF MidsOnce

(* A frame that is answered passes its id on to the ack.                   *)
LEMMA MidsAnswered ==
    ASSUME TypeOK, TypeOK', Fits, MidsOnce, UNCHANGED sends, up # <<>>, Head(up).action = "send",
           up' = Tail(up), NEW row, acks' = Append(acks, [mid |-> Head(up).id, row |-> row]),
           row = NoRow \/ row \in RowId \ Stored
    PROVE  MidsOnce'
<1>1. /\ up' \in Seq(Frame) /\ acks \in Seq(Ack) /\ sends \in Int /\ BubbleId \subseteq Int
      /\ Head(up) \in Frame /\ 1 \in DOMAIN up /\ Head(up) = up[1]
  <2>1. up' \in Seq(Frame) /\ acks \in Seq(Ack) /\ sends \in Int
    BY DEF TypeOK
  <2>2. BubbleId \subseteq Int
    BY Constants DEF BubbleId
  <2>3. Head(up) \in Frame /\ 1 \in DOMAIN up /\ Head(up) = up[1]
    BY FirstFrame
  <2> QED
    BY <2>1, <2>2, <2>3
<1>2. \A k \in DOMAIN up' : k \in Int /\ k >= 1 /\ k + 1 \in DOMAIN up /\ up'[k] = up[k + 1]
  BY <1>1, FirstFramePlaces
<1>3. PICK a : a = [mid |-> Head(up).id, row |-> row]
  OBVIOUS
<1>4. a \in Ack /\ acks' = Append(acks, a) /\ a.mid = up[1].id /\ a.row = row
  BY <1>1, <1>3 DEF Ack, Frame
<1>5. /\ Len(acks) \in Nat /\ DOMAIN acks = 1 .. Len(acks) /\ DOMAIN acks' = 1 .. Len(acks) + 1
      /\ acks'[Len(acks) + 1] = a /\ \A k \in DOMAIN acks : acks'[k] = acks[k]
  BY <1>1, <1>4, AppendProperties
<1>6. \A k \in DOMAIN acks' : k \in DOMAIN acks \/ k = Len(acks) + 1
  BY <1>5
<1>7. /\ \A k \in DOMAIN up : up[k].action = "send" => -sends <= up[k].id
      /\ \A k \in DOMAIN acks : -sends <= acks[k].mid
      /\ \A k \in DOMAIN up, l \in DOMAIN acks : up[k].action = "send" => up[k].id # acks[l].mid
      /\ \A k \in DOMAIN acks : acks[k].row \in Stored \cup {NoRow}
  BY DEF MidsOnce, FramesUp, AcksDown, Fits, AcksFit, AckFits
<1>8. up[1].action = "send" /\ -sends <= a.mid
      /\ \A l \in DOMAIN acks : a.mid # acks[l].mid /\ (row # NoRow => acks[l].row # a.row)
  BY <1>1, <1>4, <1>7
<1>9. \A k \in DOMAIN up' : up'[k].action = "send" => -sends <= up'[k].id
  BY <1>2, <1>7
<1>10. \A k \in DOMAIN acks' : -sends <= acks'[k].mid
  BY <1>5, <1>6, <1>7, <1>8
<1>11. ASSUME NEW k \in DOMAIN up', NEW l \in DOMAIN up', up'[k].action = "send", up'[l].action = "send",
              up'[k].id = up'[l].id
       PROVE  k = l
  <2>1. k + 1 = l + 1
    BY <1>2, <1>11 DEF MidsOnce
  <2> QED
    BY <1>2, <2>1
<1>12. \A k, l \in DOMAIN acks' : acks'[k].mid = acks'[l].mid => k = l
  BY <1>5, <1>6, <1>8 DEF MidsOnce
<1>13. \A k, l \in DOMAIN acks' : acks'[k].row = acks'[l].row /\ acks'[k].row # NoRow => k = l
  <2>1. \A l \in DOMAIN acks : a.row # NoRow => acks[l].row # a.row
    BY <1>4, <1>8
  <2> QED
    BY <1>5, <1>6, <2>1 DEF MidsOnce
<1>14. ASSUME NEW k \in DOMAIN up', NEW l \in DOMAIN acks', up'[k].action = "send"
       PROVE  up'[k].id # acks'[l].mid
  <2>1. k + 1 \in DOMAIN up /\ up'[k] = up[k + 1] /\ k + 1 # 1
    BY <1>2
  <2>2. up[k + 1].id # up[1].id
    BY <1>1, <1>8, <1>14, <2>1 DEF MidsOnce
  <2> QED
    BY <1>4, <1>5, <1>6, <1>7, <1>14, <2>1, <2>2
<1>15. /\ \A f \in FramesUp' : f.action = "send" => -sends' <= f.id
       /\ \A b \in AcksDown' : -sends' <= b.mid
       /\ \A f \in FramesUp', b \in AcksDown' : f.action = "send" => f.id # b.mid
  BY <1>9, <1>10, <1>14 DEF FramesUp, AcksDown
<1> QED
  BY <1>11, <1>12, <1>13, <1>15 DEF MidsOnce

LEMMA MidsSent ==
    TypeOK /\ TypeOK' /\ MidsOnce /\ PageSends => MidsOnce'
<1> SUFFICES ASSUME TypeOK, TypeOK', MidsOnce, PageSends
             PROVE  MidsOnce'
  OBVIOUS
<1>1. /\ sends \in Nat /\ sends' = sends + 1 /\ Mid(sends') = -sends - 1 /\ -sends - 1 \in BubbleId
      /\ selected \in Chats /\ BubbleId \subseteq Int
  <2>1. sends \in 0 .. MaxSends /\ sends < MaxSends /\ sends' = sends + 1 /\ selected \in Chats
    BY DEF PageSends, TypeOK
  <2> QED
    BY <2>1, Constants DEF Mid, BubbleId
<1>2. PICK f : f = [action |-> "send", chat |-> selected, id |-> Mid(sends')]
  OBVIOUS
<1>3. up \in Seq(Frame) /\ f \in Frame /\ up' = Append(up, f) /\ f.id = -sends - 1 /\ f.action = "send"
  BY <1>1, <1>2 DEF PageSends, Frame, TypeOK
<1>4. /\ Len(up) \in Nat /\ DOMAIN up = 1 .. Len(up) /\ DOMAIN up' = 1 .. Len(up) + 1
      /\ up'[Len(up) + 1] = f /\ \A k \in DOMAIN up : up'[k] = up[k]
  BY <1>3, AppendProperties
<1>5. \A k \in DOMAIN up' : k \in DOMAIN up \/ k = Len(up) + 1
  BY <1>4
<1>6. UNCHANGED acks
  BY DEF PageSends
<1>a. up \in Seq(Frame) /\ acks \in Seq(Ack)
  BY DEF TypeOK
<1>b. /\ \A k \in DOMAIN up : up[k].id \in Int
      /\ \A k \in DOMAIN acks : acks[k].mid \in Int
  BY <1>a, WireIds
<1>7. /\ \A k \in DOMAIN up : up[k].id \in Int /\ (up[k].action = "send" => -sends <= up[k].id)
      /\ \A k \in DOMAIN acks : acks[k].mid \in Int /\ -sends <= acks[k].mid
      /\ \A k \in DOMAIN up, l \in DOMAIN acks : up[k].action = "send" => up[k].id # acks[l].mid
  BY <1>b DEF MidsOnce, FramesUp, AcksDown
<1>8. \A k \in DOMAIN up' : up'[k].action = "send" => -sends' <= up'[k].id
  BY <1>1, <1>3, <1>4, <1>5, <1>7
<1>9. \A k \in DOMAIN acks : -sends' <= acks[k].mid /\ acks[k].mid # f.id
  BY <1>1, <1>3, <1>7
<1>10. \A k \in DOMAIN up : up[k].action = "send" => up[k].id # f.id
  BY <1>1, <1>3, <1>7
<1>11. \A k, l \in DOMAIN up' :
           up'[k].action = "send" /\ up'[l].action = "send" /\ up'[k].id = up'[l].id => k = l
  BY <1>4, <1>5, <1>10 DEF MidsOnce
<1>12. \A k \in DOMAIN up', l \in DOMAIN acks : up'[k].action = "send" => up'[k].id # acks[l].mid
  BY <1>4, <1>5, <1>7, <1>9
<1>13. /\ \A g \in FramesUp' : g.action = "send" => -sends' <= g.id
       /\ \A a \in AcksDown' : -sends' <= a.mid
       /\ \A g \in FramesUp', a \in AcksDown' : g.action = "send" => g.id # a.mid
  BY <1>6, <1>8, <1>9, <1>12 DEF FramesUp, AcksDown
<1>14. /\ \A k, l \in DOMAIN acks' : acks'[k].mid = acks'[l].mid => k = l
       /\ \A k, l \in DOMAIN acks' : acks'[k].row = acks'[l].row /\ acks'[k].row # NoRow => k = l
  BY <1>6 DEF MidsOnce
<1> QED
  BY <1>11, <1>13, <1>14 DEF MidsOnce

LEMMA MidsStep == TypeOK /\ TypeOK' /\ Fits /\ MidsOnce /\ [Next]_vars => MidsOnce'
<1> SUFFICES ASSUME TypeOK, TypeOK', Fits, MidsOnce, [Next]_vars
             PROVE  MidsOnce'
  OBVIOUS
<1> USE DEF serverVars, deliveryVars, wireVars, socketVars, pageVars, otherVars, historyVars
<1>1. /\ up \in Seq(Frame) /\ acks \in Seq(Ack) /\ sends \in Int
      /\ \A k \in DOMAIN up : k + 0 = k
      /\ \A k \in DOMAIN acks : k + 0 = k
  <2>1. up \in Seq(Frame) /\ acks \in Seq(Ack) /\ sends \in Int
    BY DEF TypeOK
  <2>2. (\A k \in DOMAIN up : k \in Int) /\ (\A k \in DOMAIN acks : k \in Int)
    BY <2>1, WireIds
  <2> QED
    BY <2>1, <2>2
<1>2. CASE UNCHANGED <<up, acks, sends>>
  BY <1>1, <1>2, MidsKept
<1>3. CASE PanelDisconnects
  <2>1. DOMAIN up' = {} /\ DOMAIN acks' = {} /\ sends <= sends'
    BY <1>1, <1>3 DEF PanelDisconnects
  <2> QED
    BY <2>1, MidsKept
<1>4. CASE SocketStores
  <2>2. Len(rows') \in RowId \ Stored
    BY <1>4, SocketStoresOne, StoresTypes
  <2>3. /\ UNCHANGED sends /\ up # <<>> /\ Head(up).action = "send" /\ up' = Tail(up)
        /\ acks' = Append(acks, [mid |-> Head(up).id, row |-> Len(rows')])
    BY <1>4 DEF SocketStores
  <2> QED
    BY <2>2, <2>3, MidsAnswered
<1>5. CASE SocketStoreFails
  <2>1. /\ UNCHANGED sends /\ up # <<>> /\ Head(up).action = "send" /\ up' = Tail(up)
        /\ acks' \in {Append(acks, [mid |-> Head(up).id, row |-> NoRow]), acks}
    BY <1>5 DEF SocketStoreFails
  <2>2. CASE acks' = Append(acks, [mid |-> Head(up).id, row |-> NoRow])
    BY <2>1, <2>2, MidsAnswered
  <2>3. CASE UNCHANGED acks
    <3>1. \A k \in DOMAIN up' : k + 1 \in DOMAIN up /\ up'[k] = up[k + 1]
      BY <2>1, FirstFramePlaces
    <3> QED
      BY <1>1, <2>1, <2>3, <3>1, MidsKept
  <2> QED
    BY <2>1, <2>2, <2>3
<1>6. CASE SocketReads \/ SocketReadFails
  <2>1. /\ up # <<>> /\ up' = Tail(up) /\ UNCHANGED <<acks, sends>>
    BY <1>6 DEF SocketReads, SocketReadFails
  <2>2. \A k \in DOMAIN up' : k + 1 \in DOMAIN up /\ up'[k] = up[k + 1]
    BY <2>1, FirstFramePlaces
  <2> QED
    BY <1>1, <2>1, <2>2, MidsKept
<1>7. ASSUME NEW R \in SUBSET Stored, NEW found \in [R -> Status], selected \in Chats, Draws(found),
             UNCHANGED <<acks, sends>>
      PROVE  MidsOnce'
  <2>1. \A k \in DOMAIN up' : up'[k].action = "send" => k \in DOMAIN up /\ up'[k] = up[k]
    BY <1>7, DrawsPlaces
  <2> QED
    BY <1>1, <1>7, <2>1, MidsKept
<1>8. ASSUME NEW f \in fetches, FetchIsDrawn(f)
      PROVE  MidsOnce'
  <2>1. DOMAIN f.found \subseteq Stored /\ f.found \in [DOMAIN f.found -> Status]
    BY DEF TypeOK, InChat, Fetch
  <2>2. selected \in Chats /\ Draws(f.found) /\ UNCHANGED <<acks, sends>>
    BY <1>8 DEF Fits, IsSelected, FetchIsDrawn
  <2> QED
    BY <1>7, <2>1, <2>2
<1>9. ASSUME NEW e \in events, PageHandlesEvent(e)
      PROVE  MidsOnce'
  <2>1. e.row \in Stored /\ UNCHANGED <<acks, sends>>
    BY <1>9 DEF Fits, EventsFit, EventFits, Holds, PageHandlesEvent
  <2>2. CASE rows[e.row].chat = selected /\ Draws([r \in {e.row} |-> "new"])
    <3>1. [r \in {e.row} |-> "new"] \in [{e.row} -> Status] /\ {e.row} \in SUBSET Stored
      BY <2>1 DEF Status
    <3>2. selected \in Chats
      <4>1. rows[e.row] \in Row
        BY <2>1 DEF TypeOK, Stored
      <4> QED
        BY <2>2, <4>1 DEF Row
    <3> QED
      BY <1>7, <2>1, <2>2, <3>1, <3>2
  <2> QED
    BY <1>2, <1>9, <2>1, <2>2 DEF PageHandlesEvent, Handles
<1>10. CASE PageHandlesAck
  <2>1. /\ acks # <<>> /\ acks' = Tail(acks) /\ UNCHANGED <<up, sends>>
    BY <1>10 DEF PageHandlesAck
  <2>2. \A k \in DOMAIN acks' : k + 1 \in DOMAIN acks /\ acks'[k] = acks[k + 1]
    BY <2>1, FirstAckPlaces
  <2> QED
    BY <1>1, <2>1, <2>2, MidsKept
<1>11. ASSUME \/ \E c \in Chats, a \in Writers : SomebodyWrites(c, a)
              \/ \E r \in Stored : CustomerReads(r)
              \/ DeliveryNext
              \/ \E e \in events : EventMisses(e) \/ EventIsDropped(e)
              \/ PanelRegisters \/ PanelIsListed \/ OtherConnects \/ OtherDisconnects
              \/ \E c \in Chats : Selects(c)
              \/ \E f \in fetches : FetchIsAnswered(f) \/ FetchFails(f)
              \/ UNCHANGED vars
       PROVE  UNCHANGED <<up, acks, sends>>
  BY <1>11 DEF SomebodyWrites, CustomerReads, DeliveryNext, NothingIsSent, ProviderTakes, ProviderRefuses,
               EchoArrives, Adopts, AdoptionFails, EventMisses, EventIsDropped,
               PanelRegisters, PanelIsListed, OtherConnects, OtherDisconnects, Selects, FetchIsAnswered,
               FetchFails, vars
<1>12. CASE PageSends
  BY <1>12, MidsSent
<1> QED
  BY <1>2, <1>3, <1>4, <1>5, <1>6, <1>8, <1>9, <1>10, <1>11, <1>12 DEF Next, ServerNext, SocketNext, PageNext

-----------------------------------------------------------------------------
(* What the selected chat is owed is kept by what happens at the server.   *)

LEMMA DrawnFits ==
    TypeOK /\ Fits =>
        /\ \A b \in Drawn : b \in Bubble /\ b.id \in Int /\ (b.id > 0 => b.id \in Stored) /\ b.id # NoRow
        /\ \A r \in Stored : r > 0 /\ rows[r] \in Row
        /\ \A a \in AcksDown : a \in Ack /\ a.mid < 0 /\ a.row \in Stored \cup {NoRow}
        /\ \A f \in FramesUp : f \in Frame /\ (f.action = "send" => f.id < 0)
<1> SUFFICES ASSUME TypeOK, Fits
             PROVE  /\ \A b \in Drawn : b \in Bubble /\ b.id \in Int /\ (b.id > 0 => b.id \in Stored) /\ b.id # NoRow
                    /\ \A r \in Stored : r > 0 /\ rows[r] \in Row
                    /\ \A a \in AcksDown : a \in Ack /\ a.mid < 0 /\ a.row \in Stored \cup {NoRow}
                    /\ \A f \in FramesUp : f \in Frame /\ (f.action = "send" => f.id < 0)
  OBVIOUS
<1>1. \A r \in Stored : r \in Int /\ r > 0 /\ rows[r] \in Row
  BY StoredRows, Constants DEF TypeOK, Stored, RowId
<1>2. ASSUME NEW i \in DOMAIN view
      PROVE  /\ view[i] \in Bubble /\ view[i].id \in Int /\ (view[i].id > 0 => view[i].id \in Stored)
             /\ view[i].id # NoRow
  <2>1. view[i] \in Bubble /\ view[i].id \in Int /\ BubbleFits(view[i])
    BY Bubbles, BubbleIds DEF Fits, ViewFits
  <2>2. view[i].id < 0 \/ view[i].id \in Stored
    BY <2>1 DEF BubbleFits, Holds
  <2> QED
    BY <1>1, <2>1, <2>2 DEF NoRow
<1>3. \A a \in AcksDown : a \in Ack /\ a.mid < 0 /\ a.row \in Stored \cup {NoRow}
  BY DEF AcksDown, Fits, AcksFit, AckFits, TypeOK
<1>4. \A f \in FramesUp : f \in Frame /\ (f.action = "send" => f.id < 0)
  BY DEF FramesUp, Fits, FramesFit, FrameFits, TypeOK
<1> QED
  BY <1>1, <1>2, <1>3, <1>4 DEF Drawn

Kinds == {"read", "delivered", "failed"}

(* A bubble that showed a row shows it after a step, unless an event of    *)
(* the row was taken away.                                                 *)
LEMMA ShowsOn ==
    ASSUME TypeOK, Grows, RowsStep, NEW r \in Stored, ~IsInbound(r), NEW tick, NEW failed,
           Shows(r, tick, failed), \A k \in Kinds : Announced(k, r) => Announced(k, r)'
    PROVE  Shows(r, tick, failed)'
<1>1. RowSteps(r) /\ rows'[r].author = rows[r].author
  BY DEF RowsStep, Grows
<1>2. CASE rows'[r].status = rows[r].status
  BY <1>1, <1>2 DEF Shows, Kinds
<1>3. CASE rows'[r].status = "read" /\ [kind |-> "read", row |-> r] \in events'
  BY <1>3 DEF Shows, Announced
<1>4. CASE /\ r \in sending /\ rows'[r].status \in {"delivered", "failed"}
           /\ rows[r].author = "me" => [kind |-> rows'[r].status, row |-> r] \in events'
  <2>1. rows[r].author \in {"me", "colleague"}
    BY <1>4 DEF TypeOK, Operators
  <2> QED
    BY <1>1, <1>4, <2>1 DEF Shows, Announced
<1> QED
  BY <1>1, <1>2, <1>3, <1>4 DEF RowSteps

(* Nothing is shown of a row that has just come.                           *)
LEMMA NewShows ==
    ASSUME RowsStep, NEW r \in DOMAIN rows' \ Stored, NEW tick, NEW failed
    PROVE  Shows(r, tick, failed)'
<1>1. RowComes(r)
  BY DEF RowsStep
<1> QED
  BY <1>1 DEF RowComes, Shows

(* A step that neither the page nor the socket takes part in but by        *)
(* reading frames and writing acks.                                        *)
Away ==
    /\ UNCHANGED <<phase, selected, view, fetches>>
    /\ excused \subseteq excused' /\ events \subseteq events'
    /\ FramesUp' \subseteq FramesUp /\ AcksDown \subseteq AcksDown'
    /\ \A f \in FramesUp : f.action = "read" =>
          f \in FramesUp' \/ rows'[f.id].status = "read" \/ f.id \in excused'
    /\ \A a \in AcksDown' :
          \/ a \in AcksDown
          \/ /\ a.row \in DOMAIN rows' \ Stored
             /\ \E f \in FramesUp : f.action = "send" /\ f.id = a.mid /\ f.chat = rows'[a.row].chat
    /\ \A r \in DOMAIN rows' \ Stored : rows'[r].author = "me" =>
          r \in excused' \/ \E a \in AcksDown', b \in Drawn : a.row = r /\ a.mid = b.id

LEMMA AwaySettles ==
    ASSUME TypeOK, TypeOK', Fits, Grows, RowsStep, Settling, Away,
           \A e \in events' : e \in events \/ EventComes(e)
    PROVE  Settling'
<1>1. /\ UNCHANGED <<phase, selected, view, fetches, Drawn>>
      /\ \A id : HasBubble(id)' <=> HasBubble(id)
      /\ \A r : InAnswer(r)' <=> InAnswer(r)
      /\ \A k, r : Announced(k, r) => Announced(k, r)'
      /\ \A r : Acknowledged(r) => Acknowledged(r)'
  BY DEF Away, Drawn, HasBubble, InAnswer, Announced, Acknowledged
<1>2. /\ \A b \in Drawn : b.id \in Int /\ (b.id > 0 => b.id \in Stored) /\ b.id # NoRow
      /\ \A r \in Stored : r > 0 /\ rows[r] \in Row
      /\ \A a \in AcksDown : a.row \in Stored \cup {NoRow}
  BY DrawnFits
<1>3. \A r \in DOMAIN rows' \ Stored : r > 0 /\ r # NoRow
  <2>1. DOMAIN rows' = 1 .. Len(rows') /\ Len(rows') \in Nat
    BY DEF TypeOK
  <2> QED
    BY <2>1 DEF NoRow
<1>4. /\ \A r \in Stored : r \in DOMAIN rows' /\ rows'[r].chat = rows[r].chat /\ rows'[r].author = rows[r].author
      /\ \A r \in Stored : IsInbound(r)' <=> IsInbound(r)
      /\ \A r \in DOMAIN rows' : r \in Stored \/ r \in DOMAIN rows' \ Stored
  BY DEF Grows, IsInbound
<1>5. \A r \in DOMAIN rows' \ Stored : ~HasBubble(r) /\ ~InAnswer(r) /\ \A a \in AcksDown : a.row # r
  <2> SUFFICES ASSUME NEW r \in DOMAIN rows' \ Stored
               PROVE  ~HasBubble(r) /\ ~InAnswer(r) /\ \A a \in AcksDown : a.row # r
    OBVIOUS
  <2>1. ~HasBubble(r)
    BY <1>2, <1>3 DEF HasBubble
  <2>2. ~InAnswer(r)
    BY DEF InAnswer, TypeOK, InChat
  <2> QED
    BY <1>2, <1>3, <2>1, <2>2
<1>6. \A r \in Due' : \/ r \in Due
                      \/ r \in DOMAIN rows' \ Stored /\ rows'[r].chat = selected /\ r \notin excused'
  BY <1>1, <1>4 DEF Due, Held, InChat, Stored, Away, Grows
<1>7. \A r \in Due : r \in Stored
  BY DEF Due, Held, InChat
<1>8. OneFetch'
  BY <1>1 DEF Settling, OneFetch
<1>9. OfSelected'
  <2>1. \A b \in Drawn : b.id > 0 => rows'[b.id].chat = selected
    BY <1>2, <1>4 DEF Settling, OfSelected
  <2>2. \A f \in FramesUp', b \in Drawn : f.action = "send" /\ f.id = b.id => f.chat = selected
    BY DEF Settling, OfSelected, Away
  <2>3. ASSUME NEW a \in AcksDown', NEW b \in Drawn, a.mid = b.id
        PROVE  a.row # NoRow /\ rows'[a.row].chat = selected /\ ~HasBubble(a.row)
    <3>1. CASE a \in AcksDown
      <4>1. a.row # NoRow /\ rows[a.row].chat = selected /\ ~HasBubble(a.row)
        BY <2>3, <3>1 DEF Settling, OfSelected
      <4> QED
        BY <1>2, <1>4, <3>1, <4>1
    <3>2. CASE a \notin AcksDown
      <4>1. PICK f \in FramesUp : /\ f.action = "send" /\ f.id = a.mid /\ f.chat = rows'[a.row].chat
                                 /\ a.row \in DOMAIN rows' \ Stored
        BY <3>2 DEF Away
      <4>2. f.chat = selected
        BY <2>3, <4>1 DEF Settling, OfSelected
      <4> QED
        BY <1>3, <1>5, <4>1, <4>2
    <3> QED
      BY <3>1, <3>2
  <2> QED
    BY <1>1, <2>1, <2>2, <2>3 DEF OfSelected
<1>9a. NoneDeleted'
  <2> SUFFICES ASSUME NEW r \in gone', r \notin excused'
               PROVE  ~HasBubble(r) /\ ~InAnswer(r) /\ ~Announced("message", r)'
    BY <1>1 DEF NoneDeleted
  <2>1. r \in gone /\ r \notin excused /\ r \in Stored
    BY DEF RowsStep, Away, TypeOK
  <2>2. ~HasBubble(r) /\ ~InAnswer(r) /\ ~Announced("message", r)
    BY <2>1 DEF Settling, NoneDeleted
  <2>3. Announced("message", r)' => Announced("message", r)
    BY <2>1 DEF Announced, EventComes
  <2> QED
    BY <2>2, <2>3
<1>10. Placed'
  <2> SUFFICES ASSUME NEW r \in Due'
               PROVE  (HasBubble(r) \/ InAnswer(r) \/ Announced("message", r) \/ Acknowledged(r))'
    BY DEF Placed
  <2>1. CASE r \in Due
    BY <1>1, <2>1 DEF Settling, Placed
  <2>2. CASE r \in DOMAIN rows' \ Stored /\ r \notin excused'
    <3>1. RowComes(r)
      BY <2>2 DEF RowsStep
    <3>2. CASE rows'[r].author = "me"
      <4>1. PICK a \in AcksDown', b \in Drawn : a.row = r /\ a.mid = b.id
        BY <2>2, <3>2 DEF Away
      <4> QED
        BY <1>1, <4>1 DEF Acknowledged
    <3>3. CASE rows'[r].author # "me"
      BY <3>1, <3>3 DEF RowComes, Announced
    <3> QED
      BY <3>2, <3>3
  <2> QED
    BY <1>6, <2>1, <2>2
<1>11. PlacedOnce'
  <2> SUFFICES ASSUME NEW r \in Due'
               PROVE  /\ Announced("message", r)' => ~HasBubble(r) /\ ~InAnswer(r)
                      /\ \A i, j \in DOMAIN view : view[i].id = r /\ view[j].id = r => i = j
    BY <1>1 DEF PlacedOnce
  <2>1. CASE r \in Due
    <3>1. Announced("message", r)' => Announced("message", r)
      BY <1>7, <2>1 DEF Announced, EventComes
    <3> QED
      BY <2>1, <3>1 DEF Settling, PlacedOnce
  <2>2. CASE r \in DOMAIN rows' \ Stored
    BY <1>5, <2>2 DEF HasBubble, Drawn
  <2> QED
    BY <1>6, <2>1, <2>2
<1>12. Current'
  <2> SUFFICES ASSUME NEW r \in Due', ~IsInbound(r)'
               PROVE  /\ \A b \in Drawn : b.id = r => Shows(r, b.tick, b.failed)'
                      /\ \A f \in fetches : r \in DOMAIN f.found =>
                            Shows(r, Tick(f.found[r]), f.found[r] = "failed")'
                      /\ Announced("message", r)' \/ Acknowledged(r)' => Shows(r, "", FALSE)'
    BY <1>1 DEF Current
  <2>1. CASE r \in Due
    <3>1. r \in Stored /\ ~IsInbound(r) /\ \A k \in Kinds : Announced(k, r) => Announced(k, r)'
      BY <1>1, <1>4, <1>7, <2>1
    <3>2. \A tick, failed : Shows(r, tick, failed) => Shows(r, tick, failed)'
      BY <3>1, ShowsOn
    <3>3. Announced("message", r)' => Announced("message", r)
      BY <3>1 DEF Announced, EventComes
    <3>4. Acknowledged(r)' => Acknowledged(r)
      BY <1>1, <3>1 DEF Acknowledged, Away
    <3>5. /\ \A b \in Drawn : b.id = r => Shows(r, b.tick, b.failed)
          /\ \A f \in fetches : r \in DOMAIN f.found =>
                Shows(r, Tick(f.found[r]), f.found[r] = "failed")
          /\ Announced("message", r) \/ Acknowledged(r) => Shows(r, "", FALSE)
      BY <2>1, <3>1 DEF Settling, Current
    <3> QED
      BY <3>2, <3>3, <3>4, <3>5
  <2>2. CASE r \in DOMAIN rows' \ Stored
    <3>1. \A tick, failed : Shows(r, tick, failed)'
      BY <2>2, NewShows
    <3> QED
      BY <3>1
  <2> QED
    BY <1>6, <2>1, <2>2
<1>13. ReadsDue'
  <2> SUFFICES ASSUME NEW b \in Drawn, b.id > 0, rows'[b.id].author = "client", b.id \notin excused'
               PROVE  rows'[b.id].status = "read" \/ \E f \in FramesUp' : f.action = "read" /\ f.id = b.id
    BY <1>1 DEF ReadsDue, IsInbound
  <2>1. b.id \in Stored /\ IsInbound(b.id)
    BY <1>2, <1>4 DEF IsInbound
  <2>2. rows[b.id].status = "read" => rows'[b.id].status = "read"
    BY <2>1 DEF Grows
  <2>3. rows[b.id].status = "read" \/ \E f \in FramesUp : f.action = "read" /\ f.id = b.id
    BY <2>1 DEF Settling, ReadsDue, Away
  <2> QED
    BY <2>2, <2>3 DEF Away
<1> QED
  BY <1>8, <1>9, <1>9a, <1>10, <1>11, <1>12, <1>13 DEF Settling

LEMMA CleanWas == TypeOK /\ excused \subseteq excused' /\ TypeOK' /\ Clean' => Clean
  BY DEF TypeOK, Clean

LEMMA AwayByServer ==
    ASSUME TypeOK, TypeOK', Fits, AuthorsFit, ListedWhenOpen, Settling, ServerNext, Clean'
    PROVE  Away
<1> USE DEF serverVars, deliveryVars, wireVars, socketVars, pageVars, otherVars, historyVars
<1>1. RowsStep /\ \A r \in DOMAIN rows' \ Stored : RowComes(r)
  BY StepRows DEF Next, RowsStep
<1>2. ASSUME UNCHANGED <<phase, selected, view, fetches, up, acks>>, excused \subseteq excused',
             events \subseteq events'
      PROVE  Away
  <2>1. UNCHANGED <<FramesUp, AcksDown>>
    BY <1>2 DEF FramesUp, AcksDown
  <2>2. \A r \in DOMAIN rows' \ Stored : rows'[r].author = "me" => SocketStores
    BY <1>1 DEF RowComes
  <2>3. CASE SocketStores
    <3>1. up # <<>> /\ up' = Tail(up) /\ Len(Tail(up)) = Len(up) - 1 /\ Len(up) \in Nat
      BY <2>3 DEF SocketStores, TypeOK
    <3> QED
      BY <1>2, <3>1
  <2> QED
    BY <1>2, <2>1, <2>2, <2>3 DEF Away
<1>3. ASSUME NEW c \in Chats, NEW a \in Writers, SomebodyWrites(c, a)
      PROVE  Away
  BY <1>2, <1>3 DEF SomebodyWrites, Stores
<1>4. ASSUME \/ \E r \in Stored : CustomerReads(r)
             \/ DeliveryNext
      PROVE  Away
  <2>1. ASSUME NEW r \in Stored, EchoArrives(r)
        PROVE  Away
    BY <1>2, <2>1 DEF EchoArrives, Stores
  <2>2. ASSUME NEW r \in Stored, CustomerReads(r) \/ NothingIsSent(r) \/ ProviderTakes(r)
                                 \/ ProviderRefuses(r) \/ Adopts(r) \/ AdoptionFails(r)
        PROVE  Away
    BY <1>2, <2>2 DEF CustomerReads, NothingIsSent, ProviderTakes, ProviderRefuses, Adopts, AdoptionFails
  <2> QED
    BY <1>4, <2>1, <2>2 DEF DeliveryNext
<1>5. ASSUME NEW e \in events, EventMisses(e) \/ EventIsDropped(e)
      PROVE  FALSE
  BY <1>5 DEF EventMisses, EventIsDropped, Fails, Clean, Reached, ListedWhenOpen, Settling, OneFetch
<1>6. SocketStoreFails => FALSE
  BY DEF SocketStoreFails, Fails, Clean
<1>7. CASE SocketReads
  <2>1. up # <<>> /\ up' = Tail(up) /\ UNCHANGED <<phase, selected, view, fetches, excused, events, acks>>
    BY <1>7 DEF SocketReads
  <2>2. /\ Head(up) = up[1] /\ 1 \in DOMAIN up
        /\ \A k \in DOMAIN up' : k + 1 \in DOMAIN up /\ up'[k] = up[k + 1]
        /\ \A k \in DOMAIN up : k = 1 \/ (k - 1 \in DOMAIN up' /\ up'[k - 1] = up[k])
    BY <2>1, FirstFramePlaces
  <2>3. FramesUp' \subseteq FramesUp /\ \A f \in FramesUp : f = Head(up) \/ f \in FramesUp'
    BY <2>2 DEF FramesUp
  <2>4. PICK h : h = Head(up) /\ h \in FramesUp /\ h.action = "read" /\ rows' = WithStatus(Marked(h), "read")
    BY <1>7, <2>2 DEF SocketReads, FramesUp
  <2>5. h.id \in Stored /\ IsInbound(h.id) /\ h.id \notin gone
    <3>1. h.id \in Stored /\ IsInbound(h.id)
      BY <2>4 DEF Fits, FramesFit, FrameFits, FramesUp, TypeOK
    <3> QED
      BY <3>1 DEF AuthorsFit, IsInbound
  <2>6. h.id \in Marked(h) \/ rows[h.id].status = "read"
    <3>1. h.id <= h.id
      BY <2>5, StoredRows
    <3> QED
      BY <2>5, <3>1 DEF Marked, Held, InChat
  <2>7. rows'[h.id].status = "read"
    BY <2>4, <2>5, <2>6, WithStatusTypes DEF Status
  <2>8. \A f \in FramesUp : f.action = "read" => f \in FramesUp' \/ rows'[f.id].status = "read"
    BY <2>3, <2>4, <2>7
  <2>9. UNCHANGED AcksDown /\ DOMAIN rows' = Stored
    BY <2>1, <2>4, WithStatusTypes DEF AcksDown, Status
  <2> QED
    BY <2>1, <2>3, <2>8, <2>9 DEF Away
<1>7a. CASE SocketReadFails
  <2>1. /\ up # <<>> /\ up' = Tail(up) /\ excused' = excused \cup {Head(up).id}
        /\ UNCHANGED <<rows, phase, selected, view, fetches, events, acks>>
    BY <1>7a DEF SocketReadFails
  <2>2. /\ \A k \in DOMAIN up' : k + 1 \in DOMAIN up /\ up'[k] = up[k + 1]
        /\ \A k \in DOMAIN up : k = 1 \/ (k - 1 \in DOMAIN up' /\ up'[k - 1] = up[k])
        /\ Head(up) = up[1]
    BY <2>1, FirstFramePlaces
  <2>3. FramesUp' \subseteq FramesUp /\ \A f \in FramesUp : f = Head(up) \/ f \in FramesUp'
    BY <2>2 DEF FramesUp
  <2>4. UNCHANGED AcksDown /\ DOMAIN rows' = Stored
    BY <2>1 DEF AcksDown, Stored
  <2> QED
    BY <2>1, <2>3, <2>4 DEF Away
<1>8. CASE SocketStores
  <2>1. /\ up # <<>> /\ up' = Tail(up) /\ Head(up).action = "send"
        /\ UNCHANGED <<phase, selected, view, fetches>> /\ excused \subseteq excused'
        /\ excused' = IF \E i \in DOMAIN view : view[i].id = Head(up).id
                      THEN excused ELSE excused \cup {Len(rows')}
    BY <1>8 DEF SocketStores
  <2>2. /\ Stores(Head(up).chat, "me", NoRow) /\ NoRow \in RowId \cup {NoRow}
        /\ "me" \in Author /\ Head(up).chat \in Chats /\ Head(up).id \in BubbleId
    BY <1>8, SocketStoresOne, FirstFrame DEF SocketStores, Frame
  <2>3. /\ \A r \in DOMAIN rows' \ Stored : r = Len(rows')
        /\ Len(rows') \in DOMAIN rows' \ Stored
        /\ rows'[Len(rows')].chat = Head(up).chat
        /\ Len(rows') \in RowId /\ UNCHANGED events
    BY <2>2, StoresRow, StoresTypes DEF Stores
  <2>4. /\ Head(up) = up[1] /\ 1 \in DOMAIN up
        /\ \A k \in DOMAIN up' : k + 1 \in DOMAIN up /\ up'[k] = up[k + 1]
        /\ \A k \in DOMAIN up : k = 1 \/ (k - 1 \in DOMAIN up' /\ up'[k - 1] = up[k])
    BY <2>1, FirstFramePlaces
  <2>5. FramesUp' \subseteq FramesUp /\ \A f \in FramesUp : f = Head(up) \/ f \in FramesUp'
    BY <2>4 DEF FramesUp
  <2>6. PICK h : h = Head(up) /\ h \in FramesUp
    BY <2>4 DEF FramesUp
  <2>7. PICK a : a = [mid |-> Head(up).id, row |-> Len(rows')]
    OBVIOUS
  <2>8. a \in Ack /\ acks \in Seq(Ack) /\ acks' = Append(acks, a) /\ a.row = Len(rows') /\ a.mid = h.id
    BY <1>8, <2>2, <2>3, <2>6, <2>7 DEF SocketStores, TypeOK, Ack
  <2>9. /\ Append(acks, a)[Len(acks) + 1] = a /\ Len(Append(acks, a)) = Len(acks) + 1
        /\ Append(acks, a) \in Seq(Ack)
        /\ \A i \in DOMAIN acks : i \in DOMAIN Append(acks, a) /\ Append(acks, a)[i] = acks[i]
        /\ \A i \in DOMAIN Append(acks, a) :
              Append(acks, a)[i] = a \/ \E j \in DOMAIN acks : Append(acks, a)[i] = acks[j]
    BY <2>8, AppendElements
  <2>10. Len(acks) + 1 \in DOMAIN Append(acks, a)
    BY <2>8, <2>9
  <2>11. /\ AcksDown \subseteq AcksDown' /\ a \in AcksDown'
         /\ \A b \in AcksDown' : b \in AcksDown \/ b = a
    BY <2>8, <2>9, <2>10 DEF AcksDown
  <2>12. \A r \in DOMAIN rows' \ Stored : rows'[r].author = "me" =>
             r \in excused' \/ \E b \in AcksDown', c \in Drawn : b.row = r /\ b.mid = c.id
    <3>1. CASE \E i \in DOMAIN view : view[i].id = Head(up).id
      BY <2>3, <2>6, <2>8, <2>11, <3>1 DEF Drawn
    <3>2. CASE ~\E i \in DOMAIN view : view[i].id = Head(up).id
      BY <2>1, <2>3, <3>2
    <3> QED
      BY <3>1, <3>2
  <2>13. \A b \in AcksDown' :
            \/ b \in AcksDown
            \/ /\ b.row \in DOMAIN rows' \ Stored
               /\ \E f \in FramesUp : f.action = "send" /\ f.id = b.mid /\ f.chat = rows'[b.row].chat
    BY <2>1, <2>3, <2>6, <2>8, <2>11
  <2> QED
    BY <2>1, <2>3, <2>5, <2>6, <2>11, <2>12, <2>13 DEF Away
<1> QED
  BY <1>3, <1>4, <1>5, <1>6, <1>7, <1>7a, <1>8 DEF ServerNext

LEMMA ServerExcuses == TypeOK /\ ServerNext => excused \subseteq excused'
  BY DEF TypeOK, ServerNext, DeliveryNext, SomebodyWrites, CustomerReads, NothingIsSent, ProviderTakes,
         ProviderRefuses, EchoArrives, Adopts, AdoptionFails, EventMisses, EventIsDropped, SocketStores,
         SocketStoreFails, SocketReads, SocketReadFails, Fails, historyVars

LEMMA ServerSettles ==
    TypeOK /\ TypeOK' /\ Fits /\ AuthorsFit /\ ListedWhenOpen /\ (Clean => Settling) /\ ServerNext /\ Clean'
      => Settling'
<1> SUFFICES ASSUME TypeOK, TypeOK', Fits, AuthorsFit, ListedWhenOpen, Clean => Settling, ServerNext, Clean'
             PROVE  Settling'
  OBVIOUS
<1>1. Settling
  BY ServerExcuses, CleanWas
<1>2. Away /\ Grows /\ RowsStep /\ \A e \in events' : e \in events \/ EventComes(e)
  BY <1>1, AwayByServer, RowsGrow, StepRows, StepEvents DEF Next
<1> QED
  BY <1>1, <1>2, AwaySettles

LEMMA QuietSettles ==
    ASSUME TypeOK, TypeOK', Fits, Clean => Settling, [Next]_vars, Clean',
           UNCHANGED <<rows, phase, selected, view, fetches, excused, events, up, acks>>
    PROVE  Settling'
<1>1. Settling
  BY CleanWas
<1>2. Grows /\ RowsStep /\ \A e \in events' : e \in events \/ EventComes(e)
  BY RowsGrow, StepRows, StepEvents
<1>3. Away
  BY DEF Away, FramesUp, AcksDown, Stored
<1> QED
  BY <1>1, <1>2, <1>3, AwaySettles

LEMMA SocketSettles ==
    TypeOK /\ TypeOK' /\ Fits /\ (Clean => Settling) /\ SocketNext /\ Clean' => Settling'
<1> SUFFICES ASSUME TypeOK, TypeOK', Fits, Clean => Settling, SocketNext, Clean'
             PROVE  Settling'
  OBVIOUS
<1> USE DEF serverVars, deliveryVars, wireVars, socketVars, pageVars, otherVars, historyVars
<1>1. CASE PanelRegisters \/ PanelIsListed
  <2>1. UNCHANGED excused /\ phase # "open"
    BY <1>1 DEF PanelRegisters, PanelIsListed
  <2>2. Settling
    BY <2>1, CleanWas
  <2> QED
    BY <2>1, <2>2 DEF Settling, OneFetch
<1>2. CASE PanelDisconnects
  BY <1>2 DEF PanelDisconnects, Fails, Clean
<1>3. CASE OtherConnects \/ OtherDisconnects
  <2>1. UNCHANGED <<rows, phase, selected, view, fetches, excused, events, up, acks>> /\ [Next]_vars
    BY <1>3 DEF OtherConnects, OtherDisconnects, Next, SocketNext
  <2> QED
    BY <2>1, QuietSettles
<1> QED
  BY <1>1, <1>2, <1>3 DEF SocketNext

-----------------------------------------------------------------------------
(* What the page does to what it is owed.                                  *)

LEMMA RowsStay ==
    ASSUME UNCHANGED rows
    PROVE  /\ Stored' = Stored /\ \A c : InChat(c)' = InChat(c)
           /\ \A r : IsInbound(r)' <=> IsInbound(r)
           /\ \A r, tick, failed :
                 /\ Shows(r, tick, failed)
                 /\ \A k \in Kinds : Announced(k, r) => Announced(k, r)'
                 => Shows(r, tick, failed)'
<1>1. Stored' = Stored /\ (\A c : InChat(c)' = InChat(c)) /\ \A r : IsInbound(r)' <=> IsInbound(r)
  BY DEF Stored, InChat, IsInbound
<1>2. ASSUME NEW r, NEW tick, NEW failed, Shows(r, tick, failed),
             \A k \in Kinds : Announced(k, r) => Announced(k, r)'
      PROVE  Shows(r, tick, failed)'
  BY <1>2 DEF Shows, Kinds
<1> QED
  BY <1>1, <1>2

LEMMA SelectionSettles ==
    ASSUME TypeOK, NEW c \in Chats, Selects(c), Clean'
    PROVE  Settling'
<1>1. /\ phase = "open" /\ phase' = "open" /\ selected' = c /\ view' = <<>>
      /\ fetches = {}
      /\ fetches' = {[n |-> selects', chat |-> c, answered |-> FALSE, found |-> <<>>]}
  BY DEF Selects, Clean, socketVars
<1>2. PICK f : f.chat = c /\ f.answered = FALSE /\ fetches' = {f}
  BY <1>1
<1>3. Drawn' = {} /\ Due' = {} /\ DOMAIN view' = {}
  BY <1>1, <1>2 DEF Drawn, Due
<1>4. OneFetch'
  BY <1>1, <1>2 DEF OneFetch
<1>5. NoneDeleted'
  <2>1. UNCHANGED <<gone, events>> /\ excused' = gone \cap OnTheirWay
    BY <1>1 DEF Selects, serverVars, deliveryVars
  <2>2. \A r : ~HasBubble(r)' /\ ~InAnswer(r)'
    BY <1>2, <1>3 DEF HasBubble, InAnswer
  <2>3. \A r \in gone \ excused' : ~Announced("message", r)'
    BY <2>1 DEF Announced, OnTheirWay, TypeOK
  <2> QED
    BY <2>1, <2>2, <2>3 DEF NoneDeleted
<1> QED
  BY <1>3, <1>4, <1>5 DEF Settling, OfSelected, Placed, PlacedOnce, Current, ReadsDue

LEMMA AnswerSettles ==
    ASSUME TypeOK, Settling, NEW f \in fetches, FetchIsAnswered(f), Clean'
    PROVE  Settling'
<1> USE DEF serverVars, deliveryVars, wireVars, socketVars, pageVars, otherVars, historyVars
<1>1. /\ UNCHANGED <<rows, gone, events, phase, selected, view, up, acks>>
      /\ fetches = {f} /\ f.chat = selected /\ view = <<>> /\ phase = "open" /\ selected \in Chats
      /\ excused' = excused \cup (Held(f.chat) \cap OnTheirWay)
  BY DEF FetchIsAnswered, Settling, OneFetch
<1>2. PICK new : /\ new.chat = selected /\ new.answered = TRUE /\ new.found = Found(selected)
                 /\ fetches' = {new}
  <2>1. f \in Fetch
    BY DEF TypeOK
  <2>2. PICK new : new = [f EXCEPT !.answered = TRUE, !.found = Found(f.chat)]
    OBVIOUS
  <2>3. new.chat = f.chat /\ new.answered = TRUE /\ new.found = Found(f.chat)
    BY <2>1, <2>2 DEF Fetch
  <2> QED
    BY <1>1, <2>2, <2>3 DEF FetchIsAnswered
<1>3. /\ Stored' = Stored /\ (\A c : Held(c)' = Held(c))
      /\ \A r : IsInbound(r)' <=> IsInbound(r)
  BY <1>1, RowsStay DEF Held
<1>4. Drawn' = {} /\ DOMAIN view' = {}
  BY <1>1 DEF Drawn
<1>5. OneFetch'
  BY <1>1, <1>2 DEF OneFetch
<1>6. \A r \in Due' : r \in Held(selected) /\ r \notin OnTheirWay
  BY <1>1, <1>3 DEF Due
<1>7. /\ DOMAIN new.found = Held(selected)
      /\ \A r \in Held(selected) : r \in Stored /\ r \notin gone /\ new.found[r] = rows[r].status
  BY <1>2 DEF Found, Held, InChat
<1>8. \A r \in Due' : InAnswer(r)' /\ ~Announced("message", r)'
  <2> SUFFICES ASSUME NEW r \in Due'
               PROVE  InAnswer(r)' /\ ~Announced("message", r)'
    OBVIOUS
  <2>1. InAnswer(r)'
    BY <1>2, <1>6, <1>7 DEF InAnswer
  <2>2. ~Announced("message", r)'
    BY <1>1, <1>6, <1>7 DEF Announced, OnTheirWay
  <2> QED
    BY <2>1, <2>2
<1>9. \A r \in Due' : ~HasBubble(r)' /\ ~Acknowledged(r)'
  BY <1>4 DEF HasBubble, Acknowledged
<1>9a. NoneDeleted'
  <2> SUFFICES ASSUME NEW r \in gone, r \notin excused'
               PROVE  ~HasBubble(r)' /\ ~InAnswer(r)' /\ ~Announced("message", r)'
    BY <1>1 DEF NoneDeleted
  <2>1. ~HasBubble(r)' /\ ~InAnswer(r)'
    BY <1>2, <1>4, <1>7 DEF HasBubble, InAnswer
  <2>2. ~Announced("message", r)'
    BY <1>1 DEF Settling, NoneDeleted, Announced
  <2> QED
    BY <2>1, <2>2
<1>10. Placed' /\ PlacedOnce'
  BY <1>4, <1>8 DEF Placed, PlacedOnce
<1>11. Current'
  <2> SUFFICES ASSUME NEW r \in Due'
               PROVE  Shows(r, Tick(new.found[r]), new.found[r] = "failed")'
    BY <1>2, <1>4, <1>8, <1>9 DEF Current
  <2>1. new.found[r] = rows'[r].status
    BY <1>1, <1>6, <1>7
  <2> QED
    BY <2>1 DEF Shows, Tick
<1> QED
  BY <1>4, <1>5, <1>9a, <1>10, <1>11 DEF Settling, OfSelected, ReadsDue

LEMMA DrawnBubble ==
    ASSUME NEW r, NEW s
    PROVE  /\ BubbleOf(r, s).id = r /\ (~IsInbound(r) => BubbleOf(r, s).tick = Tick(s))
           /\ BubbleOf(r, s).failed = (s = "failed")
  BY DEF BubbleOf, TickOf, Tick

LEMMA DrawingSettles ==
    ASSUME TypeOK, Fits, Settling, NEW f \in fetches, FetchIsDrawn(f)
    PROVE  Settling'
<1> USE DEF serverVars, deliveryVars, wireVars, socketVars, pageVars, otherVars, historyVars
<1>1. /\ UNCHANGED <<rows, gone, events, phase, selected, acks, excused>> /\ fetches' = {} /\ f.answered
      /\ fetches = {f} /\ f.chat = selected /\ view = <<>> /\ phase = "open" /\ selected \in Chats
      /\ Draws(f.found)
  BY DEF FetchIsDrawn, Settling, OneFetch
<1>a. /\ DOMAIN f.found \subseteq Stored /\ f.found \in [DOMAIN f.found -> Status]
      /\ DOMAIN f.found \subseteq InChat(f.chat)
      /\ \A r \in DOMAIN f.found : Holds(f.found[r], r)
  BY DEF TypeOK, InChat, Fetch, Fits, AnswersFit, AnswerFits
<1>b. PICK R \in SUBSET Stored : R = DOMAIN f.found
  BY <1>a
<1>c. PICK found \in [R -> Status] : found = f.found
  BY <1>a, <1>b
<1>2. /\ found = f.found /\ R = DOMAIN f.found /\ R \subseteq InChat(selected)
      /\ \A r \in R : Holds(found[r], r)
  BY <1>1, <1>a, <1>b, <1>c
<1>3. /\ Stored' = Stored /\ (\A c : InChat(c)' = InChat(c))
      /\ \A r : IsInbound(r)' <=> IsInbound(r)
      /\ \A k, r : Announced(k, r)' <=> Announced(k, r)
  BY <1>1, RowsStay DEF Announced
<1>4. /\ \A r, tick, failed : Shows(r, tick, failed) => Shows(r, tick, failed)'
  BY <1>1, <1>3, RowsStay
<1>5. Draws(found)
  BY <1>1, <1>2
<1>6. /\ \A b \in Drawn' : b \in Drawn \/ \E r \in R : b = BubbleOf(r, found[r])
      /\ \A r \in R : BubbleOf(r, found[r]) \in Drawn'
      /\ \A g \in FramesUp' : g \in FramesUp \/ g.action = "read"
      /\ \A r \in R : Answers(r, found[r]) =>
            [action |-> "read", chat |-> selected, id |-> r] \in FramesUp'
  BY <1>1, <1>5, DrawsSets
<1>7. Drawn = {} /\ DOMAIN view = {}
  BY <1>1 DEF Drawn
<1>8. \A i, j \in DOMAIN view' : view'[i].id = view'[j].id => i = j
  BY <1>1, <1>5, <1>7, DrawsPlaces
<1>9. \A b \in Drawn' : \E r \in R : /\ b.id = r /\ b.failed = (found[r] = "failed")
                                     /\ ~IsInbound(r) => b.tick = Tick(found[r])
  <2> SUFFICES ASSUME NEW b \in Drawn'
               PROVE  \E r \in R : /\ b.id = r /\ b.failed = (found[r] = "failed")
                                   /\ ~IsInbound(r) => b.tick = Tick(found[r])
    OBVIOUS
  <2>1. PICK r \in R : b = BubbleOf(r, found[r])
    BY <1>6, <1>7
  <2> QED
    BY <2>1, DrawnBubble
<1>10. \A r \in R : HasBubble(r)'
  BY <1>6, DrawnBubble DEF HasBubble
<1>11. \A r : HasBubble(r)' => r \in R
  BY <1>9 DEF HasBubble
<1>12. /\ \A r \in R : r > 0 /\ ~(r < 0) /\ rows[r].chat = selected
       /\ \A a \in AcksDown' : a.mid < 0
       /\ \A g \in FramesUp' : g.action = "send" => g.id < 0
       /\ \A b \in Drawn' : b.id \in R
  <2>1. \A r \in R : r > 0 /\ ~(r < 0) /\ rows[r].chat = selected
    <3>1. \A r \in R : r \in Int /\ r > 0 /\ rows[r].chat = selected
      BY <1>2, DrawnFits, StoredRows DEF InChat
    <3> QED
      BY <3>1
  <2>2. UNCHANGED AcksDown
    BY <1>1 DEF AcksDown
  <2> QED
    BY <1>6, <1>9, <2>1, <2>2, DrawnFits
<1>13. \A r : ~Acknowledged(r)' /\ ~Acknowledged(r) /\ ~HasBubble(r) /\ ~InAnswer(r)'
  <2>1. \A a \in AcksDown', b \in Drawn' : a.mid # b.id
    <3> SUFFICES ASSUME NEW a \in AcksDown', NEW b \in Drawn'
                 PROVE  a.mid # b.id
      OBVIOUS
    <3>1. a.mid < 0 /\ b.id > 0
      BY <1>12
    <3>2. a.mid \in Int /\ b.id \in Int
      <4>1. b.id \in Stored /\ Stored \subseteq Int
        BY <1>12, StoredRows
      <4>2. a \in Ack /\ BubbleId \subseteq Int
        BY <1>1, DrawnFits, Constants DEF AcksDown, BubbleId
      <4> QED
        BY <4>1, <4>2 DEF Ack
    <3> QED
      BY <3>1, <3>2
  <2> QED
    BY <1>1, <1>7, <2>1 DEF Acknowledged, HasBubble, InAnswer
<1>14. OneFetch'
  BY <1>1 DEF OneFetch
<1>15. OfSelected'
  <2>1. \A b \in Drawn' : b.id > 0 => rows'[b.id].chat = selected'
    BY <1>1, <1>12
  <2>2. \A g \in FramesUp', b \in Drawn' : g.action = "send" => g.id # b.id
    <3> SUFFICES ASSUME NEW g \in FramesUp', NEW b \in Drawn', g.action = "send", g.id = b.id
                 PROVE  FALSE
      OBVIOUS
    <3>1. g.id < 0 /\ ~(b.id < 0)
      BY <1>12
    <3> QED
      BY <3>1
  <2>3. \A a \in AcksDown', b \in Drawn' : a.mid # b.id
    BY <1>13 DEF Acknowledged
  <2> QED
    BY <2>1, <2>2, <2>3 DEF OfSelected
<1>15a. NoneDeleted'
  <2> SUFFICES ASSUME NEW r \in gone, r \notin excused
               PROVE  ~HasBubble(r)' /\ ~Announced("message", r)'
    BY <1>1, <1>13 DEF NoneDeleted
  <2>1. ~InAnswer(r) /\ ~Announced("message", r)
    BY DEF Settling, NoneDeleted
  <2>2. r \in R => InAnswer(r)
    BY <1>1, <1>2 DEF InAnswer
  <2> QED
    BY <1>3, <1>11, <2>1, <2>2
<1>16. Due' = Due
  BY <1>1, <1>3 DEF Due, Held
<1>17. Placed'
  <2> SUFFICES ASSUME NEW r \in Due
               PROVE  HasBubble(r)' \/ Announced("message", r)'
    BY <1>16 DEF Placed
  <2>1. InAnswer(r) \/ Announced("message", r)
    BY <1>13 DEF Settling, Placed
  <2>2. InAnswer(r) => r \in R
    BY <1>1, <1>2 DEF InAnswer
  <2> QED
    BY <1>3, <1>10, <2>1, <2>2
<1>18. PlacedOnce'
  <2> SUFFICES ASSUME NEW r \in Due
               PROVE  Announced("message", r)' => ~HasBubble(r)'
    BY <1>8, <1>13, <1>16 DEF PlacedOnce
  <2>1. Announced("message", r) => ~InAnswer(r)
    BY DEF Settling, PlacedOnce
  <2>2. r \in R => InAnswer(r)
    BY <1>1, <1>2 DEF InAnswer
  <2> QED
    BY <1>3, <1>11, <2>1, <2>2
<1>19. Current'
  <2> SUFFICES ASSUME NEW r \in Due, ~IsInbound(r)
               PROVE  /\ \A b \in Drawn' : b.id = r => Shows(r, b.tick, b.failed)'
                      /\ Announced("message", r)' => Shows(r, "", FALSE)'
    BY <1>1, <1>3, <1>13, <1>16 DEF Current
  <2>1. /\ r \in R => Shows(r, Tick(found[r]), found[r] = "failed")
        /\ Announced("message", r) => Shows(r, "", FALSE)
    BY <1>1, <1>2 DEF Settling, Current
  <2>2. \A b \in Drawn' : b.id = r => r \in R /\ b.tick = Tick(found[r]) /\ b.failed = (found[r] = "failed")
    BY <1>9
  <2> QED
    BY <1>3, <1>4, <2>1, <2>2
<1>20. ReadsDue'
  <2> SUFFICES ASSUME NEW b \in Drawn', IsInbound(b.id)
               PROVE  \/ rows[b.id].status = "read"
                      \/ \E g \in FramesUp' : g.action = "read" /\ g.id = b.id
    BY <1>1 DEF ReadsDue, IsInbound
  <2>1. PICK r \in R : b.id = r
    BY <1>9
  <2>2. CASE found[r] = "read"
    BY <1>2, <2>1, <2>2 DEF Holds
  <2>3. CASE found[r] # "read"
    <3>1. [action |-> "read", chat |-> selected, id |-> r] \in FramesUp'
      BY <1>1, <1>6, <2>1, <2>3 DEF Answers
    <3> QED
      BY <2>1, <3>1
  <2> QED
    BY <2>2, <2>3
<1> QED
  BY <1>14, <1>15, <1>15a, <1>17, <1>18, <1>19, <1>20 DEF Settling

LEMMA FirstBubble ==
    ASSUME TypeOK, NEW id, HasBubble(id)
    PROVE  \E i \in DOMAIN view : FirstOf(id) = {i} /\ view[i].id = id
<1> DEFINE I == {i \in DOMAIN view : view[i].id = id}
<1>1. Len(view) \in Nat /\ DOMAIN view = 1 .. Len(view)
  BY DEF TypeOK
<1>2. I \in SUBSET (1 .. Len(view)) /\ I # {}
  BY <1>1 DEF HasBubble, Drawn
<1>3. PICK i \in I : \A j \in I : i <= j
  <2> HIDE DEF I
  <2> QED
    BY <1>1, <1>2, FirstPlace
<1>4. ASSUME NEW j \in 1 .. i - 1
      PROVE  view[j].id # id
  <2>1. j \in DOMAIN view /\ ~(i <= j)
    BY <1>1
  <2> QED
    BY <1>3, <2>1
<1>5. ASSUME NEW k \in FirstOf(id)
      PROVE  k = i
  <2>1. k \in I /\ i <= k /\ i \notin 1 .. k - 1
    BY <1>3, <1>5 DEF FirstOf
  <2> QED
    BY <1>1, <2>1
<1>6. i \in FirstOf(id)
  BY <1>4 DEF FirstOf
<1> QED
  BY <1>5, <1>6

(* No fetch is outstanding when the page does something and the view is    *)
(* still clean.                                                            *)
LEMMA OverlapsNothing ==
    ASSUME NEW R, Overlaps(R), Clean'
    PROVE  fetches = {} /\ excused' = excused \cup R
  BY DEF Overlaps, Clean

LEMMA WireNumbers ==
    TypeOK /\ Fits =>
        /\ \A r \in Stored : r > 0 /\ r \in Int
        /\ \A a \in AcksDown : a.mid \in Int /\ a.mid < 0 /\ a.row \in Stored \cup {NoRow}
        /\ \A f \in FramesUp : f.id \in Int /\ (f.action = "send" => f.id < 0)
<1> SUFFICES ASSUME TypeOK, Fits
             PROVE  /\ \A r \in Stored : r > 0 /\ r \in Int
                    /\ \A a \in AcksDown : a.mid \in Int /\ a.mid < 0 /\ a.row \in Stored \cup {NoRow}
                    /\ \A f \in FramesUp : f.id \in Int /\ (f.action = "send" => f.id < 0)
  OBVIOUS
<1>1. /\ \A r \in Stored : r > 0
      /\ \A a \in AcksDown : a \in Ack /\ a.mid < 0 /\ a.row \in Stored \cup {NoRow}
      /\ \A f \in FramesUp : f \in Frame /\ (f.action = "send" => f.id < 0)
  BY DrawnFits
<1>2. BubbleId \subseteq Int /\ Stored \subseteq Int
  BY StoredRows, Constants DEF BubbleId
<1>3. \A a \in Ack : a.mid \in Int
  BY <1>2 DEF Ack
<1>4. \A f \in Frame : f.id \in Int
  BY <1>2 DEF Frame
<1> QED
  BY <1>1, <1>2, <1>3, <1>4

LEMMA SendingSettles ==
    ASSUME TypeOK, TypeOK', Fits, MidsOnce, Clean => Settling, PageSends, Clean'
    PROVE  Settling'
<1> USE DEF serverVars, deliveryVars, wireVars, socketVars, pageVars, otherVars, historyVars
<1>1. /\ UNCHANGED <<rows, gone, events, phase, selected, acks, fetches, excused>> /\ fetches = {}
      /\ view' = Append(view, [id |-> Mid(sends'), tick |-> "", failed |-> FALSE])
      /\ up' = Append(up, [action |-> "send", chat |-> selected, id |-> Mid(sends')])
      /\ selected # NoChat
  BY OverlapsNothing DEF PageSends
<1>2. Settling
  BY <1>1, CleanWas
<1>3. /\ sends \in Nat /\ Mid(sends') = -sends - 1 /\ -sends - 1 \in BubbleId
      /\ selected \in Chats /\ BubbleId \subseteq Int
  <2>1. sends \in 0 .. MaxSends /\ sends < MaxSends /\ sends' = sends + 1 /\ selected \in Chats
    BY <1>1 DEF PageSends, TypeOK
  <2> QED
    BY <2>1, Constants DEF Mid, BubbleId
<1>4. PICK b : b = [id |-> Mid(sends'), tick |-> "", failed |-> FALSE]
  OBVIOUS
<1>5. PICK f : f = [action |-> "send", chat |-> selected, id |-> Mid(sends')]
  OBVIOUS
<1>6. /\ b \in Bubble /\ b.id = -sends - 1 /\ view' = Append(view, b)
      /\ f \in Frame /\ f.id = b.id /\ f.chat = selected /\ f.action = "send" /\ up' = Append(up, f)
  BY <1>1, <1>3, <1>4, <1>5 DEF Bubble, Frame
<1>7. /\ DOMAIN view \subseteq DOMAIN view'
      /\ \A i \in DOMAIN view : view'[i] = view[i]
      /\ \A i \in DOMAIN view' : view'[i] = b \/ \E j \in DOMAIN view : view'[i] = view[j]
      /\ \A i \in DOMAIN view' \ DOMAIN view : view'[i] = b
  <2>1. /\ DOMAIN view \subseteq DOMAIN Append(view, b)
        /\ \A i \in DOMAIN view : Append(view, b)[i] = view[i]
        /\ \A i \in DOMAIN Append(view, b) \ DOMAIN view : i = Len(view) + 1
        /\ \A i \in DOMAIN Append(view, b) :
              Append(view, b)[i] = b \/ \E j \in DOMAIN view : Append(view, b)[i] = view[j]
    BY <1>6, AppendedBubble
  <2>2. Append(view, b)[Len(view) + 1] = b
    BY <1>6, AppendElements DEF TypeOK
  <2> QED
    BY <1>6, <2>1, <2>2
<1>8. Drawn \subseteq Drawn' /\ \A c \in Drawn' : c \in Drawn \/ c = b
  BY <1>7 DEF Drawn
<1>9. FramesUp \subseteq FramesUp' /\ \A g \in FramesUp' : g \in FramesUp \/ g = f
  <2>1. up \in Seq(Frame)
    BY DEF TypeOK
  <2>2. /\ \A i \in DOMAIN up : i \in DOMAIN Append(up, f) /\ Append(up, f)[i] = up[i]
        /\ \A i \in DOMAIN Append(up, f) :
              Append(up, f)[i] = f \/ \E j \in DOMAIN up : Append(up, f)[i] = up[j]
    BY <1>6, <2>1, AppendElements
  <2> QED
    BY <1>6, <2>2 DEF FramesUp
<1>10. /\ UNCHANGED AcksDown
       /\ \A r, tick, failed : Shows(r, tick, failed)' <=> Shows(r, tick, failed)
       /\ \A k, r : Announced(k, r)' <=> Announced(k, r)
       /\ \A r : ~InAnswer(r) /\ (IsInbound(r)' <=> IsInbound(r))
       /\ UNCHANGED Due
  BY <1>1 DEF AcksDown, Shows, Announced, InAnswer, IsInbound, Due, Held, InChat, Stored
<1>11. /\ \A c \in Drawn : c.id \in Int /\ c.id # NoRow
       /\ \A r \in Stored : r > 0 /\ r \in Int
       /\ \A a \in AcksDown : a.mid \in Int /\ a.row \in Stored \cup {NoRow}
       /\ \A g \in FramesUp : g.id \in Int
  BY WireNumbers, DrawnFits
<1>12. /\ \A a \in AcksDown : a.mid # b.id
       /\ \A g \in FramesUp : g.action = "send" => g.id # b.id
       /\ \A r \in Stored : r # b.id
       /\ ~(b.id > 0)
  <2>1. \A a \in AcksDown : -sends <= a.mid
    BY DEF MidsOnce
  <2>2. \A g \in FramesUp : g.action = "send" => -sends <= g.id
    BY DEF MidsOnce
  <2> QED
    BY <1>3, <1>6, <1>11, <2>1, <2>2
<1>13. /\ \A r \in Stored : HasBubble(r)' <=> HasBubble(r)
       /\ \A r : Acknowledged(r)' <=> Acknowledged(r)
  BY <1>8, <1>10, <1>12 DEF HasBubble, Acknowledged
<1>14. \A r \in Due : r \in Stored
  BY DEF Due, Held, InChat
<1>14a. NoneDeleted'
  <2>1. \A r \in gone \ excused : r \in Stored /\ ~HasBubble(r) /\ ~Announced("message", r)
    BY <1>2 DEF Settling, NoneDeleted, TypeOK
  <2>2. \A r \in gone \ excused : ~HasBubble(r)' /\ ~InAnswer(r)' /\ ~Announced("message", r)'
    BY <1>1, <1>10, <1>13, <2>1 DEF InAnswer
  <2> QED
    BY <1>1, <2>2 DEF NoneDeleted
<1>15. OneFetch'
  BY <1>1, <1>2 DEF Settling, OneFetch
<1>16. OfSelected'
  <2>1. \A c \in Drawn' : c.id > 0 => rows[c.id].chat = selected
    BY <1>2, <1>8, <1>12 DEF Settling, OfSelected
  <2>2. \A g \in FramesUp', c \in Drawn' : g.action = "send" /\ g.id = c.id => g.chat = selected
    BY <1>2, <1>6, <1>8, <1>9, <1>12 DEF Settling, OfSelected
  <2>3. \A a \in AcksDown, c \in Drawn' : a.mid = c.id =>
            a.row # NoRow /\ rows[a.row].chat = selected /\ ~HasBubble(a.row)
    BY <1>2, <1>8, <1>12 DEF Settling, OfSelected
  <2>4. \A a \in AcksDown, c \in Drawn' : a.mid = c.id =>
            a.row # NoRow /\ rows[a.row].chat = selected /\ ~HasBubble(a.row)'
    BY <1>11, <1>13, <2>3
  <2> QED
    BY <1>1, <1>10, <2>1, <2>2, <2>4 DEF OfSelected
<1>17. Placed'
  BY <1>2, <1>10, <1>13, <1>14 DEF Settling, Placed
<1>18. PlacedOnce'
  <2>1. ASSUME NEW r \in Due, NEW i \in DOMAIN view', NEW j \in DOMAIN view', view'[i].id = r, view'[j].id = r
        PROVE  i = j
    <3>1. i \in DOMAIN view /\ j \in DOMAIN view
      BY <1>7, <1>12, <1>14, <2>1
    <3> QED
      BY <1>2, <1>7, <2>1, <3>1 DEF Settling, PlacedOnce
  <2>2. \A r \in Due : Announced("message", r) => ~HasBubble(r)
    BY <1>2 DEF Settling, PlacedOnce
  <2>3. \A r \in Due : Announced("message", r)' => ~HasBubble(r)' /\ ~InAnswer(r)'
    BY <1>1, <1>10, <1>13, <1>14, <2>2 DEF InAnswer
  <2> QED
    BY <1>10, <2>1, <2>3 DEF PlacedOnce
<1>19. Current'
  <2> SUFFICES ASSUME NEW r \in Due, ~IsInbound(r)
               PROVE  /\ \A c \in Drawn' : c.id = r => Shows(r, c.tick, c.failed)'
                      /\ Announced("message", r)' \/ Acknowledged(r)' => Shows(r, "", FALSE)'
    BY <1>1, <1>10 DEF Current
  <2>1. /\ \A c \in Drawn : c.id = r => Shows(r, c.tick, c.failed)
        /\ Announced("message", r) \/ Acknowledged(r) => Shows(r, "", FALSE)
    BY <1>2 DEF Settling, Current
  <2>2. \A c \in Drawn' : c.id = r => c \in Drawn
    BY <1>8, <1>12, <1>14
  <2> QED
    BY <1>10, <1>13, <2>1, <2>2
<1>20. ReadsDue'
  BY <1>1, <1>2, <1>8, <1>9, <1>10, <1>12 DEF Settling, ReadsDue
<1> QED
  BY <1>14a, <1>15, <1>16, <1>17, <1>18, <1>19, <1>20 DEF Settling

LEMMA AckSettles ==
    ASSUME TypeOK, TypeOK', Fits, AuthorsFit, MidsOnce, Clean => Settling, PageHandlesAck, Clean'
    PROVE  Settling'
<1> USE DEF serverVars, deliveryVars, wireVars, socketVars, pageVars, otherVars, historyVars
<1>1. /\ UNCHANGED <<rows, gone, events, phase, selected, up, fetches, excused>> /\ fetches = {}
      /\ acks # <<>> /\ acks' = Tail(acks) /\ view' = Acked(Head(acks))
  BY OverlapsNothing DEF PageHandlesAck
<1>2. Settling
  BY <1>1, CleanWas
<1>3. /\ Head(acks) = acks[1] /\ 1 \in DOMAIN acks
      /\ \A k \in DOMAIN acks' : k + 1 \in DOMAIN acks /\ acks'[k] = acks[k + 1]
      /\ \A k \in DOMAIN acks : k = 1 \/ (k - 1 \in DOMAIN acks' /\ acks'[k - 1] = acks[k])
  BY <1>1, FirstAckPlaces
<1>4. PICK a : a = acks[1]
  OBVIOUS
<1>5. a \in AcksDown /\ view' = Acked(a)
  BY <1>1, <1>3, <1>4 DEF AcksDown
<1>6. /\ AcksDown' \subseteq AcksDown
      /\ \A c \in AcksDown : c = a \/ c \in AcksDown'
      /\ \A c \in AcksDown' : c.mid # a.mid /\ (a.row # NoRow => c.row # a.row)
  <2>1. AcksDown' \subseteq AcksDown /\ \A c \in AcksDown : c = a \/ c \in AcksDown'
    BY <1>3, <1>4 DEF AcksDown
  <2>2. ASSUME NEW c \in AcksDown'
        PROVE  c.mid # a.mid /\ (a.row # NoRow => c.row # a.row)
    <3>1. PICK k \in DOMAIN acks' : c = acks'[k]
      BY DEF AcksDown
    <3>2. k \in Int /\ k >= 1
      BY DEF TypeOK
    <3>3. c = acks[k + 1] /\ k + 1 \in DOMAIN acks /\ k + 1 # 1
      BY <1>3, <3>1, <3>2
    <3> QED
      BY <1>3, <1>4, <3>3 DEF MidsOnce
  <2> QED
    BY <2>1, <2>2
<1>7. /\ UNCHANGED <<Due, FramesUp>>
      /\ \A r, tick, failed : Shows(r, tick, failed)' <=> Shows(r, tick, failed)
      /\ \A k, r : Announced(k, r)' <=> Announced(k, r)
      /\ \A r : ~InAnswer(r) /\ ~InAnswer(r)' /\ (IsInbound(r)' <=> IsInbound(r))
  BY <1>1 DEF FramesUp, Shows, Announced, InAnswer, IsInbound, Due, Held, InChat, Stored
<1>8. /\ \A c \in AcksDown : c.mid < 0 /\ ~(c.mid > 0) /\ c.mid \in Int
      /\ \A r \in Stored : r > 0 /\ ~(r < 0)
      /\ \A f \in FramesUp : f.action = "send" => f.id < 0 /\ ~(f.id > 0)
      /\ \A r \in Due : r \in Stored
      /\ a.row \in Stored \cup {NoRow}
  <2>1. /\ \A r \in Stored : r > 0 /\ r \in Int
        /\ \A c \in AcksDown : c.mid \in Int /\ c.mid < 0 /\ c.row \in Stored \cup {NoRow}
        /\ \A f \in FramesUp : f.id \in Int /\ (f.action = "send" => f.id < 0)
    BY WireNumbers
  <2> QED
    BY <1>5, <2>1 DEF Due, Held, InChat
<1>9. OneFetch'
  BY <1>1, <1>2 DEF Settling, OneFetch
<1>9a. /\ \A r \in gone \ excused : ~HasBubble(r) /\ ~Announced("message", r) /\ r \in Stored
       /\ (\A r \in gone \ excused : ~HasBubble(r)') => NoneDeleted'
  <2>1. \A r \in gone \ excused : ~HasBubble(r) /\ ~Announced("message", r) /\ r \in Stored
    BY <1>2 DEF Settling, NoneDeleted, TypeOK
  <2> QED
    BY <1>1, <1>7, <2>1 DEF NoneDeleted
<1>10. CASE ~HasBubble(a.mid)
  <2>1. UNCHANGED view
    <3>1. FirstOf(a.mid) = {}
      BY <1>10 DEF HasBubble, Drawn, FirstOf
    <3>2. Acked(a) = [i \in DOMAIN view |-> view[i]]
      BY <3>1 DEF Acked
    <3>3. view = [i \in DOMAIN view |-> view[i]]
      BY DEF TypeOK
    <3> QED
      BY <1>5, <3>2, <3>3
  <2>2. UNCHANGED Drawn /\ \A r : HasBubble(r)' <=> HasBubble(r)
    BY <2>1 DEF Drawn, HasBubble
  <2>3. \A r : Acknowledged(r)' <=> Acknowledged(r)
    BY <1>6, <1>10, <2>2 DEF Acknowledged, HasBubble
  <2>4. OfSelected'
    <3>1. /\ \A b \in Drawn : b.id > 0 => rows[b.id].chat = selected
          /\ \A f \in FramesUp, b \in Drawn : f.action = "send" /\ f.id = b.id => f.chat = selected
          /\ \A c \in AcksDown', b \in Drawn : c.mid = b.id =>
                c.row # NoRow /\ rows[c.row].chat = selected /\ ~HasBubble(c.row)
      BY <1>2, <1>6 DEF Settling, OfSelected
    <3> QED
      BY <1>1, <1>7, <2>2, <3>1 DEF OfSelected
  <2>5. Placed' /\ PlacedOnce'
    BY <1>2, <1>7, <2>1, <2>2, <2>3 DEF Settling, Placed, PlacedOnce
  <2>6. Current' /\ ReadsDue'
    <3>1. Current'
      BY <1>1, <1>2, <1>7, <2>2, <2>3 DEF Settling, Current
    <3>2. ReadsDue'
      BY <1>1, <1>2, <1>7, <2>2 DEF Settling, ReadsDue
    <3> QED
      BY <3>1, <3>2
  <2>7. NoneDeleted'
    BY <1>9a, <2>2
  <2> QED
    BY <1>9, <2>4, <2>5, <2>6, <2>7 DEF Settling
<1>11. CASE HasBubble(a.mid)
  <2>1. PICK i \in DOMAIN view : FirstOf(a.mid) = {i} /\ view[i].id = a.mid
    BY <1>11, FirstBubble
  <2>2. PICK was : was = view[i]
    OBVIOUS
  <2>3. was \in Drawn /\ was.id = a.mid /\ was \in Bubble
    BY <2>1, <2>2, Bubbles DEF Drawn
  <2>4. a.row \in Stored /\ a.row # NoRow /\ rows[a.row].chat = selected /\ ~HasBubble(a.row)
    BY <1>2, <1>5, <1>8, <2>3 DEF Settling, OfSelected
  <2>5. was.tick = "" /\ was.failed = FALSE
    <3>1. BubbleFits(was)
      BY <2>1, <2>2 DEF Fits, ViewFits
    <3>2. ~Holds("new", was.id)
      BY <1>5, <1>8, <2>3 DEF Holds
    <3> QED
      BY <2>3, <3>1, <3>2 DEF BubbleFits, Bubble
  <2>6. PICK is : is = [was EXCEPT !.id = a.row]
    OBVIOUS
  <2>7. is.id = a.row /\ is.tick = "" /\ is.failed = FALSE
    BY <2>3, <2>5, <2>6 DEF Bubble
  <2>8. /\ DOMAIN view' = DOMAIN view /\ view'[i] = is
        /\ \A j \in DOMAIN view : j # i => view'[j] = view[j]
    BY <1>5, <2>1, <2>2, <2>4, <2>6 DEF Acked
  <2>9. /\ is \in Drawn' /\ \A b \in Drawn' : b \in Drawn \/ b = is
        /\ \A b \in Drawn : b \in Drawn' \/ b.id = a.mid
    BY <2>1, <2>8 DEF Drawn
  <2>10. /\ \A b \in Drawn' : ~(b.id > 0) => b \in Drawn
         /\ \A c \in AcksDown, b \in Drawn' : c.mid = b.id => b \in Drawn
         /\ \A f \in FramesUp, b \in Drawn' : f.action = "send" /\ f.id = b.id => b \in Drawn
         /\ \A r \in Stored : r # a.mid
    <3>1. is.id > 0 /\ ~(is.id < 0)
      BY <1>8, <2>4, <2>7
    <3>2. \A r \in Stored : r # a.mid
      BY <1>5, <1>8
    <3>3. \A c \in AcksDown, b \in Drawn' : c.mid = b.id => b \in Drawn
      BY <1>8, <2>9, <3>1
    <3>4. \A f \in FramesUp, b \in Drawn' : f.action = "send" /\ f.id = b.id => b \in Drawn
      BY <1>8, <2>9, <3>1
    <3> QED
      BY <2>9, <3>1, <3>2, <3>3, <3>4
  <2>11. \A r \in Stored : HasBubble(r)' <=> HasBubble(r) \/ r = a.row
    BY <2>7, <2>9, <2>10 DEF HasBubble
  <2>12. \A r : Acknowledged(r)' => Acknowledged(r)
    BY <1>6, <2>10 DEF Acknowledged
  <2>13. \A r : Acknowledged(r) => Acknowledged(r)' \/ r = a.row
    <3> SUFFICES ASSUME NEW c \in AcksDown, NEW b \in Drawn, c.mid = b.id, c # a
                 PROVE  \E d \in AcksDown', e \in Drawn' : d.row = c.row /\ d.mid = e.id
      BY DEF Acknowledged
    <3>1. c \in AcksDown' /\ b \in Drawn'
      BY <1>6, <2>9
    <3> QED
      BY <3>1
  <2>14. Acknowledged(a.row) /\ rows[a.row].author = "me" /\ ~Announced("message", a.row)
    <3>1. Acknowledged(a.row)
      BY <1>5, <2>3 DEF Acknowledged
    <3>2. rows[a.row].author = "me"
      BY <1>5, <2>4 DEF AuthorsFit
    <3>3. ~Announced("message", a.row)
      <4> SUFFICES ASSUME NEW e \in events, e = [kind |-> "message", row |-> a.row]
                   PROVE  FALSE
        BY DEF Announced
      <4>1. e.kind = "message" /\ e.row = a.row
        OBVIOUS
      <4> QED
        BY <3>2, <4>1 DEF AuthorsFit
    <3> QED
      BY <3>1, <3>2, <3>3
  <2>15. OfSelected'
    <3>1. \A b \in Drawn' : b.id > 0 => rows[b.id].chat = selected
      BY <1>2, <2>4, <2>7, <2>9 DEF Settling, OfSelected
    <3>2. \A f \in FramesUp, b \in Drawn' : f.action = "send" /\ f.id = b.id => f.chat = selected
      BY <1>2, <2>10 DEF Settling, OfSelected
    <3>3. ASSUME NEW c \in AcksDown', NEW b \in Drawn', c.mid = b.id
          PROVE  c.row # NoRow /\ rows[c.row].chat = selected /\ ~HasBubble(c.row)'
      <4>1. c \in AcksDown /\ b \in Drawn /\ c.row # a.row
        BY <1>6, <2>4, <2>10, <3>3
      <4>2. c.row # NoRow /\ rows[c.row].chat = selected /\ ~HasBubble(c.row)
        BY <1>2, <3>3, <4>1 DEF Settling, OfSelected
      <4>3. c.row \in Stored
        BY <4>1, <4>2, DrawnFits
      <4> QED
        BY <2>11, <4>1, <4>2, <4>3
    <3> QED
      BY <1>1, <1>7, <3>1, <3>2, <3>3 DEF OfSelected
  <2>16. Placed'
    <3> SUFFICES ASSUME NEW r \in Due
                 PROVE  HasBubble(r)' \/ Announced("message", r)' \/ Acknowledged(r)'
      BY <1>7 DEF Placed
    <3>1. HasBubble(r) \/ Announced("message", r) \/ Acknowledged(r)
      BY <1>2, <1>7 DEF Settling, Placed
    <3> QED
      BY <1>7, <1>8, <2>11, <2>13, <3>1
  <2>17. PlacedOnce'
    <3>1. ASSUME NEW r \in Due, Announced("message", r)
          PROVE  ~HasBubble(r)'
      <4>1. ~HasBubble(r) /\ r # a.row /\ r \in Stored
        BY <1>2, <1>8, <2>14, <3>1 DEF Settling, PlacedOnce
      <4> QED
        BY <2>11, <4>1
    <3>2. ASSUME NEW r \in Due, NEW j \in DOMAIN view', NEW k \in DOMAIN view', view'[j].id = r, view'[k].id = r
          PROVE  j = k
      <4>1. CASE r = a.row
        <5>1. \A n \in DOMAIN view : view[n].id # r
          BY <2>4, <4>1 DEF HasBubble, Drawn
        <5> QED
          BY <2>8, <3>2, <5>1
      <4>2. CASE r # a.row
        <5>1. j # i /\ k # i
          BY <2>7, <2>8, <3>2, <4>2
        <5> QED
          BY <1>2, <2>8, <3>2, <5>1 DEF Settling, PlacedOnce
      <4> QED
        BY <4>1, <4>2
    <3> QED
      BY <1>7, <3>1, <3>2 DEF PlacedOnce
  <2>18. Current'
    <3> SUFFICES ASSUME NEW r \in Due, ~IsInbound(r)
                 PROVE  /\ \A b \in Drawn' : b.id = r => Shows(r, b.tick, b.failed)'
                        /\ Announced("message", r)' \/ Acknowledged(r)' => Shows(r, "", FALSE)'
      BY <1>1, <1>7 DEF Current
    <3>1. /\ \A b \in Drawn : b.id = r => Shows(r, b.tick, b.failed)
          /\ Announced("message", r) \/ Acknowledged(r) => Shows(r, "", FALSE)
      BY <1>2 DEF Settling, Current
    <3>2. \A b \in Drawn' : b.id = r => Shows(r, b.tick, b.failed)
      BY <2>7, <2>9, <2>14, <3>1
    <3> QED
      BY <1>7, <2>12, <3>1, <3>2
  <2>19. ReadsDue'
    <3>1. ~IsInbound(a.row)
      BY <2>14 DEF IsInbound
    <3>2. \A b \in Drawn' : b.id > 0 /\ IsInbound(b.id) => b \in Drawn
      BY <2>7, <2>9, <3>1
    <3> QED
      BY <1>1, <1>2, <1>7, <3>2 DEF Settling, ReadsDue
  <2>20. NoneDeleted'
    <3>1. a.row \notin gone
      BY <2>14 DEF AuthorsFit, TypeOK
    <3> QED
      BY <1>9a, <2>11, <3>1
  <2> QED
    BY <1>9, <2>15, <2>16, <2>17, <2>18, <2>19, <2>20 DEF Settling
<1> QED
  BY <1>10, <1>11

LEMMA NoAcks ==
    ASSUME acks = <<>>, UNCHANGED acks
    PROVE  AcksDown = {} /\ AcksDown' = {}
<1>1. DOMAIN acks = {} /\ DOMAIN acks' = {}
  OBVIOUS
<1> QED
  BY <1>1 DEF AcksDown

(* An event that draws nothing: it may change what bubbles of its row show *)
(* and no other.                                                           *)
LEMMA InPlaceSettles ==
    ASSUME TypeOK, TypeOK', Settling, SameIds,
           UNCHANGED <<rows, gone, phase, selected, fetches, up, acks>>, fetches = {}, acks = <<>>,
           excused \subseteq excused', NEW e \in events, events' = events \ {e},
           e.kind = "message" => e.row \notin Due',
           \A r \in Due', i \in DOMAIN view : \A t, x :
              /\ ~IsInbound(r) /\ view[i].id = r /\ Shows(r, view[i].tick, view[i].failed)
              /\ view'[i].tick = t /\ view'[i].failed = x
              => Shows(r, t, x)',
           \A r \in Due' :
              ~IsInbound(r) /\ Announced("message", r) /\ Shows(r, "", FALSE) => Shows(r, "", FALSE)'
    PROVE  Settling'
<1>1. /\ UNCHANGED FramesUp
      /\ \A r : ~InAnswer(r) /\ ~InAnswer(r)' /\ (IsInbound(r)' <=> IsInbound(r))
      /\ \A r : ~Acknowledged(r) /\ ~Acknowledged(r)'
      /\ AcksDown = {} /\ AcksDown' = {}
      /\ Due' \subseteq Due
      /\ \A r : Announced("message", r)' => Announced("message", r)
  <2>1. AcksDown = {} /\ AcksDown' = {} /\ UNCHANGED FramesUp
    BY NoAcks DEF FramesUp
  <2>2. \A r : ~InAnswer(r) /\ ~InAnswer(r)' /\ (IsInbound(r)' <=> IsInbound(r))
    BY DEF InAnswer, IsInbound
  <2>3. \A r : ~Acknowledged(r) /\ ~Acknowledged(r)'
    BY <2>1 DEF Acknowledged
  <2>4. Due' \subseteq Due
    BY DEF Due, Held, InChat, Stored
  <2>5. \A r : Announced("message", r)' => Announced("message", r)
    BY DEF Announced
  <2> QED
    BY <2>1, <2>2, <2>3, <2>4, <2>5
<1>2. \A r \in Due' : Announced("message", r) => Announced("message", r)'
  <2> SUFFICES ASSUME NEW r \in Due', Announced("message", r), e = [kind |-> "message", row |-> r]
               PROVE  FALSE
    BY DEF Announced
  <2>1. e.kind = "message" /\ e.row = r
    OBVIOUS
  <2> QED
    BY <2>1
<1>3. /\ DOMAIN view' = DOMAIN view
      /\ \A i \in DOMAIN view : view'[i].id = view[i].id
  BY DEF SameIds
<1>4. /\ \A b \in Drawn' : \E c \in Drawn : c.id = b.id
      /\ \A b \in Drawn : \E c \in Drawn' : c.id = b.id
  <2>1. \A i \in DOMAIN view' : i \in DOMAIN view /\ view[i] \in Drawn /\ view[i].id = view'[i].id
    BY <1>3 DEF Drawn
  <2>2. \A i \in DOMAIN view : i \in DOMAIN view' /\ view'[i] \in Drawn' /\ view[i].id = view'[i].id
    BY <1>3 DEF Drawn
  <2>3. \A b \in Drawn' : \E c \in Drawn : c.id = b.id
    BY <2>1 DEF Drawn
  <2>4. \A b \in Drawn : \E c \in Drawn' : c.id = b.id
    BY <2>2 DEF Drawn
  <2> QED
    BY <2>3, <2>4
<1>5. \A id : HasBubble(id)' <=> HasBubble(id)
  BY <1>4 DEF HasBubble
<1>6. OneFetch'
  BY DEF Settling, OneFetch
<1>7. OfSelected'
  <2>1. /\ \A b \in Drawn : b.id > 0 => rows[b.id].chat = selected
        /\ \A f \in FramesUp, b \in Drawn : f.action = "send" /\ f.id = b.id => f.chat = selected
    BY DEF Settling, OfSelected
  <2>2. ASSUME NEW b \in Drawn'
        PROVE  /\ b.id > 0 => rows[b.id].chat = selected
               /\ \A f \in FramesUp : f.action = "send" /\ f.id = b.id => f.chat = selected
    <3>1. PICK c \in Drawn : c.id = b.id
      BY <1>4
    <3> QED
      BY <2>1, <3>1
  <2> QED
    BY <1>1, <2>2 DEF OfSelected
<1>7a. NoneDeleted'
  BY <1>1, <1>5 DEF Settling, NoneDeleted
<1>8. Placed'
  BY <1>1, <1>2, <1>5 DEF Settling, Placed
<1>9. PlacedOnce'
  <2>1. \A r \in Due' : Announced("message", r)' => ~HasBubble(r)'
    BY <1>1, <1>5 DEF Settling, PlacedOnce
  <2>2. \A r \in Due' : \A i, j \in DOMAIN view' : view'[i].id = r /\ view'[j].id = r => i = j
    BY <1>1, <1>3 DEF Settling, PlacedOnce
  <2> QED
    BY <1>1, <2>1, <2>2 DEF PlacedOnce
<1>10. Current'
  <2> SUFFICES ASSUME NEW r \in Due', ~IsInbound(r)
               PROVE  /\ \A b \in Drawn' : b.id = r => Shows(r, b.tick, b.failed)'
                      /\ Announced("message", r)' => Shows(r, "", FALSE)'
    BY <1>1 DEF Current
  <2>1. /\ \A b \in Drawn : b.id = r => Shows(r, b.tick, b.failed)
        /\ Announced("message", r) => Shows(r, "", FALSE)
    BY <1>1 DEF Settling, Current
  <2>2. ASSUME NEW b \in Drawn', b.id = r, NEW t, NEW x, b.tick = t, b.failed = x
        PROVE  Shows(r, t, x)'
    <3>1. PICK i \in DOMAIN view' : b = view'[i]
      BY DEF Drawn
    <3>2. i \in DOMAIN view /\ view[i].id = r /\ view[i] \in Drawn
      BY <1>3, <2>2, <3>1 DEF Drawn
    <3>3. Shows(r, view[i].tick, view[i].failed)
      BY <2>1, <3>2
    <3>4. view'[i].tick = t /\ view'[i].failed = x /\ ~IsInbound(r)
      BY <1>1, <2>2, <3>1
    <3> QED
      BY <3>2, <3>3, <3>4
  <2> QED
    BY <1>1, <2>1, <2>2
<1>11. ReadsDue'
  <2>1. \A b \in Drawn : b.id > 0 /\ IsInbound(b.id) /\ b.id \notin excused' =>
            rows[b.id].status = "read" \/ \E f \in FramesUp : f.action = "read" /\ f.id = b.id
    BY DEF Settling, ReadsDue
  <2>2. \A b \in Drawn' : b.id > 0 /\ IsInbound(b.id) /\ b.id \notin excused' =>
            rows[b.id].status = "read" \/ \E f \in FramesUp : f.action = "read" /\ f.id = b.id
    <3> SUFFICES ASSUME NEW b \in Drawn', b.id > 0, IsInbound(b.id), b.id \notin excused'
                 PROVE  rows[b.id].status = "read" \/ \E f \in FramesUp : f.action = "read" /\ f.id = b.id
      OBVIOUS
    <3>1. PICK c \in Drawn : c.id = b.id
      BY <1>4
    <3> QED
      BY <2>1, <3>1
  <2> QED
    BY <1>1, <2>2 DEF ReadsDue
<1> QED
  BY <1>6, <1>7, <1>7a, <1>8, <1>9, <1>10, <1>11 DEF Settling

(* An event says nothing of other rows, nor another event of its row.      *)
LEMMA ShowsWithout ==
    ASSUME UNCHANGED rows, NEW e \in events, events' = events \ {e}, NEW r, NEW tick, NEW failed,
           Shows(r, tick, failed), e.row # r \/ e.kind = "message"
    PROVE  Shows(r, tick, failed)'
<1>1. \A k \in Kinds : Announced(k, r) => Announced(k, r)'
  <2> SUFFICES ASSUME NEW k \in Kinds, e = [kind |-> k, row |-> r]
               PROVE  FALSE
    BY DEF Announced
  <2>1. e.kind = k /\ e.row = r /\ k # "message"
    BY DEF Kinds
  <2> QED
    BY <2>1
<1> QED
  BY <1>1, RowsStay

LEMMA OtherAnnounced ==
    ASSUME NEW e \in events, events' = events \ {e}, NEW k, NEW r, Announced(k, r), k # e.kind
    PROVE  Announced(k, r)'
<1> SUFFICES ASSUME e = [kind |-> k, row |-> r]
             PROVE  FALSE
  BY DEF Announced
<1>1. e.kind = k
  OBVIOUS
<1> QED
  BY <1>1

(* The provider's answer is told of no message that is announced.          *)
LEMMA AnnouncedIsOthers ==
    ASSUME AuthorsFit, NEW e \in events, e.kind \in {"delivered", "failed"}
    PROVE  rows[e.row].author = "me" /\ ~Announced("message", e.row)
<1>1. rows[e.row].author = "me"
  BY DEF AuthorsFit
<1> SUFFICES ASSUME NEW d \in events, d = [kind |-> "message", row |-> e.row]
             PROVE  FALSE
  BY <1>1 DEF Announced
<1>2. d.kind = "message" /\ d.row = e.row
  OBVIOUS
<1> QED
  BY <1>1, <1>2 DEF AuthorsFit

LEMMA DueBubble ==
    ASSUME TypeOK, PlacedOnce, NEW r \in Due, NEW i \in DOMAIN view, view[i].id = r
    PROVE  FirstOf(r) = {i}
<1>1. HasBubble(r)
  BY DEF HasBubble, Drawn
<1>2. PICK k \in DOMAIN view : FirstOf(r) = {k} /\ view[k].id = r
  BY <1>1, FirstBubble
<1> QED
  BY <1>2 DEF PlacedOnce

(* A bubble of a stored row is ticked twice only if it was read.           *)
LEMMA TicksFit ==
    ASSUME TypeOK, Fits, NEW i \in DOMAIN view, view[i].id \in Stored
    PROVE  /\ view[i].tick \in {"", "one", "two"}
           /\ view[i].tick = "two" => rows[view[i].id].status = "read"
           /\ view[i].tick = "one" => rows[view[i].id].status \in {"delivered", "read"}
<1>1. view[i].tick \in {"", "one", "two"}
  BY Bubbles DEF Bubble
<1>2. BubbleFits(view[i])
  BY DEF Fits, ViewFits
<1> QED
  BY <1>1, <1>2 DEF BubbleFits, Holds

LEMMA TickedTwice ==
    ASSUME TypeOK, NEW r, view' = Ticked(FirstOf(r), "two")
    PROVE  /\ SameIds
           /\ \A i \in DOMAIN view :
                 /\ view'[i].failed = view[i].failed
                 /\ view'[i].tick = IF i \in FirstOf(r) THEN "two" ELSE view[i].tick
                 /\ view'[i].tick = view[i].tick \/ view[i].id = r
<1>1. PICK I \in SUBSET FirstOf(r) : I = FirstOf(r)
  OBVIOUS
<1>2. view' = Ticked(I, "two") /\ "two" \in {"one", "two"}
  BY <1>1
<1>3. /\ SameIds
      /\ \A i \in DOMAIN view :
            /\ view'[i].failed = view[i].failed
            /\ view'[i].tick = IF i \in I THEN "two" ELSE view[i].tick
            /\ view'[i].tick = view[i].tick \/ view[i].id = r
  BY <1>2, TickedInPlace
<1> QED
  BY <1>1, <1>3

LEMMA ReadSettles ==
    ASSUME TypeOK, TypeOK', Fits, AuthorsFit, Settling, NEW e \in events, e.kind = "read",
           UNCHANGED <<rows, gone, phase, selected, fetches, up, acks>>, fetches = {}, acks = <<>>,
           events' = events \ {e}, view' = Ticked(FirstOf(e.row), "two"),
           excused' = excused \cup (OnTheirWay \cap {e.row})
    PROVE  Settling'
<1>1. e.row \in Stored /\ rows[e.row].status = "read"
  BY DEF Fits, EventsFit, EventFits, Holds
<1>2. /\ SameIds
      /\ \A i \in DOMAIN view :
            /\ view'[i].failed = view[i].failed
            /\ view'[i].tick = IF i \in FirstOf(e.row) THEN "two" ELSE view[i].tick
            /\ view'[i].tick = view[i].tick \/ view[i].id = e.row
  BY TickedTwice
<1>3. Due' \subseteq Due /\ (Announced("message", e.row) => e.row \notin Due') /\ Due \subseteq Stored
  BY <1>1 DEF Due, Held, InChat, Stored, Announced, OnTheirWay
<1>4. ASSUME NEW r \in Due', NEW i \in DOMAIN view, view[i].id = r,
             Shows(r, view[i].tick, view[i].failed),
             NEW t, NEW x, view'[i].tick = t, view'[i].failed = x
      PROVE  Shows(r, t, x)'
  <2>1. CASE r = e.row
    <3>1. FirstOf(r) = {i}
      BY <1>3, <1>4, DueBubble DEF Settling
    <3>2. view'[i].tick = "two"
      BY <1>2, <2>1, <3>1
    <3> QED
      BY <1>1, <1>4, <2>1, <3>2 DEF Shows
  <2>2. CASE r # e.row
    <3>1. t = view[i].tick /\ x = view[i].failed
      BY <1>2, <1>4, <2>2
    <3> QED
      BY <1>4, <2>2, <3>1, ShowsWithout
  <2> QED
    BY <2>1, <2>2
<1>5. ASSUME NEW r \in Due', Announced("message", r), Shows(r, "", FALSE)
      PROVE  Shows(r, "", FALSE)'
  BY <1>3, <1>5, ShowsWithout
<1> QED
  BY <1>2, <1>4, <1>5, InPlaceSettles

LEMMA DeliverySettles ==
    ASSUME TypeOK, TypeOK', Fits, AuthorsFit, Settling, NEW e \in events, e.kind = "delivered",
           UNCHANGED <<rows, gone, phase, selected, fetches, up, acks>>, fetches = {}, acks = <<>>,
           events' = events \ {e}, view' = TickedOnce(FirstOf(e.row)), excused' = excused
    PROVE  Settling'
<1>1. e.row \in Stored /\ rows[e.row].status \in {"delivered", "read"}
  BY DEF Fits, EventsFit, EventFits, Holds
<1>2. /\ SameIds
      /\ \A i \in DOMAIN view :
            /\ view'[i].failed = view[i].failed
            /\ view'[i].tick = IF i \in FirstOf(e.row) /\ view[i].tick = "" THEN "one" ELSE view[i].tick
            /\ view'[i].tick = view[i].tick \/ view[i].id = e.row
  <2> DEFINE I == {i \in FirstOf(e.row) : view[i].tick = ""}
  <2>1. I \in SUBSET FirstOf(e.row) /\ "one" \in {"one", "two"} /\ view' = Ticked(I, "one")
    BY DEF TickedOnce
  <2>2. \A i : i \in I <=> i \in FirstOf(e.row) /\ view[i].tick = ""
    OBVIOUS
  <2> HIDE DEF I
  <2>3. /\ SameIds
        /\ \A i \in DOMAIN view :
              /\ view'[i].failed = view[i].failed
              /\ view'[i].tick = IF i \in I THEN "one" ELSE view[i].tick
              /\ view'[i].tick = view[i].tick \/ view[i].id = e.row
    BY <2>1, TickedInPlace
  <2> QED
    BY <2>2, <2>3
<1>3. Due' \subseteq Due /\ Due \subseteq Stored
  BY DEF Due, Held, InChat, Stored
<1>4. ASSUME NEW r \in Due', NEW i \in DOMAIN view, view[i].id = r,
             Shows(r, view[i].tick, view[i].failed),
             NEW t, NEW x, view'[i].tick = t, view'[i].failed = x
      PROVE  Shows(r, t, x)'
  <2>1. CASE r = e.row
    <3>1. FirstOf(r) = {i}
      BY <1>3, <1>4, DueBubble DEF Settling
    <3>2. /\ view[i].tick \in {"", "one", "two"}
          /\ view[i].tick = "two" => rows[r].status = "read"
      BY <1>1, <1>4, <2>1, TicksFit
    <3>3. view[i].tick = "" => view'[i].tick = "one"
      BY <1>2, <2>1, <3>1
    <3>4. view[i].tick # "" => view'[i].tick = view[i].tick
      BY <1>2
    <3>5. CASE rows[r].status = "delivered"
      BY <1>4, <3>2, <3>3, <3>4, <3>5 DEF Shows
    <3>6. CASE rows[r].status = "read"
      <4>1. view[i].tick = "two" \/ Announced("read", r)
        BY <1>4, <3>6 DEF Shows
      <4>2. view'[i].tick = "two" \/ Announced("read", r)'
        BY <3>4, <4>1, OtherAnnounced
      <4> QED
        BY <1>4, <3>6, <4>2 DEF Shows
    <3> QED
      BY <1>1, <2>1, <3>5, <3>6
  <2>2. CASE r # e.row
    <3>1. t = view[i].tick /\ x = view[i].failed
      BY <1>2, <1>4, <2>2
    <3> QED
      BY <1>4, <2>2, <3>1, ShowsWithout
  <2> QED
    BY <2>1, <2>2
<1>5. ASSUME NEW r \in Due', Announced("message", r), Shows(r, "", FALSE)
      PROVE  Shows(r, "", FALSE)'
  <2>1. r # e.row
    BY <1>5, AnnouncedIsOthers
  <2> QED
    BY <1>5, <2>1, ShowsWithout
<1> QED
  BY <1>2, <1>4, <1>5, InPlaceSettles

LEMMA FailureSettles ==
    ASSUME TypeOK, TypeOK', Fits, AuthorsFit, Settling, NEW e \in events, e.kind = "failed",
           UNCHANGED <<rows, gone, phase, selected, fetches, up, acks>>, fetches = {}, acks = <<>>,
           events' = events \ {e}, view' = Crossed(FirstOf(e.row)), excused' = excused
    PROVE  Settling'
<1>1. e.row \in Stored /\ rows[e.row].status \in {"failed", "read", "new"}
  BY DEF Fits, EventsFit, EventFits, Holds
<1>2. /\ SameIds
      /\ \A i \in DOMAIN view :
            /\ view'[i].tick = view[i].tick
            /\ view'[i].failed = (i \in FirstOf(e.row) \/ view[i].failed)
  <2>1. PICK I : I = FirstOf(e.row)
    OBVIOUS
  <2>2. view' = Crossed(I)
    BY <2>1
  <2> QED
    BY <2>1, <2>2, CrossedInPlace
<1>3. Due' \subseteq Due /\ Due \subseteq Stored
  BY DEF Due, Held, InChat, Stored
<1>4. ASSUME NEW r \in Due', NEW i \in DOMAIN view, view[i].id = r,
             Shows(r, view[i].tick, view[i].failed),
             NEW t, NEW x, view'[i].tick = t, view'[i].failed = x
      PROVE  Shows(r, t, x)'
  <2>1. CASE r = e.row
    <3>1. FirstOf(r) = {i}
      BY <1>3, <1>4, DueBubble DEF Settling
    <3>2. view'[i].failed /\ view'[i].tick = view[i].tick
      BY <1>2, <2>1, <3>1
    <3>3. CASE rows[r].status = "failed"
      BY <1>4, <3>2, <3>3 DEF Shows
    <3>4. CASE rows[r].status = "read"
      <4>1. view[i].tick = "two" \/ Announced("read", r)
        BY <1>4, <3>4 DEF Shows
      <4>2. view'[i].tick = "two" \/ Announced("read", r)'
        BY <3>2, <4>1, OtherAnnounced
      <4> QED
        BY <1>4, <3>2, <3>4, <4>2 DEF Shows
    <3>5. CASE rows[r].status = "new"
      BY <3>5 DEF Shows
    <3> QED
      BY <1>1, <2>1, <3>3, <3>4, <3>5
  <2>2. CASE r # e.row
    <3>1. i \notin FirstOf(e.row)
      BY <1>4, <2>2 DEF FirstOf
    <3>2. view[i].failed \in BOOLEAN
      BY Bubbles DEF Bubble
    <3>3. t = view[i].tick /\ x = view[i].failed
      BY <1>2, <1>4, <3>1, <3>2
    <3> QED
      BY <1>4, <2>2, <3>3, ShowsWithout
  <2> QED
    BY <2>1, <2>2
<1>5. ASSUME NEW r \in Due', Announced("message", r), Shows(r, "", FALSE)
      PROVE  Shows(r, "", FALSE)'
  <2>1. r # e.row
    BY <1>5, AnnouncedIsOthers
  <2> QED
    BY <1>5, <2>1, ShowsWithout
<1> QED
  BY <1>2, <1>4, <1>5, InPlaceSettles

LEMMA ElsewhereSettles ==
    ASSUME TypeOK, TypeOK', Settling, NEW e \in events, e.kind = "message", rows[e.row].chat # selected,
           UNCHANGED <<rows, gone, phase, selected, fetches, up, acks, view>>, fetches = {}, acks = <<>>,
           events' = events \ {e}, excused' = excused
    PROVE  Settling'
<1>1. e.row \notin Due' /\ SameIds
  BY DEF Due, Held, InChat, Stored, SameIds
<1>2. ASSUME NEW r, NEW tick, NEW failed, Shows(r, tick, failed)
      PROVE  Shows(r, tick, failed)'
  BY <1>2, ShowsWithout
<1>3. ASSUME NEW r, NEW i \in DOMAIN view, Shows(r, view[i].tick, view[i].failed),
             NEW t, NEW x, view'[i].tick = t, view'[i].failed = x
      PROVE  Shows(r, t, x)'
  BY <1>2, <1>3
<1> QED
  BY <1>1, <1>2, <1>3, InPlaceSettles

LEMMA MessageSettles ==
    ASSUME TypeOK, Fits, AuthorsFit, Settling, NEW e \in events, e.kind = "message",
           rows[e.row].chat = selected, Draws([r \in {e.row} |-> "new"]),
           UNCHANGED <<rows, gone, phase, selected, fetches, acks>>, fetches = {}, acks = <<>>,
           events' = events \ {e}, excused' = excused
    PROVE  Settling'
<1>1. e.row \in Stored /\ phase = "open" /\ selected \in Chats
  BY DEF Fits, EventsFit, EventFits, Holds, Settling, OneFetch
<1>2. PICK R \in SUBSET Stored : R = {e.row}
  BY <1>1
<1>3. PICK found \in [R -> Status] : found = [r \in {e.row} |-> "new"]
  BY <1>2 DEF Status
<1>4. PICK nb : nb = BubbleOf(e.row, "new")
  OBVIOUS
<1>5. Draws(found) /\ \A r \in R : r = e.row /\ found[r] = "new"
  BY <1>2, <1>3
<1>6. nb.id = e.row /\ nb.tick = "" /\ nb.failed = FALSE
  BY <1>4 DEF BubbleOf, TickOf
<1>7. /\ Drawn \subseteq Drawn'
      /\ \A b \in Drawn' : b \in Drawn \/ \E r \in R : b = BubbleOf(r, found[r])
      /\ \A r \in R : BubbleOf(r, found[r]) \in Drawn'
      /\ FramesUp \subseteq FramesUp'
      /\ \A f \in FramesUp' : f \in FramesUp \/ f.action = "read"
      /\ \A r \in R : Answers(r, found[r]) =>
            [action |-> "read", chat |-> selected, id |-> r] \in FramesUp'
  BY <1>1, <1>5, DrawsSets
<1>8. (\A b \in Drawn' : b \in Drawn \/ b = nb) /\ nb \in Drawn' /\ e.row \in R
  BY <1>2, <1>4, <1>5, <1>7
<1>9. /\ AcksDown = {} /\ AcksDown' = {}
      /\ \A r : ~InAnswer(r) /\ ~InAnswer(r)' /\ (IsInbound(r)' <=> IsInbound(r))
      /\ \A r : ~Acknowledged(r) /\ ~Acknowledged(r)'
      /\ UNCHANGED Due
      /\ \A r : Announced("message", r)' => Announced("message", r)
  BY DEF AcksDown, InAnswer, IsInbound, Acknowledged, Due, Held, InChat, Stored, Announced
<1>10. /\ Announced("message", e.row) /\ ~Announced("message", e.row)'
       /\ \A r : Announced("message", r) => Announced("message", r)' \/ r = e.row
  <2>1. e \in Event
    BY DEF TypeOK
  <2>2. e = [kind |-> "message", row |-> e.row]
    BY <2>1 DEF Event
  <2>3. \A r : [kind |-> "message", row |-> r] = e => r = e.row
    <3> SUFFICES ASSUME NEW r, NEW d, d = [kind |-> "message", row |-> r], d = e
                 PROVE  r = e.row
      OBVIOUS
    <3>1. d.row = r
      OBVIOUS
    <3> QED
      BY <3>1
  <2> QED
    BY <2>2, <2>3 DEF Announced
<1>11. \A id : HasBubble(id)' <=> HasBubble(id) \/ id = e.row
  BY <1>6, <1>7, <1>8 DEF HasBubble
<1>12. OneFetch'
  BY DEF Settling, OneFetch
<1>13. OfSelected'
  <2>1. \A b \in Drawn' : b.id > 0 => rows[b.id].chat = selected
    BY <1>6, <1>8 DEF Settling, OfSelected
  <2>2. \A f \in FramesUp', b \in Drawn' : f.action = "send" /\ f.id = b.id => f.chat = selected
    <3> SUFFICES ASSUME NEW f \in FramesUp', NEW b \in Drawn', f.action = "send", f.id = b.id
                 PROVE  f.chat = selected
      OBVIOUS
    <3>1. f \in FramesUp /\ f.id < 0 /\ f.id \in Int
      BY <1>7, WireNumbers
    <3>2. e.row > 0 /\ e.row \in Int
      BY <1>1, WireNumbers
    <3>3. f.id # e.row
      BY <3>1, <3>2
    <3>4. b \in Drawn
      BY <1>6, <1>8, <3>3
    <3> QED
      BY <3>1, <3>4 DEF Settling, OfSelected
  <2> QED
    BY <1>9, <2>1, <2>2 DEF OfSelected
<1>13a. NoneDeleted'
  BY <1>9, <1>10, <1>11 DEF Settling, NoneDeleted
<1>14. Placed'
  <2>1. \A r \in Due : HasBubble(r) \/ Announced("message", r)
    BY <1>9 DEF Settling, Placed
  <2> QED
    BY <1>9, <1>10, <1>11, <2>1 DEF Placed
<1>15. /\ \A k \in DOMAIN view : k \in DOMAIN view' /\ view'[k] = view[k]
       /\ \A k \in DOMAIN view' \ DOMAIN view : \E q \in R : view'[k] = BubbleOf(q, found[q])
       /\ \A k, l \in DOMAIN view' \ DOMAIN view : view'[k].id = view'[l].id => k = l
  <2>1. TypeOK /\ selected \in Chats /\ Draws(found)
    BY <1>1, <1>5
  <2> QED
    BY <2>1, DrawsPlaces
<1>16. PlacedOnce'
  <2>1. \A r \in Due : Announced("message", r)' => ~HasBubble(r)'
    BY <1>9, <1>10, <1>11 DEF Settling, PlacedOnce
  <2>2. ASSUME NEW r \in Due, NEW i \in DOMAIN view', NEW j \in DOMAIN view', view'[i].id = r, view'[j].id = r
        PROVE  i = j
    <3>1. /\ \A k \in DOMAIN view : k \in DOMAIN view' /\ view'[k] = view[k]
          /\ \A k \in DOMAIN view' \ DOMAIN view : \E q \in R : view'[k] = BubbleOf(q, found[q])
          /\ \A k, l \in DOMAIN view' \ DOMAIN view : view'[k].id = view'[l].id => k = l
      BY <1>15
    <3>2. \A k \in DOMAIN view' \ DOMAIN view : view'[k].id = e.row
      BY <1>4, <1>5, <1>6, <3>1
    <3>3. \A k \in DOMAIN view : view[k].id # e.row \/ e.row \notin Due
      BY <1>10 DEF Settling, PlacedOnce, HasBubble, Drawn
    <3>4. CASE r = e.row
      <4>1. i \notin DOMAIN view /\ j \notin DOMAIN view
        BY <2>2, <3>1, <3>3, <3>4
      <4> QED
        BY <2>2, <3>1, <4>1
    <3>5. CASE r # e.row
      <4>1. i \in DOMAIN view /\ j \in DOMAIN view
        BY <2>2, <3>2, <3>5
      <4> QED
        BY <2>2, <3>1, <4>1 DEF Settling, PlacedOnce
    <3> QED
      BY <3>4, <3>5
  <2> QED
    BY <1>9, <2>1, <2>2 DEF PlacedOnce
<1>17. Current'
  <2> SUFFICES ASSUME NEW r \in Due, ~IsInbound(r)
               PROVE  /\ \A b \in Drawn' : b.id = r => Shows(r, b.tick, b.failed)'
                      /\ Announced("message", r)' => Shows(r, "", FALSE)'
    BY <1>9 DEF Current
  <2>1. /\ \A b \in Drawn : b.id = r => Shows(r, b.tick, b.failed)
        /\ Announced("message", r) => Shows(r, "", FALSE)
    BY DEF Settling, Current
  <2>2. \A tick, failed : Shows(r, tick, failed) => Shows(r, tick, failed)'
    BY ShowsWithout
  <2>3. \A b \in Drawn' : b.id = r => Shows(r, b.tick, b.failed)
    BY <1>6, <1>8, <1>10, <2>1
  <2> QED
    BY <1>9, <2>1, <2>2, <2>3
<1>18. ReadsDue'
  <2> SUFFICES ASSUME NEW b \in Drawn', b.id > 0, IsInbound(b.id), b.id \notin excused
               PROVE  rows[b.id].status = "read" \/ \E f \in FramesUp' : f.action = "read" /\ f.id = b.id
    BY <1>9 DEF ReadsDue
  <2>1. CASE b \in Drawn
    BY <1>7, <2>1 DEF Settling, ReadsDue
  <2>2. CASE b = nb
    <3>1. Answers(e.row, found[e.row])
      BY <1>1, <1>5, <1>6, <1>8, <2>2 DEF Answers
    <3>2. [action |-> "read", chat |-> selected, id |-> e.row] \in FramesUp'
      BY <1>7, <1>8, <3>1
    <3> QED
      BY <1>6, <2>2, <3>2
  <2> QED
    BY <1>8, <2>1, <2>2
<1> QED
  BY <1>12, <1>13, <1>13a, <1>14, <1>16, <1>17, <1>18 DEF Settling

LEMMA EventSettles ==
    ASSUME TypeOK, TypeOK', Fits, AuthorsFit, Clean => Settling, NEW e \in events, PageHandlesEvent(e),
           Clean'
    PROVE  Settling'
<1> USE DEF serverVars, deliveryVars, wireVars, socketVars, pageVars, otherVars, historyVars
<1> DEFINE raced == IF e.kind = "read" THEN OnTheirWay \cap {e.row} ELSE {}
<1>1. fetches = {} /\ excused' = excused \cup raced
  <2>1. Overlaps(raced)
    BY DEF PageHandlesEvent
  <2> HIDE DEF raced
  <2> QED
    BY <2>1, OverlapsNothing
<1>2. /\ UNCHANGED <<rows, gone, phase, selected, fetches, acks>> /\ acks = <<>>
      /\ events' = events \ {e} /\ Handles(e)
  BY DEF PageHandlesEvent
<1>3. Settling
  BY <1>1, CleanWas
<1>4. CASE e.kind = "message"
  <2>1. excused' = excused
    BY <1>1, <1>4
  <2>2. CASE rows[e.row].chat = selected
    <3>1. Draws([r \in {e.row} |-> "new"])
      BY <1>2, <1>4, <2>2 DEF Handles
    <3> QED
      BY <1>1, <1>2, <1>3, <1>4, <2>1, <2>2, <3>1, MessageSettles
  <2>3. CASE rows[e.row].chat # selected
    <3>1. UNCHANGED <<view, up>>
      BY <1>2, <1>4, <2>3 DEF Handles
    <3> QED
      BY <1>1, <1>2, <1>3, <1>4, <2>1, <2>3, <3>1, ElsewhereSettles
  <2> QED
    BY <2>2, <2>3
<1>5. CASE e.kind = "read"
  <2>1. view' = Ticked(FirstOf(e.row), "two") /\ UNCHANGED up /\ excused' = excused \cup (OnTheirWay \cap {e.row})
    BY <1>1, <1>2, <1>5 DEF Handles
  <2> QED
    BY <1>1, <1>2, <1>3, <1>5, <2>1, ReadSettles
<1>6. CASE e.kind = "delivered"
  <2>1. view' = TickedOnce(FirstOf(e.row)) /\ UNCHANGED up /\ excused' = excused
    BY <1>1, <1>2, <1>6 DEF Handles
  <2> QED
    BY <1>1, <1>2, <1>3, <1>6, <2>1, DeliverySettles
<1>7. CASE e.kind = "failed"
  <2>1. view' = Crossed(FirstOf(e.row)) /\ UNCHANGED up /\ excused' = excused
    BY <1>1, <1>2, <1>7 DEF Handles
  <2> QED
    BY <1>1, <1>2, <1>3, <1>7, <2>1, FailureSettles
<1> QED
  BY <1>2, <1>4, <1>5, <1>6, <1>7 DEF Handles

LEMMA PageSettles ==
    TypeOK /\ TypeOK' /\ Fits /\ AuthorsFit /\ MidsOnce /\ (Clean => Settling) /\ PageNext /\ Clean'
      => Settling'
<1> SUFFICES ASSUME TypeOK, TypeOK', Fits, AuthorsFit, MidsOnce, Clean => Settling, PageNext, Clean'
             PROVE  Settling'
  OBVIOUS
<1> USE DEF serverVars, deliveryVars, wireVars, socketVars, pageVars, otherVars, historyVars
<1>1. ASSUME NEW c \in Chats, Selects(c)
      PROVE  Settling'
  BY <1>1, SelectionSettles
<1>2. ASSUME NEW f \in fetches, FetchIsAnswered(f)
      PROVE  Settling'
  <2>1. Settling
    BY <1>2, CleanWas DEF FetchIsAnswered
  <2> QED
    BY <1>2, <2>1, AnswerSettles
<1>3. ASSUME NEW f \in fetches, FetchIsDrawn(f)
      PROVE  Settling'
  <2>1. Settling
    BY <1>3, CleanWas DEF FetchIsDrawn
  <2> QED
    BY <1>3, <2>1, DrawingSettles
<1>4. ASSUME NEW f \in fetches, FetchFails(f)
      PROVE  FALSE
  BY <1>4 DEF FetchFails, Fails, Clean
<1>5. CASE PageSends
  BY <1>5, SendingSettles
<1>6. ASSUME NEW e \in events, PageHandlesEvent(e)
      PROVE  Settling'
  BY <1>6, EventSettles
<1>7. CASE PageHandlesAck
  BY <1>7, AckSettles
<1> QED
  BY <1>1, <1>2, <1>3, <1>4, <1>5, <1>6, <1>7 DEF PageNext

LEMMA SettlingStep ==
    TypeOK /\ TypeOK' /\ Fits /\ VInv /\ [Next]_vars => (Clean' => Settling')
<1> SUFFICES ASSUME TypeOK, TypeOK', Fits, VInv, [Next]_vars, Clean'
             PROVE  Settling'
  OBVIOUS
<1>1. AuthorsFit /\ MidsOnce /\ ListedWhenOpen /\ (Clean => Settling)
  BY DEF VInv
<1>2. CASE ServerNext
  BY <1>1, <1>2, ServerSettles
<1>3. CASE SocketNext
  BY <1>1, <1>3, SocketSettles
<1>4. CASE PageNext
  BY <1>1, <1>4, PageSettles
<1>5. CASE UNCHANGED vars
  <2>1. UNCHANGED <<rows, phase, selected, view, fetches, excused, events, up, acks>>
    BY <1>5 DEF vars, serverVars, deliveryVars, wireVars, socketVars, pageVars, historyVars
  <2> QED
    BY <1>1, <2>1, QuietSettles
<1> QED
  BY <1>2, <1>3, <1>4, <1>5 DEF Next

LEMMA InitVInv == Init => VInv
<1> SUFFICES ASSUME Init
             PROVE  VInv
  OBVIOUS
<1>1. /\ DOMAIN rows = {} /\ DOMAIN view = {} /\ DOMAIN up = {} /\ DOMAIN acks = {}
      /\ gone = {} /\ events = {} /\ phase = "off" /\ excused = RowId
  BY DEF Init
<1>2. Drawn = {} /\ FramesUp = {} /\ AcksDown = {} /\ Stored = {}
  BY <1>1 DEF Drawn, FramesUp, AcksDown, Stored
<1>3. AuthorsFit /\ ListedWhenOpen /\ ~Clean
  BY <1>1, <1>2 DEF AuthorsFit, ListedWhenOpen, Clean
<1>4. MidsOnce
  BY <1>1, <1>2 DEF MidsOnce
<1> QED
  BY <1>3, <1>4 DEF VInv

LEMMA StepVInv == IInv /\ IInv' /\ VInv /\ [Next]_vars => VInv'
<1> SUFFICES ASSUME IInv, IInv', VInv, [Next]_vars
             PROVE  VInv'
  OBVIOUS
<1>1. TypeOK /\ TypeOK' /\ Fits
  BY DEF IInv
<1>2. AuthorsFit' /\ MidsOnce' /\ ListedWhenOpen'
  BY <1>1, AuthorsStep, MidsStep, ListedStep DEF VInv
<1>3. Clean' => Settling'
  BY <1>1, SettlingStep
<1> QED
  BY <1>2, <1>3 DEF VInv

LEMMA SettledView ==
    ASSUME TypeOK, Fits, AuthorsFit, Settling, Quiet, NEW r \in Held(selected) \ excused
    PROVE  /\ Cardinality(BubblesOf(r)) = 1
           /\ \A i \in BubblesOf(r) :
                 /\ view[i].tick = "two" <=> ~IsInbound(r) /\ rows[r].status = "read"
                 /\ rows[r].author # "colleague" =>
                       /\ view[i].tick = TickOf(r, rows[r].status)
                       /\ rows[r].status = "failed" => view[i].failed
           /\ IsInbound(r) => rows[r].status = "read"
<1>1. /\ r \in Due /\ r \in Stored /\ events = {} /\ fetches = {} /\ DOMAIN acks = {} /\ DOMAIN up = {}
  BY DEF Quiet, Due, Held, InChat
<1>2. HasBubble(r)
  <2>1. ~InAnswer(r) /\ ~Announced("message", r) /\ ~Acknowledged(r)
    BY <1>1 DEF InAnswer, Announced, Acknowledged, AcksDown
  <2> QED
    BY <1>1, <2>1 DEF Settling, Placed
<1>3. PICK i \in DOMAIN view : view[i].id = r
  BY <1>2 DEF HasBubble, Drawn
<1>4. BubblesOf(r) = {i}
  BY <1>1, <1>3 DEF Settling, PlacedOnce, BubblesOf
<1>5. Cardinality(BubblesOf(r)) = 1
  BY <1>4, FS_Singleton
<1>6. PICK b : b = view[i] /\ b \in Drawn /\ b.id = r
  BY <1>3 DEF Drawn
<1>7. IsInbound(r) => rows[r].status = "read"
  <2>1. r > 0 /\ FramesUp = {}
    BY <1>1, WireNumbers DEF FramesUp
  <2> QED
    BY <1>6, <2>1 DEF Settling, ReadsDue
<1>8. /\ b.tick = "two" <=> ~IsInbound(r) /\ rows[r].status = "read"
      /\ rows[r].author # "colleague" =>
            b.tick = TickOf(r, rows[r].status) /\ (rows[r].status = "failed" => b.failed)
  <2>1. CASE IsInbound(r)
    <3>1. b.tick = ""
      BY <1>1, <1>6, <2>1, WireNumbers DEF AuthorsFit
    <3>2. rows[r].status = "read"
      BY <1>7, <2>1
    <3> QED
      BY <2>1, <3>1, <3>2 DEF TickOf
  <2>2. CASE ~IsInbound(r)
    <3>1. Shows(r, b.tick, b.failed)
      BY <1>1, <1>6, <2>2 DEF Settling, Current
    <3>2. /\ rows[r].status = "read" => b.tick = "two"
          /\ rows[r].author # "colleague" =>
                /\ rows[r].status = "delivered" => b.tick = "one"
                /\ rows[r].status = "failed" => b.failed
      BY <1>1, <3>1 DEF Shows, Announced
    <3>3. /\ b.tick \in {"", "one", "two"} /\ (b.tick = "two" => rows[r].status = "read")
          /\ b.tick = "one" => rows[r].status \in {"delivered", "read"}
      <4>1. view[i].id \in Stored
        BY <1>1, <1>3
      <4>2. /\ view[i].tick \in {"", "one", "two"}
            /\ view[i].tick = "two" => rows[view[i].id].status = "read"
            /\ view[i].tick = "one" => rows[view[i].id].status \in {"delivered", "read"}
        BY <4>1, TicksFit
      <4> QED
        BY <1>3, <1>6, <4>2
    <3> QED
      BY <2>2, <3>2, <3>3 DEF TickOf
  <2> QED
    BY <2>1, <2>2
<1> QED
  BY <1>4, <1>5, <1>6, <1>7, <1>8

LEMMA SettledWhenQuiet == IInv /\ VInv => ViewSettles
<1> SUFFICES ASSUME IInv, VInv, Quiet
             PROVE  /\ \A i \in DOMAIN view :
                          /\ view[i].id > 0 => rows[view[i].id].chat = selected \/ excused = RowId
                          /\ view[i].id \notin gone \ excused
                    /\ \A r \in Held(selected) \ excused :
                          /\ Cardinality(BubblesOf(r)) = 1
                          /\ \A i \in BubblesOf(r) :
                                /\ view[i].tick = "two" <=> ~IsInbound(r) /\ rows[r].status = "read"
                                /\ rows[r].author # "colleague" =>
                                      /\ view[i].tick = TickOf(r, rows[r].status)
                                      /\ rows[r].status = "failed" => view[i].failed
                          /\ IsInbound(r) => rows[r].status = "read"
  BY DEF ViewSettles
<1>1. TypeOK /\ Fits /\ AuthorsFit /\ (Clean => Settling)
  BY DEF IInv, VInv
<1>2. CASE excused = RowId
  <2>1. Held(selected) \ excused = {} /\ gone \ excused = {}
    BY <1>1, <1>2, StoredRows DEF Held, InChat, TypeOK
  <2> QED
    BY <1>2, <2>1
<1>3. CASE Settling
  <2>1. \A i \in DOMAIN view : view[i].id > 0 => rows[view[i].id].chat = selected
    BY <1>3 DEF Settling, OfSelected, Drawn
  <2>2. \A i \in DOMAIN view : view[i].id \notin gone \ excused
    BY <1>3 DEF Settling, NoneDeleted, HasBubble, Drawn
  <2> QED
    BY <1>1, <1>3, <2>1, <2>2, SettledView
<1> QED
  BY <1>1, <1>2, <1>3 DEF Clean

(* When everything that was under way has arrived, the panel shows the     *)
(* chat selected while it was connected: each message that raced with      *)
(* nothing once, with the tick of its row, nothing of another chat, no     *)
(* echo that was deleted before, and the customer's messages are read. The *)
(* echoes an adoption deletes since and the messages whose receipt failed  *)
(* are excepted (operator.html: selectChat, sendMessage, handleEvent,      *)
(* appendMessage; operator_ws.rs: process_operator_message,                *)
(* mark_delivered, mark_undelivered; db.rs: adopt_external_message_id).    *)
THEOREM ViewSettled == Spec => []ViewSettles
<1>1. Spec => []VInv
  BY InitVInv, StepVInv, Invariance, PTL DEF Spec
<1> QED
  BY <1>1, SettledWhenQuiet, Invariance, PTL
=============================================================================
