------------------------ MODULE Conversations_proofs ------------------------
(***************************************************************************)
(* Proofs about Conversations, for every set of deliveries, replicas,      *)
(* senders and messages and every set of faults.                           *)
(***************************************************************************)
EXTENDS Conversations, TLAPS

(* A delivery that is past the resolution of its sender has a client.      *)
Resolved(t) ==
    \/ t.pc \in {"verify", "sender", "announce", "chat", "insertChat", "chatAgain"}
    \/ t.pc = "fill" /\ t.lookup # "resolve"

(* What a delivery holds in its hands is the sender's row and a chat of    *)
(* that client; and it stores a message without them only after a failure. *)
Consistent(t) ==
    /\ t.pc = "idle" => t.at = None /\ t.client = None /\ t.chat = None
    /\ t.client # None => t.client = IdOf(t.msg[1])
    /\ t.pc = "fill" => t.row.id = IdOf(t.msg[1])
    /\ Resolved(t) => t.client # None
    /\ t.chat # None =>
          /\ t.pc \in {"store", "done"}
          /\ t.client # None
          /\ [id |-> t.chat, client |-> t.client] \in chats
    /\ t.pc = "store" /\ None \in {t.client, t.chat} => t.msg \in failed

TasksConsistent == \A d \in Deliveries : Consistent(task[d])

(* A profile task belongs to a sender who has a row.                       *)
ProfilesHaveRows ==
    \A d \in Deliveries :
        profile[d].pc # "none" => task[d].pc # "idle" /\ clients[From(d)] # None

(* Every copy in a cache is of the row with that id.                       *)
CopiesHaveRows ==
    \A r \in Replicas, s \in Senders : cache[r][s] # None => cache[r][s].id = IdOf(s)

(* The unique index of chats.                                              *)
OneChat == \A c, e \in chats : c.client = e.client => c = e

(* A stored message names the sender's row, and a chat of that client; it  *)
(* lacks one of them only after a failure.                                 *)
Filed(m) ==
    stored[m] # None =>
        /\ stored[m].sender \in {None, IdOf(m[1])}
        /\ stored[m].chat # None =>
              IdOf(m[1]) # None /\ [id |-> stored[m].chat, client |-> IdOf(m[1])] \in chats
        /\ None \in {stored[m].chat, stored[m].sender} => m \in failed

StoredFiled == \A m \in Messages : Filed(m)

IInv ==
    /\ TypeOK
    /\ TasksConsistent
    /\ ProfilesHaveRows
    /\ CopiesHaveRows
    /\ OneChat
    /\ StoredFiled

-----------------------------------------------------------------------------
(* Types.                                                                  *)

LEMMA InitTypes == Init => TypeOK
  BY ConversationsAssumption
  DEF Init, TypeOK, Unborn, NoProfile, Task, Profile, Lookups

(* The part of the type invariant that is about one task.                  *)
TaskOK(t) ==
    /\ t \in Task
    /\ t.pc # "idle" => t.at \in Replicas /\ t.msg \in Messages
    /\ t.pc = "fill" => t.row \in Client
    /\ t.pc \in {"chat", "insertChat", "chatAgain"} => t.client # None

LEMMA TaskTypes ==
    ASSUME TypeOK, NEW d \in Deliveries
    PROVE  TaskOK(task[d]) /\ (task[d].pc # "idle" => From(d) \in Senders)
  BY DEF TypeOK, TaskOK, From, Messages

(* The part that is about everything else.                                 *)
DataOK ==
    /\ clients \in [Senders -> Client \cup {None}]
    /\ chats \subseteq Chat
    /\ stored \in [Messages -> Stored \cup {None}]
    /\ cache \in [Replicas -> [Senders -> Client \cup {None}]]
    /\ inbox \in [Replicas -> SUBSET Senders]
    /\ profile \in [Deliveries -> Profile]
    /\ failed \subseteq Messages
    /\ nameless \subseteq Senders
    /\ unannounced \subseteq Senders
    /\ late \subseteq Replicas \X Senders

LEMMA TypeSplit ==
    TypeOK <=> /\ DataOK
               /\ task \in [Deliveries -> Task]
               /\ \A d \in Deliveries : TaskOK(task[d])
  BY DEF TypeOK, DataOK, TaskOK

LEMMA ClientUpdated ==
    ASSUME TypeOK, NEW s \in Senders, NEW id \in Deliveries, NEW named \in BOOLEAN
    PROVE  /\ Upserted(s, id, named) \in [Senders -> Client \cup {None}]
           /\ Returned(s, id) \in Deliveries
  BY ConversationsAssumption DEF TypeOK, Upserted, Returned, Client

(* What a step of d leaves alone of the tasks.                             *)
Moved(d) ==
    /\ task' \in [Deliveries -> Task]
    /\ \A e \in Deliveries \ {d} : task'[e] = task[e]
    /\ task'[d].at = task[d].at
    /\ task'[d].msg = task[d].msg

(* Any edit of a task with fields of their types.                          *)
LEMMA TaskEdited ==
    ASSUME NEW t \in Task, NEW lookup \in Lookups, NEW row \in Client \cup {None},
           NEW client \in Deliveries \cup {None},
           NEW pc \in Lookups \cup {"idle", "fill", "insert", "announce", "chat",
                                    "insertChat", "chatAgain", "store", "done"}
    PROVE  /\ [t EXCEPT !.pc = pc] \in Task
           /\ [t EXCEPT !.pc = pc, !.client = client] \in Task
           /\ [t EXCEPT !.pc = pc, !.client = client, !.row = None] \in Task
           /\ [t EXCEPT !.pc = pc, !.lookup = lookup, !.row = row] \in Task
<1>1. [t EXCEPT !.pc = pc] \in Task
  BY DEF Task
<1>2. [t EXCEPT !.pc = pc, !.client = client] \in Task
  BY DEF Task
<1>3. [t EXCEPT !.pc = pc, !.client = client, !.row = None] \in Task
  BY DEF Task
<1>4. [t EXCEPT !.pc = pc, !.lookup = lookup, !.row = row] \in Task
  BY DEF Task
<1> QED
  BY <1>1, <1>2, <1>3, <1>4

LEMMA ChatEdited ==
    ASSUME NEW t \in Task, NEW chat \in Deliveries \cup {None},
           NEW pc \in {"store", "sender", "done"}
    PROVE  [t EXCEPT !.pc = pc, !.chat = chat] \in Task
  BY DEF Task, Lookups

LEMMA TaskReplaced ==
    ASSUME TypeOK, NEW d \in Deliveries, NEW t \in Task,
           t.at = task[d].at, t.msg = task[d].msg, task' = [task EXCEPT ![d] = t]
    PROVE  Moved(d) /\ task'[d] = t
  BY DEF Moved, TypeOK

LEMMA AnsweredMoves ==
    ASSUME TypeOK, NEW d \in Deliveries, NEW lookup \in Lookups, NEW row \in Client,
           Answered(d, lookup, row)
    PROVE  /\ Moved(d)
           /\ task'[d].row = None
           /\ task'[d].chat = task[d].chat
           /\ task'[d].pc = (IF lookup = "resolve" THEN "verify"
                             ELSE IF lookup = "verify" THEN "chat" ELSE "done")
           /\ task'[d].client = (IF lookup = "resolve" THEN row.id ELSE task[d].client)
           /\ profile' \in [Deliveries -> Profile]
           /\ \A e \in Deliveries : profile'[e] = profile[e] \/ (e = d /\ lookup = "resolve")
<1> USE DEF Lookups
<1>1. CASE lookup = "resolve"
  <2>1. task' = [task EXCEPT ![d].pc = "verify", ![d].client = row.id, ![d].row = None]
    BY <1>1 DEF Answered
  <2>2. row.id \in Deliveries
    BY DEF Client
  <2>3. Moved(d)
    <3> DEFINE t == [task[d] EXCEPT !.pc = "verify", !.client = row.id, !.row = None]
    <3>1. t \in Task /\ t.at = task[d].at /\ t.msg = task[d].msg
      <4>1. task[d] \in Task
        BY DEF TypeOK
      <4>2. t \in Task
        BY <4>1, <2>2, TaskEdited
      <4> QED
        BY <4>1, <4>2 DEF Task
    <3>2. task' = [task EXCEPT ![d] = t]
      BY <2>1 DEF TypeOK
    <3> HIDE DEF t
    <3> QED
      BY <3>1, <3>2, TaskReplaced
  <2>4. /\ task'[d].row = None /\ task'[d].chat = task[d].chat
        /\ task'[d].pc = "verify" /\ task'[d].client = row.id
    BY <2>1 DEF TypeOK, Task
  <2>5. PICK p \in Profile : profile' = [profile EXCEPT ![d] = p]
    BY <1>1 DEF Answered, Renewals, NoProfile, Profile
  <2>6. profile' \in [Deliveries -> Profile] /\ \A e \in Deliveries \ {d} : profile'[e] = profile[e]
    BY <2>5 DEF TypeOK
  <2> QED
    BY <1>1, <2>3, <2>4, <2>6
<1>2. CASE lookup # "resolve"
  <2> DEFINE pc == IF lookup = "verify" THEN "chat" ELSE "done"
  <2>1. task' = [task EXCEPT ![d].pc = pc, ![d].lookup = "resolve", ![d].row = None]
    BY <1>2 DEF Answered
  <2>2. Moved(d)
    <3> DEFINE t == [task[d] EXCEPT !.pc = pc, !.lookup = "resolve", !.row = None]
    <3>1. t \in Task /\ t.at = task[d].at /\ t.msg = task[d].msg
      <4>1. task[d] \in Task
        BY DEF TypeOK
      <4>2. pc \in {"chat", "done"}
        OBVIOUS
      <4>3. t \in Task
        BY <4>1, <4>2, TaskEdited
      <4> QED
        BY <4>1, <4>3 DEF Task
    <3>2. task' = [task EXCEPT ![d] = t]
      BY <2>1 DEF TypeOK
    <3> HIDE DEF t
    <3> QED
      BY <3>1, <3>2, TaskReplaced
  <2>3. /\ task'[d].row = None /\ task'[d].chat = task[d].chat
        /\ task'[d].pc = pc /\ task'[d].client = task[d].client
    BY <2>1 DEF TypeOK, Task
  <2>4. profile' = profile
    BY <1>2 DEF Answered
  <2> QED
    BY <1>2, <2>2, <2>3, <2>4 DEF TypeOK
<1> QED
  BY <1>1, <1>2

LEMMA GotoMoves ==
    ASSUME TypeOK, NEW d \in Deliveries,
           NEW pc \in Lookups \cup {"idle", "fill", "insert", "announce", "chat",
                                    "insertChat", "chatAgain", "store", "done"},
           Goto(d, pc)
    PROVE  /\ Moved(d)
           /\ task'[d] = [task[d] EXCEPT !.pc = pc]
<1> DEFINE t == [task[d] EXCEPT !.pc = pc]
<1>1. task[d] \in Task
  BY DEF TypeOK
<1>2. t \in Task /\ t.at = task[d].at /\ t.msg = task[d].msg
  <2>1. \A lookup \in Lookups, row \in Client \cup {None}, client \in Deliveries \cup {None} : t \in Task
    BY <1>1, TaskEdited
  <2>2. task[d].lookup \in Lookups /\ task[d].row \in Client \cup {None} /\ task[d].client \in Deliveries \cup {None}
    BY <1>1 DEF Task
  <2>3. t.at = task[d].at /\ t.msg = task[d].msg
    BY <1>1 DEF Task
  <2> QED
    BY <2>1, <2>2, <2>3
<1>3. task' = [task EXCEPT ![d] = t]
  BY DEF TypeOK, Goto
<1> HIDE DEF t
<1>4. Moved(d) /\ task'[d] = t
  BY <1>2, <1>3, TaskReplaced
<1> QED
  BY <1>4 DEF t

LEMMA UnresolvedMoves ==
    ASSUME TypeOK, NEW d \in Deliveries, Unresolved(d)
    PROVE  /\ Moved(d)
           /\ task'[d] = [task[d] EXCEPT !.pc = "store", !.client = None]
<1> DEFINE t == [task[d] EXCEPT !.pc = "store", !.client = None]
<1>1. task[d] \in Task
  BY DEF TypeOK
<1>2. t \in Task /\ t.at = task[d].at /\ t.msg = task[d].msg
  BY <1>1, TaskEdited DEF Task
<1>3. task' = [task EXCEPT ![d] = t]
  BY DEF TypeOK, Unresolved
<1> HIDE DEF t
<1>4. Moved(d) /\ task'[d] = t
  BY <1>2, <1>3, TaskReplaced
<1> QED
  BY <1>4 DEF t

-----------------------------------------------------------------------------
(* The step of one delivery.                                               *)

(* Rows keep their ids; chats and failures only grow.                      *)
Grows ==
    /\ \A s \in Senders : IdOf(s) # None => IdOf(s)' = IdOf(s)
    /\ chats \subseteq chats'
    /\ failed \subseteq failed'

LEMMA ConsistentStays ==
    ASSUME TypeOK, Grows, NEW t, TaskOK(t), t.pc # "idle", Consistent(t)
    PROVE  Consistent(t)'
<1>1. t.msg[1] \in Senders
  BY DEF TaskOK, Messages
<1>2. t.row # None /\ t.pc = "fill" => t.row.id # None
  BY ConversationsAssumption DEF TaskOK, Client
<1> QED
  BY <1>1, <1>2, ConversationsAssumption DEF Consistent, Grows, Resolved, TaskOK

LEMMA FiledStays ==
    ASSUME TypeOK, Grows, NEW m \in Messages, stored'[m] = stored[m], Filed(m)
    PROVE  Filed(m)'
<1>1. m[1] \in Senders
  BY DEF Messages
<1> QED
  BY <1>1, ConversationsAssumption DEF Filed, Grows

LEMMA RowsStay ==
    ASSUME TypeOK, DataOK', Grows, NEW s \in Senders, clients[s] # None
    PROVE  clients'[s] # None
<1>1. IdOf(s) # None
  BY ConversationsAssumption DEF IdOf, TypeOK, Client
<1> QED
  BY <1>1 DEF Grows, IdOf

(* What it takes for a step of one delivery to preserve the invariant.     *)
LEMMA StepPreserves ==
    ASSUME IInv, NEW d \in Deliveries,
           DataOK', Grows,
           task' \in [Deliveries -> Task],
           \A e \in Deliveries \ {d} : task'[e] = task[e] /\ profile'[e] = profile[e],
           TaskOK(task'[d]),
           task'[d].pc # "idle" => Consistent(task[d])',
           task'[d].pc = "idle" => task'[d] = task[d],
           profile'[d].pc # "none" => task'[d].pc # "idle" /\ (clients[From(d)] # None)',
           CopiesHaveRows', OneChat',
           \A m \in Messages : stored'[m] = stored[m] \/ Filed(m)'
    PROVE  IInv'
<1>1. TypeOK'
  <2>1. \A e \in Deliveries : TaskOK(task'[e])
    BY TypeSplit DEF IInv
  <2> QED
    BY <2>1, TypeSplit DEF DataOK, TaskOK, TypeOK
<1>2. TasksConsistent'
  <2> SUFFICES ASSUME NEW e \in Deliveries
               PROVE  Consistent(task[e])'
    BY DEF TasksConsistent
  <2>1. CASE task'[e].pc = "idle"
    <3>1. task'[e] = task[e]
      BY <2>1
    <3>2. Consistent(task[e]) /\ task[e].pc = "idle"
      BY <2>1, <3>1 DEF IInv, TasksConsistent
    <3> QED
      BY <2>1, <3>1, <3>2 DEF Consistent, Resolved
  <2>2. CASE task'[e].pc # "idle" /\ e # d
    <3>1. task'[e] = task[e]
      BY <2>2
    <3>2. TaskOK(task[e]) /\ Consistent(task[e]) /\ task[e].pc # "idle"
      BY <2>2, <3>1, TypeSplit DEF IInv, TasksConsistent
    <3> QED
      BY <3>1, <3>2, ConsistentStays DEF IInv
  <2> QED
    BY <2>1, <2>2
<1>3. ProfilesHaveRows'
  <2> SUFFICES ASSUME NEW e \in Deliveries, e # d, profile'[e].pc # "none"
               PROVE  (task[e].pc # "idle" /\ clients[From(e)] # None)'
    BY DEF ProfilesHaveRows
  <2>1. task'[e] = task[e] /\ profile'[e] = profile[e]
    OBVIOUS
  <2>2. task[e].pc # "idle" /\ clients[From(e)] # None
    BY <2>1 DEF IInv, ProfilesHaveRows
  <2>3. From(e) \in Senders /\ From(e)' = From(e)
    BY <2>1, <2>2, TaskTypes DEF From, IInv
  <2>4. clients'[From(e)] # None
    BY <2>2, <2>3, RowsStay DEF IInv
  <2> QED
    BY <2>1, <2>2, <2>3, <2>4
<1>4. StoredFiled'
  BY FiledStays DEF StoredFiled, IInv
<1> QED
  BY <1>1, <1>2, <1>3, <1>4 DEF IInv

(* Nothing but the tasks changes.                                          *)
LEMMA NothingGrows ==
    ASSUME IInv, UNCHANGED <<clients, chats, cache>>
    PROVE  /\ \A s : IdOf(s)' = IdOf(s)
           /\ CopiesHaveRows'
           /\ OneChat'
<1>1. \A s : IdOf(s)' = IdOf(s)
  BY DEF IdOf
<1> QED
  BY <1>1 DEF IInv, CopiesHaveRows, OneChat

(* A row a lookup may answer with.                                         *)
LEMMA CopyHasRow ==
    ASSUME IInv, NEW d \in Deliveries, task[d].pc \in Lookups, CopyFor(d) # None
    PROVE  /\ CopyFor(d) \in Client
           /\ From(d) \in Senders
           /\ CopyFor(d).id = IdOf(From(d))
<1>1. task[d].pc # "idle"
  BY DEF Lookups
<1>2. task[d].at \in Replicas /\ From(d) \in Senders
  BY <1>1, TaskTypes DEF IInv, TaskOK
<1>3. CopyFor(d) = cache[task[d].at][From(d)]
  BY DEF CopyFor
<1> QED
  BY <1>2, <1>3 DEF IInv, TypeOK, CopiesHaveRows

(* What an answered lookup leaves consistent.                              *)
LEMMA AnsweredPreserves ==
    ASSUME IInv, NEW d \in Deliveries, NEW lookup \in Lookups, NEW row \in Client,
           Answered(d, lookup, row),
           task[d].pc = lookup \/ (task[d].pc = "fill" /\ task[d].lookup = lookup),
           row.id = IdOf(From(d)),
           UNCHANGED <<clients, chats, stored, inbox, failed, nameless, unannounced>>,
           cache' \in [Replicas -> [Senders -> Client \cup {None}]],
           late' \subseteq Replicas \X Senders,
           CopiesHaveRows'
    PROVE  IInv'
<1>1. task[d].pc # "idle"
  BY DEF Lookups
<1>2. TaskOK(task[d]) /\ Consistent(task[d]) /\ From(d) \in Senders
  BY <1>1, TaskTypes DEF IInv, TasksConsistent
<1>3. /\ Moved(d)
      /\ task'[d].row = None
      /\ task'[d].chat = task[d].chat
      /\ task'[d].pc = (IF lookup = "resolve" THEN "verify"
                        ELSE IF lookup = "verify" THEN "chat" ELSE "done")
      /\ task'[d].client = (IF lookup = "resolve" THEN row.id ELSE task[d].client)
      /\ profile' \in [Deliveries -> Profile]
      /\ \A e \in Deliveries : profile'[e] = profile[e] \/ (e = d /\ lookup = "resolve")
  BY AnsweredMoves DEF IInv
<1>4. row.id # None /\ row.id \in Deliveries
  BY ConversationsAssumption DEF Client
<1>5. lookup # "resolve" => task[d].client # None
  BY <1>2 DEF Consistent, Resolved, Lookups
<1>6. TaskOK(task'[d])
  BY <1>2, <1>3, <1>4, <1>5, <1>1 DEF TaskOK, Moved
<1>7. Grows /\ OneChat'
  BY DEF Grows, IdOf, IInv, OneChat
<1>8. Consistent(task[d])'
  <2>1. task'[d].msg[1] = From(d) /\ IdOf(task[d].msg[1])' = IdOf(From(d))
    BY <1>3 DEF Moved, From, IdOf
  <2>2. task[d].client \in {None, IdOf(From(d))}
    BY <1>2 DEF Consistent, From
  <2>3. task'[d].chat = None
    BY <1>2, <1>3 DEF Consistent, Lookups
  <2> QED
    BY <1>3, <1>4, <1>5, <2>1, <2>2, <2>3 DEF Consistent, Resolved, Lookups
<1>9. DataOK'
  BY <1>3, TypeSplit DEF IInv, DataOK
<1>10. profile'[d].pc # "none" => task'[d].pc # "idle" /\ (clients[From(d)] # None)'
  <2>1. clients[From(d)] # None
    BY <1>4 DEF IdOf
  <2>2. From(d)' = From(d)
    BY <1>3 DEF Moved, From
  <2> QED
    BY <1>3, <2>1, <2>2
<1>11. \A e \in Deliveries \ {d} : task'[e] = task[e] /\ profile'[e] = profile[e]
  BY <1>3 DEF Moved
<1>12. task' \in [Deliveries -> Task] /\ task'[d].pc # "idle"
  BY <1>3 DEF Moved
<1> QED
  BY <1>6, <1>7, <1>8, <1>9, <1>10, <1>11, <1>12, StepPreserves

(* A step that touches neither the rows, the chats nor the caches.         *)
LEMMA FlowPreserves ==
    ASSUME IInv, NEW d \in Deliveries, Moved(d),
           UNCHANGED <<clients, chats, stored, cache, profile>>,
           DataOK', failed \subseteq failed',
           task[d].pc # "idle", task'[d].pc # "idle",
           TaskOK(task'[d]),
           task'[d].client \in {None, task[d].client},
           task'[d].chat # None =>
               /\ task'[d].pc \in {"store", "done"}
               /\ task'[d].client # None
               /\ [id |-> task'[d].chat, client |-> task'[d].client] \in chats,
           task'[d].pc = "fill" => task'[d].row.id = IdOf(From(d)),
           Resolved(task'[d]) => task'[d].client # None,
           task'[d].pc = "store" /\ None \in {task'[d].client, task'[d].chat} =>
               task[d].msg \in failed'
    PROVE  IInv'
<1>1. /\ \A s : IdOf(s)' = IdOf(s)
      /\ CopiesHaveRows' /\ OneChat'
  BY NothingGrows
<1>2. Grows
  BY <1>1 DEF Grows
<1>3. Consistent(task[d])'
  <2>1. Consistent(task[d])
    BY DEF IInv, TasksConsistent
  <2>2. task'[d].msg = task[d].msg /\ IdOf(task[d].msg[1])' = IdOf(From(d))
    BY <1>1 DEF Moved, From, IdOf
  <2>3. (Resolved(task[d]))' = Resolved(task'[d])
    BY DEF Resolved
  <2> QED
    BY <2>1, <2>2, <2>3 DEF Consistent, From
<1>4. profile'[d].pc # "none" => task'[d].pc # "idle" /\ (clients[From(d)] # None)'
  <2>1. profile[d].pc # "none" => clients[From(d)] # None
    BY DEF IInv, ProfilesHaveRows
  <2>2. From(d)' = From(d)
    BY DEF Moved, From
  <2> QED
    BY <2>1, <2>2
<1> QED
  BY <1>1, <1>2, <1>3, <1>4, StepPreserves DEF Moved

(* A step that only goes on.                                               *)
LEMMA GoOnPreserves ==
    ASSUME IInv, NEW d \in Deliveries,
           NEW pc \in {"insert", "verify", "insertChat", "chatAgain", "store", "done"},
           Goto(d, pc),
           UNCHANGED <<clients, chats, stored, cache, profile>>,
           DataOK', failed \subseteq failed',
           task[d].pc # "idle",
           pc \in {"verify", "insertChat", "chatAgain"} => task[d].client # None,
           pc = "store" => task[d].msg \in failed',
           pc \in {"store", "done"} \/ task[d].pc \notin {"store", "done"}
    PROVE  IInv'
<1>1. Moved(d) /\ task'[d] = [task[d] EXCEPT !.pc = pc]
  BY GotoMoves DEF IInv, Lookups
<1>2. TaskOK(task[d]) /\ Consistent(task[d]) /\ task[d] \in Task
  BY TypeSplit DEF IInv, TasksConsistent
<1>3. /\ task'[d].pc = pc
      /\ task'[d].client = task[d].client
      /\ task'[d].chat = task[d].chat
      /\ task'[d].at = task[d].at
      /\ task'[d].msg = task[d].msg
  BY <1>1, <1>2 DEF Task
<1>4. TaskOK(task'[d])
  BY <1>1, <1>2, <1>3 DEF TaskOK, Moved
<1>5. ~Resolved(task'[d]) \/ task'[d].client # None
  BY <1>3 DEF Resolved
<1>6. task'[d].chat # None =>
          /\ task'[d].pc \in {"store", "done"}
          /\ task'[d].client # None
          /\ [id |-> task'[d].chat, client |-> task'[d].client] \in chats
  BY <1>2, <1>3 DEF Consistent
<1> QED
  BY <1>1, <1>3, <1>4, <1>5, <1>6, FlowPreserves

(* A step that gives the sender up.                                        *)
LEMMA GiveUpPreserves ==
    ASSUME IInv, NEW d \in Deliveries, Unresolved(d),
           UNCHANGED <<clients, chats, stored, cache, profile>>,
           DataOK', failed \subseteq failed',
           task[d].pc \in {"resolve", "verify", "insert"},
           task[d].msg \in failed'
    PROVE  IInv'
<1>1. Moved(d) /\ task'[d] = [task[d] EXCEPT !.pc = "store", !.client = None]
  BY UnresolvedMoves DEF IInv
<1>2. TaskOK(task[d]) /\ Consistent(task[d]) /\ task[d] \in Task
  BY TypeSplit DEF IInv, TasksConsistent
<1>3. /\ task'[d].pc = "store"
      /\ task'[d].client = None
      /\ task'[d].chat = None
      /\ task'[d].at = task[d].at
      /\ task'[d].msg = task[d].msg
  BY <1>1, <1>2 DEF Task, Consistent
<1>4. TaskOK(task'[d]) /\ ~Resolved(task'[d])
  BY <1>1, <1>2, <1>3 DEF TaskOK, Moved, Resolved
<1> QED
  BY <1>1, <1>3, <1>4, FlowPreserves

(* Replacing sets of senders and messages keeps the types.                 *)
LEMMA DataStays ==
    ASSUME IInv, UNCHANGED <<clients, chats, stored, cache, profile>>,
           inbox' \in [Replicas -> SUBSET Senders], failed' \subseteq Messages,
           nameless' \subseteq Senders, unannounced' \subseteq Senders,
           late' \subseteq Replicas \X Senders
    PROVE  DataOK'
  BY TypeSplit DEF IInv, DataOK

-----------------------------------------------------------------------------
(* The steps of a delivery.                                                *)

LEMMA ArrivesPreserves ==
    ASSUME IInv, NEW d \in Deliveries, NEW r \in Replicas, NEW m \in Messages,
           Arrives(d, r, m)
    PROVE  IInv'
<1> DEFINE t == [Unborn EXCEPT !.pc = "resolve", !.at = r, !.msg = m]
<1>1. /\ t.pc = "resolve" /\ t.at = r /\ t.msg = m /\ t.lookup = "resolve"
      /\ t.row = None /\ t.client = None /\ t.chat = None
  BY DEF Unborn
<1>2. t \in Task /\ TaskOK(t)
  <2>1. t \in Task
    BY DEF Unborn, Task, Lookups
  <2> QED
    BY <1>1, <2>1 DEF TaskOK
<1>3. task' = [task EXCEPT ![d] = t] /\ task[d].pc = "idle"
  BY DEF Arrives, At
<1> HIDE DEF t
<1>4. /\ task' \in [Deliveries -> Task] /\ task'[d] = t
      /\ \A e \in Deliveries \ {d} : task'[e] = task[e]
  BY <1>2, <1>3 DEF IInv, TypeOK
<1>5. UNCHANGED <<clients, chats, stored, cache, inbox, profile, failed,
                  nameless, unannounced, late>>
  BY DEF Arrives
<1>6. DataOK' /\ Grows
  BY <1>5, TypeSplit DEF IInv, DataOK, Grows, IdOf
<1>7. Consistent(task[d])' /\ task'[d].pc # "idle"
  BY <1>1, <1>4 DEF Consistent, Resolved
<1>8. profile'[d].pc = "none"
  BY <1>3, <1>5 DEF IInv, ProfilesHaveRows
<1>9. CopiesHaveRows' /\ OneChat'
  BY <1>5, NothingGrows
<1> QED
  BY <1>2, <1>4, <1>5, <1>6, <1>7, <1>8, <1>9, StepPreserves

LEMMA HitsPreserves ==
    ASSUME IInv, NEW d \in Deliveries, Hits(d)
    PROVE  IInv'
<1>1. /\ CopyFor(d) \in Client
      /\ CopyFor(d).id = IdOf(From(d))
  BY CopyHasRow DEF Hits
<1>2. task[d].pc \in Lookups /\ Answered(d, task[d].pc, CopyFor(d))
  BY DEF Hits
<1>3. UNCHANGED <<clients, chats, stored, cache, inbox, failed,
                  nameless, unannounced, late>>
  BY DEF Hits
<1>4. /\ cache' \in [Replicas -> [Senders -> Client \cup {None}]]
      /\ late' \subseteq Replicas \X Senders
      /\ CopiesHaveRows'
  BY <1>3, NothingGrows DEF IInv, TypeOK
<1> QED
  BY <1>1, <1>2, <1>3, <1>4, AnsweredPreserves

LEMMA ReadsPreserves ==
    ASSUME IInv, NEW d \in Deliveries, Reads(d)
    PROVE  IInv'
<1>1. TaskOK(task[d]) /\ Consistent(task[d]) /\ task[d] \in Task
  BY TypeSplit DEF IInv, TasksConsistent
<1>2. task[d].pc \in Lookups /\ task[d].pc # "idle"
  BY DEF Reads, Lookups
<1>3. From(d) \in Senders
  BY <1>2, TaskTypes DEF IInv
<1>4. clients[From(d)] # None
  <2>1. CASE At(d, "resolve")
    BY <2>1 DEF Reads
  <2>2. CASE ~At(d, "resolve")
    <3>1. task[d].client # None
      BY <1>1, <1>2, <2>2 DEF Consistent, Resolved, Lookups, At
    <3> QED
      BY <1>1, <3>1 DEF Consistent, IdOf, From
  <2> QED
    BY <2>1, <2>2
<1>5. clients[From(d)] \in Client
  BY <1>3, <1>4 DEF IInv, TypeOK
<1> DEFINE t == [task[d] EXCEPT !.pc = "fill", !.lookup = task[d].pc,
                                !.row = clients[From(d)]]
<1>6. t \in Task
  BY <1>1, <1>2, <1>5, TaskEdited
<1>7. /\ t.pc = "fill" /\ t.lookup = task[d].pc /\ t.row = clients[From(d)]
      /\ t.client = task[d].client /\ t.chat = task[d].chat
      /\ t.at = task[d].at /\ t.msg = task[d].msg
  BY <1>1 DEF Task
<1>8. task' = [task EXCEPT ![d] = t]
  BY DEF Reads, IInv, TypeOK
<1> HIDE DEF t
<1>9. Moved(d) /\ task'[d] = t
  BY <1>6, <1>7, <1>8, TaskReplaced DEF IInv
<1>10. UNCHANGED <<clients, chats, stored, cache, inbox, profile, failed,
                   nameless, unannounced, late>>
  BY DEF Reads
<1>11. DataOK'
  BY <1>10, DataStays DEF IInv, TypeOK
<1>12. TaskOK(t)
  BY <1>1, <1>2, <1>5, <1>6, <1>7 DEF TaskOK
<1>13. t.chat = None /\ t.row.id = IdOf(From(d))
  BY <1>1, <1>2, <1>4, <1>7 DEF Consistent, Lookups, IdOf
<1>14. Resolved(t) => t.client # None
  BY <1>1, <1>2, <1>7 DEF Consistent, Resolved, Lookups
<1> QED
  BY <1>2, <1>7, <1>9, <1>10, <1>11, <1>12, <1>13, <1>14, FlowPreserves

LEMMA FillsPreserves ==
    ASSUME IInv, NEW d \in Deliveries, Fills(d)
    PROVE  IInv'
<1>1. TaskOK(task[d]) /\ Consistent(task[d]) /\ task[d] \in Task
  BY TypeSplit DEF IInv, TasksConsistent
<1>2. task[d].pc = "fill"
  BY DEF Fills, At
<1>3. /\ From(d) \in Senders /\ task[d].at \in Replicas
      /\ task[d].row \in Client /\ task[d].lookup \in Lookups
      /\ task[d].row.id = IdOf(From(d))
  BY <1>1, <1>2, TaskTypes DEF IInv, TaskOK, Consistent, From, Task
<1>4. UNCHANGED <<clients, chats, stored, inbox, failed, nameless, unannounced>>
  BY DEF Fills
<1>5. cache' = [cache EXCEPT ![task[d].at][From(d)] = task[d].row]
  BY DEF Fills
<1>6. cache' \in [Replicas -> [Senders -> Client \cup {None}]]
  BY <1>3, <1>5 DEF IInv, TypeOK
<1>7. late' \subseteq Replicas \X Senders
  BY <1>3 DEF Fills, IInv, TypeOK
<1>8. CopiesHaveRows'
  <2>1. \A s : IdOf(s)' = IdOf(s)
    BY <1>4 DEF IdOf
  <2> QED
    BY <1>3, <1>5, <2>1 DEF CopiesHaveRows, IInv, TypeOK
<1> QED
  BY <1>2, <1>3, <1>4, <1>6, <1>7, <1>8, AnsweredPreserves DEF Fills

LEMMA LookupFailsPreserves ==
    ASSUME IInv, NEW d \in Deliveries, LookupFails(d)
    PROVE  IInv'
<1>1. TaskOK(task[d]) /\ Consistent(task[d])
  BY TypeSplit DEF IInv, TasksConsistent
<1>2. task[d].pc \in Lookups /\ task[d].pc # "idle"
  BY DEF LookupFails, Lookups
<1>3. UNCHANGED <<clients, chats, stored, cache, inbox, profile,
                  nameless, unannounced, late>>
  BY DEF LookupFails
<1>4. failed' = failed \cup {task[d].msg}
  <2>1. ~(At(d, "verify") /\ ~Exists(task[d].client))
    <3> SUFFICES ASSUME At(d, "verify")
                 PROVE  Exists(task[d].client)
      OBVIOUS
    <3>1. task[d].client # None /\ task[d].client = IdOf(From(d))
      BY <1>1 DEF Consistent, Resolved, At, From
    <3>2. From(d) \in Senders
      BY <1>2, TaskTypes DEF IInv
    <3> QED
      BY <3>1, <3>2 DEF Exists, IdOf
  <2> QED
    BY <2>1 DEF LookupFails
<1>5. DataOK'
  BY <1>1, <1>2, <1>3, <1>4, DataStays DEF IInv, TypeOK, TaskOK
<1>6. CASE At(d, "sender")
  BY <1>2, <1>3, <1>4, <1>5, <1>6, GoOnPreserves DEF LookupFails, At
<1>7. CASE ~At(d, "sender")
  BY <1>2, <1>3, <1>4, <1>5, <1>7, GiveUpPreserves DEF LookupFails, At, Lookups
<1> QED
  BY <1>6, <1>7

LEMMA IsNewPreserves ==
    ASSUME IInv, NEW d \in Deliveries, IsNew(d)
    PROVE  IInv'
<1>1. DataOK'
  BY DataStays DEF IInv, TypeOK, IsNew
<1> QED
  BY <1>1, GoOnPreserves DEF IsNew, At

(* upsert_client, by whomever: a row that is there keeps its id.           *)
LEMMA UpsertGrows ==
    ASSUME IInv, NEW s \in Senders, NEW id \in Deliveries, NEW named \in BOOLEAN,
           clients' = Upserted(s, id, named), UNCHANGED <<chats, cache, failed>>
    PROVE  /\ clients' \in [Senders -> Client \cup {None}]
           /\ clients'[s] # None
           /\ IdOf(s)' = Returned(s, id)
           /\ Grows
           /\ CopiesHaveRows'
           /\ OneChat'
<1>1. clients' \in [Senders -> Client \cup {None}]
  BY ClientUpdated DEF IInv
<1>2. \A t \in Senders \ {s} : clients'[t] = clients[t]
  BY DEF Upserted, IInv, TypeOK
<1>3. clients'[s] \in Client /\ clients'[s].id = Returned(s, id)
  BY DEF Upserted, Returned, IInv, TypeOK, Client
<1>4. clients'[s] # None
  BY <1>3, ConversationsAssumption
<1>5. \A t \in Senders : IdOf(t) # None => IdOf(t)' = IdOf(t)
  BY <1>2, <1>3, <1>4 DEF IdOf, Returned
<1>6. Grows
  BY <1>5 DEF Grows
<1>7. CopiesHaveRows'
  <2> SUFFICES ASSUME NEW r \in Replicas, NEW t \in Senders, cache[r][t] # None
               PROVE  cache[r][t].id = IdOf(t)'
    BY DEF CopiesHaveRows
  <2>1. cache[r][t] \in Client /\ cache[r][t].id = IdOf(t)
    BY DEF IInv, TypeOK, CopiesHaveRows
  <2>2. IdOf(t) # None
    BY <2>1, ConversationsAssumption DEF Client
  <2> QED
    BY <1>5, <2>1, <2>2
<1>8. OneChat'
  BY DEF OneChat, IInv
<1> QED
  BY <1>1, <1>3, <1>4, <1>6, <1>7, <1>8 DEF IdOf

(* The insert of a new sender, for either provider.                        *)
LEMMA InsertPreserves ==
    ASSUME IInv, NEW d \in Deliveries, At(d, "insert"),
           NEW named \in BOOLEAN, clients' = Upserted(From(d), d, named),
           NEW pc \in {"verify", "announce"},
           task' = [task EXCEPT ![d].pc = pc, ![d].client = Returned(From(d), d)],
           profile' \in [Deliveries -> Profile],
           \A e \in Deliveries \ {d} : profile'[e] = profile[e],
           UNCHANGED <<chats, stored, cache, inbox, failed, nameless, unannounced, late>>
    PROVE  IInv'
<1>1. task[d].pc = "insert" /\ TaskOK(task[d]) /\ Consistent(task[d]) /\ task[d] \in Task
  BY TypeSplit DEF At, IInv, TasksConsistent
<1>2. From(d) \in Senders
  BY <1>1, TaskTypes DEF IInv
<1>3. /\ clients' \in [Senders -> Client \cup {None}]
      /\ clients'[From(d)] # None
      /\ IdOf(task[d].msg[1])' = Returned(From(d), d)
      /\ Grows /\ CopiesHaveRows' /\ OneChat'
  <2> DEFINE s == From(d)
  <2>1. task'[d].msg[1] = s
    BY <1>1 DEF From, IInv, TypeOK, Task
  <2>2. /\ clients' \in [Senders -> Client \cup {None}]
        /\ clients'[s] # None
        /\ Grows /\ CopiesHaveRows' /\ OneChat'
    BY <1>2, UpsertGrows
  <2>3. clients'[s].id = Returned(s, d)
    BY <1>2 DEF Upserted, Returned, IInv, TypeOK, Client
  <2> QED
    BY <2>1, <2>2, <2>3 DEF IdOf
<1> DEFINE t == [task[d] EXCEPT !.pc = pc, !.client = Returned(From(d), d)]
<1>4. Returned(From(d), d) \in Deliveries
  BY <1>2, ClientUpdated DEF IInv
<1>5. t \in Task
  BY <1>1, <1>4, TaskEdited DEF Lookups
<1>6. /\ t.pc = pc /\ t.client = Returned(From(d), d) /\ t.chat = None
      /\ t.at = task[d].at /\ t.msg = task[d].msg
  BY <1>1 DEF Task, Consistent
<1>7. task' = [task EXCEPT ![d] = t]
  BY DEF IInv, TypeOK
<1> HIDE DEF t
<1>8. Moved(d) /\ task'[d] = t
  BY <1>5, <1>6, <1>7, TaskReplaced DEF IInv
<1>9. TaskOK(t)
  BY <1>1, <1>5, <1>6 DEF TaskOK
<1>10. Returned(From(d), d) # None
  BY <1>4, ConversationsAssumption
<1>11. Consistent(task[d])'
  BY <1>3, <1>6, <1>8, <1>10 DEF Consistent, Resolved
<1>12. DataOK'
  BY <1>3, TypeSplit DEF IInv, DataOK
<1>13. (clients[From(d)] # None)'
  BY <1>3, <1>6, <1>8 DEF From
<1>14. task' \in [Deliveries -> Task] /\ \A e \in Deliveries \ {d} : task'[e] = task[e]
  BY <1>8 DEF Moved
<1> QED
  BY <1>3, <1>6, <1>8, <1>9, <1>11, <1>12, <1>13, <1>14, StepPreserves

LEMMA InsertsPreserve ==
    ASSUME IInv, NEW d \in Deliveries, InsertsInstagram(d) \/ InsertsTelegram(d)
    PROVE  IInv'
<1>1. CASE InsertsInstagram(d)
  <2>1. /\ profile' \in [Deliveries -> Profile]
        /\ \A e \in Deliveries \ {d} : profile'[e] = profile[e]
    <3> DEFINE p == IF AsksForName(d) THEN [pc |-> "fetch", named |-> FALSE] ELSE NoProfile
    <3>1. p \in Profile
      BY DEF NoProfile, Profile
    <3>2. profile' = [profile EXCEPT ![d] = p]
      BY <1>1 DEF InsertsInstagram
    <3> HIDE DEF p
    <3> QED
      BY <3>1, <3>2 DEF IInv, TypeOK
  <2> QED
    BY <1>1, <2>1, InsertPreserves DEF InsertsInstagram
<1>2. CASE InsertsTelegram(d)
  BY <1>2, InsertPreserves DEF InsertsTelegram, IInv, TypeOK
<1> QED
  BY <1>1, <1>2

LEMMA InsertEndsPreserve ==
    ASSUME IInv, NEW d \in Deliveries,
           InsertAnnounced(d) \/ InsertUnannounced(d) \/ InsertFails(d)
    PROVE  IInv'
<1>1. TaskOK(task[d]) /\ Consistent(task[d]) /\ (task[d].pc # "idle" => From(d) \in Senders)
  BY TaskTypes DEF IInv, TasksConsistent
<1>2. CASE InsertAnnounced(d)
  <2>1. inbox' \in [Replicas -> SUBSET Senders]
    BY <1>1, <1>2 DEF InsertAnnounced, Announce, At, IInv, TypeOK
  <2>2. DataOK'
    BY <1>2, <2>1, DataStays DEF InsertAnnounced, IInv, TypeOK
  <2> QED
    BY <1>1, <1>2, <2>2, GoOnPreserves DEF InsertAnnounced, At, Consistent, Resolved
<1>3. CASE InsertUnannounced(d)
  <2>1. DataOK'
    BY <1>1, <1>3, DataStays DEF InsertUnannounced, At, IInv, TypeOK
  <2> QED
    BY <1>1, <1>3, <2>1, GoOnPreserves DEF InsertUnannounced, At, Consistent, Resolved
<1>4. CASE InsertFails(d)
  <2>1. DataOK'
    BY <1>1, <1>4, DataStays DEF InsertFails, At, TaskOK, IInv, TypeOK
  <2> QED
    BY <1>4, <2>1, GiveUpPreserves DEF InsertFails, At
<1> QED
  BY <1>2, <1>3, <1>4

LEMMA FindsChatPreserves ==
    ASSUME IInv, NEW d \in Deliveries, FindsChat(d)
    PROVE  IInv'
<1>1. TaskOK(task[d]) /\ Consistent(task[d]) /\ task[d] \in Task
  BY TypeSplit DEF IInv, TasksConsistent
<1>2. task[d].pc \in {"chat", "chatAgain"} /\ task[d].client # None
  BY <1>1 DEF FindsChat, Consistent, Resolved
<1>3. PICK c \in ChatsOf(task[d].client) :
         task' = [task EXCEPT ![d].pc = "store", ![d].chat = c.id]
  BY DEF FindsChat
<1>4. c \in chats /\ c \in Chat /\ c.client = task[d].client
  BY <1>3 DEF ChatsOf, IInv, TypeOK
<1>5. c.id \in Deliveries /\ c = [id |-> c.id, client |-> task[d].client]
  BY <1>4 DEF Chat
<1> DEFINE t == [task[d] EXCEPT !.pc = "store", !.chat = c.id]
<1>6. t \in Task
  BY <1>1, <1>5, ChatEdited
<1>7. /\ t.pc = "store" /\ t.client = task[d].client /\ t.chat = c.id
      /\ t.at = task[d].at /\ t.msg = task[d].msg
  BY <1>1 DEF Task
<1>8. task' = [task EXCEPT ![d] = t]
  BY <1>3 DEF IInv, TypeOK
<1> HIDE DEF t
<1>9. Moved(d) /\ task'[d] = t
  BY <1>6, <1>7, <1>8, TaskReplaced DEF IInv
<1>10. TaskOK(t)
  BY <1>1, <1>2, <1>6, <1>7 DEF TaskOK
<1>11. UNCHANGED <<clients, chats, stored, cache, inbox, profile, failed,
                   nameless, unannounced, late>>
  BY DEF FindsChat
<1>12. DataOK'
  BY <1>11, DataStays DEF IInv, TypeOK
<1>13. t.chat # None /\ t.client # None /\ [id |-> t.chat, client |-> t.client] \in chats
  BY <1>2, <1>4, <1>5, <1>7, ConversationsAssumption
<1> QED
  BY <1>2, <1>7, <1>9, <1>10, <1>11, <1>12, <1>13, FlowPreserves

LEMMA CreatesChatPreserves ==
    ASSUME IInv, NEW d \in Deliveries, CreatesChat(d)
    PROVE  IInv'
<1>1. TaskOK(task[d]) /\ Consistent(task[d]) /\ task[d] \in Task
  BY TypeSplit DEF IInv, TasksConsistent
<1>2. task[d].pc = "insertChat" /\ task[d].client # None /\ task[d].client \in Deliveries
  BY <1>1 DEF CreatesChat, At, Consistent, Resolved, Task
<1> DEFINE c == [id |-> d, client |-> task[d].client]
           t == [task[d] EXCEPT !.pc = "store", !.chat = d]
<1>3. chats' = chats \cup {c} /\ c \in Chat /\ c.client = task[d].client
  BY <1>2 DEF CreatesChat, Chat
<1>4. t \in Task
  BY <1>1, ChatEdited
<1>5. /\ t.pc = "store" /\ t.client = task[d].client /\ t.chat = d
      /\ t.at = task[d].at /\ t.msg = task[d].msg
  BY <1>1 DEF Task
<1>6. task' = [task EXCEPT ![d] = t]
  BY DEF CreatesChat, IInv, TypeOK
<1>7. c = [id |-> t.chat, client |-> t.client]
  BY <1>5
<1> HIDE DEF c, t
<1>8. Moved(d) /\ task'[d] = t
  BY <1>4, <1>5, <1>6, TaskReplaced DEF IInv
<1>9. TaskOK(t)
  BY <1>1, <1>2, <1>4, <1>5 DEF TaskOK
<1>10. UNCHANGED <<clients, stored, cache, inbox, profile, failed,
                   nameless, unannounced, late>>
  BY DEF CreatesChat
<1>11. DataOK' /\ Grows
  BY <1>3, <1>10, TypeSplit DEF IInv, DataOK, Grows, IdOf
<1>12. OneChat'
  BY <1>3 DEF CreatesChat, ActiveChatConflicts, ChatsOf, OneChat, IInv
<1>13. CopiesHaveRows'
  BY <1>10 DEF IInv, CopiesHaveRows, IdOf
<1>14. Consistent(task[d])'
  <2>1. IdOf(task[d].msg[1])' = IdOf(From(d))
    BY <1>5, <1>8, <1>10 DEF IdOf, From
  <2>2. t.client = IdOf(From(d)) /\ t.client # None /\ t.chat # None
    BY <1>1, <1>2, <1>5, ConversationsAssumption DEF Consistent, From
  <2>3. c \in chats'
    BY <1>3
  <2> QED
    BY <1>5, <1>7, <1>8, <2>1, <2>2, <2>3 DEF Consistent, Resolved
<1>15. profile'[d].pc # "none" => task'[d].pc # "idle" /\ (clients[From(d)] # None)'
  <2>1. profile[d].pc # "none" => clients[From(d)] # None
    BY DEF IInv, ProfilesHaveRows
  <2> QED
    BY <1>5, <1>8, <1>10, <2>1 DEF From
<1> QED
  BY <1>5, <1>8, <1>9, <1>10, <1>11, <1>12, <1>13, <1>14, <1>15, StepPreserves DEF Moved

LEMMA ChatStepsPreserve ==
    ASSUME IInv, NEW d \in Deliveries, HasNoChat(d) \/ LosesChatRace(d) \/ ChatFails(d)
    PROVE  IInv'
<1>1. TaskOK(task[d]) /\ Consistent(task[d])
  BY TypeSplit DEF IInv, TasksConsistent
<1>2. CASE HasNoChat(d)
  <2>1. DataOK'
    BY <1>2, DataStays DEF HasNoChat, IInv, TypeOK
  <2> QED
    BY <1>1, <1>2, <2>1, GoOnPreserves DEF HasNoChat, At, Consistent, Resolved
<1>3. CASE LosesChatRace(d)
  <2>1. DataOK'
    BY <1>3, DataStays DEF LosesChatRace, IInv, TypeOK
  <2> QED
    BY <1>1, <1>3, <2>1, GoOnPreserves
    DEF LosesChatRace, ChatIsTaken, At, Consistent, Resolved
<1>4. CASE ChatFails(d)
  <2>1. DataOK'
    BY <1>1, <1>4, DataStays DEF ChatFails, TaskOK, IInv, TypeOK
  <2> QED
    BY <1>4, <2>1, GoOnPreserves DEF ChatFails
<1> QED
  BY <1>2, <1>3, <1>4

LEMMA StoresPreserves ==
    ASSUME IInv, NEW d \in Deliveries, Stores(d)
    PROVE  IInv'
<1>1. TaskOK(task[d]) /\ Consistent(task[d]) /\ task[d] \in Task
  BY TypeSplit DEF IInv, TasksConsistent
<1>2. task[d].pc = "store" /\ task[d].msg \in Messages
  BY <1>1 DEF Stores, At, TaskOK
<1> DEFINE m == task[d].msg
           row == [sender |-> task[d].client, chat |-> task[d].chat]
           pc == IF task[d].client = None THEN "done" ELSE "sender"
           t == [task[d] EXCEPT !.pc = pc, !.chat = None]
<1>3. row \in Stored /\ row.sender = task[d].client /\ row.chat = task[d].chat
  BY <1>1 DEF Stored, Task
<1>4. t \in Task
  <2>1. pc \in {"store", "sender", "done"}
    OBVIOUS
  <2> HIDE DEF pc
  <2> QED
    BY <1>1, <2>1, ChatEdited
<1>5. /\ t.pc = pc /\ t.client = task[d].client /\ t.chat = None
      /\ t.at = task[d].at /\ t.msg = task[d].msg
  BY <1>1 DEF Task
<1>6. task' = [task EXCEPT ![d] = t]
  BY DEF Stores, IInv, TypeOK
<1>7. stored' = [stored EXCEPT ![m] = row]
  BY DEF Stores
<1> HIDE DEF row, t
<1>8. Moved(d) /\ task'[d] = t
  BY <1>4, <1>5, <1>6, TaskReplaced DEF IInv
<1>9. TaskOK(t)
  BY <1>1, <1>2, <1>4, <1>5 DEF TaskOK
<1>10. UNCHANGED <<clients, chats, cache, inbox, profile, failed,
                   nameless, unannounced, late>>
  BY DEF Stores
<1>11. DataOK' /\ Grows
  BY <1>2, <1>3, <1>7, <1>10, TypeSplit DEF IInv, DataOK, Grows, IdOf
<1>12. CopiesHaveRows' /\ OneChat'
  BY <1>10, NothingGrows
<1>13. Consistent(task[d])'
  <2>1. IdOf(task[d].msg[1])' = IdOf(From(d))
    BY <1>5, <1>8, <1>10 DEF IdOf, From
  <2> QED
    BY <1>1, <1>5, <1>8, <2>1 DEF Consistent, Resolved, From
<1>14. \A n \in Messages : stored'[n] = stored[n] \/ Filed(n)'
  <2> SUFFICES ASSUME NEW n \in Messages, stored'[n] # stored[n]
               PROVE  Filed(n)'
    OBVIOUS
  <2>1. n = m /\ stored'[n] = row
    BY <1>2, <1>7 DEF IInv, TypeOK
  <2>2. n[1] = From(d) /\ IdOf(n[1])' = IdOf(From(d))
    BY <1>10, <2>1 DEF From, IdOf
  <2>3. task[d].client \in {None, IdOf(From(d))}
    BY <1>1 DEF Consistent, From
  <2>4. None \in {task[d].client, task[d].chat} => m \in failed
    BY <1>1, <1>2 DEF Consistent
  <2>5. task[d].chat # None =>
            /\ task[d].client = IdOf(From(d)) /\ IdOf(From(d)) # None
            /\ [id |-> task[d].chat, client |-> IdOf(From(d))] \in chats
    BY <1>1 DEF Consistent, From
  <2> QED
    BY <1>3, <1>10, <2>1, <2>2, <2>3, <2>4, <2>5 DEF Filed
<1>15. profile'[d].pc # "none" => task'[d].pc # "idle" /\ (clients[From(d)] # None)'
  <2>1. profile[d].pc # "none" => clients[From(d)] # None
    BY DEF IInv, ProfilesHaveRows
  <2> QED
    BY <1>5, <1>8, <1>10, <2>1 DEF From
<1> QED
  BY <1>5, <1>8, <1>9, <1>10, <1>11, <1>12, <1>13, <1>14, <1>15, StepPreserves DEF Moved

LEMMA StoreEndsPreserve ==
    ASSUME IInv, NEW d \in Deliveries, SkipsDuplicate(d) \/ StoreFails(d)
    PROVE  IInv'
<1>1. TaskOK(task[d]) /\ task[d].pc = "store"
  BY TypeSplit DEF IInv, SkipsDuplicate, StoreFails, At
<1>2. CASE SkipsDuplicate(d)
  <2>1. DataOK'
    BY <1>2, DataStays DEF SkipsDuplicate, IInv, TypeOK
  <2> QED
    BY <1>1, <1>2, <2>1, GoOnPreserves DEF SkipsDuplicate
<1>3. CASE StoreFails(d)
  <2>1. DataOK'
    BY <1>1, <1>3, DataStays DEF StoreFails, TaskOK, IInv, TypeOK
  <2> QED
    BY <1>1, <1>3, <2>1, GoOnPreserves DEF StoreFails
<1> QED
  BY <1>2, <1>3

-----------------------------------------------------------------------------
(* The profile tasks, the listeners and the crashes.                       *)

(* A profile task: it changes no task, chat or message.                    *)
LEMMA ProfilePreserves ==
    ASSUME IInv, NEW d \in Deliveries, profile[d].pc # "none",
           NEW p \in Profile, profile' = [profile EXCEPT ![d] = p],
           UNCHANGED <<chats, stored, cache, task, failed, late>>,
           clients' \in [Senders -> Client \cup {None}],
           inbox' \in [Replicas -> SUBSET Senders],
           nameless' \subseteq nameless \cup {From(d)},
           unannounced' \subseteq unannounced \cup {From(d)},
           \A s \in Senders : IdOf(s)' = IdOf(s)
    PROVE  IInv'
<1>1. /\ task[d].pc # "idle" /\ clients[From(d)] # None
      /\ From(d) \in Senders /\ TaskOK(task[d]) /\ Consistent(task[d])
  BY TaskTypes DEF IInv, ProfilesHaveRows, TasksConsistent
<1>2. Grows
  BY DEF Grows
<1>3. profile' \in [Deliveries -> Profile] /\ \A e \in Deliveries \ {d} : profile'[e] = profile[e]
  BY DEF IInv, TypeOK
<1>4. DataOK'
  BY <1>1, <1>3, TypeSplit DEF IInv, DataOK
<1>5. CopiesHaveRows' /\ OneChat'
  BY DEF IInv, CopiesHaveRows, OneChat
<1>6. Consistent(task[d])'
  <2>1. task'[d] = task[d]
    OBVIOUS
  <2> QED
    BY <1>1, <1>2, <2>1, ConsistentStays DEF IInv
<1>7. (clients[From(d)] # None)'
  <2>1. clients'[From(d)] # None
    BY <1>1, <1>2, <1>4, RowsStay DEF IInv
  <2> QED
    BY <2>1 DEF From
<1> QED
  BY <1>1, <1>2, <1>3, <1>4, <1>5, <1>6, <1>7, StepPreserves DEF IInv, TypeOK

(* The row is there, so its id stays, whichever id the task offers.        *)
LEMMA ProfileIsWrittenPreserves ==
    ASSUME IInv, NEW d \in Deliveries, ProfileIsWritten(d)
    PROVE  IInv'
<1>1. /\ profile[d].pc = "write" /\ profile[d] \in Profile
      /\ clients[From(d)] # None /\ From(d) \in Senders
  BY TaskTypes DEF ProfileIsWritten, IInv, TypeOK, ProfilesHaveRows
<1> DEFINE s == From(d)
           row == [clients[s] EXCEPT !.named = profile[d].named]
           p == [profile[d] EXCEPT !.pc = "announce"]
<1>2. row \in Client /\ row.id = clients[s].id
  <2>1. clients[s] \in Client /\ profile[d].named \in BOOLEAN
    BY <1>1 DEF IInv, TypeOK, Profile
  <2> QED
    BY <2>1 DEF Client
<1>3. clients' = [clients EXCEPT ![s] = row]
  BY <1>1 DEF ProfileIsWritten, Upserted, IInv, TypeOK
<1>4. p \in Profile
  BY <1>1 DEF Profile
<1>5. profile' = [profile EXCEPT ![d] = p]
  BY DEF ProfileIsWritten, IInv, TypeOK
<1>6. s \in Senders /\ row # None
  BY <1>1, <1>2, ConversationsAssumption
<1> HIDE DEF s, row, p
<1>7. clients' \in [Senders -> Client \cup {None}]
  BY <1>2, <1>3 DEF IInv, TypeOK
<1>8. \A u \in Senders : IdOf(u)' = IdOf(u)
  BY <1>1, <1>2, <1>3, <1>6 DEF IdOf, IInv, TypeOK, s
<1> QED
  BY <1>1, <1>4, <1>5, <1>7, <1>8, ProfilePreserves DEF ProfileIsWritten, IInv, TypeOK

LEMMA ProfileStepsPreserve ==
    ASSUME IInv, NEW d \in Deliveries,
           \/ ProfileAnswers(d) \/ ProfileFails(d) \/ ProfileWriteFails(d)
           \/ ProfileIsAnnounced(d) \/ ProfileIsUnannounced(d)
    PROVE  IInv'
<1>1. profile[d].pc # "none" /\ From(d) \in Senders
  BY TaskTypes DEF ProfileAnswers, ProfileFails, ProfileWriteFails, ProfileIsAnnounced,
                   ProfileIsUnannounced, IInv, ProfilesHaveRows
<1>2. PICK p \in Profile : profile' = [profile EXCEPT ![d] = p]
  BY DEF ProfileAnswers, ProfileFails, ProfileWriteFails, ProfileIsAnnounced,
         ProfileIsUnannounced, NoProfile, Profile
<1>3. UNCHANGED <<clients, chats, stored, cache, task, failed, late>>
  BY DEF ProfileAnswers, ProfileFails, ProfileWriteFails, ProfileIsAnnounced,
         ProfileIsUnannounced
<1>4. \A s \in Senders : IdOf(s)' = IdOf(s)
  BY <1>3 DEF IdOf
<1>5. inbox' \in [Replicas -> SUBSET Senders]
  BY <1>1 DEF ProfileAnswers, ProfileFails, ProfileWriteFails, ProfileIsAnnounced,
              ProfileIsUnannounced, Announce, IInv, TypeOK
<1>6. /\ nameless' \subseteq nameless \cup {From(d)}
      /\ unannounced' \subseteq unannounced \cup {From(d)}
  BY DEF ProfileAnswers, ProfileFails, ProfileWriteFails, ProfileIsAnnounced,
         ProfileIsUnannounced
<1> QED
  BY <1>1, <1>2, <1>3, <1>4, <1>5, <1>6, ProfilePreserves DEF IInv, TypeOK

LEMMA EvictsPreserves ==
    ASSUME IInv, NEW r \in Replicas, NEW s \in Senders, Evicts(r, s)
    PROVE  IInv'
<1>1. UNCHANGED <<clients, chats, stored, task, profile, failed, nameless, unannounced>>
  BY DEF Evicts
<1>2. cache' \in [Replicas -> [Senders -> Client \cup {None}]]
  BY DEF Evicts, IInv, TypeOK
<1>3. \A q \in Replicas, u \in Senders : cache'[q][u] \in {None, cache[q][u]}
  BY DEF Evicts, IInv, TypeOK
<1>4. inbox' \in [Replicas -> SUBSET Senders] /\ late' \subseteq Replicas \X Senders
  BY DEF Evicts, IInv, TypeOK
<1>5. TypeOK'
  BY <1>1, <1>2, <1>4 DEF IInv, TypeOK
<1>6. CopiesHaveRows'
  BY <1>1, <1>3 DEF IInv, CopiesHaveRows, IdOf
<1>7. TasksConsistent' /\ ProfilesHaveRows' /\ OneChat' /\ StoredFiled'
  BY <1>1 DEF IInv, TasksConsistent, Consistent, Resolved, ProfilesHaveRows, From,
              OneChat, StoredFiled, Filed, IdOf
<1> QED
  BY <1>5, <1>6, <1>7 DEF IInv

LEMMA CrashPreserves ==
    ASSUME IInv, NEW r \in Replicas, Crash(r)
    PROVE  IInv'
<1> DEFINE Here == {d \in Deliveries : task[d].at = r}
           Running == {d \in Here : ~At(d, "done")}
           Spawned == {d \in Here : profile[d].pc # "none"}
           ended(d) == [task[d] EXCEPT !.pc = "done", !.row = None]
<1>1. /\ task' = [d \in Deliveries |-> IF d \in Running THEN ended(d) ELSE task[d]]
      /\ profile' = [d \in Deliveries |-> IF d \in Spawned THEN NoProfile ELSE profile[d]]
      /\ failed' = failed \cup {task[d].msg : d \in Running}
      /\ nameless' = nameless \cup {From(d) : d \in Spawned}
      /\ unannounced' = unannounced \cup {From(d) : d \in Spawned}
                                    \cup {From(d) : d \in {e \in Running : At(e, "announce")}}
      /\ cache' = [cache EXCEPT ![r] = [s \in Senders |-> None]]
      /\ inbox' = [inbox EXCEPT ![r] = {}]
      /\ late' = late \ ({r} \X Senders)
      /\ UNCHANGED <<clients, chats, stored>>
  BY DEF Crash
(* A delivery that is somewhere has arrived.                               *)
<1>2. \A d \in Here : task[d].pc # "idle" /\ task[d].msg \in Messages /\ From(d) \in Senders
  <2> SUFFICES ASSUME NEW d \in Here
               PROVE  task[d].pc # "idle" /\ task[d].msg \in Messages /\ From(d) \in Senders
    OBVIOUS
  <2>1. Consistent(task[d]) /\ task[d].at # None
    BY ConversationsAssumption DEF IInv, TasksConsistent
  <2> QED
    BY <2>1, TaskTypes DEF Consistent, IInv, TaskOK
<1>3. \A d \in Running :
         /\ task'[d] \in Task /\ TaskOK(task'[d])
         /\ task'[d].pc = "done" /\ task'[d].msg = task[d].msg
         /\ task'[d].client = task[d].client /\ task'[d].chat = task[d].chat
  <2> SUFFICES ASSUME NEW d \in Running
               PROVE  /\ task'[d] \in Task /\ TaskOK(task'[d])
                      /\ task'[d].pc = "done" /\ task'[d].msg = task[d].msg
                      /\ task'[d].client = task[d].client /\ task'[d].chat = task[d].chat
    OBVIOUS
  <2>1. task'[d] = ended(d) /\ task[d] \in Task /\ task[d].at \in Replicas /\ task[d].msg \in Messages
    BY <1>1, <1>2 DEF IInv, TypeOK
  <2>2. ended(d) \in Task
    BY <2>1 DEF Task
  <2>3. /\ ended(d).pc = "done" /\ ended(d).msg = task[d].msg /\ ended(d).at = task[d].at
        /\ ended(d).client = task[d].client /\ ended(d).chat = task[d].chat
    BY <2>1 DEF Task
  <2> HIDE DEF ended
  <2> QED
    BY <2>1, <2>2, <2>3 DEF TaskOK
<1>4. \A d \in Deliveries \ Running : task'[d] = task[d]
  BY <1>1
<1>5. \A d \in Deliveries : task'[d].msg = task[d].msg
  BY <1>3, <1>4
<1> HIDE DEF ended
<1>6. TypeOK'
  <2>1. task' \in [Deliveries -> Task] /\ \A d \in Deliveries : TaskOK(task'[d])
    <3>1. \A d \in Deliveries : task'[d] \in Task /\ TaskOK(task'[d])
      BY <1>3, <1>4, TypeSplit DEF IInv
    <3> QED
      BY <1>1, <3>1
  <2>2. profile' \in [Deliveries -> Profile]
    BY <1>1 DEF IInv, TypeOK, NoProfile, Profile
  <2>3. /\ failed' \subseteq Messages /\ nameless' \subseteq Senders
        /\ unannounced' \subseteq Senders
    BY <1>1, <1>2 DEF IInv, TypeOK
  <2>4. /\ cache' \in [Replicas -> [Senders -> Client \cup {None}]]
        /\ inbox' \in [Replicas -> SUBSET Senders]
        /\ late' \subseteq Replicas \X Senders
    BY <1>1 DEF IInv, TypeOK
  <2>5. /\ clients' \in [Senders -> Client \cup {None}]
        /\ chats' \subseteq Chat /\ stored' \in [Messages -> Stored \cup {None}]
    BY <1>1 DEF IInv, TypeOK
  <2> QED
    BY <2>1, <2>2, <2>3, <2>4, <2>5 DEF TypeOK, TaskOK
<1>7. (\A s : IdOf(s)' = IdOf(s)) /\ Grows
  BY <1>1 DEF IdOf, Grows
<1>8. TasksConsistent'
  <2> SUFFICES ASSUME NEW d \in Deliveries
               PROVE  Consistent(task[d])'
    BY DEF TasksConsistent
  <2>1. Consistent(task[d])
    BY DEF IInv, TasksConsistent
  <2>2. CASE d \in Running
    BY <1>1, <1>3, <1>7, <2>1, <2>2 DEF Consistent, Resolved
  <2>3. CASE d \notin Running
    BY <1>1, <1>4, <1>7, <2>1, <2>3 DEF Consistent, Resolved
  <2> QED
    BY <2>2, <2>3
<1>9. ProfilesHaveRows'
  <2> SUFFICES ASSUME NEW d \in Deliveries, profile'[d].pc # "none"
               PROVE  (task[d].pc # "idle" /\ clients[From(d)] # None)'
    BY DEF ProfilesHaveRows
  <2>1. profile'[d] = profile[d]
    BY <1>1 DEF NoProfile
  <2>2. task[d].pc # "idle" /\ clients[From(d)] # None
    BY <2>1 DEF IInv, ProfilesHaveRows
  <2>3. From(d)' = From(d)
    BY <1>5 DEF From
  <2>4. task'[d].pc # "idle"
    BY <1>3, <1>4, <2>2
  <2> QED
    BY <1>1, <2>2, <2>3, <2>4
<1>10. CopiesHaveRows' /\ OneChat'
  <2>1. \A q \in Replicas, s \in Senders : cache'[q][s] \in {None, cache[q][s]}
    BY <1>1 DEF IInv, TypeOK
  <2> QED
    BY <1>1, <1>7, <2>1 DEF IInv, CopiesHaveRows, OneChat
<1>11. StoredFiled'
  BY <1>1, <1>7, FiledStays DEF StoredFiled, IInv
<1> QED
  BY <1>6, <1>8, <1>9, <1>10, <1>11 DEF IInv

-----------------------------------------------------------------------------
(* The theorems.                                                           *)

LEMMA InitIInv == Init => IInv
  BY InitTypes
  DEF Init, IInv, Unborn, NoProfile, TasksConsistent, Consistent, Resolved,
      ProfilesHaveRows, CopiesHaveRows, OneChat, StoredFiled, Filed

LEMMA StutterPreserves == IInv /\ UNCHANGED vars => IInv'
  BY DEF vars, IInv, TypeOK, TasksConsistent, Consistent, Resolved, ProfilesHaveRows,
         From, CopiesHaveRows, OneChat, StoredFiled, Filed, IdOf

LEMMA NextPreserves == IInv /\ Next => IInv'
<1> SUFFICES ASSUME IInv, Next
             PROVE  IInv'
  OBVIOUS
<1>1. CASE \E d \in Deliveries, r \in Replicas, m \in Messages : Arrives(d, r, m)
  BY <1>1, ArrivesPreserves
<1>2. ASSUME NEW d \in Deliveries, DeliveryNext(d)
      PROVE  IInv'
  <2>1. CASE Hits(d) \/ Reads(d) \/ Fills(d) \/ LookupFails(d)
    BY <2>1, HitsPreserves, ReadsPreserves, FillsPreserves, LookupFailsPreserves
  <2>2. CASE \/ IsNew(d) \/ InsertsInstagram(d) \/ InsertsTelegram(d)
             \/ InsertAnnounced(d) \/ InsertUnannounced(d) \/ InsertFails(d)
    BY <2>2, IsNewPreserves, InsertsPreserve, InsertEndsPreserve
  <2>3. CASE \/ FindsChat(d) \/ HasNoChat(d) \/ CreatesChat(d)
             \/ LosesChatRace(d) \/ ChatFails(d)
    BY <2>3, FindsChatPreserves, CreatesChatPreserves, ChatStepsPreserve
  <2>4. CASE Stores(d) \/ SkipsDuplicate(d) \/ StoreFails(d)
    BY <2>4, StoresPreserves, StoreEndsPreserve
  <2> QED
    BY <1>2, <2>1, <2>2, <2>3, <2>4 DEF DeliveryNext
<1>3. ASSUME NEW d \in Deliveries, ProfileNext(d)
      PROVE  IInv'
  BY <1>3, ProfileStepsPreserve, ProfileIsWrittenPreserves DEF ProfileNext
<1>4. CASE \E r \in Replicas, s \in Senders : Evicts(r, s)
  BY <1>4, EvictsPreserves
<1>5. CASE \E r \in Replicas : Crash(r)
  BY <1>5, CrashPreserves
<1> QED
  BY <1>1, <1>2, <1>3, <1>4, <1>5 DEF Next

(* Whatever replicas, webhooks and failures there are, what a delivery     *)
(* holds, what the caches hold and what is stored agree with the rows.     *)
THEOREM Invariance == Spec => []IInv
<1>1. IInv /\ [Next]_vars => IInv'
  BY NextPreserves, StutterPreserves
<1> QED
  BY InitIInv, <1>1, PTL DEF Spec

(* Every reachable state of the webhook tasks is one the program has.      *)
THEOREM TypeCorrectness == Spec => []TypeOK
<1>1. IInv => TypeOK
  BY DEF IInv
<1> QED
  BY <1>1, Invariance, PTL

(* find_or_create_chat and upsert_client, raced by any number of replicas, *)
(* give a sender one client and one chat.                                  *)
THEOREM ConversationsAreOne == Spec => []OneConversation
<1>1. IInv => OneConversation
  <2> SUFFICES ASSUME IInv, NEW m \in Messages, NEW n \in Messages,
                      stored[m] # None, stored[n] # None, m[1] = n[1]
               PROVE  /\ stored[m].sender \in {None, IdOf(m[1])}
                      /\ stored[m].chat # None =>
                            [id |-> stored[m].chat, client |-> IdOf(m[1])] \in chats
                      /\ stored[m].chat = stored[n].chat
                            \/ None \in {stored[m].chat, stored[n].chat}
    BY DEF OneConversation
  <2>1. Filed(m) /\ Filed(n)
    BY DEF IInv, StoredFiled
  <2>2. ASSUME stored[m].chat # None, stored[n].chat # None
        PROVE  stored[m].chat = stored[n].chat
    <3> DEFINE c == [id |-> stored[m].chat, client |-> IdOf(m[1])]
               e == [id |-> stored[n].chat, client |-> IdOf(m[1])]
    <3>1. c \in chats /\ e \in chats /\ c.client = e.client
      BY <2>1, <2>2 DEF Filed
    <3>2. c = e
      BY <3>1 DEF IInv, OneChat
    <3> QED
      BY <3>2
  <2> QED
    BY <2>1, <2>2 DEF Filed
<1> QED
  BY <1>1, Invariance, PTL

(* The worker files every message in its sender's chat unless a statement  *)
(* failed, or a replica died, on one of its deliveries.                    *)
THEOREM MessagesAreFiled == Spec => []FiledUnlessFailed
<1>1. IInv => FiledUnlessFailed
  BY DEF IInv, StoredFiled, Filed, FiledUnlessFailed
<1> QED
  BY <1>1, Invariance, PTL

-----------------------------------------------------------------------------
(* Names and copies.  What is missing in a row, or outdated in a cache, is *)
(* on its way unless something lost it.                                    *)

(* A delivery that has not resolved its sender yet.                        *)
Unresolving(t) ==
    t.pc \in {"idle", "resolve", "insert"} \/ (t.pc = "fill" /\ t.lookup = "resolve")

(* A profile task is spawned once, by the resolution; and what it is about *)
(* to write has a name unless the profile could not be had.                *)
ProfilesSpawned ==
    \A d \in Deliveries :
        /\ Unresolving(task[d]) => profile[d].pc = "none"
        /\ profile[d].pc = "write" /\ ~profile[d].named => From(d) \in nameless

Renews(d) == profile[d].pc \in {"fetch", "write"}
Announces(d) == profile[d].pc # "none" \/ task[d].pc = "announce"

NamesPending ==
    \A s \in Senders :
        clients[s] # None /\ ~clients[s].named /\ s \notin nameless =>
            \E d \in Deliveries : Renews(d) /\ From(d) = s

CopiesPending ==
    \A r \in Replicas, s \in Senders :
        /\ cache[r][s] \notin {None, clients[s]}
        /\ <<r, s>> \notin late /\ s \notin unannounced
        => s \in inbox[r] \/ \E d \in Deliveries : Announces(d) /\ From(d) = s

RInv == ProfilesSpawned /\ NamesPending /\ CopiesPending

(* What a step of d leaves alone.                                          *)
OnlyOf(d) ==
    /\ \A e \in Deliveries \ {d} : task'[e] = task[e] /\ profile'[e] = profile[e]
    /\ task'[d].msg = task[d].msg
    /\ \A s \in Senders : s # From(d) => clients'[s] = clients[s]
    /\ nameless \subseteq nameless' /\ unannounced \subseteq unannounced'
    /\ \A r \in Replicas : inbox[r] \subseteq inbox'[r]

LEMMA SpawnedStep ==
    ASSUME ProfilesSpawned, NEW d \in Deliveries, OnlyOf(d),
           Unresolving(task'[d]) => profile'[d].pc = "none",
           profile'[d].pc = "write" /\ ~profile'[d].named => From(d) \in nameless'
    PROVE  ProfilesSpawned'
<1> SUFFICES ASSUME NEW e \in Deliveries
             PROVE  /\ Unresolving(task'[e]) => profile'[e].pc = "none"
                    /\ profile'[e].pc = "write" /\ ~profile'[e].named => From(e)' \in nameless'
  BY DEF ProfilesSpawned, Unresolving
<1>1. From(e)' = From(e)
  BY DEF OnlyOf, From
<1>2. CASE e = d
  BY <1>1, <1>2
<1>3. CASE e # d
  BY <1>1, <1>3 DEF OnlyOf, ProfilesSpawned
<1> QED
  BY <1>2, <1>3

LEMMA NamesStep ==
    ASSUME NamesPending, NEW d \in Deliveries, OnlyOf(d),
           \/ clients'[From(d)] = clients[From(d)]
           \/ clients'[From(d)].named \/ Renews(d)' \/ From(d) \in nameless',
           Renews(d) => Renews(d)' \/ clients'[From(d)].named \/ From(d) \in nameless'
    PROVE  NamesPending'
<1> SUFFICES ASSUME NEW s \in Senders, clients'[s] # None, ~clients'[s].named, s \notin nameless'
             PROVE  \E e \in Deliveries : Renews(e)' /\ From(e)' = s
  BY DEF NamesPending
<1>1. \A e \in Deliveries : From(e)' = From(e)
  BY DEF OnlyOf, From
<1>2. CASE Renews(d)' /\ From(d) = s
  BY <1>1, <1>2
<1>3. CASE ~(Renews(d)' /\ From(d) = s)
  <2>1. clients'[s] = clients[s]
    BY <1>3 DEF OnlyOf
  <2>2. PICK e \in Deliveries : Renews(e) /\ From(e) = s
    BY <2>1 DEF NamesPending, OnlyOf
  <2>3. e # d
    BY <1>3, <2>2
  <2> QED
    BY <1>1, <2>2, <2>3 DEF OnlyOf, Renews
<1> QED
  BY <1>2, <1>3

LEMMA CopiesStep ==
    ASSUME CopiesPending, NEW d \in Deliveries, OnlyOf(d),
           NEW r \in Replicas, NEW s \in Senders,
           cache'[r][s] = cache[r][s], <<r, s>> \in late => <<r, s>> \in late',
           clients'[From(d)] = clients[From(d)] \/ Announces(d)',
           Announces(d) => \/ Announces(d)' \/ From(d) \in unannounced'
                           \/ \A q \in Replicas : From(d) \in inbox'[q],
           cache'[r][s] \notin {None, clients'[s]},
           <<r, s>> \notin late', s \notin unannounced'
    PROVE  s \in inbox'[r] \/ \E e \in Deliveries : Announces(e)' /\ From(e)' = s
<1>1. \A e \in Deliveries : From(e)' = From(e)
  BY DEF OnlyOf, From
<1>2. CASE Announces(d)' /\ From(d) = s
  BY <1>1, <1>2
<1>3. CASE ~(Announces(d)' /\ From(d) = s)
  <2>1. clients'[s] = clients[s]
    BY <1>3 DEF OnlyOf
  <2>2. s \in inbox[r] \/ \E e \in Deliveries : Announces(e) /\ From(e) = s
    BY <2>1 DEF CopiesPending, OnlyOf
  <2>3. CASE s \in inbox[r]
    BY <2>3 DEF OnlyOf
  <2>4. ASSUME NEW e \in Deliveries, Announces(e), From(e) = s
        PROVE  s \in inbox'[r] \/ \E f \in Deliveries : Announces(f)' /\ From(f)' = s
    <3>1. CASE e = d
      BY <1>3, <2>4, <3>1
    <3>2. CASE e # d
      BY <1>1, <2>4, <3>2 DEF OnlyOf, Announces
    <3> QED
      BY <3>1, <3>2
  <2> QED
    BY <2>2, <2>3, <2>4
<1> QED
  BY <1>2, <1>3

(* A step of d that leaves the caches alone.                               *)
LEMMA RenewalStep ==
    ASSUME RInv, NEW d \in Deliveries, OnlyOf(d), UNCHANGED <<cache, late>>,
           Unresolving(task'[d]) => profile'[d].pc = "none",
           profile'[d].pc = "write" /\ ~profile'[d].named => From(d) \in nameless',
           \/ clients'[From(d)] = clients[From(d)]
           \/ Announces(d)' /\ (\/ clients'[From(d)].named \/ Renews(d)'
                                \/ From(d) \in nameless'),
           Renews(d) => Renews(d)' \/ clients'[From(d)].named \/ From(d) \in nameless',
           Announces(d) => \/ Announces(d)' \/ From(d) \in unannounced'
                           \/ \A q \in Replicas : From(d) \in inbox'[q]
    PROVE  RInv'
<1>1. ProfilesSpawned' /\ NamesPending'
  BY SpawnedStep, NamesStep DEF RInv
<1>2. CopiesPending'
  <2> SUFFICES ASSUME NEW r \in Replicas, NEW s \in Senders,
                      cache'[r][s] \notin {None, clients'[s]},
                      <<r, s>> \notin late', s \notin unannounced'
               PROVE  s \in inbox'[r] \/ \E e \in Deliveries : Announces(e)' /\ From(e)' = s
    BY DEF CopiesPending
  <2> QED
    BY CopiesStep DEF RInv
<1> QED
  BY <1>1, <1>2 DEF RInv

(* A step of a delivery's own that neither spawns nor writes nor announces. *)
LEMMA PlainStep ==
    ASSUME RInv, NEW d \in Deliveries, OnlyOf(d),
           UNCHANGED <<clients, cache, late>>, profile'[d] = profile[d],
           Unresolving(task'[d]) => Unresolving(task[d]),
           task[d].pc = "announce" =>
              From(d) \in unannounced' \/ \A q \in Replicas : From(d) \in inbox'[q]
    PROVE  RInv'
<1>1. /\ Unresolving(task'[d]) => profile'[d].pc = "none"
      /\ profile'[d].pc = "write" /\ ~profile'[d].named => From(d) \in nameless'
  BY DEF RInv, ProfilesSpawned, OnlyOf
<1>2. /\ Renews(d) => Renews(d)'
      /\ Announces(d) => \/ Announces(d)' \/ From(d) \in unannounced'
                         \/ \A q \in Replicas : From(d) \in inbox'[q]
  BY DEF Renews, Announces
<1> QED
  BY <1>1, <1>2, RenewalStep

(* The resolution may spawn a profile task.                                *)
LEMMA AnsweredSpawns ==
    ASSUME IInv, RInv, NEW d \in Deliveries, NEW lookup \in Lookups, NEW row \in Client,
           Answered(d, lookup, row), task[d].pc \in {lookup, "fill"},
           task[d].pc = "fill" => task[d].lookup = lookup,
           UNCHANGED <<clients, inbox, nameless, unannounced>>
    PROVE  /\ OnlyOf(d)
           /\ ~Unresolving(task'[d])
           /\ profile'[d] = profile[d] \/ profile[d].pc = "none"
           /\ Renews(d) => Renews(d)'
           /\ Announces(d) => Announces(d)'
           /\ profile'[d].pc = "write" /\ ~profile'[d].named => From(d) \in nameless'
<1>1. /\ Moved(d) /\ task'[d].pc \in {"verify", "chat", "done"}
      /\ \A e \in Deliveries : profile'[e] = profile[e] \/ (e = d /\ lookup = "resolve")
  BY AnsweredMoves DEF IInv
<1>2. OnlyOf(d) /\ ~Unresolving(task'[d])
  BY <1>1 DEF Moved, OnlyOf, Unresolving
<1>3. lookup = "resolve" =>
        profile[d].pc = "none" /\ (profile'[d].pc = "write" => profile'[d].named)
  <2> SUFFICES ASSUME lookup = "resolve"
               PROVE  profile[d].pc = "none" /\ (profile'[d].pc = "write" => profile'[d].named)
    OBVIOUS
  <2>1. profile[d].pc = "none"
    BY DEF RInv, ProfilesSpawned, Unresolving
  <2>2. PICK p \in Renewals(d) : profile' = [profile EXCEPT ![d] = p]
    BY DEF Answered
  <2>3. p.pc = "write" => p.named
    BY <2>2 DEF Renewals, NoProfile
  <2> QED
    BY <2>1, <2>2, <2>3 DEF IInv, TypeOK
<1>4. task[d].pc # "announce"
  BY DEF Lookups
<1> QED
  BY <1>1, <1>2, <1>3, <1>4 DEF RInv, ProfilesSpawned, Renews, Announces

LEMMA HitsRenew ==
    ASSUME IInv, RInv, NEW d \in Deliveries, Hits(d)
    PROVE  RInv'
<1>1. CopyFor(d) \in Client /\ task[d].pc \in Lookups /\ task[d].pc # "fill"
  BY CopyHasRow DEF Hits, Lookups
<1>2. Answered(d, task[d].pc, CopyFor(d))
  BY DEF Hits
<1>3. /\ OnlyOf(d) /\ ~Unresolving(task'[d])
      /\ Renews(d) => Renews(d)'
      /\ Announces(d) => Announces(d)'
      /\ profile'[d].pc = "write" /\ ~profile'[d].named => From(d) \in nameless'
  BY <1>1, <1>2, AnsweredSpawns DEF Hits
<1> QED
  BY <1>3, RenewalStep DEF Hits

(* A copy is the row as it is now, or late.                                *)
LEMMA FillsRenew ==
    ASSUME IInv, RInv, NEW d \in Deliveries, Fills(d)
    PROVE  RInv'
<1>1. /\ task[d].pc = "fill" /\ task[d].row \in Client /\ task[d].lookup \in Lookups
      /\ task[d].at \in Replicas /\ From(d) \in Senders
  BY TaskTypes DEF Fills, At, IInv, TaskOK, Task
<1>2. Answered(d, task[d].lookup, task[d].row)
  BY DEF Fills
<1>3. /\ OnlyOf(d) /\ ~Unresolving(task'[d])
      /\ Renews(d) => Renews(d)'
      /\ Announces(d) => Announces(d)'
      /\ profile'[d].pc = "write" /\ ~profile'[d].named => From(d) \in nameless'
  BY <1>1, <1>2, AnsweredSpawns DEF Fills
<1>4. ProfilesSpawned' /\ NamesPending'
  BY <1>3, SpawnedStep, NamesStep DEF RInv, Fills
<1>5. CopiesPending'
  <2> SUFFICES ASSUME NEW r \in Replicas, NEW s \in Senders,
                      cache'[r][s] \notin {None, clients'[s]},
                      <<r, s>> \notin late', s \notin unannounced'
               PROVE  s \in inbox'[r] \/ \E e \in Deliveries : Announces(e)' /\ From(e)' = s
    BY DEF CopiesPending
  <2>1. ~(r = task[d].at /\ s = From(d))
    BY <1>1 DEF Fills, IInv, TypeOK
  <2>2. cache'[r][s] = cache[r][s] /\ (<<r, s>> \in late => <<r, s>> \in late')
    BY <1>1, <2>1 DEF Fills, IInv, TypeOK
  <2> QED
    BY <1>3, <2>2, CopiesStep DEF RInv, Fills
<1> QED
  BY <1>4, <1>5 DEF RInv

LEMMA InsertsRenew ==
    ASSUME IInv, RInv, NEW d \in Deliveries, InsertsInstagram(d) \/ InsertsTelegram(d)
    PROVE  RInv'
<1>1. /\ task[d] \in Task /\ task[d].pc = "insert"
      /\ From(d) \in Senders /\ profile[d].pc = "none"
  BY TaskTypes DEF InsertsInstagram, InsertsTelegram, At, IInv, TaskOK, RInv,
                   ProfilesSpawned, Unresolving
<1>2. CASE InsertsInstagram(d)
  <2>1. OnlyOf(d)
    BY <1>1, <1>2 DEF InsertsInstagram, OnlyOf, Upserted, IInv, TypeOK, Task
  <2>2. profile'[d].pc = "fetch" /\ task'[d].pc = "verify"
    BY <1>1, <1>2 DEF InsertsInstagram, AsksForName, IInv, TypeOK, Task
  <2> QED
    BY <1>2, <2>1, <2>2, RenewalStep DEF InsertsInstagram, Unresolving, Renews, Announces
<1>3. CASE InsertsTelegram(d)
  <2>1. OnlyOf(d)
    BY <1>1, <1>3 DEF InsertsTelegram, OnlyOf, Upserted, IInv, TypeOK, Task
  <2>2. profile'[d].pc = "none" /\ task'[d].pc = "announce"
    BY <1>1, <1>3 DEF InsertsTelegram, IInv, TypeOK, Task
  <2>3. clients'[From(d)].named
    BY <1>1, <1>3 DEF InsertsTelegram, Upserted, IInv, TypeOK, Client
  <2> QED
    BY <1>1, <1>3, <2>1, <2>2, <2>3, RenewalStep
    DEF InsertsTelegram, Unresolving, Renews, Announces
<1> QED
  BY <1>2, <1>3

(* All other steps of a delivery.                                          *)
LEMMA OthersRenew ==
    ASSUME IInv, RInv, NEW d \in Deliveries,
           \/ Reads(d) \/ LookupFails(d) \/ IsNew(d)
           \/ InsertAnnounced(d) \/ InsertUnannounced(d) \/ InsertFails(d)
           \/ FindsChat(d) \/ HasNoChat(d) \/ CreatesChat(d) \/ LosesChatRace(d) \/ ChatFails(d)
           \/ Stores(d) \/ SkipsDuplicate(d) \/ StoreFails(d)
    PROVE  RInv'
<1>1. task[d] \in Task /\ task \in [Deliveries -> Task]
  BY DEF IInv, TypeOK
<1>2. CASE Reads(d)
  BY <1>1, <1>2, PlainStep DEF Reads, OnlyOf, Task, Unresolving, Lookups
<1>3. CASE LookupFails(d)
  BY <1>1, <1>3, PlainStep DEF LookupFails, Goto, Unresolved, At, OnlyOf, Task, Unresolving, Lookups
<1>4. CASE IsNew(d)
  BY <1>1, <1>4, PlainStep DEF IsNew, Goto, At, OnlyOf, Task, Unresolving
<1>5. CASE InsertAnnounced(d)
  <2>1. From(d) \in Senders
    BY <1>5, TaskTypes DEF InsertAnnounced, At, IInv
  <2>2. \A r \in Replicas : inbox'[r] = inbox[r] \cup {From(d)}
    BY <1>5 DEF InsertAnnounced, Announce
  <2> QED
    BY <1>1, <1>5, <2>1, <2>2, PlainStep DEF InsertAnnounced, Goto, At, OnlyOf, Task, Unresolving
<1>6. CASE InsertUnannounced(d)
  BY <1>1, <1>6, PlainStep DEF InsertUnannounced, Goto, At, OnlyOf, Task, Unresolving
<1>7. CASE InsertFails(d)
  BY <1>1, <1>7, PlainStep DEF InsertFails, Unresolved, At, OnlyOf, Task, Unresolving
<1>8. CASE FindsChat(d)
  <2>1. PICK c \in ChatsOf(task[d].client) :
           task' = [task EXCEPT ![d].pc = "store", ![d].chat = c.id]
    BY <1>8 DEF FindsChat
  <2>2. task'[d].pc = "store" /\ OnlyOf(d)
    BY <1>1, <1>8, <2>1 DEF FindsChat, OnlyOf, Task
  <2> QED
    BY <1>8, <2>2, PlainStep DEF FindsChat, Unresolving
<1>9. CASE HasNoChat(d) \/ LosesChatRace(d) \/ ChatFails(d)
  BY <1>1, <1>9, PlainStep
  DEF HasNoChat, LosesChatRace, ChatIsTaken, ChatFails, Goto, At, OnlyOf, Task, Unresolving
<1>10. CASE CreatesChat(d)
  BY <1>1, <1>10, PlainStep DEF CreatesChat, At, OnlyOf, Task, Unresolving
<1>11. CASE Stores(d)
  BY <1>1, <1>11, PlainStep DEF Stores, At, OnlyOf, Task, Unresolving
<1>12. CASE SkipsDuplicate(d) \/ StoreFails(d)
  BY <1>1, <1>12, PlainStep DEF SkipsDuplicate, StoreFails, Goto, At, OnlyOf, Task, Unresolving
<1> QED
  BY <1>2, <1>3, <1>4, <1>5, <1>6, <1>7, <1>8, <1>9, <1>10, <1>11, <1>12

LEMMA ProfilesRenew ==
    ASSUME IInv, RInv, NEW d \in Deliveries, ProfileNext(d)
    PROVE  RInv'
<1>1. profile[d].pc # "none"
  BY DEF ProfileNext, ProfileAnswers, ProfileFails, ProfileIsWritten, ProfileWriteFails,
         ProfileIsAnnounced, ProfileIsUnannounced
<1>2. /\ profile[d] \in Profile /\ profile \in [Deliveries -> Profile]
      /\ From(d) \in Senders /\ clients[From(d)] # None
      /\ ~Unresolving(task[d])
  BY <1>1, TaskTypes DEF IInv, TypeOK, ProfilesHaveRows, RInv, ProfilesSpawned
<1>3. profile[d].pc = "write" /\ ~profile[d].named => From(d) \in nameless
  BY DEF RInv, ProfilesSpawned
<1>4. CASE ProfileAnswers(d)
  BY <1>2, <1>4, RenewalStep DEF ProfileAnswers, OnlyOf, Renews, Announces
<1>5. CASE ProfileFails(d)
  BY <1>2, <1>5, RenewalStep DEF ProfileFails, OnlyOf, Renews, Announces
<1>6. CASE ProfileIsWritten(d)
  <2>1. OnlyOf(d)
    BY <1>2, <1>6 DEF ProfileIsWritten, OnlyOf, Upserted, IInv, TypeOK
  <2>2. clients'[From(d)].named = profile[d].named
    BY <1>2, <1>6 DEF ProfileIsWritten, Upserted, IInv, TypeOK, Client
  <2>3. profile'[d].pc = "announce" /\ profile[d].pc = "write" /\ profile[d].named \in BOOLEAN
    BY <1>2, <1>6 DEF ProfileIsWritten, Profile
  <2> QED
    BY <1>2, <1>3, <1>6, <2>1, <2>2, <2>3, RenewalStep DEF ProfileIsWritten, Renews, Announces
<1>7. CASE ProfileWriteFails(d)
  BY <1>2, <1>7, RenewalStep DEF ProfileWriteFails, NoProfile, OnlyOf, Renews, Announces
<1>8. CASE ProfileIsAnnounced(d)
  <2>1. \A r \in Replicas : inbox'[r] = inbox[r] \cup {From(d)}
    BY <1>8 DEF ProfileIsAnnounced, Announce
  <2> QED
    BY <1>2, <1>8, <2>1, RenewalStep DEF ProfileIsAnnounced, NoProfile, OnlyOf, Renews, Announces
<1>9. CASE ProfileIsUnannounced(d)
  BY <1>2, <1>9, RenewalStep DEF ProfileIsUnannounced, NoProfile, OnlyOf, Renews, Announces
<1> QED
  BY <1>4, <1>5, <1>6, <1>7, <1>8, <1>9 DEF ProfileNext

LEMMA ArrivesRenews ==
    ASSUME IInv, RInv, NEW d \in Deliveries, NEW r \in Replicas, NEW m \in Messages,
           Arrives(d, r, m)
    PROVE  RInv'
<1>1. task[d].pc = "idle" /\ profile[d].pc = "none"
  BY DEF Arrives, At, RInv, ProfilesSpawned, Unresolving
<1>2. /\ task'[d].pc = "resolve"
      /\ \A e \in Deliveries \ {d} : task'[e] = task[e] /\ From(e)' = From(e)
  BY DEF Arrives, From, Unborn, IInv, TypeOK
<1>3. UNCHANGED <<clients, cache, inbox, profile, nameless, unannounced, late>>
  BY DEF Arrives
<1>4. ~Renews(d) /\ ~Announces(d)
  BY <1>1 DEF Renews, Announces
<1>5. ProfilesSpawned'
  BY <1>1, <1>2, <1>3 DEF RInv, ProfilesSpawned, Unresolving
<1>6. NamesPending'
  BY <1>2, <1>3, <1>4 DEF RInv, NamesPending, Renews
<1>7. CopiesPending'
  BY <1>2, <1>3, <1>4 DEF RInv, CopiesPending, Announces
<1> QED
  BY <1>5, <1>6, <1>7 DEF RInv

LEMMA EvictsRenew ==
    ASSUME IInv, RInv, NEW r \in Replicas, NEW s \in Senders, Evicts(r, s)
    PROVE  RInv'
<1>1. ProfilesSpawned' /\ NamesPending'
  BY DEF Evicts, RInv, ProfilesSpawned, NamesPending, Renews, From, Unresolving
<1>2. CopiesPending'
  <2> SUFFICES ASSUME NEW q \in Replicas, NEW u \in Senders,
                      cache'[q][u] \notin {None, clients[u]},
                      <<q, u>> \notin late', u \notin unannounced
               PROVE  u \in inbox'[q] \/ \E e \in Deliveries : Announces(e) /\ From(e) = u
    BY DEF CopiesPending, Evicts, Announces, From
  <2>1. <<q, u>> # <<r, s>>
    BY DEF Evicts, IInv, TypeOK
  <2>2. /\ cache'[q][u] = cache[q][u] /\ <<q, u>> \notin late
        /\ u \in inbox[q] => u \in inbox'[q]
    BY <2>1 DEF Evicts, IInv, TypeOK
  <2> QED
    BY <2>2 DEF RInv, CopiesPending
<1> QED
  BY <1>1, <1>2 DEF RInv

(* What dies with a replica is excused; its own cache is empty.            *)
LEMMA CrashRenews ==
    ASSUME IInv, RInv, NEW r \in Replicas, Crash(r)
    PROVE  RInv'
<1> DEFINE Here == {d \in Deliveries : task[d].at = r}
           Running == {d \in Here : ~At(d, "done")}
           Spawned == {d \in Here : profile[d].pc # "none"}
           Announcing == {d \in Running : At(d, "announce")}
<1>1. /\ task' = [d \in Deliveries |->
                    IF d \in Running THEN [task[d] EXCEPT !.pc = "done", !.row = None]
                    ELSE task[d]]
      /\ profile' = [d \in Deliveries |-> IF d \in Spawned THEN NoProfile ELSE profile[d]]
      /\ nameless' = nameless \cup {From(d) : d \in Spawned}
      /\ unannounced' = unannounced \cup {From(d) : d \in Spawned}
                                    \cup {From(d) : d \in Announcing}
      /\ cache' = [cache EXCEPT ![r] = [s \in Senders |-> None]]
      /\ inbox' = [inbox EXCEPT ![r] = {}]
      /\ late' = late \ ({r} \X Senders)
      /\ clients' = clients
  BY DEF Crash
<1>2. \A d \in Deliveries :
         /\ From(d)' = From(d)
         /\ d \in Running => task'[d].pc = "done"
         /\ d \notin Running => task'[d] = task[d]
  BY <1>1 DEF From, IInv, TypeOK, Task
<1>3. \A d \in Deliveries :
         IF d \in Spawned THEN profile'[d].pc = "none" ELSE profile'[d] = profile[d]
  BY <1>1 DEF NoProfile
<1>4. \A d \in Deliveries : Renews(d) => Renews(d)' \/ From(d) \in nameless'
  BY <1>1, <1>3 DEF Renews
<1>5. \A d \in Deliveries : Announces(d) => Announces(d)' \/ From(d) \in unannounced'
  BY <1>1, <1>2, <1>3 DEF Announces, At
<1>6. ProfilesSpawned'
  BY <1>1, <1>2, <1>3 DEF RInv, ProfilesSpawned, Unresolving
<1>7. NamesPending'
  BY <1>1, <1>2, <1>4 DEF RInv, NamesPending
<1>8. CopiesPending'
  <2> SUFFICES ASSUME NEW q \in Replicas, NEW s \in Senders,
                      cache'[q][s] \notin {None, clients'[s]},
                      <<q, s>> \notin late', s \notin unannounced'
               PROVE  s \in inbox'[q] \/ \E e \in Deliveries : Announces(e)' /\ From(e)' = s
    BY DEF CopiesPending
  <2>1. q # r
    BY <1>1 DEF IInv, TypeOK
  <2>2. /\ cache'[q][s] = cache[q][s] /\ inbox'[q] = inbox[q]
        /\ <<q, s>> \notin late /\ s \notin unannounced
    BY <1>1, <2>1 DEF IInv, TypeOK
  <2>3. s \in inbox[q] \/ \E e \in Deliveries : Announces(e) /\ From(e) = s
    BY <1>1, <2>2 DEF RInv, CopiesPending
  <2> QED
    BY <1>2, <1>5, <2>2, <2>3
<1> QED
  BY <1>6, <1>7, <1>8 DEF RInv

LEMMA NextRenews == IInv /\ RInv /\ [Next]_vars => RInv'
<1> SUFFICES ASSUME IInv, RInv, [Next]_vars
             PROVE  RInv'
  OBVIOUS
<1>1. CASE \E d \in Deliveries, r \in Replicas, m \in Messages : Arrives(d, r, m)
  BY <1>1, ArrivesRenews
<1>2. ASSUME NEW d \in Deliveries, DeliveryNext(d) \/ ProfileNext(d)
      PROVE  RInv'
  BY <1>2, HitsRenew, FillsRenew, InsertsRenew, OthersRenew, ProfilesRenew DEF DeliveryNext
<1>3. CASE \E r \in Replicas, s \in Senders : Evicts(r, s)
  BY <1>3, EvictsRenew
<1>4. CASE \E r \in Replicas : Crash(r)
  BY <1>4, CrashRenews
<1>5. CASE UNCHANGED vars
  BY <1>5 DEF vars, RInv, ProfilesSpawned, NamesPending, CopiesPending, Unresolving,
              Renews, Announces, From
<1> QED
  BY <1>1, <1>2, <1>3, <1>4, <1>5 DEF Next

(* Whatever a missing name or an outdated copy waits for is under way.     *)
THEOREM RenewalsPending == Spec => []RInv
<1>1. Init => RInv
  BY DEF Init, RInv, ProfilesSpawned, NamesPending, CopiesPending, Unresolving, NoProfile
<1> QED
  BY <1>1, NextRenews, Invariance, PTL DEF Spec

(* However many deliveries race to insert a sender, the NULL that one of   *)
(* them writes is overwritten by the name it asks for itself.              *)
THEOREM NamesComeBack == Spec => []NameComesBack
<1>1. IInv /\ RInv => NameComesBack
  <2> SUFFICES ASSUME IInv, RInv, NEW s \in Senders, clients[s] # None, Quiet(s),
                      s \notin nameless, ~clients[s].named
               PROVE  FALSE
    BY DEF NameComesBack
  <2>1. PICK d \in Deliveries : Renews(d) /\ From(d) = s
    BY DEF RInv, NamesPending
  <2>2. task[d].msg # None
    BY <2>1, ConversationsAssumption DEF Renews, IInv, TypeOK, ProfilesHaveRows
  <2> QED
    BY <2>1, <2>2 DEF Quiet, Renews
<1> QED
  BY <1>1, RenewalsPending, Invariance, PTL

(* Whoever writes a client announces it after, so that once the caches     *)
(* have heard of everything only a late fill is out of date.               *)
THEOREM CopiesCatchUp == Spec => []CopiesAreCurrent
<1>1. IInv /\ RInv => CopiesAreCurrent
  <2> SUFFICES ASSUME IInv, RInv, NEW r \in Replicas, NEW s \in Senders, Quiet(s),
                      s \notin inbox[r], s \notin unannounced, <<r, s>> \notin late,
                      cache[r][s] \notin {None, clients[s]}
               PROVE  FALSE
    BY DEF CopiesAreCurrent
  <2>1. PICK d \in Deliveries : Announces(d) /\ From(d) = s
    BY DEF RInv, CopiesPending
  <2>2. task[d].pc # "idle"
    BY <2>1 DEF Announces, IInv, ProfilesHaveRows
  <2>3. task[d].msg # None
    BY <2>2, ConversationsAssumption DEF IInv, TypeOK
  <2> QED
    BY <2>1, <2>3 DEF Quiet, Announces
<1> QED
  BY <1>1, RenewalsPending, Invariance, PTL

=============================================================================
