--------------------------- MODULE Conversations ---------------------------
(***************************************************************************)
(* From a customer's message to the row it is stored in: who wrote it      *)
(* (resolve_instagram_client, resolve_telegram_client and upsert_client),  *)
(* which chat it belongs to (find_or_create_chat), and the client cache    *)
(* of each replica.  A webhook is one delivery, handled by a task; the     *)
(* provider may deliver a message again, and the profile of a sender is    *)
(* fetched and stored by a task of its own.                                *)
(*                                                                         *)
(* One channel.  Ids are fresh uuids: the one a delivery would give to a   *)
(* client or to a chat is written as the delivery itself.  The module ends *)
(* where OperatorPage and WidgetPage begin.                                *)
(***************************************************************************)
EXTENDS Integers, FiniteSets

CONSTANTS Deliveries,   \* the webhooks that carry a message
          Replicas,
          Instagram,    \* senders whose name has to be asked for
          Telegram,     \* senders whose update carries their name
          Numbers,      \* a sender's messages
          Faults,
          None

Senders == Instagram \cup Telegram
Messages == Senders \X Numbers

Client == [id : Deliveries, named : BOOLEAN]
Chat == [id : Deliveries, client : Deliveries]
Stored == [sender : Deliveries \cup {None}, chat : Deliveries \cup {None}]

ASSUME ConversationsAssumption ==
    /\ Instagram \cap Telegram = {}
    /\ Faults \subseteq {"crash", "database", "profile", "redis"}
    /\ None \notin Deliveries \cup Replicas \cup Messages \cup Client \cup Stored

VARIABLES
    clients,     \* the row of each sender: its id, and whether it has a name
    chats,       \* the active chats of the channel
    stored,      \* the messages table
    cache,       \* each replica's copies of the clients' rows
    inbox,       \* invalidations on their way to a replica's listener
    task,        \* where each delivery is
    profile,     \* the task a delivery spawned to renew the sender's profile
    failed,      \* history: messages one of whose deliveries lost a step
    nameless,    \* history: senders whose profile could not be had or kept
    unannounced, \* history: senders one of whose writes was not announced
    late         \* history: copies that were outdated when they were made

vars == <<clients, chats, stored, cache, inbox, task, profile, failed,
          nameless, unannounced, late>>

(* The three lookups of a delivery: the sender by external id, the verified *)
(* client and the author of the event by uuid.                              *)
Lookups == {"resolve", "verify", "sender"}

Task == [pc : Lookups \cup {"idle", "fill", "insert", "announce", "chat",
                            "insertChat", "chatAgain", "store", "done"},
         at : Replicas \cup {None},
         msg : Messages \cup {None},
         lookup : Lookups,                 \* for which a row is being filled in
         row : Client \cup {None},
         client : Deliveries \cup {None},
         chat : Deliveries \cup {None}]

Unborn == [pc |-> "idle", at |-> None, msg |-> None, lookup |-> "resolve",
           row |-> None, client |-> None, chat |-> None]

Profile == [pc : {"none", "fetch", "write", "announce"}, named : BOOLEAN]
NoProfile == [pc |-> "none", named |-> FALSE]

From(d) == task[d].msg[1]

TypeOK ==
    /\ clients \in [Senders -> Client \cup {None}]
    /\ chats \subseteq Chat
    /\ stored \in [Messages -> Stored \cup {None}]
    /\ cache \in [Replicas -> [Senders -> Client \cup {None}]]
    /\ inbox \in [Replicas -> SUBSET Senders]
    /\ task \in [Deliveries -> Task]
    /\ \A d \in Deliveries :
          /\ task[d].pc # "idle" => task[d].at \in Replicas /\ task[d].msg \in Messages
          /\ task[d].pc = "fill" => task[d].row \in Client
          /\ task[d].pc \in {"chat", "insertChat", "chatAgain"} => task[d].client # None
    /\ profile \in [Deliveries -> Profile]
    /\ failed \subseteq Messages
    /\ nameless \subseteq Senders
    /\ unannounced \subseteq Senders
    /\ late \subseteq Replicas \X Senders

Init ==
    /\ clients = [s \in Senders |-> None]
    /\ chats = {}
    /\ stored = [m \in Messages |-> None]
    /\ cache = [r \in Replicas |-> [s \in Senders |-> None]]
    /\ inbox = [r \in Replicas |-> {}]
    /\ task = [d \in Deliveries |-> Unborn]
    /\ profile = [d \in Deliveries |-> NoProfile]
    /\ failed = {}
    /\ nameless = {}
    /\ unannounced = {}
    /\ late = {}

At(d, pc) == task[d].pc = pc
Goto(d, pc) == task' = [task EXCEPT ![d].pc = pc]

(* publish_invalidation reaches every replica, the publisher's included.   *)
Announce(s) == inbox' = [r \in Replicas |-> inbox[r] \cup {s}]

IdOf(s) == IF clients[s] = None THEN None ELSE clients[s].id

Exists(id) == \E s \in Senders : clients[s] # None /\ clients[s].id = id

-----------------------------------------------------------------------------
(* The lookups in the client cache.                                        *)

Arrives(d, r, m) ==
    /\ At(d, "idle")
    /\ task' = [task EXCEPT ![d] = [Unborn EXCEPT !.pc = "resolve", !.at = r, !.msg = m]]
    /\ UNCHANGED <<clients, chats, stored, cache, inbox, profile, failed,
                   nameless, unannounced, late>>

(* A copy may be older than a day, or not: then the profile is renewed,    *)
(* for Instagram by a call, for Telegram from the update.                  *)
Renewals(d) ==
    {NoProfile,
     IF From(d) \in Instagram THEN [pc |-> "fetch", named |-> FALSE]
     ELSE [pc |-> "write", named |-> TRUE]}

(* What the delivery does with the row a lookup gave it.                   *)
Answered(d, lookup, row) ==
    \/ /\ lookup = "resolve"
       /\ task' = [task EXCEPT ![d].pc = "verify", ![d].client = row.id, ![d].row = None]
       /\ \E p \in Renewals(d) : profile' = [profile EXCEPT ![d] = p]
    \/ /\ lookup = "verify"
       /\ task' = [task EXCEPT ![d].pc = "chat", ![d].lookup = "resolve", ![d].row = None]
       /\ UNCHANGED profile
    \/ /\ lookup = "sender"
       /\ task' = [task EXCEPT ![d].pc = "done", ![d].lookup = "resolve", ![d].row = None]
       /\ UNCHANGED profile

(* The replica's copy that a lookup by external id, or by uuid, finds.     *)
CopyFor(d) ==
    LET copy == cache[task[d].at][From(d)]
    IN  IF copy = None \/ At(d, "resolve") THEN copy
        ELSE IF copy.id = task[d].client THEN copy ELSE None

Hits(d) ==
    /\ task[d].pc \in Lookups
    /\ CopyFor(d) # None
    /\ Answered(d, task[d].pc, CopyFor(d))
    /\ UNCHANGED <<clients, chats, stored, cache, inbox, failed,
                   nameless, unannounced, late>>

(* By external id the row may be missed though it is there: the index is   *)
(* filled after it and emptied after it.                                   *)
Reads(d) ==
    /\ task[d].pc \in Lookups
    /\ CopyFor(d) = None \/ At(d, "resolve")
    /\ IF At(d, "resolve") THEN clients[From(d)] # None ELSE Exists(task[d].client)
    /\ task' = [task EXCEPT ![d].pc = "fill", ![d].lookup = task[d].pc,
                            ![d].row = clients[From(d)]]
    /\ UNCHANGED <<clients, chats, stored, cache, inbox, profile, failed,
                   nameless, unannounced, late>>

Fills(d) ==
    LET r == task[d].at
        s == From(d)
        row == task[d].row
    IN  /\ At(d, "fill")
        /\ cache' = [cache EXCEPT ![r][s] = row]
        /\ late' = IF row = clients[s] THEN late \ {<<r, s>>} ELSE late \cup {<<r, s>>}
        /\ Answered(d, task[d].lookup, row)
        /\ UNCHANGED <<clients, chats, stored, inbox, failed, nameless, unannounced>>

(* Mutant of Unresolved: the chat is looked for all the same.              *)
UnresolvedYet(d) ==
    task' = [task EXCEPT ![d].pc = "chat", ![d].client = None]

(* The message of a sender nobody could name is stored without a chat.     *)
Unresolved(d) ==
    task' = [task EXCEPT ![d].pc = "store", ![d].client = None]

(* No row of that id, or the statement failed.                             *)
LookupFails(d) ==
    /\ task[d].pc \in Lookups
    /\ \/ At(d, "verify") /\ ~Exists(task[d].client) /\ UNCHANGED failed
       \/ "database" \in Faults /\ failed' = failed \cup {task[d].msg}
    /\ IF At(d, "sender") THEN Goto(d, "done") ELSE Unresolved(d)
    /\ UNCHANGED <<clients, chats, stored, cache, inbox, profile,
                   nameless, unannounced, late>>

-----------------------------------------------------------------------------
(* A sender who has no row yet.                                            *)

IsNew(d) ==
    /\ At(d, "resolve")
    /\ clients[From(d)] = None
    /\ Goto(d, "insert")
    /\ UNCHANGED <<clients, chats, stored, cache, inbox, profile, failed,
                   nameless, unannounced, late>>

(* upsert_client: the row keeps its id and takes the name it is given.     *)
Upserted(s, id, named) ==
    [clients EXCEPT ![s] = IF @ = None THEN [id |-> id, named |-> named]
                           ELSE [@ EXCEPT !.named = named]]

(* Mutant of Returned: the id that was offered.                            *)
Offered(s, id) == id

(* RETURNING id: the row's own when there is one.                          *)
Returned(s, id) == IF clients[s] = None THEN id ELSE clients[s].id

(* Mutant of AsksForName: only who made the row asks.                      *)
AsksForNameOnce(d) == clients[From(d)] = None

AsksForName(d) == TRUE

(* The row is written before the message is.  Instagram gives it no name   *)
(* and leaves the name, and the announcement, to the task it spawns.       *)
InsertsInstagram(d) ==
    /\ At(d, "insert")
    /\ From(d) \in Instagram
    /\ clients' = Upserted(From(d), d, FALSE)
    /\ task' = [task EXCEPT ![d].pc = "verify", ![d].client = Returned(From(d), d)]
    /\ profile' = [profile EXCEPT ![d] =
                     IF AsksForName(d) THEN [pc |-> "fetch", named |-> FALSE] ELSE NoProfile]
    /\ UNCHANGED <<chats, stored, cache, inbox, failed, nameless, unannounced, late>>

InsertsTelegram(d) ==
    /\ At(d, "insert")
    /\ From(d) \in Telegram
    /\ clients' = Upserted(From(d), d, TRUE)
    /\ task' = [task EXCEPT ![d].pc = "announce", ![d].client = Returned(From(d), d)]
    /\ UNCHANGED <<chats, stored, cache, inbox, profile, failed, nameless, unannounced, late>>

InsertAnnounced(d) ==
    /\ At(d, "announce")
    /\ Announce(From(d))
    /\ Goto(d, "verify")
    /\ UNCHANGED <<clients, chats, stored, cache, profile, failed,
                   nameless, unannounced, late>>

InsertUnannounced(d) ==
    /\ "redis" \in Faults
    /\ At(d, "announce")
    /\ unannounced' = unannounced \cup {From(d)}
    /\ Goto(d, "verify")
    /\ UNCHANGED <<clients, chats, stored, cache, inbox, profile, failed,
                   nameless, late>>

InsertFails(d) ==
    /\ "database" \in Faults
    /\ At(d, "insert")
    /\ failed' = failed \cup {task[d].msg}
    /\ Unresolved(d)
    /\ UNCHANGED <<clients, chats, stored, cache, inbox, profile,
                   nameless, unannounced, late>>

-----------------------------------------------------------------------------
(* find_or_create_chat.  Chats are not closed: status never leaves 'new'.  *)

ChatsOf(id) == {c \in chats : c.client = id}

(* Mutant of ActiveChatConflicts: a table without idx_chats_active.        *)
NothingConflicts(id) == FALSE

ActiveChatConflicts(id) == ChatsOf(id) # {}

FindsChat(d) ==
    /\ task[d].pc \in {"chat", "chatAgain"}
    /\ \E c \in ChatsOf(task[d].client) :
          task' = [task EXCEPT ![d].pc = "store", ![d].chat = c.id]
    /\ UNCHANGED <<clients, chats, stored, cache, inbox, profile, failed,
                   nameless, unannounced, late>>

HasNoChat(d) ==
    /\ At(d, "chat")
    /\ ChatsOf(task[d].client) = {}
    /\ Goto(d, "insertChat")
    /\ UNCHANGED <<clients, chats, stored, cache, inbox, profile, failed,
                   nameless, unannounced, late>>

CreatesChat(d) ==
    /\ At(d, "insertChat")
    /\ ~ActiveChatConflicts(task[d].client)
    /\ chats' = chats \cup {[id |-> d, client |-> task[d].client]}
    /\ task' = [task EXCEPT ![d].pc = "store", ![d].chat = d]
    /\ UNCHANGED <<clients, stored, cache, inbox, profile, failed,
                   nameless, unannounced, late>>

(* Mutant of ChatIsTaken: any error of the INSERT gives the chat up.       *)
ChatIsTakenAway(d) ==
    At(d, "insertChat") /\ ActiveChatConflicts(task[d].client) /\ Goto(d, "store")

(* The unique violation: somebody else made it, so it is read again.       *)
ChatIsTaken(d) ==
    At(d, "insertChat") /\ ActiveChatConflicts(task[d].client) /\ Goto(d, "chatAgain")

LosesChatRace(d) ==
    /\ ChatIsTaken(d)
    /\ UNCHANGED <<clients, chats, stored, cache, inbox, profile, failed,
                   nameless, unannounced, late>>

(* Any other error: the message goes without a chat.                       *)
ChatFails(d) ==
    /\ "database" \in Faults
    /\ task[d].pc \in {"chat", "insertChat", "chatAgain"}
    /\ failed' = failed \cup {task[d].msg}
    /\ Goto(d, "store")
    /\ UNCHANGED <<clients, chats, stored, cache, inbox, profile,
                   nameless, unannounced, late>>

-----------------------------------------------------------------------------
(* insert_message.  A duplicate is skipped.                                *)

Stores(d) ==
    /\ At(d, "store")
    /\ stored[task[d].msg] = None
    /\ stored' = [stored EXCEPT ![task[d].msg] =
                    [sender |-> task[d].client, chat |-> task[d].chat]]
    /\ task' = [task EXCEPT ![d].pc = IF task[d].client = None THEN "done" ELSE "sender",
                            ![d].chat = None]
    /\ UNCHANGED <<clients, chats, cache, inbox, profile, failed,
                   nameless, unannounced, late>>

SkipsDuplicate(d) ==
    /\ At(d, "store")
    /\ stored[task[d].msg] # None
    /\ Goto(d, "done")
    /\ UNCHANGED <<clients, chats, stored, cache, inbox, profile, failed,
                   nameless, unannounced, late>>

StoreFails(d) ==
    /\ "database" \in Faults
    /\ At(d, "store")
    /\ failed' = failed \cup {task[d].msg}
    /\ Goto(d, "done")
    /\ UNCHANGED <<clients, chats, stored, cache, inbox, profile,
                   nameless, unannounced, late>>

-----------------------------------------------------------------------------
(* The spawned tasks: fetch_and_upsert_instagram_client and the refresh of *)
(* spawn_telegram_upsert, which has nothing to fetch.                      *)

ProfileAnswers(d) ==
    /\ profile[d].pc = "fetch"
    /\ profile' = [profile EXCEPT ![d] = [pc |-> "write", named |-> TRUE]]
    /\ UNCHANGED <<clients, chats, stored, cache, inbox, task, failed,
                   nameless, unannounced, late>>

(* No answer, or none with a name: the row is written all the same.        *)
ProfileFails(d) ==
    /\ "profile" \in Faults
    /\ profile[d].pc = "fetch"
    /\ profile' = [profile EXCEPT ![d] = [pc |-> "write", named |-> FALSE]]
    /\ nameless' = nameless \cup {From(d)}
    /\ UNCHANGED <<clients, chats, stored, cache, inbox, task, failed,
                   unannounced, late>>

(* Mutant of ProfileIsWritten: the write is not announced.                 *)
ProfileIsWrittenSilently(d) ==
    /\ profile[d].pc = "write"
    /\ clients' = Upserted(From(d), task[d].client, profile[d].named)
    /\ profile' = [profile EXCEPT ![d] = NoProfile]
    /\ UNCHANGED <<chats, stored, cache, inbox, task, failed,
                   nameless, unannounced, late>>

ProfileIsWritten(d) ==
    /\ profile[d].pc = "write"
    /\ clients' = Upserted(From(d), task[d].client, profile[d].named)
    /\ profile' = [profile EXCEPT ![d].pc = "announce"]
    /\ UNCHANGED <<chats, stored, cache, inbox, task, failed,
                   nameless, unannounced, late>>

ProfileWriteFails(d) ==
    /\ "database" \in Faults
    /\ profile[d].pc = "write"
    /\ profile' = [profile EXCEPT ![d] = NoProfile]
    /\ nameless' = nameless \cup {From(d)}
    /\ unannounced' = unannounced \cup {From(d)}
    /\ UNCHANGED <<clients, chats, stored, cache, inbox, task, failed, late>>

ProfileIsAnnounced(d) ==
    /\ profile[d].pc = "announce"
    /\ Announce(From(d))
    /\ profile' = [profile EXCEPT ![d] = NoProfile]
    /\ UNCHANGED <<clients, chats, stored, cache, task, failed,
                   nameless, unannounced, late>>

ProfileIsUnannounced(d) ==
    /\ "redis" \in Faults
    /\ profile[d].pc = "announce"
    /\ unannounced' = unannounced \cup {From(d)}
    /\ profile' = [profile EXCEPT ![d] = NoProfile]
    /\ UNCHANGED <<clients, chats, stored, cache, inbox, task, failed,
                   nameless, late>>

-----------------------------------------------------------------------------
(* The listener of a replica, and a replica that dies.                     *)

Evicts(r, s) ==
    /\ s \in inbox[r]
    /\ inbox' = [inbox EXCEPT ![r] = @ \ {s}]
    /\ cache' = [cache EXCEPT ![r][s] = None]
    /\ late' = late \ {<<r, s>>}
    /\ UNCHANGED <<clients, chats, stored, task, profile, failed,
                   nameless, unannounced>>

(* The tasks of its webhooks, which were answered before, are gone, and so *)
(* are those they spawned; its caches and its subscription start anew.     *)
Crash(r) ==
    LET Here == {d \in Deliveries : task[d].at = r}
        Running == {d \in Here : ~At(d, "done")}
        Spawned == {d \in Here : profile[d].pc # "none"}
    IN  /\ "crash" \in Faults
        /\ Running \cup Spawned # {}
        /\ task' = [d \in Deliveries |->
                      IF d \in Running THEN [task[d] EXCEPT !.pc = "done", !.row = None]
                      ELSE task[d]]
        /\ profile' = [d \in Deliveries |-> IF d \in Spawned THEN NoProfile ELSE profile[d]]
        /\ failed' = failed \cup {task[d].msg : d \in Running}
        /\ nameless' = nameless \cup {From(d) : d \in Spawned}
        /\ unannounced' = unannounced \cup {From(d) : d \in Spawned}
                                      \cup {From(d) : d \in {e \in Running : At(e, "announce")}}
        /\ cache' = [cache EXCEPT ![r] = [s \in Senders |-> None]]
        /\ inbox' = [inbox EXCEPT ![r] = {}]
        /\ late' = late \ ({r} \X Senders)
        /\ UNCHANGED <<clients, chats, stored>>

DeliveryNext(d) ==
    \/ Hits(d) \/ Reads(d) \/ Fills(d) \/ LookupFails(d)
    \/ IsNew(d) \/ InsertsInstagram(d) \/ InsertsTelegram(d)
    \/ InsertAnnounced(d) \/ InsertUnannounced(d) \/ InsertFails(d)
    \/ FindsChat(d) \/ HasNoChat(d) \/ CreatesChat(d) \/ LosesChatRace(d) \/ ChatFails(d)
    \/ Stores(d) \/ SkipsDuplicate(d) \/ StoreFails(d)

ProfileNext(d) ==
    \/ ProfileAnswers(d) \/ ProfileFails(d)
    \/ ProfileIsWritten(d) \/ ProfileWriteFails(d)
    \/ ProfileIsAnnounced(d) \/ ProfileIsUnannounced(d)

Next ==
    \/ \E d \in Deliveries, r \in Replicas, m \in Messages : Arrives(d, r, m)
    \/ \E d \in Deliveries : DeliveryNext(d) \/ ProfileNext(d)
    \/ \E r \in Replicas, s \in Senders : Evicts(r, s)
    \/ \E r \in Replicas : Crash(r)

Spec == Init /\ [][Next]_vars

-----------------------------------------------------------------------------
(* Properties.                                                             *)

(* Racing first messages converge: whatever is stored of one sender, by    *)
(* whichever replica, carries the id of the sender's one row and lies in   *)
(* one chat, which is that client's.                                       *)
OneConversation ==
    \A m, n \in Messages :
        stored[m] # None /\ stored[n] # None /\ m[1] = n[1] =>
            /\ stored[m].sender \in {None, IdOf(m[1])}
            /\ stored[m].chat # None =>
                  [id |-> stored[m].chat, client |-> IdOf(m[1])] \in chats
            /\ stored[m].chat = stored[n].chat \/ None \in {stored[m].chat, stored[n].chat}

(* No message is stored outside of its conversation, a new sender's first  *)
(* included, unless a statement failed or a replica died on one of its     *)
(* deliveries.                                                             *)
FiledUnlessFailed ==
    \A m \in Messages :
        stored[m] # None /\ None \in {stored[m].chat, stored[m].sender} => m \in failed

(* Nothing that writes s, or announces what was written, is under way.     *)
Quiet(s) ==
    \A d \in Deliveries :
        task[d].msg # None /\ From(d) = s =>
            profile[d].pc = "none" /\ task[d].pc \notin {"insert", "announce"}

(* A racing insert writes NULL over a name that is already known.  Once    *)
(* the tasks have run the name is there again, unless a profile could not  *)
(* be fetched or stored.                                                   *)
NameComesBack ==
    \A s \in Senders :
        clients[s] # None /\ Quiet(s) /\ s \notin nameless => clients[s].named

(* Once everything written of a sender has been announced and evicted, a   *)
(* replica's copy is outdated only when a lookup overtook an eviction or   *)
(* an announcement was lost, though Instagram's first write has none.      *)
CopiesAreCurrent ==
    \A r \in Replicas, s \in Senders :
        Quiet(s) /\ s \notin inbox[r] /\ s \notin unannounced /\ <<r, s>> \notin late =>
            cache[r][s] \in {None, clients[s]}

=============================================================================
