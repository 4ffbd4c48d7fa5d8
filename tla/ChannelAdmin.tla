---------------------------- MODULE ChannelAdmin ----------------------------
(***************************************************************************)
(* The life of the channels of one provider account: the requests of the   *)
(* settings panel and the OAuth callback, the row they share and what the  *)
(* provider was last told.                                                 *)
(*                                                                         *)
(* One account, so every row has the same (provider, external_key) and the *)
(* unique index lets one row exist at a time.  A request is a few database *)
(* statements and provider calls with nothing held in between, so each of  *)
(* them is one step.  Names, tokens and the wording of answers are left    *)
(* out: all tokens of an account arm and disarm the same thing.            *)
(***************************************************************************)
EXTENDS Integers

CONSTANTS Requests,     \* how many requests may be under way at once
          MaxChannels,  \* bound on the channel ids ever made up
          Provider,     \* "telegram" or "instagram"
          Ops,          \* which requests are made
          Faults

ASSUME AdminAssumption ==
    /\ MaxChannels \in Nat
    /\ Provider \in {"telegram", "instagram"}
    /\ Ops \subseteq {"create", "login", "update", "delete", "register"}
    /\ Faults \subseteq {"crash", "database", "answer"}

ChannelId == 1 .. MaxChannels
Nowhere == 0

VARIABLES
    channels,   \* each id's row: "none", "live" or "deleted"
    nextId,     \* the next fresh id
    hook,       \* the channel the provider was last armed for, or Nowhere
    chats,      \* the channels a chat refers to
    req,        \* what each request is doing
    worked,     \* history: channels once armed, or once delivered to
    orphaned,   \* history: channels whose insert was left without a rollback
    connected,  \* history: channels a request answered to be connected
    warned      \* channels whose last word to the operator was an error

vars == <<channels, nextId, hook, chats, req, worked, orphaned, connected, warned>>

Idle == [op |-> "none", pc |-> "idle", id |-> Nowhere, inserted |-> FALSE,
         restore |-> FALSE, rearm |-> FALSE]

Request ==
    [op : {"none"} \cup Ops,
     pc : {"idle", "upsert", "drop", "write", "arm", "armed", "refused", "disarm"},
     id : ChannelId \cup {Nowhere},
     inserted : BOOLEAN, restore : BOOLEAN, rearm : BOOLEAN]

TypeOK ==
    /\ channels \in [ChannelId -> {"none", "live", "deleted"}]
    /\ nextId \in 1 .. MaxChannels + 1
    /\ hook \in ChannelId \cup {Nowhere}
    /\ chats \subseteq ChannelId
    /\ req \in [Requests -> Request]
    /\ worked \subseteq ChannelId
    /\ orphaned \subseteq ChannelId
    /\ connected \subseteq ChannelId
    /\ warned \subseteq ChannelId

Rows == {c \in ChannelId : channels[c] # "none"}
Live(c) == channels[c] = "live"

Init ==
    /\ channels = [c \in ChannelId |-> "none"]
    /\ nextId = 1
    /\ hook = Nowhere
    /\ chats = {}
    /\ req = [q \in Requests |-> Idle]
    /\ worked = {}
    /\ orphaned = {}
    /\ connected = {}
    /\ warned = {}

At(q, pc) == req[q].pc = pc

Goto(q, pc) == req' = [req EXCEPT ![q].pc = pc]

(* Mutant of End: a request that has answered is not over.                 *)
EndAnswered(q) == req' = [req EXCEPT ![q].pc = "answered"]

End(q) == req' = [req EXCEPT ![q] = Idle]

Begin(q, op) == At(q, "idle") /\ op \in Ops

-----------------------------------------------------------------------------
(* Mutant of CreateInserts: a create that lost at the index still arms.    *)
CreateInsertsOrArms(q) ==
    /\ Begin(q, "create")
    /\ nextId <= MaxChannels
    /\ channels' = IF Rows = {} THEN [channels EXCEPT ![nextId] = "live"]
                   ELSE channels
    /\ nextId' = nextId + 1
    /\ req' = [req EXCEPT ![q] = [Idle EXCEPT !.op = "create", !.pc = "arm",
                                              !.id = nextId, !.inserted = TRUE]]
    /\ UNCHANGED <<hook, chats, worked, connected, warned, orphaned>>

(* create: the INSERT, under an id made up for it.  When the account has a *)
(* row already, deleted or not, the index refuses it: a 409 and no change. *)
CreateInserts(q) ==
    /\ Begin(q, "create")
    /\ nextId <= MaxChannels
    /\ Rows = {}
    /\ channels' = [channels EXCEPT ![nextId] = "live"]
    /\ nextId' = nextId + 1
    /\ req' = [req EXCEPT ![q] = [Idle EXCEPT !.op = "create", !.pc = "arm",
                                              !.id = nextId, !.inserted = TRUE]]
    /\ UNCHANGED <<hook, chats, worked, connected, warned, orphaned>>

(* connect (OAuth): the pre-read, which picks the id for an INSERT.        *)
LoginReads(q) ==
    /\ Begin(q, "login")
    /\ \/ /\ Rows = {}
          /\ nextId <= MaxChannels
          /\ nextId' = nextId + 1
          /\ req' = [req EXCEPT ![q] = [Idle EXCEPT !.op = "login", !.pc = "upsert",
                                                    !.id = nextId]]
       \/ \E c \in Rows :
          /\ req' = [req EXCEPT ![q] = [Idle EXCEPT !.op = "login", !.pc = "upsert",
                                                    !.id = c]]
          /\ UNCHANGED nextId
    /\ UNCHANGED <<channels, hook, chats, worked, connected, warned, orphaned>>

(* upsert_channel_by_external_key: whichever row the index finds is        *)
(* refreshed and restored; inserted is the statement's own answer.         *)
LoginUpserts(q) ==
    /\ At(q, "upsert")
    /\ \/ /\ Rows = {}
          /\ channels' = [channels EXCEPT ![req[q].id] = "live"]
          /\ req' = [req EXCEPT ![q].pc = "arm", ![q].inserted = TRUE]
       \/ \E c \in Rows :
          /\ channels' = [channels EXCEPT ![c] = "live"]
          /\ req' = [req EXCEPT ![q].pc = "arm", ![q].id = c]
    /\ UNCHANGED <<nextId, hook, chats, worked, connected, warned, orphaned>>

(* Mutant of Rearms: a restore without a new token arms nothing.           *)
RearmsForToken(c, newToken, restore) == newToken /\ (restore \/ Live(c))

(* update: what will have to be armed, decided on the row as read.         *)
Rearms(c, newToken, restore) == restore \/ (newToken /\ Live(c))

UpdateReads(q, c, newToken, restore) ==
    /\ Begin(q, "update")
    /\ c \in Rows
    /\ newToken \/ restore
    /\ \E pc \in IF newToken /\ Provider = "telegram" THEN {"drop", "write"}
                 ELSE {"write"} :
          req' = [req EXCEPT ![q] =
                    [Idle EXCEPT !.op = "update", !.pc = pc, !.id = c,
                                 !.restore = restore,
                                 !.rearm = Rearms(c, newToken, restore)]]
    /\ UNCHANGED <<channels, nextId, hook, chats, worked, connected, warned, orphaned>>

(* update: deleteWebhook with the replaced token, best effort.             *)
UpdateDropsHook(q) ==
    /\ At(q, "drop")
    /\ hook' \in {hook, Nowhere}
    /\ Goto(q, "write")
    /\ UNCHANGED <<channels, nextId, chats, worked, connected, warned, orphaned>>

(* Mutant of Written: the row is written back as it was read.              *)
WrittenAsRead(q) ==
    IF req[q].restore \/ req[q].rearm THEN "live" ELSE channels[req[q].id]

(* update_channel leaves deleted_at alone unless asked to restore.         *)
Written(q) == IF req[q].restore THEN "live" ELSE channels[req[q].id]

UpdateWrites(q) ==
    /\ At(q, "write")
    /\ req[q].id \in Rows
    /\ channels' = [channels EXCEPT ![req[q].id] = Written(q)]
    /\ IF req[q].rearm THEN Goto(q, "arm") ELSE End(q)
    /\ UNCHANGED <<nextId, hook, chats, worked, connected, warned, orphaned>>

(* The row is gone (404), or the statement failed.                         *)
UpdateFails(q) ==
    /\ At(q, "write")
    /\ req[q].id \notin Rows \/ "database" \in Faults
    /\ End(q)
    /\ warned' = warned \cup {req[q].id}
    /\ UNCHANGED <<channels, nextId, hook, chats, worked, connected, orphaned>>

(* soft_delete_channel; an unknown id is answered 204 and changes nothing. *)
DeleteWrites(q, c) ==
    /\ Begin(q, "delete")
    /\ c \in Rows
    /\ channels' = [channels EXCEPT ![c] = "deleted"]
    /\ req' = [req EXCEPT ![q] = [Idle EXCEPT !.op = "delete", !.pc = "disarm",
                                              !.id = c]]
    /\ UNCHANGED <<nextId, hook, chats, worked, connected, warned, orphaned>>

(* delete: deleteWebhook or unsubscribe, best effort.                      *)
DeleteDisarms(q) ==
    /\ At(q, "disarm")
    /\ hook' \in {hook, Nowhere}
    /\ End(q)
    /\ UNCHANGED <<channels, nextId, chats, worked, connected, warned, orphaned>>

(* register ("Check connection"): reads a live channel and arms it.        *)
RegisterReads(q, c) ==
    /\ Begin(q, "register")
    /\ Live(c)
    /\ req' = [req EXCEPT ![q] = [Idle EXCEPT !.op = "register", !.pc = "arm",
                                              !.id = c]]
    /\ UNCHANGED <<channels, nextId, hook, chats, worked, connected, warned, orphaned>>

-----------------------------------------------------------------------------
(* setWebhook or subscribe, shared by all requests that arm.               *)

ArmTaken(q) ==
    /\ At(q, "arm")
    /\ hook' = req[q].id
    /\ worked' = worked \cup {req[q].id}
    /\ Goto(q, "armed")
    /\ UNCHANGED <<channels, nextId, chats, connected, warned, orphaned>>

ArmRefused(q) ==
    /\ At(q, "arm")
    /\ Goto(q, "refused")
    /\ UNCHANGED <<channels, nextId, hook, chats, worked, connected, warned, orphaned>>

(* The HTTP timeout: an Err, though the provider did what it was told.     *)
ArmAnswerLost(q) ==
    /\ "answer" \in Faults
    /\ At(q, "armed")
    /\ Goto(q, "refused")
    /\ UNCHANGED <<channels, nextId, hook, chats, worked, connected, warned, orphaned>>

AnswerConnected(q) ==
    /\ At(q, "armed")
    /\ End(q)
    /\ connected' = connected \cup {req[q].id}
    /\ warned' = warned \ {req[q].id}
    /\ UNCHANGED <<channels, nextId, hook, chats, worked, orphaned>>

(* Mutant of RollBack: the row is soft deleted.                            *)
RollBackSoftly(q) ==
    /\ At(q, "refused")
    /\ req[q].inserted
    /\ channels' = [channels EXCEPT ![req[q].id] = "deleted"]
    /\ End(q)
    /\ warned' = warned \cup {req[q].id}
    /\ UNCHANGED <<nextId, hook, chats, worked, connected, orphaned>>

(* Whoever inserted the row removes it with hard_delete_channel.  A chat   *)
(* that refers to it makes the foreign key refuse the DELETE, and any      *)
(* statement may fail: logged, and the row stays.                          *)
RollBack(q) ==
    /\ At(q, "refused")
    /\ req[q].inserted
    /\ \/ /\ req[q].id \notin chats
          /\ channels' = [channels EXCEPT ![req[q].id] = "none"]
          /\ UNCHANGED orphaned
       \/ /\ req[q].id \in chats
          /\ UNCHANGED <<channels, orphaned>>
       \/ /\ "database" \in Faults
          /\ orphaned' = orphaned \cup {req[q].id}
          /\ UNCHANGED channels
    /\ End(q)
    /\ warned' = warned \cup {req[q].id}
    /\ UNCHANGED <<nextId, hook, chats, worked, connected>>

(* Everybody else keeps the row and reports: update and register with an   *)
(* error, a login with a warning on a channel it calls connected.          *)
AnswerUnarmed(q) ==
    /\ At(q, "refused")
    /\ ~req[q].inserted
    /\ End(q)
    /\ warned' = warned \cup {req[q].id}
    /\ connected' = IF req[q].op = "login" THEN connected \cup {req[q].id}
                    ELSE connected
    /\ UNCHANGED <<channels, nextId, hook, chats, worked, orphaned>>

-----------------------------------------------------------------------------
(* Telegram delivers to the URL it was given, which names a channel id;    *)
(* Instagram's events name the account, and find its live row.             *)
Reaches(c) == Live(c) /\ (IF Provider = "telegram" THEN hook = c ELSE hook # Nowhere)

(* A customer's first message makes a chat that refers to the channel.     *)
CustomerWrites(c) ==
    /\ Reaches(c)
    /\ chats' = chats \cup {c}
    /\ worked' = worked \cup {c}
    /\ UNCHANGED <<channels, nextId, hook, req, connected, warned, orphaned>>

Crash ==
    /\ "crash" \in Faults
    /\ \E q \in Requests : ~At(q, "idle")
    /\ req' = [q \in Requests |-> Idle]
    /\ orphaned' = orphaned \cup {req[q].id : q \in {p \in Requests : req[p].inserted}}
    /\ UNCHANGED <<channels, nextId, hook, chats, worked, connected, warned>>

Next ==
    \/ \E q \in Requests :
         \/ CreateInserts(q)
         \/ LoginReads(q)
         \/ LoginUpserts(q)
         \/ UpdateDropsHook(q)
         \/ UpdateWrites(q)
         \/ UpdateFails(q)
         \/ DeleteDisarms(q)
         \/ ArmTaken(q)
         \/ ArmRefused(q)
         \/ ArmAnswerLost(q)
         \/ AnswerConnected(q)
         \/ RollBack(q)
         \/ AnswerUnarmed(q)
    \/ \E q \in Requests, c \in ChannelId :
         \/ DeleteWrites(q, c)
         \/ RegisterReads(q, c)
         \/ \E newToken, restore \in BOOLEAN : UpdateReads(q, c, newToken, restore)
    \/ \E c \in ChannelId : CustomerWrites(c)
    \/ Crash

Spec == Init /\ [][Next]_vars

-----------------------------------------------------------------------------
(* Properties.                                                             *)

(* The account's identity is not occupied by a channel that never worked:  *)
(* its creator is still on it, or it was armed or delivered to, or the     *)
(* process died over it or the rollback's own statement failed.  The       *)
(* reason the rollbacks of create and connect are physical (channels.rs    *)
(* create_telegram): a soft delete "would occupy this bot's identity       *)
(* forever".                                                               *)
NeverWorkedIsRemoved ==
    \A c \in Rows \ (worked \cup orphaned) :
        \E q \in Requests : req[q].inserted /\ req[q].id = c

(* A deleted channel comes back only by a request that was asked to bring  *)
(* it back: an update that read the row while it was live and writes it    *)
(* after the delete does not undo it (update_channel's COALESCEs).         *)
DeletedStaysDeleted ==
    [][\A c \in ChannelId :
          channels[c] = "deleted" /\ channels'[c] = "live" =>
              \E q \in Requests :
                  \/ At(q, "write") /\ req[q].restore /\ req[q].id = c
                  \/ At(q, "upsert")]_vars

(* Whatever the requests and faults, a live channel's webhook is repointed *)
(* only by a request that had read its row before a rollback removed it:   *)
(* the INSERT comes before setWebhook, so one that loses at the index arms *)
(* nothing ("a live channel's webhook cannot be hijacked", tech_debt.md),  *)
(* and the row an armed request inserted is still its own.                 *)
OnlyStaleReadsSteal ==
    [][\A c \in ChannelId :
          Live(c) /\ hook = c /\ hook' \notin {c, Nowhere} =>
              \E q \in Requests :
                  /\ At(q, "arm") /\ req[q].id = hook'
                  /\ ~req[q].inserted
                  /\ req[q].id \notin Rows]_vars

(* One request after the other, whatever the sequence and whatever the     *)
(* provider refuses: a live channel no event reaches is one whose last     *)
(* request told the operator of a failure.                                 *)
DeafIsReported ==
    (\A q \in Requests : At(q, "idle")) =>
        \A c \in Rows : Live(c) /\ ~Reaches(c) => c \in warned

-----------------------------------------------------------------------------
(* What the repository says of the program, and the code does not keep.    *)

(* oauth.rs: the rollback trusts "`inserted`, never the pre-read", lest it *)
(* "hard-delete a live channel".                                           *)
ConnectedIsKept == connected \subseteq Rows
=============================================================================
