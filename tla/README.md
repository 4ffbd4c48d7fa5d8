# Chatbridge: a TLA+ model

Chatbridge connects customers who write on Instagram, Telegram or a web widget with operators
who answer in a browser panel. It is a Rust service (axum, sqlx, Redis) that may run as several
replicas over one Postgres. This directory models the parts of it where order, failure and
concurrency decide whether it is correct: what happens to a reply between the panel and the
provider, to a customer's message between the webhook and its chat, to a message between the
table and the two pages, to a channel between the settings panel and the provider, to its token
over the months, and to cached rows when the table changes.

Run a model with `tlc -config X.cfg M`, check the proofs with `tlapm M_proofs.tla` for
`ReplyDelivery`, `ChannelAdmin`, `ChannelCache`, `Conversations`, `TokenRefresh`, `OperatorPage` and
`WidgetPage` (`PageSequences.tla` holds the lemmas the last two share). Paths below are relative to the
repository unless they name a `.tla` file.

## The system

| Component | State | Operations | Interacts with |
|---|---|---|---|
| Message store (`src/db.rs`) | `messages`: external id unique per channel, sender, status `new/delivered/read/failed` | insert, edit, watermark read, chat sweep, adopt the provider's id, mark delivered, mark failed | everything below |
| Pipeline (`src/pipeline.rs`) | none | `persist_and_publish` for messages, edits and reads | store, Redis |
| Webhooks (`src/handler/webhook.rs`, `src/provider/`) | none | Instagram and Telegram ingest | channel cache, clients, pipeline |
| Operator socket (`src/handler/operator_ws.rs`) | a socket, its queue | send, edit, read; spawns a delivery task per reply | store, providers, registry |
| Widget socket (`src/handler/widget_ws.rs`) | a socket, its queue | connect and chat event, send, edit, read, ping | store, registry |
| Listener and registry (`src/listener.rs`, `src/registry.rs`) | connections by id, operator ids, a queue of 64 per connection | register, deregister, send to an id | Redis, sockets |
| Channels (`src/handler/channels.rs`, `connection.rs`, `oauth.rs`) | `channels`: one row per account, soft deleted | create, update, restore, delete, re-register, OAuth connect | provider (webhook, subscription), cache |
| Caches (`src/cache.rs`) | channels by id and by key, clients, operators, chats | read-through lookup, invalidation locally and by Redis | store, Redis |
| Clients and chats (`src/db.rs`, `src/provider/`) | `clients`, `chats` with one active chat per pair | upsert a client, find or create a chat | pipeline |
| Token refresher (`src/refresh.rs`) | none | renew Instagram tokens hourly | provider, store, cache |
| Pages (`frontend/`) | the DOM, `renderedIds`, sent messages | widget, operator panel, settings | sockets, HTTP API |
| Start and stop (`src/main.rs`) | shutdown token | graceful drain of ten seconds | all tasks |

What is hard: every webhook, socket and delivery is a task of its own and a request is a few
statements and calls with nothing held between them. Providers deliver webhooks again and out of
order; calls time out after they took effect; a crash loses every task, and nothing outbound is
retried. Redis publications are fire and forget. The code's own answers to this are the unique
indexes, conditional updates, a watermark, physical rollbacks and evictions; the properties are
about whether they suffice.

What makes each part correct:

- *Store and delivery.* One row per message of the provider's thread and the right one; a read
  receipt reaches the reply it names whatever overtook it; a finished delivery shows; the status
  only climbs the ladder; a customer gets a text once.
- *Conversations.* A customer is one client with one active chat per channel, and every message of
  theirs is in it; a name once fetched comes back.
- *Channels.* A refused creation leaves nothing behind; a delete is not undone by a request that
  did not mean to; a live channel's webhook points at it; an operator is told when it does not.
- *Cache.* After a change and its evictions, no replica serves what was there before.
- *Token.* The stored expiry is the stored token's; a channel in use never holds an expired one; a
  reconnect heals; a refresh brings no deleted channel back.
- *Fan-out and pages.* Between the history and the live events nothing is missed and nothing shown
  twice; what is shown is what the table has, ticks and texts included, once everything arrived;
  nothing counts as read that was not on a screen, and nobody is told otherwise.

## Modules

### `MessageStore.tla`, `ReplyDelivery.tla`, `ReplyLife.tla`: replies on Instagram

`MessageStore` is the table and the statements of `src/db.rs` as operators on it: `Insert` with
its `ON CONFLICT DO NOTHING`, `Unread`/`UpTo` (watermark), `WholeChat` (sweep), `MarkDeliveredRow`
and `MarkFailedRow` with their `status = 'new'` guards, `Adopt`.

`ReplyDelivery` composes it with the tasks and with the provider. `OperatorSends` is
`process_operator_message` up to the commit; `task` holds where the row's delivery task is.
`ProviderTakes`/`ProviderRefuses` happen at the provider, `AnswerArrives`/`AnswerLost` at the
task; `MarkDelivered` and `MarkUndelivered` are its marks. `adopt_external_message_id` is a
transaction at READ COMMITTED, so its statements are three steps (`AdoptClaim`, `AdoptCommit` or
`AdoptRefused`) between which others commit; `AdoptFails` is a failed statement. `EchoArrives`,
`InboundArrives`, `ReceiptAnchored`, `ReceiptSweeps`, `ReceiptDropped` are the webhooks, which may
come in any order and any number of times; a receipt is two statements, the watermark and, when
it marked nothing, the sweep, and they are separate steps. `Crash` kills all tasks. `origin` is
the provider's thread: what its p-th message is a copy of.

`ReplyLife` is the abstract specification: each reply is `new`, `delivered`, `read` or `failed`
and moves only along the ladder of `MessageStatus`. `KeepsReplyLife` says that `ReplyDelivery`
implements it; the mapping is the status column, with dropped and absent rows.

Abstractions. One channel, one customer, one active chat. `created_at` is the order of insertion
(rows are numbered). A receipt without a message id behaves as one with an unknown one. Texts and
names are left out. Row locks are linearised: a statement that would wait is a step that happens
later.

### `Conversations.tla`: from a webhook to the chat

One channel and some senders, of whom those in `Instagram` have to be asked for their name and
those in `Telegram` bring it along. `task` is where each delivery is: resolving its sender by
external id, verifying the client by uuid, looking up the author of the stored row (three lookups
through the cache of its replica: `Hits`, `Reads` and `Fills`, `LookupFails`), inserting an unknown
sender (`IsNew`, `InsertsInstagram`, `InsertsTelegram` and its announcement), finding or making the
chat (`FindsChat`, `HasNoChat`, `CreatesChat`, `LosesChatRace`, `ChatFails`), storing (`Stores`,
`SkipsDuplicate`, `StoreFails`). `profile` is the task a delivery may have spawned to renew the
sender's profile: fetch, write, announce. `clients` and `chats` are the tables; fresh uuids are
written as the delivery that drew them.

Abstractions. A name is there or not. Time is not modelled: a copy may be found older than a day at
any lookup. The cache is one map per replica; the provider's id of a client never changes, so of
its two maps the index can only be missing, and a lookup by external id may read the table although
the row is cached. The chat cache holds what never changes, so its invalidation is left out. Chats
are never closed, because nothing in the code changes their status.

### `ChannelAdmin.tla`: the life of a channel

One provider account, so the unique index allows one row. A request (`req`) is at the statement or
provider call it will do next: `CreateInserts`, `LoginReads`/`LoginUpserts`, `UpdateReads`/
`UpdateDropsHook`/`UpdateWrites`/`UpdateFails`, `DeleteWrites`/`DeleteDisarms`, `RegisterReads`,
and, shared, `ArmTaken`/`ArmRefused`/`ArmAnswerLost` for setWebhook and subscribe, then
`AnswerConnected`, `RollBack` or `AnswerUnarmed`. `hook` is what the provider was last told. For
Telegram that is a channel id (the URL names it), for Instagram only whether the account is
subscribed (events name the account); `Reaches` is the difference. The calls that only identify
the account (`getMe`, `/me`) change nothing and are part of the step before. A pinned reconnect
(`reconnect` of one channel) only adds refusals to a login and is left out. Ingest looks the
channel up through the cache; here it reads the table, and staleness is `ChannelCache`'s subject.

### `ChannelCache.tla`: the cache of live channels

`rows` is the table, `byId` and `extIndex` the two maps of each replica. A lookup that misses is
three steps: `LookupReads`, `FillsById`, `FillsIndex`. A mutation commits (`Creates`, `Updates`,
`SoftDeletes`), then evicts from each map, then publishes; the listener of each replica evicts
from each map. The check of the maps that precedes a lookup's read is merged with it: a lookup
that hits changes nothing. Invalidations in flight are a set per replica, since the same id twice
has the effect of once at the later moment, and their order does not matter to evictions of
distinct ids. Redis losing an invalidation is not modelled: every staleness follows from it.

### `TokenRefresh.tla`: the token of one Instagram account

A pass of a replica (`pass`) reads the due channels, asks for each renewal and writes the row:
`PassReads` or `PassHasNothingDue`, `RefreshIsGranted`/`RefreshIsRefused`/`RefreshIsLost`,
`PassWrites`. Requests (`req`) are logins (`LoginExchanges`, `LoginUpserts`) and creates
(`CreateInserts`), both of which may have to take the row back (`InsertStays`, `InsertIsUndone`);
a pasted token, a restore and a delete are one statement each (`UpdatePastes`, `UpdateRestores`,
`Deletes`). The provider issues tokens, refuses to renew young or dead ones, and takes all of them
back (`Revokes`).

Abstractions. A tick is the hour between two passes; it waits until everything under way has ended
(each call has a timeout of seconds) and, in a healthy hour, until a pass has finished somewhere; at
most `MaxOutage` hours in a row are not healthy. A renewed token's predecessor stays valid until its
own expiry. `gone` says that the row a pass read was physically removed, so that its UPDATE finds
nothing. The signed OAuth state is stateless and lives ten minutes, less than a tick; the eviction
a pass publishes is `ChannelCache`'s subject.

### `OperatorPage.tla`: one panel and its page

From the table to the bubbles. `rows` holds what customers, the operator, colleagues and the
provider's app wrote in two chats. A delivery task is in `sending` until the provider has answered:
`ProviderTakes` marks the row, or fails to, and leaves it in `adopting`; `ProviderRefuses` marks it,
or fails to, and tells the author in either case; `NothingIsSent` is a widget's chat or a task that
ends before the call. `EchoArrives` stores the echo of a reply as a message of the app, and `Adopts`
deletes it: the row joins `gone` and no event says so. (`ReplyDelivery` has the statements of the
adoption one by one; here it is one step or it fails, `AdoptionFails`.) `StatementFails` is a failed
statement of a task or of the socket (`SocketStoreFails`, `SocketReadFails`).

`events` stands for every place an event or a notice waits in: the task, Redis, the listener, the
queue; it is a set, so any may overtake any. `Reached` is `send_to` and the list of operators; `PanelRegisters` and
`PanelIsListed` are the two locks of `register`, and a second panel of the operator comes and goes
(`OtherConnects`, `OtherDisconnects`), since `deregister` asks whether it is the last.
The page: `Selects` empties the view and asks for the history, which is answered (`FetchIsAnswered`),
drawn (`FetchIsDrawn`) or lost at another moment, in whatever chat is selected by then; `PageSends`
draws a bubble under a made-up id, which the ack replaces (`PageHandlesAck`); `PageHandlesEvent` is
`handleEvent`. The socket loop reads the frames one by one: `SocketStores`, `SocketReads`.

Abstractions. The websocket's upgrade is part of the registration. Colleagues have no panel of their
own here: they write, and their replies are delivered. Own messages from the other panel, edits and
the chat list (which is reloaded as a whole) are left out. A chat has no more messages than the
history shows (`MaxRows` is at most `HistoryLimit`, by assumption). `shown`, `excused`, `mixed` and
`unrecorded` are history variables: what was ever on the screen, rows whose bubbles something raced
with, chats into which another chat's answer was drawn, refusals that were not written.

### `WidgetPage.tla`: one tab and its customer

The same for the other side, with reconnections and edits. `phase` goes through `registered`, `told`
(the chat event, which starts `loadHistory`) and `open` (the loop). A history request is answered
and drawn at different moments, above what is drawn for the first one and below it later
(`Draws`), skipping `renderedIds` (`Unrendered`); `HandlesMessage` does not skip them, as in the
code. `CustomerSends` draws a bubble that `HandlesAck` gives the row's id; `CustomerEdits` draws an
edit at once, connected or not. `SocketStores`, `SocketEdits`, `SocketStoreFails`, `SocketReads` are
`process_text_message`. `OperatorEdits` is the edit frame of the operator's socket, which takes one
although the panel that is shipped sends none. What is drawn survives a disconnection, frames and acks do not.

Abstractions. Events of one row arrive in the order of its texts (`MayArrive`), those of different
rows in any order. A customer who comes back has one unread reply; their own earlier messages are
left out. Archived chats, which only are read, and a second tab are left out. Here, too, a chat has no
more messages than the history shows. The history variables
name what raced: `lost`, `stale`, `unstored`, `overtaken`, `late`, `edited`.

## What the runs check

| Run | Question | Bounds |
|---|---|---|
| `reply_faults` | The inductive invariant, receipts, single identity, rename once, refinement, with every fault | 3 rows, 2 panel ids, 2 provider ids |
| `reply_fair` | A finished delivery shows its outcome; deliveries end; a receipt reaches its row | 3 rows, 2 provider ids |
| `channel_telegram` | Nothing that never worked stays; deletes stay; a live webhook is not stolen, with every fault | 3 concurrent requests, 2 ids |
| `channel_serial` | A deaf channel was reported, in any sequence of requests, logins included | 1 request at a time on an Instagram account, 3 ids |
| `conversations` | First messages converge on one client and chat, none is stored outside it but by a failure; names and copies recover | 2 deliveries, 2 replicas, a sender of each kind, 2 messages each |
| `cache_replicas` | Only an overtaking lookup leaves something outdated | 2 replicas, 1 channel, 2 keys, 2 lookups |
| `token_refresh` | The stored expiry is true, outages are outlived, a reconnect heals, a refresh revives nothing | 2 replicas, 1 request, 4 tokens, 5 hours, lifetime 4, threshold 2, outages of 1 |
| `operator_page` | The panel settles on what the table has; ticks, reads and "seen" are never untrue | 2 chats, 2 messages, 1 sent, 2 selections, 1 fault, customers and the app write |
| `widget_page` | A tab misses nothing, shows it once and as it is; replies are shown in the end | 3 messages, 1 sent, 1 edit, 1 fault |
| `reply_echo_race`, `reply_sweep`, `channel_two_logins` | Three statements of comments and tests that do not hold | 2 to 3 rows, requests or messages |

Why the bounds are enough to be interesting. Two rows that claim one provider id need a reply and
its echo; a sweep that goes too far needs one more reply; a resend needs two rows of one panel id:
three rows hold any two of these at once. Three requests are the most that any known channel race
takes (two that conflict and one that looks on), and with two ids a rolled back channel can be
followed by another. Logins run concurrently in `channel_two_logins` only; what `channel_telegram`
checks of three concurrent requests is a theorem for either provider and any requests. Two deliveries are the two
that race for a row; a third one of the same sender finds what they left (three deliveries without
faults pass too, but take too long to be run every time). Two keys let a channel give one up. A token's lifetime of four hours
has every relation of the real one to the threshold and the minimal age: too young to renew, fine,
due, dead; four tokens are enough for two replicas to renew one token while a login stores another.
On the operator's panel two chats are what a late answer needs, two messages what a read needs to
overtake one and what a reply and its echo are; three clicks, sendings and failures together are
allowed. A colleague's replies differ from the app's messages in their delivery only; with them and
one click or failure less it takes too long to be run every time (7,411,280 states, no error). Three messages in the widget
give one before, one during and one after a connection; one failure is one reconnection, one lost
event, one failed statement or one failed load (two failures with fewer messages pass, too, but take
too long to be run every time). `MaxVersion`, `MaxRows`, `MaxChannels`, `MaxTokens` bound counters
only. What the theorems below cover does not
depend on any of these bounds, except that the pages' theorems are about chats of up to a hundred
messages.
Deadlock is not checked: each system may rest when nobody writes, asks or connects.

### What the violations show

1. `reply_echo_race` (`src/db.rs:662`): an echo stored between the adoption's DELETE and UPDATE
   makes the UPDATE violate the unique index; the adoption rolls back and both rows stay.
2. `reply_sweep` (`src/pipeline.rs:227`): a redelivered receipt finds its anchor already read, takes
   it for unknown and sweeps replies newer than the anchor.
3. `channel_two_logins` (`src/handler/oauth.rs:216`): the rollback of a login removes a channel that
   another login has taken over and called connected.
Other places where code and comment part are not runs of their own; the passing properties are
stated with the exact exception:

- `src/handler/operator_ws.rs:269` counts on the insert to stop a re-sent `mid`. Adoption renames
  the only record of it, so a later resend is stored and delivered again:
  `StoredTwiceOnlyAfterAdoption` says that this is the only way.
- `src/model.rs:99` says of `Failed` that the message was never delivered. A timeout after the
  provider took it marks it failed too; and a sweep may read a reply that is being sent, whose
  refusal then cannot show. `ReplyLife` and `OutcomeShown` allow exactly these.
- `src/handler/channels.rs:358`: "Only a channel that ends the request alive is armed". A DELETE
  between the read and the UPDATE of a PATCH leaves a deleted channel armed; `DeletedStaysDeleted`
  says that its row stays deleted.
- `docs/tech_debt.md:126`: a live channel's webhook cannot be hijacked. A re-registration that read
  a row which a failed create then removed does repoint it: `OnlyStaleReadsSteal` says that nothing
  else does.
- `src/cache.rs:61`: a lookup may fill the map after the eviction with what it read before the
  change; `OutdatedOnlyWhenOvertaken` says that nothing else leaves anything outdated. It leaves out
  channels a refused create removed: `create_telegram` returns before the line that evicts
  (`src/handler/channels.rs:272`).
- `docs/tech_debt.md:151` says that after a failed profile lookup the client row keeps a NULL name
  until the check of the next day. The lookup of the next day is written whether it succeeds or
  not (`src/provider/instagram.rs:345`), so a failure then replaces a name by NULL, and so does a
  racing first message until its own lookup is stored. `NameComesBack` says that nothing else does.
- `README.md:176`: "Providers automatically publish client invalidation after every
  `upsert_client`." Instagram's first write of a row (`src/provider/instagram.rs:290`) publishes
  nothing; the task it spawns does. `CopiesAreCurrent` says that this is enough unless the task is
  lost.
- `src/refresh.rs:75` writes what it was given over whatever the row holds by then, a login's token
  included. The old token was renewed, so both work, unless the login was made because the old ones
  were taken back: `ReconnectHeals` excuses exactly that (`clobbered`).
- `src/db.rs:568`: the history endpoint answers the oldest hundred messages, so a reload of a longer
  chat does not show the newest. `docs/tech_debt.md` has it as open; runs and theorems of the two pages
  assume chats within the limit.
- `frontend/widget.html:266`: `appendInboundMessage` does not look into `renderedIds`, so an event
  that waited behind the history load makes a second bubble; so does an own message drawn by a load
  before its ack, always if the ack was lost with the connection. `OnceUnlessOvertaken` says that
  nothing else does. A reload leaves bubbles that are already drawn as they are, so an edit or a
  read missed while disconnected is not shown (`stale` in `BubblesSettle`).
- `frontend/widget.html:172`: `handleAck` does not look whether the ack has an id. A message that a
  failed statement kept out of the table is ticked; an edit's ack puts one tick for two; and an ack
  that comes late, after a load drew the row, passes for an edit's.
- `frontend/widget.html:234`: `submitEdit` does not look whether the socket is open: an edit made
  while disconnected is lost and its spinner stays, until a read event replaces it by two ticks.
  `BubblesSettle` and `TicksAreTrue` name these.
- `frontend/operator.html:207`: a late answer of one chat's history is drawn into another that was
  selected meanwhile, and its receipts name that one: what is marked is right (`ReadMeansShown`, for
  the statement takes the message's own chat), but the wrong customer is told "seen"
  (`SeenIsHonest` excuses `mixed`). A message event under way at the fetch is drawn twice, an own
  message whose bubble a selection wiped before it was stored is not drawn, and a read that
  overtakes its message finds no bubble (`excused` in `ViewSettles`).
- `README.md:354`: "an echo of our own reply adds nothing". An echo that is stored before the
  adoption is drawn on the panel as sent from the app; the adoption deletes its row
  (`src/db.rs:662`) and publishes nothing, so the reply stands there twice, once without a row, until
  the chat is selected again. `ViewSettles` excuses such a row and says that a selection after the
  deletion shows it no more, unless its own event is still on its way.
- `src/handler/operator_ws.rs:331`: a database error keeps the refusal of a reply out of the table,
  and the operator is told of it all the same (line 494): the bubble is crossed, its row says `new`,
  and a reload takes the cross away. `TicksAreTrue` names it by `unrecorded`.
- `src/handler/operator_ws.rs:205`: a receipt whose statement fails, or whose chat cannot be looked up
  (line 142), is not repeated by the page: the message was drawn and stays unread until a later one of
  the chat is answered. `ViewSettles` excuses the row that receipt named.
- `src/handler/operator_ws.rs:492`: only the author of a reply is told what became of it. A colleague's
  panel draws its first tick and its cross from the history alone, so `ViewSettles` asks of a
  colleague's reply only that two ticks are there when it was read, and not otherwise.

## Fairness

`ReplyDelivery`'s `Fairness` is weak fairness of each step of a delivery task and of each webhook
that the provider will deliver: tasks are spawned on a multi-threaded runtime and every HTTP call
has a timeout, so a task gets on; providers redeliver until answered. Crashes, operators and
customers are not fair. `WidgetPage`'s `Fairness` is weak
fairness of the socket's handler on its way to the loop, of the loop writing acks and events (the
tasks before it are woken by what they wait for), and of the page's history load, which is answered
and drawn, or fails within the timeout of the browser, which is a failure of the model. Connecting,
disconnecting, writing and reading are not fair; `RepliesAreShown` allows a disconnection.

## What is proved

`ReplyDelivery_proofs.tla`, for every number of rows, panel ids and provider ids and every set of
faults (assumptions: the bounds are naturals, the faults are among those named, the sentinel is not
a panel id):

- `Invariance`: `IInv` is an invariant. `TypeOK` and the identity property are not inductive alone.
  That an adoption cannot take the id of a foreign row needs to know what each row with a provider
  id is a copy of, that a task past the call owns exactly one message of the thread, and that an id
  has at most one holder; that a settled receipt stays settled needs that an echo stored after it
  cannot hold the id its row was renamed to. `IInv` is the conjunction of these named parts, and
  `reply_faults` checks it before the proof does.
- `TypeCorrectness`, `ProviderIdsAreNames`, `ReceiptsSettle`, `OutcomesAreShown` follow from it;
  `IdsAreRenamedOnce` and `ResendsAreStoredOnlyAfterAdoption` are about steps and use it as the
  hypothesis on the state.
- `Refinement`: every initial state and every step maps to one of `ReplyLife`, or to a stutter.

Each proof of a step has one case per action, by lemmas that say what the action leaves alone.

`ChannelAdmin_proofs.tla`, for every number of requests and ids, both providers, every choice of
operations and every set of faults (assumption: the id bound is a natural number, the rest is among
what is named):

- `Invariance`: the account has one row at most (`OneRow`), the request that inserted it is the only
  one with `inserted` set and its row is there (`InsertersOwn`), a chat refers only to channels that
  have worked (`ChatsWorked`, why the foreign key stops no rollback that matters), and a request has
  the channel its place requires (`RequestsConsistent`). `NeverWorkedIsRemoved` is not inductive
  without the second: a rollback could remove a row that is another request's to remove.
- `TypeCorrectness` and `NeverWorkedIsGone` follow; `HooksAreKept` and `DeletesStay` are about steps.
  For `HooksAreKept` a step that repoints the webhook arms another channel than the live one, so by
  `OneRow` that channel has no row, and by `InsertersOwn` the request did not insert it.
- `DeafnessIsReported`, for one request after the other (`Requests = {only}`) in a process that does
  not die, as the run has it; requests that overlap and a crash do leave deaf channels nobody was
  told of. `Serial` is the invariant: nobody interferes with a request (`Undisturbed`: the row it
  works on is there until it ends), and a deaf live channel was reported, or the request that is on
  it will arm it or report it (`Accounted`, `WillArm`).

`Conversations_proofs.tla`, for every set of deliveries, replicas, senders and messages and every
set of faults (assumptions: no sender is of both providers, the faults are among those named, the
sentinel is none of the values it stands beside):

- `Invariance`: a chat is the only one of its client (`OneChat`), every copy in a cache has the id
  of the sender's row (`CopiesHaveRows`), a profile task belongs to a sender who has a row
  (`ProfilesHaveRows`), what a delivery holds is that row and a chat of that client
  (`TasksConsistent`), and so is what is stored (`StoredFiled`). `OneConversation` says nothing of
  what is not stored yet, so it is not inductive: that the second of two racing deliveries stores
  the ids the first one made needs to know that ids only come from the row or from a copy of it, and
  that a row keeps its id whoever upserts it (the id of a profile task is the row's, or unused).
- `TypeCorrectness`, `ConversationsAreOne` and `MessagesAreFiled` follow. The last also needs that
  the verified client is always there, which `LookupFails` shows to matter: without the row it
  would drop the author and no failure would be recorded.
- `NamesComeBack` and `CopiesCatchUp` rest on a second invariant, `RInv`: a row without a name has a
  profile task that will write one (`NamesPending`), and a copy that differs from its row has an
  announcement or an eviction to come (`CopiesPending`), each but for what failed or came late.
  Both hold because an insert spawns its task in the step that writes.

`ChannelCache_proofs.tla`, for every number of replicas, channels, keys, lookups and changes
(assumptions: rows have a version, the sentinel is neither a channel nor a row):

- `IInv` says what the property leaves open while changes are under way: a copy that was the row
  when it was made is the row still, or a change that has not ended, or a publication that has not
  been heard, will evict it (`CopiesKept`); and the same of an index entry, for which a listener
  between its two evictions counts as well (`EntriesKept`). `EvictionsSuffice` is the case in which
  nothing is left to evict.

`TokenRefresh_proofs.tla`, for every number of replicas, requests and tokens and all lifetimes
(assumptions: an outage is shorter than the threshold, the threshold than a lifetime, and a token
that is old enough to be renewed reaches the threshold after that):

- `IInv` adds to the types what is known of tokens (`Known`: every token seen was issued, a row has
  one, what a pass or a login was given is fresh, and the stored expiry is the token's) and `Tending`:
  a tended channel is live, the hours it has left are more than the outage may still last, and a pass
  that is under way leaves at least as many. `OutagesAreOutlived` alone is not inductive: a token may
  die in the next hour unless the bound on the outage says that a pass will have come before.
- `StoredExpiry`, `Outlived` and `Reconnected` follow from it; `Unrevived` is about steps.

`OperatorPage_proofs.tla`, for any chats, any writers and every bound on sends, clicks and failures, as
many rows as the history shows (assumptions: the sentinel is not a chat, the bounds are naturals,
`MaxRows` is at most the history's limit):

- `IInv` is that whatever carries a status from the table to the screen (an event, an answer, a
  bubble) was true when it was read and statuses only grow truer (`Grows`), that what waits in a
  queue fits the table (`FramesFit`, `AcksFit`), and that receipts name rows which were drawn. From
  the first follows `TrueTicks`, from the last `ReadsShown` and, with the chat each receipt names,
  `HonestSeen`.
- `ViewSettled` says what a quiet panel shows, so nothing of it is inductive. Its invariant is
  `VInv`: `Settling` says, since a selection made while connected and until something fails, where
  each row the panel is owed (`Due`) is: drawn, in the answer, announced, or the panel's own and
  awaiting its ack (`Placed`), and that it comes once (`PlacedOnce`); that what a row was or will
  be drawn with is its status, or the change is announced (`Current`); and that a customer's message
  that was drawn is read, or its receipt is under way (`ReadsDue`). An ack turns one bubble into
  another, and keeps a row in one place because the id the page made up is in one frame or one ack
  (`MidsOnce`) and acks have rows of their own; the tick of a delivery cannot overtake the message
  event of its row because only the author, who gets no such event, is told of deliveries
  (`AuthorsFit`; a read that overtakes it excuses the row); and no event of a listed panel is missed
  (`ListedWhenOpen`: the registration lists the operator before the socket's loop starts). TLC
  checked `VInv` as an invariant of `operator_page`'s instance (3,516,013 states) before it was proved.
  What fails or is deleted enters it as an exception that is no wider than the property's: a row that
  was deleted is in no answer and in no view but as an excused one (`NoneDeleted`); a failed receipt
  excuses the row it named from `ReadsDue`; and a cross stands for a row that failed, was read, or is
  in `unrecorded`, which is where `TrueTicks` gets its last case from.

`WidgetPage_proofs.tla`, for every bound within the history's limit:

- `IInv` has the same parts, and that the entry of an own message leads to its bubble wherever loads
  have moved it (`EntriesFit`), which an ack without an id needs to put a tick where one is due
  (`TrueTicks`).
- `Missed` needs `Arriving`: each reply is in the tab or swallowed, or its event, a history request
  that will have it, or the lookup of the chat is still to come. It is where registering before the
  lookup and committing before publishing are used. `ReadsShown` is inductive with `FramesFit`.
- `DrawnOnce` rests on a second invariant, `OInv`: a message has one draft until it is stored, and it
  is stored once because its frame is read once (`DraftsOnce`, `MidsOnce`, `SendsPending`); what was
  answered for is in `renderedIds` (`AnsweredRendered`), so no load draws it again; and an event that
  is still to come has no bubble of its row (`MessagesPending`), unless a load overtook it.
- `BubblesSettled` needs a third, `SInv`: a bubble has its row's text and ticks, or an event that
  will give it them is under way; the entry of an own bubble leads to no other; no message that
  waits for its answer was edited, and one edit of a tab is under way at a time, so an answer that
  comes late replaces no later text. TLC checked it with two rows, sends and connections and one
  failure (592,550 states) before the proof.

Only model-checked: the liveness properties, which are out of the prover's reach. Every invariant and
every action property of a passing run is a theorem.

## Not modelled, and the plan

Stateless or presentational parts are left out: JWT, configuration, routes, signature checks,
error wording, the settings page, the wording of connection checks.

Three hazards of the code are outside the models: a failed channel lookup for one event of a webhook
drops the other events of its payload (`src/provider/instagram.rs:153`; every event is an action of
its own here); tasks publish in another order than they committed in, so a page shows messages out of
order until a reload (`src/pipeline.rs:154`; no document promises the order); and an adoption's locks
may meet a watermark read's in a cycle, which Postgres breaks by failing a statement
(`src/db.rs:649`; a fault of the models). Two properties reach less far than their hazards.
`DeliveryEnds` is about a process that lives, because nothing redoes a task after a crash, and
`DeafIsReported` is about requests in sequence, because concurrent ones do leave deaf channels.
The exchange of keys between channels needs two channels, which the run of `ChannelCache` has not:
that is covered by its theorem only.

Next, in this order:

1. `Conversations`: widget visitors (`resolve_client`, `create_client` and the token), the owner's
   messages, which have a customer but no author, and edits, which resolve their sender too.
2. Edits and reads by row id in `ReplyDelivery` (an edit after the adoption), the Telegram delivery
   and its ids, redelivery of updates.
3. `ChannelAdmin`: which fields of an account are subscribed to.
4. `OperatorPage`: edits by the customer, the chat list, own messages from a second panel; the drain at
   shutdown.
5. Proofs: an abstract page, a copy of a chat that lags behind it and catches up, that `WidgetPage`
   and `OperatorPage` implement while nothing races with a load.
