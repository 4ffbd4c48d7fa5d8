---------------------------- MODULE ChannelCache ----------------------------
(***************************************************************************)
(* The read-through cache of live channels that every replica keeps        *)
(* (src/cache.rs ChannelCache): rows by id, and an index from the          *)
(* provider's key to the id.  A mutation commits, evicts locally and       *)
(* publishes the id; each replica's listener evicts what it is told.       *)
(*                                                                         *)
(* The two maps have a lock each and nothing is held across the database   *)
(* read, so reading the row, filling each map and emptying each map are    *)
(* steps of their own.                                                     *)
(***************************************************************************)
EXTENDS Integers, FiniteSets

CONSTANTS Replicas, Channels, Keys,
          Lookups,      \* how many lookups may be under way at once
          Mutations,    \* how many requests may be changing channels at once
          MaxVersion,   \* bound on the changes to one row
          None

Row == [id : Channels, key : Keys, live : BOOLEAN, version : 1 .. MaxVersion]

ASSUME CacheAssumption ==
    /\ MaxVersion \in Nat \ {0}
    /\ None \notin Channels \cup Row

VARIABLES
    rows,      \* the channels table
    gone,      \* ids whose row was physically deleted; ids are never reused
    byId,      \* each replica's by_id
    extIndex,  \* each replica's ext_index
    lookup,    \* lookups that missed and are filling the maps
    mutation,  \* requests that committed and are evicting
    inbox,     \* invalidations on their way to a replica's listener
    evicting,  \* the id a listener has evicted from the first map only
    lateRows,  \* history: by_id entries that were outdated when put there
    lateKeys   \* history: ext_index entries likewise

vars == <<rows, gone, byId, extIndex, lookup, mutation, inbox, evicting,
          lateRows, lateKeys>>

IdleLookup == [pc |-> "idle"]
Lookup == [pc : {"idle"}] \cup [pc : {"byId", "index"}, at : Replicas, row : Row]

IdleMutation == [pc |-> "idle"]
Mutation == [pc : {"idle"}]
            \cup [pc : {"arming", "byId", "index", "publish"},
                  at : Replicas, id : Channels]

TypeOK ==
    /\ rows \in [Channels -> Row \cup {None}]
    /\ \A c \in Channels : rows[c] # None => rows[c].id = c
    /\ gone \subseteq Channels
    /\ byId \in [Replicas -> [Channels -> Row \cup {None}]]
    /\ \A r \in Replicas, c \in Channels :
          byId[r][c] # None => byId[r][c].id = c /\ byId[r][c].live
    /\ extIndex \in [Replicas -> [Keys -> Channels \cup {None}]]
    /\ lookup \in [Lookups -> Lookup]
    /\ \A l \in Lookups : lookup[l].pc # "idle" => lookup[l].row.live
    /\ mutation \in [Mutations -> Mutation]
    /\ inbox \in [Replicas -> SUBSET Channels]
    /\ evicting \in [Replicas -> Channels \cup {None}]
    /\ lateRows \subseteq Replicas \X Channels
    /\ lateKeys \subseteq Replicas \X Keys

Init ==
    /\ rows = [c \in Channels |-> None]
    /\ gone = {}
    /\ byId = [r \in Replicas |-> [c \in Channels |-> None]]
    /\ extIndex = [r \in Replicas |-> [k \in Keys |-> None]]
    /\ lookup = [l \in Lookups |-> IdleLookup]
    /\ mutation = [w \in Mutations |-> IdleMutation]
    /\ inbox = [r \in Replicas |-> {}]
    /\ evicting = [r \in Replicas |-> None]
    /\ lateRows = {}
    /\ lateKeys = {}

Exists(c) == rows[c] # None

(* Mutant of IsLive: find_channel_by_id, which finds deleted channels too. *)
IsStored(c) == rows[c] # None

IsLive(c) == Exists(c) /\ rows[c].live

(* What get_channel_by_external_key returns without asking the database.   *)
CachedByKey(r, k) ==
    IF extIndex[r][k] = None THEN None ELSE byId[r][extIndex[r][k]]

-----------------------------------------------------------------------------
(* get_channel_by_id and get_channel_by_external_key.                      *)

(* A lookup that does not find c, by its id or by its key, reads the row.  *)
LookupReads(l, r, c) ==
    /\ lookup[l].pc = "idle"
    /\ IsLive(c)
    /\ byId[r][c] = None \/ CachedByKey(r, rows[c].key) = None
    /\ lookup' = [lookup EXCEPT ![l] = [pc |-> "byId", at |-> r, row |-> rows[c]]]
    /\ UNCHANGED <<rows, gone, byId, extIndex, mutation, inbox, evicting, lateRows, lateKeys>>

FillsById(l) ==
    LET r == lookup[l].at
        row == lookup[l].row
    IN  /\ lookup[l].pc = "byId"
        /\ byId' = [byId EXCEPT ![r][row.id] = row]
        /\ lateRows' = IF row = rows[row.id] THEN lateRows \ {<<r, row.id>>}
                       ELSE lateRows \cup {<<r, row.id>>}
        /\ lookup' = [lookup EXCEPT ![l].pc = "index"]
        /\ UNCHANGED <<rows, gone, extIndex, mutation, inbox, evicting, lateKeys>>

FillsIndex(l) ==
    LET r == lookup[l].at
        row == lookup[l].row
        current == Exists(row.id) /\ row.key = rows[row.id].key
    IN  /\ lookup[l].pc = "index"
        /\ extIndex' = [extIndex EXCEPT ![r][row.key] = row.id]
        /\ lateKeys' = IF current THEN lateKeys \ {<<r, row.key>>}
                       ELSE lateKeys \cup {<<r, row.key>>}
        /\ lookup' = [lookup EXCEPT ![l] = IdleLookup]
        /\ UNCHANGED <<rows, gone, byId, mutation, inbox, evicting, lateRows>>

-----------------------------------------------------------------------------
(* The two halves of invalidate.                                           *)

EvictById(r, c) ==
    /\ byId' = [byId EXCEPT ![r][c] = None]
    /\ lateRows' = lateRows \ {<<r, c>>}

(* Mutant of EvictIndex: only the key the row has now is taken out.        *)
EvictCurrentKey(r, c) ==
    /\ extIndex' = [extIndex EXCEPT ![r] =
                      [k \in Keys |-> IF Exists(c) /\ rows[c].key = k THEN None
                                      ELSE extIndex[r][k]]]
    /\ lateKeys' = lateKeys \ ({r} \X {k \in Keys : extIndex[r][k] = c})

EvictIndex(r, c) ==
    /\ extIndex' = [extIndex EXCEPT ![r] =
                      [k \in Keys |-> IF extIndex[r][k] = c THEN None
                                      ELSE extIndex[r][k]]]
    /\ lateKeys' = lateKeys \ ({r} \X {k \in Keys : extIndex[r][k] = c})

-----------------------------------------------------------------------------
(* The requests of the channel API: commit, then invalidate_everywhere.    *)

FreeKeys(c) == {k \in Keys : \A d \in Channels \ {c} : Exists(d) => rows[d].key # k}

Commit(w, r, c, row, next) ==
    /\ mutation[w].pc = "idle"
    /\ rows' = [rows EXCEPT ![c] = row]
    /\ mutation' = [mutation EXCEPT ![w] = [pc |-> next, at |-> r, id |-> c]]
    /\ UNCHANGED <<gone, byId, extIndex, lookup, inbox, evicting, lateRows, lateKeys>>

Creates(w, r, c) ==
    /\ ~Exists(c) /\ c \notin gone
    /\ \E k \in FreeKeys(c) :
          Commit(w, r, c, [id |-> c, key |-> k, live |-> TRUE, version |-> 1], "arming")

(* The provider took the new channel; the create goes on to invalidate.    *)
CreateIsArmed(w) ==
    /\ mutation[w].pc = "arming"
    /\ mutation' = [mutation EXCEPT ![w].pc = "byId"]
    /\ UNCHANGED <<rows, gone, byId, extIndex, lookup, inbox, evicting, lateRows, lateKeys>>

(* The provider call failed: hard_delete_channel, and the handler returns  *)
(* its error before the line that invalidates.                             *)
CreateRollsBack(w) ==
    /\ mutation[w].pc = "arming"
    /\ rows' = [rows EXCEPT ![mutation[w].id] = None]
    /\ gone' = gone \cup {mutation[w].id}
    /\ mutation' = [mutation EXCEPT ![w] = IdleMutation]
    /\ UNCHANGED <<byId, extIndex, lookup, inbox, evicting, lateRows, lateKeys>>

(* A PATCH: a new key (widgets), a new config, a restore.                  *)
Updates(w, r, c) ==
    /\ Exists(c)
    /\ rows[c].version < MaxVersion
    /\ \E k \in FreeKeys(c), live \in {rows[c].live, TRUE} :
          Commit(w, r, c, [id |-> c, key |-> k, live |-> live,
                           version |-> rows[c].version + 1], "byId")

SoftDeletes(w, r, c) ==
    Exists(c) /\ Commit(w, r, c, [rows[c] EXCEPT !.live = FALSE], "byId")

MutationEvictsById(w) ==
    /\ mutation[w].pc = "byId"
    /\ EvictById(mutation[w].at, mutation[w].id)
    /\ mutation' = [mutation EXCEPT ![w].pc = "index"]
    /\ UNCHANGED <<rows, gone, extIndex, lookup, inbox, evicting, lateKeys>>

MutationEvictsIndex(w) ==
    /\ mutation[w].pc = "index"
    /\ EvictIndex(mutation[w].at, mutation[w].id)
    /\ mutation' = [mutation EXCEPT ![w].pc = "publish"]
    /\ UNCHANGED <<rows, gone, byId, lookup, inbox, evicting, lateRows>>

(* publish_invalidation reaches every replica, this one included.          *)
Told(r, c) == [s \in Replicas |-> inbox[s] \cup {c}]

MutationPublishes(w) ==
    /\ mutation[w].pc = "publish"
    /\ inbox' = Told(mutation[w].at, mutation[w].id)
    /\ mutation' = [mutation EXCEPT ![w] = IdleMutation]
    /\ UNCHANGED <<rows, gone, byId, extIndex, lookup, evicting, lateRows, lateKeys>>

-----------------------------------------------------------------------------
(* The listener of a replica.                                              *)

ListenerEvictsById(r, c) ==
    /\ evicting[r] = None
    /\ c \in inbox[r]
    /\ inbox' = [inbox EXCEPT ![r] = @ \ {c}]
    /\ evicting' = [evicting EXCEPT ![r] = c]
    /\ EvictById(r, c)
    /\ UNCHANGED <<rows, gone, extIndex, lookup, mutation, lateKeys>>

ListenerEvictsIndex(r) ==
    /\ evicting[r] # None
    /\ EvictIndex(r, evicting[r])
    /\ evicting' = [evicting EXCEPT ![r] = None]
    /\ UNCHANGED <<rows, gone, byId, lookup, mutation, inbox, lateRows>>

Next ==
    \/ \E l \in Lookups, r \in Replicas, c \in Channels : LookupReads(l, r, c)
    \/ \E l \in Lookups : FillsById(l) \/ FillsIndex(l)
    \/ \E w \in Mutations, r \in Replicas, c \in Channels :
          Creates(w, r, c) \/ Updates(w, r, c) \/ SoftDeletes(w, r, c)
    \/ \E w \in Mutations :
          CreateIsArmed(w) \/ CreateRollsBack(w)
          \/ MutationEvictsById(w) \/ MutationEvictsIndex(w)
          \/ MutationPublishes(w)
    \/ \E r \in Replicas, c \in Channels : ListenerEvictsById(r, c)
    \/ \E r \in Replicas : ListenerEvictsIndex(r)

Spec == Init /\ [][Next]_vars

-----------------------------------------------------------------------------
(* Properties.                                                             *)

(* Nothing about c is under way: every eviction has been carried out.      *)
Settled(c) ==
    /\ \A w \in Mutations : mutation[w].pc # "idle" => mutation[w].id # c
    /\ \A r \in Replicas : c \notin inbox[r] /\ evicting[r] # c

Outdated(r, c) == byId[r][c] \notin {None, rows[c]} \/ (byId[r][c] # None /\ ~IsLive(c))

(* The key leads to a row that no longer has it.                           *)
Misleads(r, k) == CachedByKey(r, k) # None /\ CachedByKey(r, k).key # k

(* Evictions leave nothing behind.  Once every eviction of a channel has   *)
(* been carried out, a replica serves an outdated row, or leads an old key *)
(* to it, only because a lookup that read before the change filled the map *)
(* after the eviction: whatever was in either map, on any replica, before  *)
(* the change is no longer there.                                          *)
OvertakenOnly(c) ==
    \A r \in Replicas :
        /\ Outdated(r, c) => <<r, c>> \in lateRows
        /\ \A k \in Keys : extIndex[r][k] = c /\ Misleads(r, k) =>
              <<r, c>> \in lateRows \/ <<r, k>> \in lateKeys

OutdatedOnlyWhenOvertaken ==
    \A c \in Channels \ gone : Settled(c) => OvertakenOnly(c)

=============================================================================
