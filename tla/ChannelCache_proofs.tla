------------------------ MODULE ChannelCache_proofs ------------------------
(***************************************************************************)
(* Proofs about ChannelCache, for every number of replicas, channels,      *)
(* keys, lookups and mutations.                                            *)
(***************************************************************************)
EXTENDS ChannelCache, TLAPS

(* Something is still to evict c on r, from both maps or from the index.   *)
EvictsBoth(r, c) ==
    \/ \E w \in Mutations : mutation[w].pc # "idle" /\ mutation[w].id = c
    \/ c \in inbox[r]

EvictsKey(r, c) == EvictsBoth(r, c) \/ evicting[r] = c

(* A copy that was the row when it was made is the row, or will be evicted. *)
CopiesKept ==
    \A r \in Replicas, c \in Channels \ gone :
        byId[r][c] # None /\ <<r, c>> \notin lateRows =>
            byId[r][c] = rows[c] \/ EvictsBoth(r, c)

(* An index entry that was right when it was made is right, or will be     *)
(* evicted.                                                                *)
EntriesKept ==
    \A r \in Replicas, k \in Keys, c \in Channels \ gone :
        extIndex[r][k] = c /\ <<r, k>> \notin lateKeys =>
            (Exists(c) /\ rows[c].key = k) \/ EvictsKey(r, c)

IInv == TypeOK /\ CopiesKept /\ EntriesKept

-----------------------------------------------------------------------------
(* Types.                                                                  *)

LEMMA IdleTypes == IdleLookup \in Lookup /\ IdleMutation \in Mutation
  BY DEF IdleLookup, Lookup, IdleMutation, Mutation

LEMMA InitTypes == Init => TypeOK
  BY IdleTypes DEF Init, TypeOK, IdleLookup

LEMMA LookupUpdated ==
    ASSUME TypeOK, NEW l \in Lookups, NEW p \in Lookup,
           p.pc # "idle" => p.row.live
    PROVE  LET next == [lookup EXCEPT ![l] = p]
           IN  /\ next \in [Lookups -> Lookup]
               /\ \A m \in Lookups : next[m].pc # "idle" => next[m].row.live
  BY DEF TypeOK

LEMMA MutationUpdated ==
    ASSUME TypeOK, NEW w \in Mutations, NEW p \in Mutation
    PROVE  [mutation EXCEPT ![w] = p] \in [Mutations -> Mutation]
  BY DEF TypeOK

(* What a busy lookup, and a busy mutation, holds.                         *)
LEMMA LookupBusy ==
    ASSUME TypeOK, NEW l \in Lookups, lookup[l].pc # "idle"
    PROVE  /\ lookup[l].at \in Replicas /\ lookup[l].row \in Row
           /\ lookup[l].row.id \in Channels /\ lookup[l].row.key \in Keys
           /\ lookup[l].row.live
  BY DEF TypeOK, Lookup, Row

LEMMA MutationBusy ==
    ASSUME TypeOK, NEW w \in Mutations, mutation[w].pc # "idle"
    PROVE  /\ mutation[w].at \in Replicas /\ mutation[w].id \in Channels
           /\ mutation[w].pc \in {"arming", "byId", "index", "publish"}
           /\ \A pc \in {"arming", "byId", "index", "publish"} :
                 [mutation[w] EXCEPT !.pc = pc] \in Mutation
<1>1. mutation[w] \in [pc : {"arming", "byId", "index", "publish"}, at : Replicas, id : Channels]
  BY DEF TypeOK, Mutation
<1> QED
  BY <1>1 DEF Mutation

LEMMA EvictByIdTypes ==
    ASSUME TypeOK, NEW r \in Replicas, NEW c \in Channels, EvictById(r, c)
    PROVE  /\ byId' \in [Replicas -> [Channels -> Row \cup {None}]]
           /\ \A s \in Replicas, d \in Channels :
                 byId'[s][d] # None => byId'[s][d].id = d /\ byId'[s][d].live
           /\ lateRows' \subseteq Replicas \X Channels
  BY DEF EvictById, TypeOK

LEMMA EvictIndexTypes ==
    ASSUME TypeOK, NEW r \in Replicas, NEW c \in Channels, EvictIndex(r, c)
    PROVE  /\ extIndex' \in [Replicas -> [Keys -> Channels \cup {None}]]
           /\ lateKeys' \subseteq Replicas \X Keys
  BY DEF EvictIndex, TypeOK

LEMMA LookupTypes ==
    ASSUME TypeOK, NEW l \in Lookups,
           \/ \E r \in Replicas, c \in Channels : LookupReads(l, r, c)
           \/ FillsById(l) \/ FillsIndex(l)
    PROVE  TypeOK'
<1>1. ASSUME NEW r \in Replicas, NEW c \in Channels, LookupReads(l, r, c)
      PROVE  TypeOK'
  <2> DEFINE p == [pc |-> "byId", at |-> r, row |-> rows[c]]
  <2>1. rows[c] \in Row /\ rows[c].live
    BY <1>1 DEF LookupReads, IsLive, Exists, TypeOK
  <2>2. p \in Lookup /\ p.row.live
    BY <2>1 DEF Lookup
  <2>3. lookup' = [lookup EXCEPT ![l] = p]
    BY <1>1 DEF LookupReads
  <2> HIDE DEF p
  <2>4. /\ lookup' \in [Lookups -> Lookup]
        /\ \A m \in Lookups : lookup'[m].pc # "idle" => lookup'[m].row.live
    BY <2>2, <2>3, LookupUpdated
  <2> QED
    BY <1>1, <2>4 DEF LookupReads, TypeOK
<1>2. CASE FillsById(l)
  <2> DEFINE p == [lookup[l] EXCEPT !.pc = "index"]
  <2>1. lookup[l].pc = "byId"
    BY <1>2 DEF FillsById
  <2>2. p \in Lookup /\ p.row.live
    <3>1. lookup[l] \in [pc : {"byId", "index"}, at : Replicas, row : Row] /\ lookup[l].row.live
      BY <2>1 DEF TypeOK, Lookup
    <3> QED
      BY <3>1 DEF Lookup
  <2>3. lookup' = [lookup EXCEPT ![l] = p]
    BY <1>2 DEF FillsById
  <2> HIDE DEF p
  <2>4. /\ lookup' \in [Lookups -> Lookup]
        /\ \A m \in Lookups : lookup'[m].pc # "idle" => lookup'[m].row.live
    BY <2>2, <2>3, LookupUpdated
  <2>5. /\ byId' \in [Replicas -> [Channels -> Row \cup {None}]]
        /\ \A r \in Replicas, c \in Channels :
              byId'[r][c] # None => byId'[r][c].id = c /\ byId'[r][c].live
    BY <1>2, <2>1, LookupBusy DEF FillsById, TypeOK
  <2>6. lateRows' \subseteq Replicas \X Channels
    BY <1>2, <2>1, LookupBusy DEF FillsById, TypeOK
  <2> QED
    BY <1>2, <2>4, <2>5, <2>6 DEF FillsById, TypeOK
<1>3. CASE FillsIndex(l)
  <2>1. lookup[l].pc = "index"
    BY <1>3 DEF FillsIndex
  <2>2. /\ lookup' \in [Lookups -> Lookup]
        /\ \A m \in Lookups : lookup'[m].pc # "idle" => lookup'[m].row.live
    BY <1>3, IdleTypes, LookupUpdated DEF FillsIndex, IdleLookup
  <2>3. extIndex' \in [Replicas -> [Keys -> Channels \cup {None}]]
    BY <1>3, <2>1, LookupBusy DEF FillsIndex, TypeOK
  <2>4. lateKeys' \subseteq Replicas \X Keys
    BY <1>3, <2>1, LookupBusy DEF FillsIndex, TypeOK
  <2> QED
    BY <1>3, <2>2, <2>3, <2>4 DEF FillsIndex, TypeOK
<1> QED
  BY <1>1, <1>2, <1>3

LEMMA CommitTypes ==
    ASSUME TypeOK, NEW w \in Mutations, NEW r \in Replicas, NEW c \in Channels,
           NEW row \in Row, row.id = c, NEW next \in {"arming", "byId"},
           Commit(w, r, c, row, next)
    PROVE  TypeOK'
<1>1. [pc |-> next, at |-> r, id |-> c] \in Mutation
  BY DEF Mutation
<1>2. mutation' \in [Mutations -> Mutation]
  BY <1>1, MutationUpdated DEF Commit
<1> QED
  BY <1>2 DEF Commit, TypeOK

LEMMA RequestTypes ==
    ASSUME TypeOK, NEW w \in Mutations, NEW r \in Replicas, NEW c \in Channels,
           Creates(w, r, c) \/ Updates(w, r, c) \/ SoftDeletes(w, r, c)
    PROVE  TypeOK'
<1>1. CASE Creates(w, r, c)
  <2>1. PICK k \in Keys :
           Commit(w, r, c, [id |-> c, key |-> k, live |-> TRUE, version |-> 1], "arming")
    BY <1>1 DEF Creates, FreeKeys
  <2>2. [id |-> c, key |-> k, live |-> TRUE, version |-> 1] \in Row
    BY CacheAssumption DEF Row
  <2> QED
    BY <2>1, <2>2, CommitTypes
<1>2. CASE Updates(w, r, c)
  <2> DEFINE row(k, live) == [id |-> c, key |-> k, live |-> live, version |-> rows[c].version + 1]
  <2>1. rows[c] \in Row /\ rows[c].version < MaxVersion
    BY <1>2 DEF Updates, Exists, TypeOK
  <2>2. PICK k \in Keys, live \in BOOLEAN : Commit(w, r, c, row(k, live), "byId")
    BY <1>2, <2>1 DEF Updates, FreeKeys, Row
  <2>3. row(k, live) \in Row /\ row(k, live).id = c
    BY <2>1, CacheAssumption DEF Row
  <2> HIDE DEF row
  <2> QED
    BY <2>2, <2>3, CommitTypes
<1>3. CASE SoftDeletes(w, r, c)
  <2> DEFINE row == [rows[c] EXCEPT !.live = FALSE]
  <2>1. row \in Row /\ row.id = c
    <3>1. rows[c] \in Row /\ rows[c].id = c
      BY <1>3 DEF SoftDeletes, Exists, TypeOK
    <3> QED
      BY <3>1 DEF Row
  <2>2. Commit(w, r, c, row, "byId")
    BY <1>3 DEF SoftDeletes
  <2> HIDE DEF row
  <2> QED
    BY <2>1, <2>2, CommitTypes
<1> QED
  BY <1>1, <1>2, <1>3

LEMMA MutationTypes ==
    ASSUME TypeOK, NEW w \in Mutations,
           \/ CreateIsArmed(w) \/ CreateRollsBack(w) \/ MutationEvictsById(w)
           \/ MutationEvictsIndex(w) \/ MutationPublishes(w)
    PROVE  TypeOK'
<1>1. CASE CreateIsArmed(w)
  <2>1. mutation' \in [Mutations -> Mutation]
    BY <1>1, MutationBusy, MutationUpdated DEF CreateIsArmed
  <2> QED
    BY <1>1, <2>1 DEF CreateIsArmed, TypeOK
<1>2. CASE CreateRollsBack(w)
  <2>1. mutation' \in [Mutations -> Mutation] /\ mutation[w].id \in Channels
    BY <1>2, IdleTypes, MutationBusy, MutationUpdated DEF CreateRollsBack
  <2> QED
    BY <1>2, <2>1 DEF CreateRollsBack, TypeOK
<1>3. CASE MutationEvictsById(w)
  <2>1. mutation[w].pc = "byId"
    BY <1>3 DEF MutationEvictsById
  <2>2. mutation' \in [Mutations -> Mutation]
    BY <1>3, <2>1, MutationBusy, MutationUpdated DEF MutationEvictsById
  <2> QED
    BY <1>3, <2>1, <2>2, MutationBusy, EvictByIdTypes DEF MutationEvictsById, TypeOK
<1>4. CASE MutationEvictsIndex(w)
  <2>1. mutation[w].pc = "index"
    BY <1>4 DEF MutationEvictsIndex
  <2>2. mutation' \in [Mutations -> Mutation]
    BY <1>4, <2>1, MutationBusy, MutationUpdated DEF MutationEvictsIndex
  <2> QED
    BY <1>4, <2>1, <2>2, MutationBusy, EvictIndexTypes DEF MutationEvictsIndex, TypeOK
<1>5. CASE MutationPublishes(w)
  <2>1. mutation' \in [Mutations -> Mutation] /\ mutation[w].id \in Channels
    BY <1>5, IdleTypes, MutationBusy, MutationUpdated DEF MutationPublishes
  <2> QED
    BY <1>5, <2>1 DEF MutationPublishes, Told, TypeOK
<1> QED
  BY <1>1, <1>2, <1>3, <1>4, <1>5

LEMMA ListenerTypes ==
    ASSUME TypeOK, NEW r \in Replicas,
           ListenerEvictsIndex(r) \/ \E c \in Channels : ListenerEvictsById(r, c)
    PROVE  TypeOK'
<1>1. ASSUME NEW c \in Channels, ListenerEvictsById(r, c)
      PROVE  TypeOK'
  BY <1>1, EvictByIdTypes DEF ListenerEvictsById, TypeOK
<1>2. CASE ListenerEvictsIndex(r)
  <2>1. evicting[r] \in Channels
    BY <1>2 DEF ListenerEvictsIndex, TypeOK
  <2> QED
    BY <1>2, <2>1, EvictIndexTypes DEF ListenerEvictsIndex, TypeOK
<1> QED
  BY <1>1, <1>2

LEMMA StepTypes == TypeOK /\ [Next]_vars => TypeOK'
<1> SUFFICES ASSUME TypeOK, [Next]_vars
             PROVE  TypeOK'
  OBVIOUS
<1>1. CASE UNCHANGED vars
  BY <1>1 DEF vars, TypeOK
<1> QED
  BY <1>1, LookupTypes, RequestTypes, MutationTypes, ListenerTypes DEF Next

(* TypeOK is an invariant: copies are under their own ids and were live    *)
(* when they were made.                                                    *)
THEOREM Types == Spec => []TypeOK
<1>1. Init => TypeOK
  BY InitTypes
<1>2. TypeOK /\ [Next]_vars => TypeOK'
  BY StepTypes
<1> QED
  BY <1>1, <1>2, PTL DEF Spec

-----------------------------------------------------------------------------
(* The copies.                                                             *)

(* What is still to evict something stays when nothing is done of it.      *)
LEMMA StillEvicts ==
    ASSUME NEW r \in Replicas, NEW c \in Channels, EvictsBoth(r, c),
           \A w \in Mutations : mutation[w].pc # "idle" =>
              mutation'[w].pc # "idle" /\ mutation'[w].id = mutation[w].id,
           c \in inbox[r] => c \in inbox'[r]
    PROVE  EvictsBoth(r, c)'
  BY DEF EvictsBoth

(* Commits, lookups and the listener leave no mutation behind.             *)
LEMMA BusyStay ==
    ASSUME TypeOK, NEW w \in Mutations,
           \/ \E r \in Replicas, c \in Channels :
                 Creates(w, r, c) \/ Updates(w, r, c) \/ SoftDeletes(w, r, c)
           \/ CreateIsArmed(w) \/ MutationEvictsById(w) \/ MutationEvictsIndex(w)
    PROVE  \A v \in Mutations : mutation[v].pc # "idle" =>
              mutation'[v].pc # "idle" /\ mutation'[v].id = mutation[v].id
<1>1. mutation \in [Mutations -> Mutation]
  BY DEF TypeOK
<1>2. ASSUME NEW r \in Replicas, NEW c \in Channels,
             Creates(w, r, c) \/ Updates(w, r, c) \/ SoftDeletes(w, r, c)
      PROVE  \E next \in {"arming", "byId"} :
                /\ mutation[w].pc = "idle"
                /\ mutation' = [mutation EXCEPT ![w] = [pc |-> next, at |-> r, id |-> c]]
  BY <1>2 DEF Creates, Updates, SoftDeletes, Commit
<1>3. ASSUME CreateIsArmed(w) \/ MutationEvictsById(w) \/ MutationEvictsIndex(w)
      PROVE  \E next \in {"byId", "index", "publish"} :
                mutation' = [mutation EXCEPT ![w].pc = next]
  BY <1>3 DEF CreateIsArmed, MutationEvictsById, MutationEvictsIndex
<1>4. ASSUME NEW next \in {"byId", "index", "publish"},
             mutation' = [mutation EXCEPT ![w].pc = next], mutation[w].pc # "idle"
      PROVE  mutation'[w].pc # "idle" /\ mutation'[w].id = mutation[w].id
  BY <1>1, <1>4, MutationBusy DEF Mutation
<1> QED
  BY <1>1, <1>2, <1>3, <1>4

(* A commit announces its own row, and touches no other.                   *)
LEMMA CommitKeeps ==
    ASSUME TypeOK, NEW w \in Mutations, NEW r \in Replicas, NEW c \in Channels,
           Creates(w, r, c) \/ Updates(w, r, c) \/ SoftDeletes(w, r, c)
    PROVE  /\ UNCHANGED <<gone, byId, extIndex, inbox, evicting, lateRows, lateKeys>>
           /\ \A d \in Channels \ {c} : rows'[d] = rows[d]
           /\ \A s \in Replicas : EvictsBoth(s, c)'
<1>1. /\ UNCHANGED <<gone, byId, extIndex, inbox, evicting, lateRows, lateKeys>>
      /\ \A d \in Channels \ {c} : rows'[d] = rows[d]
  BY DEF Creates, Updates, SoftDeletes, Commit, TypeOK
<1>2. \E next \in {"arming", "byId"} :
         mutation' = [mutation EXCEPT ![w] = [pc |-> next, at |-> r, id |-> c]]
  BY DEF Creates, Updates, SoftDeletes, Commit
<1>3. mutation'[w].pc # "idle" /\ mutation'[w].id = c
  BY <1>2 DEF TypeOK
<1> QED
  BY <1>1, <1>3 DEF EvictsBoth

LEMMA LookupKeepsCopies ==
    ASSUME TypeOK, CopiesKept, NEW l \in Lookups, FillsById(l)
    PROVE  CopiesKept'
<1> DEFINE s == lookup[l].at
           row == lookup[l].row
<1>1. s \in Replicas /\ row.id \in Channels
  BY LookupBusy DEF FillsById
<1>2. ASSUME NEW r \in Replicas, NEW c \in Channels, EvictsBoth(r, c)
      PROVE  EvictsBoth(r, c)'
  BY <1>2, StillEvicts DEF FillsById
<1> SUFFICES ASSUME NEW r \in Replicas, NEW c \in Channels \ gone,
                    byId'[r][c] # None, <<r, c>> \notin lateRows'
             PROVE  byId'[r][c] = rows[c] \/ EvictsBoth(r, c)'
  BY DEF CopiesKept, FillsById
<1>3. CASE r = s /\ c = row.id
  BY <1>1, <1>3 DEF FillsById, TypeOK
<1>4. CASE ~(r = s /\ c = row.id)
  <2>1. byId'[r][c] = byId[r][c]
    BY <1>1, <1>4 DEF FillsById, TypeOK
  <2>2. <<r, c>> \notin lateRows
    BY <1>4 DEF FillsById
  <2> QED
    BY <2>1, <2>2, <1>2 DEF CopiesKept
<1> QED
  BY <1>3, <1>4

LEMMA EvictingKeepsCopies ==
    ASSUME TypeOK, CopiesKept, NEW r \in Replicas, NEW c \in Channels,
           EvictById(r, c), UNCHANGED <<rows, gone>>,
           \A s \in Replicas, d \in Channels :
              <<s, d>> # <<r, c>> /\ EvictsBoth(s, d) => EvictsBoth(s, d)'
    PROVE  CopiesKept'
<1> SUFFICES ASSUME NEW s \in Replicas, NEW d \in Channels \ gone,
                    byId'[s][d] # None, <<s, d>> \notin lateRows'
             PROVE  byId'[s][d] = rows[d] \/ EvictsBoth(s, d)'
  BY DEF CopiesKept
<1>1. <<s, d>> # <<r, c>>
  BY DEF EvictById, TypeOK
<1>2. byId'[s][d] = byId[s][d] /\ <<s, d>> \notin lateRows
  BY <1>1 DEF EvictById, TypeOK
<1> QED
  BY <1>1, <1>2 DEF CopiesKept

(* The publication hands the eviction over to the listeners.               *)
LEMMA PublishHandsOver ==
    ASSUME TypeOK, NEW w \in Mutations, MutationPublishes(w),
           NEW r \in Replicas, NEW c \in Channels, EvictsBoth(r, c)
    PROVE  EvictsBoth(r, c)'
<1>1. inbox'[r] = inbox[r] \cup {mutation[w].id}
  BY DEF MutationPublishes, Told
<1>2. \A v \in Mutations \ {w} : mutation'[v] = mutation[v]
  BY DEF MutationPublishes, TypeOK
<1> QED
  BY <1>1, <1>2 DEF EvictsBoth

(* A roll back gives up the evictions of its own channel only.             *)
LEMMA RollBackKeeps ==
    ASSUME TypeOK, NEW w \in Mutations, CreateRollsBack(w),
           NEW r \in Replicas, NEW c \in Channels \ gone', EvictsBoth(r, c)
    PROVE  EvictsBoth(r, c)'
  BY DEF CreateRollsBack, EvictsBoth, TypeOK

LEMMA StepKeepsCopies == IInv /\ [Next]_vars => CopiesKept'
<1> SUFFICES ASSUME IInv, [Next]_vars
             PROVE  CopiesKept'
  OBVIOUS
<1> USE DEF IInv
<1>1. ASSUME NEW l \in Lookups, NEW r \in Replicas, NEW c \in Channels, LookupReads(l, r, c)
      PROVE  CopiesKept'
  BY <1>1 DEF LookupReads, CopiesKept, EvictsBoth
<1>2. ASSUME NEW l \in Lookups, FillsById(l)
      PROVE  CopiesKept'
  BY <1>2, LookupKeepsCopies
<1>3. ASSUME NEW l \in Lookups, FillsIndex(l)
      PROVE  CopiesKept'
  BY <1>3 DEF FillsIndex, CopiesKept, EvictsBoth
<1>4. ASSUME NEW w \in Mutations, NEW r \in Replicas, NEW c \in Channels,
             Creates(w, r, c) \/ Updates(w, r, c) \/ SoftDeletes(w, r, c)
      PROVE  CopiesKept'
  <2>1. /\ UNCHANGED <<gone, byId, inbox, lateRows>>
        /\ \A d \in Channels \ {c} : rows'[d] = rows[d]
        /\ \A s \in Replicas : EvictsBoth(s, c)'
    BY <1>4, CommitKeeps
  <2>2. ASSUME NEW s \in Replicas, NEW d \in Channels, EvictsBoth(s, d)
        PROVE  EvictsBoth(s, d)'
    BY <1>4, <2>1, <2>2, BusyStay, StillEvicts
  <2> QED
    BY <2>1, <2>2 DEF CopiesKept
<1>5. ASSUME NEW w \in Mutations, CreateIsArmed(w) \/ MutationEvictsIndex(w)
      PROVE  CopiesKept'
  <2>1. UNCHANGED <<rows, gone, byId, inbox, lateRows>>
    BY <1>5 DEF CreateIsArmed, MutationEvictsIndex
  <2>2. ASSUME NEW s \in Replicas, NEW d \in Channels, EvictsBoth(s, d)
        PROVE  EvictsBoth(s, d)'
    BY <1>5, <2>1, <2>2, BusyStay, StillEvicts
  <2> QED
    BY <2>1, <2>2 DEF CopiesKept
<1>6. ASSUME NEW w \in Mutations, CreateRollsBack(w)
      PROVE  CopiesKept'
  <2>1. /\ UNCHANGED <<byId, lateRows>>
        /\ \A c \in Channels \ gone' : c \notin gone /\ rows'[c] = rows[c]
    BY <1>6 DEF CreateRollsBack, TypeOK
  <2> QED
    BY <1>6, <2>1, RollBackKeeps DEF CopiesKept
<1>7. ASSUME NEW w \in Mutations, MutationEvictsById(w)
      PROVE  CopiesKept'
  <2>1. mutation[w].at \in Replicas /\ mutation[w].id \in Channels
    BY <1>7, MutationBusy DEF MutationEvictsById
  <2>2. ASSUME NEW s \in Replicas, NEW d \in Channels, EvictsBoth(s, d)
        PROVE  EvictsBoth(s, d)'
    BY <1>7, <2>2, BusyStay, StillEvicts DEF MutationEvictsById
  <2> QED
    BY <1>7, <2>1, <2>2, EvictingKeepsCopies DEF MutationEvictsById
<1>8. ASSUME NEW w \in Mutations, MutationPublishes(w)
      PROVE  CopiesKept'
  BY <1>8, PublishHandsOver DEF MutationPublishes, CopiesKept
<1>9. ASSUME NEW r \in Replicas, NEW c \in Channels, ListenerEvictsById(r, c)
      PROVE  CopiesKept'
  <2>1. ASSUME NEW s \in Replicas, NEW d \in Channels,
               <<s, d>> # <<r, c>>, EvictsBoth(s, d)
        PROVE  EvictsBoth(s, d)'
    BY <1>9, <2>1 DEF ListenerEvictsById, EvictsBoth, TypeOK
  <2> QED
    BY <1>9, <2>1, EvictingKeepsCopies DEF ListenerEvictsById
<1>10. ASSUME NEW r \in Replicas, ListenerEvictsIndex(r)
       PROVE  CopiesKept'
  BY <1>10 DEF ListenerEvictsIndex, CopiesKept, EvictsBoth
<1>11. CASE UNCHANGED vars
  BY <1>11 DEF vars, CopiesKept, EvictsBoth
<1> QED
  BY <1>1, <1>2, <1>3, <1>4, <1>5, <1>6, <1>7, <1>8, <1>9, <1>10, <1>11 DEF Next

-----------------------------------------------------------------------------
(* The index.                                                              *)

LEMMA FillingKeepsEntries ==
    ASSUME TypeOK, EntriesKept, NEW l \in Lookups, FillsIndex(l)
    PROVE  EntriesKept'
<1> DEFINE s == lookup[l].at
           row == lookup[l].row
<1>1. s \in Replicas /\ row.id \in Channels /\ row.key \in Keys
  BY LookupBusy DEF FillsIndex
<1>2. ASSUME NEW r \in Replicas, NEW c \in Channels, EvictsKey(r, c)
      PROVE  EvictsKey(r, c)'
  BY <1>2 DEF FillsIndex, EvictsKey, EvictsBoth
<1> SUFFICES ASSUME NEW r \in Replicas, NEW k \in Keys, NEW c \in Channels \ gone,
                    extIndex'[r][k] = c, <<r, k>> \notin lateKeys'
             PROVE  (Exists(c) /\ rows[c].key = k) \/ EvictsKey(r, c)'
  BY DEF EntriesKept, FillsIndex, Exists
<1>3. CASE r = s /\ k = row.key
  <2>1. extIndex'[r][k] = row.id
    BY <1>1, <1>3 DEF FillsIndex, TypeOK
  <2> QED
    BY <1>1, <1>3, <2>1 DEF FillsIndex
<1>4. CASE ~(r = s /\ k = row.key)
  <2>1. extIndex'[r][k] = extIndex[r][k]
    BY <1>1, <1>4 DEF FillsIndex, TypeOK
  <2>2. <<r, k>> \notin lateKeys
    BY <1>4 DEF FillsIndex
  <2> QED
    BY <2>1, <2>2, <1>2 DEF EntriesKept
<1> QED
  BY <1>3, <1>4

LEMMA EvictingKeepsEntries ==
    ASSUME TypeOK, EntriesKept, NEW r \in Replicas, NEW c \in Channels,
           EvictIndex(r, c), UNCHANGED <<rows, gone>>,
           \A s \in Replicas, d \in Channels :
              <<s, d>> # <<r, c>> /\ EvictsKey(s, d) => EvictsKey(s, d)'
    PROVE  EntriesKept'
<1> SUFFICES ASSUME NEW s \in Replicas, NEW k \in Keys, NEW d \in Channels \ gone,
                    extIndex'[s][k] = d, <<s, k>> \notin lateKeys'
             PROVE  (Exists(d) /\ rows[d].key = k) \/ EvictsKey(s, d)'
  BY DEF EntriesKept, Exists
<1>1. extIndex[s][k] = d /\ <<s, d>> # <<r, c>>
  BY CacheAssumption DEF EvictIndex, TypeOK
<1>2. <<s, k>> \notin lateKeys
  BY <1>1 DEF EvictIndex
<1> QED
  BY <1>1, <1>2 DEF EntriesKept

LEMMA StepKeepsEntries == IInv /\ [Next]_vars => EntriesKept'
<1> SUFFICES ASSUME IInv, [Next]_vars
             PROVE  EntriesKept'
  OBVIOUS
<1> USE DEF IInv
<1>1. ASSUME NEW l \in Lookups, NEW r \in Replicas, NEW c \in Channels, LookupReads(l, r, c)
      PROVE  EntriesKept'
  BY <1>1 DEF LookupReads, EntriesKept, Exists, EvictsKey, EvictsBoth
<1>2. ASSUME NEW l \in Lookups, FillsById(l)
      PROVE  EntriesKept'
  BY <1>2 DEF FillsById, EntriesKept, Exists, EvictsKey, EvictsBoth
<1>3. ASSUME NEW l \in Lookups, FillsIndex(l)
      PROVE  EntriesKept'
  BY <1>3, FillingKeepsEntries
<1>4. ASSUME NEW w \in Mutations, NEW r \in Replicas, NEW c \in Channels,
             Creates(w, r, c) \/ Updates(w, r, c) \/ SoftDeletes(w, r, c)
      PROVE  EntriesKept'
  <2>1. /\ UNCHANGED <<gone, extIndex, inbox, evicting, lateKeys>>
        /\ \A d \in Channels \ {c} : rows'[d] = rows[d]
        /\ \A s \in Replicas : EvictsBoth(s, c)'
    BY <1>4, CommitKeeps
  <2>2. ASSUME NEW s \in Replicas, NEW d \in Channels, EvictsKey(s, d)
        PROVE  EvictsKey(s, d)'
    BY <1>4, <2>1, <2>2, BusyStay, StillEvicts DEF EvictsKey
  <2> QED
    BY <2>1, <2>2 DEF EntriesKept, Exists, EvictsKey
<1>5. ASSUME NEW w \in Mutations, CreateIsArmed(w) \/ MutationEvictsById(w)
      PROVE  EntriesKept'
  <2>1. UNCHANGED <<rows, gone, extIndex, inbox, evicting, lateKeys>>
    BY <1>5 DEF CreateIsArmed, MutationEvictsById
  <2>2. ASSUME NEW s \in Replicas, NEW d \in Channels, EvictsKey(s, d)
        PROVE  EvictsKey(s, d)'
    BY <1>5, <2>1, <2>2, BusyStay, StillEvicts DEF EvictsKey
  <2> QED
    BY <2>1, <2>2 DEF EntriesKept, Exists
<1>6. ASSUME NEW w \in Mutations, CreateRollsBack(w)
      PROVE  EntriesKept'
  <2>1. /\ UNCHANGED <<extIndex, lateKeys, evicting>>
        /\ \A c \in Channels \ gone' : c \notin gone /\ rows'[c] = rows[c]
    BY <1>6 DEF CreateRollsBack, TypeOK
  <2>2. ASSUME NEW s \in Replicas, NEW d \in Channels \ gone', EvictsKey(s, d)
        PROVE  EvictsKey(s, d)'
    BY <1>6, <2>1, <2>2, RollBackKeeps DEF EvictsKey
  <2> QED
    BY <2>1, <2>2 DEF EntriesKept, Exists
<1>7. ASSUME NEW w \in Mutations, MutationEvictsIndex(w)
      PROVE  EntriesKept'
  <2>1. mutation[w].at \in Replicas /\ mutation[w].id \in Channels
    BY <1>7, MutationBusy DEF MutationEvictsIndex
  <2>2. ASSUME NEW s \in Replicas, NEW d \in Channels, EvictsKey(s, d)
        PROVE  EvictsKey(s, d)'
    BY <1>7, <2>2, BusyStay, StillEvicts DEF MutationEvictsIndex, EvictsKey
  <2> QED
    BY <1>7, <2>1, <2>2, EvictingKeepsEntries DEF MutationEvictsIndex
<1>8. ASSUME NEW w \in Mutations, MutationPublishes(w)
      PROVE  EntriesKept'
  <2>1. ASSUME NEW s \in Replicas, NEW d \in Channels, EvictsKey(s, d)
        PROVE  EvictsKey(s, d)'
    BY <1>8, <2>1, PublishHandsOver DEF MutationPublishes, EvictsKey
  <2> QED
    BY <1>8, <2>1 DEF MutationPublishes, EntriesKept, Exists
<1>9. ASSUME NEW r \in Replicas, NEW c \in Channels, ListenerEvictsById(r, c)
      PROVE  EntriesKept'
  <2>1. ASSUME NEW s \in Replicas, NEW d \in Channels, EvictsKey(s, d)
        PROVE  EvictsKey(s, d)'
    BY <1>9, <2>1, CacheAssumption DEF ListenerEvictsById, EvictsKey, EvictsBoth, TypeOK
  <2> QED
    BY <1>9, <2>1 DEF ListenerEvictsById, EntriesKept, Exists
<1>10. ASSUME NEW r \in Replicas, ListenerEvictsIndex(r)
       PROVE  EntriesKept'
  <2>1. evicting[r] \in Channels
    BY <1>10 DEF ListenerEvictsIndex, TypeOK
  <2>2. ASSUME NEW s \in Replicas, NEW d \in Channels,
               <<s, d>> # <<r, evicting[r]>>, EvictsKey(s, d)
        PROVE  EvictsKey(s, d)'
    BY <1>10, <2>2 DEF ListenerEvictsIndex, EvictsKey, EvictsBoth, TypeOK
  <2> QED
    BY <1>10, <2>1, <2>2, EvictingKeepsEntries DEF ListenerEvictsIndex
<1>11. CASE UNCHANGED vars
  BY <1>11 DEF vars, EntriesKept, Exists, EvictsKey, EvictsBoth
<1> QED
  BY <1>1, <1>2, <1>3, <1>4, <1>5, <1>6, <1>7, <1>8, <1>9, <1>10, <1>11 DEF Next

-----------------------------------------------------------------------------

(* The inductive invariant.                                                *)
THEOREM Invariance == Spec => []IInv
<1>1. Init => IInv
  BY InitTypes, CacheAssumption DEF IInv, Init, CopiesKept, EntriesKept
<1>2. IInv /\ [Next]_vars => IInv'
  BY StepTypes, StepKeepsCopies, StepKeepsEntries DEF IInv
<1> QED
  BY <1>1, <1>2, PTL DEF Spec

(* On no number of replicas, and after no sequence of changes, is anything *)
(* outdated in the maps of a channel whose evictions have been carried     *)
(* out, unless a lookup put it there after it had changed.                 *)
THEOREM EvictionsSuffice == Spec => []OutdatedOnlyWhenOvertaken
<1>1. IInv => OutdatedOnlyWhenOvertaken
  <2> SUFFICES ASSUME IInv, NEW c \in Channels \ gone, Settled(c), NEW r \in Replicas
               PROVE  /\ Outdated(r, c) => <<r, c>> \in lateRows
                      /\ \A k \in Keys : extIndex[r][k] = c /\ Misleads(r, k) =>
                            <<r, c>> \in lateRows \/ <<r, k>> \in lateKeys
    BY DEF OutdatedOnlyWhenOvertaken, OvertakenOnly
  <2>1. ~EvictsKey(r, c)
    BY DEF Settled, EvictsKey, EvictsBoth
  <2>2. byId[r][c] # None /\ <<r, c>> \notin lateRows => byId[r][c] = rows[c]
    BY <2>1 DEF IInv, CopiesKept, EvictsKey
  <2>3. byId[r][c] # None => byId[r][c].live
    BY DEF IInv, TypeOK
  <2>4. Outdated(r, c) => <<r, c>> \in lateRows
    BY <2>2, <2>3 DEF Outdated, IsLive, Exists
  <2>5. ASSUME NEW k \in Keys, extIndex[r][k] = c, Misleads(r, k),
               <<r, c>> \notin lateRows, <<r, k>> \notin lateKeys
        PROVE  FALSE
    <3>1. rows[c].key = k
      BY <2>1, <2>5 DEF IInv, EntriesKept
    <3>2. CachedByKey(r, k) = byId[r][c]
      BY <2>5, CacheAssumption DEF CachedByKey
    <3> QED
      BY <2>2, <2>5, <3>1, <3>2 DEF Misleads
  <2> QED
    BY <2>4, <2>5
<1> QED
  BY <1>1, Invariance, PTL
=============================================================================
