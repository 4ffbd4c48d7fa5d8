---------------------------- MODULE TokenRefresh ----------------------------
(***************************************************************************)
(* The long-lived token of one Instagram account: what src/refresh.rs does *)
(* with it every hour, on every replica, while the OAuth login             *)
(* (src/oauth/, src/handler/oauth.rs) and the channel API store others.    *)
(*                                                                         *)
(* A tick of the clock is the hour between two passes.  Everything else is *)
(* done in seconds, so the clock waits until what is under way has ended;  *)
(* within an hour passes and requests interleave freely, and the row is    *)
(* read and written by statements of their own.                            *)
(***************************************************************************)
EXTENDS Integers

CONSTANTS Replicas,   \* each runs a refresher
          Requests,   \* how many logins and creates may be under way at once
          Lifetime,   \* of a token: sixty days
          Threshold,  \* REFRESH_THRESHOLD_DAYS
          MinAge,     \* Meta refuses to refresh a token younger than a day
          MaxOutage,  \* bound on the hours in a row without a pass that works
          MaxTime,    \* bound on the clock
          MaxTokens   \* bound on the tokens ever issued

ASSUME RefreshAssumption ==
    /\ Lifetime \in Nat /\ Threshold \in Nat /\ MinAge \in Nat
    /\ MaxTime \in Nat \ {0} /\ MaxTokens \in Nat /\ MaxOutage \in Nat
    /\ MaxOutage < Threshold /\ Threshold < Lifetime
    /\ MinAge + Threshold <= Lifetime

Token == 1 .. MaxTokens
Unknown == 0    \* token_expires_at is absent; the clock starts at 1
Time == 1 .. MaxTime + Lifetime
NoToken == 0

VARIABLES
    now,        \* the clock
    issued,     \* how many tokens the provider has issued: 1 .. issued
    expiry,     \* when the provider lets each of them die
    revoked,    \* those it took back: a changed password, a removed app
    row,        \* the channel: state, access_token, token_expires_at
    pass,       \* what each replica's pass is doing
    done,       \* the replicas whose pass of this hour is over
    healthy,    \* whether the provider answers in this hour
    outage,     \* hours in a row, this one included, in which it does not
    req,        \* logins and creates
    tended,     \* history: live ever since its expiry became known
    reconnected,\* history: a login was stored since tokens were last revoked
    clobbered   \* history: a pass has stored over a token it had not read

vars == <<now, issued, expiry, revoked, row, pass, done, healthy, outage, req,
          tended, reconnected, clobbered>>

providerVars == <<issued, expiry, revoked>>
clockVars == <<now, healthy, outage>>

Row == [state : {"none", "live", "deleted"}, token : Token \cup {NoToken},
        expires : Time \cup {Unknown}]

IdlePass ==
    [pc |-> "idle", read |-> NoToken, token |-> NoToken, expires |-> Unknown, gone |-> FALSE]

(* A pass knows its row by its id; gone says that this row was removed.    *)
Pass == [pc : {"idle", "call", "write"}, read : Token \cup {NoToken},
         token : Token \cup {NoToken}, expires : Time \cup {Unknown}, gone : BOOLEAN]

IdleRequest == [pc |-> "idle", token |-> NoToken, expires |-> Unknown]

Request == [pc : {"idle", "upsert", "inserted"}, token : Token \cup {NoToken},
            expires : Time \cup {Unknown}]

TypeOK ==
    /\ now \in 1 .. MaxTime
    /\ issued \in 0 .. MaxTokens
    /\ expiry \in [Token -> Time \cup {Unknown}]
    /\ revoked \subseteq Token
    /\ row \in Row
    /\ pass \in [Replicas -> Pass]
    /\ done \subseteq Replicas
    /\ healthy \in BOOLEAN
    /\ outage \in 0 .. MaxOutage
    /\ req \in [Requests -> Request]
    /\ tended \in BOOLEAN
    /\ reconnected \in BOOLEAN
    /\ clobbered \in BOOLEAN

Init ==
    /\ now = 1
    /\ issued = 0
    /\ expiry = [t \in Token |-> Unknown]
    /\ revoked = {}
    /\ row = [state |-> "none", token |-> NoToken, expires |-> Unknown]
    /\ pass = [r \in Replicas |-> IdlePass]
    /\ done = {}
    /\ healthy = TRUE
    /\ outage = 0
    /\ req = [q \in Requests |-> IdleRequest]
    /\ tended = FALSE
    /\ reconnected = FALSE
    /\ clobbered = FALSE

-----------------------------------------------------------------------------
(* The provider.                                                           *)

Alive(t) == t \in 1 .. issued /\ t \notin revoked /\ now < expiry[t]

OldEnough(t) == expiry[t] - Lifetime + MinAge <= now

(* A new token, the number issued + 1.                                     *)
Issues ==
    /\ issued < MaxTokens
    /\ issued' = issued + 1
    /\ expiry' = [expiry EXCEPT ![issued + 1] = now + Lifetime]
    /\ UNCHANGED revoked

Revokes ==
    /\ 1 .. issued # revoked
    /\ revoked' = 1 .. issued
    /\ reconnected' = FALSE
    /\ UNCHANGED <<issued, expiry, row, pass, done, clockVars, req, tended, clobbered>>

-----------------------------------------------------------------------------
(* A pass of the refresher.                                                *)

(* Mutant of IsDue: a token is renewed when it has expired.                *)
IsDueWhenDead(expires) == expires = Unknown \/ expires <= now

(* is_due: an unknown expiry is due; an expired token is still attempted.  *)
IsDue(expires) == expires = Unknown \/ expires <= now + Threshold

(* list_live_channels_by_provider and due_channels.                        *)
PassReads(r) ==
    /\ pass[r].pc = "idle"
    /\ r \notin done
    /\ row.state = "live" /\ IsDue(row.expires)
    /\ pass' = [pass EXCEPT ![r] = [IdlePass EXCEPT !.pc = "call", !.read = row.token]]
    /\ UNCHANGED <<providerVars, row, done, clockVars, req, tended, reconnected, clobbered>>

PassHasNothingDue(r) ==
    /\ pass[r].pc = "idle"
    /\ r \notin done
    /\ ~(row.state = "live" /\ IsDue(row.expires))
    /\ done' = done \cup {r}
    /\ UNCHANGED <<providerVars, row, pass, clockVars, req, tended, reconnected, clobbered>>

(* refresh_token: the provider renews a token that is alive and old        *)
(* enough, and the expiry is reckoned from the moment of the answer.       *)
RefreshIsGranted(r) ==
    /\ pass[r].pc = "call"
    /\ healthy
    /\ Alive(pass[r].read) /\ OldEnough(pass[r].read)
    /\ Issues
    /\ pass' = [pass EXCEPT ![r] = [@ EXCEPT !.pc = "write", !.token = issued + 1,
                                             !.expires = now + Lifetime]]
    /\ UNCHANGED <<row, done, clockVars, req, tended, reconnected, clobbered>>

(* A token the provider will not renew; the stored one is left alone.      *)
RefreshIsRefused(r) ==
    /\ pass[r].pc = "call"
    /\ healthy
    /\ ~(Alive(pass[r].read) /\ OldEnough(pass[r].read))
    /\ pass' = [pass EXCEPT ![r] = IdlePass]
    /\ done' = done \cup {r}
    /\ UNCHANGED <<providerVars, row, clockVars, req, tended, reconnected, clobbered>>

(* No answer: the provider is down, or what it granted was not heard, or   *)
(* the replica dies.  The pass itself does not try again; a replica that   *)
(* is started again begins with a pass.                                    *)
RefreshIsLost(r) ==
    /\ pass[r].pc # "idle"
    /\ pass' = [pass EXCEPT ![r] = IdlePass]
    /\ UNCHANGED <<providerVars, row, done, clockVars, req, tended, reconnected, clobbered>>

(* Mutant of Renewed: the row is written back alive.                       *)
RenewedAlive(r) ==
    [state |-> "live", token |-> pass[r].token, expires |-> pass[r].expires]

(* Mutant of Renewed: the lifetime is added to the expiry once more.       *)
RenewedTwice(r) ==
    [state |-> row.state, token |-> pass[r].token, expires |-> pass[r].expires + Lifetime]

(* update_channel(.., config, false): deleted_at stays, whatever it is.    *)
Renewed(r) ==
    [state |-> row.state, token |-> pass[r].token, expires |-> pass[r].expires]

PassWrites(r) ==
    /\ pass[r].pc = "write"
    /\ IF pass[r].gone
       THEN UNCHANGED <<row, tended, clobbered>>
       ELSE /\ row' = Renewed(r)
            /\ tended' = (row.state = "live")
            /\ clobbered' = (clobbered \/ row.token # pass[r].read)
    /\ pass' = [pass EXCEPT ![r] = IdlePass]
    /\ done' = done \cup {r}
    /\ UNCHANGED <<providerVars, clockVars, req, reconnected>>

-----------------------------------------------------------------------------
(* The operator.                                                           *)

(* connect: the code is exchanged for a token with a known lifetime.  A    *)
(* login started from a channel's Reconnect goes on only when that channel *)
(* exists and is of the account that came back.                            *)
LoginExchanges(q, pinned) ==
    /\ req[q].pc = "idle"
    /\ healthy
    /\ pinned => row.state # "none"
    /\ Issues
    /\ req' = [req EXCEPT ![q] = [pc |-> "upsert", token |-> issued + 1,
                                  expires |-> now + Lifetime]]
    /\ UNCHANGED <<row, pass, done, clockVars, tended, reconnected, clobbered>>

(* Mutant of LoggedIn: the conflict restores the row and keeps its config. *)
LoggedInKeepingConfig(q) ==
    IF row.state = "none"
    THEN [state |-> "live", token |-> req[q].token, expires |-> req[q].expires]
    ELSE [row EXCEPT !.state = "live"]

LoggedIn(q) == [state |-> "live", token |-> req[q].token, expires |-> req[q].expires]

(* upsert_channel_by_external_key.  Only a login that inserted the row may *)
(* still have to remove it.                                                *)
LoginUpserts(q) ==
    /\ req[q].pc = "upsert"
    /\ row' = LoggedIn(q)
    /\ req' = [req EXCEPT ![q] = IF row.state = "none" THEN [IdleRequest EXCEPT !.pc = "inserted"]
                                                       ELSE IdleRequest]
    /\ tended' = TRUE
    /\ reconnected' = (req[q].token \notin revoked)
    /\ clobbered' = FALSE
    /\ UNCHANGED <<providerVars, pass, done, clockVars>>

(* Mutant of Pasted: the expiry of the replaced token is kept.             *)
PastedMerged(t) == [state |-> row.state, token |-> t, expires |-> row.expires]

(* The config of a pasted token is rebuilt, not merged.                    *)
Pasted(t) == [state |-> row.state, token |-> t, expires |-> Unknown]

(* update: a token that /me has vouched for, obtained by hand just now or  *)
(* at any time before.                                                     *)
UpdatePastes(restore) ==
    /\ row.state # "none"
    /\ \/ Issues /\ row' = [Pasted(issued + 1) EXCEPT
                              !.state = IF restore THEN "live" ELSE @]
       \/ /\ \E t \in {u \in Token : Alive(u)} :
                row' = [Pasted(t) EXCEPT !.state = IF restore THEN "live" ELSE @]
          /\ UNCHANGED providerVars
    /\ tended' = FALSE
    /\ clobbered' = FALSE
    /\ UNCHANGED <<pass, done, clockVars, req, reconnected>>

UpdateRestores ==
    /\ row.state = "deleted"
    /\ row' = [row EXCEPT !.state = "live"]
    /\ UNCHANGED <<providerVars, pass, done, clockVars, req, tended, reconnected, clobbered>>

Deletes ==
    /\ row.state = "live"
    /\ row' = [row EXCEPT !.state = "deleted"]
    /\ tended' = FALSE
    /\ UNCHANGED <<providerVars, pass, done, clockVars, req, reconnected, clobbered>>

(* create_instagram: the pasted token's expiry is not known.               *)
CreateInserts(q) ==
    /\ req[q].pc = "idle"
    /\ row.state = "none"
    /\ Issues
    /\ row' = [state |-> "live", token |-> issued + 1, expires |-> Unknown]
    /\ req' = [req EXCEPT ![q] = [IdleRequest EXCEPT !.pc = "inserted"]]
    /\ tended' = FALSE
    /\ clobbered' = FALSE
    /\ UNCHANGED <<pass, done, clockVars, reconnected>>

(* The account could be subscribed, or hard_delete_channel.                *)
InsertStays(q) ==
    /\ req[q].pc = "inserted"
    /\ req' = [req EXCEPT ![q] = IdleRequest]
    /\ UNCHANGED <<providerVars, row, pass, done, clockVars, tended, reconnected, clobbered>>

InsertIsUndone(q) ==
    /\ req[q].pc = "inserted"
    /\ req' = [req EXCEPT ![q] = IdleRequest]
    /\ row' = [state |-> "none", token |-> NoToken, expires |-> Unknown]
    /\ pass' = [r \in Replicas |-> IF pass[r].pc = "idle" THEN pass[r]
                                   ELSE [pass[r] EXCEPT !.gone = TRUE]]
    /\ tended' = FALSE
    /\ UNCHANGED <<providerVars, done, clockVars, reconnected, clobbered>>

-----------------------------------------------------------------------------
(* The next hour.  In an hour the provider answers, some replica finishes  *)
(* its pass; there are at most MaxOutage hours in a row without.           *)
Tick ==
    /\ now < MaxTime
    /\ \A r \in Replicas : pass[r].pc = "idle"
    /\ \A q \in Requests : req[q].pc = "idle"
    /\ healthy => done # {}
    /\ now' = now + 1
    /\ done' = {}
    /\ \/ healthy' = TRUE /\ outage' = 0
       \/ healthy' = FALSE /\ outage < MaxOutage /\ outage' = outage + 1
    /\ UNCHANGED <<providerVars, row, pass, req, tended, reconnected, clobbered>>

Next ==
    \/ \E r \in Replicas :
         \/ PassReads(r)
         \/ PassHasNothingDue(r)
         \/ RefreshIsGranted(r)
         \/ RefreshIsRefused(r)
         \/ RefreshIsLost(r)
         \/ PassWrites(r)
    \/ \E q \in Requests, pinned \in BOOLEAN : LoginExchanges(q, pinned)
    \/ \E q \in Requests : LoginUpserts(q) \/ CreateInserts(q) \/ InsertStays(q)
                              \/ InsertIsUndone(q)
    \/ \E restore \in BOOLEAN : UpdatePastes(restore)
    \/ UpdateRestores
    \/ Deletes
    \/ Revokes
    \/ Tick

Spec == Init /\ [][Next]_vars

-----------------------------------------------------------------------------
(* Properties.                                                             *)

(* The stored expiry is that of the stored token, whoever wrote last:      *)
(* nothing claims a lifetime its token has not got (channels.rs update:    *)
(* "rebuilt, not merged"), and the pass does not date one token with the   *)
(* answer about another.                                                   *)
ExpiryIsTheTokens ==
    row.state # "none" /\ row.expires # Unknown => row.expires = expiry[row.token]

(* The threshold outlasts the outages: a channel that has been live since  *)
(* its expiry became known never holds an expired token, as long as fewer  *)
(* hours in a row than the threshold pass without a working refresh.  A    *)
(* token that was taken back cannot be renewed (refresh.rs, the header:    *)
(* "the refresh has to be proactive rather than reactive").                *)
OutagesAreOutlived ==
    row.state = "live" /\ tended /\ row.token \notin revoked => now < expiry[row.token]

(* A reconnect heals the channel: once a login is stored after the tokens  *)
(* were revoked, the channel keeps a token the provider has not taken      *)
(* back, unless a pass that had read an older one stored what it was given *)
(* over it (refresh_channel writes whatever the row holds by then).        *)
ReconnectHeals ==
    reconnected /\ row.state # "none" => row.token \notin revoked \/ clobbered

(* A refresh that overlaps a delete revives nothing: a deleted channel     *)
(* comes back by a login or by a request that asks for it.                 *)
RefreshRevivesNothing ==
    [][(\E r \in Replicas : pass'[r] # pass[r]) =>
          (row'.state = "live" => row.state = "live")]_vars
=============================================================================
