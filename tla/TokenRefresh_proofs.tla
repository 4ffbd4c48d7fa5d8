------------------------ MODULE TokenRefresh_proofs ------------------------
(***************************************************************************)
(* Proofs about TokenRefresh, for every number of replicas and of requests *)
(* under way, and every lifetime, threshold, least age and outage that     *)
(* RefreshAssumption allows.                                               *)
(***************************************************************************)
EXTENDS TokenRefresh, TLAPS

(* What is issued has an expiry; what was taken back, every older token    *)
(* was taken back with.                                                    *)
TokensKnown ==
    /\ \A t \in 1 .. issued : expiry[t] # Unknown
    /\ revoked \subseteq 1 .. issued
    /\ \A t \in revoked : 1 .. t \subseteq revoked

RowHasAToken == row.state # "none" => row.token \in 1 .. issued

(* What a pass or a login is about to write was issued within the hour.    *)
PassesFresh ==
    \A r \in Replicas :
        /\ pass[r].pc # "idle" => pass[r].read \in 1 .. issued
        /\ pass[r].pc = "write" =>
              /\ pass[r].token \in 1 .. issued
              /\ pass[r].read < pass[r].token
              /\ pass[r].expires = now + Lifetime
              /\ expiry[pass[r].token] = now + Lifetime

LoginsFresh ==
    \A q \in Requests : req[q].pc = "upsert" =>
        /\ req[q].token \in 1 .. issued
        /\ req[q].expires = now + Lifetime
        /\ expiry[req[q].token] = now + Lifetime

TendedIsLive == tended => row.state = "live" /\ row.expires # Unknown

Tended == tended /\ row.token \notin revoked

(* The hours a tended token has left: enough for the outage to come, or    *)
(* for what is left of the one under way.                                  *)
HoursLeft ==
    Tended => IF healthy THEN expiry[row.token] >= now + Threshold - MaxOutage
                         ELSE expiry[row.token] >= now + Threshold + 1 - outage

(* Once a replica has finished its pass, more than the threshold is left.  *)
PassLeavesEnough == Tended /\ done # {} => expiry[row.token] > now + Threshold

(* A token that came after a pass had read the row is of this hour.        *)
OverlapIsFresh ==
    Tended => \A r \in Replicas :
        pass[r].pc # "idle" /\ (pass[r].read # row.token \/ pass[r].gone)
           => expiry[row.token] = now + Lifetime

Known == TokensKnown /\ RowHasAToken /\ PassesFresh /\ LoginsFresh /\ ExpiryIsTheTokens

Tending == TendedIsLive /\ HoursLeft /\ PassLeavesEnough /\ OverlapIsFresh

IInv == TypeOK /\ Known /\ Tending /\ ReconnectHeals

-----------------------------------------------------------------------------
(* Types.                                                                  *)

LEMMA IdleTypes == IdlePass \in Pass /\ IdleRequest \in Request
  BY DEF IdlePass, Pass, IdleRequest, Request

LEMMA InitTypes == Init => TypeOK
<1> SUFFICES ASSUME Init
             PROVE  TypeOK
  OBVIOUS
<1>1. now \in 1 .. MaxTime /\ issued \in 0 .. MaxTokens /\ outage \in 0 .. MaxOutage
  BY RefreshAssumption DEF Init
<1>2. row \in Row
  BY DEF Init, Row
<1>3. pass \in [Replicas -> Pass] /\ req \in [Requests -> Request]
  BY IdleTypes DEF Init
<1> QED
  BY <1>1, <1>2, <1>3 DEF Init, TypeOK

LEMMA IssuesTypes ==
    ASSUME TypeOK, Issues
    PROVE  /\ issued + 1 \in Token /\ issued' \in 0 .. MaxTokens
           /\ now + Lifetime \in Time
           /\ expiry' \in [Token -> Time \cup {Unknown}]
           /\ revoked' \subseteq Token
  BY RefreshAssumption DEF TypeOK, Issues, Token, Time

LEMMA PassUpdated ==
    ASSUME TypeOK, NEW r \in Replicas, NEW p \in Pass
    PROVE  [pass EXCEPT ![r] = p] \in [Replicas -> Pass]
  BY DEF TypeOK

LEMMA RequestUpdated ==
    ASSUME TypeOK, NEW q \in Requests, NEW p \in Request
    PROVE  [req EXCEPT ![q] = p] \in [Requests -> Request]
  BY DEF TypeOK

LEMMA RefreshTypes ==
    ASSUME TypeOK, NEW r \in Replicas,
           \/ PassReads(r) \/ PassHasNothingDue(r) \/ RefreshIsGranted(r)
           \/ RefreshIsRefused(r) \/ RefreshIsLost(r) \/ PassWrites(r)
    PROVE  TypeOK'
<1> USE DEF providerVars, clockVars
<1>1. CASE PassReads(r)
  <2> DEFINE p == [IdlePass EXCEPT !.pc = "call", !.read = row.token]
  <2>1. p \in Pass
    BY DEF TypeOK, Row, Pass, IdlePass
  <2>2. pass' = [pass EXCEPT ![r] = p]
    BY <1>1 DEF PassReads
  <2> HIDE DEF p
  <2>3. pass' \in [Replicas -> Pass]
    BY <2>1, <2>2, PassUpdated
  <2> QED
    BY <1>1, <2>3 DEF PassReads, TypeOK
<1>2. CASE PassHasNothingDue(r)
  BY <1>2 DEF PassHasNothingDue, TypeOK
<1>3. CASE RefreshIsGranted(r)
  <2> DEFINE p == [pass[r] EXCEPT !.pc = "write", !.token = issued + 1, !.expires = now + Lifetime]
  <2>1. Issues
    BY <1>3 DEF RefreshIsGranted
  <2>2. p \in Pass
    BY <2>1, IssuesTypes DEF TypeOK, Pass
  <2>3. pass' = [pass EXCEPT ![r] = p]
    BY <1>3 DEF RefreshIsGranted
  <2> HIDE DEF p
  <2>4. pass' \in [Replicas -> Pass]
    BY <2>2, <2>3, PassUpdated
  <2> QED
    BY <1>3, <2>1, <2>4, IssuesTypes DEF RefreshIsGranted, TypeOK
<1>4. CASE RefreshIsRefused(r)
  <2>1. pass' \in [Replicas -> Pass]
    BY <1>4, IdleTypes, PassUpdated DEF RefreshIsRefused
  <2> QED
    BY <1>4, <2>1 DEF RefreshIsRefused, TypeOK
<1>5. CASE RefreshIsLost(r)
  <2>1. pass' \in [Replicas -> Pass]
    BY <1>5, IdleTypes, PassUpdated DEF RefreshIsLost
  <2> QED
    BY <1>5, <2>1 DEF RefreshIsLost, TypeOK
<1>6. CASE PassWrites(r)
  <2>1. pass' \in [Replicas -> Pass]
    BY <1>6, IdleTypes, PassUpdated DEF PassWrites
  <2>2. row' \in Row
    BY <1>6 DEF PassWrites, Renewed, TypeOK, Row, Pass
  <2>3. tended' \in BOOLEAN /\ clobbered' \in BOOLEAN
    BY <1>6 DEF PassWrites, TypeOK
  <2> QED
    BY <1>6, <2>1, <2>2, <2>3 DEF PassWrites, TypeOK
<1> QED
  BY <1>1, <1>2, <1>3, <1>4, <1>5, <1>6

LEMMA RequestTypes ==
    ASSUME TypeOK, NEW q \in Requests,
           \/ \E pinned \in BOOLEAN : LoginExchanges(q, pinned)
           \/ LoginUpserts(q) \/ CreateInserts(q) \/ InsertStays(q) \/ InsertIsUndone(q)
    PROVE  TypeOK'
<1> USE DEF providerVars, clockVars
<1>1. CASE \E pinned \in BOOLEAN : LoginExchanges(q, pinned)
  <2> DEFINE p == [pc |-> "upsert", token |-> issued + 1, expires |-> now + Lifetime]
  <2>1. Issues /\ req' = [req EXCEPT ![q] = p]
    BY <1>1 DEF LoginExchanges
  <2>2. p \in Request
    BY <2>1, IssuesTypes DEF Request
  <2> HIDE DEF p
  <2>3. req' \in [Requests -> Request]
    BY <2>1, <2>2, RequestUpdated
  <2> QED
    BY <1>1, <2>1, <2>3, IssuesTypes DEF LoginExchanges, TypeOK
<1>2. CASE LoginUpserts(q)
  <2>1. req' \in [Requests -> Request]
    BY <1>2 DEF LoginUpserts, TypeOK, IdleRequest, Request
  <2>2. row' \in Row
    BY <1>2 DEF LoginUpserts, LoggedIn, TypeOK, Row, Request
  <2> QED
    BY <1>2, <2>1, <2>2 DEF LoginUpserts, TypeOK
<1>3. CASE CreateInserts(q)
  <2>1. req' \in [Requests -> Request]
    BY <1>3 DEF CreateInserts, TypeOK, IdleRequest, Request
  <2>2. row' \in Row
    BY <1>3, IssuesTypes DEF CreateInserts, TypeOK, Row
  <2> QED
    BY <1>3, <2>1, <2>2, IssuesTypes DEF CreateInserts, TypeOK
<1>4. CASE InsertStays(q)
  <2>1. req' \in [Requests -> Request]
    BY <1>4, IdleTypes, RequestUpdated DEF InsertStays
  <2> QED
    BY <1>4, <2>1 DEF InsertStays, TypeOK
<1>5. CASE InsertIsUndone(q)
  <2>1. req' \in [Requests -> Request]
    BY <1>5, IdleTypes, RequestUpdated DEF InsertIsUndone
  <2>2. row' \in Row
    BY <1>5 DEF InsertIsUndone, Row
  <2>3. pass' \in [Replicas -> Pass]
    <3>1. ASSUME NEW r \in Replicas
          PROVE  pass[r] \in Pass /\ [pass[r] EXCEPT !.gone = TRUE] \in Pass
      BY DEF TypeOK, Pass
    <3>2. pass' = [r \in Replicas |-> IF pass[r].pc = "idle" THEN pass[r]
                                       ELSE [pass[r] EXCEPT !.gone = TRUE]]
      BY <1>5 DEF InsertIsUndone
    <3> QED
      BY <3>1, <3>2
  <2> QED
    BY <1>5, <2>1, <2>2, <2>3 DEF InsertIsUndone, TypeOK
<1> QED
  BY <1>1, <1>2, <1>3, <1>4, <1>5

LEMMA AdminTypes ==
    ASSUME TypeOK,
           \/ \E restore \in BOOLEAN : UpdatePastes(restore)
           \/ UpdateRestores \/ Deletes \/ Revokes \/ Tick
    PROVE  TypeOK'
<1> USE DEF providerVars, clockVars
<1>1. ASSUME NEW restore \in BOOLEAN, UpdatePastes(restore)
      PROVE  TypeOK'
  <2>1. row' \in Row
    BY <1>1, IssuesTypes DEF UpdatePastes, Pasted, TypeOK, Row
  <2>2. /\ issued' \in 0 .. MaxTokens
        /\ expiry' \in [Token -> Time \cup {Unknown}]
        /\ revoked' \subseteq Token
    BY <1>1, IssuesTypes DEF UpdatePastes, TypeOK
  <2> QED
    BY <1>1, <2>1, <2>2 DEF UpdatePastes, TypeOK
<1>2. CASE UpdateRestores
  BY <1>2 DEF UpdateRestores, TypeOK, Row
<1>3. CASE Deletes
  BY <1>3 DEF Deletes, TypeOK, Row
<1>4. CASE Revokes
  <2>1. revoked' \subseteq Token
    BY <1>4, RefreshAssumption DEF Revokes, TypeOK, Token
  <2> QED
    BY <1>4, <2>1 DEF Revokes, TypeOK
<1>5. CASE Tick
  <2>1. now' \in 1 .. MaxTime
    BY <1>5, RefreshAssumption DEF Tick, TypeOK
  <2>2. healthy' \in BOOLEAN
    BY <1>5 DEF Tick
  <2>3. outage' \in 0 .. MaxOutage
    BY <1>5, RefreshAssumption DEF Tick, TypeOK
  <2> QED
    BY <1>5, <2>1, <2>2, <2>3 DEF Tick, TypeOK
<1> QED
  BY <1>1, <1>2, <1>3, <1>4, <1>5

LEMMA TypeStep == TypeOK /\ [Next]_vars => TypeOK'
<1> SUFFICES ASSUME TypeOK, [Next]_vars
             PROVE  TypeOK'
  OBVIOUS
<1>1. CASE Next
  BY <1>1, RefreshTypes, RequestTypes, AdminTypes DEF Next
<1>2. CASE UNCHANGED vars
  BY <1>2 DEF vars, TypeOK
<1> QED
  BY <1>1, <1>2

(* Every variable keeps its type.                                          *)
THEOREM Types == Spec => []TypeOK
<1>1. Init => TypeOK
  BY InitTypes
<1>2. TypeOK /\ [Next]_vars => TypeOK'
  BY TypeStep
<1> QED
  BY <1>1, <1>2, PTL DEF Spec

-----------------------------------------------------------------------------
(* What is known of the tokens.                                            *)

LEMMA IssuesIsFresh ==
    ASSUME TypeOK, TokensKnown, Issues
    PROVE  /\ issued + 1 \in 1 .. issued' /\ issued + 1 \notin revoked
           /\ issued + 1 \notin 1 .. issued
           /\ expiry'[issued + 1] = now + Lifetime
           /\ issued' = issued + 1 /\ revoked' = revoked
           /\ \A t \in 1 .. issued : t \in 1 .. issued' /\ expiry'[t] = expiry[t]
  BY IssuesTypes DEF TypeOK, TokensKnown, Issues, Token

LEMMA ProviderMoves ==
    ASSUME TypeOK, Next
    PROVE  Issues \/ UNCHANGED providerVars \/ Revokes
<1>1. ASSUME NEW r \in Replicas,
             \/ PassReads(r) \/ PassHasNothingDue(r) \/ RefreshIsGranted(r)
             \/ RefreshIsRefused(r) \/ RefreshIsLost(r) \/ PassWrites(r)
      PROVE  Issues \/ UNCHANGED providerVars
  BY <1>1 DEF PassReads, PassHasNothingDue, RefreshIsGranted, RefreshIsRefused, RefreshIsLost,
              PassWrites
<1>2. ASSUME NEW q \in Requests,
             \/ \E pinned \in BOOLEAN : LoginExchanges(q, pinned)
             \/ LoginUpserts(q) \/ CreateInserts(q) \/ InsertStays(q) \/ InsertIsUndone(q)
      PROVE  Issues \/ UNCHANGED providerVars
  BY <1>2 DEF LoginExchanges, LoginUpserts, CreateInserts, InsertStays,
              InsertIsUndone
<1>3. ASSUME \/ \E restore \in BOOLEAN : UpdatePastes(restore)
             \/ UpdateRestores \/ Deletes \/ Tick
      PROVE  Issues \/ UNCHANGED providerVars
  BY <1>3 DEF UpdatePastes, UpdateRestores, Deletes, Tick
<1> QED
  BY <1>1, <1>2, <1>3 DEF Next

(* A token keeps its expiry, and stays issued.                             *)
LEMMA TokensStay ==
    ASSUME TypeOK, TokensKnown, Next
    PROVE  \A t \in 1 .. issued : t \in 1 .. issued' /\ expiry'[t] = expiry[t]
<1>1. CASE Issues
  BY <1>1, IssuesIsFresh
<1>2. CASE UNCHANGED providerVars \/ Revokes
  BY <1>2 DEF providerVars, Revokes
<1> QED
  BY <1>1, <1>2, ProviderMoves

LEMMA TokensKnownStep ==
    ASSUME TypeOK, TokensKnown, Next
    PROVE  TokensKnown'
<1>1. CASE Issues
  <2>1. /\ issued' = issued + 1 /\ revoked' = revoked /\ issued \in Nat
        /\ expiry'[issued + 1] = now + Lifetime
        /\ \A t \in 1 .. issued : expiry'[t] = expiry[t]
    BY <1>1, IssuesIsFresh DEF TypeOK
  <2>2. now + Lifetime # Unknown
    BY RefreshAssumption DEF TypeOK, Unknown
  <2>3. \A t \in 1 .. issued' : t \in 1 .. issued \/ t = issued + 1
    BY <2>1
  <2> QED
    BY <2>1, <2>2, <2>3 DEF TokensKnown
<1>2. CASE UNCHANGED providerVars
  BY <1>2 DEF providerVars, TokensKnown
<1>3. CASE Revokes
  BY <1>3 DEF Revokes, TokensKnown, TypeOK
<1> QED
  BY <1>1, <1>2, <1>3, ProviderMoves

(* What becomes of a pass in a step.                                       *)
Keeps(r) ==
    /\ now' = now
    /\ pass'[r].pc = pass[r].pc /\ pass'[r].read = pass[r].read
    /\ pass'[r].token = pass[r].token /\ pass'[r].expires = pass[r].expires

LEMMA PassMoves ==
    ASSUME TypeOK, Next, NEW r \in Replicas
    PROVE  \/ Keeps(r)
           \/ pass'[r].pc = "idle"
           \/ PassReads(r)
           \/ RefreshIsGranted(r)
<1> USE DEF Keeps
<1>1. ASSUME NEW p \in Replicas, PassReads(p) \/ RefreshIsGranted(p)
      PROVE  r # p => Keeps(r)
  BY <1>1 DEF PassReads, RefreshIsGranted, TypeOK, clockVars
<1>2. ASSUME NEW p \in Replicas, RefreshIsRefused(p) \/ RefreshIsLost(p) \/ PassWrites(p)
      PROVE  Keeps(r) \/ pass'[r].pc = "idle"
  BY <1>2 DEF RefreshIsRefused, RefreshIsLost, PassWrites, TypeOK, clockVars, IdlePass
<1>3. ASSUME NEW p \in Replicas, PassHasNothingDue(p)
      PROVE  Keeps(r)
  BY <1>3 DEF PassHasNothingDue, clockVars
<1>4. ASSUME NEW q \in Requests,
             \/ \E pinned \in BOOLEAN : LoginExchanges(q, pinned)
             \/ LoginUpserts(q) \/ CreateInserts(q) \/ InsertStays(q)
      PROVE  Keeps(r)
  BY <1>4 DEF LoginExchanges, LoginUpserts, CreateInserts, InsertStays, clockVars
<1>5. ASSUME \/ \E restore \in BOOLEAN : UpdatePastes(restore)
             \/ UpdateRestores \/ Deletes \/ Revokes
      PROVE  Keeps(r)
  BY <1>5 DEF UpdatePastes, UpdateRestores, Deletes, Revokes, clockVars
<1>6. CASE Tick
  BY <1>6 DEF Tick
<1>7. ASSUME NEW q \in Requests, InsertIsUndone(q)
      PROVE  Keeps(r)
  BY <1>7 DEF InsertIsUndone, TypeOK, Pass, clockVars
<1> HIDE DEF Keeps
<1> QED
  BY <1>1, <1>2, <1>3, <1>4, <1>5, <1>6, <1>7 DEF Next

LEMMA PassesFreshStep ==
    ASSUME TypeOK, Known, Next
    PROVE  PassesFresh'
<1> SUFFICES ASSUME NEW r \in Replicas
             PROVE  /\ pass'[r].pc # "idle" => pass'[r].read \in 1 .. issued'
                    /\ pass'[r].pc = "write" =>
                          /\ pass'[r].token \in 1 .. issued'
                          /\ pass'[r].read < pass'[r].token
                          /\ pass'[r].expires = now' + Lifetime
                          /\ expiry'[pass'[r].token] = now' + Lifetime
  BY DEF PassesFresh
<1>1. CASE Keeps(r)
  BY <1>1, TokensStay DEF Known, PassesFresh, Keeps
<1>2. CASE pass'[r].pc = "idle"
  BY <1>2
<1>3. CASE PassReads(r)
  <2>1. row.token \in 1 .. issued
    BY <1>3 DEF PassReads, Known, RowHasAToken
  <2>2. row.token \in 1 .. issued'
    BY <2>1, TokensStay DEF Known
  <2>3. pass'[r].pc = "call" /\ pass'[r].read = row.token
    BY <1>3 DEF PassReads, TypeOK, IdlePass
  <2> QED
    BY <2>2, <2>3
<1>4. CASE RefreshIsGranted(r)
  <2>1. Issues /\ now' = now
    BY <1>4 DEF RefreshIsGranted, clockVars
  <2>2. /\ pass'[r].read = pass[r].read /\ pass'[r].token = issued + 1
        /\ pass'[r].expires = now + Lifetime
    BY <1>4 DEF RefreshIsGranted, TypeOK, Pass
  <2>3. pass[r].read \in 1 .. issued
    BY <1>4 DEF RefreshIsGranted, Known, PassesFresh
  <2>4. pass[r].read < issued + 1
    BY <2>3 DEF TypeOK
  <2>5. pass[r].read \in 1 .. issued'
    BY <2>3, TokensStay DEF Known
  <2> QED
    BY <2>1, <2>2, <2>4, <2>5, IssuesIsFresh DEF Known
<1> QED
  BY <1>1, <1>2, <1>3, <1>4, PassMoves

(* What becomes of a request in a step.                                    *)
LEMMA RequestMoves ==
    ASSUME TypeOK, Next, NEW q \in Requests
    PROVE  \/ req'[q] = req[q] /\ now' = now
           \/ req'[q].pc # "upsert"
           \/ \E pinned \in BOOLEAN : LoginExchanges(q, pinned)
<1>1. ASSUME NEW p \in Requests, NEW pinned \in BOOLEAN, LoginExchanges(p, pinned)
      PROVE  p # q => req'[q] = req[q] /\ now' = now
  BY <1>1 DEF LoginExchanges, TypeOK, clockVars
<1>2. ASSUME NEW p \in Requests, LoginUpserts(p) \/ CreateInserts(p) \/ InsertStays(p) \/ InsertIsUndone(p)
      PROVE  (req'[q] = req[q] /\ now' = now) \/ req'[q].pc # "upsert"
  BY <1>2 DEF LoginUpserts, CreateInserts, InsertStays, InsertIsUndone, TypeOK, Request, IdleRequest,
              clockVars
<1>3. ASSUME NEW r \in Replicas,
             \/ PassReads(r) \/ PassHasNothingDue(r) \/ RefreshIsGranted(r)
             \/ RefreshIsRefused(r) \/ RefreshIsLost(r) \/ PassWrites(r)
      PROVE  req'[q] = req[q] /\ now' = now
  BY <1>3 DEF PassReads, PassHasNothingDue, RefreshIsGranted, RefreshIsRefused, RefreshIsLost,
              PassWrites, clockVars
<1>4. ASSUME \/ \E restore \in BOOLEAN : UpdatePastes(restore)
             \/ UpdateRestores \/ Deletes \/ Revokes
      PROVE  req'[q] = req[q] /\ now' = now
  BY <1>4 DEF UpdatePastes, UpdateRestores, Deletes, Revokes, clockVars
<1>5. CASE Tick
  BY <1>5 DEF Tick
<1> QED
  BY <1>1, <1>2, <1>3, <1>4, <1>5 DEF Next

LEMMA LoginsFreshStep ==
    ASSUME TypeOK, Known, Next
    PROVE  LoginsFresh'
<1> SUFFICES ASSUME NEW q \in Requests, req'[q].pc = "upsert"
             PROVE  /\ req'[q].token \in 1 .. issued'
                    /\ req'[q].expires = now' + Lifetime
                    /\ expiry'[req'[q].token] = now' + Lifetime
  BY DEF LoginsFresh
<1>1. CASE req'[q] = req[q] /\ now' = now
  BY <1>1, TokensStay DEF Known, LoginsFresh
<1>2. ASSUME NEW pinned \in BOOLEAN, LoginExchanges(q, pinned)
      PROVE  /\ req'[q].token = issued + 1 /\ req'[q].expires = now + Lifetime
             /\ now' = now /\ Issues
  BY <1>2 DEF LoginExchanges, TypeOK, clockVars
<1> QED
  BY <1>1, <1>2, IssuesIsFresh, RequestMoves DEF Known

-----------------------------------------------------------------------------
(* The row.                                                                *)

LEMMA RowMoves ==
    ASSUME TypeOK, Next
    PROVE  \/ row' = row
           \/ \E r \in Replicas : PassWrites(r)
           \/ \E q \in Requests : LoginUpserts(q) \/ CreateInserts(q) \/ InsertIsUndone(q)
           \/ \E restore \in BOOLEAN : UpdatePastes(restore)
           \/ UpdateRestores \/ Deletes
  BY DEF Next, PassReads, PassHasNothingDue, RefreshIsGranted, RefreshIsRefused, RefreshIsLost,
         LoginExchanges, InsertStays, Revokes, Tick

RowIsRight ==
    row.state # "none" =>
        row.token \in 1 .. issued /\ (row.expires # Unknown => row.expires = expiry[row.token])

LEMMA RowIsRightMeans == RowIsRight <=> RowHasAToken /\ ExpiryIsTheTokens
  BY DEF RowIsRight, RowHasAToken, ExpiryIsTheTokens

LEMMA RowStep ==
    ASSUME TypeOK, Known, Next
    PROVE  RowIsRight'
<1> USE DEF Known
<1>1. CASE row' = row
  BY <1>1, TokensStay DEF RowHasAToken, ExpiryIsTheTokens, RowIsRight
<1>2. ASSUME NEW r \in Replicas, PassWrites(r)
      PROVE  RowIsRight'
  <2>1. CASE pass[r].gone
    BY <1>2, <2>1, <1>1 DEF PassWrites
  <2>2. CASE ~pass[r].gone
    <3>1. /\ row'.token = pass[r].token /\ row'.expires = pass[r].expires
          /\ issued' = issued /\ expiry' = expiry
      BY <1>2, <2>2 DEF PassWrites, Renewed, providerVars
    <3>2. pass[r].token \in 1 .. issued /\ pass[r].expires = expiry[pass[r].token]
      BY <1>2 DEF PassWrites, PassesFresh
    <3> QED
      BY <3>1, <3>2 DEF RowIsRight
  <2> QED
    BY <2>1, <2>2
<1>3. ASSUME NEW q \in Requests, LoginUpserts(q)
      PROVE  RowIsRight'
  BY <1>3 DEF LoginUpserts, LoggedIn, LoginsFresh, RowIsRight, providerVars
<1>4. ASSUME NEW q \in Requests, CreateInserts(q)
      PROVE  RowIsRight'
  <2>1. row'.token = issued + 1 /\ row'.expires = Unknown /\ Issues
    BY <1>4 DEF CreateInserts
  <2> QED
    BY <2>1, IssuesIsFresh DEF RowIsRight
<1>5. ASSUME NEW q \in Requests, InsertIsUndone(q)
      PROVE  RowIsRight'
  BY <1>5 DEF InsertIsUndone, RowIsRight
<1>6. ASSUME NEW restore \in BOOLEAN, UpdatePastes(restore)
      PROVE  RowIsRight'
  <2>1. row'.expires = Unknown
    BY <1>6 DEF UpdatePastes, Pasted
  <2>2. CASE Issues /\ row' = [Pasted(issued + 1) EXCEPT !.state = IF restore THEN "live" ELSE @]
    <3>1. row'.token = issued + 1
      BY <2>2 DEF Pasted
    <3> QED
      BY <2>1, <2>2, <3>1, IssuesIsFresh DEF RowIsRight
  <2>3. CASE /\ \E t \in {u \in Token : Alive(u)} :
                   row' = [Pasted(t) EXCEPT !.state = IF restore THEN "live" ELSE @]
             /\ UNCHANGED providerVars
    <3>1. PICK t \in {u \in Token : Alive(u)} :
                 row' = [Pasted(t) EXCEPT !.state = IF restore THEN "live" ELSE @]
      BY <2>3
    <3>2. row'.token = t /\ t \in 1 .. issued
      BY <3>1 DEF Pasted, Alive
    <3> QED
      BY <2>1, <2>3, <3>2 DEF RowIsRight, providerVars
  <2> QED
    BY <1>6, <2>2, <2>3 DEF UpdatePastes
<1>7. CASE UpdateRestores
  BY <1>7 DEF UpdateRestores, RowHasAToken, ExpiryIsTheTokens, RowIsRight, TypeOK, Row, providerVars
<1>8. CASE Deletes
  BY <1>8 DEF Deletes, RowHasAToken, ExpiryIsTheTokens, RowIsRight, TypeOK, Row, providerVars
<1> QED
  BY <1>1, <1>2, <1>3, <1>4, <1>5, <1>6, <1>7, <1>8, RowMoves

LEMMA KnownStep ==
    ASSUME TypeOK, Known, Next
    PROVE  Known'
<1>1. RowHasAToken' /\ ExpiryIsTheTokens'
  BY RowStep DEF RowIsRight, RowHasAToken, ExpiryIsTheTokens
<1> QED
  BY <1>1, TokensKnownStep, PassesFreshStep, LoginsFreshStep DEF Known

-----------------------------------------------------------------------------
(* Outages.                                                                *)

(* A step that leaves a tended row and its token alone.                    *)
LEMMA TendingStays ==
    ASSUME TypeOK, Known, Tending, Next,
           row' = row, tended' = tended, UNCHANGED clockVars, revoked' = revoked,
           done' # {} => done # {} \/ (Tended => expiry[row.token] > now + Threshold),
           \A r \in Replicas : pass'[r].pc # "idle" =>
               \/ /\ pass[r].pc # "idle"
                  /\ pass'[r].read = pass[r].read /\ pass'[r].gone = pass[r].gone
               \/ pass'[r].read = row.token /\ ~pass'[r].gone
    PROVE  Tending'
<1>1. Tended' => Tended /\ expiry'[row'.token] = expiry[row.token]
  BY TokensStay DEF Tended, Tending, TendedIsLive, Known, RowHasAToken
<1>2. TendedIsLive'
  BY DEF Tending, TendedIsLive
<1>3. HoursLeft'
  BY <1>1 DEF Tending, HoursLeft, clockVars
<1>4. PassLeavesEnough'
  BY <1>1 DEF Tending, PassLeavesEnough, clockVars
<1>5. OverlapIsFresh'
  BY <1>1 DEF Tending, OverlapIsFresh, clockVars
<1> QED
  BY <1>2, <1>3, <1>4, <1>5 DEF Tending

(* A step that stores a token of this hour, or ends the tending.           *)
LEMMA TendingRenewed ==
    ASSUME TypeOK, TypeOK', UNCHANGED clockVars,
           tended' => row'.state = "live" /\ row'.expires # Unknown
                      /\ expiry'[row'.token] = now + Lifetime
    PROVE  Tending'
<1>1. Tended' => expiry'[row'.token] = now' + Lifetime
  BY DEF Tended, clockVars
<1> DEFINE n == now'
           o == outage'
<1>2. n \in Nat /\ o \in Nat
  BY RefreshAssumption DEF TypeOK
<1> HIDE DEF n, o
<1>3. /\ n + Lifetime > n + Threshold /\ n + Lifetime >= n + Threshold - MaxOutage
      /\ n + Lifetime >= n + Threshold + 1 - o
  BY <1>2, RefreshAssumption
<1>4. now' + Lifetime > now' + Threshold /\ now' + Lifetime >= now' + Threshold - MaxOutage
  BY <1>3 DEF n
<1>5. now' + Lifetime >= now' + Threshold + 1 - outage'
  BY <1>3 DEF n, o
<1> QED
  BY <1>1, <1>4, <1>5
     DEF Tending, TendedIsLive, HoursLeft, PassLeavesEnough, OverlapIsFresh

LEMMA TendingRefresh ==
    ASSUME TypeOK, TypeOK', Known, Tending, Next, NEW r \in Replicas,
           \/ PassReads(r) \/ PassHasNothingDue(r) \/ RefreshIsGranted(r)
           \/ RefreshIsRefused(r) \/ RefreshIsLost(r) \/ PassWrites(r)
    PROVE  Tending'
<1>1. CASE PassReads(r)
  <2>1. /\ row' = row /\ tended' = tended /\ UNCHANGED clockVars /\ revoked' = revoked
        /\ done' = done /\ pass'[r].read = row.token /\ ~pass'[r].gone
        /\ \A p \in Replicas \ {r} : pass'[p] = pass[p]
    BY <1>1 DEF PassReads, TypeOK, IdlePass, providerVars
  <2> QED
    BY <2>1, TendingStays
<1>2. CASE PassHasNothingDue(r)
  <2>1. /\ row' = row /\ tended' = tended /\ UNCHANGED clockVars /\ revoked' = revoked
        /\ pass' = pass
    BY <1>2 DEF PassHasNothingDue, providerVars
  <2>2. Tended => expiry[row.token] > now + Threshold
    <3>1. ASSUME Tended
          PROVE  row.state = "live" /\ row.expires = expiry[row.token] /\ ~IsDue(row.expires)
      BY <1>2, <3>1
         DEF Tended, Tending, TendedIsLive, PassHasNothingDue, Known, ExpiryIsTheTokens
    <3>2. row.expires \in Int /\ now \in Int /\ Threshold \in Int
      BY RefreshAssumption DEF TypeOK, Row, Time, Unknown
    <3> QED
      BY <3>1, <3>2 DEF IsDue
  <2> QED
    BY <2>1, <2>2, TendingStays
<1>3. CASE RefreshIsGranted(r)
  <2>1. /\ row' = row /\ tended' = tended /\ UNCHANGED clockVars /\ revoked' = revoked
        /\ done' = done /\ pass[r].pc # "idle"
        /\ pass'[r].read = pass[r].read /\ pass'[r].gone = pass[r].gone
        /\ \A p \in Replicas \ {r} : pass'[p] = pass[p]
    BY <1>3 DEF RefreshIsGranted, TypeOK, Pass, Issues
  <2> QED
    BY <2>1, TendingStays
<1>4. CASE RefreshIsRefused(r)
  <2>1. /\ row' = row /\ tended' = tended /\ UNCHANGED clockVars /\ revoked' = revoked
        /\ pass'[r].pc = "idle" /\ \A p \in Replicas \ {r} : pass'[p] = pass[p]
    BY <1>4 DEF RefreshIsRefused, TypeOK, IdlePass, providerVars
  <2>2. ASSUME Tended
        PROVE  expiry[row.token] > now + Threshold
    <3>1. /\ row.token \in 1 .. issued /\ row.token \notin revoked
          /\ expiry[row.token] \in Int /\ now \in Int
      BY <2>2, RefreshAssumption
         DEF Tended, Tending, TendedIsLive, Known, RowHasAToken, TypeOK, Token, Time, Unknown
    <3>2. expiry[row.token] > now
      BY <2>2, <3>1, RefreshAssumption DEF Tending, HoursLeft, TypeOK
    <3>3. CASE pass[r].read = row.token
      <4>1. ~OldEnough(row.token)
        BY <1>4, <3>1, <3>2, <3>3 DEF RefreshIsRefused, Alive
      <4> QED
        BY <4>1, <3>1, RefreshAssumption DEF OldEnough
    <3>4. CASE pass[r].read # row.token
      <4>1. expiry[row.token] = now + Lifetime
        BY <1>4, <2>2, <3>4 DEF RefreshIsRefused, Tending, OverlapIsFresh
      <4> QED
        BY <4>1, <3>1, RefreshAssumption
    <3> QED
      BY <3>3, <3>4
  <2> QED
    BY <2>1, <2>2, TendingStays
<1>5. CASE RefreshIsLost(r)
  <2>1. /\ row' = row /\ tended' = tended /\ UNCHANGED clockVars /\ revoked' = revoked
        /\ done' = done /\ pass'[r].pc = "idle"
        /\ \A p \in Replicas \ {r} : pass'[p] = pass[p]
    BY <1>5 DEF RefreshIsLost, TypeOK, IdlePass, providerVars
  <2> QED
    BY <2>1, TendingStays
<1>6. CASE PassWrites(r)
  <2>1. UNCHANGED clockVars
    BY <1>6 DEF PassWrites
  <2>2. CASE pass[r].gone
    <3>1. /\ row' = row /\ tended' = tended /\ revoked' = revoked /\ pass[r].pc = "write"
          /\ pass'[r].pc = "idle" /\ \A p \in Replicas \ {r} : pass'[p] = pass[p]
      BY <1>6, <2>2 DEF PassWrites, TypeOK, IdlePass, providerVars
    <3>2. ASSUME Tended
          PROVE  expiry[row.token] > now + Threshold
      <4>1. expiry[row.token] = now + Lifetime
        BY <2>2, <3>1, <3>2 DEF Tending, OverlapIsFresh
      <4>2. now \in Nat
        BY RefreshAssumption DEF TypeOK
      <4> QED
        BY <4>1, <4>2, RefreshAssumption
    <3> QED
      BY <2>1, <3>1, <3>2, TendingStays
  <2>3. CASE ~pass[r].gone
    <3>1. tended' => row.state = "live"
      BY <1>6, <2>3 DEF PassWrites
    <3>2. /\ row'.state = row.state /\ row'.token = pass[r].token
          /\ row'.expires = pass[r].expires /\ expiry' = expiry
      BY <1>6, <2>3 DEF PassWrites, Renewed, providerVars
    <3>3. /\ pass[r].expires = now + Lifetime /\ expiry[pass[r].token] = now + Lifetime
          /\ now + Lifetime # Unknown
      BY <1>6, RefreshAssumption DEF PassWrites, Known, PassesFresh, TypeOK, Unknown
    <3> QED
      BY <2>1, <3>1, <3>2, <3>3, TendingRenewed
  <2> QED
    BY <2>2, <2>3
<1> QED
  BY <1>1, <1>2, <1>3, <1>4, <1>5, <1>6

LEMMA TendingRequest ==
    ASSUME TypeOK, TypeOK', Known, Tending, Next, NEW q \in Requests,
           \/ \E pinned \in BOOLEAN : LoginExchanges(q, pinned)
           \/ LoginUpserts(q) \/ CreateInserts(q) \/ InsertStays(q) \/ InsertIsUndone(q)
    PROVE  Tending'
<1>1. CASE \E pinned \in BOOLEAN : LoginExchanges(q, pinned)
  <2>1. /\ row' = row /\ tended' = tended /\ UNCHANGED clockVars /\ revoked' = revoked
        /\ done' = done /\ pass' = pass
    BY <1>1 DEF LoginExchanges, Issues
  <2> QED
    BY <2>1, TendingStays
<1>2. CASE LoginUpserts(q)
  <2>1. /\ UNCHANGED clockVars /\ expiry' = expiry
        /\ row'.state = "live" /\ row'.token = req[q].token /\ row'.expires = req[q].expires
    BY <1>2 DEF LoginUpserts, LoggedIn, providerVars
  <2>2. /\ req[q].expires = now + Lifetime /\ expiry[req[q].token] = now + Lifetime
        /\ now + Lifetime # Unknown
    BY <1>2, RefreshAssumption DEF LoginUpserts, Known, LoginsFresh, TypeOK, Unknown
  <2> QED
    BY <2>1, <2>2, TendingRenewed
<1>3. CASE CreateInserts(q)
  <2>1. UNCHANGED clockVars /\ ~tended'
    BY <1>3 DEF CreateInserts
  <2> QED
    BY <2>1, TendingRenewed
<1>4. CASE InsertStays(q)
  <2>1. /\ row' = row /\ tended' = tended /\ UNCHANGED clockVars /\ revoked' = revoked
        /\ done' = done /\ pass' = pass
    BY <1>4 DEF InsertStays, providerVars
  <2> QED
    BY <2>1, TendingStays
<1>5. CASE InsertIsUndone(q)
  <2>1. UNCHANGED clockVars /\ ~tended'
    BY <1>5 DEF InsertIsUndone
  <2> QED
    BY <2>1, TendingRenewed
<1> QED
  BY <1>1, <1>2, <1>3, <1>4, <1>5

LEMMA TendingAdmin ==
    ASSUME TypeOK, TypeOK', Known, Tending, Next,
           \/ \E restore \in BOOLEAN : UpdatePastes(restore)
           \/ UpdateRestores \/ Deletes \/ Revokes
    PROVE  Tending'
<1>1. CASE \E restore \in BOOLEAN : UpdatePastes(restore)
  <2>1. UNCHANGED clockVars /\ ~tended'
    BY <1>1 DEF UpdatePastes
  <2> QED
    BY <2>1, TendingRenewed
<1>2. CASE UpdateRestores
  <2>1. UNCHANGED clockVars /\ ~tended'
    BY <1>2 DEF UpdateRestores, Tending, TendedIsLive
  <2> QED
    BY <2>1, TendingRenewed
<1>3. CASE Deletes
  <2>1. UNCHANGED clockVars /\ ~tended'
    BY <1>3 DEF Deletes
  <2> QED
    BY <2>1, TendingRenewed
<1>4. CASE Revokes
  <2>1. row' = row /\ tended' = tended /\ revoked' = 1 .. issued
    BY <1>4 DEF Revokes
  <2>2. ~Tended'
    BY <2>1 DEF Tended, Tending, TendedIsLive, Known, RowHasAToken
  <2> QED
    BY <2>1, <2>2
       DEF Tending, TendedIsLive, HoursLeft, PassLeavesEnough, OverlapIsFresh
<1> QED
  BY <1>1, <1>2, <1>3, <1>4

(* An hour passes: what the threshold left is more than the outage takes.  *)
LEMMA TendingTick ==
    ASSUME TypeOK, Known, Tending, Tick
    PROVE  Tending'
<1>1. /\ now' = now + 1 /\ done' = {} /\ row' = row /\ tended' = tended
      /\ revoked' = revoked /\ expiry' = expiry /\ pass' = pass
      /\ \A r \in Replicas : pass[r].pc = "idle"
      /\ \/ healthy' /\ outage' = 0
         \/ ~healthy' /\ outage' = outage + 1 /\ outage < MaxOutage
  BY DEF Tick, providerVars
<1>2. Tended' <=> Tended
  BY <1>1 DEF Tended
<1>3. now \in Nat /\ outage \in 0 .. MaxOutage
  BY RefreshAssumption DEF TypeOK
<1>4. Tended => expiry[row.token] \in Nat
  BY RefreshAssumption
     DEF Tended, Tending, TendedIsLive, Known, RowHasAToken, TypeOK, Token, Time, Unknown
<1>5. Tended => expiry[row.token] >= now + 1 + Threshold - outage
  <2>1. CASE healthy
    <3>1. done # {}
      BY <2>1 DEF Tick
    <3> QED
      BY <1>3, <1>4, <3>1, RefreshAssumption DEF Tending, PassLeavesEnough
  <2>2. CASE ~healthy
    BY <1>3, <1>4, <2>2, RefreshAssumption DEF Tending, HoursLeft
  <2> QED
    BY <2>1, <2>2
<1>6. HoursLeft'
  <2> SUFFICES ASSUME Tended
               PROVE  IF healthy' THEN expiry[row.token] >= now' + Threshold - MaxOutage
                                  ELSE expiry[row.token] >= now' + Threshold + 1 - outage'
    BY <1>1, <1>2 DEF HoursLeft
  <2> QED
    BY <1>1, <1>3, <1>4, <1>5, RefreshAssumption
<1>7. TendedIsLive'
  BY <1>1 DEF Tending, TendedIsLive
<1>8. PassLeavesEnough' /\ OverlapIsFresh'
  BY <1>1 DEF PassLeavesEnough, OverlapIsFresh
<1> QED
  BY <1>6, <1>7, <1>8 DEF Tending

LEMMA TendingStep ==
    ASSUME TypeOK, TypeOK', Known, Tending, Next
    PROVE  Tending'
  BY TendingRefresh, TendingRequest, TendingAdmin, TendingTick DEF Next

-----------------------------------------------------------------------------
(* Reconnecting.                                                           *)

(* What a pass was given is taken back only with the token it had read.    *)
LEMMA TakenBackTogether ==
    ASSUME TypeOK, Known, NEW r \in Replicas, pass[r].pc = "write", pass[r].token \in revoked
    PROVE  pass[r].read \in revoked
<1>1. 1 .. pass[r].token \subseteq revoked
  BY DEF Known, TokensKnown
<1>2. /\ pass[r].read \in 1 .. issued /\ pass[r].token \in 1 .. issued
      /\ pass[r].read < pass[r].token
  BY DEF Known, PassesFresh
<1> QED
  BY <1>1, <1>2 DEF TypeOK

LEMMA ReconnectStep ==
    ASSUME TypeOK, Known, ReconnectHeals, Next
    PROVE  ReconnectHeals'
<1> USE DEF ReconnectHeals
<1>1. ASSUME NEW r \in Replicas,
             \/ PassReads(r) \/ PassHasNothingDue(r) \/ RefreshIsGranted(r)
             \/ RefreshIsRefused(r) \/ RefreshIsLost(r)
      PROVE  ReconnectHeals'
  <2>1. UNCHANGED <<row, revoked, reconnected, clobbered>>
    BY <1>1 DEF PassReads, PassHasNothingDue, RefreshIsGranted, RefreshIsRefused,
                RefreshIsLost, providerVars, Issues
  <2> QED
    BY <2>1
<1>2. ASSUME NEW r \in Replicas, PassWrites(r)
      PROVE  ReconnectHeals'
  <2>1. CASE pass[r].gone
    BY <1>2, <2>1 DEF PassWrites, providerVars
  <2>2. CASE ~pass[r].gone
    <3>1. /\ row'.token = pass[r].token /\ row'.state = row.state
          /\ revoked' = revoked /\ reconnected' = reconnected
          /\ clobbered' = (clobbered \/ row.token # pass[r].read) /\ pass[r].pc = "write"
      BY <1>2, <2>2 DEF PassWrites, Renewed, providerVars
    <3> QED
      BY <2>2, <3>1, TakenBackTogether
  <2> QED
    BY <2>1, <2>2
<1>3. ASSUME NEW q \in Requests, \E pinned \in BOOLEAN : LoginExchanges(q, pinned)
      PROVE  ReconnectHeals'
  BY <1>3 DEF LoginExchanges, Issues
<1>4. ASSUME NEW q \in Requests, LoginUpserts(q)
      PROVE  ReconnectHeals'
  BY <1>4 DEF LoginUpserts, LoggedIn, providerVars
<1>5. ASSUME NEW q \in Requests, CreateInserts(q)
      PROVE  ReconnectHeals'
  <2>1. Issues /\ row'.token = issued + 1
    BY <1>5 DEF CreateInserts
  <2> QED
    BY <2>1, IssuesIsFresh DEF Known
<1>6. ASSUME NEW q \in Requests, InsertStays(q) \/ InsertIsUndone(q)
      PROVE  ReconnectHeals'
  <2>1. CASE InsertStays(q)
    BY <2>1 DEF InsertStays, providerVars
  <2>2. CASE InsertIsUndone(q)
    BY <2>2 DEF InsertIsUndone
  <2> QED
    BY <1>6, <2>1, <2>2
<1>7. ASSUME NEW restore \in BOOLEAN, UpdatePastes(restore)
      PROVE  ReconnectHeals'
  <2>1. CASE Issues /\ row' = [Pasted(issued + 1) EXCEPT !.state = IF restore THEN "live" ELSE @]
    <3>1. row'.token = issued + 1
      BY <2>1 DEF Pasted
    <3> QED
      BY <2>1, <3>1, IssuesIsFresh DEF Known
  <2>2. ASSUME NEW t \in Token, Alive(t), UNCHANGED providerVars,
               row' = [Pasted(t) EXCEPT !.state = IF restore THEN "live" ELSE @]
        PROVE  ReconnectHeals'
    BY <2>2 DEF Pasted, Alive, providerVars
  <2> QED
    BY <1>7, <2>1, <2>2 DEF UpdatePastes
<1>8. CASE UpdateRestores
  BY <1>8 DEF UpdateRestores, TypeOK, Row, providerVars
<1>9. CASE Deletes
  BY <1>9 DEF Deletes, TypeOK, Row, providerVars
<1>10. CASE Revokes
  BY <1>10 DEF Revokes
<1>11. CASE Tick
  <2>1. UNCHANGED <<row, revoked, reconnected, clobbered>>
    BY <1>11 DEF Tick, providerVars
  <2> QED
    BY <2>1
<1> QED
  BY <1>1, <1>2, <1>3, <1>4, <1>5, <1>6, <1>7, <1>8, <1>9, <1>10, <1>11
     DEF Next

-----------------------------------------------------------------------------
(* The inductive invariant.                                                *)

LEMMA Initially == Init => IInv
<1> SUFFICES ASSUME Init
             PROVE  IInv
  OBVIOUS
<1>1. issued = 0 /\ revoked = {} /\ row.state = "none" /\ ~tended /\ ~reconnected
  BY DEF Init
<1>2. /\ \A r \in Replicas : pass[r].pc = "idle"
      /\ \A q \in Requests : req[q].pc = "idle"
  BY DEF Init, IdlePass, IdleRequest
<1>3. Known
  BY <1>1, <1>2 DEF Known, TokensKnown, RowHasAToken, PassesFresh, LoginsFresh, ExpiryIsTheTokens
<1>4. Tending /\ ReconnectHeals
  BY <1>1 DEF Tending, TendedIsLive, Tended, HoursLeft, PassLeavesEnough, OverlapIsFresh,
              ReconnectHeals
<1> QED
  BY <1>3, <1>4, InitTypes DEF IInv

LEMMA Stuttering == IInv /\ UNCHANGED vars => IInv'
  BY DEF vars, IInv, TypeOK, Known, TokensKnown, RowHasAToken, PassesFresh, LoginsFresh,
         ExpiryIsTheTokens, Tending, TendedIsLive, Tended, HoursLeft, PassLeavesEnough,
         OverlapIsFresh, ReconnectHeals

LEMMA InvStep == IInv /\ [Next]_vars => IInv'
<1>1. ASSUME IInv, Next
      PROVE  IInv'
  BY <1>1, TypeStep, KnownStep, TendingStep, ReconnectStep DEF IInv
<1> QED
  BY <1>1, Stuttering

THEOREM Invariance == Spec => []IInv
  BY Initially, InvStep, PTL DEF Spec

(* The stored expiry is always that of the stored token.                   *)
THEOREM StoredExpiry == Spec => []ExpiryIsTheTokens
<1>1. IInv => ExpiryIsTheTokens
  BY DEF IInv, Known
<1> QED
  BY <1>1, Invariance, PTL

(* Outages shorter than the threshold cost no channel its token.           *)
THEOREM Outlived == Spec => []OutagesAreOutlived
<1>1. IInv => OutagesAreOutlived
  <2> SUFFICES ASSUME IInv, row.state = "live", tended, row.token \notin revoked
               PROVE  now < expiry[row.token]
    BY DEF OutagesAreOutlived
  <2>1. IF healthy THEN expiry[row.token] >= now + Threshold - MaxOutage
                   ELSE expiry[row.token] >= now + Threshold + 1 - outage
    BY DEF IInv, Tending, HoursLeft, Tended
  <2>2. now \in Nat /\ outage \in 0 .. MaxOutage
    BY RefreshAssumption DEF IInv, TypeOK
  <2>3. expiry[row.token] \in Nat
    <3>1. row.token \in Token
      <4>1. row.token \in 1 .. issued
        BY DEF IInv, Known, RowHasAToken
      <4> QED
        BY <4>1, RefreshAssumption DEF IInv, TypeOK, Token
    <3> QED
      BY <3>1, RefreshAssumption DEF IInv, TypeOK, Time, Unknown
  <2> QED
    BY <2>1, <2>2, <2>3, RefreshAssumption
<1> QED
  BY <1>1, Invariance, PTL

(* A stored login stays good, but for a pass that overlapped it.           *)
THEOREM Reconnected == Spec => []ReconnectHeals
<1>1. IInv => ReconnectHeals
  BY DEF IInv
<1> QED
  BY <1>1, Invariance, PTL

(* No step of a pass brings a deleted channel back.                        *)
THEOREM Unrevived == Spec => RefreshRevivesNothing
<1> DEFINE Step == (\E r \in Replicas : pass'[r] # pass[r]) =>
                      (row'.state = "live" => row.state = "live")
<1>1. TypeOK /\ [Next]_vars => [Step]_vars
  <2> SUFFICES ASSUME TypeOK, Next
               PROVE  Step
    BY DEF vars
  <2>1. ASSUME NEW r \in Replicas,
               \/ PassReads(r) \/ PassHasNothingDue(r) \/ RefreshIsGranted(r)
               \/ RefreshIsRefused(r) \/ RefreshIsLost(r) \/ PassWrites(r)
        PROVE  row'.state = row.state
    BY <2>1 DEF PassReads, PassHasNothingDue, RefreshIsGranted, RefreshIsRefused,
                RefreshIsLost, PassWrites, Renewed
  <2>2. ASSUME NEW q \in Requests,
               \/ \E pinned \in BOOLEAN : LoginExchanges(q, pinned)
               \/ LoginUpserts(q) \/ CreateInserts(q) \/ InsertStays(q) \/ InsertIsUndone(q)
        PROVE  pass' = pass \/ row'.state = "none"
    BY <2>2 DEF LoginExchanges, LoginUpserts, CreateInserts, InsertStays, InsertIsUndone
  <2>3. ASSUME \/ \E restore \in BOOLEAN : UpdatePastes(restore)
               \/ UpdateRestores \/ Deletes \/ Revokes \/ Tick
        PROVE  pass' = pass
    BY <2>3 DEF UpdatePastes, UpdateRestores, Deletes, Revokes, Tick
  <2> QED
    BY <2>1, <2>2, <2>3 DEF Next
<1> QED
  BY <1>1, Types, PTL DEF Spec, RefreshRevivesNothing
=============================================================================
