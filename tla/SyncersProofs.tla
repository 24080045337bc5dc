---------------------------- MODULE SyncersProofs ----------------------------
(***************************************************************************)
(* Proofs about Syncers and FinastraHttp, for any runs, items, changes and *)
(* faults, whatever the feed and the token flow.                           *)
(*                                                                         *)
(* A run is followed from its start to its end by MirrorInv: each item it  *)
(* found at its start is stored, in the answer on its way, or on a page    *)
(* that is yet to come.                                                    *)
(***************************************************************************)
EXTENDS Syncers, FiniteSetTheorems, SequenceTheorems, TLAPS

-----------------------------------------------------------------------------
(* The invariant.                                                          *)

\* Requests of a call that were not spent on a transient error.
Extra(c) == IF refreshed[c] THEN 1 ELSE 0

\* Every request of a call but the first, and but the one after a 401, follows
\* a transient error; once a request was sent there is a token.
ClientInv(c) ==
  /\ phase[c] = "token" =>
       /\ Extra(c) <= attempt[c] /\ attempt[c] <= 2 + Extra(c) /\ attempt[c] <= hiccups + Extra(c)
       /\ token[c] = "none" => attempt[c] = 0
  /\ phase[c] = "sent" =>
       /\ 1 + Extra(c) <= attempt[c] /\ attempt[c] <= 3 + Extra(c) /\ attempt[c] <= hiccups + 1 + Extra(c)
       /\ token[c] # "none"
  /\ flow = "static" => token[c] # "none"
  /\ phase[c] = "raised" =>
       /\ attempt[c] <= IF refreshed[c] THEN 4 ELSE 3
       /\ cause[c] = "transport" => hiccups >= (IF refreshed[c] THEN 2 ELSE 3)
       /\ cause[c] = "unauthorized" /\ flow = "static" => attempt[c] >= 2
       /\ cause[c] = "grant" => attempt[c] = 0 /\ flow # "static"

HttpInv == HttpTypeOK /\ \A c \in Clients : ClientInv(c)

\* The provider lists an item once, and dates it if it dates such items.
SourceInv ==
  /\ feed \in Feeds /\ kind \in [Items -> Kinds] /\ changes \in 0 .. MaxChanges
  /\ source \in Seq(Item)
  /\ \A j, k \in DOMAIN source : source[j].id = source[k].id => j = k
  /\ \A k \in DOMAIN source : /\ source[k].rev <= changes + 1
                              /\ source[k].date # 0 <=> kind[source[k].id] = "dated"

\* A request is a running run's; pages run out.
RunInv ==
  /\ pc \in [Syncs -> {"idle", "running", "done", "failed"}]
  /\ asked \in [Syncs -> Seq(Items)]
  /\ page \in [Syncs -> 1 .. Cardinality(Items)]
  /\ reply \in [Syncs -> [items : SUBSET Item, more : BOOLEAN]]
  /\ first \in [Syncs -> SUBSET Item]
  /\ overtaken \in [Syncs -> BOOLEAN] /\ steady \in [Syncs -> BOOLEAN]
  /\ \A s \in Syncs :
        /\ phase[s] # "idle" => pc[s] = "running"
        /\ pc[s] # "running" => page[s] = 1
        /\ phase[s] # "answered" => reply[s] = NoReply
        /\ Len(asked[s]) <= Cardinality(Items)
        /\ reply[s].more => page[s] < Cardinality(Items)

\* An answer has one item at most, as the provider had it: what the provider has
\* of it now is the same or a later revision.
ReplyInv ==
  \A s \in Syncs :
    /\ \A i, j \in reply[s].items : i = j
    /\ \A new \in reply[s].items :
         /\ new.rev <= changes + 1
         /\ \A k \in DOMAIN source : source[k].id = new.id => new.rev <= source[k].rev

AnyRow == [id : Items, rev : 1 .. MaxChanges + 1, date : Nat]

OneRowPerKey == \A r, q \in table : Key(r) = Key(q) => r = q

\* No row is newer than the provider's item, nor than an answer that was not
\* overtaken.
RowsInv ==
  /\ table \subseteq AnyRow /\ clock \in Nat
  /\ OneRowPerKey
  /\ \A r \in table : /\ r.rev <= changes + 1
                      /\ \A k \in DOMAIN source : source[k].id = r.id => r.rev <= source[k].rev
  /\ \A s \in Syncs : phase[s] = "answered" /\ ~overtaken[s] =>
        \A new \in reply[s].items, r \in table : r.id = new.id => r.rev <= new.rev

\* Page k of a run is the one that lists the item.
At(s, k, id) ==
  IF feed = "balances" THEN k \in DOMAIN asked[s] /\ asked[s][k] = id
  ELSE k \in DOMAIN source /\ source[k].id = id

Stored(i, rows, recent) ==
  \/ feed = "balances" /\ i.date = 0
  \/ \E r \in rows : r.id = i.id /\ (recent => r.rev >= i.rev)

\* The item as it is now, or as an answer has it: the same, or a later revision.
Later(new, i) == new.id = i.id /\ new.rev >= i.rev /\ (new.date = 0 <=> i.date = 0)

ToCome(s, i) ==
  \E k \in Nat : /\ At(s, k, i.id) /\ page[s] <= k
                 /\ phase[s] = "answered" => page[s] < k /\ GoesOn(s)

\* What has become, or is to become, of an item that a run found at its start.
Followed(s, i) ==
  /\ \E k \in DOMAIN source : Later(source[k], i)
  /\ \A new \in reply[s].items : new.id = i.id => Later(new, i)
  /\ \/ Stored(i, table, steady[s])
     \/ \E new \in reply[s].items : new.id = i.id
     \/ ToCome(s, i)

MirrorInv == \A s \in Syncs : pc[s] = "running" => \A i \in first[s] : Followed(s, i)

IInv == HttpInv /\ SourceInv /\ RunInv /\ ReplyInv /\ RowsInv /\ MirrorInv

-----------------------------------------------------------------------------
(* The request loop.                                                       *)

LEMMA HttpStart == ASSUME NEW f \in Flows, HttpInit(f) PROVE HttpInv
<1> USE HiccupsAreBounded DEF HttpInit, FirstToken, Flows
<1>1. HttpTypeOK
    BY DEF HttpTypeOK
<1>2. \A c \in Clients : phase[c] = "idle" /\ (flow = "static" => token[c] # "none")
    OBVIOUS
<1> QED BY <1>1, <1>2 DEF HttpInv, ClientInv

\* What is to show of the client that moved; the others have what they had.
LEMMA HttpOthers ==
  ASSUME HttpInv, HttpTypeOK', NEW c \in Clients, hiccups <= hiccups', flow' = flow,
         \A d \in Clients \ {c} : /\ phase'[d] = phase[d] /\ attempt'[d] = attempt[d]
                                  /\ refreshed'[d] = refreshed[d] /\ cause'[d] = cause[d]
                                  /\ token'[d] = token[d],
         ClientInv(c)'
  PROVE  HttpInv'
<1>1. /\ attempt \in [Clients -> Nat] /\ hiccups \in Nat /\ hiccups' \in Nat
    BY HiccupsAreBounded DEF HttpInv, HttpTypeOK
<1>2. ASSUME NEW d \in Clients, d # c PROVE ClientInv(d)'
  <2>1. ClientInv(d)
      BY DEF HttpInv
  <2> QED BY <1>1, <1>2, <2>1 DEF ClientInv, Extra
<1> QED BY <1>2 DEF HttpInv

\* A step of one client, on its request or around it.
HttpStep(c) == Call(c) \/ Request(c) \/ Answer(c) \/ Drop(c) \/ Expire(c)

LEMMA HttpTypes == ASSUME HttpTypeOK, NEW c \in Clients, HttpStep(c) PROVE HttpTypeOK'
<1> USE HiccupsAreBounded DEF HttpTypeOK
<1>1. CASE Call(c)
    BY <1>1 DEF Call
<1>2. CASE UseCached(c)
    BY <1>2 DEF UseCached, Send
<1>3. CASE GrantClientCredentials(c)
    BY <1>3 DEF GrantClientCredentials, Obtain, Send
<1>4. CASE GrantAuthCode(c)
    BY <1>4 DEF GrantAuthCode, Obtain, Send
<1>5. CASE GrantRefused(c)
    BY <1>5 DEF GrantRefused, Raise
<1>6. CASE Answer(c)
    BY <1>6 DEF Answer
<1>7. CASE Hiccup(c)
    BY <1>7 DEF Hiccup, Raise
<1>8. CASE Unauthorized(c)
    BY <1>8 DEF Unauthorized, Raise
<1>9. CASE Expire(c)
    BY <1>9 DEF Expire
<1>10. CASE Drop(c)
    BY <1>10 DEF Drop, FirstToken
<1>11. CASE Rejected(c)
    BY <1>11 DEF Rejected, Raise
<1> QED BY <1>1, <1>2, <1>3, <1>4, <1>5, <1>6, <1>7, <1>8, <1>9, <1>10, <1>11 DEF HttpStep, Request

\* One step each; of the client that moves, what it has before and after it.
LEMMA HttpKeeps == ASSUME HttpInv, NEW c \in Clients, HttpStep(c) PROVE HttpInv'
<1>0. /\ HttpTypeOK' /\ ClientInv(c)
      /\ attempt \in [Clients -> Nat] /\ hiccups \in Nat /\ refreshed \in [Clients -> BOOLEAN]
      /\ phase \in [Clients -> {"idle", "token", "sent", "answered", "raised"}]
      /\ cause \in [Clients -> {"none", "grant", "transport", "status", "unauthorized"}]
      /\ token \in [Clients -> {"none", "good", "stale"}]
    BY HttpTypes, HiccupsAreBounded DEF HttpInv, HttpTypeOK
<1>a. attempt[c] \in Nat /\ Extra(c) \in {0, 1} /\ (Extra(c) = 1 <=> refreshed[c])
    BY <1>0 DEF Extra
<1>1. CASE Call(c)
  <2>1. /\ phase' = [phase EXCEPT ![c] = "token"] /\ attempt' = [attempt EXCEPT ![c] = 0]
        /\ refreshed' = [refreshed EXCEPT ![c] = FALSE]
        /\ UNCHANGED <<flow, token, cause, hiccups>>
      BY <1>1 DEF Call
  <2>2. phase'[c] = "token" /\ attempt'[c] = 0 /\ refreshed'[c] = FALSE /\ Extra(c)' = 0
      BY <1>0, <2>1 DEF Extra
  <2>3. ClientInv(c)'
      BY <1>0, <2>1, <2>2 DEF ClientInv
  <2>4. /\ \A d \in Clients \ {c} : /\ phase'[d] = phase[d] /\ attempt'[d] = attempt[d]
                                   /\ refreshed'[d] = refreshed[d] /\ cause'[d] = cause[d]
                                   /\ token'[d] = token[d]
        /\ hiccups <= hiccups' /\ flow' = flow
      BY <1>0, <2>1
  <2> QED BY <1>0, <2>3, <2>4, HttpOthers
<1>2. CASE UseCached(c) \/ GrantClientCredentials(c) \/ GrantAuthCode(c)
  <2>1. /\ phase[c] = "token" /\ phase' = [phase EXCEPT ![c] = "sent"]
        /\ attempt' = [attempt EXCEPT ![c] = @ + 1]
        /\ UNCHANGED <<flow, refreshed, cause, hiccups>>
        /\ \/ token' = token /\ token[c] # "none"
           \/ token' = [token EXCEPT ![c] = "good"]
      BY <1>2 DEF UseCached, GrantClientCredentials, GrantAuthCode, Obtain, Send
  <2>2. phase'[c] = "sent" /\ attempt'[c] = attempt[c] + 1 /\ token'[c] # "none" /\ Extra(c)' = Extra(c)
      BY <1>0, <2>1 DEF Extra
  <2>3. ClientInv(c)'
      BY <1>0, <1>a, <2>1, <2>2 DEF ClientInv
  <2> QED BY <1>0, <2>1, <2>3, HttpOthers
<1>3. CASE GrantRefused(c)
  <2>1. /\ phase[c] = "token" /\ token[c] = "none" /\ hiccups' \in {hiccups, hiccups + 1}
        /\ phase' = [phase EXCEPT ![c] = "raised"] /\ cause' = [cause EXCEPT ![c] = "grant"]
        /\ UNCHANGED <<flow, token, attempt, refreshed>>
      BY <1>3 DEF GrantRefused, Raise
  <2>2. ClientInv(c)'
      BY <1>0, <1>a, <2>1 DEF ClientInv
  <2> QED BY <1>0, <2>1, <2>2, HttpOthers
<1>4. CASE Answer(c)
  <2>1. phase' = [phase EXCEPT ![c] = "answered"] /\ UNCHANGED <<flow, token, attempt, refreshed, cause, hiccups>>
      BY <1>4 DEF Answer
  <2>2. ClientInv(c)'
      BY <1>0, <2>1 DEF ClientInv
  <2> QED BY <1>0, <2>1, <2>2, HttpOthers
<1>5. CASE Hiccup(c)
  <2>1. /\ phase[c] = "sent" /\ hiccups' = hiccups + 1
        /\ UNCHANGED <<flow, token, attempt, refreshed>>
        /\ \/ attempt[c] < 3 /\ UNCHANGED cause /\ phase' = [phase EXCEPT ![c] = "token"]
           \/ /\ attempt[c] >= 3 /\ phase' = [phase EXCEPT ![c] = "raised"]
              /\ cause' = [cause EXCEPT ![c] = "transport"]
      BY <1>5 DEF Hiccup, Raise
  <2>2. Extra(c)' = Extra(c)
      BY <2>1 DEF Extra
  <2>3. ClientInv(c)'
      BY <1>0, <1>a, <2>1, <2>2 DEF ClientInv
  <2> QED BY <1>0, <2>1, <2>3, HttpOthers
<1>6. CASE Unauthorized(c)
  <2>1. /\ phase[c] = "sent" /\ UNCHANGED <<flow, token, attempt, hiccups>>
        /\ \/ /\ ~refreshed[c] /\ refreshed' = [refreshed EXCEPT ![c] = TRUE]
              /\ phase' = [phase EXCEPT ![c] = "token"] /\ UNCHANGED cause
           \/ /\ flow # "static" \/ refreshed[c]
              /\ phase' = [phase EXCEPT ![c] = "raised"] /\ cause' = [cause EXCEPT ![c] = "unauthorized"]
              /\ UNCHANGED refreshed
      BY <1>6 DEF Unauthorized, Raise
  <2>2. ~refreshed[c] /\ refreshed' = [refreshed EXCEPT ![c] = TRUE] => Extra(c)' = 1 /\ Extra(c) = 0
      BY <1>0 DEF Extra
  <2>3. ClientInv(c)'
      BY <1>0, <1>a, <2>1, <2>2 DEF ClientInv
  <2> QED BY <1>0, <2>1, <2>3, HttpOthers
<1>7. CASE Drop(c)
  <2>1. /\ token' = [token EXCEPT ![c] = FirstToken(flow)] /\ phase' = [phase EXCEPT ![c] = "idle"]
        /\ attempt' = [attempt EXCEPT ![c] = 0] /\ refreshed' = [refreshed EXCEPT ![c] = FALSE]
        /\ cause' = [cause EXCEPT ![c] = "none"]
        /\ UNCHANGED <<flow, hiccups>>
      BY <1>7 DEF Drop
  <2>2. phase'[c] = "idle" /\ (flow' = "static" => token'[c] # "none")
      BY <1>0, <2>1 DEF FirstToken
  <2>3. ClientInv(c)'
      BY <2>2 DEF ClientInv
  <2>4. /\ \A d \in Clients \ {c} : /\ phase'[d] = phase[d] /\ attempt'[d] = attempt[d]
                                   /\ refreshed'[d] = refreshed[d] /\ cause'[d] = cause[d]
                                   /\ token'[d] = token[d]
        /\ hiccups <= hiccups' /\ flow' = flow
      BY <1>0, <2>1
  <2> QED BY <1>0, <2>3, <2>4, HttpOthers
<1>8. CASE Expire(c)
  <2>1. /\ UNCHANGED <<flow, phase, attempt, refreshed, cause, hiccups>>
        /\ token[c] = "good" /\ token' = [token EXCEPT ![c] = "stale"]
      BY <1>8 DEF Expire
  <2>2. Extra(c)' = Extra(c) /\ token'[c] = "stale"
      BY <1>0, <2>1 DEF Extra
  <2>3. ClientInv(c)'
      BY <1>0, <1>a, <2>1, <2>2 DEF ClientInv
  <2> QED BY <1>0, <2>1, <2>3, HttpOthers
<1>9. CASE Rejected(c)
  <2>1. /\ phase[c] = "sent" /\ phase' = [phase EXCEPT ![c] = "raised"]
        /\ cause' = [cause EXCEPT ![c] = "status"]
        /\ UNCHANGED <<flow, token, attempt, refreshed, hiccups>>
      BY <1>9 DEF Rejected, Raise
  <2>2. ClientInv(c)'
      BY <1>0, <1>a, <2>1 DEF ClientInv
  <2> QED BY <1>0, <2>1, <2>2, HttpOthers
<1> QED BY <1>1, <1>2, <1>3, <1>4, <1>5, <1>6, <1>7, <1>8, <1>9 DEF HttpStep, Request

\* A step leaves the request loop alone or is a step of one client.
LEMMA NextHttp ==
  ASSUME [Next]_vars PROVE UNCHANGED http \/ \E s \in Syncs : HttpStep(s)
<1>1. CASE Arrive \/ UNCHANGED vars
    BY <1>1 DEF Arrive, vars
<1>2. ASSUME NEW k \in DOMAIN source, Revise(k) \/ Leave(k) PROVE UNCHANGED http
    BY <1>2 DEF Revise, Leave
<1>3. ASSUME NEW s \in Syncs, StartStep(s) \/ RunStep(s) \/ ExpireStep(s)
      PROVE  UNCHANGED http \/ HttpStep(s)
    BY <1>3 DEF StartStep, Begin, NothingToAsk, RefusedByClient, RunStep, Serve, Receive, ReceiveRaises,
                Fail, End, GiveUp, RequestStep, ExpireStep, HttpStep
<1> QED BY <1>1, <1>2, <1>3 DEF Next

LEMMA HttpNext == ASSUME HttpInv, [Next]_vars PROVE HttpInv'
<1>1. CASE UNCHANGED http
    BY <1>1 DEF http, HttpInv, HttpTypeOK, Extra, ClientInv
<1>2. CASE \E s \in Syncs : HttpStep(s)
    BY <1>2, HttpKeeps, EachRunHasAClient
<1> QED BY <1>1, <1>2, NextHttp

-----------------------------------------------------------------------------
(* The provider.                                                           *)

\* SetToSeq lists a finite set, each element once.
LEMMA Listing ==
  ASSUME NEW S, IsFiniteSet(S)
  PROVE  /\ Cardinality(S) \in Nat
         /\ SetToSeq(S) \in [1 .. Cardinality(S) -> S]
         /\ SetToSeq(S) \in Seq(S) /\ Len(SetToSeq(S)) = Cardinality(S)
         /\ \A j, k \in 1 .. Cardinality(S) : SetToSeq(S)[j] = SetToSeq(S)[k] => j = k
         /\ \A x \in S : \E k \in 1 .. Cardinality(S) : SetToSeq(S)[k] = x
<1> DEFINE n == Cardinality(S)
           f == SetToSeq(S)
<1>1. n \in Nat /\ Bijection(1 .. n, S) # {}
    BY FS_CardinalityType DEF ExistsBijection
<1>2. \E g \in [1 .. n -> S] : IsInjective(g)
    BY <1>1 DEF Bijection, Injection
<1>3. f \in [1 .. n -> S] /\ IsInjective(f)
    BY <1>2 DEF SetToSeq
<1> HIDE DEF f
<1>4. f \in Injection(1 .. n, S) /\ IsFiniteSet(1 .. n) /\ Cardinality(1 .. n) = n
    BY <1>1, <1>3, FS_Interval DEF Injection
<1>5. f \in Surjection(1 .. n, S)
    BY <1>4, FS_Injection
<1>6. f \in Seq(S) /\ Len(f) = n
    BY <1>1, <1>3
<1> QED BY <1>1, <1>3, <1>5, <1>6 DEF f, IsInjective, Surjection

LEMMA ItemsCounted == Cardinality(Items) \in Nat /\ Cardinality(Items) >= 1
<1>1. Cardinality(Items) \in Nat /\ Cardinality(Items) # 0
    BY ItemsAreFinite, FS_CardinalityType, FS_EmptySet
<1> QED BY <1>1

LEMMA ItemTypes == ASSUME NEW i \in Item PROVE i.id \in Items /\ i.rev \in Nat /\ i.date \in Nat
<1> USE ChangesAreBounded
<1> QED BY DEF Item

LEMMA FreshIsItem ==
  ASSUME kind \in [Items -> Kinds], NEW i \in Items, NEW n \in 1 .. MaxChanges + 1
  PROVE  /\ Fresh(i, n) \in Item /\ Fresh(i, n).id = i /\ Fresh(i, n).rev = n
         /\ Fresh(i, n).date # 0 <=> kind[i] = "dated"
<1> USE ChangesAreBounded
<1> QED BY DEF Fresh, Item

\* Of each id there is one item at most.
LEMMA SourceLength == ASSUME SourceInv PROVE Len(source) \in Nat /\ Len(source) <= Cardinality(Items)
<1> DEFINE D == 1 .. Len(source)
           f == [k \in D |-> source[k].id]
<1>1. source \in Seq(Item) /\ Len(source) \in Nat /\ D = DOMAIN source
    BY DEF SourceInv
<1>2. \A j, k \in D : source[j].id = source[k].id => j = k
    BY <1>1 DEF SourceInv
<1>3. \A k \in D : source[k].id \in Items
    BY <1>1, ItemTypes
<1>4. f \in Injection(D, Items)
    BY <1>2, <1>3 DEF Injection, IsInjective
<1>5. Cardinality(D) = Len(source)
    BY <1>1, FS_Interval
<1> HIDE DEF D, f
<1> QED BY <1>1, <1>4, <1>5, ItemsAreFinite, FS_Injection

LEMMA SourceStart == ASSUME Init PROVE SourceInv
<1> USE ChangesAreBounded
<1>1. PICK setup \in Setups :
        /\ feed = setup.feed /\ kind = setup.kind
        /\ source = SetToSeq({Fresh(i, 1) : i \in setup.listed})
    BY DEF Init
<1> DEFINE L == setup.listed
           F == {Fresh(i, 1) : i \in L}
           f == [i \in L |-> Fresh(i, 1)]
<1>2. L \subseteq Items /\ feed \in Feeds /\ kind \in [Items -> Kinds] /\ changes = 0
    BY <1>1, SetupsAreKnown DEF Init
<1>3. IsFiniteSet(L)
    BY <1>2, ItemsAreFinite, FS_Subset
<1>4. f \in Surjection(L, F)
    BY DEF Surjection
<1>5. IsFiniteSet(F)
  <2> HIDE DEF F, f, L
  <2> QED BY <1>3, <1>4, FS_Surjection
<1>6. 1 \in 1 .. MaxChanges + 1
    OBVIOUS
<1>7. \A x \in F : x \in Item /\ x.rev = 1 /\ (x.date # 0 <=> kind[x.id] = "dated")
    BY <1>2, <1>6, FreshIsItem
<1>8. \A x, y \in F : x.id = y.id => x = y
    BY <1>2, <1>6, FreshIsItem
<1> HIDE DEF F
<1>9. /\ source \in Seq(F)
      /\ \A j, k \in DOMAIN source : source[j] = source[k] => j = k
      /\ \A k \in DOMAIN source : source[k] \in F
  <2>1. /\ source \in Seq(F) /\ Len(source) = Cardinality(F) /\ Cardinality(F) \in Nat
        /\ \A j, k \in 1 .. Cardinality(F) : source[j] = source[k] => j = k
      BY <1>1, <1>5, Listing DEF F
  <2> QED BY <2>1
<1>10. source \in Seq(Item)
    BY <1>7, <1>9
<1>11. \A j, k \in DOMAIN source : source[j].id = source[k].id => j = k
    BY <1>8, <1>9
<1>12. \A k \in DOMAIN source : /\ source[k].rev <= changes + 1
                                /\ source[k].date # 0 <=> kind[source[k].id] = "dated"
    BY <1>2, <1>7, <1>9
<1> QED BY <1>2, <1>10, <1>11, <1>12 DEF SourceInv

\* A change makes the next revision; what was there is no newer than it.
LEMMA ChangeCounted ==
  ASSUME SourceInv, Changed
  PROVE  /\ changes \in Nat /\ changes' = changes + 1 /\ changes' \in 0 .. MaxChanges
         /\ changes + 2 \in 1 .. MaxChanges + 1
         /\ \A k \in DOMAIN source : source[k] \in Item /\ source[k].rev \in Nat /\ source[k].rev < changes + 2
<1> USE ChangesAreBounded
<1>1. changes \in 0 .. MaxChanges /\ changes' = changes + 1 /\ changes < MaxChanges
    BY DEF SourceInv, Changed
<1>2. ASSUME NEW k \in DOMAIN source PROVE source[k] \in Item /\ source[k].rev \in Nat /\ source[k].rev < changes + 2
  <2>1. source[k] \in Item /\ source[k].rev <= changes + 1
      BY DEF SourceInv
  <2>2. source[k].rev \in Nat
      BY <2>1, ItemTypes
  <2> QED BY <1>1, <2>1, <2>2
<1> QED BY <1>1, <1>2

\* The k-th item after its revision; the others are what they were.
LEMMA Revised ==
  ASSUME SourceInv, NEW k \in DOMAIN source, Revise(k)
  PROVE  /\ source' \in Seq(Item) /\ DOMAIN source' = DOMAIN source
         /\ \A j \in DOMAIN source \ {k} : source'[j] = source[j]
         /\ source'[k].id = source[k].id /\ source'[k].rev = changes + 2
         /\ source'[k].date = 0 <=> source[k].date = 0
<1> USE ChangesAreBounded
<1>1. /\ changes \in Nat /\ changes + 2 \in 1 .. MaxChanges + 1
      /\ source \in Seq(Item) /\ source[k] \in Item /\ kind \in [Items -> Kinds]
    BY ChangeCounted DEF Revise, SourceInv
<1>2. PICK d \in {source[k].date, Fresh(source[k].id, changes + 2).date} :
        source' = [source EXCEPT ![k] = [id |-> @.id, rev |-> changes + 2, date |-> d]]
    BY DEF Revise
<1>3. /\ d \in 0 .. MaxChanges + 1 /\ (d = 0 <=> source[k].date = 0)
  <2>1. source[k].date \in 0 .. MaxChanges + 1 /\ source[k].id \in Items
      BY <1>1 DEF Item
  <2>2. source[k].date # 0 <=> kind[source[k].id] = "dated"
      BY DEF SourceInv
  <2>3. /\ Fresh(source[k].id, changes + 2).date \in 0 .. MaxChanges + 1
        /\ Fresh(source[k].id, changes + 2).date # 0 <=> kind[source[k].id] = "dated"
      BY <1>1 DEF Fresh
  <2> QED BY <1>2, <2>1, <2>2, <2>3
<1> DEFINE new == [id |-> source[k].id, rev |-> changes + 2, date |-> d]
<1>4. source' = [source EXCEPT ![k] = new]
    BY <1>1, <1>2
<1>5. new \in Item /\ new.id = source[k].id /\ new.rev = changes + 2 /\ new.date = d
    BY <1>1, <1>3 DEF Item
<1> HIDE DEF new
<1>6. /\ source' \in Seq(Item) /\ DOMAIN source' = DOMAIN source
      /\ source'[k] = new /\ \A j \in DOMAIN source \ {k} : source'[j] = source[j]
    BY <1>1, <1>4, <1>5
<1> QED BY <1>3, <1>5, <1>6

\* The list after an arrival: the new item, and the others, none of them on an
\* earlier page than before.
LEMMA Arrived ==
  ASSUME SourceInv, Arrive
  PROVE  /\ source' \in Seq(Item)
         /\ \A j, k \in DOMAIN source' : source'[j].id = source'[k].id => j = k
         /\ \A j \in DOMAIN source' :
              \/ \E k \in DOMAIN source : source'[j] = source[k]
              \/ /\ source'[j].id \notin {source[k].id : k \in DOMAIN source}
                 /\ source'[j].rev = changes + 2
                 /\ source'[j].date # 0 <=> kind[source'[j].id] = "dated"
         /\ \A k \in DOMAIN source : \E j \in DOMAIN source' : k <= j /\ source'[j] = source[k]
<1>1. /\ source \in Seq(Item) /\ kind \in [Items -> Kinds] /\ changes + 2 \in 1 .. MaxChanges + 1
      /\ Len(source) \in Nat /\ DOMAIN source = 1 .. Len(source)
      /\ \A j, k \in DOMAIN source : source[j].id = source[k].id => j = k
    BY ChangeCounted DEF Arrive, SourceInv
<1>2. PICK i \in Items \ {source[k].id : k \in DOMAIN source} :
        source' \in {<<Fresh(i, changes + 2)>> \o source, Append(source, Fresh(i, changes + 2))}
    BY DEF Arrive
<1> DEFINE new == Fresh(i, changes + 2)
<1>3. new \in Item /\ new.id = i /\ new.rev = changes + 2 /\ (new.date # 0 <=> kind[new.id] = "dated")
    BY <1>1, FreshIsItem
<1>4. source' = <<new>> \o source \/ source' = Append(source, new)
    BY <1>2
<1> HIDE DEF new
<1>5. CASE source' = <<new>> \o source
  <2>1. /\ source' \in Seq(Item) /\ DOMAIN source' = 1 .. Len(source) + 1 /\ source'[1] = new
        /\ \A j \in 2 .. Len(source) + 1 : source'[j] = source[j - 1] /\ j - 1 \in DOMAIN source
      BY <1>1, <1>3, <1>5
  <2>2. \A j \in 2 .. Len(source) + 1 : source'[j].id # i
      BY <1>2, <2>1
  <2>3. \A j \in DOMAIN source' : j = 1 \/ j \in 2 .. Len(source) + 1
      BY <1>1, <2>1
  <2>4. ASSUME NEW j \in DOMAIN source', NEW k \in DOMAIN source', source'[j].id = source'[k].id
        PROVE  j = k
    <3>1. CASE j \in 2 .. Len(source) + 1 /\ k \in 2 .. Len(source) + 1
      <4>1. j - 1 = k - 1
          BY <1>1, <2>1, <2>4, <3>1
      <4> QED BY <3>1, <4>1
    <3>2. CASE j = 1 \/ k = 1
        BY <1>3, <2>1, <2>2, <2>3, <2>4, <3>2
    <3> QED BY <2>3, <3>1, <3>2
  <2>5. ASSUME NEW k \in DOMAIN source PROVE \E j \in DOMAIN source' : k <= j /\ source'[j] = source[k]
    <3>1. k \in Nat /\ k + 1 \in 2 .. Len(source) + 1 /\ k + 1 \in DOMAIN source' /\ (k + 1) - 1 = k
        BY <1>1, <2>1
    <3>2. source'[k + 1] = source[k] /\ k <= k + 1
        BY <2>1, <3>1
    <3> QED BY <3>1, <3>2
  <2>6. \A j \in DOMAIN source' : source'[j] = new \/ \E k \in DOMAIN source : source'[j] = source[k]
      BY <2>1, <2>3
  <2> QED BY <1>2, <1>3, <2>1, <2>4, <2>5, <2>6
<1>6. CASE source' = Append(source, new)
  <2>1. /\ source' \in Seq(Item) /\ DOMAIN source' = 1 .. Len(source) + 1 /\ source'[Len(source) + 1] = new
        /\ \A j \in 1 .. Len(source) : source'[j] = source[j] /\ j \in DOMAIN source
      BY <1>1, <1>3, <1>6
  <2>2. \A j \in 1 .. Len(source) : source'[j].id # i
      BY <1>2, <2>1
  <2>3. \A j \in DOMAIN source' : j = Len(source) + 1 \/ j \in 1 .. Len(source)
      BY <1>1, <2>1
  <2>4. \A j, k \in DOMAIN source' : source'[j].id = source'[k].id => j = k
      BY <1>1, <1>3, <2>1, <2>2, <2>3
  <2>5. \A k \in DOMAIN source : \E j \in DOMAIN source' : k <= j /\ source'[j] = source[k]
    <3> SUFFICES ASSUME NEW k \in DOMAIN source
                 PROVE  k \in DOMAIN source' /\ k <= k /\ source'[k] = source[k]
        OBVIOUS
    <3> QED BY <1>1, <2>1
  <2>6. \A j \in DOMAIN source' : source'[j] = new \/ \E k \in DOMAIN source : source'[j] = source[k]
      BY <2>1, <2>3
  <2> QED BY <1>2, <1>3, <2>1, <2>4, <2>5, <2>6
<1> QED BY <1>4, <1>5, <1>6

\* The list after an item has gone: the others, in their order.
LEMMA Left ==
  ASSUME SourceInv, NEW n \in DOMAIN source, Leave(n)
  PROVE  /\ source' \in Seq(Item)
         /\ \A j, k \in DOMAIN source' : source'[j].id = source'[k].id => j = k
         /\ \A j \in DOMAIN source' : \E k \in DOMAIN source : source'[j] = source[k]
<1> DEFINE old(j) == IF j < n THEN j ELSE j + 1
           a == SubSeq(source, 1, n - 1)
           b == SubSeq(source, n + 1, Len(source))
<1>1. /\ source \in Seq(Item) /\ n \in 1 .. Len(source) /\ Len(source) \in Nat
      /\ \A j, k \in DOMAIN source : source[j].id = source[k].id => j = k
    BY DEF SourceInv
<1>2. a \in Seq(Item) /\ Len(a) = n - 1 /\ \A j \in 1 .. n - 1 : a[j] = source[j]
    BY <1>1
<1>3. /\ b \in Seq(Item) /\ Len(b) = Len(source) - n
      /\ \A j \in 1 .. Len(source) - n : b[j] = source[j + n]
    BY <1>1
<1>4. source' = a \o b
    BY DEF Leave, RemoveAt
<1> HIDE DEF a, b
<1>5. /\ source' \in Seq(Item) /\ Len(source') = Len(a) + Len(b)
      /\ \A j \in 1 .. Len(a) + Len(b) : source'[j] = IF j <= Len(a) THEN a[j] ELSE b[j - Len(a)]
    BY <1>2, <1>3, <1>4, ConcatProperties
<1>6. DOMAIN source' = 1 .. Len(source) - 1 /\ Len(a) + Len(b) = Len(source) - 1
    BY <1>1, <1>2, <1>3, <1>5
<1>7. ASSUME NEW j \in DOMAIN source' PROVE j \in Nat /\ old(j) \in DOMAIN source /\ source'[j] = source[old(j)]
  <2>1. j \in 1 .. Len(source) - 1 /\ source'[j] = IF j <= Len(a) THEN a[j] ELSE b[j - Len(a)]
      BY <1>5, <1>6
  <2>2. CASE j < n
    <3>1. j \in 1 .. n - 1 /\ j <= Len(a) /\ old(j) = j
        BY <1>1, <1>2, <2>1, <2>2
    <3> QED BY <1>1, <1>2, <2>1, <3>1
  <2>3. CASE ~(j < n)
    <3>1. j - (n - 1) \in 1 .. Len(source) - n /\ (j - (n - 1)) + n = j + 1 /\ ~(j <= Len(a)) /\ old(j) = j + 1
        BY <1>1, <1>2, <2>1, <2>3
    <3>2. old(j) \in DOMAIN source /\ j \in Nat
        BY <1>1, <2>1, <2>3, <3>1
    <3>3. j - Len(a) = j - (n - 1) /\ b[j - (n - 1)] = source[j + 1]
        BY <1>2, <1>3, <3>1
    <3> QED BY <2>1, <3>1, <3>2, <3>3
  <2> QED BY <2>2, <2>3
<1>8. ASSUME NEW j \in DOMAIN source', NEW k \in DOMAIN source', source'[j].id = source'[k].id
      PROVE  j = k
  <2>1. old(j) = old(k)
    <3> HIDE DEF old
    <3> QED BY <1>1, <1>7, <1>8
  <2> QED BY <1>1, <1>7, <2>1
<1> QED BY <1>5, <1>7, <1>8

LEMMA SourceNext == ASSUME SourceInv, [Next]_vars PROVE SourceInv'
<1>1. CASE UNCHANGED <<feed, kind, source, changes>>
    BY <1>1 DEF SourceInv
<1>2. ASSUME Changed, UNCHANGED <<feed, kind>>, source' \in Seq(Item),
             \A j, k \in DOMAIN source' : source'[j].id = source'[k].id => j = k,
             \A j \in DOMAIN source' :
               \/ \E k \in DOMAIN source : source'[j] = source[k]
               \/ source'[j].rev = changes + 2 /\ (source'[j].date # 0 <=> kind[source'[j].id] = "dated")
      PROVE  SourceInv'
  <2>1. changes' = changes + 1 /\ changes' \in 0 .. MaxChanges /\ changes \in Nat
      BY <1>2, ChangeCounted
  <2>2. ASSUME NEW j \in DOMAIN source'
        PROVE  source'[j].rev <= changes' + 1 /\ (source'[j].date # 0 <=> kind'[source'[j].id] = "dated")
    <3>1. CASE \E k \in DOMAIN source : source'[j] = source[k]
      <4>1. PICK k \in DOMAIN source : source'[j] = source[k]
          BY <3>1
      <4>2. source[k].rev < changes + 2 /\ source[k].rev \in Nat
          BY <1>2, ChangeCounted
      <4>3. source[k].date # 0 <=> kind[source[k].id] = "dated"
          BY DEF SourceInv
      <4> QED BY <1>2, <2>1, <4>1, <4>2, <4>3
    <3>2. CASE source'[j].rev = changes + 2 /\ (source'[j].date # 0 <=> kind[source'[j].id] = "dated")
        BY <1>2, <2>1, <3>2
    <3> QED BY <1>2, <3>1, <3>2
  <2> QED BY <1>2, <2>1, <2>2 DEF SourceInv
<1>3. CASE Arrive
    BY <1>2, <1>3, Arrived DEF Arrive
<1>4. ASSUME NEW k \in DOMAIN source, Revise(k) PROVE SourceInv'
  <2>1. /\ source' \in Seq(Item) /\ DOMAIN source' = DOMAIN source
        /\ \A j \in DOMAIN source \ {k} : source'[j] = source[j]
        /\ source'[k].id = source[k].id /\ source'[k].rev = changes + 2
        /\ source'[k].date = 0 <=> source[k].date = 0
      BY <1>4, Revised
  <2>2. \A j \in DOMAIN source : source'[j].id = source[j].id
      BY <2>1
  <2>3. \A j, m \in DOMAIN source' : source'[j].id = source'[m].id => j = m
      BY <2>1, <2>2 DEF SourceInv
  <2>4. source'[k].date # 0 <=> kind[source'[k].id] = "dated"
      BY <2>1 DEF SourceInv
  <2> QED BY <1>2, <1>4, <2>1, <2>3, <2>4 DEF Revise
<1>5. ASSUME NEW k \in DOMAIN source, Leave(k) PROVE SourceInv'
    BY <1>2, <1>5, Left DEF Leave
<1>6. ASSUME NEW s \in Syncs, StartStep(s) \/ RunStep(s) \/ ExpireStep(s)
      PROVE  UNCHANGED <<feed, kind, source, changes>>
    BY <1>6 DEF StartStep, Begin, NothingToAsk, RefusedByClient, RunStep, Serve, Receive, ReceiveRaises,
                GiveUp, RequestStep, ExpireStep, sync
<1> QED BY <1>1, <1>3, <1>4, <1>5, <1>6 DEF Next, vars, sync

-----------------------------------------------------------------------------
(* The pages.                                                              *)

\* The accounts a run asks for, and what the provider has of them.
LEMMA Asked ==
  ASSUME SourceInv, NEW ids \in AccountIds
  PROVE  /\ ids \in Seq(Items) /\ Len(ids) <= Cardinality(Items)
         /\ InScope(ids) \subseteq Item
         /\ \A i \in InScope(ids) : /\ \E k \in DOMAIN source : source[k] = i
                                    /\ feed = "balances" => \E k \in DOMAIN ids : ids[k] = i.id
<1>1. ids \in Seq(Items) /\ Len(ids) <= Cardinality(Items)
  <2>1. CASE feed = "balances"
    <3>1. PICK S \in SUBSET Items : ids = SetToSeq(S)
        BY <2>1 DEF AccountIds
    <3>2. IsFiniteSet(S) /\ Cardinality(S) <= Cardinality(Items)
        BY <3>1, ItemsAreFinite, FS_Subset
    <3>3. ids \in Seq(S) /\ Len(ids) = Cardinality(S)
        BY <3>1, <3>2, Listing
    <3> QED BY <3>2, <3>3
  <2>2. CASE feed # "balances"
    <3>1. ids = <<>>
        BY <2>2 DEF AccountIds
    <3> QED BY <3>1, ItemsCounted
  <2> QED BY <2>1, <2>2
<1>2. \A i \in InScope(ids) : i \in ToSet(source) /\ (feed = "balances" => i.id \in ToSet(ids))
    BY DEF InScope
<1>3. ToSet(source) \subseteq Item /\ \A i \in ToSet(source) : \E k \in DOMAIN source : source[k] = i
    BY DEF ToSet, SourceInv
<1>4. \A id \in ToSet(ids) : \E k \in DOMAIN ids : ids[k] = id
    BY DEF ToSet
<1> QED BY <1>1, <1>2, <1>3, <1>4

\* What a page has, and what it says of the pages after it.
LEMMA PageServed ==
  ASSUME SourceInv, RunInv, NEW s \in Syncs, NEW p, p = PageOf(s, page[s])
  PROVE  /\ p \in [items : SUBSET Item, more : BOOLEAN]
         /\ p.more => page[s] < Cardinality(Items)
         /\ \A i, j \in p.items : i = j
         /\ \A i \in p.items : \E k \in DOMAIN source : source[k] = i
         /\ \A k \in DOMAIN source : At(s, page[s], source[k].id) => source[k] \in p.items
         /\ \A m \in Nat : \A id : At(s, m, id) /\ page[s] < m => p.more /\ (feed = "collateral" => p.items # {})
<1> DEFINE k == page[s]
<1>1. /\ k \in Nat /\ k >= 1 /\ Len(source) \in Nat /\ Len(source) <= Cardinality(Items)
      /\ Cardinality(Items) \in Nat /\ source \in Seq(Item) /\ DOMAIN source = 1 .. Len(source)
      /\ asked[s] \in Seq(Items) /\ Len(asked[s]) \in Nat /\ DOMAIN asked[s] = 1 .. Len(asked[s])
      /\ Len(asked[s]) <= Cardinality(Items)
      /\ \A j, m \in DOMAIN source : source[j].id = source[m].id => j = m
    BY ItemsCounted, SourceLength DEF SourceInv, RunInv
<1>2. CASE feed = "balances"
  <2> DEFINE S == {i \in ToSet(source) : i.id = asked[s][k]}
             more == k < Len(asked[s])
  <2>1. \A i \in S : i \in Item /\ i.id = asked[s][k] /\ \E j \in DOMAIN source : source[j] = i
      BY <1>1 DEF ToSet
  <2>2. \A j \in DOMAIN source : source[j].id = asked[s][k] => source[j] \in S
      BY DEF ToSet
  <2>3. p = [items |-> S, more |-> more]
      BY <1>2 DEF PageOf, AccountPage
  <2>4. more \in BOOLEAN
      OBVIOUS
  <2> HIDE DEF S, more
  <2>5. p.items = S /\ p.more = more /\ p \in [items : SUBSET Item, more : BOOLEAN]
      BY <2>1, <2>3, <2>4
  <2>6. \A m, id : At(s, m, id) <=> m \in DOMAIN asked[s] /\ asked[s][m] = id
      BY <1>2 DEF At
  <2>7. \A i, j \in S : i = j
      BY <1>1, <2>1
  <2>8. more => k < Cardinality(Items)
      BY <1>1 DEF more
  <2>9. \A m \in Nat : \A id : At(s, m, id) /\ k < m => more
      BY <1>1, <2>6 DEF more
  <2> QED BY <1>2, <2>1, <2>2, <2>5, <2>6, <2>7, <2>8, <2>9
<1>3. CASE feed # "balances"
  <2> DEFINE more == k < Len(source)
  <2>1. p = [items |-> Listed(k), more |-> more]
      BY <1>3 DEF PageOf, NumberedPage, TokenPage
  <2>2. more \in BOOLEAN
      OBVIOUS
  <2>3. Listed(k) \subseteq Item /\ \A i \in Listed(k) : k \in DOMAIN source /\ source[k] = i
      BY <1>1 DEF Listed
  <2>4. k \in DOMAIN source => source[k] \in Listed(k)
      BY DEF Listed
  <2> HIDE DEF more
  <2>5. p.items = Listed(k) /\ p.more = more /\ p \in [items : SUBSET Item, more : BOOLEAN]
      BY <2>1, <2>2, <2>3
  <2>6. \A m, id : At(s, m, id) <=> m \in DOMAIN source /\ source[m].id = id
      BY <1>3 DEF At
  <2>7. more => k < Cardinality(Items)
      BY <1>1 DEF more
  <2>8. \A m \in Nat : \A id : At(s, m, id) /\ k < m => more /\ k \in DOMAIN source
      BY <1>1, <2>6 DEF more
  <2>9. \A j \in DOMAIN source : At(s, k, source[j].id) => j = k
      BY <1>1, <2>6
  <2> QED BY <2>3, <2>4, <2>5, <2>7, <2>8, <2>9
<1> QED BY <1>2, <1>3

-----------------------------------------------------------------------------
(* The runs.                                                               *)

\* A request moves on, to be sent or to be raised.
LEMMA RequestMoves ==
  ASSUME HttpTypeOK, NEW c \in Clients, Request(c)
  PROVE  /\ phase[c] \in {"token", "sent"}
         /\ \E p \in {"token", "sent", "raised"} : phase' = [phase EXCEPT ![c] = p]
<1>1. CASE UseCached(c) \/ GrantClientCredentials(c) \/ GrantAuthCode(c)
    BY <1>1 DEF UseCached, GrantClientCredentials, GrantAuthCode, Obtain, Send
<1>2. CASE GrantRefused(c) \/ Hiccup(c) \/ Rejected(c) \/ Unauthorized(c)
    BY <1>2 DEF GrantRefused, Hiccup, Rejected, Unauthorized, Raise
<1> QED BY <1>1, <1>2 DEF Request

\* What is to show of the run that moved.
LEMMA RunOthers ==
  ASSUME RunInv, NEW s \in Syncs,
         pc' \in [Syncs -> {"idle", "running", "done", "failed"}],
         asked' \in [Syncs -> Seq(Items)], page' \in [Syncs -> 1 .. Cardinality(Items)],
         reply' \in [Syncs -> [items : SUBSET Item, more : BOOLEAN]],
         first' \in [Syncs -> SUBSET Item],
         overtaken' \in [Syncs -> BOOLEAN], steady' \in [Syncs -> BOOLEAN],
         \A q \in Syncs \ {s} : /\ pc'[q] = pc[q] /\ asked'[q] = asked[q] /\ page'[q] = page[q]
                                /\ reply'[q] = reply[q] /\ phase'[q] = phase[q],
         phase'[s] # "idle" => pc'[s] = "running", pc'[s] # "running" => page'[s] = 1,
         phase'[s] # "answered" => reply'[s] = NoReply,
         Len(asked'[s]) <= Cardinality(Items),
         reply'[s].more => page'[s] < Cardinality(Items)
  PROVE  RunInv'
<1>1. ASSUME NEW q \in Syncs
      PROVE  /\ phase'[q] # "idle" => pc'[q] = "running"
             /\ pc'[q] # "running" => page'[q] = 1
             /\ phase'[q] # "answered" => reply'[q] = NoReply
             /\ Len(asked'[q]) <= Cardinality(Items)
             /\ reply'[q].more => page'[q] < Cardinality(Items)
  <2>1. /\ phase[q] # "idle" => pc[q] = "running"
        /\ pc[q] # "running" => page[q] = 1
        /\ phase[q] # "answered" => reply[q] = NoReply
        /\ Len(asked[q]) <= Cardinality(Items)
        /\ reply[q].more => page[q] < Cardinality(Items)
      BY DEF RunInv
  <2> QED BY <2>1
<1> QED BY <1>1 DEF RunInv, NoReply

LEMMA RunStart == ASSUME Init PROVE RunInv
<1>1. /\ pc = [s \in Syncs |-> "idle"] /\ asked = [s \in Syncs |-> <<>>] /\ page = [s \in Syncs |-> 1]
      /\ reply = [s \in Syncs |-> NoReply] /\ first = [s \in Syncs |-> {}]
      /\ overtaken = [s \in Syncs |-> FALSE] /\ steady = [s \in Syncs |-> FALSE]
      /\ phase = [c \in Syncs |-> "idle"]
    BY EachRunHasAClient DEF Init, HttpInit
<1>2. NoReply \in [items : SUBSET Item, more : BOOLEAN] /\ ~NoReply.more
    BY DEF NoReply
<1>3. 1 \in 1 .. Cardinality(Items) /\ <<>> \in Seq(Items) /\ Len(<<>>) <= Cardinality(Items)
    BY ItemsCounted
<1> QED BY <1>1, <1>2, <1>3 DEF RunInv

\* A run that ends.
LEMMA RunEnds ==
  ASSUME HttpTypeOK, RunInv, NEW s \in Syncs, NEW how \in {"done", "failed"}, End(s, how),
         overtaken' \in [Syncs -> BOOLEAN], steady' \in [Syncs -> BOOLEAN]
  PROVE  RunInv'
<1>0. /\ pc \in [Syncs -> {"idle", "running", "done", "failed"}]
      /\ asked \in [Syncs -> Seq(Items)] /\ page \in [Syncs -> 1 .. Cardinality(Items)]
      /\ reply \in [Syncs -> [items : SUBSET Item, more : BOOLEAN]]
      /\ first \in [Syncs -> SUBSET Item]
      /\ phase \in [Syncs -> {"idle", "token", "sent", "answered", "raised"}]
    BY EachRunHasAClient DEF RunInv, HttpTypeOK
<1>1. /\ pc' = [pc EXCEPT ![s] = how] /\ asked' = [asked EXCEPT ![s] = <<>>]
      /\ page' = [page EXCEPT ![s] = 1] /\ reply' = [reply EXCEPT ![s] = NoReply]
      /\ first' = [first EXCEPT ![s] = {}] /\ phase' = [phase EXCEPT ![s] = "idle"]
    BY DEF End, Drop
<1>2. NoReply \in [items : SUBSET Item, more : BOOLEAN] /\ ~NoReply.more
    BY DEF NoReply
<1>3. 1 \in 1 .. Cardinality(Items) /\ <<>> \in Seq(Items) /\ Len(<<>>) <= Cardinality(Items)
    BY ItemsCounted
<1>4. /\ pc' \in [Syncs -> {"idle", "running", "done", "failed"}]
      /\ page' \in [Syncs -> 1 .. Cardinality(Items)] /\ page'[s] = 1 /\ phase'[s] = "idle"
      /\ \A q \in Syncs \ {s} : pc'[q] = pc[q] /\ page'[q] = page[q] /\ phase'[q] = phase[q]
    BY <1>0, <1>1, <1>3
<1>5. /\ asked' \in [Syncs -> Seq(Items)] /\ asked'[s] = <<>>
      /\ \A q \in Syncs \ {s} : asked'[q] = asked[q]
    BY <1>0, <1>1, <1>3
<1>6. /\ reply' \in [Syncs -> [items : SUBSET Item, more : BOOLEAN]] /\ reply'[s] = NoReply
      /\ first' \in [Syncs -> SUBSET Item]
      /\ \A q \in Syncs \ {s} : reply'[q] = reply[q]
    BY <1>0, <1>1, <1>2
<1> QED BY <1>2, <1>3, <1>4, <1>5, <1>6, RunOthers

LEMMA RunNext ==
  ASSUME HttpTypeOK, SourceInv, RunInv, [Next]_vars
  PROVE  RunInv'
<1>0. /\ pc \in [Syncs -> {"idle", "running", "done", "failed"}]
      /\ asked \in [Syncs -> Seq(Items)] /\ page \in [Syncs -> 1 .. Cardinality(Items)]
      /\ reply \in [Syncs -> [items : SUBSET Item, more : BOOLEAN]]
      /\ first \in [Syncs -> SUBSET Item]
      /\ overtaken \in [Syncs -> BOOLEAN] /\ steady \in [Syncs -> BOOLEAN]
      /\ phase \in [Syncs -> {"idle", "token", "sent", "answered", "raised"}]
    BY EachRunHasAClient DEF RunInv, HttpTypeOK
<1>a. NoReply \in [items : SUBSET Item, more : BOOLEAN] /\ ~NoReply.more
    BY DEF NoReply
<1>1. CASE UNCHANGED vars
    BY <1>1 DEF vars, sync, http, RunInv
<1>2. CASE Arrive \/ \E k \in DOMAIN source : Revise(k) \/ Leave(k)
  <2>1. /\ UNCHANGED <<phase, pc, asked, page, reply, overtaken, steady>>
        /\ first' = first \/ first' = [s \in Syncs |-> {}]
      BY <1>2 DEF Arrive, Revise, Leave, http
  <2>2. first' \in [Syncs -> SUBSET Item]
      BY <1>0, <2>1
  <2> QED BY <2>1, <2>2 DEF RunInv
<1>3. ASSUME NEW s \in Syncs, Begin(s) PROVE RunInv'
  <2>1. PICK ids \in AccountIds : /\ asked' = [asked EXCEPT ![s] = ids]
                                  /\ first' = [first EXCEPT ![s] = InScope(ids)]
      BY <1>3 DEF Begin
  <2>2. ids \in Seq(Items) /\ Len(ids) <= Cardinality(Items) /\ InScope(ids) \in SUBSET Item
      BY Asked
  <2>3. /\ pc' = [pc EXCEPT ![s] = "running"] /\ phase' = [phase EXCEPT ![s] = "token"]
        /\ steady' = [steady EXCEPT ![s] = TRUE] /\ pc[s] = "idle"
        /\ UNCHANGED <<page, reply, overtaken>>
      BY <1>3 DEF Begin, Call
  <2>4. /\ first' \in [Syncs -> SUBSET Item] /\ asked' \in [Syncs -> Seq(Items)] /\ asked'[s] = ids
        /\ steady' \in [Syncs -> BOOLEAN]
        /\ \A q \in Syncs \ {s} : asked'[q] = asked[q]
      BY <1>0, <2>1, <2>2, <2>3
  <2>5. phase[s] = "idle" /\ reply[s] = NoReply /\ page[s] = 1
      BY <1>0, <2>3 DEF RunInv
  <2>6. /\ pc' \in [Syncs -> {"idle", "running", "done", "failed"}] /\ pc'[s] = "running"
        /\ phase'[s] = "token"
        /\ \A q \in Syncs \ {s} : pc'[q] = pc[q] /\ phase'[q] = phase[q]
      BY <1>0, <2>3
  <2>7. UNCHANGED <<page, reply, overtaken>> /\ reply'[s] = NoReply
      BY <2>3, <2>5
  <2> HIDE <2>3
  <2> QED BY <1>0, <1>a, <2>2, <2>4, <2>6, <2>7, RunOthers
<1>4. ASSUME NEW s \in Syncs, NothingToAsk(s) \/ RefusedByClient(s) PROVE RunInv'
  <2>1. /\ pc[s] = "idle"
        /\ pc' = [pc EXCEPT ![s] = "done"] \/ pc' = [pc EXCEPT ![s] = "failed"]
        /\ UNCHANGED <<asked, page, reply, phase, first, overtaken, steady>>
      BY <1>4 DEF NothingToAsk, RefusedByClient, http
  <2>2. phase[s] = "idle" /\ page[s] = 1
      BY <1>0, <1>4 DEF RunInv, NothingToAsk, RefusedByClient
  <2>3. pc' \in [Syncs -> {"idle", "running", "done", "failed"}] /\ \A q \in Syncs \ {s} : pc'[q] = pc[q]
      BY <1>0, <2>1
  <2> QED BY <2>1, <2>2, <2>3 DEF RunInv
<1>5. ASSUME NEW s \in Syncs, Serve(s) PROVE RunInv'
  <2> DEFINE p == PageOf(s, page[s])
  <2>1. /\ phase[s] = "sent" /\ phase' = [phase EXCEPT ![s] = "answered"]
        /\ reply' = [reply EXCEPT ![s] = p]
        /\ overtaken' = [overtaken EXCEPT ![s] = FALSE]
        /\ UNCHANGED <<pc, asked, page, first, steady>>
      BY <1>5 DEF Serve, Answer
  <2>2. pc[s] = "running" /\ Len(asked[s]) <= Cardinality(Items)
      BY <2>1 DEF RunInv
  <2>3. p \in [items : SUBSET Item, more : BOOLEAN] /\ (p.more => page[s] < Cardinality(Items))
      BY PageServed
  <2> HIDE DEF p
  <2>4. /\ reply' \in [Syncs -> [items : SUBSET Item, more : BOOLEAN]] /\ reply'[s] = p
        /\ overtaken' \in [Syncs -> BOOLEAN] /\ phase'[s] = "answered"
        /\ \A q \in Syncs \ {s} : reply'[q] = reply[q] /\ phase'[q] = phase[q]
      BY <1>0, <2>1, <2>3
  <2> QED BY <1>0, <2>1, <2>2, <2>3, <2>4, RunOthers
<1>6. ASSUME NEW s \in Syncs, Receive(s) PROVE RunInv'
  <2>1. /\ phase[s] = "answered"
        /\ overtaken' = [q \in Syncs |-> q # s /\ (overtaken[q] \/ phase[q] = "answered")]
        /\ steady' = [q \in Syncs |-> steady[q] /\ ~overtaken[s] /\ (q = s => GoesOn(s))]
      BY <1>6 DEF Receive, Commit
  <2>2. overtaken' \in [Syncs -> BOOLEAN] /\ steady' \in [Syncs -> BOOLEAN]
      BY <2>1
  <2>3. CASE /\ GoesOn(s) /\ page' = [page EXCEPT ![s] = @ + 1] /\ reply' = [reply EXCEPT ![s] = NoReply]
             /\ Call(s) /\ UNCHANGED <<pc, asked, first>>
    <3>1. phase' = [phase EXCEPT ![s] = "token"]
        BY <2>3 DEF Call
    <3>2. pc[s] = "running" /\ page[s] + 1 \in 1 .. Cardinality(Items) /\ Len(asked[s]) <= Cardinality(Items)
        BY <1>0, <2>1, <2>3, ItemsCounted DEF RunInv, GoesOn
    <3>3. /\ page' \in [Syncs -> 1 .. Cardinality(Items)]
          /\ \A q \in Syncs \ {s} : page'[q] = page[q]
        BY <1>0, <2>3, <3>2
    <3>4. /\ reply' \in [Syncs -> [items : SUBSET Item, more : BOOLEAN]] /\ reply'[s] = NoReply
          /\ \A q \in Syncs \ {s} : reply'[q] = reply[q] /\ phase'[q] = phase[q]
        BY <1>0, <1>a, <2>3, <3>1
    <3>5. UNCHANGED <<pc, asked, first>>
        BY <2>3
    <3> HIDE <2>3
    <3> QED BY <1>0, <1>a, <2>2, <3>2, <3>3, <3>4, <3>5, RunOthers
  <2>4. CASE End(s, "done")
      BY <2>2, <2>4, RunEnds
  <2> QED BY <1>6, <2>3, <2>4 DEF Receive
<1>7. ASSUME NEW s \in Syncs, ReceiveRaises(s) \/ GiveUp(s) PROVE RunInv'
  <2>1. End(s, "failed") /\ overtaken' \in [Syncs -> BOOLEAN] /\ steady' \in [Syncs -> BOOLEAN]
      BY <1>0, <1>7 DEF ReceiveRaises, GiveUp, Fail
  <2> QED BY <2>1, RunEnds
<1>8. ASSUME NEW s \in Syncs, RequestStep(s) PROVE RunInv'
  <2>1. UNCHANGED sync /\ Request(s) /\ s \in Clients
      BY <1>8, EachRunHasAClient DEF RequestStep
  <2>2. /\ phase[s] # "idle" /\ phase[s] # "answered" /\ phase'[s] # "answered"
        /\ \A q \in Syncs : phase'[q] = phase[q] \/ q = s
      BY <1>0, <2>1, RequestMoves
  <2> QED BY <2>1, <2>2 DEF RunInv, sync
<1>9. ASSUME NEW s \in Syncs, ExpireStep(s) PROVE RunInv'
  <2>1. UNCHANGED <<sync, phase>>
      BY <1>9 DEF ExpireStep, Expire
  <2> QED BY <2>1 DEF RunInv, sync
<1> QED BY <1>1, <1>2, <1>3, <1>4, <1>5, <1>6, <1>7, <1>8, <1>9 DEF Next, StartStep, RunStep

-----------------------------------------------------------------------------
(* The rows.                                                               *)

LEMMA SameKey ==
  ASSUME feed \in Feeds, NEW r, NEW q
  PROVE  Key(r) = Key(q) <=>
           r.id = q.id /\ (feed \in {"balances", "transactions"} => r.date = q.date)
BY DEF Feeds, Key, AccountKey, CollateralKey, BalanceKey, TransactionKey

\* What is taken of a page is its item, dated with the clock if need be; what is
\* not taken is there already, or is a balance without a date.
LEMMA Takes ==
  ASSUME feed \in Feeds, NEW rows, NEW items \in SUBSET Item, \A i, j \in items : i = j, NEW now \in Nat,
         NEW taken, taken = Taken(rows, items, now)
  PROVE  /\ \A t \in taken : t \in AnyRow /\ \E i \in items : t.id = i.id /\ t.rev = i.rev
         /\ \A t, u \in taken : t = u
         /\ \A i \in items : \/ \E t \in taken : t.id = i.id /\ t.rev = i.rev
                             \/ i \in rows
                             \/ feed = "balances" /\ i.date = 0
<1> USE ChangesAreBounded
<1>1. Item \subseteq AnyRow
    BY DEF Item, AnyRow
<1>2. CASE feed = "accounts"
  <2>1. taken = {i \in items : \A r \in rows : r.id = i.id => ShouldUpdate(i, r)}
      BY <1>2 DEF Taken, AccountsTaken, AccountKey
  <2>2. \A i \in items \ taken : i \in rows
      BY <2>1 DEF ShouldUpdate
  <2> QED BY <1>1, <2>1, <2>2
<1>3. CASE feed = "collateral"
  <2>1. taken = {i \in items : \A r \in rows : r.id = i.id => ShouldUpdate(i, r)}
      BY <1>3 DEF Taken, CollateralTaken, CollateralKey
  <2>2. \A i \in items \ taken : i \in rows
      BY <2>1 DEF ShouldUpdate
  <2> QED BY <1>1, <2>1, <2>2
<1>4. CASE feed = "balances"
  <2>1. taken = {i \in items : i.date # 0}
      BY <1>4 DEF Taken, BalancesTaken
  <2> QED BY <1>1, <1>4, <2>1
<1>5. CASE feed = "transactions"
  <2> DEFINE row(i) == IF kind[i.id] = "undated" THEN [i EXCEPT !.date = now] ELSE i
  <2>1. taken = {row(i) : i \in items}
      BY <1>5 DEF Taken, TransactionsTaken
  <2>2. \A i \in Item : row(i) \in AnyRow /\ row(i).id = i.id /\ row(i).rev = i.rev
      BY DEF Item, AnyRow
  <2> HIDE DEF row
  <2> QED BY <2>1, <2>2
<1> QED BY <1>2, <1>3, <1>4, <1>5 DEF Feeds

\* The page of an answer is committed: what comes from it, and what it leaves.
LEMMA Committed ==
  ASSUME SourceInv, RunInv, ReplyInv, RowsInv, NEW s \in Syncs, Receive(s)
  PROVE  /\ table' \subseteq AnyRow /\ clock' \in Nat
         /\ \A r, q \in table' : Key(r) = Key(q) => r = q
         /\ \A q \in table' :
              q \in table \/ \E new \in reply[s].items : q.id = new.id /\ q.rev = new.rev
         /\ \A r \in table :
              \/ r \in table'
              \/ \E new \in reply[s].items, q \in table' : new.id = r.id /\ q.id = r.id /\ q.rev = new.rev
         /\ \A r \in table, q \in table' :
              Key(q) = Key(r) => q = r \/ \E new \in reply[s].items : new.id = r.id /\ q.rev = new.rev
         /\ \A new \in reply[s].items : Stored(new, table', TRUE)
<1> USE ChangesAreBounded
<1>1. PICK now \in Stamp(s) :
        table' = Upsert(table, Taken(table, reply[s].items, now)) /\ clock' = now
    BY DEF Receive, Commit
<1> DEFINE items == reply[s].items
           taken == Taken(table, items, now)
<1>2. now \in Nat
    BY DEF Stamp, RowsInv
<1>3. /\ feed \in Feeds /\ table \subseteq AnyRow /\ items \in SUBSET Item
      /\ \A i, j \in items : i = j
      /\ \A r, q \in table : Key(r) = Key(q) => r = q
    BY DEF SourceInv, RunInv, ReplyInv, RowsInv, OneRowPerKey
<1>4. /\ \A t \in taken : t \in AnyRow /\ \E i \in items : t.id = i.id /\ t.rev = i.rev
      /\ \A t, u \in taken : t = u
      /\ \A i \in items : \/ \E t \in taken : t.id = i.id /\ t.rev = i.rev
                          \/ i \in table
                          \/ feed = "balances" /\ i.date = 0
    BY <1>2, <1>3, Takes
<1> HIDE DEF items, taken
<1>5. table' = {r \in table : \A i \in taken : Key(r) # Key(i)} \cup taken
    BY <1>1 DEF Upsert, taken, items
<1>6. table' \subseteq AnyRow /\ clock' \in Nat
    BY <1>1, <1>2, <1>3, <1>4, <1>5
<1>7. \A r, q \in table' : Key(r) = Key(q) => r = q
    BY <1>3, <1>4, <1>5
<1>8. \A q \in table' : q \in table \/ \E new \in items : q.id = new.id /\ q.rev = new.rev
    BY <1>4, <1>5
<1>9. ASSUME NEW r \in table, r \notin table'
      PROVE  \E new \in items, q \in table' : new.id = r.id /\ q.id = r.id /\ q.rev = new.rev
  <2>1. PICK t \in taken : Key(r) = Key(t)
      BY <1>5, <1>9
  <2>2. t.id = r.id /\ t \in table'
      BY <1>3, <1>5, <2>1, SameKey
  <2> QED BY <1>4, <2>2
<1>10. ASSUME NEW r \in table, NEW q \in table', Key(q) = Key(r), q # r
       PROVE  \E new \in items : new.id = r.id /\ q.rev = new.rev
  <2>1. q \in taken /\ q.id = r.id
      BY <1>3, <1>5, <1>10, SameKey
  <2> QED BY <1>4, <2>1
<1>11. ASSUME NEW new \in items PROVE Stored(new, table', TRUE)
  <2>1. new.rev \in Nat
      BY <1>3, ItemTypes
  <2>2. CASE \E t \in taken : t.id = new.id /\ t.rev = new.rev
      BY <1>5, <2>1, <2>2 DEF Stored
  <2>3. CASE new \in table
    <3>1. CASE new \in table'
        BY <2>1, <3>1 DEF Stored
    <3>2. CASE new \notin table'
      <4>1. PICK n \in items, q \in table' : n.id = new.id /\ q.id = new.id /\ q.rev = n.rev
          BY <1>9, <2>3, <3>2
      <4>2. n = new
          BY <1>3
      <4> QED BY <2>1, <4>1, <4>2 DEF Stored
    <3> QED BY <3>1, <3>2
  <2>4. CASE feed = "balances" /\ new.date = 0
      BY <2>4 DEF Stored
  <2> QED BY <1>4, <2>2, <2>3, <2>4
<1> QED BY <1>6, <1>7, <1>8, <1>9, <1>10, <1>11 DEF items

\* Only an answer that is received changes the table.
LEMMA TableMoves ==
  ASSUME RowsInv, [Next]_vars
  PROVE  (table' = table /\ clock' \in Nat) \/ \E s \in Syncs : Receive(s)
<1>1. clock \in Nat
    BY DEF RowsInv
<1>2. ASSUME NEW s \in Syncs, StartStep(s) \/ Serve(s) \/ GiveUp(s) \/ RequestStep(s) \/ ExpireStep(s)
      PROVE  UNCHANGED <<table, clock>>
    BY <1>2 DEF StartStep, Begin, NothingToAsk, RefusedByClient, Serve, GiveUp, Fail, RequestStep, ExpireStep, sync
<1>3. ASSUME NEW s \in Syncs, ReceiveRaises(s)
      PROVE  table' = table /\ clock' \in Nat
    BY <1>1, <1>3 DEF ReceiveRaises, Fail, Stamp
<1> QED BY <1>1, <1>2, <1>3 DEF Next, RunStep, Arrive, Revise, Leave, vars, sync

LEMMA FeedStays == ASSUME [Next]_vars PROVE feed' = feed /\ kind' = kind
<1>1. ASSUME NEW s \in Syncs, StartStep(s) \/ RunStep(s) \/ ExpireStep(s)
      PROVE  feed' = feed /\ kind' = kind
    BY <1>1 DEF StartStep, Begin, NothingToAsk, RefusedByClient, RunStep, Serve, Receive, ReceiveRaises,
                GiveUp, RequestStep, ExpireStep, sync
<1> QED BY <1>1 DEF Next, Arrive, Revise, Leave, vars, sync

\* What is no newer than the provider's item stays so.
LEMMA NeverAhead ==
  ASSUME SourceInv, [Next]_vars, NEW id, NEW n \in Nat, n <= changes + 1,
         \A k \in DOMAIN source : source[k].id = id => n <= source[k].rev
  PROVE  /\ n <= changes' + 1
         /\ \A k \in DOMAIN source' : source'[k].id = id => n <= source'[k].rev
<1>1. changes \in Nat
    BY ChangesAreBounded DEF SourceInv
<1>2. CASE UNCHANGED <<source, changes>>
    BY <1>2
<1>3. ASSUME Changed,
             \A j \in DOMAIN source' :
               \/ \E k \in DOMAIN source : source'[j] = source[k]
               \/ source'[j].rev = changes + 2
      PROVE  /\ n <= changes' + 1
             /\ \A k \in DOMAIN source' : source'[k].id = id => n <= source'[k].rev
  <2>1. changes' = changes + 1
      BY <1>3 DEF Changed
  <2>2. n <= changes + 2 /\ n <= changes' + 1
      BY <1>1, <2>1
  <2> QED BY <1>3, <2>2
<1>4. CASE Arrive
    BY <1>3, <1>4, Arrived DEF Arrive
<1>5. ASSUME NEW k \in DOMAIN source, Leave(k)
      PROVE  /\ n <= changes' + 1
             /\ \A j \in DOMAIN source' : source'[j].id = id => n <= source'[j].rev
    BY <1>3, <1>5, Left DEF Leave
<1>6. ASSUME NEW k \in DOMAIN source, Revise(k)
      PROVE  /\ n <= changes' + 1
             /\ \A j \in DOMAIN source' : source'[j].id = id => n <= source'[j].rev
    BY <1>3, <1>6, Revised DEF Revise
<1>7. ASSUME NEW s \in Syncs, StartStep(s) \/ RunStep(s) \/ ExpireStep(s)
      PROVE  UNCHANGED <<source, changes>>
    BY <1>7 DEF StartStep, Begin, NothingToAsk, RefusedByClient, RunStep, Serve, Receive, ReceiveRaises,
                GiveUp, RequestStep, ExpireStep, sync
<1> QED BY <1>2, <1>4, <1>5, <1>6, <1>7 DEF Next, vars, sync

\* An answer on its way is one that is being served, or was there before and no
\* commit has come since, or has been overtaken.
LEMMA OnItsWay ==
  ASSUME HttpTypeOK, RunInv, [Next]_vars, NEW s \in Syncs
  PROVE  /\ reply'[s] \in {reply[s], NoReply} \/ Serve(s)
         /\ phase'[s] = "answered" /\ ~overtaken'[s] =>
              \/ Serve(s)
              \/ phase[s] = "answered" /\ ~overtaken[s] /\ reply'[s] = reply[s] /\ table' = table
<1>0. /\ reply \in [Syncs -> [items : SUBSET Item, more : BOOLEAN]]
      /\ overtaken \in [Syncs -> BOOLEAN]
      /\ phase \in [Syncs -> {"idle", "token", "sent", "answered", "raised"}]
    BY EachRunHasAClient DEF RunInv, HttpTypeOK
<1>1. CASE UNCHANGED <<phase, reply, table, overtaken>>
    BY <1>1
<1>2. ASSUME NEW q \in Syncs, Begin(q)
      PROVE  /\ UNCHANGED <<reply, table, overtaken>> /\ phase' = [phase EXCEPT ![q] = "token"]
    BY <1>2 DEF Begin, Call
<1>3. ASSUME NEW q \in Syncs, NothingToAsk(q) \/ RefusedByClient(q) \/ ExpireStep(q)
      PROVE  UNCHANGED <<phase, reply, table, overtaken>>
    BY <1>3 DEF NothingToAsk, RefusedByClient, ExpireStep, Expire, sync, http
<1>4. ASSUME NEW q \in Syncs, Serve(q), q # s
      PROVE  /\ reply'[s] = reply[s] /\ overtaken'[s] = overtaken[s] /\ phase'[s] = phase[s]
             /\ UNCHANGED table
    BY <1>0, <1>4 DEF Serve, Answer
<1>5. ASSUME NEW q \in Syncs, Receive(q)
      PROVE  /\ reply'[s] \in {reply[s], NoReply}
             /\ phase'[s] = "answered" => overtaken'[s]
  <2>1. /\ phase' = [phase EXCEPT ![q] = "token"] \/ phase' = [phase EXCEPT ![q] = "idle"]
        /\ reply' = [reply EXCEPT ![q] = NoReply]
        /\ overtaken' = [o \in Syncs |-> o # q /\ (overtaken[o] \/ phase[o] = "answered")]
      BY <1>5 DEF Receive, Commit, Call, End, Drop
  <2> QED BY <1>0, <2>1
<1>6. ASSUME NEW q \in Syncs, ReceiveRaises(q) \/ GiveUp(q)
      PROVE  /\ UNCHANGED table
             /\ phase' = [phase EXCEPT ![q] = "idle"] /\ reply' = [reply EXCEPT ![q] = NoReply]
             /\ overtaken' = [overtaken EXCEPT ![q] = FALSE]
    BY <1>6 DEF ReceiveRaises, GiveUp, Fail, End, Drop
<1>7. ASSUME NEW q \in Syncs, RequestStep(q)
      PROVE  /\ UNCHANGED <<reply, table, overtaken>>
             /\ \E p \in {"token", "sent", "raised"} : phase' = [phase EXCEPT ![q] = p]
    BY <1>7, RequestMoves, EachRunHasAClient DEF RequestStep, sync
<1>8. ASSUME NEW q \in Syncs, StartStep(q) \/ RunStep(q) \/ ExpireStep(q)
      PROVE  /\ reply'[s] \in {reply[s], NoReply} \/ Serve(s)
             /\ phase'[s] = "answered" /\ ~overtaken'[s] =>
                  \/ Serve(s)
                  \/ phase[s] = "answered" /\ ~overtaken[s] /\ reply'[s] = reply[s] /\ table' = table
  <2>1. CASE Begin(q) \/ RequestStep(q)
      BY <1>0, <1>2, <1>7, <2>1
  <2>2. CASE NothingToAsk(q) \/ RefusedByClient(q) \/ ExpireStep(q)
      BY <1>1, <1>3, <2>2
  <2>3. CASE Serve(q)
      BY <1>4, <2>3
  <2>4. CASE Receive(q)
      BY <1>5, <2>4
  <2>5. CASE ReceiveRaises(q) \/ GiveUp(q)
      BY <1>0, <1>6, <2>5
  <2> QED BY <1>8, <2>1, <2>2, <2>3, <2>4, <2>5 DEF StartStep, RunStep
<1>9. Arrive \/ (\E k \in DOMAIN source : Revise(k) \/ Leave(k)) => UNCHANGED <<phase, reply, table, overtaken>>
    BY DEF Arrive, Revise, Leave, http
<1> QED BY <1>1, <1>8, <1>9 DEF Next, vars, sync, http

LEMMA ReplyNext ==
  ASSUME HttpTypeOK, SourceInv, RunInv, ReplyInv, [Next]_vars
  PROVE  ReplyInv'
<1> SUFFICES ASSUME NEW s \in Syncs
             PROVE  /\ \A i, j \in reply'[s].items : i = j
                    /\ \A new \in reply'[s].items :
                         /\ new.rev <= changes' + 1
                         /\ \A k \in DOMAIN source' : source'[k].id = new.id => new.rev <= source'[k].rev
    BY DEF ReplyInv
<1>1. CASE reply'[s] = NoReply
    BY <1>1 DEF NoReply
<1>2. CASE reply'[s] = reply[s]
  <2>1. \A i, j \in reply'[s].items : i = j
      BY <1>2 DEF ReplyInv
  <2>2. ASSUME NEW new \in reply[s].items
        PROVE  /\ new.rev <= changes' + 1
               /\ \A k \in DOMAIN source' : source'[k].id = new.id => new.rev <= source'[k].rev
    <3>1. new.rev \in Nat
        BY ItemTypes DEF RunInv
    <3> QED BY <3>1, NeverAhead DEF ReplyInv
  <2> QED BY <1>2, <2>1, <2>2
<1>3. CASE Serve(s)
  <2> DEFINE p == PageOf(s, page[s])
  <2>1. reply'[s] = p /\ UNCHANGED <<source, changes>>
      BY <1>3 DEF Serve, RunInv
  <2>2. /\ \A i, j \in p.items : i = j
        /\ \A i \in p.items : \E k \in DOMAIN source : source[k] = i
      BY PageServed
  <2> HIDE DEF p
  <2>3. ASSUME NEW new \in p.items
        PROVE  /\ new.rev <= changes + 1
               /\ \A k \in DOMAIN source : source[k].id = new.id => new.rev <= source[k].rev
    <3>1. PICK k \in DOMAIN source : source[k] = new
        BY <2>2
    <3>2. new.rev <= changes + 1 /\ new \in Item
        BY <3>1 DEF SourceInv
    <3>3. new.rev <= new.rev
        BY <3>2, ItemTypes
    <3>4. \A j \in DOMAIN source : source[j].id = new.id => j = k
        BY <3>1 DEF SourceInv
    <3> QED BY <3>1, <3>2, <3>3, <3>4
  <2> QED BY <2>1, <2>2, <2>3
<1> QED BY <1>1, <1>2, <1>3, OnItsWay

LEMMA RowsNext ==
  ASSUME HttpTypeOK, SourceInv, RunInv, ReplyInv, RowsInv, [Next]_vars
  PROVE  RowsInv'
<1>1. /\ table \subseteq AnyRow /\ clock \in Nat
      /\ \A r, q \in table : Key(r) = Key(q) => r = q
      /\ \A r \in table : r.rev \in Nat
    BY ChangesAreBounded DEF RowsInv, OneRowPerKey, AnyRow
\* Rows and the items of answers are no newer than the provider's.
<1>2. ASSUME NEW r, \/ r \in table \/ \E s \in Syncs : r \in reply[s].items
      PROVE  /\ r.rev <= changes' + 1
             /\ \A k \in DOMAIN source' : source'[k].id = r.id => r.rev <= source'[k].rev
  <2>1. /\ r.rev \in Nat /\ r.rev <= changes + 1
        /\ \A k \in DOMAIN source : source[k].id = r.id => r.rev <= source[k].rev
      BY <1>1, <1>2, ItemTypes DEF RowsInv, ReplyInv, RunInv
  <2> QED BY <2>1, NeverAhead
<1>3. /\ table' \subseteq AnyRow /\ clock' \in Nat
      /\ \A r, q \in table' : Key(r) = Key(q) => r = q
      /\ \A q \in table' : \/ q \in table
                           \/ \E s \in Syncs : \E new \in reply[s].items : q.id = new.id /\ q.rev = new.rev
    BY <1>1, TableMoves, Committed
<1>4. OneRowPerKey'
  <2>1. \A r, q : (Key(r) = Key(q))' <=> Key(r) = Key(q)
      BY FeedStays DEF Key
  <2> QED BY <1>3, <2>1 DEF OneRowPerKey, Key
<1>5. ASSUME NEW q \in table'
      PROVE  /\ q.rev <= changes' + 1
             /\ \A k \in DOMAIN source' : source'[k].id = q.id => q.rev <= source'[k].rev
  <2>1. CASE q \in table
      BY <1>2, <2>1
  <2>2. CASE \E s \in Syncs : \E new \in reply[s].items : q.id = new.id /\ q.rev = new.rev
      BY <1>2, <2>2
  <2> QED BY <1>3, <2>1, <2>2
<1>6. ASSUME NEW s \in Syncs, phase'[s] = "answered", ~overtaken'[s],
             NEW new \in reply'[s].items, NEW r \in table', r.id = new.id
      PROVE  r.rev <= new.rev
  <2>1. CASE Serve(s)
    <3>1. reply'[s] = PageOf(s, page[s]) /\ table' = table
        BY <2>1 DEF Serve, RunInv
    <3>2. \E k \in DOMAIN source : source[k] = new
        BY <1>6, <3>1, PageServed
    <3> QED BY <1>6, <3>1, <3>2 DEF RowsInv
  <2>2. CASE phase[s] = "answered" /\ ~overtaken[s] /\ reply'[s] = reply[s] /\ table' = table
      BY <1>6, <2>2 DEF RowsInv
  <2> QED BY <1>6, <2>1, <2>2, OnItsWay
<1> QED BY <1>3, <1>4, <1>5, <1>6 DEF RowsInv

-----------------------------------------------------------------------------
(* A run from its start to its end.                                        *)

\* As long as no item goes, an item stays listed, on no earlier page.
LEMMA StaysListed ==
  ASSUME SourceInv, [Next]_vars, \A n \in DOMAIN source : ~Leave(n),
         NEW i \in Item, NEW k \in DOMAIN source, Later(source[k], i)
  PROVE  \E j \in DOMAIN source' : k <= j /\ Later(source'[j], i)
<1>1. k \in Nat /\ i.rev \in Nat /\ changes \in Nat /\ source[k].rev \in Nat /\ source[k].rev <= changes + 1
    BY ItemTypes, ChangesAreBounded DEF SourceInv
<1>2. CASE UNCHANGED source
    BY <1>1, <1>2
<1>3. CASE Arrive
    BY <1>3, Arrived
<1>4. ASSUME NEW n \in DOMAIN source, Revise(n)
      PROVE  \E j \in DOMAIN source' : k <= j /\ Later(source'[j], i)
  <2>1. /\ DOMAIN source' = DOMAIN source
        /\ \A j \in DOMAIN source \ {n} : source'[j] = source[j]
        /\ source'[n].id = source[n].id /\ source'[n].rev = changes + 2
        /\ source'[n].date = 0 <=> source[n].date = 0
      BY <1>4, Revised
  <2>2. Later(source'[k], i)
    <3>1. CASE n = k
        BY <1>1, <2>1, <3>1 DEF Later
    <3>2. CASE n # k
        BY <2>1, <3>2
    <3> QED BY <3>1, <3>2
  <2> QED BY <1>1, <2>1, <2>2
<1>5. ASSUME NEW s \in Syncs, StartStep(s) \/ RunStep(s) \/ ExpireStep(s)
      PROVE  UNCHANGED source
    BY <1>5 DEF StartStep, Begin, NothingToAsk, RefusedByClient, RunStep, Serve, Receive, ReceiveRaises,
                GiveUp, RequestStep, ExpireStep, sync
<1> QED BY <1>2, <1>3, <1>4, <1>5 DEF Next, vars, sync

\* A commit takes no item out of the table, and only one of an overtaken answer
\* takes an item back to an older revision.
LEMMA StaysStored ==
  ASSUME SourceInv, RunInv, ReplyInv, RowsInv, NEW s \in Syncs, Receive(s),
         NEW i \in Item, NEW recent \in BOOLEAN, Stored(i, table, recent)
  PROVE  Stored(i, table', recent /\ ~overtaken[s])
<1>1. CASE feed = "balances" /\ i.date = 0
    BY <1>1 DEF Stored
<1>2. CASE \E r \in table : r.id = i.id /\ (recent => r.rev >= i.rev)
  <2>1. PICK r \in table : r.id = i.id /\ (recent => r.rev >= i.rev)
      BY <1>2
  <2>2. CASE r \in table'
      BY <2>1, <2>2 DEF Stored
  <2>3. CASE r \notin table'
    <3>1. PICK new \in reply[s].items, q \in table' : new.id = r.id /\ q.id = r.id /\ q.rev = new.rev
        BY <2>3, Committed
    <3>2. ~overtaken[s] => r.rev <= new.rev
        BY <3>1 DEF RowsInv, Receive
    <3>3. i.rev \in Nat /\ r.rev \in Nat /\ new.rev \in Nat
        BY ItemTypes, ChangesAreBounded DEF RowsInv, RunInv, AnyRow
    <3> QED BY <2>1, <3>1, <3>2, <3>3 DEF Stored
  <2> QED BY <2>2, <2>3
<1> QED BY <1>1, <1>2 DEF Stored

\* A run that another step leaves alone.
LEMMA StaysFollowed ==
  ASSUME NEW s \in Syncs, NEW i, Followed(s, i), UNCHANGED <<feed, source>>,
         asked'[s] = asked[s], page'[s] = page[s], reply'[s] = reply[s],
         phase'[s] = "answered" <=> phase[s] = "answered",
         Stored(i, table, steady[s]) => Stored(i, table', steady'[s])
  PROVE  Followed(s, i)'
<1>1. \A k : At(s, k, i.id)' <=> At(s, k, i.id)
    BY DEF At
<1>2. GoesOn(s)' <=> GoesOn(s)
    BY DEF GoesOn
<1>3. ToCome(s, i) => ToCome(s, i)'
    BY <1>1, <1>2 DEF ToCome
<1>4. Stored(i, table', steady'[s]) => Stored(i, table, steady[s])'
    BY DEF Stored
<1> QED BY <1>3, <1>4 DEF Followed, Later

LEMMA MirrorNext ==
  ASSUME HttpTypeOK, SourceInv, RunInv, ReplyInv, RowsInv, MirrorInv, [Next]_vars
  PROVE  MirrorInv'
<1>0. /\ pc \in [Syncs -> {"idle", "running", "done", "failed"}]
      /\ asked \in [Syncs -> Seq(Items)] /\ page \in [Syncs -> 1 .. Cardinality(Items)]
      /\ reply \in [Syncs -> [items : SUBSET Item, more : BOOLEAN]]
      /\ first \in [Syncs -> SUBSET Item]
      /\ overtaken \in [Syncs -> BOOLEAN] /\ steady \in [Syncs -> BOOLEAN]
      /\ phase \in [Syncs -> {"idle", "token", "sent", "answered", "raised"}]
    BY EachRunHasAClient DEF RunInv, HttpTypeOK
<1>a. ASSUME NEW s \in Syncs, pc[s] = "running", NEW i \in first[s]
      PROVE  Followed(s, i) /\ i \in Item /\ i.rev \in Nat /\ page[s] \in Nat
    BY <1>0, <1>a, ItemTypes, ItemsCounted DEF MirrorInv
<1>b. \A s \in Syncs : \A i : Stored(i, table, steady[s])' <=> (Stored(i, table', steady'[s]))
    BY FeedStays DEF Stored
<1>1. CASE \E n \in DOMAIN source : Leave(n)
  <2>1. \A s \in Syncs : first'[s] = {}
      BY <1>1 DEF Leave
  <2> QED BY <2>1 DEF MirrorInv
<1>2. CASE Arrive \/ \E n \in DOMAIN source : Revise(n)
  <2>1. UNCHANGED <<phase, feed, table, pc, asked, page, reply, first, overtaken, steady>>
      BY <1>2 DEF Arrive, Revise, http
  <2>2. CASE \A n \in DOMAIN source : ~Leave(n)
    <3> SUFFICES ASSUME NEW s \in Syncs, pc[s] = "running", NEW i \in first[s] PROVE Followed(s, i)'
        BY <2>1 DEF MirrorInv
    <3>1. Followed(s, i) /\ i \in Item /\ page[s] \in Nat
        BY <1>a
    <3>2. PICK k \in DOMAIN source : Later(source[k], i)
        BY <3>1 DEF Followed
    <3>3. PICK j \in DOMAIN source' : k <= j /\ Later(source'[j], i)
        BY <2>2, <3>1, <3>2, StaysListed
    <3>4. k \in Nat /\ j \in Nat
      <4>1. source' \in Seq(Item) /\ source \in Seq(Item)
          BY SourceNext DEF SourceInv
      <4> QED BY <4>1
    <3>5. ASSUME ToCome(s, i) PROVE ToCome(s, i)'
      <4>1. PICK m \in Nat : /\ At(s, m, i.id) /\ page[s] <= m
                             /\ phase[s] = "answered" => page[s] < m /\ GoesOn(s)
          BY <3>5 DEF ToCome
      <4>2. GoesOn(s)' <=> GoesOn(s)
          BY <2>1 DEF GoesOn
      <4>3. CASE feed = "balances"
        <5>1. At(s, m, i.id)'
            BY <2>1, <4>1, <4>3 DEF At
        <5> QED BY <2>1, <4>1, <4>2, <5>1 DEF ToCome
      <4>4. CASE feed # "balances"
        <5>1. m = k
            BY <3>2, <4>1, <4>4 DEF At, Later, SourceInv
        <5>2. At(s, j, i.id)'
            BY <2>1, <3>3, <4>4 DEF At, Later
        <5>3. page[s] <= j /\ (phase[s] = "answered" => page[s] < j)
            BY <3>1, <3>3, <3>4, <4>1, <5>1
        <5> QED BY <2>1, <3>4, <4>1, <4>2, <5>2, <5>3 DEF ToCome
      <4> QED BY <4>3, <4>4
    <3>6. Stored(i, table, steady[s]) => Stored(i, table, steady[s])'
        BY <2>1 DEF Stored
    <3>7. \A new \in reply'[s].items : new.id = i.id => Later(new, i)'
        BY <2>1, <3>1 DEF Followed, Later
    <3>8. (\E n \in DOMAIN source : Later(source[n], i))'
        BY <3>3 DEF Later
    <3>9. Stored(i, table, steady[s]) \/ (\E new \in reply[s].items : new.id = i.id) \/ ToCome(s, i)
        BY <3>1 DEF Followed
    <3> QED BY <2>1, <3>5, <3>6, <3>7, <3>8, <3>9 DEF Followed
  <2> QED BY <1>1, <2>2
<1>3. ASSUME NEW s \in Syncs, Begin(s) PROVE MirrorInv'
  <2>1. PICK ids \in AccountIds : /\ asked' = [asked EXCEPT ![s] = ids]
                                  /\ first' = [first EXCEPT ![s] = InScope(ids)]
      BY <1>3 DEF Begin
  <2>2. /\ pc[s] = "idle" /\ pc' = [pc EXCEPT ![s] = "running"]
        /\ phase' = [phase EXCEPT ![s] = "token"]
        /\ steady' = [steady EXCEPT ![s] = TRUE]
        /\ UNCHANGED <<feed, source, table, page, reply>>
      BY <1>3 DEF Begin, Call
  <2> SUFFICES ASSUME NEW q \in Syncs, pc'[q] = "running", NEW i \in first'[q] PROVE Followed(q, i)'
      BY DEF MirrorInv
  <2>3. CASE q # s
    <3>1. /\ pc[q] = "running" /\ i \in first[q] /\ asked'[q] = asked[q] /\ phase'[q] = phase[q]
          /\ steady'[q] = steady[q]
        BY <1>0, <2>1, <2>2, <2>3
    <3> QED BY <1>a, <2>2, <3>1, StaysFollowed
  <2>4. CASE q = s
    <3>1. /\ i \in InScope(ids) /\ asked'[s] = ids /\ phase'[s] = "token"
          /\ page'[s] = 1 /\ reply'[s] = NoReply
        BY <1>0, <2>1, <2>2, <2>4 DEF RunInv
    <3>2. PICK k \in DOMAIN source : source[k] = i
        BY <3>1, Asked
    <3>3. i \in Item /\ i.rev \in Nat /\ k \in Nat /\ k >= 1
        BY <3>1, <3>2, Asked, ItemTypes DEF SourceInv
    <3>4. (\E n \in DOMAIN source : Later(source[n], i))'
        BY <2>2, <3>2, <3>3 DEF Later
    <3>5. ToCome(s, i)'
      <4>1. \E m \in Nat : m >= 1 /\ At(s, m, i.id)'
        <5>1. CASE feed = "balances"
          <6>1. PICK m \in DOMAIN ids : ids[m] = i.id
              BY <3>1, <5>1, Asked
          <6>2. m \in Nat /\ m >= 1
              BY Asked
          <6> QED BY <2>2, <3>1, <5>1, <6>1, <6>2 DEF At
        <5>2. CASE feed # "balances"
            BY <2>2, <3>2, <3>3, <5>2 DEF At
        <5> QED BY <5>1, <5>2
      <4> QED BY <3>1, <4>1 DEF ToCome
    <3>6. reply'[s].items = {}
        BY <3>1 DEF NoReply
    <3> QED BY <2>4, <3>4, <3>5, <3>6 DEF Followed
  <2> QED BY <2>3, <2>4
<1>4. ASSUME NEW s \in Syncs, NothingToAsk(s) \/ RefusedByClient(s) PROVE MirrorInv'
  <2>1. /\ pc' = [pc EXCEPT ![s] = "done"] \/ pc' = [pc EXCEPT ![s] = "failed"]
        /\ UNCHANGED <<phase, feed, source, table, asked, page, reply, first, steady>>
      BY <1>4 DEF NothingToAsk, RefusedByClient, http
  <2>2. \A q \in Syncs : pc'[q] = "running" => pc[q] = "running"
      BY <1>0, <2>1
  <2> QED BY <1>a, <2>1, <2>2, StaysFollowed DEF MirrorInv
<1>5. ASSUME NEW s \in Syncs, Serve(s) PROVE MirrorInv'
  <2> DEFINE p == PageOf(s, page[s])
  <2>1. /\ phase[s] = "sent" /\ phase' = [phase EXCEPT ![s] = "answered"]
        /\ reply' = [reply EXCEPT ![s] = p]
        /\ UNCHANGED <<feed, source, table, pc, asked, page, first, steady>>
      BY <1>5 DEF Serve, Answer
  <2>2. /\ \A i \in p.items : \E k \in DOMAIN source : source[k] = i
        /\ \A k \in DOMAIN source : At(s, page[s], source[k].id) => source[k] \in p.items
        /\ \A m \in Nat : \A id : At(s, m, id) /\ page[s] < m => p.more /\ (feed = "collateral" => p.items # {})
      BY PageServed
  <2> HIDE DEF p
  <2> SUFFICES ASSUME NEW q \in Syncs, pc[q] = "running", NEW i \in first[q] PROVE Followed(q, i)'
      BY <2>1 DEF MirrorInv
  <2>3. CASE q # s
    <3>1. reply'[q] = reply[q] /\ phase'[q] = phase[q]
        BY <1>0, <2>1, <2>3
    <3> QED BY <1>a, <2>1, <3>1, StaysFollowed
  <2>4. CASE q = s
    <3>1. reply'[s] = p /\ phase'[s] = "answered" /\ reply[s].items = {}
      <4>1. reply[s] = NoReply
          BY <2>1 DEF RunInv
      <4>2. reply[s].items = {}
          BY <4>1 DEF NoReply
      <4> QED BY <1>0, <2>1, <4>2
    <3>2. Followed(s, i) /\ page[s] \in Nat
        BY <1>a, <2>4
    <3>3. PICK k \in DOMAIN source : Later(source[k], i)
        BY <3>2 DEF Followed
    <3>4. \A new \in p.items : new.id = i.id => Later(new, i)
        BY <2>2, <3>3 DEF Later, SourceInv
    <3>5. Stored(i, table, steady[s]) \/ ToCome(s, i)
        BY <3>1, <3>2 DEF Followed
    <3>6. \A m : At(s, m, i.id)' <=> At(s, m, i.id)
        BY <2>1 DEF At
    <3>7. ASSUME ToCome(s, i)
          PROVE  (\E new \in p.items : new.id = i.id) \/ ToCome(s, i)'
      <4>1. PICK m \in Nat : At(s, m, i.id) /\ page[s] <= m
          BY <3>7 DEF ToCome
      <4>2. CASE m = page[s]
        <5>1. source[k].id = i.id
            BY <3>3 DEF Later
        <5> QED BY <2>2, <4>1, <4>2, <5>1
      <4>3. CASE page[s] < m
        <5>1. GoesOn(s)'
            BY <2>1, <2>2, <3>1, <4>1, <4>3 DEF GoesOn
        <5> QED BY <2>1, <3>6, <4>1, <4>3, <5>1 DEF ToCome
      <4> QED BY <3>2, <4>1, <4>2, <4>3
    <3>8. Stored(i, table, steady[s]) => Stored(i, table, steady[s])'
        BY <2>1 DEF Stored
    <3>9. (\E n \in DOMAIN source : Later(source[n], i))' /\ \A new \in reply'[s].items : new.id = i.id => Later(new, i)'
        BY <2>1, <3>1, <3>3, <3>4 DEF Later
    <3> QED BY <2>4, <3>1, <3>5, <3>7, <3>8, <3>9 DEF Followed
  <2> QED BY <2>3, <2>4
<1>6. ASSUME NEW s \in Syncs, Receive(s) PROVE MirrorInv'
  <2>1. /\ phase[s] = "answered" /\ UNCHANGED <<feed, source>>
        /\ steady' = [q \in Syncs |-> steady[q] /\ ~overtaken[s] /\ (q = s => GoesOn(s))]
      BY <1>6 DEF Receive, Commit
  <2>2. \/ /\ GoesOn(s) /\ page' = [page EXCEPT ![s] = @ + 1] /\ reply' = [reply EXCEPT ![s] = NoReply]
           /\ phase' = [phase EXCEPT ![s] = "token"] /\ UNCHANGED <<pc, asked, first>>
        \/ /\ pc' = [pc EXCEPT ![s] = "done"] /\ asked' = [asked EXCEPT ![s] = <<>>]
           /\ page' = [page EXCEPT ![s] = 1] /\ reply' = [reply EXCEPT ![s] = NoReply]
           /\ first' = [first EXCEPT ![s] = {}] /\ phase' = [phase EXCEPT ![s] = "idle"]
      BY <1>6 DEF Receive, Call, End, Drop
  <2> SUFFICES ASSUME NEW q \in Syncs, pc'[q] = "running", NEW i \in first'[q] PROVE Followed(q, i)'
      BY DEF MirrorInv
  <2>3. pc[q] = "running" /\ i \in first[q]
      BY <1>0, <2>2
  <2>4. Followed(q, i) /\ i \in Item /\ i.rev \in Nat /\ page[q] \in Nat
      BY <1>a, <2>3
  <2>5. Stored(i, table, steady[q]) => Stored(i, table', steady'[q])
    <3>1. steady'[q] => steady[q] /\ ~overtaken[s]
        BY <2>1
    <3>2. Stored(i, table, steady[q]) => Stored(i, table', steady[q] /\ ~overtaken[s])
        BY <1>0, <1>6, <2>4, StaysStored
    <3> QED BY <3>1, <3>2 DEF Stored
  <2>6. CASE q # s
    <3>1. asked'[q] = asked[q] /\ page'[q] = page[q] /\ reply'[q] = reply[q] /\ phase'[q] = phase[q]
        BY <1>0, <2>2, <2>6
    <3> QED BY <2>1, <2>4, <2>5, <3>1, StaysFollowed
  <2>7. CASE q = s
    <3>1. /\ GoesOn(s) /\ page'[s] = page[s] + 1 /\ reply'[s] = NoReply /\ phase'[s] = "token"
          /\ asked'[s] = asked[s]
        BY <1>0, <2>2, <2>7
    <3>2. ASSUME NEW new \in reply[s].items, new.id = i.id
          PROVE  Stored(i, table', steady'[s])
      <4>1. Later(new, i) /\ new.rev \in Nat
          BY <2>4, <2>7, <3>2, ItemTypes DEF Followed, RunInv
      <4>2. Stored(new, table', TRUE)
          BY <1>6, Committed
      <4>3. table' \subseteq AnyRow
          BY <1>6, Committed
      <4>4. \A r \in table' : r.rev \in Nat
          BY <4>3, ChangesAreBounded DEF AnyRow
      <4> QED BY <2>4, <4>1, <4>2, <4>4 DEF Stored, Later
    <3>3. ASSUME ToCome(s, i) PROVE ToCome(s, i)'
      <4>1. PICK m \in Nat : At(s, m, i.id) /\ page[s] < m
          BY <2>1, <3>3 DEF ToCome
      <4>2. page'[s] <= m /\ At(s, m, i.id)'
          BY <2>1, <2>4, <2>7, <3>1, <4>1 DEF At
      <4> QED BY <3>1, <4>2 DEF ToCome
    <3>4. reply'[s].items = {}
        BY <3>1 DEF NoReply
    <3>5. (\E n \in DOMAIN source : Later(source[n], i))'
        BY <2>1, <2>4, <2>7 DEF Followed, Later
    <3>6. Stored(i, table, steady[s])' <=> Stored(i, table', steady'[s])
        BY <1>b
    <3>7. Stored(i, table, steady[s])' \/ ToCome(s, i)'
        BY <2>4, <2>5, <2>7, <3>2, <3>3, <3>6 DEF Followed
    <3> QED BY <2>7, <3>4, <3>5, <3>7 DEF Followed
  <2> QED BY <2>6, <2>7
<1>7. ASSUME NEW s \in Syncs, ReceiveRaises(s) \/ GiveUp(s) PROVE MirrorInv'
  <2>1. /\ pc' = [pc EXCEPT ![s] = "failed"] /\ asked' = [asked EXCEPT ![s] = <<>>]
        /\ page' = [page EXCEPT ![s] = 1] /\ reply' = [reply EXCEPT ![s] = NoReply]
        /\ first' = [first EXCEPT ![s] = {}] /\ phase' = [phase EXCEPT ![s] = "idle"]
        /\ steady' = [steady EXCEPT ![s] = FALSE]
        /\ UNCHANGED <<feed, source, table>>
      BY <1>7 DEF ReceiveRaises, GiveUp, Fail, End, Drop
  <2> SUFFICES ASSUME NEW q \in Syncs, pc'[q] = "running", NEW i \in first'[q] PROVE Followed(q, i)'
      BY DEF MirrorInv
  <2>2. q # s
      BY <1>0, <2>1
  <2>3. /\ pc[q] = "running" /\ i \in first[q] /\ asked'[q] = asked[q] /\ page'[q] = page[q]
        /\ reply'[q] = reply[q] /\ phase'[q] = phase[q] /\ steady'[q] = steady[q]
      BY <1>0, <2>1, <2>2
  <2> QED BY <1>a, <2>1, <2>3, StaysFollowed
<1>8. ASSUME NEW s \in Syncs, RequestStep(s) PROVE MirrorInv'
  <2>1. UNCHANGED <<feed, source, table, pc, asked, page, reply, first, steady>> /\ Request(s) /\ s \in Clients
      BY <1>8, EachRunHasAClient DEF RequestStep, sync
  <2>2. \A q \in Syncs : phase'[q] = "answered" <=> phase[q] = "answered"
      BY <1>0, <2>1, RequestMoves
  <2> QED BY <1>a, <2>1, <2>2, StaysFollowed DEF MirrorInv
<1>9. ASSUME UNCHANGED <<sync, phase>> PROVE MirrorInv'
    BY <1>a, <1>9, StaysFollowed DEF MirrorInv, sync
<1>10. \A s \in Syncs : ExpireStep(s) => UNCHANGED <<sync, phase>>
    BY DEF ExpireStep, Expire
<1> QED BY <1>1, <1>2, <1>3, <1>4, <1>5, <1>6, <1>7, <1>8, <1>9, <1>10 DEF Next, StartStep, RunStep, vars, http

-----------------------------------------------------------------------------
(* The theorems.                                                           *)

LEMMA IInvStart == ASSUME Init PROVE IInv
<1>1. HttpInv /\ SourceInv /\ RunInv
    BY HttpStart, SetupsAreKnown, SourceStart, RunStart DEF Init
<1>2. /\ table = {} /\ clock = 1 /\ \A s \in Syncs : reply[s].items = {} /\ pc[s] = "idle"
    BY DEF Init, NoReply
<1>3. ReplyInv /\ RowsInv /\ MirrorInv
    BY <1>2 DEF ReplyInv, RowsInv, OneRowPerKey, MirrorInv
<1> QED BY <1>1, <1>3 DEF IInv

LEMMA IInvNext == ASSUME IInv, [Next]_vars PROVE IInv'
<1>1. HttpInv' /\ SourceInv' /\ HttpTypeOK
    BY HttpNext, SourceNext DEF IInv, HttpInv
<1>2. RunInv' /\ ReplyInv' /\ RowsInv' /\ MirrorInv'
    BY <1>1, RunNext, ReplyNext, RowsNext, MirrorNext DEF IInv
<1> QED BY <1>1, <1>2 DEF IInv

\* The invariant holds however runs, faults and changes interleave.
THEOREM Invariance == Spec => []IInv
<1>1. Init => IInv
    BY IInvStart
<1>2. IInv /\ [Next]_vars => IInv'
    BY IInvNext
<1> QED BY <1>1, <1>2, PTL DEF Spec

\* Every variable keeps its type; in particular a run never asks for more pages
\* than there are items (the loops of the clients, *_client.py).
THEOREM TypeCorrect == Spec => []TypeOK
<1>1. IInv => TypeOK
    BY DEF IInv, HttpInv, SourceInv, RunInv, RowsInv, AnyRow, TypeOK
<1> QED BY <1>1, Invariance, PTL

\* Whatever statuses, faults and expiries its requests meet, a call is given up
\* for a transient error only at its third request, and for a 401 with the
\* static bearer only after a second one; it never sends more than four
\* (http.py:87-121).
THEOREM RaisesExplained == Spec => []RaisesAreExplained
<1>1. IInv => RaisesAreExplained
    BY DEF IInv, HttpInv, ClientInv, RaisesAreExplained
<1> QED BY <1>1, Invariance, PTL

\* Runs undo each other only where one commits while the other's answer is on
\* its way, for any number of them (http.py:87-121, the _upsert_batch of the
\* four syncers).
THEOREM RowsStepBack == Spec => OlderOnlyIfOvertaken
<1>1. ASSUME IInv, [Next]_vars, NEW s \in Syncs,
             phase[s] = "answered", phase'[s] # "answered", ~overtaken[s],
             NEW r \in table, NEW q \in table', Key(q) = Key(r)
      PROVE  q.rev >= r.rev
  <2>1. /\ RunInv /\ SourceInv /\ ReplyInv /\ RowsInv /\ HttpTypeOK
        /\ table \subseteq AnyRow /\ r.rev \in Nat
      BY <1>1, ChangesAreBounded DEF IInv, HttpInv, RowsInv, AnyRow
  <2>2. CASE table' = table
      BY <1>1, <2>1, <2>2 DEF RowsInv, OneRowPerKey
  <2>3. ASSUME NEW o \in Syncs, Receive(o)
        PROVE  o = s
    <3>1. phase' = [phase EXCEPT ![o] = "token"] \/ phase' = [phase EXCEPT ![o] = "idle"]
        BY <2>3 DEF Receive, Call, End, Drop
    <3> QED BY <1>1, <2>1, <3>1, EachRunHasAClient DEF HttpTypeOK
  <2>4. CASE Receive(s)
    <3>1. q = r \/ \E new \in reply[s].items : new.id = r.id /\ q.rev = new.rev
        BY <1>1, <2>1, <2>4, Committed
    <3>2. \A new \in reply[s].items : new.id = r.id => r.rev <= new.rev /\ new.rev \in Nat
        BY <1>1, <2>1, ItemTypes DEF RowsInv, RunInv
    <3> QED BY <2>1, <3>1, <3>2
  <2> QED BY <1>1, <2>1, <2>2, <2>3, <2>4, TableMoves
<1>2. IInv /\ [Next]_vars =>
        [\A s \in Syncs :
           phase[s] = "answered" /\ phase'[s] # "answered" /\ ~overtaken[s]
           => \A r \in table, q \in table' : Key(q) = Key(r) => q.rev >= r.rev]_vars
    BY <1>1
<1> QED BY <1>2, Invariance, PTL DEF Spec, OlderOnlyIfOvertaken

\* A run is done only by an answer after which its loop does not go on, or
\* without one.
LEMMA DoneBy ==
  ASSUME [Next]_vars, NEW s \in Syncs, pc \in [Syncs -> {"idle", "running", "done", "failed"}],
         pc[s] = "running", pc'[s] = "done"
  PROVE  Receive(s) /\ ~GoesOn(s)
<1>1. ASSUME NEW q \in Syncs, \/ Begin(q) \/ NothingToAsk(q) \/ RefusedByClient(q) \/ Serve(q)
                              \/ ReceiveRaises(q) \/ GiveUp(q) \/ RequestStep(q) \/ ExpireStep(q)
      PROVE  FALSE
    BY <1>1 DEF Begin, NothingToAsk, RefusedByClient, Serve, ReceiveRaises, GiveUp, Fail, End,
                RequestStep, ExpireStep, sync
<1>2. ~Arrive /\ ~(\E k \in DOMAIN source : Revise(k) \/ Leave(k)) /\ ~UNCHANGED vars
    BY DEF Arrive, Revise, Leave, vars, sync
<1>3. PICK q \in Syncs : Receive(q)
    BY <1>1, <1>2 DEF Next, StartStep, RunStep
<1>4. UNCHANGED pc \/ (~GoesOn(q) /\ pc' = [pc EXCEPT ![q] = "done"])
    BY <1>3 DEF Receive, End
<1>5. q = s
    BY <1>4
<1> QED BY <1>3, <1>4, <1>5

\* A run that ends well leaves no item of the provider behind that did not go,
\* for each of the four feeds and the way its pages are asked for, whatever
\* other runs do; and none older than it was when the run began, unless one
\* commits an answer that was overtaken (run_once of the four syncers).
THEOREM RunsMirror == Spec => CompleteRunsMirror
<1>1. ASSUME IInv, [Next]_vars, NEW s \in Syncs, pc[s] = "running", pc'[s] = "done", NEW i \in first[s]
      PROVE  Stored(i, table', steady[s] /\ ~overtaken[s])
  <2>1. /\ SourceInv /\ RunInv /\ ReplyInv /\ RowsInv
        /\ steady[s] \in BOOLEAN /\ i \in Item /\ i.rev \in Nat
      BY <1>1, ItemTypes DEF IInv, RunInv
  <2>2. Receive(s) /\ ~GoesOn(s) /\ phase[s] = "answered"
      BY <1>1, <2>1, DoneBy DEF RunInv, Receive
  <2>3. Followed(s, i)
      BY <1>1 DEF IInv, MirrorInv
  <2>4. CASE Stored(i, table, steady[s])
      BY <2>1, <2>2, <2>4, StaysStored
  <2>5. ASSUME NEW new \in reply[s].items, new.id = i.id
        PROVE  Stored(i, table', steady[s] /\ ~overtaken[s])
    <3>1. Later(new, i) /\ new.rev \in Nat
        BY <2>1, <2>3, <2>5, ItemTypes DEF Followed, RunInv
    <3>2. Stored(new, table', TRUE) /\ table' \subseteq AnyRow
        BY <2>1, <2>2, Committed
    <3>3. \A r \in table' : r.rev \in Nat
        BY <3>2, ChangesAreBounded DEF AnyRow
    <3> QED BY <2>1, <3>1, <3>2, <3>3 DEF Stored, Later
  <2>6. ~ToCome(s, i)
      BY <2>2 DEF ToCome
  <2> QED BY <2>3, <2>4, <2>5, <2>6 DEF Followed
<1>2. IInv /\ [Next]_vars =>
        [\A s \in Syncs :
           pc[s] = "running" /\ pc'[s] = "done"
           => \A i \in first[s] :
                \/ feed = "balances" /\ i.date = 0
                \/ \E r \in table' : r.id = i.id /\ (steady[s] /\ ~overtaken[s] => r.rev >= i.rev)]_vars
    BY <1>1 DEF Stored
<1> QED BY <1>2, Invariance, PTL DEF Spec, CompleteRunsMirror
=============================================================================
