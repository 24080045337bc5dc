------------------------------- MODULE Syncers -------------------------------
(***************************************************************************)
(* The four Finastra syncers (asset_aggregator/syncers/*.py, the clients   *)
(* integrations/finastra/*_client.py): a run fetches one page after the    *)
(* other through FinastraHttp and commits each as it comes, in one step of *)
(* the event loop; runs triggered by overlapping POST /sync/... requests   *)
(* interleave at every request.                                            *)
(*                                                                         *)
(* All behaviours concern one feed, chosen at the start.  An item is its   *)
(* id, its revision and its date: updatedDate of accounts and collateral,  *)
(* asOfDate of balances, bookingDate of transactions; 0 when it has none   *)
(* that can be parsed.  Revisions are numbered as they are made, whatever  *)
(* the item.  A page holds one item.                                       *)
(***************************************************************************)
EXTENDS FinastraHttp, Sequences, FiniteSets, SequencesExt

CONSTANTS
  Syncs,       \* runs of run_once, each with a client of its own
  Items,       \* ids at the provider
  Setups,      \* feeds, flows, kinds of dates and listed items to start from
  MaxChanges   \* bound: changes at the provider

ASSUME EachRunHasAClient == Clients = Syncs
ASSUME ItemsAreFinite == IsFiniteSet(Items) /\ Items # {}
ASSUME ChangesAreBounded == MaxChanges \in Nat

VARIABLES
  feed,      \* which syncer
  kind,      \* per id: its date is "dated", "undated" or "garbled"
  source,    \* the provider's items, in the order it lists them
  table,     \* the rows stored of them
  clock,     \* datetime.now(), counted where a row takes it
  pc,        \* per run: "idle", "running", "done" or "failed"
  asked,     \* the accounts a balances run asks for
  page,      \* the page it is at
  reply,     \* the answer on its way: the items and whether more pages follow
  first,     \* what the provider had when it began, until an item goes
  overtaken, \* another run has committed since its answer was served
  steady,    \* it runs, and no overtaken answer was committed since it began
  changes

sync == <<feed, kind, source, table, clock, pc, asked, page, reply, first,
          overtaken, steady, changes>>
vars == <<http, sync>>

Feeds == {"accounts", "collateral", "balances", "transactions"}
Kinds == {"dated", "undated", "garbled"}
ASSUME SetupsAreKnown ==
  Setups \subseteq [feed : Feeds, flow : Flows, kind : [Items -> Kinds], listed : SUBSET Items]

NoReply == [items |-> {}, more |-> FALSE]
Item == [id : Items, rev : 1 .. MaxChanges + 1, date : 0 .. MaxChanges + 1]

\* The item i at its n-th revision, under a new date.
Fresh(i, n) == [id |-> i, rev |-> n, date |-> IF kind[i] = "dated" THEN n ELSE 0]

Init ==
  /\ \E s \in Setups :
       /\ feed = s.feed /\ kind = s.kind /\ HttpInit(s.flow)
       /\ source = SetToSeq({Fresh(i, 1) : i \in s.listed})
  /\ table = {}
  /\ clock = 1
  /\ pc = [s \in Syncs |-> "idle"]
  /\ asked = [s \in Syncs |-> <<>>]
  /\ page = [s \in Syncs |-> 1]
  /\ reply = [s \in Syncs |-> NoReply]
  /\ first = [s \in Syncs |-> {}]
  /\ overtaken = [s \in Syncs |-> FALSE]
  /\ steady = [s \in Syncs |-> FALSE]
  /\ changes = 0

-----------------------------------------------------------------------------
(* The provider. *)

Changed == changes < MaxChanges /\ changes' = changes + 1

\* An item is revised, with a new date or under the one it has.
Revise(k) ==
  /\ Changed
  /\ \E d \in {source[k].date, Fresh(source[k].id, changes + 2).date} :
       source' = [source EXCEPT ![k] = [id |-> @.id, rev |-> changes + 2, date |-> d]]
  /\ UNCHANGED <<http, feed, kind, table, clock, pc, asked, page, reply, first, overtaken, steady>>

\* An item comes, first or last in the list: pages shift under a run.
Arrive ==
  /\ Changed
  /\ \E i \in Items \ {source[k].id : k \in DOMAIN source} :
       source' \in {<<Fresh(i, changes + 2)>> \o source, Append(source, Fresh(i, changes + 2))}
  /\ UNCHANGED <<http, feed, kind, table, clock, pc, asked, page, reply, first, overtaken, steady>>

\* An item goes, and another may slip onto a page that a run has passed.
Leave(k) ==
  /\ Changed
  /\ source' = RemoveAt(source, k)
  /\ first' = [s \in Syncs |-> {}]
  /\ UNCHANGED <<http, feed, kind, table, clock, pc, asked, page, reply, overtaken, steady>>

-----------------------------------------------------------------------------
(* The records.  A row has the fields of its item, and source_hash is the   *)
(* hash of all of them.  A page becomes rows in one commit or not at all.   *)

AccountKey(r)     == r.id
CollateralKey(r)  == r.id
BalanceKey(r)     == <<r.id, r.date>>
TransactionKey(r) == <<r.id, r.date>>

Key(r) == CASE feed = "accounts"   -> AccountKey(r)
            [] feed = "collateral" -> CollateralKey(r)
            [] feed = "balances"   -> BalanceKey(r)
            [] OTHER               -> TransactionKey(r)

\* Mutant: only a newer date replaces a row.
ShouldUpdateIfNewer(new, old) == new.date > old.date

\* Accounts and collateral: a newer date, or any difference.
ShouldUpdate(new, old) ==
  \/ new.date # 0 /\ old.date # 0 /\ new.date > old.date
  \/ new # old

AccountsTaken(rows, items) ==
  {i \in items : \A r \in rows : AccountKey(r) = AccountKey(i) => ShouldUpdate(i, r)}

CollateralTaken(rows, items) ==
  {i \in items : \A r \in rows : CollateralKey(r) = CollateralKey(i) => ShouldUpdate(i, r)}

\* A balance whose date is missing or garbled is left out.
BalancesTaken(items) == {i \in items : i.date # 0}

\* A transaction without a date is dated with now_utc, one for the whole page.
TransactionsTaken(items, now) ==
  {IF kind[i.id] = "undated" THEN [i EXCEPT !.date = now] ELSE i : i \in items}

Taken(rows, items, now) ==
  CASE feed = "accounts"   -> AccountsTaken(rows, items)
    [] feed = "collateral" -> CollateralTaken(rows, items)
    [] feed = "balances"   -> BalancesTaken(items)
    [] OTHER               -> TransactionsTaken(items, now)

\* An item that is taken replaces the row that its select finds.
Upsert(rows, taken) == {r \in rows : \A i \in taken : Key(r) # Key(i)} \cup taken

\* A garbled date raises where it is parsed.  The select of a transaction without
\* a date finds nothing (WHERE ... AND NULL); the INSERT violates the unique
\* constraint if the clock has stood still since the last sync of the item.
PageRaises(rows, taken) ==
  \/ feed \in {"accounts", "transactions"} /\ \E i \in taken : kind[i.id] = "garbled"
  \/ /\ feed = "transactions"
     /\ \E i \in taken, r \in rows : kind[i.id] = "undated" /\ Key(r) = Key(i)

-----------------------------------------------------------------------------
(* A run. *)

\* The accounts of a balances run: those of the request, or those stored, in any
\* case some that the provider may have or not; the other feeds do not ask by id.
AccountIds == IF feed = "balances" THEN {SetToSeq(ids) : ids \in SUBSET Items} ELSE {<<>>}

\* What the provider has of what the run asks for.
InScope(ids) ==
  IF feed = "balances" THEN {i \in ToSet(source) : i.id \in ToSet(ids)} ELSE ToSet(source)

Begin(s) ==
  /\ pc[s] = "idle"
  /\ \E ids \in AccountIds :
       /\ feed = "balances" => ids # <<>>
       /\ asked' = [asked EXCEPT ![s] = ids]
       /\ first' = [first EXCEPT ![s] = InScope(ids)]
  /\ pc' = [pc EXCEPT ![s] = "running"]
  /\ steady' = [steady EXCEPT ![s] = TRUE]
  /\ Call(s)
  /\ UNCHANGED <<feed, kind, source, table, clock, page, reply, overtaken, changes>>

\* No account is stored and none is named: the run is done without a request.
NothingToAsk(s) ==
  /\ pc[s] = "idle" /\ feed = "balances"
  /\ pc' = [pc EXCEPT ![s] = "done"]
  /\ UNCHANGED <<http, feed, kind, source, table, clock, asked, page, reply, first,
                 overtaken, steady, changes>>

\* The endpoints for accounts, balances and transactions build their client
\* without a base URL, which httpx refuses; the one for collateral has one.
RefusedByClient(s) ==
  /\ pc[s] = "idle" /\ feed # "collateral"
  /\ pc' = [pc EXCEPT ![s] = "failed"]
  /\ UNCHANGED <<http, feed, kind, source, table, clock, asked, page, reply, first,
                 overtaken, steady, changes>>

Listed(k) == {source[j] : j \in {k} \cap DOMAIN source}

\* Accounts and transactions: the k-th page, and whether pageCount is beyond it.
NumberedPage(k) == [items |-> Listed(k), more |-> k < Len(source)]

\* Collateral: the page of the token; a token for the next if there is one.
TokenPage(k) == [items |-> Listed(k), more |-> k < Len(source)]

\* Balances: one request per account.  An account that the provider does not
\* list has no balances; of one that is gone it answers 404 (Rejected).
AccountPage(ids, k) ==
  [items |-> {i \in ToSet(source) : i.id = ids[k]}, more |-> k < Len(ids)]

PageOf(s, k) == CASE feed = "balances"   -> AccountPage(asked[s], k)
                  [] feed = "collateral" -> TokenPage(k)
                  [] OTHER               -> NumberedPage(k)

\* Mutant: the client lists everything when the run begins, and yields it page by page.
ServeUpFront(s) ==
  /\ Answer(s)
  /\ LET p == PageOf(s, page[s]) IN
     reply' = [reply EXCEPT ![s] =
                 [p EXCEPT !.items = {i \in first[s] : \E j \in p.items : j.id = i.id}]]
  /\ overtaken' = [overtaken EXCEPT ![s] = FALSE]
  /\ UNCHANGED <<feed, kind, source, table, clock, pc, asked, page, first, steady, changes>>

\* The provider answers; the answer travels.
Serve(s) ==
  /\ Answer(s)
  /\ reply' = [reply EXCEPT ![s] = PageOf(s, page[s])]
  /\ overtaken' = [overtaken EXCEPT ![s] = FALSE]
  /\ UNCHANGED <<feed, kind, source, table, clock, pc, asked, page, first, steady, changes>>

\* The coroutine ends, and what it held is gone.
End(s, how) ==
  /\ pc' = [pc EXCEPT ![s] = how]
  /\ asked' = [asked EXCEPT ![s] = <<>>]
  /\ page' = [page EXCEPT ![s] = 1]
  /\ reply' = [reply EXCEPT ![s] = NoReply]
  /\ first' = [first EXCEPT ![s] = {}]
  /\ Drop(s)

\* Mutant: the loop of collateral does not recognise the last page.
GoesOnAlways(s) == reply[s].more \/ feed = "collateral"

\* Whether the loop goes on; the one of collateral also ends at an empty page.
GoesOn(s) == reply[s].more /\ (feed = "collateral" => reply[s].items # {})

\* datetime.now() may have moved on since a row last took it.
Stamp(s) ==
  IF feed = "transactions" /\ \E i \in reply[s].items : kind[i.id] = "undated"
  THEN {clock, clock + 1} ELSE {clock}

\* A commit overtakes the answers that are on their way to the other runs; one
\* that was itself overtaken may put old rows over newer ones.
Commit(s, rows) ==
  /\ table' = rows
  /\ overtaken' = [q \in Syncs |-> q # s /\ (overtaken[q] \/ phase[q] = "answered")]
  /\ steady' = [q \in Syncs |-> steady[q] /\ ~overtaken[s] /\ (q = s => GoesOn(s))]

\* The run fails; the pages before stay committed.
Fail(s) ==
  /\ End(s, "failed")
  /\ overtaken' = [overtaken EXCEPT ![s] = FALSE]
  /\ steady' = [steady EXCEPT ![s] = FALSE]
  /\ UNCHANGED table

\* The answer arrives: its rows are committed, then the next page is asked for
\* or the run ends.
Receive(s) ==
  /\ phase[s] = "answered"
  /\ \E now \in Stamp(s) :
       LET taken == Taken(table, reply[s].items, now) IN
       ~PageRaises(table, taken) /\ Commit(s, Upsert(table, taken)) /\ clock' = now
  /\ \/ /\ GoesOn(s)
        /\ page' = [page EXCEPT ![s] = @ + 1]
        /\ reply' = [reply EXCEPT ![s] = NoReply]
        /\ Call(s)
        /\ UNCHANGED <<pc, asked, first>>
     \/ ~GoesOn(s) /\ End(s, "done")
  /\ UNCHANGED <<feed, kind, source, changes>>

\* The page raises: nothing of it is committed, and the run ends.
ReceiveRaises(s) ==
  /\ phase[s] = "answered"
  /\ \E now \in Stamp(s) : PageRaises(table, Taken(table, reply[s].items, now)) /\ clock' = now
  /\ Fail(s)
  /\ UNCHANGED <<feed, kind, source, changes>>

\* Mutant: a raised call is sent again without end.
AskAgain(s) ==
  /\ pc[s] = "running" /\ phase[s] = "raised"
  /\ Call(s)
  /\ UNCHANGED sync

\* A raised call ends the run.
GiveUp(s) ==
  /\ pc[s] = "running" /\ phase[s] = "raised"
  /\ Fail(s)
  /\ UNCHANGED <<feed, kind, source, clock, changes>>

RequestStep(s) == Request(s) /\ UNCHANGED sync

ExpireStep(s) == pc[s] = "running" /\ Expire(s) /\ UNCHANGED sync

RunStep(s) == Serve(s) \/ Receive(s) \/ ReceiveRaises(s) \/ GiveUp(s) \/ RequestStep(s)

StartStep(s) == Begin(s) \/ NothingToAsk(s) \/ RefusedByClient(s)

Next ==
  \/ Arrive
  \/ \E k \in DOMAIN source : Revise(k)
  \/ \E k \in DOMAIN source : Leave(k)
  \/ \E s \in Syncs : StartStep(s) \/ RunStep(s) \/ ExpireStep(s)

Spec == Init /\ [][Next]_vars

\* The event loop does not rest while a run can go on: the sockets have timeouts.
\* Which run it resumes is open.
Fairness == WF_vars(\E s \in Syncs : RunStep(s))

FairSpec == Spec /\ Fairness

-----------------------------------------------------------------------------
(* Properties. *)

\* Every variable has its type; no run asks for more pages than there are ids.
TypeOK ==
  /\ HttpTypeOK
  /\ feed \in Feeds /\ kind \in [Items -> Kinds]
  /\ source \in Seq(Item) /\ changes \in 0 .. MaxChanges
  /\ table \subseteq [id : Items, rev : 1 .. MaxChanges + 1, date : Nat] /\ clock \in Nat
  /\ pc \in [Syncs -> {"idle", "running", "done", "failed"}]
  /\ asked \in [Syncs -> Seq(Items)]
  /\ page \in [Syncs -> 1 .. Cardinality(Items)]
  /\ reply \in [Syncs -> [items : SUBSET Item, more : BOOLEAN]]
  /\ first \in [Syncs -> SUBSET Item]
  /\ overtaken \in [Syncs -> BOOLEAN] /\ steady \in [Syncs -> BOOLEAN]

\* A run that ends well has stored every item the provider had, of those asked
\* for, when it began, whatever came or was revised, and in whatever order other
\* runs went on in the meantime, unless an item went; and it has stored it as
\* recent as it was then, unless an overtaken answer was committed (run_once of
\* the four syncers).  Balances without a readable date are left out.
CompleteRunsMirror ==
  [][\A s \in Syncs :
       pc[s] = "running" /\ pc'[s] = "done"
       => \A i \in first[s] :
            \/ feed = "balances" /\ i.date = 0
            \/ \E r \in table' : r.id = i.id /\ (steady[s] /\ ~overtaken[s] => r.rev >= i.rev)]_vars

\* A row goes back to an older revision only where another run committed while
\* the answer was on its way: pages are fetched one by one and committed before
\* the next, so that runs whose requests do not overlap never undo each other,
\* however they interleave otherwise (any difference of the hash is taken,
\* finastra_accounts.py:50, finastra_collateral.py:63).
OlderOnlyIfOvertaken ==
  [][\A s \in Syncs :
       phase[s] = "answered" /\ phase'[s] # "answered" /\ ~overtaken[s]
       => \A r \in table, q \in table' : Key(q) = Key(r) => q.rev >= r.rev]_vars

\* Every run comes to an end, so that again and again none is running: retries
\* are counted and pages run out (http.py:89-122, the loops of the clients).
EveryRunEnds == []<>(\A s \in Syncs : pc[s] # "running")
=============================================================================
