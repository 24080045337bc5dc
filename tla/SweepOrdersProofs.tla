-------------------------- MODULE SweepOrdersProofs --------------------------
(***************************************************************************)
(* Proofs about SweepOrders, for any orders, keys, handlers, any length of *)
(* the queue and any number of errors and faults.                          *)
(*                                                                         *)
(* A message is the only trace of the key an order was given: no column    *)
(* holds it.  That the rails see one key per order rests on two facts about*)
(* all traces, wherever they are: the row of the order exists, so that no  *)
(* second handler makes a message for it, and they agree on the key.       *)
(***************************************************************************)
EXTENDS SweepOrders, SequenceTheorems, TLAPS

Items == [msg : Messages, attempt : 0 .. FloatLimit]

InQueue(m) == \E i \in 1 .. Len(dlq) : dlq[i].msg = m

\* Where a message can be.
Trace(m) ==
    \/ m \in accepted
    \/ m \in orphans
    \/ InQueue(m)
    \/ \E h \in Handlers : work[h] = m

TracesAgree ==
    /\ \A m \in Messages : Trace(m) => Known(m[1])
    /\ \A m1, m2 \in Messages : Trace(m1) /\ Trace(m2) /\ m1[1] = m2[1] => m1 = m2

HandlersAreTrue ==
    \A h \in Handlers :
        /\ wire[h] = "idle" <=> work[h] = NoItem
        /\ wire[h] = "ok" => work[h] \in accepted

\* The worker posts the message in front, which stays there until it answers.
WorkerIsTrue ==
    /\ worker \in {"sent", "ok", "err"} => dlq # <<>> /\ held = Head(dlq).msg
    /\ worker = "ok" => held \in accepted
    /\ worker # "dead" => \A i \in 1 .. Len(dlq) : dlq[i].attempt < FloatLimit

VerdictsAreEarned == \A o \in Orders : verdict[o] # "none" => Accepted(o)

IInv ==
    /\ TypeOK
    /\ TracesAgree
    /\ HandlersAreTrue
    /\ WorkerIsTrue
    /\ VerdictsAreEarned
    /\ StatusIsTrue
    /\ NoOrderForgotten

-----------------------------------------------------------------------------
(* What becomes of the traces.                                             *)

\* A step that makes no new trace and deletes no row keeps them in agreement.
LEMMA FewerTraces ==
    ASSUME TracesAgree,
           \A m \in Messages : Trace(m)' => Trace(m),
           \A o \in Orders : Known(o) => Known(o)'
    PROVE  TracesAgree'
<1>1. \A m \in Messages : m[1] \in Orders
    BY DEF Messages
<1> QED BY <1>1 DEF TracesAgree

\* Queues, item by item.
LEMMA PutBackQueue ==
    ASSUME TypeOK, NEW msg \in Messages, PutBack(msg)
    PROVE  /\ dlq' \in Seq(Items) /\ Len(dlq') = Len(dlq) + 1 /\ depth' \in Nat
           /\ \A i \in 1 .. Len(dlq) : dlq'[i] = dlq[i]
           /\ dlq'[Len(dlq) + 1] = [msg |-> msg, attempt |-> 0]
<1>1. dlq \in Seq(Items) /\ [msg |-> msg, attempt |-> 0] \in Items
    BY ConstantsAssumption DEF TypeOK, Items
<1> QED BY <1>1, AppendProperties DEF PutBack

LEMMA PoppedQueue ==
    ASSUME TypeOK, dlq # <<>>, dlq' = Tail(dlq)
    PROVE  /\ dlq' \in Seq(Items) /\ Len(dlq') = Len(dlq) - 1
           /\ \A i \in 1 .. Len(dlq') : dlq'[i] = dlq[i + 1]
<1>1. dlq \in Seq(Items)
    BY DEF TypeOK, Items
<1> QED BY <1>1, HeadTailProperties

LEMMA DelayedQueue ==
    ASSUME TypeOK, dlq # <<>>, dlq[1].attempt < FloatLimit,
           dlq' = [dlq EXCEPT ![1].attempt = @ + 1]
    PROVE  /\ dlq' \in Seq(Items) /\ Len(dlq') = Len(dlq)
           /\ \A i \in 1 .. Len(dlq) : dlq'[i].msg = dlq[i].msg
           /\ \A i \in 2 .. Len(dlq) : dlq'[i] = dlq[i]
           /\ dlq'[1].attempt = dlq[1].attempt + 1
<1> DEFINE item == [dlq[1] EXCEPT !.attempt = @ + 1]
<1>0. dlq \in Seq(Items)
    BY DEF TypeOK, Items
<1>1. 1 \in 1 .. Len(dlq) /\ dlq[1] \in Items
    BY <1>0
<1>2. /\ item \in Items /\ item.msg = dlq[1].msg /\ item.attempt = dlq[1].attempt + 1
    BY <1>1, ConstantsAssumption DEF Items
<1>3. dlq' = [dlq EXCEPT ![1] = item]
    OBVIOUS
<1> HIDE DEF item
<1> QED BY <1>0, <1>1, <1>2, <1>3, ExceptSeq

-----------------------------------------------------------------------------
(* One lemma per action, for the conjuncts it can disturb.                 *)

LEMMA InitInv == Init => IInv
<1> SUFFICES ASSUME Init PROVE IInv
    OBVIOUS
<1>1. TypeOK
  <2>1. dlq \in Seq([msg : Messages, attempt : 0 .. FloatLimit])
      BY DEF Init
  <2> QED BY <2>1, ConstantsAssumption DEF Init, TypeOK, Statuses
<1>2. Len(dlq) = 0 /\ ~\E o \in Orders : Known(o)
    BY DEF Init, Known
<1>3. \A m \in Messages : ~Trace(m)
    BY <1>2, ConstantsAssumption DEF Init, Trace, InQueue, Messages
<1> QED BY <1>1, <1>2, <1>3 DEF Init, IInv, TracesAgree, HandlersAreTrue, WorkerIsTrue,
               VerdictsAreEarned, StatusIsTrue, NoOrderForgotten

\* Facts the steps share: what a handler or the worker works on is a message.
LEMMA WorkIsMessage ==
    ASSUME IInv
    PROVE  /\ \A h \in Handlers : wire[h] # "idle" => work[h] \in Messages
           /\ \A h \in Handlers : wire[h] # "idle" => work[h][1] \in Orders
           /\ worker \in {"sent", "ok", "err"} => held \in Messages /\ InQueue(held)
<1>1. \A h \in Handlers : wire[h] # "idle" => work[h] \in Messages
    BY DEF IInv, TypeOK, HandlersAreTrue
<1>2. \A m \in Messages : m[1] \in Orders
    BY DEF Messages
<1>3. ASSUME worker \in {"sent", "ok", "err"} PROVE held \in Messages /\ InQueue(held)
  <2>1. dlq \in Seq(Items) /\ dlq # <<>> /\ held = Head(dlq).msg
      BY <1>3 DEF IInv, TypeOK, WorkerIsTrue, Items
  <2>2. 1 \in 1 .. Len(dlq) /\ dlq[1] \in Items /\ Head(dlq) = dlq[1]
      BY <2>1
  <2> QED BY <2>1, <2>2 DEF InQueue, Items
<1> QED BY <1>1, <1>2, <1>3

LEMMA BeginInv ==
    ASSUME IInv, NEW h \in Handlers, NEW o \in Orders, NEW k \in IdemKeys, Begin(h, o, k)
    PROVE  IInv'
<1> USE DEF IInv, Begin, SetStatus, queue, rails
<1> DEFINE new == <<o, k>>
<1>0. /\ new \in Messages /\ new[1] = o /\ new # NoItem
      /\ \A g \in Handlers : work'[g] = IF g = h THEN new ELSE work[g]
      /\ \A p \in Orders : status'[p] = IF p = o THEN "PENDING" ELSE status[p]
    BY ConstantsAssumption DEF TypeOK, Messages
<1>1. TypeOK'
    BY <1>0 DEF TypeOK, Statuses
<1>2. \A m \in Messages : Trace(m)' => Trace(m) \/ m = new
    BY <1>0 DEF Trace, InQueue
<1>3. \A m \in Messages : Trace(m) => m[1] # o
    BY DEF TracesAgree
<1> HIDE DEF new
<1>4. TracesAgree'
    BY <1>0, <1>2, <1>3 DEF TracesAgree, Known, Messages
<1>5. HandlersAreTrue' /\ WorkerIsTrue' /\ VerdictsAreEarned'
    BY <1>0 DEF HandlersAreTrue, WorkerIsTrue, VerdictsAreEarned, Accepted, TypeOK
<1>6. StatusIsTrue'
    BY <1>0 DEF StatusIsTrue, Accepted
<1>7. NoOrderForgotten'
    BY <1>0 DEF NoOrderForgotten, Accepted, Known, HandlersAreTrue
<1> QED BY <1>1, <1>4, <1>5, <1>6, <1>7

LEMMA BeginAuditRaisesInv ==
    ASSUME IInv, NEW o \in Orders, BeginAuditRaises(o) PROVE IInv'
<1> USE DEF IInv, BeginAuditRaises, SetStatus, Fault, queue, rails
<1>0. \A p \in Orders : status'[p] = IF p = o THEN "PENDING" ELSE status[p]
    BY DEF TypeOK
<1>1. TypeOK' /\ faults' > 0
    BY ConstantsAssumption DEF TypeOK, Statuses
<1>2. TracesAgree'
    BY <1>0, FewerTraces DEF Trace, InQueue, Known
<1>3. HandlersAreTrue' /\ WorkerIsTrue' /\ VerdictsAreEarned'
    BY DEF HandlersAreTrue, WorkerIsTrue, VerdictsAreEarned, Accepted
<1>4. StatusIsTrue'
    BY <1>0 DEF StatusIsTrue, Accepted
<1> QED BY <1>1, <1>2, <1>3, <1>4 DEF NoOrderForgotten

LEMMA BeginDisabledInv ==
    ASSUME IInv, NEW o \in Orders, BeginDisabled(o) PROVE IInv'
<1> USE DEF IInv, BeginDisabled, SetStatus, queue, rails
<1>0. \A p \in Orders : status'[p] = IF p = o THEN "SENT" ELSE status[p]
    BY DEF TypeOK
<1>1. TypeOK'
    BY DEF TypeOK, Statuses
<1>2. TracesAgree'
    BY <1>0, FewerTraces DEF Trace, InQueue, Known
<1>3. HandlersAreTrue' /\ WorkerIsTrue' /\ VerdictsAreEarned'
    BY DEF HandlersAreTrue, WorkerIsTrue, VerdictsAreEarned, Accepted
<1>4. StatusIsTrue'
    BY <1>0 DEF StatusIsTrue, Accepted
<1>5. NoOrderForgotten'
    BY <1>0 DEF NoOrderForgotten, Accepted, Known
<1> QED BY <1>1, <1>2, <1>3, <1>4, <1>5

LEMMA MarkSentInv ==
    ASSUME IInv, NEW h \in Handlers, MarkSent(h) PROVE IInv'
<1> USE DEF IInv, MarkSent, SetStatus, Release, queue, rails
<1> DEFINE o == work[h][1]
<1>0. /\ work[h] \in accepted /\ work[h] \in Messages /\ o \in Orders /\ Accepted(o)
      /\ \A p \in Orders : status'[p] = IF p = o THEN "SENT" ELSE status[p]
      /\ \A g \in Handlers : work'[g] = IF g = h THEN NoItem ELSE work[g]
      /\ \A g \in Handlers : wire'[g] = IF g = h THEN "idle" ELSE wire[g]
  <2>1. work[h] \in accepted /\ work[h] \in Messages /\ o \in Orders
      BY WorkIsMessage DEF HandlersAreTrue
  <2>2. Accepted(o)
      BY <2>1 DEF Accepted, Messages
  <2> QED BY <2>1, <2>2 DEF TypeOK
<1> HIDE DEF o
<1>1. TypeOK'
    BY <1>0 DEF TypeOK, Statuses, o
<1>2. TracesAgree'
  <2>1. \A m \in Messages : Trace(m)' => Trace(m)
      BY <1>0, ConstantsAssumption DEF Trace, InQueue, Messages
  <2>2. \A p \in Orders : Known(p) => Known(p)'
      BY <1>0 DEF Known
  <2> QED BY <2>1, <2>2, FewerTraces
<1>3. HandlersAreTrue' /\ WorkerIsTrue' /\ VerdictsAreEarned'
    BY <1>0 DEF HandlersAreTrue, WorkerIsTrue, VerdictsAreEarned, Accepted
<1>4. StatusIsTrue'
    BY <1>0 DEF StatusIsTrue, Accepted
<1>5. NoOrderForgotten'
  <2> SUFFICES ASSUME faults = 0, NEW p \in Orders, Known(p)', ~Accepted(p), p \notin dry
               PROVE  \/ \E g \in Handlers : work'[g] # NoItem /\ work'[g][1] = p
                      \/ \E i \in 1 .. Len(dlq) : dlq[i].msg[1] = p
      BY DEF NoOrderForgotten, Accepted
  <2>1. p # o /\ Known(p)
      BY <1>0 DEF Known
  <2> QED BY <1>0, <2>1 DEF NoOrderForgotten, o
<1> QED BY <1>1, <1>2, <1>3, <1>4, <1>5

\* A message moves from its handler to the end of the queue.
LEMMA QueuedInv ==
    ASSUME IInv, NEW h \in Handlers, wire[h] # "idle", PutBack(work[h]), Release(h),
           NEW s \in {status[work[h][1]], "QUEUED"}, SetStatus(work[h][1], s),
           faults' \in faults .. MaxFaults, UNCHANGED <<worker, held, dry, rails>>
    PROVE  IInv'
<1> USE DEF IInv, SetStatus, Release, rails
<1> DEFINE o == work[h][1]
           n == Len(dlq)
<1>0. work[h] \in Messages /\ o \in Orders /\ Known(o) /\ n \in Nat
  <2>1. work[h] \in Messages /\ o \in Orders /\ n \in Nat
      BY WorkIsMessage DEF TypeOK
  <2> QED BY <2>1 DEF TracesAgree, Trace
<1>q. /\ dlq' \in Seq(Items) /\ Len(dlq') = n + 1 /\ depth' \in Nat
      /\ \A i \in 1 .. n : dlq'[i] = dlq[i]
      /\ dlq'[n + 1].msg = work[h] /\ dlq'[n + 1].attempt = 0
  <2>1. TypeOK /\ work[h] \in Messages /\ PutBack(work[h])
      BY <1>0
  <2> HIDE DEF IInv, Release, SetStatus
  <2>2. /\ dlq' \in Seq(Items) /\ Len(dlq') = Len(dlq) + 1 /\ depth' \in Nat
        /\ \A i \in 1 .. Len(dlq) : dlq'[i] = dlq[i]
        /\ dlq'[Len(dlq) + 1] = [msg |-> work[h], attempt |-> 0]
      BY <2>1, PutBackQueue
  <2> QED BY <2>2
<1>a. /\ \A p \in Orders : status'[p] = IF p = o THEN s ELSE status[p]
      /\ \A g \in Handlers : work'[g] = IF g = h THEN NoItem ELSE work[g]
      /\ \A g \in Handlers : wire'[g] = IF g = h THEN "idle" ELSE wire[g]
      /\ s \in Statuses /\ s # "NONE"
    BY <1>0 DEF TypeOK, Statuses, Known
<1>1. TypeOK'
  <2>1. status' \in [Orders -> Statuses] /\ work' \in [Handlers -> Messages \cup {NoItem}]
        /\ wire' \in [Handlers -> {"idle", "sent", "ok", "err"}]
      BY <1>0, <1>a DEF TypeOK
  <2> QED BY <2>1, <1>q DEF TypeOK, Items
<1> HIDE DEF o, n
<1>2. TracesAgree'
  <2>1. ASSUME NEW m \in Messages, InQueue(m)' PROVE InQueue(m) \/ m = work[h]
      BY <1>0, <1>q, <2>1 DEF InQueue, n
  <2>2. \A m \in Messages : Trace(m)' => Trace(m)
      BY <1>a, <2>1, ConstantsAssumption DEF Trace, Messages
  <2>3. \A p \in Orders : Known(p) => Known(p)'
      BY <1>a DEF Known
  <2> QED BY <2>2, <2>3, FewerTraces
<1>3. HandlersAreTrue' /\ VerdictsAreEarned'
    BY <1>a DEF HandlersAreTrue, VerdictsAreEarned, Accepted
<1>4. WorkerIsTrue'
  <2>1. dlq # <<>> => dlq' # <<>> /\ Head(dlq') = Head(dlq)
      BY <1>0, <1>q DEF TypeOK, n
  <2>2. worker # "dead" => \A i \in 1 .. Len(dlq') : dlq'[i].attempt < FloatLimit
      BY <1>0, <1>q, ConstantsAssumption DEF WorkerIsTrue, n
  <2> QED BY <2>1, <2>2 DEF WorkerIsTrue
<1>5. StatusIsTrue'
    BY <1>a, <1>0 DEF StatusIsTrue, Accepted, o
<1>6. NoOrderForgotten'
  <2> SUFFICES ASSUME faults' = 0, NEW p \in Orders, Known(p)', ~Accepted(p), p \notin dry
               PROVE  \/ \E g \in Handlers : work'[g] # NoItem /\ work'[g][1] = p
                      \/ \E i \in 1 .. Len(dlq') : dlq'[i].msg[1] = p
      BY DEF NoOrderForgotten, Accepted
  <2>1. CASE p = o
      BY <1>0, <1>q, <2>1 DEF o
  <2>2. CASE p # o
    <3>1. faults = 0 /\ Known(p)
        BY <1>a, <2>2 DEF Known, TypeOK
    <3>2. CASE \E g \in Handlers : work[g] # NoItem /\ work[g][1] = p
        BY <1>a, <2>2, <3>2 DEF o
    <3>3. CASE \E i \in 1 .. Len(dlq) : dlq[i].msg[1] = p
        BY <1>0, <1>q, <3>3 DEF n
    <3> QED BY <3>1, <3>2, <3>3 DEF NoOrderForgotten
  <2> QED BY <2>1, <2>2
<1> QED BY <1>1, <1>2, <1>3, <1>4, <1>5, <1>6

LEMMA EnqueueInv ==
    ASSUME IInv, NEW h \in Handlers, Enqueue(h) \/ EnqueueRaises(h) PROVE IInv'
<1>1. CASE Enqueue(h)
  <2>1. faults' \in faults .. MaxFaults /\ wire[h] # "idle"
      BY <1>1 DEF Enqueue, IInv, TypeOK
  <2>2. "QUEUED" \in {status[work[h][1]], "QUEUED"}
      OBVIOUS
  <2>3. /\ PutBack(work[h]) /\ Release(h) /\ SetStatus(work[h][1], "QUEUED")
        /\ UNCHANGED <<worker, held, dry, rails>>
      BY <1>1 DEF Enqueue
  <2> QED BY <2>1, <2>2, <2>3, QueuedInv
<1>2. CASE EnqueueRaises(h)
  <2>1. SetStatus(work[h][1], status[work[h][1]])
      BY <1>2 DEF EnqueueRaises, SetStatus, IInv, TypeOK
  <2>2. faults' \in faults .. MaxFaults
      BY <1>2, ConstantsAssumption DEF EnqueueRaises, Fault, IInv, TypeOK
  <2> QED BY <1>2, <2>1, <2>2, QueuedInv DEF EnqueueRaises
<1> QED BY <1>1, <1>2

LEMMA PeekInv == ASSUME IInv, Peek PROVE IInv'
<1> USE DEF IInv, Peek, rails
<1>0. dlq \in Seq(Items) /\ Head(dlq) \in Items /\ Len(dlq) \in Nat
  <2>1. dlq \in Seq(Items) /\ dlq # <<>>
      BY DEF TypeOK, Items
  <2> QED BY <2>1, HeadTailProperties
<1>1. TypeOK'
    BY <1>0 DEF TypeOK, Items
<1>2. TracesAgree'
    BY FewerTraces DEF Trace, InQueue, Known
<1>3. HandlersAreTrue' /\ WorkerIsTrue' /\ VerdictsAreEarned'
    BY DEF HandlersAreTrue, WorkerIsTrue, VerdictsAreEarned, Accepted
<1>4. StatusIsTrue' /\ NoOrderForgotten'
    BY DEF StatusIsTrue, NoOrderForgotten, Accepted, Known
<1> QED BY <1>1, <1>2, <1>3, <1>4

LEMMA PopLeftInv == ASSUME IInv, PopLeft PROVE IInv'
<1> USE DEF IInv, PopLeft, rails
<1>0. /\ dlq # <<>> /\ dlq[1].msg \in accepted /\ dlq[1].msg \in Messages
      /\ dlq' \in Seq(Items) /\ Len(dlq') = Len(dlq) - 1 /\ Len(dlq) \in Nat
      /\ \A i \in 1 .. Len(dlq') : dlq'[i] = dlq[i + 1]
  <2>1. dlq # <<>> /\ held = Head(dlq).msg /\ held \in accepted /\ held \in Messages
      BY WorkIsMessage DEF WorkerIsTrue
  <2> QED BY <2>1, PoppedQueue DEF TypeOK
<1>1. TypeOK'
    BY <1>0 DEF TypeOK, Items
<1>2. TracesAgree'
  <2>1. ASSUME NEW m \in Messages, InQueue(m)' PROVE InQueue(m)
      BY <1>0, <2>1 DEF InQueue
  <2> QED BY <2>1, FewerTraces DEF Trace, Known
<1>3. HandlersAreTrue' /\ VerdictsAreEarned'
    BY DEF HandlersAreTrue, VerdictsAreEarned, Accepted
<1>4. WorkerIsTrue'
    BY <1>0 DEF WorkerIsTrue
<1>5. StatusIsTrue'
    BY DEF StatusIsTrue, Accepted
<1>6. NoOrderForgotten'
  <2> SUFFICES ASSUME faults = 0, NEW p \in Orders, Known(p), ~Accepted(p), p \notin dry,
                      NEW i \in 1 .. Len(dlq), dlq[i].msg[1] = p
               PROVE  \E j \in 1 .. Len(dlq') : dlq'[j].msg[1] = p
      BY DEF NoOrderForgotten, Accepted, Known
  <2>1. \A m \in Messages : m \in accepted => Accepted(m[1])
      BY DEF Accepted, Messages
  <2>2. i # 1
      BY <1>0, <2>1
  <2>3. i - 1 \in 1 .. Len(dlq') /\ dlq'[i - 1] = dlq[i]
      BY <1>0, <2>2
  <2> QED BY <2>3
<1> QED BY <1>1, <1>2, <1>3, <1>4, <1>5, <1>6

LEMMA BackoffInv == ASSUME IInv, Backoff PROVE IInv'
<1> USE DEF IInv, Backoff, rails
<1>0. /\ dlq # <<>> /\ Len(dlq) \in Nat /\ dlq' \in Seq(Items) /\ Len(dlq') = Len(dlq)
      /\ \A i \in 1 .. Len(dlq) : dlq'[i].msg = dlq[i].msg
      /\ \A i \in 2 .. Len(dlq) : dlq'[i] = dlq[i]
      /\ Head(dlq') = dlq'[1]
  <2>1. dlq # <<>> /\ dlq \in Seq(Items) /\ \A i \in 1 .. Len(dlq) : dlq[i].attempt < FloatLimit
      BY DEF WorkerIsTrue, TypeOK, Items
  <2>2. dlq[1].attempt < FloatLimit
      BY <2>1
  <2> QED BY <2>1, <2>2, DelayedQueue
<1>1. TypeOK'
    BY <1>0 DEF TypeOK, Items
<1>2. TracesAgree'
  <2>1. ASSUME NEW m \in Messages, InQueue(m)' PROVE InQueue(m)
      BY <1>0, <2>1 DEF InQueue
  <2> QED BY <2>1, FewerTraces DEF Trace, Known
<1>3. HandlersAreTrue' /\ VerdictsAreEarned'
    BY DEF HandlersAreTrue, VerdictsAreEarned, Accepted
<1>4. WorkerIsTrue'
  <2>1. ASSUME worker' # "dead", NEW i \in 1 .. Len(dlq') PROVE dlq'[i].attempt < FloatLimit
    <3>1. CASE i = 1
      <4>1. ~BackoffOverflows(dlq'[1].attempt)
          BY <1>0, <2>1
      <4>2. dlq'[1] \in Items
          BY <1>0, <2>1, <3>1
      <4> QED BY <4>2, <3>1, <4>1, ConstantsAssumption DEF Items, BackoffOverflows
    <3>2. CASE i # 1
        BY <1>0, <3>2 DEF WorkerIsTrue
    <3> QED BY <3>1, <3>2
  <2> QED BY <2>1 DEF WorkerIsTrue
<1>5. StatusIsTrue'
    BY DEF StatusIsTrue, Accepted
<1>6. NoOrderForgotten'
    BY <1>0 DEF NoOrderForgotten, Accepted, Known
<1> QED BY <1>1, <1>2, <1>3, <1>4, <1>5, <1>6

LEMMA CrashInv == ASSUME IInv, Crash PROVE IInv'
<1> USE DEF IInv, Crash, Fault
<1> DEFINE lost == {work[h] : h \in {g \in Handlers : wire[g] = "sent"}}
                   \cup (IF worker = "sent" THEN {held} ELSE {})
<1>0. \A m \in lost : m \in Messages /\ Trace(m)
    BY WorkIsMessage DEF Trace
<1>1. TypeOK' /\ faults' > 0
  <2>1. dlq' \in Seq([msg : Messages, attempt : 0 .. FloatLimit])
      OBVIOUS
  <2>2. orphans' \subseteq Messages
      BY <1>0 DEF TypeOK
  <2> QED BY <2>1, <2>2, ConstantsAssumption DEF TypeOK
<1>2. TracesAgree'
  <2>1. Len(dlq') = 0 /\ \A h \in Handlers : work'[h] = NoItem
      OBVIOUS
  <2>2. \A m \in Messages : Trace(m)' => Trace(m)
      BY <1>0, <2>1, ConstantsAssumption DEF Trace, InQueue, Messages
  <2> QED BY <2>2, FewerTraces DEF Known
<1>3. HandlersAreTrue' /\ WorkerIsTrue' /\ VerdictsAreEarned'
  <2>1. Len(dlq') = 0
      OBVIOUS
  <2> QED BY <2>1 DEF HandlersAreTrue, WorkerIsTrue, VerdictsAreEarned, Accepted
<1>4. StatusIsTrue'
    BY DEF StatusIsTrue, Accepted
<1> QED BY <1>1, <1>2, <1>3, <1>4 DEF NoOrderForgotten

\* Adding to what the rails have taken in a message that is under way.
LEMMA TakenInv ==
    ASSUME IInv, NEW msg \in Messages, Trace(msg),
           accepted' \in {accepted, accepted \cup {msg}}, orphans' \subseteq orphans,
           UNCHANGED <<status, work, dlq, dry, faults, verdict>>
    PROVE  /\ TracesAgree' /\ VerdictsAreEarned' /\ StatusIsTrue' /\ NoOrderForgotten'
           /\ accepted \subseteq accepted' /\ accepted' \subseteq Messages
<1> USE DEF IInv
<1>1. accepted \subseteq accepted' /\ accepted' \subseteq Messages
    BY DEF TypeOK
<1>2. TracesAgree'
    BY FewerTraces DEF Trace, InQueue, Known
<1>3. VerdictsAreEarned' /\ StatusIsTrue'
    BY <1>1 DEF VerdictsAreEarned, StatusIsTrue, Accepted
<1>4. NoOrderForgotten'
    BY <1>1 DEF NoOrderForgotten, Accepted, Known
<1> QED BY <1>1, <1>2, <1>3, <1>4

LEMMA AnswerHandlerInv ==
    ASSUME IInv, NEW h \in Handlers, RailsAnswerHandler(h) PROVE IInv'
<1> USE DEF IInv, RailsAnswerHandler, Answer, Answers, queue
<1>0. PICK answer \in Answers : Answer(work[h], answer) /\ wire' = [wire EXCEPT ![h] = answer]
    OBVIOUS
<1>1. work[h] \in Messages /\ Trace(work[h])
    BY WorkIsMessage DEF Trace
<1>2. /\ TracesAgree' /\ VerdictsAreEarned' /\ StatusIsTrue' /\ NoOrderForgotten'
      /\ accepted \subseteq accepted' /\ accepted' \subseteq Messages
    BY <1>0, <1>1, TakenInv
<1>3. errors' \in 0 .. MaxErrors /\ wire' \in [Handlers -> {"idle", "sent", "ok", "err"}]
    BY <1>0, ConstantsAssumption DEF TypeOK
<1>4. TypeOK'
    BY <1>0, <1>2, <1>3 DEF TypeOK
<1>5. WorkerIsTrue'
    BY <1>2 DEF WorkerIsTrue
<1>6. HandlersAreTrue'
    BY <1>0, <1>2 DEF HandlersAreTrue, TypeOK
<1> QED BY <1>2, <1>4, <1>5, <1>6

LEMMA AnswerWorkerInv == ASSUME IInv, RailsAnswerWorker PROVE IInv'
<1> USE DEF IInv, RailsAnswerWorker, Answer, Answers
<1>0. PICK answer \in Answers : Answer(held, answer) /\ worker' = answer
    OBVIOUS
<1>1. held \in Messages /\ Trace(held)
    BY WorkIsMessage DEF Trace
<1>2. /\ TracesAgree' /\ VerdictsAreEarned' /\ StatusIsTrue' /\ NoOrderForgotten'
      /\ accepted \subseteq accepted' /\ accepted' \subseteq Messages
    BY <1>0, <1>1, TakenInv
<1>3. errors' \in 0 .. MaxErrors
    BY <1>0, ConstantsAssumption DEF TypeOK
<1>4. TypeOK'
    BY <1>0, <1>2, <1>3 DEF TypeOK
<1>5. WorkerIsTrue' /\ HandlersAreTrue'
    BY <1>0, <1>2 DEF WorkerIsTrue, HandlersAreTrue
<1> QED BY <1>2, <1>4, <1>5

LEMMA OrphanInv ==
    ASSUME IInv, NEW msg \in Messages, OrphanArrives(msg) PROVE IInv'
<1> USE DEF IInv, OrphanArrives, queue
<1>1. Trace(msg) /\ accepted' \in {accepted, accepted \cup {msg}} /\ orphans' \subseteq orphans
    BY DEF Trace
<1>2. /\ TracesAgree' /\ VerdictsAreEarned' /\ StatusIsTrue' /\ NoOrderForgotten'
      /\ accepted \subseteq accepted' /\ accepted' \subseteq Messages
    BY <1>1, TakenInv
<1>3. TypeOK'
    BY <1>1, <1>2 DEF TypeOK
<1>4. WorkerIsTrue' /\ HandlersAreTrue'
    BY <1>2 DEF WorkerIsTrue, HandlersAreTrue
<1> QED BY <1>2, <1>3, <1>4

LEMMA BankInv == ASSUME IInv, NEW o \in Orders, BankDecides(o) PROVE IInv'
<1> USE DEF IInv, BankDecides, queue
<1>0. PICK code \in Final : verdict' = [verdict EXCEPT ![o] = code]
    OBVIOUS
<1>1. \A p \in Orders : verdict'[p] = IF p = o THEN code ELSE verdict[p]
    BY <1>0 DEF TypeOK
<1>2. TypeOK'
    BY <1>0 DEF TypeOK
<1>3. TracesAgree'
    BY FewerTraces DEF Trace, InQueue, Known
<1>4. WorkerIsTrue' /\ HandlersAreTrue'
    BY DEF WorkerIsTrue, HandlersAreTrue
<1>5. VerdictsAreEarned' /\ StatusIsTrue'
    BY <1>1 DEF VerdictsAreEarned, StatusIsTrue, Accepted
<1>6. NoOrderForgotten'
    BY DEF NoOrderForgotten, Accepted, Known
<1> QED BY <1>2, <1>3, <1>4, <1>5, <1>6

LEMMA ReportInv ==
    ASSUME IInv, NEW o \in Orders, NEW code \in {"ACCP", "ACTC"} \cup Final, Report(o, code)
    PROVE  IInv'
<1> USE DEF IInv, Report, SetStatus, queue, rails
<1>0. /\ StatusOf(code) \in {"SETTLED", "REJECTED", "UNKNOWN"}
      /\ StatusOf(code) = "SETTLED" => verdict[o] = "ACSC"
      /\ StatusOf(code) = "REJECTED" => verdict[o] = "RJCT"
    BY DEF StatusOf, Parse, Final
<1>1. \A p \in Orders : status'[p] = IF p = o THEN StatusOf(code) ELSE status[p]
    BY DEF TypeOK
<1>2. TypeOK'
    BY <1>0 DEF TypeOK, Statuses
<1>3. \A p \in Orders : Known(p)' <=> Known(p)
    BY <1>0, <1>1 DEF Known
<1>4. TracesAgree'
    BY <1>3, FewerTraces DEF Trace, InQueue
<1>5. WorkerIsTrue' /\ HandlersAreTrue' /\ VerdictsAreEarned'
    BY DEF WorkerIsTrue, HandlersAreTrue, VerdictsAreEarned, Accepted
<1>6. StatusIsTrue'
    BY <1>0, <1>1 DEF StatusIsTrue, Accepted
<1>7. NoOrderForgotten'
    BY <1>3 DEF NoOrderForgotten, Accepted
<1> QED BY <1>2, <1>4, <1>5, <1>6, <1>7

-----------------------------------------------------------------------------
LEMMA NextInv == ASSUME IInv, [Next]_vars PROVE IInv'
<1>1. CASE UNCHANGED vars
  <2> USE <1>1 DEF vars, queue, rails, IInv
  <2>1. TypeOK'
      BY DEF TypeOK
  <2>2. TracesAgree'
      BY FewerTraces DEF Trace, InQueue, Known
  <2>3. HandlersAreTrue' /\ WorkerIsTrue' /\ VerdictsAreEarned' /\ StatusIsTrue'
      BY DEF HandlersAreTrue, WorkerIsTrue, VerdictsAreEarned, StatusIsTrue, Accepted
  <2>4. NoOrderForgotten'
      BY DEF NoOrderForgotten, Accepted, Known
  <2> QED BY <2>1, <2>2, <2>3, <2>4
<1>2. CASE \E h \in Handlers, o \in Orders, k \in IdemKeys : Begin(h, o, k)
    BY <1>2, BeginInv
<1>3. CASE \E o \in Orders : BeginAuditRaises(o) \/ BeginDisabled(o) \/ BankDecides(o)
    BY <1>3, BeginAuditRaisesInv, BeginDisabledInv, BankInv
<1>4. CASE \E h \in Handlers : Resume(h) \/ EnqueueRaises(h) \/ RailsAnswerHandler(h)
    BY <1>4, MarkSentInv, EnqueueInv, AnswerHandlerInv DEF Resume
<1>5. CASE WorkerStep \/ RailsAnswerWorker \/ Crash
    BY <1>5, PeekInv, PopLeftInv, BackoffInv, AnswerWorkerInv, CrashInv DEF WorkerStep
<1>6. CASE \E msg \in Messages : OrphanArrives(msg)
    BY <1>6, OrphanInv
<1>7. CASE \E o \in Orders, code \in {"ACCP", "ACTC"} \cup Final : Report(o, code)
    BY <1>7, ReportInv
<1> QED BY <1>1, <1>2, <1>3, <1>4, <1>5, <1>6, <1>7 DEF Next

\* IInv holds in every state the connector reaches.
THEOREM Invariance == Spec => []IInv
<1> QED BY InitInv, NextInv, PTL DEF Spec

-----------------------------------------------------------------------------
(* The properties.                                                         *)

\* The types of the rows, the queue and the handlers: an attempt never exceeds
\* FloatLimit, because the worker is dead then.
THEOREM TypeCorrect == Spec => []TypeOK
<1>1. IInv => TypeOK
    BY DEF IInv
<1> QED BY <1>1, Invariance, PTL

\* The rails, and the posts a dead process left behind, have one key per order
\* (create_sweep_order, _dlq_worker).
THEOREM KeysAreUnique == Spec => []OneKeyPerOrder
<1>1. IInv => OneKeyPerOrder
    BY DEF IInv, OneKeyPerOrder, TracesAgree, Trace, TypeOK
<1> QED BY <1>1, Invariance, PTL

\* SENT, SETTLED and REJECTED are true of the rails and the bank, whatever the
\* order in which handlers, worker and reports write the row.
THEOREM StatusesAreTrue == Spec => []StatusIsTrue
<1>1. IInv => StatusIsTrue
    BY DEF IInv
<1> QED BY <1>1, Invariance, PTL

\* Without a fault every stored order is at the rails, with a handler or queued.
THEOREM NothingIsForgotten == Spec => []NoOrderForgotten
<1>1. IInv => NoOrderForgotten
    BY DEF IInv
<1> QED BY <1>1, Invariance, PTL

\* What a step without a fault does to the queue: it stays, grows at the end, loses
\* a front the rails have, or counts an attempt of the front.
LEMMA QueueSteps ==
    ASSUME IInv, Next, faults' = faults
    PROVE  \/ UNCHANGED dlq
           \/ \E h \in Handlers : wire[h] # "idle" /\ PutBack(work[h])
           \/ PopLeft
           \/ Backoff
<1>1. ~Fault("db") /\ ~Fault("crash")
    BY DEF Fault, IInv, TypeOK
<1> QED BY <1>1
       DEF Next, Crash, Resume, WorkerStep, Begin, BeginAuditRaises, BeginDisabled, BankDecides,
           MarkSent, Enqueue, EnqueueRaises, RailsAnswerHandler, RailsAnswerWorker, Peek,
           OrphanArrives, Report, queue

\* Only what the rails took in leaves the queue: the pop after the await takes
\* the item that was posted, although handlers appended meanwhile.
THEOREM OnlyAcceptedLeave == Spec => OnlyAcceptedLeaves
<1>1. ASSUME IInv, Next, faults' = faults, NEW i \in 1 .. Len(dlq)
      PROVE  \/ dlq[i].msg \in accepted
             \/ \E j \in 1 .. Len(dlq') : dlq'[j].msg = dlq[i].msg
  <2> TypeOK /\ Len(dlq) \in Nat
      BY <1>1 DEF IInv, TypeOK
  <2>1. CASE UNCHANGED dlq
      BY <2>1
  <2>2. ASSUME NEW h \in Handlers, wire[h] # "idle", PutBack(work[h])
        PROVE  \E j \in 1 .. Len(dlq') : dlq'[j].msg = dlq[i].msg
    <3>1. Len(dlq') = Len(dlq) + 1 /\ \A j \in 1 .. Len(dlq) : dlq'[j] = dlq[j]
        BY <1>1, <2>2, WorkIsMessage, PutBackQueue
    <3> QED BY <3>1
  <2>3. CASE PopLeft
    <3>1. dlq # <<>> /\ Head(dlq).msg \in accepted /\ dlq' = Tail(dlq)
        BY <1>1, <2>3 DEF IInv, WorkerIsTrue, PopLeft
    <3>2. Len(dlq') = Len(dlq) - 1 /\ \A j \in 1 .. Len(dlq') : dlq'[j] = dlq[j + 1]
        BY <3>1, PoppedQueue
    <3>3. CASE i = 1
        BY <3>1, <3>3
    <3>4. CASE i # 1
      <4>1. i - 1 \in 1 .. Len(dlq') /\ dlq'[i - 1] = dlq[i]
          BY <3>2, <3>4
      <4> QED BY <4>1
    <3> QED BY <3>3, <3>4
  <2>4. CASE Backoff
    <3>1. dlq # <<>> /\ dlq[1].attempt < FloatLimit
      <4>1. dlq # <<>> /\ dlq \in Seq(Items) /\ \A j \in 1 .. Len(dlq) : dlq[j].attempt < FloatLimit
          BY <1>1, <2>4 DEF IInv, WorkerIsTrue, Backoff, TypeOK, Items
      <4> QED BY <4>1
    <3>2. Len(dlq') = Len(dlq) /\ \A j \in 1 .. Len(dlq) : dlq'[j].msg = dlq[j].msg
        BY <2>4, <3>1, DelayedQueue DEF Backoff
    <3> QED BY <3>2
  <2> QED BY <1>1, <2>1, <2>2, <2>3, <2>4, QueueSteps
<1>2. IInv /\ [Next]_vars
        => [faults' = faults =>
              \A i \in 1 .. Len(dlq) :
                  \/ dlq[i].msg \in accepted
                  \/ \E j \in 1 .. Len(dlq') : dlq'[j].msg = dlq[i].msg]_vars
    BY <1>1
<1> QED BY <1>2, Invariance, PTL DEF Spec, OnlyAcceptedLeaves
=============================================================================
