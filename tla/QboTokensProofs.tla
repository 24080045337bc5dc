--------------------------- MODULE QboTokensProofs ---------------------------
(***************************************************************************)
(* Proofs about QboTokens, for any threads and processes and any number of *)
(* rotations and faults.                                                   *)
(*                                                                         *)
(* There is no lock.  What keeps writers apart is the server: only the     *)
(* POST that carries its current refresh token is answered with a pair, so *)
(* the pair in a thread's memory is newer than anything another thread can *)
(* read or post until the file is written.                                 *)
(***************************************************************************)
EXTENDS QboTokens, TLAPS

\* Nobody is ahead of Intuit.
NobodyAhead ==
    /\ file # Torn => file <= current
    /\ \A t \in Threads : tok[t] <= current

\* While a thread holds new tokens they are the newest, the file does not have
\* them, and no other thread has or is posting them.
HolderIsAlone ==
    \A t \in Threads : Holds(t) =>
        /\ tok[t] = current
        /\ file # current
        /\ \A u \in Threads : u # t => ~Holds(u) /\ ~(pc[u] = "post" /\ tok[u] = current)

\* What is lost is nowhere.
LostIsNowhere ==
    current \in lost =>
        /\ file # current
        /\ \A t \in Threads : ~Holds(t) /\ ~(pc[t] = "post" /\ tok[t] = current)

IInv ==
    /\ TypeOK
    /\ NobodyAhead
    /\ HolderIsAlone
    /\ LostIsNowhere
    /\ TokenNotLost
    /\ TornOnlyInWrite

-----------------------------------------------------------------------------
(* One lemma per action.                                                   *)

LEMMA InitInv == Init => IInv
  BY ConstantsAssumption
     DEF Init, IInv, TypeOK, Places, NobodyAhead, HolderIsAlone, LostIsNowhere,
         TokenNotLost, TornOnlyInWrite, Holds

\* A thread that neither holds tokens nor gets any moves between the other places;
\* what it posts it has read from the file.
LEMMA MoveInv ==
    ASSUME IInv, NEW t \in Threads, NEW place \in Places \ {"hold", "write"},
           ~Holds(t), Goto(t, place),
           \/ (UNCHANGED tok /\ place # "post")
           \/ (file # Torn /\ tok' = [tok EXCEPT ![t] = file]),
           probes' \subseteq Threads,
           UNCHANGED <<file, current, lost, faults>>
    PROVE  IInv'
<1> USE DEF IInv
<1>1. /\ pc' \in [Threads -> Places] /\ tok' \in [Threads -> Nat]
      /\ \A u \in Threads : u # t => pc'[u] = pc[u] /\ tok'[u] = tok[u]
      /\ pc'[t] = place /\ ~Holds(t)'
      /\ tok'[t] = tok[t] \/ (file # Torn /\ tok'[t] = file)
      /\ place = "post" => file # Torn /\ tok'[t] = file
    BY DEF TypeOK, Goto, Holds
<1>2. \A u \in Threads : Holds(u)' <=> Holds(u)
    BY <1>1 DEF Holds
<1>3. TypeOK' /\ NobodyAhead'
    BY <1>1 DEF TypeOK, NobodyAhead
<1>4. HolderIsAlone'
    BY <1>1, <1>2 DEF HolderIsAlone
<1>5. LostIsNowhere'
    BY <1>1, <1>2 DEF LostIsNowhere
<1>6. TokenNotLost'
    BY <1>1, <1>2 DEF TokenNotLost
<1>7. TornOnlyInWrite'
    BY <1>1 DEF TornOnlyInWrite, Holds
<1> QED BY <1>3, <1>4, <1>5, <1>6, <1>7

\* The server's answer goes to a thread that had the token of the file, so the
\* file is whole and nobody holds anything.
LEMMA RotatedInv == ASSUME IInv, NEW t \in Threads, Rotated(t) PROVE IInv'
<1> USE DEF IInv, Rotated, Goto
<1>1. current \in Nat /\ current \notin lost /\ \A u \in Threads : ~Holds(u)
    BY DEF TypeOK, LostIsNowhere, HolderIsAlone, Holds
<1>2. file = current
    BY <1>1 DEF TokenNotLost
<1>3. /\ pc' = [pc EXCEPT ![t] = "hold"] /\ tok' = [tok EXCEPT ![t] = current + 1]
      /\ \A u \in Threads : u # t => pc'[u] = pc[u] /\ tok'[u] = tok[u]
      /\ pc'[t] = "hold" /\ tok'[t] = current + 1
    BY DEF TypeOK
<1>4. TypeOK'
  <2>1. lost' \subseteq 0 .. current'
      BY <1>1 DEF TypeOK
  <2>2. pc' \in [Threads -> Places] /\ tok' \in [Threads -> Nat]
      BY <1>1, <1>3 DEF TypeOK, Places
  <2> QED BY <1>1, <2>1, <2>2 DEF TypeOK
<1>5. NobodyAhead'
    BY <1>1, <1>2, <1>3 DEF NobodyAhead, TypeOK
<1>6. file' # current' /\ current' \notin lost'
    BY <1>1, <1>2 DEF TypeOK
<1>7. \A u \in Threads : u # t => ~Holds(u)' /\ tok'[u] # current'
    BY <1>1, <1>3 DEF Holds, NobodyAhead, TypeOK
<1>8. HolderIsAlone'
    BY <1>3, <1>6, <1>7 DEF HolderIsAlone
<1>9. TokenNotLost' /\ LostIsNowhere'
    BY <1>3, <1>6 DEF TokenNotLost, LostIsNowhere, Holds
<1>10. TornOnlyInWrite'
    BY <1>1, <1>2, ConstantsAssumption DEF TornOnlyInWrite
<1> QED BY <1>4, <1>5, <1>8, <1>9, <1>10

\* Only the holder opens the file, and it goes on holding.
LEMMA TruncateInv == ASSUME IInv, NEW t \in Threads, Truncate(t) PROVE IInv'
<1> USE DEF IInv, Truncate, Goto
<1>1. /\ \A u \in Threads : u # t => pc'[u] = pc[u]
      /\ pc'[t] = "write" /\ pc' \in [Threads -> Places]
    BY DEF TypeOK, Places
<1>2. \A u \in Threads : Holds(u)' <=> Holds(u)
    BY <1>1 DEF Holds
<1>3. file' # current'
    BY ConstantsAssumption DEF TypeOK
<1>4. TypeOK' /\ NobodyAhead'
    BY <1>1 DEF TypeOK, NobodyAhead
<1>5. HolderIsAlone' /\ LostIsNowhere'
    BY <1>1, <1>2, <1>3 DEF HolderIsAlone, LostIsNowhere, Holds
<1>6. TokenNotLost' /\ TornOnlyInWrite'
    BY <1>1, <1>2 DEF TokenNotLost, TornOnlyInWrite, HolderIsAlone, Holds
<1> QED BY <1>4, <1>5, <1>6

\* The end of the write puts the newest tokens into the file.
LEMMA WriteInv == ASSUME IInv, NEW t \in Threads, Write(t) PROVE IInv'
<1> USE DEF IInv, Write, Goto
<1>1. Holds(t) /\ tok[t] = current /\ current \in Nat
    BY DEF Holds, HolderIsAlone, TypeOK
<1>2. /\ \A u \in Threads : u # t => pc'[u] = pc[u]
      /\ pc'[t] \in {"idle", "retry"} /\ pc' \in [Threads -> Places]
    BY DEF TypeOK, Places
<1>3. \A u \in Threads : ~Holds(u)'
    BY <1>1, <1>2 DEF Holds, HolderIsAlone
<1>4. file' = current' /\ current' \notin lost'
    BY <1>1 DEF LostIsNowhere
<1>5. TypeOK' /\ NobodyAhead'
    BY <1>1, <1>2, <1>4 DEF TypeOK, NobodyAhead
<1>6. HolderIsAlone' /\ LostIsNowhere' /\ TokenNotLost'
    BY <1>3, <1>4 DEF HolderIsAlone, LostIsNowhere, TokenNotLost
<1>7. TornOnlyInWrite'
    BY <1>1, <1>4, ConstantsAssumption DEF TornOnlyInWrite
<1> QED BY <1>5, <1>6, <1>7

\* The lost answer was the newest pair, and nobody else gets it.
LEMMA AnswerLostInv == ASSUME IInv, NEW t \in Threads, AnswerLost(t) PROVE IInv'
<1> USE DEF IInv, AnswerLost, Goto
<1>1. current \in Nat /\ current \notin lost /\ \A u \in Threads : ~Holds(u)
    BY DEF TypeOK, LostIsNowhere, HolderIsAlone, Holds
<1>2. file = current
    BY <1>1 DEF TokenNotLost
<1>3. \A u \in Threads : pc'[u] = pc[u] \/ pc'[u] = "idle"
    BY DEF TypeOK
<1>4. \A u \in Threads : ~Holds(u)'
    BY <1>1, <1>3 DEF Holds
<1>5. current' \in lost' /\ file' # current'
    BY <1>1, <1>2
<1>6. TypeOK'
  <2>1. lost' \subseteq 0 .. current' /\ faults' \in 0 .. MaxFaults
      BY <1>1, ConstantsAssumption DEF TypeOK
  <2>2. pc' \in [Threads -> Places]
      BY DEF TypeOK, Places
  <2> QED BY <1>1, <2>1, <2>2 DEF TypeOK
<1>7. NobodyAhead'
    BY <1>1, <1>2 DEF NobodyAhead, TypeOK
<1>8. LostIsNowhere'
    BY <1>1, <1>4, <1>5 DEF LostIsNowhere, NobodyAhead, TypeOK
<1>9. HolderIsAlone' /\ TokenNotLost' /\ TornOnlyInWrite'
    BY <1>4, <1>5 DEF HolderIsAlone, TokenNotLost, TornOnlyInWrite
<1> QED BY <1>6, <1>7, <1>8, <1>9

\* A dying process takes along what its threads hold, and that is noted as lost.
LEMMA DieInv == ASSUME IInv, NEW p \in Processes, Die(p) PROVE IInv'
<1> USE DEF IInv, Die
<1>1. p \subseteq Threads /\ current \in Nat
    BY ConstantsAssumption DEF TypeOK
<1>2. \A u \in Threads : pc'[u] = IF u \in p THEN "idle" ELSE pc[u]
    OBVIOUS
<1>3. \A u \in Threads : Holds(u)' <=> Holds(u) /\ u \notin p
    BY <1>2 DEF Holds
<1>4. lost' \subseteq lost \cup {current} /\ lost \subseteq lost'
    BY <1>1 DEF HolderIsAlone
<1>5. \A u \in p : Holds(u) => current \in lost'
    BY <1>1 DEF HolderIsAlone
<1>6. TypeOK'
  <2>1. pc' \in [Threads -> Places]
      BY DEF TypeOK, Places
  <2>2. lost' \subseteq 0 .. current'
    <3>1. current' = current /\ lost \subseteq 0 .. current
        BY DEF TypeOK
    <3> HIDE DEF IInv, Die
    <3> QED BY <1>1, <1>4, <3>1
  <2>3. faults' \in 0 .. MaxFaults
      BY ConstantsAssumption DEF TypeOK
  <2> QED BY <2>1, <2>2, <2>3 DEF TypeOK
<1>7. NobodyAhead' /\ HolderIsAlone'
    BY <1>2, <1>3 DEF NobodyAhead, HolderIsAlone
<1>8. LostIsNowhere'
  <2>1. CASE current \in lost
      BY <2>1, <1>2, <1>3 DEF LostIsNowhere
  <2>2. CASE current \notin lost /\ current \in lost'
    <3>1. PICK u \in p : Holds(u) /\ tok[u] = current
        BY <2>2, <1>1
    <3> QED BY <3>1, <1>1, <1>2, <1>3 DEF LostIsNowhere, HolderIsAlone
  <2>3. CASE current \notin lost'
      BY <2>3 DEF LostIsNowhere
  <2> QED BY <2>1, <2>2, <2>3
<1>9. TokenNotLost'
    BY <1>3, <1>4, <1>5 DEF TokenNotLost
<1>10. TornOnlyInWrite'
    BY <1>2, <1>4, <1>5 DEF TornOnlyInWrite, Holds
<1> QED BY <1>6, <1>7, <1>8, <1>9, <1>10

\* IInv is inductive.
LEMMA NextInv == ASSUME IInv, [Next]_vars PROVE IInv'
<1>1. CASE UNCHANGED vars
    BY <1>1 DEF vars, IInv, TypeOK, NobodyAhead, HolderIsAlone, LostIsNowhere,
                TokenNotLost, TornOnlyInWrite, Holds
<1>2. ASSUME NEW t \in Threads,
             LoadAccess(t) \/ Readyz(t) \/ Answered(t) \/ Unauthorized(t)
                \/ LoadRefresh(t) \/ Refused(t)
      PROVE  IInv'
  <2>1. probes \subseteq Threads
      BY DEF IInv, TypeOK
  <2>2. CASE LoadAccess(t)
      BY <2>1, <2>2, MoveInv DEF LoadAccess, Holds, Places
  <2>3. CASE Readyz(t)
      BY <2>1, <2>3, MoveInv DEF Readyz, Holds, Places
  <2>4. CASE Answered(t)
      BY <2>1, <2>4, MoveInv DEF Answered, Holds, Places
  <2>5. CASE Unauthorized(t)
      BY <2>1, <2>5, MoveInv DEF Unauthorized, Holds, Places
  <2>6. CASE LoadRefresh(t)
      BY <2>1, <2>6, MoveInv DEF LoadRefresh, Holds, Places
  <2>7. CASE Refused(t)
      BY <2>1, <2>7, MoveInv DEF Refused, Holds, Places
  <2> QED BY <1>2, <2>2, <2>3, <2>4, <2>5, <2>6, <2>7
<1>3. CASE Next
    BY <1>2, <1>3, RotatedInv, TruncateInv, WriteInv, AnswerLostInv, DieInv DEF Next, Step
<1> QED BY <1>1, <1>3

\* IInv holds in every state the service reaches.
THEOREM Invariance == Spec => []IInv
<1> QED BY InitInv, NextInv, PTL DEF Spec

-----------------------------------------------------------------------------
(* The properties.                                                         *)

\* The types of the file, of the threads' tokens and of the record of losses.
THEOREM TypeCorrect == Spec => []TypeOK
<1>1. IInv => TypeOK
    BY DEF IInv
<1> QED BY <1>1, Invariance, PTL

\* The only valid refresh token is in the file or on its way there, unless a fault
\* struck in between: no interleaving of requests and probes loses it.
THEOREM TokenIsNotLost == Spec => []TokenNotLost
<1>1. IInv => TokenNotLost
    BY DEF IInv
<1> QED BY <1>1, Invariance, PTL

\* Two threads are never between their answer and the end of their write.
THEOREM WritersAreAlone == Spec => []OneWriter
<1>1. IInv => OneWriter
    BY DEF IInv, OneWriter, HolderIsAlone
<1> QED BY <1>1, Invariance, PTL

\* The file is unreadable only while it is written or after a writer died.
THEOREM TornIsExplained == Spec => []TornOnlyInWrite
<1>1. IInv => TornOnlyInWrite
    BY DEF IInv
<1> QED BY <1>1, Invariance, PTL

\* Whatever is written into the file is the newest pair.
THEOREM WritesAreFresh == Spec => NoStaleOverwrite
<1>1. IInv /\ [Next]_vars => [file' # file /\ file' # Torn => file' = current]_vars
  <2> SUFFICES ASSUME IInv, Next, file' # file, file' # Torn
               PROVE  file' = current
      BY DEF vars
  <2>1. PICK t \in Threads : Write(t)
      BY DEF Next, Step, LoadAccess, Readyz, Answered, Unauthorized, LoadRefresh,
             Rotated, Refused, Truncate, AnswerLost, Die
  <2>2. Holds(t) /\ file' = tok[t]
      BY <2>1 DEF Write, Holds
  <2> QED BY <2>2 DEF IInv, HolderIsAlone
<1> QED BY <1>1, Invariance, PTL DEF Spec, NoStaleOverwrite
=============================================================================
