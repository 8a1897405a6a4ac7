----------------------------- MODULE CheckoutProofs -----------------------------
(***************************************************************************)
(* The storefront and the outbox its orders announce themselves through:   *)
(* safety for every number of customers, products, requests, events,       *)
(* workers, crashes and slow leases.  The two components share no name.    *)
(*                                                                         *)
(* Outbox.  The properties are not inductive one by one: a mark writes an  *)
(* outcome that was decided earlier, so what a worker has IN HAND          *)
(* (WorkInHand) must already justify the row it will write.  IInv joins    *)
(* the two.                                                                *)
(*                                                                         *)
(* Storefront.  A request writes what it read some steps ago.  ShopInv     *)
(* says whose carts and rows it can touch whatever the others did          *)
(* meanwhile; StockInv adds that stock only leaves through an order;       *)
(* AccountInv, which lapses once two requests of one customer have         *)
(* overlapped, adds that what was read is still so.                        *)
(***************************************************************************)
EXTENDS Outbox, Storefront, UnitSums, TLAPS

IInv == /\ TypeOK
        /\ WorkInHand
        /\ DispatchedWasHanded
        /\ GivesUpOnlyWhenExhausted
        /\ LeasedRowsCanBeReclaimed
        /\ HandedOnlyAfterCommit

-------------------------------------------------------------------------------

\* At the start there are no rows and no work.
LEMMA InitIInv == Init => IInv
  BY OutboxAssumption
  DEF Init, IInv, TypeOK, WorkInHand, DispatchedWasHanded, GivesUpOnlyWhenExhausted,
      LeasedRowsCanBeReclaimed, HandedOnlyAfterCommit, NoJob, Visible, Settled

\* Routing is a function of the constants: no step changes what is deliverable.
LEMMA DeliverableIsRigid == \A e \in Events : Deliverable(e)' <=> Deliverable(e)
  BY DEF Deliverable, resolve_outbox_route

\* A flushed row is not yet visible to any worker.
LEMMA enqueueKeepsIInv == ASSUME IInv, NEW e \in Events, enqueue(e) PROVE IInv'
<1> USE OutboxAssumption DEF IInv, enqueue, Settled, Visible
<1>1. TypeOK' BY DEF TypeOK, NoJob
<1>2. WorkInHand' BY DEF TypeOK, WorkInHand, NoJob, Deliverable
<1>3. DispatchedWasHanded' BY DEF TypeOK, DispatchedWasHanded
<1>4. GivesUpOnlyWhenExhausted' BY DEF TypeOK, GivesUpOnlyWhenExhausted, Deliverable
<1>5. LeasedRowsCanBeReclaimed' BY DEF TypeOK, LeasedRowsCanBeReclaimed
<1>6. HandedOnlyAfterCommit' BY DEF TypeOK, HandedOnlyAfterCommit, Deliverable
<1> QED BY <1>1, <1>2, <1>3, <1>4, <1>5, <1>6

\* Commit makes the row pending, rollback removes it.
LEMMA get_dbKeepsIInv == ASSUME IInv, NEW e \in Events, get_db(e) PROVE IInv'
<1> USE OutboxAssumption DEF IInv, get_db, Settled, Visible
<1>1. TypeOK' BY DEF TypeOK, NoJob
<1>2. WorkInHand'
  <2>1. /\ UNCHANGED <<attempts, batch, job, handed>>
        /\ status[e] = "flushed" /\ \A x \in Events \ {e} : status'[x] = status[x]
    BY DEF TypeOK
  <2>2. \A x \in Events : status[x] \in Visible => status'[x] = status[x] BY <2>1
  <2>3. batch \in [Workers -> SUBSET Events] BY DEF TypeOK
  <2> HIDE DEF get_db, Visible
  <2> QED BY <2>1, <2>2, <2>3, DeliverableIsRigid DEF WorkInHand
<1>3. DispatchedWasHanded' BY DEF TypeOK, DispatchedWasHanded
<1>4. GivesUpOnlyWhenExhausted'
  <2>1. \A x \in Events : status'[x] = "dead_letter" => status[x] = "dead_letter" BY DEF TypeOK
  <2>2. attempts' = attempts OBVIOUS
  <2> QED BY <2>1, <2>2, DeliverableIsRigid DEF GivesUpOnlyWhenExhausted
<1>5. LeasedRowsCanBeReclaimed' BY DEF TypeOK, LeasedRowsCanBeReclaimed
<1>6. HandedOnlyAfterCommit' BY DEF TypeOK, HandedOnlyAfterCommit, Deliverable
<1> QED BY <1>1, <1>2, <1>3, <1>4, <1>5, <1>6

\* A lease that lapses is still a lease.
LEMMA LeaseLapsesKeepsIInv == ASSUME IInv, NEW e \in Events, LeaseLapses(e) PROVE IInv'
<1> USE OutboxAssumption DEF IInv, LeaseLapses, Settled, Visible
<1>1. TypeOK' BY DEF TypeOK, NoJob
<1>2. WorkInHand' BY DEF TypeOK, WorkInHand, NoJob, Deliverable
<1>3. DispatchedWasHanded' BY DEF TypeOK, DispatchedWasHanded
<1>4. GivesUpOnlyWhenExhausted' BY DEF TypeOK, GivesUpOnlyWhenExhausted, Deliverable
<1>5. LeasedRowsCanBeReclaimed' BY DEF TypeOK, LeasedRowsCanBeReclaimed
<1>6. HandedOnlyAfterCommit' BY DEF TypeOK, HandedOnlyAfterCommit, Deliverable
<1> QED BY <1>1, <1>2, <1>3, <1>4, <1>5, <1>6

\* The back-off of a pending row ends.
LEMMA BackoffElapsesKeepsIInv == ASSUME IInv, NEW e \in Events, BackoffElapses(e) PROVE IInv'
<1> USE OutboxAssumption DEF IInv, BackoffElapses, Settled, Visible
<1>1. TypeOK' BY DEF TypeOK, NoJob
<1>2. WorkInHand' BY DEF TypeOK, WorkInHand, NoJob, Deliverable
<1>3. DispatchedWasHanded' BY DEF TypeOK, DispatchedWasHanded
<1>4. GivesUpOnlyWhenExhausted' BY DEF TypeOK, GivesUpOnlyWhenExhausted, Deliverable
<1>5. LeasedRowsCanBeReclaimed' BY DEF TypeOK, LeasedRowsCanBeReclaimed
<1>6. HandedOnlyAfterCommit' BY DEF TypeOK, HandedOnlyAfterCommit, Deliverable
<1> QED BY <1>1, <1>2, <1>3, <1>4, <1>5, <1>6

\* A crash empties the hands of one worker.
LEMMA CrashKeepsIInv == ASSUME IInv, NEW w \in Workers, Crash(w) PROVE IInv'
<1> USE OutboxAssumption DEF IInv, Crash, Settled, Visible
<1>1. TypeOK' BY DEF TypeOK, NoJob
<1>2. WorkInHand' BY DEF TypeOK, WorkInHand, NoJob, Deliverable
<1>3. DispatchedWasHanded' BY DEF TypeOK, DispatchedWasHanded
<1>4. GivesUpOnlyWhenExhausted' BY DEF TypeOK, GivesUpOnlyWhenExhausted, Deliverable
<1>5. LeasedRowsCanBeReclaimed' BY DEF TypeOK, LeasedRowsCanBeReclaimed
<1>6. HandedOnlyAfterCommit' BY DEF TypeOK, HandedOnlyAfterCommit, Deliverable
<1> QED BY <1>1, <1>2, <1>3, <1>4, <1>5, <1>6

\* A claim leases visible rows and counts an attempt.
LEMMA claim_due_eventsKeepsIInv == ASSUME IInv, NEW w \in Workers, _claim_due_events(w) PROVE IInv'
<1> USE OutboxAssumption DEF IInv, _claim_due_events, IsDue, Idle, Settled, Visible
<1>1. TypeOK' BY DEF TypeOK, NoJob
<1>2. WorkInHand' BY DEF TypeOK, WorkInHand, NoJob, Deliverable
<1>3. DispatchedWasHanded' BY DEF TypeOK, DispatchedWasHanded
<1>4. GivesUpOnlyWhenExhausted' BY DEF TypeOK, GivesUpOnlyWhenExhausted, Deliverable
<1>5. LeasedRowsCanBeReclaimed' BY DEF TypeOK, LeasedRowsCanBeReclaimed
<1>6. HandedOnlyAfterCommit' BY DEF TypeOK, HandedOnlyAfterCommit, Deliverable
<1> QED BY <1>1, <1>2, <1>3, <1>4, <1>5, <1>6

\* An event that is rejected is not deliverable, so it may be dead-lettered at once.
LEMMA RejectEventKeepsIInv == ASSUME IInv, NEW w \in Workers, NEW e \in Events, RejectEvent(w, e) PROVE IInv'
<1> USE OutboxAssumption DEF IInv, RejectEvent, Rejection, Take, Deliverable, Settled, Visible
<1>1. TypeOK' BY DEF TypeOK, NoJob
<1>2. WorkInHand'
  <2>1. /\ UNCHANGED <<status, handed, attempts>>
        /\ \A z \in Workers : batch'[z] \subseteq batch[z]
        /\ \A z \in Workers \ {w} : job'[z] = job[z]
        /\ job'[w] = [ev |-> e, outcome |-> Rejection(e), seen |-> FALSE]
    BY DEF TypeOK
  <2>2. status[e] \in {"pending", "processing", "dispatched", "skipped", "dead_letter"}
    BY DEF TypeOK, WorkInHand
  <2>3. Rejection(e) = "skipped" \/ (Rejection(e) = "dead_letter" /\ ~Deliverable(e)) OBVIOUS
  <2> QED BY <2>1, <2>2, <2>3 DEF WorkInHand, NoJob
<1>3. DispatchedWasHanded' BY DEF TypeOK, WorkInHand, DispatchedWasHanded, NoJob
<1>4. GivesUpOnlyWhenExhausted' BY DEF TypeOK, WorkInHand, GivesUpOnlyWhenExhausted, NoJob
<1>5. LeasedRowsCanBeReclaimed' BY DEF TypeOK, WorkInHand, LeasedRowsCanBeReclaimed, NoJob
<1>6. HandedOnlyAfterCommit' BY DEF TypeOK, WorkInHand, HandedOnlyAfterCommit, NoJob
<1> QED BY <1>1, <1>2, <1>3, <1>4, <1>5, <1>6

\* Only a hand-off the broker accepted puts "dispatched" in hand.
LEMMA send_taskKeepsIInv == ASSUME IInv, NEW w \in Workers, NEW e \in Events, send_task(w, e)
                            PROVE IInv'
<1> USE OutboxAssumption DEF IInv, Settled, Visible
<1>1. PICK out \in {"dispatched", "failed"} :
        Take(w, e, out) /\ (out = "dispatched" => handed' = [handed EXCEPT ![e] = @ + 1])
  BY DEF send_task
<1>2. handed' = handed \/ handed' = [handed EXCEPT ![e] = @ + 1]
  BY DEF send_task
<1>3. /\ handed' \in [Events -> Nat]
      /\ \A f \in Events : handed[f] > 0 => handed'[f] > 0
      /\ out = "dispatched" => handed'[e] > 0
      /\ \A f \in Events : handed'[f] > 0 => f = e \/ handed[f] > 0
  BY <1>1, <1>2 DEF TypeOK
<1>4. /\ UNCHANGED <<status, attempts, due, lease, crashes, overruns>>
      /\ e \in batch[w] /\ status[e] \in Visible
      /\ batch' = [batch EXCEPT ![w] = @ \ {e}]
      /\ job' = [job EXCEPT ![w] = [ev |-> e, outcome |-> out, seen |-> FALSE]]
      /\ Deliverable(e)
  BY <1>1 DEF Take, send_task, WorkInHand
<1>5. TypeOK' BY <1>3, <1>4 DEF TypeOK
<1>6. WorkInHand'
  <2>1. \A v \in Workers : \A f \in batch'[v] : status'[f] \in Visible
    BY <1>4 DEF TypeOK, WorkInHand
  <2>2. ASSUME NEW v \in Workers, v # w, job'[v] # NoJob
        PROVE  job'[v] = job[v] /\ job[v].ev \in Events
    BY <1>4, <2>2 DEF TypeOK, WorkInHand
  <2>3. job'[w] = [ev |-> e, outcome |-> out, seen |-> FALSE]
    BY <1>4 DEF TypeOK
  <2> QED BY <1>3, <1>4, <2>1, <2>2, <2>3, DeliverableIsRigid DEF WorkInHand, NoJob
<1>7. DispatchedWasHanded' BY <1>3, <1>4 DEF DispatchedWasHanded
<1>8. GivesUpOnlyWhenExhausted'
  BY <1>4, DeliverableIsRigid DEF GivesUpOnlyWhenExhausted
<1>9. LeasedRowsCanBeReclaimed' BY <1>4 DEF LeasedRowsCanBeReclaimed
<1>10. HandedOnlyAfterCommit'
  BY <1>3, <1>4, DeliverableIsRigid DEF HandedOnlyAfterCommit
<1> QED BY <1>5, <1>6, <1>7, <1>8, <1>9, <1>10

\* The outcome in hand is justified by the row as it is read.
LEMMA ReadRowKeepsIInv == ASSUME IInv, NEW w \in Workers, ReadRow(w) PROVE IInv'
<1> USE OutboxAssumption DEF IInv, Settled, Visible
<1> DEFINE e == job[w].ev
           target == MarkedAs(w)
           after == IF status[e] # "processing" THEN NoJob
                    ELSE [ev |-> e, outcome |-> target, seen |-> TRUE]
<1>1. /\ job[w] # NoJob /\ ~job[w].seen
      /\ job' = [job EXCEPT ![w] = after]
      /\ UNCHANGED <<status, attempts, due, lease, batch, handed, crashes, overruns>>
  BY DEF ReadRow
<1>2. /\ e \in Events /\ status[e] \in Visible
      /\ job[w].outcome \in Settled \cup {"failed"}
      /\ job[w].outcome = "dispatched" => handed[e] > 0
      /\ job[w].outcome = "dead_letter" /\ Deliverable(e) => attempts[e] >= MAX_OUTBOX_ATTEMPTS
  BY <1>1 DEF WorkInHand
<1>3. target \in Settled \cup {"pending"}
  BY <1>2 DEF MarkedAs
<1> HIDE DEF target
<1>4. TypeOK'
  <2>1. after \in [ev : Events \cup {"none"},
                  outcome : Settled \cup {"none", "failed", "pending"}, seen : BOOLEAN]
    BY <1>2, <1>3 DEF NoJob
  <2> HIDE DEF after
  <2> QED BY <1>1, <2>1 DEF TypeOK
<1>5. WorkInHand'
  <2>1. /\ target = "dispatched" => handed[e] > 0
        /\ target = "dead_letter" /\ Deliverable(e) => attempts[e] >= MAX_OUTBOX_ATTEMPTS
    BY <1>2 DEF target, MarkedAs, Exhausted
  <2>2. job'[w] = after /\ \A v \in Workers \ {w} : job'[v] = job[v]
    BY <1>1 DEF TypeOK
  <2> QED BY <1>1, <1>2, <1>3, <2>1, <2>2, DeliverableIsRigid DEF WorkInHand
<1>6. DispatchedWasHanded' BY <1>1 DEF DispatchedWasHanded
<1>7. GivesUpOnlyWhenExhausted' BY <1>1, DeliverableIsRigid DEF GivesUpOnlyWhenExhausted
<1>8. LeasedRowsCanBeReclaimed' BY <1>1 DEF LeasedRowsCanBeReclaimed
<1>9. HandedOnlyAfterCommit' BY <1>1, DeliverableIsRigid DEF HandedOnlyAfterCommit
<1> QED BY <1>4, <1>5, <1>6, <1>7, <1>8, <1>9

\* The row takes the outcome in hand, which WorkInHand has justified.
LEMMA WriteRowKeepsIInv == ASSUME IInv, NEW w \in Workers, WriteRow(w) PROVE IInv'
<1> USE OutboxAssumption DEF IInv, WriteRow, Unlocked, Deliverable, Settled, Visible
<1>1. TypeOK'
  <2>1. job[w].ev \in Events /\ job[w].outcome \in Settled \cup {"pending"}
    BY DEF WorkInHand
  <2>2. status' \in [Events -> {"absent", "flushed"} \cup Visible]
    BY <2>1 DEF TypeOK
  <2>3. due' \in [Events -> BOOLEAN]
    BY <2>1 DEF TypeOK
  <2>4. job' \in [Workers ->
          [ev : Events \cup {"none"},
           outcome : Settled \cup {"none", "failed", "pending"}, seen : BOOLEAN]]
    BY DEF TypeOK, NoJob
  <2> QED BY <2>2, <2>3, <2>4 DEF TypeOK
<1>2. WorkInHand' BY DEF TypeOK, WorkInHand, NoJob
<1>3. DispatchedWasHanded' BY DEF TypeOK, WorkInHand, DispatchedWasHanded, NoJob
<1>4. GivesUpOnlyWhenExhausted' BY DEF TypeOK, WorkInHand, GivesUpOnlyWhenExhausted, NoJob
<1>5. LeasedRowsCanBeReclaimed' BY DEF TypeOK, WorkInHand, LeasedRowsCanBeReclaimed, NoJob
<1>6. HandedOnlyAfterCommit' BY DEF TypeOK, WorkInHand, HandedOnlyAfterCommit, NoJob
<1> QED BY <1>1, <1>2, <1>3, <1>4, <1>5, <1>6

-------------------------------------------------------------------------------

\* Every action keeps the inductive invariant.
LEMMA NextKeepsIInv == IInv /\ [Next]_vars => IInv'
<1> SUFFICES ASSUME IInv, [Next]_vars PROVE IInv'
  OBVIOUS
<1>1. CASE UNCHANGED vars
  BY <1>1 DEF vars, IInv, TypeOK, WorkInHand, DispatchedWasHanded, GivesUpOnlyWhenExhausted,
      LeasedRowsCanBeReclaimed, HandedOnlyAfterCommit, Deliverable, resolve_outbox_route
<1>2. CASE \E e \in Events : enqueue(e) \/ get_db(e) \/ LeaseLapses(e) \/ BackoffElapses(e)
  BY <1>2, enqueueKeepsIInv, get_dbKeepsIInv, LeaseLapsesKeepsIInv, BackoffElapsesKeepsIInv
<1>3. CASE \E w \in Workers : _claim_due_events(w) \/ Crash(w)
  BY <1>3, claim_due_eventsKeepsIInv, CrashKeepsIInv
<1>4. CASE \E w \in Workers : Work(w)
  BY <1>4, RejectEventKeepsIInv, send_taskKeepsIInv, ReadRowKeepsIInv, WriteRowKeepsIInv
     DEF Work
<1> QED BY <1>1, <1>2, <1>3, <1>4 DEF Next

\* The inductive invariant holds in every reachable state.
THEOREM OutboxInvariant == Spec => []IInv
  BY InitIInv, NextKeepsIInv, PTL DEF Spec

\* Variables keep the types of the columns of elitedom_outbox_event.
THEOREM OutboxTypes == Spec => []TypeOK
<1>1. IInv => TypeOK BY DEF IInv
<1> QED BY <1>1, OutboxInvariant, PTL

\* _mark_dispatched: "dispatched" is written only about a task the broker took.
THEOREM DispatchedImpliesHandOff == Spec => []DispatchedWasHanded
<1>1. IInv => DispatchedWasHanded BY DEF IInv
<1> QED BY <1>1, OutboxInvariant, PTL

\* _mark_dispatch_failure: a deliverable event is dead-lettered only once its
\* attempts are used up.
THEOREM NoEarlyDeadLetter == Spec => []GivesUpOnlyWhenExhausted
<1>1. IInv => GivesUpOnlyWhenExhausted BY DEF IInv
<1> QED BY <1>1, OutboxInvariant, PTL

\* _claim_due_events: a row in processing always has a lease that can lapse, so
\* no crash leaves it beyond the reach of a later claim.
THEOREM NoOrphanedRow == Spec => []LeasedRowsCanBeReclaimed
<1>1. IInv => LeasedRowsCanBeReclaimed BY DEF IInv
<1> QED BY <1>1, OutboxInvariant, PTL

\* enqueue and get_db: nothing of a transaction that did not commit reaches the
\* broker, and nothing outside the whitelist.
THEOREM OnlyCommittedIsHanded == Spec => []HandedOnlyAfterCommit
<1>1. IInv => HandedOnlyAfterCommit BY DEF IInv
<1> QED BY <1>1, OutboxInvariant, PTL

\* Claims, marks and crashes: what a worker holds agrees with the rows.
THEOREM WorkAgreesWithRows == Spec => []WorkInHand
<1>1. IInv => WorkInHand BY DEF IInv
<1> QED BY <1>1, OutboxInvariant, PTL

-------------------------------------------------------------------------------
(* The outbox implements AtLeastOnceHandoff *)

Handed == {e \in Events : handed[e] > 0}

Word(st) == CASE st \in {"absent", "flushed"} -> "none"
              [] st \in {"pending", "processing"} -> "owed"
              [] st = "dispatched" -> "acked"
              [] OTHER -> "abandoned"

\* No row, no promise.
LEMMA InitRefines == Init => Abs!AbsInit
  BY DEF Init, Abs!AbsInit, AbsLedger

\* A step that keeps every row's word and every hand-off is a stutter.
LEMMA StutterRefines ==
    ASSUME UNCHANGED handed, \A e \in Events : Word(status'[e]) = Word(status[e])
    PROVE  UNCHANGED Abs!absVars
<1>1. AbsLedger' = AbsLedger
  BY DEF AbsLedger, Word
<1> QED BY <1>1 DEF Abs!absVars

\* send_task delivers.
LEMMA HandOffRefines ==
    ASSUME IInv, NEW e \in Events, status[e] \in Visible, UNCHANGED status,
           handed' = [handed EXCEPT ![e] = @ + 1]
    PROVE  Abs!AbsNext
<1>1. AbsLedger' = AbsLedger
  BY DEF AbsLedger
<1>2. AbsLedger[e] # "none"
  BY DEF AbsLedger, Visible, Settled
<1>3. Handed' = Handed \cup {e}
  BY DEF Handed, IInv, TypeOK
<1> QED BY <1>1, <1>2, <1>3 DEF Abs!AbsNext, Abs!Deliver, Handed

\* get_db and the marks change the word of one row.
LEMMA LedgerMoves ==
    ASSUME IInv, NEW e \in Events, NEW st, status' = [status EXCEPT ![e] = st]
    PROVE  AbsLedger' = [AbsLedger EXCEPT ![e] = Word(st)]
  BY DEF AbsLedger, Word, IInv, TypeOK

\* A mark acknowledges, abandons or reopens.
LEMMA WriteRowRefines ==
    ASSUME IInv, NEW w \in Workers, WriteRow(w) PROVE [Abs!AbsNext]_(Abs!absVars)
<1> DEFINE e == job[w].ev
           out == job[w].outcome
<1>1. /\ status' = [status EXCEPT ![e] = out] /\ UNCHANGED handed
      /\ job[w] # NoJob /\ job[w].seen
  BY DEF WriteRow
<1>2. /\ e \in Events /\ status[e] \in Visible
      /\ out \in Settled \cup {"pending"}
      /\ out = "dispatched" => handed[e] > 0
  BY <1>1 DEF IInv, WorkInHand
<1>3. AbsLedger' = [AbsLedger EXCEPT ![e] = Word(out)]
  BY <1>1, <1>2, LedgerMoves
<1>4. AbsLedger[e] \in {"owed", "acked", "abandoned"}
  BY <1>2 DEF AbsLedger, Visible, Settled
<1>5. AbsLedger \in [Events -> Abs!States]
  BY DEF AbsLedger, Abs!States
<1>6. Word(out) \in Abs!States \ {"none"} /\ (Word(out) = "acked" => e \in Handed)
  BY <1>2 DEF Word, Settled, Abs!States, Handed
<1>7. Abs!MayReport(e, Word(out))
  BY <1>4, <1>6 DEF Abs!MayReport, Handed
<1>8. AbsLedger' \in [Events -> Abs!States]
  BY <1>3, <1>5, <1>6
<1>9. \A f \in Events : AbsLedger'[f] # AbsLedger[f] => Abs!MayReport(f, AbsLedger'[f])
  BY <1>3, <1>5, <1>7
<1>10. UNCHANGED Handed BY <1>1 DEF Handed
<1> QED BY <1>8, <1>9, <1>10 DEF Abs!AbsNext, Abs!Report, Handed

\* A commit records the event, a rollback forgets a row that promised nothing.
LEMMA get_dbRefines ==
    ASSUME IInv, NEW e \in Events, get_db(e) PROVE [Abs!AbsNext]_(Abs!absVars)
<1>1. CASE status' = [status EXCEPT ![e] = "pending"]
  <2>1. AbsLedger' = [AbsLedger EXCEPT ![e] = "owed"]
    BY <1>1, LedgerMoves DEF Word
  <2>2. AbsLedger[e] = "none" /\ UNCHANGED handed
    BY DEF AbsLedger, get_db
  <2> QED BY <2>1, <2>2 DEF Abs!AbsNext, Abs!Record
<1>2. CASE status' = [status EXCEPT ![e] = "absent"]
  <2>1. \A f \in Events : Word(status'[f]) = Word(status[f])
    BY <1>2 DEF get_db, Word, IInv, TypeOK
  <2> QED BY <2>1, StutterRefines DEF get_db
<1> QED BY <1>1, <1>2 DEF get_db

\* Every step of the outbox is a step of the promise, or none.
LEMMA NextRefines == IInv /\ [Next]_vars => [Abs!AbsNext]_(Abs!absVars)
<1> SUFFICES ASSUME IInv, [Next]_vars PROVE [Abs!AbsNext]_(Abs!absVars)
  OBVIOUS
<1>1. CASE UNCHANGED vars
  BY <1>1, StutterRefines DEF vars
<1>2. ASSUME NEW e \in Events, enqueue(e) \/ LeaseLapses(e) \/ BackoffElapses(e)
      PROVE  UNCHANGED Abs!absVars
  <2>1. \A f \in Events : Word(status'[f]) = Word(status[f])
    BY <1>2 DEF enqueue, LeaseLapses, BackoffElapses, Word, IInv, TypeOK
  <2> QED BY <1>2, <2>1, StutterRefines DEF enqueue, LeaseLapses, BackoffElapses
<1>3. ASSUME NEW w \in Workers, _claim_due_events(w) PROVE UNCHANGED Abs!absVars
  <2>1. \A f \in Events : Word(status'[f]) = Word(status[f])
    BY <1>3 DEF _claim_due_events, IsDue, Word, IInv, TypeOK
  <2> QED BY <1>3, <2>1, StutterRefines DEF _claim_due_events
<1>4. ASSUME NEW w \in Workers, NEW e \in Events, RejectEvent(w, e)
      PROVE  UNCHANGED Abs!absVars
  <2>1. UNCHANGED <<status, handed>>
    BY <1>4 DEF RejectEvent, Take
  <2> QED BY <2>1, StutterRefines
<1>5. ASSUME NEW w \in Workers, NEW e \in Events, send_task(w, e)
      PROVE  [Abs!AbsNext]_(Abs!absVars)
  <2>1. UNCHANGED status /\ status[e] \in Visible
    BY <1>5 DEF send_task, Take, IInv, WorkInHand
  <2>2. CASE UNCHANGED handed
    BY <2>1, <2>2, StutterRefines
  <2>3. CASE handed' = [handed EXCEPT ![e] = @ + 1]
    BY <2>1, <2>3, HandOffRefines
  <2> QED BY <1>5, <2>2, <2>3 DEF send_task
<1>6. ASSUME NEW w \in Workers, ReadRow(w) \/ Crash(w) PROVE UNCHANGED Abs!absVars
  <2>1. UNCHANGED <<status, handed>>
    BY <1>6 DEF ReadRow, Crash
  <2> QED BY <2>1, StutterRefines
<1> QED
  BY <1>1, <1>2, <1>3, <1>4, <1>5, <1>6, get_dbRefines, WriteRowRefines DEF Next, Work

\* shared/outbox_tasks.py keeps the promise of AtLeastOnceHandoff.
THEOREM OutboxImplementsHandoff == Spec => ImplementsHandoff
  BY InitRefines, NextRefines, OutboxInvariant, PTL DEF Spec, ImplementsHandoff, Abs!AbsSafety

-------------------------------------------------------------------------------
(* Storefront: types and owners                                                *)

\* A row of a cart, and what a request has read of one cart.
Item == [cart : CartIds \cup {0}, product : Products \cup {"none"}, quantity : Nat]

IsView(v) == /\ v = [i \in DOMAIN v |-> v[i]]
             /\ DOMAIN v \subseteq ItemIds
             /\ \A i \in DOMAIN v : v[i] \in Item

\* A request at work, whatever has happened since it read.
ShopRequest(r) ==
    /\ r.op \in {"get", "add", "update", "remove", "sync", "checkout"}
    /\ r.owner \in Owners
    /\ r.cart \in CartIds \cup {0} /\ r.guest \in CartIds \cup {0}
    /\ IsView(r.view) /\ IsView(r.gview)
    /\ r.quantity \in Nat
    /\ r.op = "add" => r.product \in Products
    /\ r.op \in {"update", "remove"} => /\ r.item \in DOMAIN r.view
                                        /\ r.product = r.view[r.item].product
    /\ r.op = "checkout" => DOMAIN r.view # {}

Carts == [CartIds -> [owner : Owners \cup {Nobody}, is_active : BOOLEAN]]
Items == [ItemIds -> Item]
SaleOrders == [OrderIds -> [owner : Owners \cup {Nobody}, cart : CartIds \cup {0},
                            lines : [Products -> Nat], state : {"none", "draft", "sent"}]]

ShopTypes ==
    /\ stock \in [Products -> Nat]
    /\ carts \in Carts /\ items \in Items /\ orders \in SaleOrders
    /\ wanted \in [Customers -> [Products -> Int]]
    /\ sess = [s \in Sessions |-> sess[s]]
    /\ \A s \in Sessions : sess[s] = Free \/ ShopRequest(sess[s])

\* A removed row, or one in a cart of the customer.
RowOf(i, c) == items[i].cart = 0 \/ carts[items[i].cart].owner[1] = c

\* The carts and rows that a request has read are its customer's, and stay so.
Reads(v, c) == \A i \in DOMAIN v : /\ v[i].product \in Products
                                   /\ items[i].product = v[i].product
                                   /\ RowOf(i, c)

ReadsItsOwn(r) ==
    /\ r.cart # 0 => carts[r.cart].owner = r.owner
    /\ r.guest # 0 => /\ r.op = "sync" /\ r.owner[2] = "user"
                      /\ carts[r.guest].owner = <<r.owner[1], "guest">>
    /\ r.op = "checkout" => r.cart # 0
    /\ Reads(r.view, r.owner[1]) /\ Reads(r.gview, r.owner[1])

Owned ==
    /\ \A k \in CartIds : carts[k].owner = Nobody => carts[k] = NoCart
    /\ \A i \in ItemIds : items[i].cart # 0 => /\ carts[items[i].cart].owner \in Owners
                                               /\ items[i].product \in Products
    /\ \A s \in Sessions : sess[s] # Free => ReadsItsOwn(sess[s])

ShopInv == ShopTypes /\ Owned

LEMMA ShopInit == StorefrontInit => ShopInv
<1> SUFFICES ASSUME StorefrontInit PROVE ShopInv OBVIOUS
<1>1. ShopTypes
  BY StorefrontAssumption DEF StorefrontInit, ShopTypes, Carts, Items, SaleOrders, Item, NoCart,
     NoItem, NoOrder
<1>2. Owned BY DEF StorefrontInit, Owned, NoItem
<1> QED BY <1>1, <1>2 DEF ShopInv

-------------------------------------------------------------------------------
(* What a request reads                                                        *)

\* The id a lookup returns: one of the set, and 0 if there is none.
LEMMA NewestOrNone ==
    ASSUME NEW S \in SUBSET CartIds
    PROVE  Max(S \cup {0}) \in S \cup {0} /\ (Max(S \cup {0}) = 0 <=> S = {})
<1> DEFINE T == S \cup {0}
<1>1. /\ T \in SUBSET Nat /\ T # {} /\ (\A y \in T : y <= MaxCarts) /\ MaxCarts \in Nat
      /\ \A k \in S : k \in Nat /\ k >= 1
  BY StorefrontAssumption DEF CartIds
<1>2. Max(T) \in T /\ \A y \in T : Max(T) >= y
  <2> HIDE DEF T
  <2> QED BY <1>1, GreatestOfNaturals
<1>3. ASSUME Max(T) = 0 PROVE S = {}
  <2> SUFFICES ASSUME NEW k \in S PROVE FALSE OBVIOUS
  <2>1. Max(T) >= k BY <1>2
  <2> HIDE DEF T
  <2> QED BY <1>1, <1>3, <2>1
<1> QED BY <1>2, <1>3

\* The customer's cart that is shown is an active one, and 0 only if there is none.
LEMMA CartFound ==
    ASSUME NEW w
    PROVE  /\ _find_cart(w) \in ActiveCarts(w) \cup {0}
           /\ _find_cart(w) = 0 <=> ActiveCarts(w) = {}
<1>1. ActiveCarts(w) \in SUBSET CartIds BY DEF ActiveCarts
<1> QED BY <1>1, NewestOrNone DEF _find_cart

\* What a request reads of a cart of its customer.
LEMMA ViewIs ==
    ASSUME ShopInv, NEW k \in CartIds \cup {0}, NEW c, k # 0 => carts[k].owner[1] = c
    PROVE  IsView(_load_cart(k)) /\ Reads(_load_cart(k), c)
<1>1. items \in Items BY DEF ShopInv, ShopTypes
<1>2. IsView(_load_cart(k)) BY <1>1 DEF Items, IsView, _load_cart
<1>3. ASSUME NEW i \in ItemIds, items[i].cart = k, k # 0
      PROVE  items[i].product \in Products /\ RowOf(i, c)
  BY <1>3 DEF ShopInv, Owned, RowOf
<1>4. Reads(_load_cart(k), c) BY <1>3 DEF Reads, _load_cart
<1> QED BY <1>2, <1>4

\* What a request has read when it begins.
JustRead(r) ==
    /\ r.cart = _find_cart(r.owner) /\ r.view = _load_cart(r.cart)
    /\ r.gview = _load_cart(r.guest)
    /\ r.guest = IF r.op = "sync" THEN _find_cart(<<r.owner[1], "guest">>) ELSE 0
    /\ r.op = "sync" => r.owner[2] = "user"
    /\ r.op = "get" => ActiveCarts(r.owner) = {}

\* A step that only begins request r.
Begins(s, r) ==
    /\ sess[s] = Free /\ sess' = [sess EXCEPT ![s] = r]
    /\ ShopRequest(r) /\ JustRead(r)
    /\ IF \E z \in Sessions : sess[z].owner[1] = r.owner[1]
       THEN /\ overlapped' = overlapped \cup {r.owner[1]}
            /\ wanted' = [wanted EXCEPT ![r.owner[1]] = [p \in Products |-> 0]]
       ELSE UNCHANGED <<overlapped, wanted>>
    /\ UNCHANGED <<stock, carts, items, orders>>

\* What each kind of request has looked up and checked.
Suits(w, op, product, item, guest) ==
    /\ op \in {"get", "add", "update", "remove", "sync", "checkout"}
    /\ op = "add" => product \in Products
    /\ op \in {"update", "remove"} => /\ item \in DOMAIN _load_cart(_find_cart(w))
                                     /\ product = items[item].product
    /\ op = "checkout" => DOMAIN _load_cart(_find_cart(w)) # {}
    /\ op = "sync" => w[2] = "user"
    /\ op = "get" => ActiveCarts(w) = {}
    /\ guest = IF op = "sync" THEN _find_cart(<<w[1], "guest">>) ELSE 0

LEMMA RequestsRead ==
    ASSUME ShopInv, NEW s, NEW w \in Owners, NEW op, NEW product, NEW item, NEW q \in Nat,
           NEW guest, Suits(w, op, product, item, guest),
           Begin(s, w, op, product, item, q, guest)
    PROVE  \E r : Begins(s, r)
<1> DEFINE r == [op |-> op, owner |-> w, cart |-> _find_cart(w),
                 view |-> _load_cart(_find_cart(w)), product |-> product, item |-> item,
                 quantity |-> q, guest |-> guest, gview |-> _load_cart(guest)]
<1>1. \A u : _find_cart(u) \in CartIds \cup {0} BY CartFound DEF ActiveCarts
<1>2. items \in Items BY DEF ShopInv, ShopTypes
<1>3. \A k : IsView(_load_cart(k)) BY <1>2 DEF Items, IsView, _load_cart
<1>4. \A k : \A i \in DOMAIN _load_cart(k) : _load_cart(k)[i] = items[i] BY DEF _load_cart
<1>5. ShopRequest(r) BY <1>1, <1>3, <1>4 DEF ShopRequest, Suits
<1>6. JustRead(r) BY DEF JustRead, Suits
<1>7. Begins(s, r)
  <2>1. r.owner = w OBVIOUS
  <2>2. /\ sess[s] = Free /\ sess' = [sess EXCEPT ![s] = r]
        /\ IF \E z \in Sessions : sess[z].owner[1] = w[1]
           THEN /\ overlapped' = overlapped \cup {w[1]}
                /\ wanted' = [wanted EXCEPT ![w[1]] = [p \in Products |-> 0]]
           ELSE UNCHANGED <<overlapped, wanted>>
        /\ UNCHANGED <<stock, carts, items, orders>>
    BY DEF Begin
  <2> HIDE DEF r
  <2> QED BY <1>5, <1>6, <2>1, <2>2 DEF Begins
<1> QED BY <1>7

\* Whatever a customer begins.
StartsBy(s, w) == \/ BeginGet(s, w)    \/ BeginAdd(s, w)  \/ BeginUpdate(s, w)
                  \/ BeginRemove(s, w) \/ BeginSync(s, w) \/ BeginCheckout(s, w)

LEMMA EachBegins ==
    ASSUME ShopInv, NEW s \in Sessions, NEW w \in Owners, StartsBy(s, w)
    PROVE  \E r : Begins(s, r)
<1>1. CASE BeginGet(s, w)
  <2>1. Suits(w, "get", "none", 0, 0) BY <1>1 DEF BeginGet, Suits
  <2> QED BY <1>1, <2>1, RequestsRead DEF BeginGet
<1>2. CASE BeginAdd(s, w)
  <2>1. PICK p \in Products : Begin(s, w, "add", p, 0, 1, 0) BY <1>2 DEF BeginAdd
  <2>2. Suits(w, "add", p, 0, 0) BY DEF Suits
  <2> QED BY <2>1, <2>2, RequestsRead
<1>3. CASE BeginUpdate(s, w)
  <2>1. PICK i \in DOMAIN _load_cart(_find_cart(w)), q \in 1..MaxWanted :
           Begin(s, w, "update", items[i].product, i, q, 0)
    BY <1>3 DEF BeginUpdate
  <2>2. Suits(w, "update", items[i].product, i, 0) BY DEF Suits
  <2>3. q \in Nat OBVIOUS
  <2> QED BY <2>1, <2>2, <2>3, RequestsRead
<1>4. CASE BeginRemove(s, w)
  <2>1. PICK i \in DOMAIN _load_cart(_find_cart(w)) :
           Begin(s, w, "remove", items[i].product, i, 0, 0)
    BY <1>4 DEF BeginRemove
  <2>2. Suits(w, "remove", items[i].product, i, 0) BY DEF Suits
  <2> QED BY <2>1, <2>2, RequestsRead
<1>5. CASE BeginSync(s, w)
  <2>1. Suits(w, "sync", "none", 0, _find_cart(<<w[1], "guest">>)) BY <1>5 DEF BeginSync, Suits
  <2> QED BY <1>5, <2>1, RequestsRead DEF BeginSync
<1>6. CASE BeginCheckout(s, w)
  <2>1. Suits(w, "checkout", "none", 0, 0) BY <1>6 DEF BeginCheckout, Suits
  <2> QED BY <1>6, <2>1, RequestsRead DEF BeginCheckout
<1> QED BY <1>1, <1>2, <1>3, <1>4, <1>5, <1>6 DEF StartsBy

LEMMA BeginKeeps ==
    ASSUME ShopInv, NEW s \in Sessions, NEW r, Begins(s, r)
    PROVE  ShopInv'
<1>1. /\ r.owner \in Owners /\ r.owner[1] \in Customers
      /\ r.cart \in CartIds \cup {0} /\ r.guest \in CartIds \cup {0}
  BY DEF Begins, ShopRequest, Owners
<1>2. r.cart # 0 => carts[r.cart].owner = r.owner
  BY CartFound DEF Begins, JustRead, ActiveCarts
<1>3. r.guest # 0 => /\ r.op = "sync" /\ r.owner[2] = "user"
                     /\ carts[r.guest].owner = <<r.owner[1], "guest">>
  BY CartFound DEF Begins, JustRead, ActiveCarts
<1>4. Reads(r.view, r.owner[1]) /\ Reads(r.gview, r.owner[1])
  <2>1. /\ r.cart # 0 => carts[r.cart].owner[1] = r.owner[1]
        /\ r.guest # 0 => carts[r.guest].owner[1] = r.owner[1]
    BY <1>2, <1>3
  <2>2. r.view = _load_cart(r.cart) /\ r.gview = _load_cart(r.guest) BY DEF Begins, JustRead
  <2> QED BY <1>1, <2>1, <2>2, ViewIs
<1>5. r.op = "checkout" => r.cart # 0
  <2> SUFFICES ASSUME r.op = "checkout", r.cart = 0 PROVE FALSE OBVIOUS
  <2>1. DOMAIN r.view # {} /\ r.view = _load_cart(0) BY DEF Begins, ShopRequest, JustRead
  <2> QED BY <2>1 DEF _load_cart
<1>6. ReadsItsOwn(r) BY <1>2, <1>3, <1>4, <1>5 DEF ReadsItsOwn
<1>7. UNCHANGED <<stock, carts, items, orders>> /\ sess' = [sess EXCEPT ![s] = r]
  BY DEF Begins
<1>8. \A z \in Sessions : sess'[z] = IF z = s THEN r ELSE sess[z]
  BY <1>7 DEF ShopInv, ShopTypes
<1>9. wanted' \in [Customers -> [Products -> Int]]
  BY <1>1 DEF ShopInv, ShopTypes, Begins
<1>10. ShopTypes'
  <2>1. ShopRequest(r) /\ sess' = [z \in Sessions |-> sess'[z]]
    BY <1>7 DEF Begins, ShopInv, ShopTypes
  <2> QED BY <1>7, <1>8, <1>9, <2>1 DEF ShopInv, ShopTypes
<1>11. \A q : ReadsItsOwn(q) => ReadsItsOwn(q)'
  BY <1>7 DEF ReadsItsOwn, Reads, RowOf
<1>12. Owned' BY <1>6, <1>7, <1>8, <1>11 DEF ShopInv, Owned
<1> QED BY <1>10, <1>12 DEF ShopInv

-------------------------------------------------------------------------------
(* What a request writes                                                       *)

\* Carts and rows that a request of customer c may touch: its own, and new ones.
CartWritten(k, c) ==
    /\ carts[k] = NoCart \/ (carts[k].owner[1] = c /\ carts'[k].owner = carts[k].owner)
    /\ carts'[k].owner \in Owners /\ carts'[k].owner[1] = c

RowWritten(i, c) ==
    /\ items[i] = NoItem \/ /\ items[i].product \in Products /\ RowOf(i, c)
                            /\ items'[i].product = items[i].product
                            /\ items[i].cart = 0 => items'[i].cart = 0
    /\ items'[i].product \in Products
    /\ items'[i].cart # 0 => /\ carts'[items'[i].cart].owner \in Owners
                             /\ carts'[items'[i].cart].owner[1] = c

Writes(c) ==
    /\ carts' \in Carts /\ items' \in Items
    /\ \A k \in CartIds : carts'[k] = carts[k] \/ CartWritten(k, c)
    /\ \A i \in ItemIds : items'[i] = items[i] \/ RowWritten(i, c)

\* A request at the end of its work.
Ends(s, r) ==
    /\ r = sess[s] /\ r # Free /\ ShopRequest(r) /\ ReadsItsOwn(r)
    /\ sess' = [sess EXCEPT ![s] = Free] /\ overlapped' = overlapped

LEMMA WrittenKeeps ==
    ASSUME ShopInv, NEW c, Writes(c)
    PROVE  \A i \in ItemIds : \A d : items[i].product \in Products /\ RowOf(i, d) =>
              items'[i].product = items[i].product /\ RowOf(i, d)'
<1> SUFFICES ASSUME NEW i \in ItemIds, NEW d, items[i].product \in Products, RowOf(i, d)
             PROVE  items'[i].product = items[i].product /\ RowOf(i, d)'
  OBVIOUS
<1>1. items[i] # NoItem BY StorefrontAssumption DEF NoItem
<1>2. /\ items[i].cart \in CartIds \cup {0} /\ items'[i].cart \in CartIds \cup {0}
      /\ \A k \in CartIds : NoCart.owner[1] = "nobody"
  BY DEF ShopInv, ShopTypes, Items, Item, Writes, NoCart, Nobody
<1>3. CASE items'[i] = items[i]
  <2>1. CASE items[i].cart = 0 BY <1>3, <2>1 DEF RowOf
  <2>2. CASE items[i].cart # 0
    <3> DEFINE k == items[i].cart
    <3>1. k \in CartIds /\ carts[k].owner \in Owners /\ carts[k].owner[1] = d
      BY <1>2, <2>2 DEF RowOf, ShopInv, Owned
    <3>2. carts[k] # NoCart BY <3>1 DEF NoCart, Nobody, Owners
    <3>3. carts'[k].owner[1] = d BY <3>1, <3>2 DEF Writes, CartWritten
    <3> QED BY <1>3, <3>3 DEF RowOf
  <2> QED BY <2>1, <2>2
<1>4. CASE items'[i] # items[i]
  <2>1. RowWritten(i, c) BY <1>4 DEF Writes
  <2>2. /\ items'[i].product = items[i].product /\ RowOf(i, c)
        /\ items[i].cart = 0 => items'[i].cart = 0
    BY <1>1, <2>1 DEF RowWritten
  <2>3. RowOf(i, d)'
    <3> SUFFICES ASSUME items'[i].cart # 0 PROVE carts'[items'[i].cart].owner[1] = d
      BY DEF RowOf
    <3>1. carts'[items'[i].cart].owner[1] = c BY <2>1 DEF RowWritten
    <3> QED BY <2>2, <3>1 DEF RowOf
  <2> QED BY <2>2, <2>3
<1> QED BY <1>3, <1>4

\* A request that writes what it may keeps the types, and what the others rely on.
LEMMA EndKeeps ==
    ASSUME ShopInv, NEW s \in Sessions, NEW r, Ends(s, r), Writes(r.owner[1]),
           stock' \in [Products -> Nat], orders' \in SaleOrders,
           wanted' \in [Customers -> [Products -> Int]]
    PROVE  ShopInv'
<1>1. /\ sess' = [z \in Sessions |-> sess'[z]]
      /\ \A z \in Sessions : sess'[z] = IF z = s THEN Free ELSE sess[z]
  BY DEF ShopInv, ShopTypes, Ends
<1>2. ShopTypes' BY <1>1 DEF ShopInv, ShopTypes, Writes
<1>3. \A k \in CartIds : carts'[k].owner = Nobody => carts'[k] = NoCart
  BY DEF ShopInv, Owned, Writes, CartWritten, Owners, Nobody
<1>4. ASSUME NEW k \in CartIds, carts[k].owner \in Owners PROVE carts'[k].owner = carts[k].owner
  BY <1>4 DEF Writes, CartWritten, NoCart, Nobody, Owners
<1>5. ASSUME NEW i \in ItemIds, items'[i].cart # 0
      PROVE  carts'[items'[i].cart].owner \in Owners /\ items'[i].product \in Products
  <2>1. CASE items'[i] = items[i]
    <3>1. /\ items[i].cart \in CartIds /\ carts[items[i].cart].owner \in Owners
          /\ items[i].product \in Products
      BY <1>5, <2>1 DEF ShopInv, ShopTypes, Owned, Items, Item
    <3> QED BY <1>4, <2>1, <3>1
  <2>2. CASE RowWritten(i, r.owner[1]) BY <1>5, <2>2 DEF RowWritten
  <2> QED BY <2>1, <2>2 DEF Writes
<1>6. ASSUME NEW q, ShopRequest(q), ReadsItsOwn(q) PROVE ReadsItsOwn(q)'
  <2>1. ASSUME NEW v, IsView(v), Reads(v, q.owner[1]) PROVE Reads(v, q.owner[1])'
    <3> SUFFICES ASSUME NEW i \in DOMAIN v
                 PROVE  /\ v[i].product \in Products /\ items'[i].product = v[i].product
                        /\ RowOf(i, q.owner[1])'
      BY DEF Reads
    <3>1. i \in ItemIds /\ v[i].product \in Products /\ items[i].product = v[i].product
          /\ RowOf(i, q.owner[1])
      BY <2>1 DEF IsView, Reads
    <3> QED BY <3>1, WrittenKeeps
  <2>2. Reads(q.view, q.owner[1])' /\ Reads(q.gview, q.owner[1])'
    BY <1>6, <2>1 DEF ShopRequest, ReadsItsOwn
  <2>3. /\ q.cart # 0 => carts'[q.cart].owner = q.owner
        /\ q.guest # 0 => carts'[q.guest].owner = <<q.owner[1], "guest">>
    <3>1. q.owner \in Owners /\ <<q.owner[1], "guest">> \in Owners BY <1>6 DEF ShopRequest, Owners
    <3> QED BY <1>4, <1>6, <3>1 DEF ShopRequest, ReadsItsOwn
  <2> QED BY <1>6, <2>2, <2>3 DEF ReadsItsOwn
<1>7. ASSUME NEW z \in Sessions, sess'[z] # Free PROVE ReadsItsOwn(sess[z])'
  <2>1. sess'[z] = sess[z] /\ sess[z] # Free BY <1>1, <1>7
  <2>2. ReadsItsOwn(sess[z]) /\ ShopRequest(sess[z])
    BY <2>1 DEF ShopInv, ShopTypes, Owned
  <2>3. \A q : q = sess[z] => ReadsItsOwn(q)' BY <1>6, <2>2
  <2> QED BY <2>1, <2>3
<1>8. Owned' BY <1>3, <1>5, <1>7 DEF Owned
<1> QED BY <1>2, <1>8 DEF ShopInv

\* A request in the order of the code: what it may assume of itself.
AtWork(r) == ShopRequest(r) /\ ReadsItsOwn(r)

LEMMA CartOpened ==
    ASSUME ShopInv, NEW r, AtWork(r), NEW k \in Target(r)
    PROVE  /\ k \in CartIds /\ Opened(k, r) \in Carts /\ Opened(k, r)[k].owner = r.owner
           /\ r.cart = 0 => /\ carts[k] = NoCart
                            /\ Opened(k, r)[k] = [owner |-> r.owner, is_active |-> TRUE]
           /\ r.cart # 0 => k = r.cart /\ Opened(k, r) = carts
           /\ \A j \in CartIds \ {k} : Opened(k, r)[j] = carts[j]
<1>1. carts \in Carts /\ r.cart \in CartIds \cup {0} /\ r.owner \in Owners
  BY DEF ShopInv, ShopTypes, AtWork, ShopRequest
<1>2. CASE r.cart = 0
  <2>1. k \in DOMAIN carts /\ carts[k] = NoCart BY <1>2 DEF Target, Unused
  <2>2. Opened(k, r) = [carts EXCEPT ![k] = [owner |-> r.owner, is_active |-> TRUE]]
    BY <1>2 DEF Opened
  <2>3. [owner |-> r.owner, is_active |-> TRUE]
           \in [owner : Owners \cup {Nobody}, is_active : BOOLEAN]
    BY <1>1
  <2>6. k \in CartIds BY <1>1, <2>1 DEF Carts
  <2>4. \A j \in CartIds : Opened(k, r)[j] = IF j = k THEN [owner |-> r.owner, is_active |-> TRUE]
                                              ELSE carts[j]
    BY <1>1, <2>1, <2>2 DEF Carts
  <2>5. Opened(k, r) \in Carts BY <1>1, <2>1, <2>2, <2>3 DEF Carts
  <2>7. Opened(k, r)[k] = [owner |-> r.owner, is_active |-> TRUE] BY <2>4, <2>6
  <2>8. Opened(k, r)[k].owner = r.owner BY <2>7
  <2>9. \A j \in CartIds \ {k} : Opened(k, r)[j] = carts[j] BY <2>4
  <2> QED BY <1>2, <2>1, <2>5, <2>6, <2>7, <2>8, <2>9
<1>3. CASE r.cart # 0
  <2>1. k = r.cart /\ k \in CartIds /\ carts[k].owner = r.owner
    BY <1>1, <1>3 DEF Target, AtWork, ReadsItsOwn
  <2> QED BY <1>1, <1>3, <2>1 DEF Opened
<1> QED BY <1>2, <1>3

\* Opening a cart touches only the customer's.
LEMMA CartOpenedWrites ==
    ASSUME ShopInv, NEW r, AtWork(r), NEW k \in Target(r), carts' = Opened(k, r)
    PROVE  /\ carts' \in Carts /\ carts'[k].owner = r.owner
           /\ r.owner \in Owners
           /\ \A j \in CartIds : carts'[j] = carts[j] \/ CartWritten(j, r.owner[1])
<1>1. r.owner \in Owners BY DEF AtWork, ShopRequest
<1>2. \A j \in CartIds \ {k} : carts'[j] = carts[j] BY CartOpened
<1>3. /\ k \in CartIds /\ carts' \in Carts /\ carts'[k].owner = r.owner
      /\ r.cart = 0 => carts[k] = NoCart
      /\ r.cart # 0 => carts' = carts
  BY CartOpened
<1>4. carts'[k] = carts[k] \/ CartWritten(k, r.owner[1]) BY <1>1, <1>3 DEF CartWritten
<1> QED BY <1>1, <1>2, <1>3, <1>4

LEMMA GetWrites ==
    ASSUME ShopInv, NEW r, AtWork(r), get_cart(r)
    PROVE  Writes(r.owner[1]) /\ UNCHANGED <<stock, orders, wanted>>
<1>1. PICK k \in Target(r) : carts' = Opened(k, r) BY DEF get_cart
<1>2. items' = items /\ UNCHANGED <<stock, orders, wanted>> BY DEF get_cart
<1>3. items' \in Items BY <1>2 DEF ShopInv, ShopTypes
<1> QED BY <1>1, <1>2, <1>3, CartOpenedWrites DEF Writes

\* wanted stays a table of integers.
LEMMA WantedTyped ==
    ASSUME ShopInv, NEW r, NEW by \in Int, Wanted(r, by)
    PROVE  wanted' \in [Customers -> [Products -> Int]]
<1>1. wanted \in [Customers -> [Products -> Int]] BY DEF ShopInv, ShopTypes
<1>2. CASE r.owner[1] \in overlapped BY <1>1, <1>2 DEF Wanted
<1>3. CASE r.owner[1] \notin overlapped
  <2> DEFINE c == r.owner[1]
             f == [wanted[c] EXCEPT ![r.product] = @ + by]
  <2>1. wanted' = [wanted EXCEPT ![c] = f] BY <1>3 DEF Wanted
  <2>2. ASSUME c \in Customers PROVE f \in [Products -> Int]
    <3>1. wanted[c] \in [Products -> Int] BY <1>1, <2>2
    <3>2. \A p \in Products : f[p] = IF p = r.product THEN wanted[c][p] + by ELSE wanted[c][p]
      BY <3>1
    <3>3. f = [p \in Products |-> f[p]] BY <3>1
    <3>4. \A p \in Products : wanted[c][p] \in Int BY <3>1
    <3> HIDE DEF f
    <3> QED BY <3>2, <3>3, <3>4
  <2> HIDE DEF f, c
  <2> QED BY <1>1, <2>1, <2>2
<1> QED BY <1>2, <1>3

\* The rows of a view are rows of the table, and the least of them is one of them.
LEMMA RowFound ==
    ASSUME NEW v, IsView(v), NEW p, Rows(v, p) # {}
    PROVE  Min(Rows(v, p)) \in DOMAIN v /\ v[Min(Rows(v, p))].product = p
<1>1. Rows(v, p) \in SUBSET Nat
  BY StorefrontAssumption DEF Rows, IsView, ItemIds
<1>2. Min(Rows(v, p)) \in Rows(v, p) BY <1>1, LeastOfNaturals
<1> QED BY <1>2 DEF Rows

\* A change of the quantity of one of its rows is the customer's.
LEMMA QuantityWrites ==
    ASSUME ShopInv, NEW r, AtWork(r), NEW i \in DOMAIN r.view, NEW q \in Nat,
           items' = [items EXCEPT ![i].quantity = q], carts' = carts
    PROVE  Writes(r.owner[1])
<1>1. /\ i \in ItemIds /\ items \in Items /\ carts \in Carts
      /\ items[i].product \in Products /\ RowOf(i, r.owner[1])
  BY DEF ShopInv, ShopTypes, AtWork, ShopRequest, IsView, ReadsItsOwn, Reads
<1>2. items' \in Items /\ \A j \in ItemIds \ {i} : items'[j] = items[j]
  BY <1>1 DEF Items, Item
<1>3. /\ items'[i].product = items[i].product /\ items'[i].cart = items[i].cart
      /\ items[i].cart \in CartIds \cup {0}
  BY <1>1 DEF Items, Item
<1>4. RowWritten(i, r.owner[1])
  <2>1. items'[i].cart # 0 => carts'[items'[i].cart].owner \in Owners
    BY <1>1, <1>3 DEF ShopInv, Owned
  <2> QED BY <1>1, <1>3, <2>1 DEF RowWritten, RowOf
<1> QED BY <1>1, <1>2, <1>4 DEF Writes

\* A new row in the cart is the customer's.
LEMMA NewRowWrites ==
    ASSUME ShopInv, NEW r, AtWork(r), NEW k \in Target(r), carts' = Opened(k, r),
           NEW i \in Unused(items, NoItem), NEW p \in Products, NEW q \in Nat,
           items' = [items EXCEPT ![i] = [cart |-> k, product |-> p, quantity |-> q]]
    PROVE  Writes(r.owner[1])
<1>1. items \in Items /\ i \in ItemIds /\ items[i] = NoItem /\ k \in CartIds
  BY CartOpened DEF ShopInv, ShopTypes, Unused, Items
<1>2. /\ items' \in Items /\ \A j \in ItemIds \ {i} : items'[j] = items[j]
      /\ items'[i].product = p /\ items'[i].cart = k
  BY <1>1 DEF Items, Item
<1>3. RowWritten(i, r.owner[1]) BY <1>1, <1>2, CartOpenedWrites DEF RowWritten
<1> QED BY <1>2, <1>3, CartOpenedWrites DEF Writes

LEMMA AddWrites ==
    ASSUME ShopInv, NEW r, AtWork(r), r.op = "add", add_to_cart(r)
    PROVE  /\ Writes(r.owner[1]) /\ UNCHANGED <<stock, orders>>
           /\ wanted' \in [Customers -> [Products -> Int]]
<1> DEFINE mine == Rows(r.view, r.product)
<1>1. r.product \in Products /\ r.quantity \in Nat /\ IsView(r.view)
  BY DEF AtWork, ShopRequest
<1>2. wanted' \in [Customers -> [Products -> Int]]
  <2>1. Wanted(r, r.quantity) /\ r.quantity \in Int BY <1>1 DEF add_to_cart
  <2> QED BY <2>1, WantedTyped
<1>3. CASE mine = {}
  <2>1. PICK k \in Target(r), i \in Unused(items, NoItem) :
           /\ carts' = Opened(k, r)
           /\ items' = [items EXCEPT ![i] = [cart |-> k, product |-> r.product,
                                             quantity |-> r.quantity]]
    BY <1>3 DEF add_to_cart
  <2>2. Writes(r.owner[1]) BY <1>1, <2>1, NewRowWrites
  <2> QED BY <1>2, <2>2 DEF add_to_cart
<1>4. CASE mine # {}
  <2>1. Min(mine) \in DOMAIN r.view BY <1>1, <1>4, RowFound
  <2>2. items' = [items EXCEPT ![Min(mine)].quantity = Sum(r, r.view[Min(mine)])]
        /\ carts' = carts
    BY <1>4 DEF add_to_cart
  <2>3. Sum(r, r.view[Min(mine)]) \in Nat BY <1>1, <2>1 DEF Sum, IsView, Item
  <2> HIDE DEF mine
  <2>4. Writes(r.owner[1]) BY <2>1, <2>2, <2>3, QuantityWrites
  <2> QED BY <1>2, <2>4 DEF add_to_cart
<1> QED BY <1>3, <1>4

LEMMA UpdateWrites ==
    ASSUME ShopInv, NEW r, AtWork(r), r.op = "update", update_cart_item(r)
    PROVE  /\ Writes(r.owner[1]) /\ UNCHANGED <<stock, orders>>
           /\ wanted' \in [Customers -> [Products -> Int]]
<1> DEFINE old == r.view[r.item].quantity
           q == IF r.quantity = old THEN items[r.item].quantity ELSE r.quantity
<1>1. r.item \in DOMAIN r.view /\ r.quantity \in Nat /\ IsView(r.view)
  BY DEF AtWork, ShopRequest
<1>2. r.item \in ItemIds /\ old \in Nat /\ items[r.item].quantity \in Nat
  BY <1>1 DEF IsView, Item, ShopInv, ShopTypes, Items
<1>3. wanted' \in [Customers -> [Products -> Int]]
  <2>1. Wanted(r, r.quantity - old) /\ r.quantity - old \in Int BY <1>1, <1>2 DEF update_cart_item
  <2> QED BY <2>1, WantedTyped
<1>4. items' = [items EXCEPT ![r.item].quantity = q] /\ carts' = carts
  BY DEF update_cart_item
<1>5. q \in Nat BY <1>1, <1>2
<1> HIDE DEF q
<1>6. Writes(r.owner[1]) BY <1>1, <1>4, <1>5, QuantityWrites
<1> QED BY <1>3, <1>6 DEF update_cart_item

\* A row that is removed keeps its product.
LEMMA RemovedIs ==
    ASSUME items \in Items, NEW i \in ItemIds
    PROVE  /\ Removed(i) \in Item /\ Removed(i).cart = 0
           /\ Removed(i).product = items[i].product
<1>1. items[i] \in Item BY DEF Items
<1>2. Removed(i) = [items[i] EXCEPT !.cart = 0, !.quantity = 0] BY DEF Removed
<1>3. 0 \in CartIds \cup {0} /\ 0 \in Nat OBVIOUS
<1> QED BY ONLY <1>1, <1>2, <1>3 DEF Item

LEMMA RemoveWrites ==
    ASSUME ShopInv, NEW r, AtWork(r), r.op = "remove", remove_from_cart(r)
    PROVE  /\ Writes(r.owner[1]) /\ UNCHANGED <<stock, orders>>
           /\ wanted' \in [Customers -> [Products -> Int]]
<1>1. r.item \in DOMAIN r.view /\ IsView(r.view) BY DEF AtWork, ShopRequest
<1>2. r.item \in ItemIds /\ r.view[r.item].quantity \in Nat BY <1>1 DEF IsView, Item
<1>3. wanted' \in [Customers -> [Products -> Int]]
  <2> DEFINE by == -r.view[r.item].quantity
  <2>1. Wanted(r, by) /\ by \in Int BY <1>2 DEF remove_from_cart
  <2> HIDE DEF by
  <2> QED BY <2>1, WantedTyped
<1>4. /\ items \in Items /\ carts \in Carts
      /\ items[r.item].product \in Products /\ RowOf(r.item, r.owner[1])
  BY <1>1 DEF ShopInv, ShopTypes, AtWork, ReadsItsOwn, Reads
<1>5. items' = [items EXCEPT ![r.item] = Removed(r.item)] /\ carts' = carts
  BY DEF remove_from_cart
<1>6. /\ Removed(r.item) \in Item /\ Removed(r.item).cart = 0
      /\ Removed(r.item).product = items[r.item].product
  BY <1>2, <1>4, RemovedIs
<1>7. /\ items' \in Items /\ \A j \in ItemIds \ {r.item} : items'[j] = items[j]
      /\ items'[r.item].product = items[r.item].product /\ items'[r.item].cart = 0
  BY <1>2, <1>4, <1>5, <1>6 DEF Items
<1>8. RowWritten(r.item, r.owner[1]) BY <1>4, <1>7 DEF RowWritten
<1>9. Writes(r.owner[1]) BY <1>4, <1>5, <1>7, <1>8 DEF Writes
<1> QED BY <1>3, <1>9 DEF remove_from_cart

\* What sync_cart computes from the two views.
Into(r, g) == Rows(r.view, r.gview[g].product)
Merged(r)  == {g \in DOMAIN r.gview : Into(r, g) # {}}
Added(r, i) == MapThenSumSet(LAMBDA g : r.gview[g].quantity,
                             {g \in Merged(r) : Min(Into(r, g)) = i})
Written(r) == (DOMAIN r.gview \ Merged(r)) \cup {i \in DOMAIN r.view : Added(r, i) > 0}

\* The carts and the rows after a synchronisation into cart k.
CartsSynced(r, k) == [i \in CartIds |-> IF i = r.guest THEN [carts[i] EXCEPT !.is_active = FALSE]
                                        ELSE Opened(k, r)[i]]
RowsSynced(r, k) ==
    [i \in ItemIds |->
        IF i \in Merged(r) THEN Removed(i)
        ELSE IF i \in DOMAIN r.gview THEN [items[i] EXCEPT !.cart = k]
        ELSE IF i \in Written(r)
             THEN [items[i] EXCEPT !.quantity = r.view[i].quantity + Added(r, i)]
             ELSE items[i]]

LEMMA SyncIs ==
    ASSUME NEW r, sync_cart(r)
    PROVE  /\ \A i \in Written(r) : items[i].cart # 0
           /\ \E k \in Target(r) : carts' = CartsSynced(r, k) /\ items' = RowsSynced(r, k)
           /\ UNCHANGED <<stock, orders, wanted>>
BY DEF sync_cart, Into, Merged, Added, Written, CartsSynced, RowsSynced

\* The quantities of a view; any sum of them is a natural number.
Amounts(v) == [i \in DOMAIN v |-> v[i].quantity]

LEMMA ViewSum ==
    ASSUME NEW v, IsView(v), NEW S, S \subseteq DOMAIN v
    PROVE  IsFiniteSet(S) /\ SumOf(Amounts(v), S) \in Nat
<1> DEFINE h == Amounts(v)
           D == DOMAIN v
<1>1. IsFiniteSet(D)
  <2>1. IsFiniteSet(1..MaxItems) BY FS_Interval, StorefrontAssumption
  <2> QED BY <2>1, FS_Subset DEF IsView, ItemIds
<1>2. IsFiniteSet(S) BY <1>1, FS_Subset
<1>3. \A i \in D : h[i] \in Nat BY DEF IsView, Item, Amounts
<1>4. SumOf(h, S) \in Nat
  <2>1. S \in SUBSET D OBVIOUS
  <2> HIDE DEF h, D
  <2> QED BY <1>1, <1>3, <2>1, SumMonotone
<1> QED BY <1>2, <1>4

LEMMA AddedTyped ==
    ASSUME NEW r, ShopRequest(r), NEW i
    PROVE  /\ Added(r, i) \in Nat
           /\ Added(r, i) = SumOf(Amounts(r.gview), {g \in Merged(r) : Min(Into(r, g)) = i})
<1> DEFINE S == {g \in Merged(r) : Min(Into(r, g)) = i}
<1>1. IsView(r.gview) /\ S \subseteq DOMAIN r.gview BY DEF ShopRequest, Merged
<1>2. SumOf(Amounts(r.gview), S) \in Nat
  <2> HIDE DEF S
  <2> QED BY <1>1, ViewSum
<1>3. Added(r, i) = SumOf(Amounts(r.gview), S)
  BY ZenonT(30) DEF Added, Amounts, SumOf, MapThenSumSet, MapThenFoldSet, Merged
<1> QED BY <1>2, <1>3

LEMMA SyncWrites ==
    ASSUME ShopInv, NEW r, AtWork(r), r.op = "sync", sync_cart(r)
    PROVE  Writes(r.owner[1]) /\ UNCHANGED <<stock, orders, wanted>>
<1> DEFINE c == r.owner[1]
<1>1. PICK k \in Target(r) : carts' = CartsSynced(r, k) /\ items' = RowsSynced(r, k)
  BY SyncIs
<1>2. /\ k \in CartIds /\ Opened(k, r) \in Carts /\ Opened(k, r)[k].owner = r.owner
      /\ r.cart = 0 => carts[k] = NoCart
      /\ r.cart # 0 => k = r.cart /\ Opened(k, r) = carts
      /\ \A j \in CartIds \ {k} : Opened(k, r)[j] = carts[j]
  BY <1>1, CartOpened
<1>3. /\ carts \in Carts /\ items \in Items /\ ShopRequest(r) /\ r.owner \in Owners
      /\ r.guest \in CartIds \cup {0}
      /\ r.cart # 0 => carts[r.cart].owner = r.owner
      /\ r.guest # 0 => r.owner[2] = "user" /\ carts[r.guest].owner = <<c, "guest">>
      /\ Reads(r.view, c) /\ Reads(r.gview, c)
      /\ DOMAIN r.view \subseteq ItemIds /\ DOMAIN r.gview \subseteq ItemIds
  BY DEF ShopInv, ShopTypes, AtWork, ShopRequest, ReadsItsOwn, IsView
<1>4. c \in Customers BY <1>3 DEF Owners
<1>5. k # r.guest
  <2> SUFFICES ASSUME k = r.guest PROVE FALSE OBVIOUS
  <2>1. r.owner[2] = "user" /\ carts[k].owner = <<c, "guest">>
    BY <1>2, <1>3, StorefrontAssumption DEF CartIds
  <2>2. CASE r.cart = 0 BY <1>2, <1>4, <2>1, <2>2 DEF NoCart, Nobody
  <2>3. CASE r.cart # 0
    <3>1. r.owner = <<c, "guest">> BY <1>2, <1>3, <2>1, <2>3
    <3> QED BY <2>1, <3>1
  <2> QED BY <2>2, <2>3
<1>6. /\ carts' \in Carts /\ carts'[k].owner = r.owner
      /\ \A j \in CartIds : j # k => carts'[j].owner = carts[j].owner
  <2>1. \A j \in CartIds : carts'[j] = IF j = r.guest THEN [carts[j] EXCEPT !.is_active = FALSE]
                                       ELSE Opened(k, r)[j]
    BY <1>1 DEF CartsSynced
  <2>3. ASSUME NEW j \in CartIds
        PROVE  /\ carts'[j] \in [owner : Owners \cup {Nobody}, is_active : BOOLEAN]
               /\ j # k => carts'[j].owner = carts[j].owner
    <3>1. CASE j = r.guest
      <4>1. carts[j] \in [owner : Owners \cup {Nobody}, is_active : BOOLEAN] BY <1>3 DEF Carts
      <4>2. carts'[j] = [carts[j] EXCEPT !.is_active = FALSE] BY <2>1, <3>1
      <4> QED BY ONLY <4>1, <4>2
    <3>2. CASE j # r.guest
      <4>1. carts'[j] = Opened(k, r)[j] BY <2>1, <3>2
      <4> QED BY <1>2, <4>1 DEF Carts
    <3> QED BY <3>1, <3>2
  <2>4. carts' = [j \in CartIds |-> carts'[j]] BY <1>1 DEF CartsSynced
  <2>5. carts' \in Carts BY <2>3, <2>4 DEF Carts
  <2>6. carts'[k].owner = r.owner BY <1>2, <1>5, <2>1
  <2> QED BY <2>3, <2>5, <2>6
<1>7. ASSUME NEW j \in CartIds PROVE carts'[j] = carts[j] \/ CartWritten(j, c)
  <2>1. CASE j = k
    <3>1. r.cart # 0 => carts'[k] = carts[k] BY <1>1, <1>2, <1>5 DEF CartsSynced
    <3> QED BY <1>2, <1>3, <1>6, <2>1, <3>1 DEF CartWritten
  <2>2. CASE j = r.guest
    <3>1. /\ carts[j].owner = <<c, "guest">> /\ carts'[j].owner = carts[j].owner
          /\ <<c, "guest">> \in Owners
      BY <1>3, <1>4, <1>5, <1>6, <2>2 DEF CartIds, Owners
    <3> QED BY <3>1 DEF CartWritten
  <2>3. CASE j # k /\ j # r.guest BY <1>1, <1>2, <2>3 DEF CartsSynced
  <2> QED BY <2>1, <2>2, <2>3
<1>8. \A i \in ItemIds : items'[i] = RowsSynced(r, k)[i] BY <1>1
<1>9. ASSUME NEW i \in ItemIds
      PROVE  items'[i] \in Item /\ (items'[i] = items[i] \/ RowWritten(i, c))
  <2>1. items[i] \in Item BY <1>3 DEF Items
  <2>2. CASE i \in Merged(r)
    <3>1. items[i].product \in Products /\ RowOf(i, c) BY <1>3, <2>2 DEF Merged, Reads
    <3>2. items'[i] = Removed(i) BY <1>8, <2>2 DEF RowsSynced
    <3>3. items'[i] \in Item /\ items'[i].cart = 0 /\ items'[i].product = items[i].product
      <4>1. /\ Removed(i) \in Item /\ Removed(i).cart = 0
            /\ Removed(i).product = items[i].product
        BY <1>3, RemovedIs
      <4> QED BY <3>2, <4>1
    <3> QED BY <3>1, <3>3 DEF RowWritten
  <2>3. CASE i \notin Merged(r) /\ i \in DOMAIN r.gview
    <3>1. items[i].product \in Products /\ RowOf(i, c) BY <1>3, <2>3 DEF Reads
    <3>2. items'[i] = [items[i] EXCEPT !.cart = k] BY <1>8, <2>3 DEF RowsSynced
    <3>3. items[i].cart # 0 BY <2>3, SyncIs DEF Written
    <3>4. items'[i] \in Item /\ items'[i].cart = k /\ items'[i].product = items[i].product
      BY <1>2, <2>1, <3>2 DEF Item
    <3> QED BY <1>3, <1>6, <3>1, <3>3, <3>4 DEF RowWritten
  <2>4. CASE i \notin DOMAIN r.gview /\ i \in Written(r)
    <3>1. i \in DOMAIN r.view /\ i \notin Merged(r) BY <2>4 DEF Written, Merged
    <3>2. items[i].product \in Products /\ RowOf(i, c) /\ items[i].cart # 0
      BY <1>3, <2>4, <3>1, SyncIs DEF Reads
    <3>3. items'[i] = [items[i] EXCEPT !.quantity = r.view[i].quantity + Added(r, i)]
      BY <1>8, <2>4, <3>1 DEF RowsSynced
    <3>4. r.view[i].quantity + Added(r, i) \in Nat
      <4>1. Added(r, i) \in Nat BY <1>3, AddedTyped
      <4>2. r.view[i].quantity \in Nat BY <1>3, <3>1 DEF ShopRequest, IsView, Item
      <4> QED BY <4>1, <4>2
    <3>5. /\ items'[i] \in Item /\ items'[i].cart = items[i].cart
          /\ items'[i].product = items[i].product
      BY <2>1, <3>3, <3>4 DEF Item
    <3>6. /\ items[i].cart \in CartIds /\ carts[items[i].cart].owner \in Owners
          /\ carts[items[i].cart].owner[1] = c
      BY <2>1, <3>2 DEF Item, RowOf, ShopInv, Owned
    <3>7. carts'[items[i].cart].owner \in Owners /\ carts'[items[i].cart].owner[1] = c
      BY <1>3, <1>6, <3>6
    <3> QED BY <3>2, <3>5, <3>7 DEF RowWritten
  <2>5. CASE i \notin DOMAIN r.gview /\ i \notin Written(r)
    <3>1. i \notin Merged(r) BY <2>5 DEF Merged
    <3>2. items'[i] = items[i] BY <1>8, <2>5, <3>1 DEF RowsSynced
    <3> QED BY <2>1, <3>2
  <2> QED BY <2>2, <2>3, <2>4, <2>5
<1>10. items' \in Items
  <2>1. items' = [i \in ItemIds |-> items'[i]] BY <1>1 DEF RowsSynced
  <2> QED BY <1>9, <2>1 DEF Items
<1> QED BY <1>6, <1>7, <1>9, <1>10, SyncIs DEF Writes

\* What the order is about: the units of every product in the view.
Lines(r) == [p \in Products |-> Quantity(r.view, p)]

LEMMA QuantityTyped ==
    ASSUME NEW v, IsView(v), NEW p
    PROVE  Quantity(v, p) = SumOf(Amounts(v), Rows(v, p)) /\ Quantity(v, p) \in Nat
<1>1. Quantity(v, p) = SumOf(Amounts(v), Rows(v, p))
  BY ZenonT(30) DEF Quantity, SumOf, MapThenSumSet, MapThenFoldSet, Amounts, Rows
<1>2. Rows(v, p) \subseteq DOMAIN v BY DEF Rows
<1> QED BY <1>1, <1>2, ViewSum

\* A cart of the customer may be closed.
LEMMA CloseWrites ==
    ASSUME ShopInv, NEW r, AtWork(r), r.cart # 0, items' = items,
           carts' = [carts EXCEPT ![r.cart].is_active = FALSE]
    PROVE  Writes(r.owner[1])
<1>1. /\ carts \in Carts /\ items' \in Items /\ r.cart \in CartIds /\ r.owner \in Owners
      /\ carts[r.cart].owner = r.owner
  BY DEF ShopInv, ShopTypes, AtWork, ShopRequest, ReadsItsOwn
<1>2. \A k \in CartIds : k # r.cart => carts'[k] = carts[k] BY <1>1 DEF Carts
<1>3. /\ carts'[r.cart] \in [owner : Owners \cup {Nobody}, is_active : BOOLEAN]
      /\ carts'[r.cart].owner = carts[r.cart].owner
  <2>1. carts[r.cart] \in [owner : Owners \cup {Nobody}, is_active : BOOLEAN]
    BY <1>1 DEF Carts
  <2>2. carts'[r.cart] = [carts[r.cart] EXCEPT !.is_active = FALSE] BY <1>1 DEF Carts
  <2> QED BY ONLY <2>1, <2>2
<1>4. carts' \in Carts
  <2>1. carts' = [k \in CartIds |-> carts'[k]] BY <1>1 DEF Carts
  <2> QED BY <1>1, <1>2, <1>3, <2>1 DEF Carts
<1>5. CartWritten(r.cart, r.owner[1]) BY <1>1, <1>3 DEF CartWritten
<1> QED BY <1>1, <1>2, <1>4, <1>5 DEF Writes

\* The new order, and the units taken for it.
LEMMA CheckoutIs ==
    ASSUME ShopInv, NEW r, AtWork(r), r.op = "checkout", checkout(r)
    PROVE  /\ r.cart \in CartIds /\ Lines(r) \in [Products -> Nat]
           /\ \A p \in Products \ Dropshipped : stock[p] >= Lines(r)[p]
           /\ \A p \in Products : stock'[p] = IF p \in Dropshipped THEN stock[p]
                                              ELSE stock[p] - Lines(r)[p]
           /\ stock' \in [Products -> Nat]
           /\ \E o \in OrderIds, state \in {"draft", "sent"} :
                 /\ orders[o] = NoOrder
                 /\ orders' = [orders EXCEPT ![o] = [owner |-> r.owner, cart |-> r.cart,
                                                     lines |-> Lines(r), state |-> state]]
           /\ carts' = [carts EXCEPT ![r.cart].is_active = FALSE]
           /\ UNCHANGED <<items, wanted>>
<1>1. r.cart \in CartIds /\ IsView(r.view) BY DEF AtWork, ShopRequest, ReadsItsOwn
<1>2. Lines(r) \in [Products -> Nat] BY <1>1, QuantityTyped DEF Lines
<1>3. stock \in [Products -> Nat] /\ DOMAIN orders = OrderIds
  BY DEF ShopInv, ShopTypes, SaleOrders
<1>4. _reserve_non_dropship_stock(Lines(r)) BY DEF checkout, Lines
<1>5. /\ \A p \in Products \ Dropshipped : stock[p] >= Lines(r)[p]
      /\ \A p \in Products : stock'[p] = IF p \in Dropshipped THEN stock[p]
                                         ELSE stock[p] - Lines(r)[p]
      /\ stock' = [p \in Products |-> stock'[p]]
  BY <1>4 DEF _reserve_non_dropship_stock
<1>6. stock' \in [Products -> Nat]
  <2>1. \A p \in Products : stock'[p] \in Nat BY <1>2, <1>3, <1>5
  <2> QED BY <1>5, <2>1
<1>7. \E o \in OrderIds, state \in {"draft", "sent"} :
         /\ orders[o] = NoOrder
         /\ orders' = [orders EXCEPT ![o] = [owner |-> r.owner, cart |-> r.cart,
                                             lines |-> Lines(r), state |-> state]]
  BY <1>3 DEF checkout, Lines, Unused
<1>8. carts' = [carts EXCEPT ![r.cart].is_active = FALSE] /\ UNCHANGED <<items, wanted>>
  BY DEF checkout
<1> QED BY <1>1, <1>2, <1>5, <1>6, <1>7, <1>8

LEMMA CheckoutWrites ==
    ASSUME ShopInv, NEW r, AtWork(r), r.op = "checkout", checkout(r)
    PROVE  /\ Writes(r.owner[1]) /\ wanted' = wanted
           /\ stock' \in [Products -> Nat] /\ orders' \in SaleOrders
<1>1. /\ r.cart \in CartIds /\ Lines(r) \in [Products -> Nat] /\ stock' \in [Products -> Nat]
      /\ carts' = [carts EXCEPT ![r.cart].is_active = FALSE] /\ UNCHANGED <<items, wanted>>
  BY CheckoutIs
<1>2. PICK o \in OrderIds, state \in {"draft", "sent"} :
         orders' = [orders EXCEPT ![o] = [owner |-> r.owner, cart |-> r.cart,
                                          lines |-> Lines(r), state |-> state]]
  BY CheckoutIs
<1>3. orders' \in SaleOrders
  <2>1. orders \in SaleOrders /\ r.owner \in Owners BY DEF ShopInv, ShopTypes, AtWork, ShopRequest
  <2> DEFINE q == [owner |-> r.owner, cart |-> r.cart, lines |-> Lines(r), state |-> state]
  <2>2. q \in [owner : Owners \cup {Nobody}, cart : CartIds \cup {0},
               lines : [Products -> Nat], state : {"none", "draft", "sent"}]
    BY <1>1, <2>1
  <2> HIDE DEF q
  <2>3. orders' = [orders EXCEPT ![o] = q] BY <1>2 DEF q
  <2> QED BY <2>1, <2>2, <2>3 DEF SaleOrders
<1>4. r.cart # 0 BY <1>1, StorefrontAssumption DEF CartIds
<1> QED BY <1>1, <1>3, <1>4, CloseWrites

-------------------------------------------------------------------------------
(* Steps                                                                       *)

\* The kinds of work a request may finish with.
Works(r) == \/ (r.op = "get" /\ get_cart(r))
            \/ (r.op = "add" /\ add_to_cart(r))
            \/ (r.op = "update" /\ update_cart_item(r))
            \/ (r.op = "remove" /\ remove_from_cart(r))
            \/ (r.op = "sync" /\ sync_cart(r))
            \/ (r.op = "checkout" /\ checkout(r))

GaveUp(s) == Ends(s, sess[s]) /\ UNCHANGED <<stock, carts, items, orders, wanted>>

\* Every step begins a request, finishes one, or gives one up.
LEMMA StepIs ==
    ASSUME ShopInv, StorefrontNext
    PROVE  \E s \in Sessions : \/ \E r : Begins(s, r)
                               \/ Ends(s, sess[s]) /\ Works(sess[s])
                               \/ GaveUp(s)
<1>1. PICK s \in Sessions :
         \/ \E w \in Owners : StartsBy(s, w)
         \/ FinishGet(s)    \/ FinishAdd(s)  \/ FinishUpdate(s)
         \/ FinishRemove(s) \/ FinishSync(s) \/ FinishCheckout(s)
         \/ Rollback(s)
  BY DEF StorefrontNext, StartsBy
<1>2. sess[s] # Free /\ End(s) => Ends(s, sess[s])
  BY DEF End, Ends, ShopInv, ShopTypes, Owned
<1>3. \A op \in {"get", "add", "update", "remove", "sync", "checkout"} :
         sess[s].op = op => sess[s] # Free
  BY DEF Free
<1>4. CASE \E w \in Owners : StartsBy(s, w) BY <1>4, EachBegins
<1>5. CASE \/ FinishGet(s)    \/ FinishAdd(s)  \/ FinishUpdate(s)
           \/ FinishRemove(s) \/ FinishSync(s) \/ FinishCheckout(s)
  <2>1. End(s) /\ Works(sess[s]) /\ sess[s] # Free
    BY <1>3, <1>5 DEF Works, FinishGet, FinishAdd, FinishUpdate, FinishRemove, FinishSync,
       FinishCheckout
  <2> QED BY <1>2, <2>1
<1>6. CASE Rollback(s) BY <1>2, <1>6 DEF Rollback, GaveUp
<1> QED BY <1>1, <1>4, <1>5, <1>6

\* What a request does at its end is on what its customer owns, and keeps the types.
LEMMA WorkKeeps ==
    ASSUME ShopInv, NEW r, AtWork(r), Works(r)
    PROVE  /\ Writes(r.owner[1])
           /\ stock' \in [Products -> Nat] /\ orders' \in SaleOrders
           /\ wanted' \in [Customers -> [Products -> Int]]
           /\ r.op # "checkout" => UNCHANGED <<stock, orders>>
<1>1. /\ stock \in [Products -> Nat] /\ orders \in SaleOrders
      /\ wanted \in [Customers -> [Products -> Int]]
  BY DEF ShopInv, ShopTypes
<1>2. CASE r.op = "get" /\ get_cart(r) BY <1>1, <1>2, GetWrites
<1>3. CASE r.op = "add" /\ add_to_cart(r) BY <1>1, <1>3, AddWrites
<1>4. CASE r.op = "update" /\ update_cart_item(r) BY <1>1, <1>4, UpdateWrites
<1>5. CASE r.op = "remove" /\ remove_from_cart(r) BY <1>1, <1>5, RemoveWrites
<1>6. CASE r.op = "sync" /\ sync_cart(r) BY <1>1, <1>6, SyncWrites
<1>7. CASE r.op = "checkout" /\ checkout(r) BY <1>1, <1>7, CheckoutWrites
<1> QED BY <1>2, <1>3, <1>4, <1>5, <1>6, <1>7 DEF Works

LEMMA ShopNext == ShopInv /\ [StorefrontNext]_storefrontVars => ShopInv'
<1> SUFFICES ASSUME ShopInv, [StorefrontNext]_storefrontVars PROVE ShopInv' OBVIOUS
<1>1. CASE StorefrontNext
  <2>1. PICK s \in Sessions : \/ \E r : Begins(s, r)
                              \/ Ends(s, sess[s]) /\ Works(sess[s])
                              \/ GaveUp(s)
    BY <1>1, StepIs
  <2>2. CASE \E r : Begins(s, r) BY <2>2, BeginKeeps
  <2>3. CASE Ends(s, sess[s]) /\ Works(sess[s])
    <3>1. AtWork(sess[s]) BY <2>3 DEF Ends, AtWork
    <3> QED BY <2>3, <3>1, WorkKeeps, EndKeeps
  <2>4. CASE GaveUp(s)
    <3>1. UNCHANGED <<stock, carts, items, orders, wanted>> /\ Ends(s, sess[s])
      BY <2>4 DEF GaveUp
    <3>2. /\ stock' \in [Products -> Nat] /\ orders' \in SaleOrders
          /\ wanted' \in [Customers -> [Products -> Int]]
          /\ Writes(sess[s].owner[1])
      BY <3>1 DEF ShopInv, ShopTypes, Writes
    <3> QED BY <3>1, <3>2, EndKeeps
  <2> QED BY <2>1, <2>2, <2>3, <2>4
<1>2. CASE UNCHANGED storefrontVars
  BY <1>2 DEF storefrontVars, ShopInv, ShopTypes, Owned, ReadsItsOwn, Reads, RowOf
<1> QED BY <1>1, <1>2

\* A request touches carts and rows of its own customer only, whatever has been
\* committed since it read them: what it looked up stays the customer's.
THEOREM ShopAlways == StorefrontSpec => []ShopInv
<1> QED BY ShopInit, ShopNext, PTL DEF StorefrontSpec

-------------------------------------------------------------------------------
(* No unit is sold twice                                                       *)

\* The units of a product in each order.
OrderLines(p) == [o \in OrderIds |-> orders[o].lines[p]]

StockInv == \A p \in Products \ Dropshipped : stock[p] + Ordered(p) = InitialStock[p]

LEMMA OrderIdsFinite == IsFiniteSet(OrderIds)
  BY FS_Interval, StorefrontAssumption DEF OrderIds

LEMMA OrderedIs ==
    ASSUME NEW p
    PROVE  /\ Ordered(p) = SumOf(OrderLines(p), OrderIds)
           /\ Ordered(p)' = SumOf(OrderLines(p)', OrderIds)
<1>1. Ordered(p) = SumOf(OrderLines(p), OrderIds)
  BY ZenonT(30) DEF Ordered, SumOf, MapThenSumSet, MapThenFoldSet, OrderLines
<1>2. Ordered(p)' = SumOf(OrderLines(p)', OrderIds)
  BY ZenonT(30) DEF Ordered, SumOf, MapThenSumSet, MapThenFoldSet, OrderLines
<1> QED BY <1>1, <1>2

LEMMA StockInit == StorefrontInit => StockInv
<1> SUFFICES ASSUME StorefrontInit, NEW p \in Products \ Dropshipped
             PROVE  stock[p] + Ordered(p) = InitialStock[p]
  BY DEF StockInv
<1>1. \A o \in OrderIds : OrderLines(p)[o] = 0 BY DEF StorefrontInit, OrderLines, NoOrder
<1>2. Ordered(p) = 0 BY <1>1, OrderedIs, OrderIdsFinite, SumOfNothing
<1> QED BY <1>2, StorefrontAssumption DEF StorefrontInit

\* A new order takes from the stock what it adds to the orders.
LEMMA CheckoutMovesStock ==
    ASSUME ShopInv, StockInv, NEW r, AtWork(r), r.op = "checkout", checkout(r)
    PROVE  StockInv'
<1> SUFFICES ASSUME NEW p \in Products \ Dropshipped
             PROVE  stock'[p] + Ordered(p)' = InitialStock[p]
  BY DEF StockInv
<1>1. /\ Lines(r) \in [Products -> Nat] /\ stock'[p] = stock[p] - Lines(r)[p]
      /\ stock[p] \in Nat /\ orders \in SaleOrders
  BY CheckoutIs DEF ShopInv, ShopTypes
<1>2. PICK o \in OrderIds, state \in {"draft", "sent"} :
         /\ orders[o] = NoOrder
         /\ orders' = [orders EXCEPT ![o] = [owner |-> r.owner, cart |-> r.cart,
                                             lines |-> Lines(r), state |-> state]]
  BY CheckoutIs
<1>3. /\ orders[o].lines[p] = 0 /\ orders'[o].lines[p] = Lines(r)[p]
      /\ \A k \in OrderIds : k # o => orders'[k] = orders[k]
  BY <1>1, <1>2 DEF SaleOrders, NoOrder
<1>4. \A k \in OrderIds : orders[k].lines[p] \in Int BY <1>1 DEF SaleOrders
<1>5. DifferAt(o, OrderLines(p), OrderLines(p)', OrderIds)
  BY <1>1, <1>3, <1>4 DEF DifferAt, OrderLines
<1>6. SumOf(OrderLines(p)', OrderIds) = SumOf(OrderLines(p), OrderIds) + Lines(r)[p]
  <2>1. OrderLines(p)'[o] - OrderLines(p)[o] = Lines(r)[p] BY <1>1, <1>3 DEF OrderLines
  <2>2. SumOf(OrderLines(p)', OrderIds)
          = SumOf(OrderLines(p), OrderIds) + (OrderLines(p)'[o] - OrderLines(p)[o])
    BY <1>5, OrderIdsFinite, SumChanges
  <2> QED BY <2>1, <2>2
<1>7. SumOf(OrderLines(p), OrderIds) \in Int BY <1>5, OrderIdsFinite, SumChanges
<1>8. Ordered(p) = SumOf(OrderLines(p), OrderIds) /\ Ordered(p)' = SumOf(OrderLines(p)', OrderIds)
  BY OrderedIs
<1>9. stock[p] + Ordered(p) = InitialStock[p] BY DEF StockInv
<1> QED BY <1>1, <1>6, <1>7, <1>8, <1>9

LEMMA StockNext == ShopInv /\ StockInv /\ [StorefrontNext]_storefrontVars => StockInv'
<1> SUFFICES ASSUME ShopInv, StockInv, [StorefrontNext]_storefrontVars PROVE StockInv' OBVIOUS
<1>1. CASE UNCHANGED <<stock, orders>>
  <2>1. \A p : OrderLines(p)' = OrderLines(p) BY <1>1 DEF OrderLines
  <2>2. \A p : Ordered(p)' = Ordered(p) BY <2>1, OrderedIs
  <2> QED BY <1>1, <2>2 DEF StockInv
<1>2. CASE StorefrontNext
  <2>1. PICK s \in Sessions : \/ \E r : Begins(s, r)
                              \/ Ends(s, sess[s]) /\ Works(sess[s])
                              \/ GaveUp(s)
    BY <1>2, StepIs
  <2>2. CASE (\E r : Begins(s, r)) \/ GaveUp(s) BY <1>1, <2>2 DEF Begins, GaveUp
  <2>3. CASE Ends(s, sess[s]) /\ Works(sess[s])
    <3>1. AtWork(sess[s]) BY <2>3 DEF Ends, AtWork
    <3>2. sess[s].op # "checkout" => UNCHANGED <<stock, orders>> BY <2>3, <3>1, WorkKeeps
    <3>3. sess[s].op = "checkout" => checkout(sess[s]) BY <2>3 DEF Works
    <3> QED BY <1>1, <3>1, <3>2, <3>3, CheckoutMovesStock
  <2> QED BY <2>1, <2>2, <2>3
<1> QED BY <1>1, <1>2 DEF storefrontVars

\* NothingOversold, whatever carts and checkouts run at once: what was ordered of a
\* local product is what its stock has lost, because the UPDATE that takes the units is
\* conditional on their being there (orders/service.py:537).
THEOREM NothingIsOversold == StorefrontSpec => []NothingOversold
<1>1. ShopInv /\ StockInv => NothingOversold
  BY DEF ShopInv, ShopTypes, StockInv, NothingOversold
<1> QED BY <1>1, ShopInit, ShopNext, StockInit, StockNext, PTL DEF StorefrontSpec

-------------------------------------------------------------------------------
(* The units of a customer with one request at a time                          *)

\* The two owners a customer is: signed in, and as a guest.
Sides(c) == {<<c, "user">>, <<c, "guest">>}

\* The rows of a product in the active carts of an owner.
In(w, p) == {i \in ItemIds : items[i].cart \in ActiveCarts(w) /\ items[i].product = p}

OneCart(w) == \A i, j \in ActiveCarts(w) : i = j
OneRow(w)  == \A p \in Products : \A i, j \in In(w, p) : i = j
Single(w)  == OneCart(w) /\ OneRow(w)

\* The units of a product the owner sees.
Units(w, p) == IF In(w, p) = {} THEN 0 ELSE items[Pick(In(w, p))].quantity

\* What the customer has asked for is in its two carts or ordered.
Sound(c) ==
    /\ \A w \in Sides(c) : Single(w)
    /\ \A p \in Products : wanted[c][p] = OrderedBy(c, p) + Units(<<c, "user">>, p)
                                                           + Units(<<c, "guest">>, p)

\* Its one request in flight has read what is still there.
Undisturbed(c) ==
    /\ \A s, z \in Sessions : /\ sess[s] # Free /\ sess[s].owner[1] = c
                              /\ sess[z] # Free /\ sess[z].owner[1] = c
                              => s = z
    /\ \A s \in Sessions : sess[s] # Free /\ sess[s].owner[1] = c => JustRead(sess[s])

AccountInv == \A c \in Customers \ overlapped : Sound(c) /\ Undisturbed(c)

\* v is what a request reads of the cart of w.
RowsRead(v, w) ==
    /\ DOMAIN v = {i \in ItemIds : items[i].cart \in ActiveCarts(w)}
    /\ \A i \in DOMAIN v : v[i] = items[i]
    /\ \A p : Rows(v, p) = In(w, p)

LEMMA LoadIs ==
    ASSUME NEW w, OneCart(w)
    PROVE  RowsRead(_load_cart(_find_cart(w)), w)
<1> DEFINE k == _find_cart(w)
           v == _load_cart(k)
<1>1. /\ k \in ActiveCarts(w) \cup {0} /\ 0 \notin ActiveCarts(w)
      /\ k = 0 <=> ActiveCarts(w) = {}
  BY CartFound, StorefrontAssumption DEF ActiveCarts, CartIds
<1>2. \A n : n \in ActiveCarts(w) <=> n = k /\ k # 0
  <2> HIDE DEF k
  <2> QED BY <1>1 DEF OneCart
<1>3. DOMAIN v = {i \in ItemIds : items[i].cart = k /\ k # 0} /\ \A i \in DOMAIN v : v[i] = items[i]
  <2> HIDE DEF k
  <2> QED BY DEF _load_cart
<1>4. DOMAIN v = {i \in ItemIds : items[i].cart \in ActiveCarts(w)}
  <2> HIDE DEF k, v
  <2> QED BY <1>2, <1>3
<1>5. \A p : Rows(v, p) = In(w, p)
  <2> HIDE DEF k, v
  <2> QED BY <1>3, <1>4 DEF Rows, In
<1> QED BY <1>3, <1>4, <1>5 DEF RowsRead

LEMMA SumOfOne ==
    ASSUME NEW h, NEW y, h[y] \in Int
    PROVE  SumOf(h, {}) = 0 /\ SumOf(h, {y}) = h[y]
<1>1. IsFiniteSet({y}) /\ IsFiniteSet({}) BY FS_Singleton, FS_EmptySet
<1>2. SumOf(h, {}) = 0 BY <1>1, SumOfNothing
<1>3. SumOf(h, {} \cup {y}) = SumOf(h, {}) + h[y]
  <2>1. {} \in SUBSET {y} /\ y \in {y} \ {} /\ \A x \in {y} : h[x] \in Int OBVIOUS
  <2> QED BY <1>1, <2>1, SumGrows
<1>4. {} \cup {y} = {y} OBVIOUS
<1> QED BY <1>2, <1>3, <1>4

LEMMA PickOne == \A i : Pick({i}) = i
  BY DEF Pick

\* The units of a row that is the only one.
LEMMA UnitsAre ==
    ASSUME NEW w, Single(w), NEW p \in Products
    PROVE  /\ In(w, p) = {} => Units(w, p) = 0
           /\ \A i \in In(w, p) : In(w, p) = {i} /\ Units(w, p) = items[i].quantity
<1>1. ASSUME NEW i \in In(w, p) PROVE In(w, p) = {i} BY DEF Single, OneRow
<1>2. ASSUME NEW i \in In(w, p) PROVE Units(w, p) = items[i].quantity
  <2>1. In(w, p) = {i} BY <1>1
  <2> QED BY <2>1, PickOne DEF Units
<1> QED BY <1>1, <1>2 DEF Units

\* A sum over the rows of a product is their units.
LEMMA RowsSum ==
    ASSUME ShopInv, NEW w, Single(w), NEW p \in Products, NEW v, RowsRead(v, w)
    PROVE  SumOf(Amounts(v), In(w, p)) = Units(w, p) /\ Units(w, p) \in Nat
<1>1. items \in Items BY DEF ShopInv, ShopTypes
<1>2. CASE In(w, p) = {}
  <2>1. SumOf(Amounts(v), {}) = 0 BY FS_EmptySet, SumOfNothing
  <2> QED BY <1>2, <2>1, UnitsAre
<1>3. CASE In(w, p) # {}
  <2>1. PICK i \in In(w, p) : TRUE BY <1>3
  <2>2. In(w, p) = {i} /\ Units(w, p) = items[i].quantity BY UnitsAre
  <2>3. i \in DOMAIN v /\ v[i] = items[i] /\ items[i].quantity \in Nat
    BY <1>1 DEF RowsRead, In, Items, Item
  <2>4. Amounts(v)[i] = items[i].quantity BY <2>3 DEF Amounts
  <2>5. SumOf(Amounts(v), {i}) = Amounts(v)[i] BY <2>3, <2>4, SumOfOne
  <2> QED BY <2>2, <2>3, <2>4, <2>5
<1> QED BY <1>2, <1>3

LEMMA QuantityIs ==
    ASSUME ShopInv, NEW w, Single(w), NEW p \in Products, NEW v, IsView(v), RowsRead(v, w)
    PROVE  Quantity(v, p) = Units(w, p) /\ Units(w, p) \in Nat
<1>1. Rows(v, p) = In(w, p) BY DEF RowsRead
<1> QED BY <1>1, QuantityTyped, RowsSum

\* A side that a step does not touch.
SideKept(x) ==
    /\ ActiveCarts(x)' = ActiveCarts(x)
    /\ \A i \in ItemIds : items[i].cart \in ActiveCarts(x) \/ items'[i].cart \in ActiveCarts(x)
                             => items'[i] = items[i]

\* Rows that stay hold what they held.
LEMMA UnitsKept ==
    ASSUME NEW w, NEW x, In(w, x)' = In(w, x), \A i \in In(w, x) : items'[i] = items[i]
    PROVE  Units(w, x)' = Units(w, x)
<1>1. CASE In(w, x) = {} BY <1>1 DEF Units
<1>2. CASE In(w, x) # {}
  <2>1. Pick(In(w, x)) \in In(w, x) BY <1>2, PickIn
  <2>2. Units(w, x) = items[Pick(In(w, x))].quantity BY <1>2 DEF Units
  <2>3. Units(w, x)' = items'[Pick(In(w, x))].quantity BY <1>2 DEF Units
  <2> QED BY <2>1, <2>2, <2>3
<1> QED BY <1>1, <1>2

LEMMA SideKeptIs ==
    ASSUME NEW x, SideKept(x)
    PROVE  /\ \A p : In(x, p)' = In(x, p) /\ Units(x, p)' = Units(x, p)
           /\ Single(x) => Single(x)'
           /\ _find_cart(x)' = _find_cart(x)
<1>1. ActiveCarts(x)' = ActiveCarts(x) BY DEF SideKept
<1>2. \A p : In(x, p)' = In(x, p) BY <1>1 DEF In, SideKept
<1>3. \A p : \A i \in In(x, p) : items'[i] = items[i] BY DEF In, SideKept
<1>4. \A p : Units(x, p)' = Units(x, p) BY <1>2, <1>3, UnitsKept
<1>5. Single(x) => Single(x)' BY <1>1, <1>2 DEF Single, OneCart, OneRow
<1>6. _find_cart(x)' = _find_cart(x) BY <1>1 DEF _find_cart
<1> QED BY <1>2, <1>4, <1>5, <1>6

\* The view of a side that was not touched is the same.
LEMMA ViewKept ==
    ASSUME NEW x, SideKept(x), OneCart(x), items' = [i \in ItemIds |-> items'[i]],
           items = [i \in ItemIds |-> items[i]]
    PROVE  _load_cart(_find_cart(x))' = _load_cart(_find_cart(x))
<1> DEFINE k == _find_cart(x)
<1>1. k' = k BY SideKeptIs
<1>2. k \in ActiveCarts(x) \cup {0} BY CartFound
<1>3. \A i \in ItemIds : k # 0 /\ (items'[i].cart = k \/ items[i].cart = k) => items'[i] = items[i]
  <2> HIDE DEF k
  <2> QED BY <1>2 DEF SideKept
<1>4. \A i \in ItemIds : items'[i].cart = k /\ k # 0 <=> items[i].cart = k /\ k # 0
  <2> HIDE DEF k
  <2> QED BY <1>3
<1>5. {i \in ItemIds : items'[i].cart = k /\ k # 0} = {i \in ItemIds : items[i].cart = k /\ k # 0}
  <2> HIDE DEF k
  <2> QED BY <1>4
<1>6. _load_cart(k)' = [i \in {j \in ItemIds : items'[j].cart = k /\ k # 0} |-> items'[i]]
  <2>1. _load_cart(k)' = [i \in {j \in ItemIds : items'[j].cart = k' /\ k' # 0} |-> items'[i]]
    BY DEF _load_cart
  <2> QED BY <1>1, <2>1
<1>7. _load_cart(k) = [i \in {j \in ItemIds : items[j].cart = k /\ k # 0} |-> items[i]]
  BY DEF _load_cart
<1>8. _load_cart(k)' = _load_cart(k)
  <2> DEFINE S == {i \in ItemIds : items'[i].cart = k /\ k # 0}
  <2>1. \A i \in S : items'[i] = items[i]
    <3> HIDE DEF k
    <3> QED BY <1>3
  <2>2. [i \in S |-> items'[i]] = [i \in S |-> items[i]]
    <3> HIDE DEF S
    <3> QED BY <2>1
  <2> QED BY <1>5, <1>6, <1>7, <2>2
<1> QED BY <1>8

\* What another customer writes touches neither side of this one.
LEMMA OthersKeep ==
    ASSUME ShopInv, NEW c \in Customers, NEW d, c # d, Writes(d), NEW x \in Sides(c)
    PROVE  SideKept(x)
<1>1. x \in Owners /\ x[1] = c BY DEF Sides, Owners
<1>2. Nobody \notin Owners BY DEF Nobody, Owners
<1>3. ASSUME NEW k \in CartIds, carts[k].owner = x \/ carts'[k].owner = x
      PROVE  carts'[k] = carts[k]
  <2> SUFFICES ASSUME CartWritten(k, d) PROVE FALSE BY DEF Writes
  <2>1. carts[k].owner # x BY <1>1, <1>2 DEF CartWritten, NoCart
  <2>2. carts'[k].owner # x BY <1>1 DEF CartWritten
  <2> QED BY <1>3, <2>1, <2>2
<1>4. ActiveCarts(x)' = ActiveCarts(x)
  <2>1. ActiveCarts(x)' = {k \in CartIds : carts'[k].owner = x /\ carts'[k].is_active}
    BY DEF ActiveCarts
  <2>2. \A k \in CartIds : carts'[k].owner = x /\ carts'[k].is_active
                              <=> carts[k].owner = x /\ carts[k].is_active
    BY <1>3
  <2> QED BY <2>1, <2>2 DEF ActiveCarts
<1>5. ASSUME NEW i \in ItemIds, RowWritten(i, d)
      PROVE  items[i].cart \notin ActiveCarts(x) /\ items'[i].cart \notin ActiveCarts(x)
  <2>1. \A k \in ActiveCarts(x) : k # 0 /\ carts[k].owner[1] = c /\ k \in CartIds
    BY <1>1, StorefrontAssumption DEF ActiveCarts, CartIds
  <2>2. \A k \in ActiveCarts(x) : carts'[k].owner[1] = c
    BY <1>1, <1>3 DEF ActiveCarts
  <2>3. items[i].cart \notin ActiveCarts(x) BY <1>5, <2>1 DEF RowWritten, RowOf, NoItem
  <2>4. items'[i].cart \notin ActiveCarts(x) BY <1>5, <2>1, <2>2 DEF RowWritten
  <2> QED BY <2>3, <2>4
<1> QED BY <1>4, <1>5 DEF SideKept, Writes

\* The units ordered by a customer, order by order.
OrderLinesOf(c, p) == Only(OrderLines(p), {o \in OrderIds : orders[o].owner[1] = c}, OrderIds)

LEMMA OrderedByNow ==
    ASSUME NEW c, NEW p \in Products, orders \in SaleOrders
    PROVE  OrderedBy(c, p) = SumOf(OrderLinesOf(c, p), OrderIds)
<1> DEFINE T == {o \in OrderIds : orders[o].owner[1] = c}
<1>1. OrderedBy(c, p) = SumOf(OrderLines(p), T)
  <2>1. OrderedBy(c, p) = MapThenSumSet(LAMBDA o : orders[o].lines[p], T) BY DEF OrderedBy
  <2>2. T \in SUBSET OrderIds OBVIOUS
  <2> HIDE DEF T
  <2>3. MapThenSumSet(LAMBDA o : orders[o].lines[p], T) = SumOf(OrderLines(p), T)
    BY <2>2, ZenonT(30) DEF SumOf, MapThenSumSet, MapThenFoldSet, OrderLines
  <2> QED BY <2>1, <2>3
<1>2. /\ \A o \in OrderIds : OrderLines(p)[o] \in Int
      /\ T \in SUBSET OrderIds
  BY DEF SaleOrders, OrderLines
<1>3. SumOf(OrderLines(p), T) = SumOf(Only(OrderLines(p), T, OrderIds), OrderIds)
  <2> DEFINE h == OrderLines(p)
  <2> HIDE DEF T, h
  <2>1. \A o \in T : h[o] \in Int BY <1>2 DEF h
  <2>2. SumOf(h, T) = SumOf(Only(h, T, OrderIds), OrderIds)
    BY <1>2, <2>1, OrderIdsFinite, SumOfSubset
  <2> QED BY <2>2 DEF h
<1> QED BY <1>1, <1>3 DEF OrderLinesOf

\* And after a step.
LEMMA OrderedByIs ==
    ASSUME NEW c, NEW p \in Products, orders \in SaleOrders, orders' \in SaleOrders
    PROVE  /\ OrderedBy(c, p) = SumOf(OrderLinesOf(c, p), OrderIds)
           /\ OrderedBy(c, p)' = SumOf(OrderLinesOf(c, p)', OrderIds)
<1> DEFINE U == {o \in OrderIds : orders'[o].owner[1] = c}
<1>1. OrderedBy(c, p)' = SumOf(OrderLines(p)', U)
  <2>1. OrderedBy(c, p)' = MapThenSumSet(LAMBDA o : orders'[o].lines[p], U)
    BY DEF OrderedBy, MapThenSumSet, MapThenFoldSet
  <2>2. U \in SUBSET OrderIds OBVIOUS
  <2> HIDE DEF U
  <2>3. MapThenSumSet(LAMBDA o : orders'[o].lines[p], U) = SumOf(OrderLines(p)', U)
    BY <2>2, ZenonT(30) DEF SumOf, MapThenSumSet, MapThenFoldSet, OrderLines
  <2> QED BY <2>1, <2>3
<1>2. (\A o \in OrderIds : OrderLines(p)'[o] \in Int) /\ U \in SUBSET OrderIds
  BY DEF SaleOrders, OrderLines
<1>3. SumOf(OrderLines(p)', U) = SumOf(Only(OrderLines(p)', U, OrderIds), OrderIds)
  <2> DEFINE k == OrderLines(p)'
  <2> HIDE DEF U, k
  <2>1. \A o \in U : k[o] \in Int BY <1>2 DEF k
  <2>2. SumOf(k, U) = SumOf(Only(k, U, OrderIds), OrderIds)
    BY <1>2, <2>1, OrderIdsFinite, SumOfSubset
  <2> QED BY <2>2 DEF k
<1>4. OrderLinesOf(c, p)' = Only(OrderLines(p)', U, OrderIds) BY DEF OrderLinesOf, Only
<1> HIDE DEF U
<1> QED BY <1>1, <1>3, <1>4, OrderedByNow

LEMMA OrderLinesTyped ==
    ASSUME NEW c, NEW p \in Products, orders \in SaleOrders
    PROVE  \A o \in OrderIds : /\ OrderLinesOf(c, p)[o] \in Nat
                               /\ OrderLinesOf(c, p)[o]
                                     = IF orders[o].owner[1] = c THEN orders[o].lines[p] ELSE 0
  BY DEF OrderLinesOf, Only, OrderLines, SaleOrders

\* Without a new order the sums stay what they are.
LEMMA OrderedByKept ==
    ASSUME NEW c, NEW p \in Products, orders \in SaleOrders, orders' = orders
    PROVE  OrderedBy(c, p)' = OrderedBy(c, p) /\ OrderedBy(c, p) \in Int
<1>1. OrderLinesOf(c, p)' = OrderLinesOf(c, p) BY DEF OrderLinesOf, Only, OrderLines
<1>2. SumOf(OrderLinesOf(c, p), OrderIds) \in Int
  <2> DEFINE h == OrderLinesOf(c, p)
  <2>1. \A o \in OrderIds : h[o] \in Nat BY OrderLinesTyped
  <2> HIDE DEF h
  <2> QED BY <2>1, OrderIdsFinite, SumMonotone DEF h
<1> QED BY <1>1, <1>2, OrderedByIs

\* The active carts of an owner in a table of carts.
Open(table, x) == {k \in CartIds : table[k].owner = x /\ table[k].is_active}

\* The cart a request works on is then the only active one of its owner.
LEMMA OpenedCart ==
    ASSUME ShopInv, NEW r, AtWork(r), JustRead(r), OneCart(r.owner), NEW k \in Target(r)
    PROVE  /\ Open(Opened(k, r), r.owner) = {k} /\ k \in CartIds /\ k # 0
           /\ \A x \in Owners : x # r.owner => /\ Open(Opened(k, r), x) = ActiveCarts(x)
                                               /\ k \notin ActiveCarts(x)
           /\ \A i \in ItemIds : items[i].cart \in ActiveCarts(r.owner) <=> items[i].cart = k
<1> DEFINE w == r.owner
<1>1. /\ k \in CartIds /\ k # 0 /\ w \in Owners /\ Nobody \notin Owners
      /\ \A j \in CartIds : j # k => Opened(k, r)[j] = carts[j]
  <2>1. k \in CartIds /\ \A j \in CartIds \ {k} : Opened(k, r)[j] = carts[j] BY CartOpened
  <2>2. w \in Owners BY DEF AtWork, ShopRequest
  <2>3. k # 0 /\ Nobody \notin Owners
    BY <2>1, StorefrontAssumption DEF CartIds, Nobody, Owners
  <2> QED BY <2>1, <2>2, <2>3
<1>2. /\ r.cart \in ActiveCarts(w) \cup {0}
      /\ r.cart = 0 <=> ActiveCarts(w) = {}
  BY CartFound DEF JustRead
<1>3. CASE r.cart = 0
  <2>1. carts[k] = NoCart /\ Opened(k, r)[k] = [owner |-> w, is_active |-> TRUE]
    BY <1>3, CartOpened
  <2>2. Open(Opened(k, r), w) = {k} BY <1>1, <1>2, <1>3, <2>1 DEF Open, ActiveCarts
  <2>3. ASSUME NEW x \in Owners, x # w
        PROVE  Open(Opened(k, r), x) = ActiveCarts(x) /\ k \notin ActiveCarts(x)
    <3>1. carts[k].owner # x /\ Opened(k, r)[k].owner # x BY <1>1, <2>1, <2>3 DEF NoCart
    <3> QED BY <1>1, <3>1 DEF Open, ActiveCarts
  <2>4. \A i \in ItemIds : items[i].cart # k
    BY <1>1, <2>1 DEF ShopInv, Owned, NoCart
  <2> QED BY <1>1, <1>2, <1>3, <2>2, <2>3, <2>4
<1>4. CASE r.cart # 0
  <2>1. k = r.cart /\ Opened(k, r) = carts BY <1>4, CartOpened
  <2>2. ActiveCarts(w) = {k} BY <1>2, <1>4, <2>1 DEF OneCart
  <2>3. \A x : Open(Opened(k, r), x) = ActiveCarts(x) BY <2>1 DEF Open, ActiveCarts
  <2>4. \A x : x # w => k \notin ActiveCarts(x) BY <2>2 DEF ActiveCarts
  <2> QED BY <1>1, <2>2, <2>3, <2>4
<1> QED BY <1>3, <1>4

\* A request that has its customer for itself.
Turn(r) == AtWork(r) /\ JustRead(r) /\ r.owner[1] \in Customers \ overlapped /\ Sound(r.owner[1])

\* The other side of its customer.
Other(r) == <<r.owner[1], IF r.owner[2] = "user" THEN "guest" ELSE "user">>

LEMMA TurnIs ==
    ASSUME ShopInv, NEW r, Turn(r)
    PROVE  /\ r.owner \in Owners /\ Other(r) \in Owners /\ Other(r) # r.owner
           /\ Sides(r.owner[1]) = {r.owner, Other(r)}
           /\ Single(r.owner) /\ Single(Other(r)) /\ OneCart(r.owner)
           /\ RowsRead(r.view, r.owner)
           /\ items \in Items /\ orders \in SaleOrders /\ carts \in Carts
           /\ wanted \in [Customers -> [Products -> Int]]
<1> DEFINE c == r.owner[1]
<1>1. /\ r.owner \in Owners /\ Other(r) \in Owners /\ Other(r) # r.owner
      /\ Sides(c) = {r.owner, Other(r)}
  BY DEF Turn, AtWork, ShopRequest, Owners, Sides, Other
<1>2. Single(r.owner) /\ Single(Other(r)) BY <1>1 DEF Turn, Sound
<1>3. OneCart(r.owner) BY <1>2 DEF Single
<1>4. RowsRead(r.view, r.owner) BY <1>3, LoadIs DEF Turn, JustRead
<1> QED BY <1>1, <1>2, <1>3, <1>4 DEF ShopInv, ShopTypes

LEMMA TurnSides ==
    ASSUME NEW r, Turn(r)
    PROVE  \/ r.owner = <<r.owner[1], "user">> /\ Other(r) = <<r.owner[1], "guest">>
           \/ r.owner = <<r.owner[1], "guest">> /\ Other(r) = <<r.owner[1], "user">>
<1>1. r.owner \in Owners BY DEF Turn, AtWork, ShopRequest
<1> QED BY <1>1 DEF Owners, Other

\* What is left to show after a request: both sides, and the products one by one.
LEMMA SoundAgain ==
    ASSUME ShopInv, NEW r, Turn(r), Single(r.owner)', Single(Other(r))',
           \A p \in Products :
              /\ wanted'[r.owner[1]][p] = OrderedBy(r.owner[1], p)' + Units(r.owner, p)'
                                                                    + Units(Other(r), p)'
              /\ OrderedBy(r.owner[1], p)' \in Int
              /\ Units(r.owner, p)' \in Int /\ Units(Other(r), p)' \in Int
    PROVE  Sound(r.owner[1])'
<1> DEFINE c == r.owner[1]
<1>1. Sides(c) = {r.owner, Other(r)} BY TurnIs
<1>2. \A w \in Sides(c) : Single(w)' BY <1>1
<1>3. CASE r.owner = <<c, "user">> /\ Other(r) = <<c, "guest">>
  <2>1. \A p \in Products : wanted'[c][p] = OrderedBy(c, p)' + Units(<<c, "user">>, p)'
                                                              + Units(<<c, "guest">>, p)'
    BY <1>3
  <2> QED BY <1>2, <2>1 DEF Sound, Sides
<1>4. CASE r.owner = <<c, "guest">> /\ Other(r) = <<c, "user">>
  <2>1. \A p \in Products : wanted'[c][p] = OrderedBy(c, p)' + Units(<<c, "user">>, p)'
                                                              + Units(<<c, "guest">>, p)'
    <3> TAKE p \in Products
    <3>1. \A a, b, d \in Int : (a + b) + d = (a + d) + b OBVIOUS
    <3> QED BY <1>4, <3>1
  <2> QED BY <1>2, <2>1 DEF Sound, Sides
<1>5. \/ r.owner = <<c, "user">> /\ Other(r) = <<c, "guest">>
      \/ r.owner = <<c, "guest">> /\ Other(r) = <<c, "user">>
  BY TurnSides
<1> QED BY <1>3, <1>4, <1>5

LEMMA TurnUnits ==
    ASSUME ShopInv, NEW r, Turn(r), NEW p \in Products
    PROVE  /\ Units(r.owner, p) \in Nat /\ Units(Other(r), p) \in Nat
           /\ OrderedBy(r.owner[1], p) \in Int
           /\ wanted[r.owner[1]][p] = OrderedBy(r.owner[1], p) + Units(r.owner, p)
                                                               + Units(Other(r), p)
<1> DEFINE c == r.owner[1]
           v == _load_cart(_find_cart(Other(r)))
<1>1. Units(r.owner, p) \in Nat BY TurnIs, RowsSum
<1>2. Units(Other(r), p) \in Nat
  <2>1. Single(Other(r)) /\ OneCart(Other(r)) BY TurnIs DEF Single
  <2>2. RowsRead(v, Other(r)) BY <2>1, LoadIs
  <2> HIDE DEF v
  <2> QED BY <2>1, <2>2, RowsSum
<1>3. OrderedBy(c, p) \in Int
  <2> DEFINE h == OrderLinesOf(c, p)
  <2>1. orders \in SaleOrders BY TurnIs
  <2>2. \A o \in OrderIds : h[o] \in Nat BY <2>1, OrderLinesTyped
  <2>3. SumOf(h, OrderIds) \in Nat
    <3> HIDE DEF h
    <3> QED BY <2>2, OrderIdsFinite, SumMonotone
  <2>4. OrderedBy(c, p) = SumOf(h, OrderIds) BY <2>1, OrderedByNow
  <2> QED BY <2>3, <2>4
<1>4. wanted[c][p] = OrderedBy(c, p) + Units(<<c, "user">>, p) + Units(<<c, "guest">>, p)
  BY DEF Turn, Sound
<1>5. \/ r.owner = <<c, "user">> /\ Other(r) = <<c, "guest">>
      \/ r.owner = <<c, "guest">> /\ Other(r) = <<c, "user">>
  BY TurnSides
<1>6. \A a, b, d \in Int : (a + b) + d = (a + d) + b OBVIOUS
<1> QED BY <1>1, <1>2, <1>3, <1>4, <1>5, <1>6

\* A request that changes the units of its own side, by what was asked for.
LEMMA OneSide ==
    ASSUME ShopInv, NEW r, Turn(r), SideKept(Other(r)), Single(r.owner)', orders' = orders,
           NEW by \in [Products -> Int],
           \A p \in Products : /\ Units(r.owner, p)' = Units(r.owner, p) + by[p]
                               /\ wanted'[r.owner[1]][p] = wanted[r.owner[1]][p] + by[p]
    PROVE  Sound(r.owner[1])'
<1>1. Single(Other(r))' BY TurnIs, SideKeptIs
<1>2. ASSUME NEW p \in Products
      PROVE  /\ wanted'[r.owner[1]][p] = OrderedBy(r.owner[1], p)' + Units(r.owner, p)'
                                                                    + Units(Other(r), p)'
             /\ OrderedBy(r.owner[1], p)' \in Int
             /\ Units(r.owner, p)' \in Int /\ Units(Other(r), p)' \in Int
  <2>1. Units(Other(r), p)' = Units(Other(r), p) BY SideKeptIs
  <2>2. OrderedBy(r.owner[1], p)' = OrderedBy(r.owner[1], p)
    <3>1. orders \in SaleOrders BY TurnIs
    <3> QED BY <3>1, OrderedByKept
  <2> QED BY <2>1, <2>2, TurnUnits
<1> QED BY <1>1, <1>2, SoundAgain

\* A step after which the owner of the request sees q units of p, and all else as before.
Becomes(r, p, q) ==
    /\ SideKept(Other(r)) /\ Single(r.owner)'
    /\ \A x \in Products : Units(r.owner, x)' = IF x = p THEN q ELSE Units(r.owner, x)

\* The quantity of a row of the product is set.
QuantitySet(i, q) == items' = [items EXCEPT ![i].quantity = q] /\ carts' = carts

LEMMA RowSet ==
    ASSUME ShopInv, NEW r, Turn(r), NEW p \in Products, NEW i \in In(r.owner, p), NEW q \in Nat,
           QuantitySet(i, q)
    PROVE  Units(r.owner, p) = items[i].quantity /\ Becomes(r, p, q)
<1> DEFINE w == r.owner
<1>1. /\ items \in Items /\ i \in ItemIds /\ Single(w) /\ w # Other(r)
      /\ items[i].cart \in ActiveCarts(w) /\ items[i].product = p
  BY TurnIs DEF In
<1>2. /\ items'[i].product = p /\ items'[i].cart = items[i].cart /\ items'[i].quantity = q
      /\ \A j \in ItemIds : j # i => items'[j] = items[j]
  BY <1>1 DEF Items, Item, QuantitySet
<1>3. \A x : ActiveCarts(x)' = ActiveCarts(x) BY DEF ActiveCarts, QuantitySet
<1>4. \A x : In(w, x)' = In(w, x) BY <1>1, <1>2, <1>3 DEF In
<1>5. Single(w)' BY <1>1, <1>3, <1>4 DEF Single, OneCart, OneRow
<1>6. items[i].cart \notin ActiveCarts(Other(r)) BY <1>1 DEF ActiveCarts
<1>7. SideKept(Other(r)) BY <1>2, <1>3, <1>6 DEF SideKept
<1>8. In(w, p) = {i} /\ Units(w, p) = items[i].quantity BY <1>1, UnitsAre
<1>9. Units(w, p)' = q BY <1>2, <1>4, <1>8, PickOne DEF Units
<1>10. ASSUME NEW x \in Products, x # p PROVE Units(w, x)' = Units(w, x)
  <2>1. i \notin In(w, x) BY <1>1, <1>10 DEF In
  <2>2. \A j \in In(w, x) : items'[j] = items[j] BY <1>2, <2>1 DEF In
  <2> QED BY <1>4, <2>2, UnitsKept
<1> QED BY <1>5, <1>7, <1>8, <1>9, <1>10 DEF Becomes

\* A new row of a product that has none, in the cart the request works on.
LEMMA RowAdded ==
    ASSUME ShopInv, NEW r, Turn(r), NEW p \in Products, In(r.owner, p) = {},
           NEW k \in Target(r), carts' = Opened(k, r),
           NEW i \in Unused(items, NoItem), NEW q \in Nat,
           items' = [items EXCEPT ![i] = [cart |-> k, product |-> p, quantity |-> q]]
    PROVE  Becomes(r, p, q)
<1> DEFINE w == r.owner
<1>1. /\ items \in Items /\ i \in ItemIds /\ items[i] = NoItem /\ Single(w) /\ OneCart(w)
      /\ w # Other(r) /\ Other(r) \in Owners
  BY TurnIs DEF Unused, Items
<1>2. AtWork(r) /\ JustRead(r) BY DEF Turn
<1>3. /\ Open(Opened(k, r), w) = {k} /\ k # 0
      /\ Open(Opened(k, r), Other(r)) = ActiveCarts(Other(r)) /\ k \notin ActiveCarts(Other(r))
      /\ \A j \in ItemIds : items[j].cart \in ActiveCarts(w) <=> items[j].cart = k
  BY <1>1, <1>2, OpenedCart
<1>4. \A x : ActiveCarts(x)' = Open(Opened(k, r), x) BY DEF ActiveCarts, Open
<1>5. /\ items'[i].product = p /\ items'[i].cart = k /\ items'[i].quantity = q
      /\ \A j \in ItemIds : j # i => items'[j] = items[j]
  BY <1>1 DEF Items
<1>6. 0 \notin ActiveCarts(Other(r)) /\ items[i].cart = 0
  BY <1>1, StorefrontAssumption DEF ActiveCarts, CartIds, NoItem
<1>7. SideKept(Other(r)) BY <1>3, <1>4, <1>5, <1>6 DEF SideKept
<1>8. \A x : In(w, x)' = {j \in ItemIds : items'[j].cart = k /\ items'[j].product = x}
  BY <1>3, <1>4 DEF In
<1>9. \A x : In(w, x) = {j \in ItemIds : items[j].cart = k /\ items[j].product = x}
  BY <1>3 DEF In
<1>10. In(w, p)' = {i}
  <2>1. In(w, p) = {} OBVIOUS
  <2>2. \A j \in ItemIds : ~(items[j].cart = k /\ items[j].product = p) BY <1>9, <2>1
  <2>3. \A j \in ItemIds : j # i => ~(items'[j].cart = k /\ items'[j].product = p)
    BY <1>5, <2>2
  <2> HIDE DEF w
  <2> QED BY <1>1, <1>5, <1>8, <2>3
<1>11. ASSUME NEW x, x # p PROVE In(w, x)' = In(w, x)
  <2>1. \A j \in ItemIds : (items'[j].cart = k /\ items'[j].product = x)
                              <=> (items[j].cart = k /\ items[j].product = x)
    BY <1>3, <1>5, <1>6, <1>11
  <2>2. In(w, x)' = {j \in ItemIds : items'[j].cart = k /\ items'[j].product = x} BY <1>8
  <2>3. In(w, x) = {j \in ItemIds : items[j].cart = k /\ items[j].product = x} BY <1>9
  <2> HIDE DEF w
  <2> QED BY <2>1, <2>2, <2>3
<1>12. Single(w)'
  <2>1. OneCart(w)' BY <1>3, <1>4 DEF OneCart
  <2>2. OneRow(w)'
    <3>1. \A x \in Products : \A j, n \in In(w, x)' : j = n
      BY <1>1, <1>10, <1>11 DEF Single, OneRow
    <3> QED BY <3>1 DEF OneRow
  <2> QED BY <2>1, <2>2 DEF Single
<1>13. Units(w, p)' = q BY <1>5, <1>10, PickOne DEF Units
<1>14. ASSUME NEW x \in Products, x # p PROVE Units(w, x)' = Units(w, x)
  <2>1. In(w, x)' = In(w, x) BY <1>11, <1>14
  <2>2. \A j \in In(w, x) : j \in ItemIds /\ j # i BY <1>3, <1>6, <1>9
  <2>3. \A j \in In(w, x) : items'[j] = items[j] BY <1>5, <2>2
  <2> QED BY <2>1, <2>3, UnitsKept
<1> QED BY <1>7, <1>12, <1>13, <1>14 DEF Becomes

\* The row of a product is removed.
LEMMA RowGone ==
    ASSUME ShopInv, NEW r, Turn(r), NEW p \in Products, NEW i \in In(r.owner, p),
           items' = [items EXCEPT ![i] = Removed(i)], carts' = carts
    PROVE  Units(r.owner, p) = items[i].quantity /\ Becomes(r, p, 0)
<1> DEFINE w == r.owner
<1>1. /\ items \in Items /\ i \in ItemIds /\ Single(w) /\ w # Other(r)
      /\ items[i].cart \in ActiveCarts(w) /\ items[i].product = p
  BY TurnIs DEF In
<1>2. /\ items'[i].cart = 0 /\ \A j \in ItemIds : j # i => items'[j] = items[j]
  BY <1>1 DEF Items, Item, Removed
<1>3. \A x : ActiveCarts(x)' = ActiveCarts(x) /\ 0 \notin ActiveCarts(x)
  BY StorefrontAssumption DEF ActiveCarts, CartIds
<1>4. In(w, p) = {i} /\ Units(w, p) = items[i].quantity BY <1>1, UnitsAre
<1>5. In(w, p)' = {}
  <2>1. In(w, p)' = {j \in ItemIds : items'[j].cart \in ActiveCarts(w) /\ items'[j].product = p}
    BY <1>3 DEF In
  <2>2. \A j \in ItemIds : j # i => ~(items'[j].cart \in ActiveCarts(w) /\ items'[j].product = p)
    BY <1>2, <1>4 DEF In
  <2> QED BY <1>2, <1>3, <2>1, <2>2
<1>6. ASSUME NEW x, x # p PROVE In(w, x)' = In(w, x)
  <2>1. In(w, x)' = {j \in ItemIds : items'[j].cart \in ActiveCarts(w) /\ items'[j].product = x}
    BY <1>3 DEF In
  <2>2. \A j \in ItemIds : items'[j].cart \in ActiveCarts(w) /\ items'[j].product = x
                              <=> items[j].cart \in ActiveCarts(w) /\ items[j].product = x
    BY <1>1, <1>2, <1>3, <1>6
  <2> QED BY <2>1, <2>2 DEF In
<1>7. Single(w)'
  <2>1. OneCart(w)' BY <1>1, <1>3 DEF Single, OneCart
  <2>2. \A x \in Products : \A j, n \in In(w, x)' : j = n
    BY <1>1, <1>5, <1>6 DEF Single, OneRow
  <2> QED BY <2>1, <2>2 DEF Single, OneRow
<1>8. items[i].cart \notin ActiveCarts(Other(r)) BY <1>1 DEF ActiveCarts
<1>9. SideKept(Other(r)) BY <1>2, <1>3, <1>8 DEF SideKept
<1>10. Units(w, p)' = 0 BY <1>5 DEF Units
<1>11. ASSUME NEW x \in Products, x # p PROVE Units(w, x)' = Units(w, x)
  <2>1. In(w, x)' = In(w, x) BY <1>6, <1>11
  <2>2. \A j \in In(w, x) : j \in ItemIds /\ j # i BY <1>1, <1>11 DEF In
  <2>3. \A j \in In(w, x) : items'[j] = items[j] BY <1>2, <2>2
  <2> QED BY <2>1, <2>3, UnitsKept
<1> QED BY <1>4, <1>7, <1>9, <1>10, <1>11 DEF Becomes

LEMMA GetSound ==
    ASSUME ShopInv, NEW r, Turn(r), get_cart(r)
    PROVE  Sound(r.owner[1])'
<1> DEFINE w == r.owner
<1>1. PICK k \in Target(r) : carts' = Opened(k, r) /\ UNCHANGED <<items, orders, wanted>>
  BY DEF get_cart
<1>2. /\ Single(w) /\ OneCart(w) /\ w # Other(r) /\ Other(r) \in Owners
      /\ wanted \in [Customers -> [Products -> Int]] /\ w[1] \in Customers
  BY TurnIs DEF Turn
<1>3. AtWork(r) /\ JustRead(r) BY DEF Turn
<1>4. /\ Open(Opened(k, r), w) = {k}
      /\ Open(Opened(k, r), Other(r)) = ActiveCarts(Other(r))
      /\ \A j \in ItemIds : items[j].cart \in ActiveCarts(w) <=> items[j].cart = k
  <2>1. OneCart(r.owner) /\ Other(r) \in Owners /\ Other(r) # r.owner BY <1>2
  <2> QED BY <1>3, <2>1, OpenedCart
<1>5. \A x : ActiveCarts(x)' = Open(Opened(k, r), x) BY <1>1 DEF ActiveCarts, Open
<1>6. SideKept(Other(r)) BY <1>1, <1>4, <1>5 DEF SideKept
<1>7. \A x : In(w, x)' = In(w, x) BY <1>1, <1>4, <1>5 DEF In
<1>8. Single(w)' BY <1>2, <1>4, <1>5, <1>7 DEF Single, OneCart, OneRow
<1>9. \A x : Units(w, x)' = Units(w, x)
  <2>1. \A x : \A i \in In(w, x) : items'[i] = items[i] BY <1>1
  <2> QED BY <1>7, <2>1, UnitsKept
<1> DEFINE by == [p \in Products |-> 0]
<1>10. \A p \in Products : /\ Units(w, p)' = Units(w, p) + by[p]
                           /\ wanted'[w[1]][p] = wanted[w[1]][p] + by[p]
  <2>1. \A p \in Products : Units(w, p) \in Nat /\ wanted[w[1]][p] \in Int BY <1>2, TurnUnits
  <2> QED BY <1>1, <1>9, <2>1
<1>11. by \in [Products -> Int] OBVIOUS
<1> HIDE DEF by
<1> QED BY <1>1, <1>6, <1>8, <1>10, <1>11, OneSide

\* The units asked for, while they are counted.
LEMMA WantedBy ==
    ASSUME ShopInv, NEW r, Turn(r), r.product \in Products, NEW n \in Int, Wanted(r, n)
    PROVE  \A p \in Products : wanted'[r.owner[1]][p]
                                  = wanted[r.owner[1]][p] + (IF p = r.product THEN n ELSE 0)
<1> DEFINE c == r.owner[1]
<1>1. c \in Customers /\ c \notin overlapped /\ wanted \in [Customers -> [Products -> Int]]
  BY TurnIs DEF Turn
<1>2. wanted' = [wanted EXCEPT ![c] = [wanted[c] EXCEPT ![r.product] = wanted[c][r.product] + n]]
  BY <1>1 DEF Wanted
<1>3. wanted'[c] = [wanted[c] EXCEPT ![r.product] = @ + n] BY <1>1, <1>2
<1>4. wanted[c] \in [Products -> Int] BY <1>1
<1> HIDE DEF c
<1>5. \A p \in Products : wanted'[c][p] = wanted[c][p] + (IF p = r.product THEN n ELSE 0)
  BY <1>3, <1>4
<1> QED BY <1>5 DEF c

\* A request about one product, whose units become q.
LEMMA OneProduct ==
    ASSUME ShopInv, NEW r, Turn(r), r.product \in Products, NEW q \in Int,
           Becomes(r, r.product, q), orders' = orders,
           Wanted(r, q - Units(r.owner, r.product))
    PROVE  Sound(r.owner[1])'
<1> DEFINE n == q - Units(r.owner, r.product)
           by == [p \in Products |-> IF p = r.product THEN n ELSE 0]
<1>1. \A p \in Products : Units(r.owner, p) \in Nat BY TurnUnits
<1>2. n \in Int BY <1>1
<1>3. \A p \in Products : wanted'[r.owner[1]][p] = wanted[r.owner[1]][p] + by[p]
  <2>1. Wanted(r, n) OBVIOUS
  <2>2. \A p \in Products : wanted'[r.owner[1]][p]
                               = wanted[r.owner[1]][p] + (IF p = r.product THEN n ELSE 0)
    <3> HIDE DEF n
    <3> QED BY <1>2, <2>1, WantedBy
  <2> HIDE DEF n
  <2> QED BY <2>2
<1>4. \A p \in Products : Units(r.owner, p)' = Units(r.owner, p) + by[p] BY <1>1 DEF Becomes
<1>5. by \in [Products -> Int] BY <1>2
<1>6. SideKept(Other(r)) /\ Single(r.owner)' BY DEF Becomes
<1> HIDE DEF by, n
<1> QED BY <1>3, <1>4, <1>5, <1>6, OneSide

LEMMA AddSound ==
    ASSUME ShopInv, NEW r, Turn(r), r.op = "add", add_to_cart(r)
    PROVE  Sound(r.owner[1])'
<1> DEFINE w == r.owner
           p == r.product
           mine == Rows(r.view, p)
<1>1. /\ p \in Products /\ r.quantity \in Nat /\ items \in Items
      /\ mine = In(w, p) /\ \A i \in In(w, p) : r.view[i] = items[i]
  <2>1. p \in Products /\ r.quantity \in Nat BY DEF Turn, AtWork, ShopRequest
  <2>2. items \in Items /\ RowsRead(r.view, w) BY TurnIs
  <2> QED BY <2>1, <2>2 DEF RowsRead, In
<1>2. Wanted(r, r.quantity) /\ orders' = orders BY DEF add_to_cart
<1>3. Units(w, p) \in Nat BY <1>1, TurnUnits
<1>4. CASE mine = {}
  <2>1. PICK k \in Target(r), i \in Unused(items, NoItem) :
           /\ carts' = Opened(k, r)
           /\ items' = [items EXCEPT ![i] = [cart |-> k, product |-> p,
                                             quantity |-> r.quantity]]
    BY <1>4 DEF add_to_cart
  <2>2. Units(w, p) = 0 BY <1>1, <1>4 DEF Units
  <2>3. Becomes(r, p, r.quantity)
    BY <1>1, <1>4, <2>1, RowAdded
  <2>4. Wanted(r, r.quantity - Units(w, p))
    <3>1. r.quantity - Units(w, p) = r.quantity BY <1>1, <2>2
    <3> QED BY <1>2, <3>1
  <2> QED BY <1>1, <1>2, <2>3, <2>4, OneProduct
<1>5. CASE mine # {}
  <2> DEFINE i == Min(mine)
             q == items[i].quantity + r.quantity
  <2>1. PICK j \in mine : TRUE BY <1>5
  <2>2. In(w, p) = {j} /\ Units(w, p) = items[j].quantity /\ j \in In(w, p)
    BY <1>1, <2>1, TurnIs, UnitsAre
  <2>3. i = j
    <3>1. mine \in SUBSET Nat BY <1>1, StorefrontAssumption DEF In, ItemIds
    <3>2. Min(mine) \in mine
      <4> HIDE DEF mine
      <4> QED BY <1>5, <3>1, LeastOfNaturals
    <3> QED BY <1>1, <2>2, <3>2
  <2>4. items' = [items EXCEPT ![i].quantity = Sum(r, r.view[i])] /\ carts' = carts
    BY <1>5 DEF add_to_cart
  <2>5. Sum(r, r.view[i]) = q BY <1>1, <2>2, <2>3 DEF Sum
  <2>6. q \in Nat /\ items[j].quantity \in Nat
    BY <1>1, <2>2, <2>3 DEF Items, Item, In
  <2>7. q - Units(w, p) = r.quantity BY <1>1, <2>2, <2>3, <2>6
  <2>8. i \in In(w, p) /\ QuantitySet(i, q) BY <2>2, <2>3, <2>4, <2>5 DEF QuantitySet
  <2> HIDE DEF i, q, mine
  <2>9. Becomes(r, p, q) BY <1>1, <2>6, <2>8, RowSet
  <2>10. Wanted(r, q - Units(w, p)) BY <1>2, <2>7
  <2>11. q \in Int BY <2>6
  <2> QED BY <1>1, <1>2, <2>9, <2>10, <2>11, OneProduct
<1> QED BY <1>4, <1>5

\* A row a request names is the customer's row of that product.
LEMMA RowNamed ==
    ASSUME ShopInv, NEW r, Turn(r), r.op \in {"update", "remove"}
    PROVE  /\ r.product \in Products /\ r.item \in In(r.owner, r.product)
           /\ r.view[r.item] = items[r.item] /\ items[r.item].quantity \in Nat
<1>1. r.item \in DOMAIN r.view /\ r.product = r.view[r.item].product
  BY DEF Turn, AtWork, ShopRequest
<1>2. RowsRead(r.view, r.owner) /\ items \in Items BY TurnIs
<1>3. /\ r.view[r.item] = items[r.item] /\ r.item \in ItemIds
      /\ items[r.item].cart \in ActiveCarts(r.owner)
  BY <1>1, <1>2 DEF RowsRead
<1>4. r.item \in In(r.owner, r.product) BY <1>1, <1>3 DEF In
<1>5. r.product \in Products BY <1>1 DEF Turn, AtWork, ReadsItsOwn, Reads
<1> QED BY <1>2, <1>3, <1>4, <1>5 DEF Items, Item

LEMMA UpdateSound ==
    ASSUME ShopInv, NEW r, Turn(r), r.op = "update", update_cart_item(r)
    PROVE  Sound(r.owner[1])'
<1> DEFINE w == r.owner
           i == r.item
<1>1. /\ r.product \in Products /\ i \in In(w, r.product) /\ r.view[i] = items[i]
      /\ items[i].quantity \in Nat /\ r.quantity \in Nat
  BY RowNamed DEF Turn, AtWork, ShopRequest
<1>2. /\ QuantitySet(i, r.quantity) /\ orders' = orders
      /\ Wanted(r, r.quantity - items[i].quantity)
  BY <1>1 DEF update_cart_item, QuantitySet
<1>3. Units(w, r.product) = items[i].quantity /\ Becomes(r, r.product, r.quantity)
  BY <1>1, <1>2, RowSet
<1>4. Wanted(r, r.quantity - Units(w, r.product)) /\ r.quantity \in Int BY <1>1, <1>2, <1>3
<1> QED BY <1>1, <1>2, <1>3, <1>4, OneProduct

LEMMA RemoveSound ==
    ASSUME ShopInv, NEW r, Turn(r), r.op = "remove", remove_from_cart(r)
    PROVE  Sound(r.owner[1])'
<1> DEFINE w == r.owner
           i == r.item
<1>1. /\ r.product \in Products /\ i \in In(w, r.product) /\ r.view[i] = items[i]
      /\ items[i].quantity \in Nat
  BY RowNamed
<1>2. /\ items' = [items EXCEPT ![i] = Removed(i)] /\ carts' = carts /\ orders' = orders
      /\ Wanted(r, -items[i].quantity)
  BY <1>1 DEF remove_from_cart
<1>3. Units(w, r.product) = items[i].quantity /\ Becomes(r, r.product, 0)
  BY <1>1, <1>2, RowGone
<1>4. 0 - Units(w, r.product) = -items[i].quantity BY <1>1, <1>3
<1>5. Wanted(r, 0 - Units(w, r.product)) BY <1>2, <1>4
<1> QED BY <1>1, <1>2, <1>3, <1>5, OneProduct

\* The order of a customer adds its lines to what the customer ordered.
LEMMA CheckoutOrders ==
    ASSUME ShopInv, NEW r, AtWork(r), r.op = "checkout", checkout(r), NEW p \in Products
    PROVE  /\ OrderedBy(r.owner[1], p) \in Int
           /\ OrderedBy(r.owner[1], p)' = OrderedBy(r.owner[1], p) + Lines(r)[p]
<1> DEFINE c == r.owner[1]
           a == OrderLinesOf(c, p)
           b == OrderLinesOf(c, p)'
<1>1. Lines(r) \in [Products -> Nat] /\ orders \in SaleOrders /\ orders' \in SaleOrders
  BY CheckoutIs, CheckoutWrites DEF ShopInv, ShopTypes
<1>2. PICK o \in OrderIds, state \in {"draft", "sent"} :
         /\ orders[o] = NoOrder
         /\ orders' = [orders EXCEPT ![o] = [owner |-> r.owner, cart |-> r.cart,
                                             lines |-> Lines(r), state |-> state]]
  BY CheckoutIs
<1>3. /\ orders[o].lines[p] = 0
      /\ orders'[o].lines[p] = Lines(r)[p] /\ orders'[o].owner = r.owner
      /\ \A k \in OrderIds : k # o => orders'[k] = orders[k]
  BY <1>1, <1>2 DEF SaleOrders, NoOrder
<1>5. \A k \in OrderIds : a[k] = IF orders[k].owner[1] = c THEN orders[k].lines[p] ELSE 0
  BY <1>1, OrderLinesTyped
<1>6. \A k \in OrderIds : b[k] = IF orders'[k].owner[1] = c THEN orders'[k].lines[p] ELSE 0
  BY DEF OrderLinesOf, Only, OrderLines
<1>7. a[o] = 0 /\ b[o] = Lines(r)[p] BY <1>3, <1>5, <1>6
<1>8. \A k \in OrderIds : a[k] \in Int /\ b[k] \in Int
  BY <1>1, <1>5, <1>6 DEF SaleOrders
<1>9. \A k \in OrderIds : k # o => b[k] = a[k] BY <1>3, <1>5, <1>6
<1>10. OrderedBy(c, p) = SumOf(a, OrderIds) /\ OrderedBy(c, p)' = SumOf(b, OrderIds)
  BY <1>1, OrderedByIs
<1> HIDE DEF a, b
<1>11. DifferAt(o, a, b, OrderIds) BY <1>8, <1>9 DEF DifferAt
<1>12. SumOf(a, OrderIds) \in Int /\ SumOf(b, OrderIds) = SumOf(a, OrderIds) + (b[o] - a[o])
  BY <1>11, OrderIdsFinite, SumChanges
<1>13. b[o] - a[o] = Lines(r)[p] BY <1>1, <1>7
<1> QED BY <1>10, <1>12, <1>13

LEMMA CheckoutSound ==
    ASSUME ShopInv, NEW r, Turn(r), r.op = "checkout", checkout(r)
    PROVE  Sound(r.owner[1])'
<1> DEFINE w == r.owner
           c == r.owner[1]
<1>1. AtWork(r) /\ JustRead(r) BY DEF Turn
<1>2. /\ r.cart \in CartIds /\ UNCHANGED <<items, wanted>>
      /\ carts' = [carts EXCEPT ![r.cart].is_active = FALSE]
  BY <1>1, CheckoutIs
<1>3. /\ Single(w) /\ OneCart(w) /\ Single(Other(r)) /\ w # Other(r) /\ carts \in Carts
      /\ RowsRead(r.view, w) /\ r.cart # 0
  BY <1>2, TurnIs, StorefrontAssumption DEF CartIds
<1>4. r.cart \in ActiveCarts(w) BY <1>1, <1>3, CartFound DEF JustRead
<1>5. ActiveCarts(w) = {r.cart} /\ carts[r.cart].owner = w BY <1>3, <1>4 DEF OneCart, ActiveCarts
<1>6. /\ carts'[r.cart].is_active = FALSE /\ carts'[r.cart].owner = w
      /\ \A k \in CartIds : k # r.cart => carts'[k] = carts[k]
  BY <1>2, <1>3, <1>5 DEF Carts
<1>7. ActiveCarts(w)' = {}
  <2>1. \A k \in CartIds : ~(carts'[k].owner = w /\ carts'[k].is_active)
    BY <1>5, <1>6 DEF ActiveCarts
  <2> QED BY <2>1 DEF ActiveCarts
<1>8. ActiveCarts(Other(r))' = ActiveCarts(Other(r))
  <2>1. \A k \in CartIds : (carts'[k].owner = Other(r) /\ carts'[k].is_active)
                              <=> (carts[k].owner = Other(r) /\ carts[k].is_active)
    BY <1>3, <1>5, <1>6
  <2> QED BY <2>1 DEF ActiveCarts
<1>9. SideKept(Other(r)) BY <1>2, <1>8 DEF SideKept
<1>10. Single(w)' /\ \A p \in Products : Units(w, p)' = 0
  <2>1. \A p : In(w, p)' = {} BY <1>7 DEF In
  <2> QED BY <1>7, <2>1 DEF Single, OneCart, OneRow, Units
<1>11. ASSUME NEW p \in Products
       PROVE  /\ wanted'[c][p] = OrderedBy(c, p)' + Units(w, p)' + Units(Other(r), p)'
              /\ OrderedBy(c, p)' \in Int
              /\ Units(w, p)' \in Int /\ Units(Other(r), p)' \in Int
  <2>1. Lines(r)[p] = Units(w, p)
    <3>1. IsView(r.view) BY <1>1 DEF AtWork, ShopRequest
    <3>2. Quantity(r.view, p) = Units(w, p) BY <1>3, <3>1, QuantityIs
    <3> QED BY <3>2 DEF Lines
  <2>2. /\ OrderedBy(c, p)' = OrderedBy(c, p) + Units(w, p) /\ OrderedBy(c, p) \in Int
        /\ Units(w, p) \in Nat /\ Units(Other(r), p) \in Nat
        /\ wanted[c][p] = OrderedBy(c, p) + Units(w, p) + Units(Other(r), p)
    BY <1>1, <2>1, CheckoutOrders, TurnUnits
  <2>3. Units(w, p)' = 0 BY <1>10
  <2>4. Units(Other(r), p)' = Units(Other(r), p) BY <1>9, SideKeptIs
  <2>5. wanted' = wanted BY <1>2
  <2>6. \A x, y, z \in Int : x + y + z = (x + y) + 0 + z OBVIOUS
  <2> HIDE DEF w, c
  <2> QED BY <2>2, <2>3, <2>4, <2>5, <2>6
<1>12. Single(Other(r))' BY <1>3, <1>9, SideKeptIs
<1> QED BY <1>10, <1>11, <1>12, SoundAgain

\* In a synchronisation the units of the guest cart pass to the user's cart, each once.
LEMMA SyncCarts ==
    ASSUME ShopInv, NEW r, Turn(r), r.op = "sync", NEW k \in Target(r), carts' = CartsSynced(r, k)
    PROVE  /\ r.owner = <<r.owner[1], "user">> /\ Other(r) = <<r.owner[1], "guest">>
           /\ RowsRead(r.gview, Other(r))
           /\ k \in CartIds /\ k # 0 /\ k \notin ActiveCarts(Other(r))
           /\ ActiveCarts(r.owner)' = {k} /\ ActiveCarts(Other(r))' = {}
           /\ \A i \in ItemIds : items[i].cart \in ActiveCarts(r.owner) <=> items[i].cart = k
<1> DEFINE w == r.owner
           g == Other(r)
<1>1. AtWork(r) /\ JustRead(r) BY DEF Turn
<1>2. r.owner[2] = "user" BY <1>1 DEF JustRead
<1>3. w = <<r.owner[1], "user">> /\ g = <<r.owner[1], "guest">>
  <2>1. "user" # "guest" OBVIOUS
  <2> QED BY <1>2, <2>1, TurnSides
<1>4. OneCart(w) /\ OneCart(g) /\ w # g /\ g \in Owners BY TurnIs DEF Single
<1>5. r.guest = _find_cart(g) /\ r.gview = _load_cart(r.guest) BY <1>1, <1>3 DEF JustRead
<1>6. RowsRead(r.gview, g) BY <1>4, <1>5, LoadIs
<1>7. /\ Open(Opened(k, r), w) = {k} /\ k \in CartIds /\ k # 0
      /\ Open(Opened(k, r), g) = ActiveCarts(g) /\ k \notin ActiveCarts(g)
      /\ \A i \in ItemIds : items[i].cart \in ActiveCarts(w) <=> items[i].cart = k
  <2>1. OneCart(r.owner) /\ Other(r) \in Owners /\ Other(r) # r.owner BY <1>4
  <2> QED BY <1>1, <2>1, OpenedCart
<1>8. /\ r.guest \in ActiveCarts(g) \cup {0} /\ \A n \in ActiveCarts(g) : n = r.guest
      /\ r.guest # k
  <2>1. /\ r.guest \in ActiveCarts(g) \cup {0}
        /\ r.guest = 0 <=> ActiveCarts(g) = {}
    BY <1>5, CartFound
  <2> QED BY <1>4, <1>7, <2>1 DEF OneCart
<1>9. \A n \in CartIds : carts'[n] = IF n = r.guest THEN [carts[n] EXCEPT !.is_active = FALSE]
                                     ELSE Opened(k, r)[n]
  BY DEF CartsSynced
<1>10. r.guest \in CartIds => /\ carts'[r.guest].is_active = FALSE
                              /\ carts'[r.guest].owner = carts[r.guest].owner
  <2> SUFFICES ASSUME r.guest \in CartIds
               PROVE  /\ carts'[r.guest].is_active = FALSE
                      /\ carts'[r.guest].owner = carts[r.guest].owner
    OBVIOUS
  <2>1. carts[r.guest] \in [owner : Owners \cup {Nobody}, is_active : BOOLEAN]
    BY TurnIs DEF Carts
  <2>2. carts'[r.guest] = [carts[r.guest] EXCEPT !.is_active = FALSE] BY <1>9
  <2> QED BY ONLY <2>1, <2>2
<1> HIDE DEF w, g
<1>11. ActiveCarts(w)' = {k}
  <2>1. \A n \in CartIds : n # r.guest => carts'[n] = Opened(k, r)[n] BY <1>9
  <2>2. r.guest \in CartIds => r.guest \in ActiveCarts(g)
    BY <1>8, StorefrontAssumption DEF CartIds
  <2>3. \A n \in CartIds : (carts'[n].owner = w /\ carts'[n].is_active) <=> n = k
    BY <1>7, <1>8, <1>10, <2>1, <2>2 DEF Open
  <2>4. ActiveCarts(w)' = {n \in CartIds : carts'[n].owner = w /\ carts'[n].is_active}
    BY DEF ActiveCarts, w
  <2> QED BY <1>7, <2>3, <2>4
<1>12. ActiveCarts(g)' = {}
  <2>1. \A n \in CartIds : n # r.guest => carts'[n] = Opened(k, r)[n] BY <1>9
  <2>2. \A n \in CartIds : ~(carts'[n].owner = g /\ carts'[n].is_active)
    BY <1>7, <1>8, <1>10, <2>1 DEF Open
  <2>3. ActiveCarts(g)' = {n \in CartIds : carts'[n].owner = g /\ carts'[n].is_active}
    BY DEF ActiveCarts, g
  <2> QED BY <2>2, <2>3
<1> QED BY <1>3, <1>6, <1>7, <1>11, <1>12 DEF w, g

\* What a synchronisation makes of each row.
LEMMA SyncRows ==
    ASSUME ShopInv, NEW r, Turn(r), r.op = "sync", NEW k \in Target(r),
           carts' = CartsSynced(r, k), items' = RowsSynced(r, k), NEW i \in ItemIds
    PROVE  /\ items'[i].product = items[i].product
           /\ i \in Merged(r) => items'[i].cart = 0
           /\ i \in DOMAIN r.gview \ Merged(r) => /\ items'[i].cart = k
                                                  /\ items'[i].quantity = items[i].quantity
           /\ i \notin DOMAIN r.gview => items'[i].cart = items[i].cart
           /\ i \in DOMAIN r.view => /\ i \notin DOMAIN r.gview
                                     /\ items'[i].quantity = items[i].quantity + Added(r, i)
<1>1. /\ RowsRead(r.view, r.owner) /\ RowsRead(r.gview, Other(r)) /\ k \notin ActiveCarts(Other(r))
      /\ \A j \in ItemIds : items[j].cart \in ActiveCarts(r.owner) <=> items[j].cart = k
  BY TurnIs, SyncCarts
<1>2. /\ items[i] \in Item /\ Added(r, i) \in Nat
      /\ i \in Merged(r) => i \in DOMAIN r.gview
  BY TurnIs, AddedTyped DEF Items, Merged, Turn, AtWork
<1>3. i \in DOMAIN r.view => i \notin DOMAIN r.gview /\ r.view[i] = items[i] BY <1>1 DEF RowsRead
<1>4. items'[i] = IF i \in Merged(r) THEN Removed(i)
                  ELSE IF i \in DOMAIN r.gview THEN [items[i] EXCEPT !.cart = k]
                  ELSE IF i \in Written(r)
                       THEN [items[i] EXCEPT !.quantity = r.view[i].quantity + Added(r, i)]
                       ELSE items[i]
  BY DEF RowsSynced
<1>5. CASE i \in Merged(r)
  <2>1. items'[i] = [items[i] EXCEPT !.cart = 0, !.quantity = 0] BY <1>4, <1>5 DEF Removed
  <2>2. items'[i].product = items[i].product /\ items'[i].cart = 0 BY <1>2, <2>1 DEF Item
  <2> QED BY <1>2, <1>3, <1>5, <2>2
<1>6. CASE i \in DOMAIN r.gview \ Merged(r)
  <2>1. items'[i] = [items[i] EXCEPT !.cart = k] BY <1>4, <1>6
  <2>2. /\ items'[i].product = items[i].product /\ items'[i].cart = k
        /\ items'[i].quantity = items[i].quantity
    BY <1>2, <2>1 DEF Item
  <2> QED BY <1>3, <1>6, <2>2
<1>7. CASE i \notin DOMAIN r.gview /\ i \in Written(r)
  <2>1. items'[i] = [items[i] EXCEPT !.quantity = r.view[i].quantity + Added(r, i)]
    BY <1>2, <1>4, <1>7
  <2>2. /\ items'[i].product = items[i].product /\ items'[i].cart = items[i].cart
        /\ items'[i].quantity = r.view[i].quantity + Added(r, i)
    BY <1>2, <2>1 DEF Item
  <2> QED BY <1>2, <1>3, <1>7, <2>2
<1>8. CASE i \notin DOMAIN r.gview /\ i \notin Written(r)
  <2>1. items'[i] = items[i] BY <1>2, <1>4, <1>8
  <2>2. i \in DOMAIN r.view => Added(r, i) = 0 BY <1>2, <1>8 DEF Written
  <2>3. items[i].quantity \in Nat BY <1>2 DEF Item
  <2> QED BY <1>2, <1>3, <1>8, <2>1, <2>2, <2>3
<1> QED BY <1>5, <1>6, <1>7, <1>8

\* What is added to the user's row of a product is what the guest has of it.
LEMMA SyncAdds ==
    ASSUME ShopInv, NEW r, Turn(r), r.op = "sync", RowsRead(r.gview, Other(r)),
           NEW p \in Products, NEW i \in In(r.owner, p)
    PROVE  Added(r, i) = Units(Other(r), p)
<1> DEFINE w == r.owner
           S == {j \in Merged(r) : Min(Into(r, j)) = i}
<1>1. /\ Single(w) /\ Single(Other(r)) /\ RowsRead(r.view, w)
      /\ ShopRequest(r) /\ Reads(r.gview, r.owner[1])
  BY TurnIs DEF Turn, AtWork, ReadsItsOwn
<1>2. \A j \in DOMAIN r.gview : /\ r.gview[j] = items[j] /\ items[j].product \in Products
                                /\ Into(r, j) = In(w, items[j].product) /\ j \in ItemIds
  BY <1>1 DEF RowsRead, Reads, Into
<1>3. ASSUME NEW x \in Products, NEW n \in In(w, x) PROVE Min(In(w, x)) = n
  <2>1. In(w, x) = {n} BY <1>1, UnitsAre
  <2>2. n \in Nat BY StorefrontAssumption DEF In, ItemIds
  <2>3. Min({n}) \in {n} BY <2>2, LeastOfNaturals
  <2> HIDE DEF w
  <2> QED BY <2>1, <2>3
<1>4. S = In(Other(r), p)
  <2>1. ASSUME NEW j \in S PROVE j \in In(Other(r), p)
    <3>1. j \in DOMAIN r.gview /\ In(w, items[j].product) # {} BY <1>2 DEF Merged
    <3>2. PICK n \in In(w, items[j].product) : TRUE BY <3>1
    <3>3. i = n BY <1>2, <1>3, <3>1, <3>2
    <3>4. items[j].product = p BY <3>2, <3>3 DEF In
    <3> QED BY <1>2, <3>1, <3>4 DEF RowsRead, In
  <2>2. ASSUME NEW j \in In(Other(r), p) PROVE j \in S
    <3>1. j \in DOMAIN r.gview /\ items[j].product = p BY DEF RowsRead, In
    <3>2. Into(r, j) = In(w, p) /\ In(w, p) # {} BY <1>2, <3>1
    <3>3. Min(Into(r, j)) = i BY <1>3, <3>2
    <3> QED BY <3>1, <3>2, <3>3 DEF Merged
  <2> HIDE DEF S
  <2> QED BY <2>1, <2>2
<1>5. Added(r, i) = SumOf(Amounts(r.gview), S) BY <1>1, AddedTyped
<1> HIDE DEF S
<1> QED BY <1>1, <1>4, <1>5, RowsSum

LEMMA SyncSound ==
    ASSUME ShopInv, NEW r, Turn(r), r.op = "sync", sync_cart(r)
    PROVE  Sound(r.owner[1])'
<1> DEFINE w == r.owner
           g == Other(r)
           c == r.owner[1]
<1>1. PICK k \in Target(r) : carts' = CartsSynced(r, k) /\ items' = RowsSynced(r, k)
  BY SyncIs
<1>2. /\ RowsRead(r.gview, g) /\ k # 0 /\ k \notin ActiveCarts(g)
      /\ ActiveCarts(w)' = {k} /\ ActiveCarts(g)' = {}
      /\ \A i \in ItemIds : items[i].cart \in ActiveCarts(w) <=> items[i].cart = k
  BY <1>1, SyncCarts
<1>3. /\ Single(w) /\ Single(g) /\ RowsRead(r.view, w) /\ orders \in SaleOrders
      /\ UNCHANGED <<orders, wanted>>
  BY TurnIs, SyncIs
<1>4. \A p : /\ In(w, p)' = {i \in ItemIds : items'[i].cart = k /\ items'[i].product = p}
             /\ In(g, p)' = {}
             /\ In(w, p) = {i \in ItemIds : items[i].cart = k /\ items[i].product = p}
  BY <1>2 DEF In
<1>5. \A i \in DOMAIN r.gview : /\ i \in ItemIds /\ items[i].cart \in ActiveCarts(g)
                                /\ i \in In(g, items[i].product)
                                /\ i \in Merged(r) <=> In(w, items[i].product) # {}
  BY <1>2, <1>3 DEF RowsRead, In, Merged, Into
<1>6. \A p : In(g, p) \subseteq DOMAIN r.gview /\ \A i \in In(g, p) : items[i].product = p
  BY <1>2 DEF RowsRead, In
<1>7. \A p : In(w, p) \subseteq DOMAIN r.view BY <1>3 DEF RowsRead, In
<1>8. ASSUME NEW p, In(w, p) # {} PROVE In(w, p)' = In(w, p)
  <2>1. ASSUME NEW i \in ItemIds
        PROVE  (items'[i].cart = k /\ items'[i].product = p)
                  <=> (items[i].cart = k /\ items[i].product = p)
    <3>1. CASE i \in DOMAIN r.gview
      <4>1. items[i].cart # k BY <1>2, <1>5, <3>1
      <4>2. items[i].product = p => items'[i].cart = 0 BY <1>1, <1>5, <1>8, <3>1, SyncRows
      <4>3. items'[i].product = items[i].product BY <1>1, SyncRows
      <4> QED BY <1>2, <4>1, <4>2, <4>3
    <3>2. CASE i \notin DOMAIN r.gview BY <1>1, <3>2, SyncRows
    <3> QED BY <3>1, <3>2
  <2> HIDE DEF w, g
  <2> QED BY <1>4, <2>1
<1>9. ASSUME NEW p, In(w, p) = {} PROVE In(w, p)' = In(g, p)
  <2>1. ASSUME NEW i \in ItemIds
        PROVE  (items'[i].cart = k /\ items'[i].product = p) <=> i \in In(g, p)
    <3>1. CASE i \in DOMAIN r.gview
      <4>1. items'[i].product = items[i].product BY <1>1, SyncRows
      <4>2. items[i].product = p => items'[i].cart = k BY <1>1, <1>5, <1>9, <3>1, SyncRows
      <4> QED BY <1>5, <1>6, <3>1, <4>1, <4>2
    <3>2. CASE i \notin DOMAIN r.gview
      <4>1. items'[i].product = items[i].product /\ items'[i].cart = items[i].cart
        BY <1>1, <3>2, SyncRows
      <4>2. ~(items[i].cart = k /\ items[i].product = p) BY <1>4, <1>9
      <4>3. i \notin In(g, p) BY <1>6, <3>2
      <4> QED BY <4>1, <4>2, <4>3
    <3> QED BY <3>1, <3>2
  <2>2. In(g, p) \subseteq ItemIds BY DEF In
  <2>3. In(w, p)' = {i \in ItemIds : items'[i].cart = k /\ items'[i].product = p} BY <1>4
  <2> HIDE DEF w, g
  <2> QED BY <2>1, <2>2, <2>3
<1>10. Single(w)' /\ Single(g)'
  <2>1. OneCart(w)' /\ OneCart(g)' BY <1>2 DEF OneCart
  <2>2. \A p \in Products : \A i, j \in In(w, p)' : i = j
    BY <1>3, <1>8, <1>9 DEF Single, OneRow
  <2>3. \A p \in Products : \A i, j \in In(g, p)' : i = j BY <1>4
  <2> QED BY <2>1, <2>2, <2>3 DEF Single, OneRow
<1>11. ASSUME NEW p \in Products
       PROVE  /\ Units(g, p)' = 0 /\ Units(w, p)' = Units(w, p) + Units(g, p)
              /\ Units(w, p) \in Nat /\ Units(g, p) \in Nat
  <2>1. Units(g, p)' = 0 BY <1>4 DEF Units
  <2>2. Units(w, p) \in Nat /\ Units(g, p) \in Nat BY TurnUnits
  <2>3. CASE In(w, p) # {}
    <3>1. PICK i \in In(w, p) : TRUE BY <2>3
    <3>2. In(w, p) = {i} /\ Units(w, p) = items[i].quantity BY <1>3, UnitsAre
    <3>3. i \in DOMAIN r.view /\ i \in ItemIds BY <1>7 DEF In
    <3>4. items'[i].quantity = items[i].quantity + Added(r, i) BY <1>1, <3>3, SyncRows
    <3>5. Added(r, i) = Units(g, p) BY <1>2, SyncAdds
    <3>6. Units(w, p)' = items'[i].quantity BY <1>8, <2>3, <3>2, PickOne DEF Units
    <3> HIDE DEF w, g
    <3> QED BY <2>1, <2>2, <3>2, <3>4, <3>5, <3>6
  <2>4. CASE In(w, p) = {} /\ In(g, p) = {}
    <3>1. Units(w, p) = 0 /\ Units(g, p) = 0 BY <2>4 DEF Units
    <3>2. Units(w, p)' = 0 BY <1>9, <2>4 DEF Units
    <3> QED BY <2>1, <3>1, <3>2
  <2>5. CASE In(w, p) = {} /\ In(g, p) # {}
    <3>1. PICK i \in In(g, p) : TRUE BY <2>5
    <3>2. In(g, p) = {i} /\ Units(g, p) = items[i].quantity BY <1>3, UnitsAre
    <3>3. i \in DOMAIN r.gview \ Merged(r) /\ i \in ItemIds BY <1>5, <1>6, <2>5
    <3>4. items'[i].quantity = items[i].quantity BY <1>1, <3>3, SyncRows
    <3>5. Units(w, p)' = items'[i].quantity BY <1>9, <2>5, <3>2, PickOne DEF Units
    <3>6. Units(w, p) = 0 BY <2>5 DEF Units
    <3> HIDE DEF w, g
    <3> QED BY <2>1, <2>2, <3>2, <3>4, <3>5, <3>6
  <2> QED BY <2>3, <2>4, <2>5
<1>12. ASSUME NEW p \in Products
       PROVE  /\ wanted'[c][p] = OrderedBy(c, p)' + Units(w, p)' + Units(g, p)'
              /\ OrderedBy(c, p)' \in Int
              /\ Units(w, p)' \in Int /\ Units(g, p)' \in Int
  <2>1. OrderedBy(c, p)' = OrderedBy(c, p) /\ OrderedBy(c, p) \in Int BY <1>3, OrderedByKept
  <2>2. wanted[c][p] = OrderedBy(c, p) + Units(w, p) + Units(g, p) BY TurnUnits
  <2>3. wanted' = wanted BY <1>3
  <2>4. \A x, y, z \in Int : x + y + z = x + (y + z) + 0 OBVIOUS
  <2> HIDE DEF w, g, c
  <2> QED BY <1>11, <2>1, <2>2, <2>3, <2>4
<1> QED BY <1>10, <1>12, SoundAgain

\* Whatever a request does when it has its customer for itself, the account is right.
LEMMA WorkSound ==
    ASSUME ShopInv, NEW r, Turn(r), Works(r)
    PROVE  Sound(r.owner[1])'
BY GetSound, AddSound, UpdateSound, RemoveSound, SyncSound, CheckoutSound DEF Works

\* A customer of whom a step changes nothing.
LEMMA SoundKept ==
    ASSUME NEW c \in Customers, Sound(c), \A x \in Sides(c) : SideKept(x),
           \A p \in Products : /\ wanted'[c][p] = wanted[c][p]
                               /\ OrderedBy(c, p)' = OrderedBy(c, p)
    PROVE  Sound(c)'
<1>1. \A x \in Sides(c) : Single(x)' BY SideKeptIs DEF Sound
<1>2. ASSUME NEW p \in Products
      PROVE  /\ Units(<<c, "user">>, p)' = Units(<<c, "user">>, p)
             /\ Units(<<c, "guest">>, p)' = Units(<<c, "guest">>, p)
  BY SideKeptIs DEF Sides
<1>3. \A p \in Products : wanted'[c][p] = OrderedBy(c, p)' + Units(<<c, "user">>, p)'
                                                            + Units(<<c, "guest">>, p)'
  BY <1>2 DEF Sound
<1> QED BY <1>1, <1>3 DEF Sound, Sides

\* What a request has read stays as it was while its customer's sides are not touched.
LEMMA ReadKept ==
    ASSUME ShopInv, ShopInv', NEW r, ShopRequest(r), JustRead(r),
           \A x \in Sides(r.owner[1]) : SideKept(x) /\ OneCart(x)
    PROVE  JustRead(r)'
<1> DEFINE g == <<r.owner[1], "guest">>
<1>1. r.owner \in Sides(r.owner[1]) /\ g \in Sides(r.owner[1])
  BY DEF ShopRequest, Owners, Sides
<1>2. items = [i \in ItemIds |-> items[i]] /\ items' = [i \in ItemIds |-> items'[i]]
  BY DEF ShopInv, ShopTypes, Items
<1>3. /\ _find_cart(r.owner)' = _find_cart(r.owner) /\ _find_cart(g)' = _find_cart(g)
      /\ _load_cart(_find_cart(r.owner))' = _load_cart(_find_cart(r.owner))
      /\ _load_cart(_find_cart(g))' = _load_cart(_find_cart(g))
      /\ ActiveCarts(r.owner)' = ActiveCarts(r.owner)
  <2>1. SideKept(r.owner) /\ OneCart(r.owner) /\ SideKept(g) /\ OneCart(g) BY <1>1
  <2> HIDE DEF g
  <2> QED BY <1>2, <2>1, SideKeptIs, ViewKept DEF SideKept
<1>4. /\ r.cart = _find_cart(r.owner)' /\ r.cart = _find_cart(r.owner)
      /\ r.view = _load_cart(_find_cart(r.owner))
      /\ r.op = "sync" => r.guest = _find_cart(g) /\ r.gview = _load_cart(_find_cart(g))
      /\ r.op # "sync" => r.guest = 0 /\ r.gview = _load_cart(0)
  BY <1>3 DEF JustRead
<1>5. r.view = _load_cart(r.cart)'
  <2>1. r.view = _load_cart(_find_cart(r.owner))' BY <1>3, <1>4
  <2>2. _load_cart(r.cart)' = _load_cart(_find_cart(r.owner))' BY <1>4 DEF _load_cart
  <2> QED BY <2>1, <2>2
<1>6. _load_cart(0)' = _load_cart(0) BY DEF _load_cart
<1>7. r.gview = _load_cart(r.guest)'
  <2>1. CASE r.op # "sync" BY <1>4, <1>6, <2>1 DEF _load_cart
  <2>2. CASE r.op = "sync"
    <3>1. r.gview = _load_cart(_find_cart(g))' /\ r.guest = _find_cart(g)' BY <1>3, <1>4, <2>2
    <3>2. _load_cart(r.guest)' = _load_cart(_find_cart(g))' BY <3>1 DEF _load_cart
    <3> QED BY <3>1, <3>2
  <2> QED BY <2>1, <2>2
<1>8. /\ r.guest = IF r.op = "sync" THEN _find_cart(g)' ELSE 0
      /\ r.op = "sync" => r.owner[2] = "user"
      /\ r.op = "get" => ActiveCarts(r.owner)' = {}
  BY <1>3, <1>4 DEF JustRead
<1> QED BY <1>4, <1>5, <1>7, <1>8 DEF JustRead

\* What a request of another customer does to wanted and to the orders.
LEMMA OthersAccounts ==
    ASSUME ShopInv, NEW r, AtWork(r), Works(r), NEW c \in Customers, c # r.owner[1],
           NEW p \in Products
    PROVE  wanted'[c][p] = wanted[c][p] /\ OrderedBy(c, p)' = OrderedBy(c, p)
<1>1. orders \in SaleOrders /\ wanted \in [Customers -> [Products -> Int]]
  BY DEF ShopInv, ShopTypes
<1>2. wanted'[c] = wanted[c]
  <2>1. ASSUME NEW n, Wanted(r, n) PROVE wanted'[c] = wanted[c] BY <1>1, <2>1 DEF Wanted
  <2>2. CASE \E n : Wanted(r, n) BY <2>1, <2>2
  <2>3. CASE wanted' = wanted BY <2>3
  <2>4. (\E n : Wanted(r, n)) \/ wanted' = wanted
    BY DEF Works, get_cart, add_to_cart, update_cart_item, remove_from_cart, sync_cart, checkout
  <2> QED BY <2>2, <2>3, <2>4
<1>3. CASE orders' = orders BY <1>1, <1>2, <1>3, OrderedByKept
<1>4. CASE r.op = "checkout"
  <2>1. checkout(r) BY <1>4 DEF Works
  <2>2. orders' \in SaleOrders /\ Lines(r) \in [Products -> Nat]
    BY <1>4, <2>1, CheckoutWrites, CheckoutIs
  <2>3. PICK o \in OrderIds, state \in {"draft", "sent"} :
           /\ orders[o] = NoOrder
           /\ orders' = [orders EXCEPT ![o] = [owner |-> r.owner, cart |-> r.cart,
                                               lines |-> Lines(r), state |-> state]]
    BY <1>4, <2>1, CheckoutIs
  <2>4. /\ orders[o].lines[p] = 0 /\ orders'[o].owner[1] # c
        /\ \A k \in OrderIds : k # o => orders'[k] = orders[k]
    BY <1>1, <2>3 DEF SaleOrders, NoOrder
  <2>5. \A k \in OrderIds :
           (IF orders'[k].owner[1] = c THEN orders'[k].lines[p] ELSE 0)
              = IF orders[k].owner[1] = c THEN orders[k].lines[p] ELSE 0
    BY <2>4
  <2>6. OrderLinesOf(c, p)' = OrderLinesOf(c, p)
    <3>1. OrderLinesOf(c, p) = [k \in OrderIds |-> IF orders[k].owner[1] = c
                                                   THEN orders[k].lines[p] ELSE 0]
      BY DEF OrderLinesOf, Only, OrderLines
    <3>2. OrderLinesOf(c, p)' = [k \in OrderIds |-> IF orders'[k].owner[1] = c
                                                    THEN orders'[k].lines[p] ELSE 0]
      BY DEF OrderLinesOf, Only, OrderLines
    <3> QED BY <2>5, <3>1, <3>2
  <2> QED BY <1>1, <1>2, <2>2, <2>6, OrderedByIs
<1>5. r.op # "checkout" => orders' = orders BY WorkKeeps
<1> QED BY <1>3, <1>4, <1>5

LEMMA AccountInit == StorefrontInit => AccountInv
<1> SUFFICES ASSUME StorefrontInit, NEW c \in Customers PROVE Sound(c) /\ Undisturbed(c)
  BY DEF AccountInv
<1>1. ShopInv BY ShopInit
<1>2. \A x \in Sides(c) : ActiveCarts(x) = {}
  BY DEF StorefrontInit, ActiveCarts, NoCart
<1>3. \A x \in Sides(c) : \A p : In(x, p) = {} BY <1>2 DEF In
<1>4. \A x \in Sides(c) : Single(x) BY <1>2, <1>3 DEF Single, OneCart, OneRow
<1>5. \A x \in Sides(c) : \A p : Units(x, p) = 0 BY <1>3 DEF Units
<1>6. \A p \in Products : OrderedBy(c, p) = 0
  <2> TAKE p \in Products
  <2>1. orders \in SaleOrders BY <1>1 DEF ShopInv, ShopTypes
  <2>2. \A o \in OrderIds : OrderLinesOf(c, p)[o] = 0
    BY <2>1, OrderLinesTyped DEF StorefrontInit, NoOrder
  <2>3. SumOf(OrderLinesOf(c, p), OrderIds) = 0 BY <2>2, OrderIdsFinite, SumOfNothing
  <2> QED BY <2>1, <2>3, OrderedByNow
<1>7. Sound(c) BY <1>4, <1>5, <1>6 DEF Sound, Sides, StorefrontInit
<1>8. Undisturbed(c) BY DEF Undisturbed, StorefrontInit
<1> QED BY <1>7, <1>8

\* A request that begins with another one in flight takes its customer out of the account.
LEMMA BeginAccounts ==
    ASSUME ShopInv, AccountInv, NEW s \in Sessions, NEW r, Begins(s, r)
    PROVE  AccountInv'
<1> SUFFICES ASSUME NEW c \in Customers \ overlapped' PROVE Sound(c)' /\ Undisturbed(c)'
  BY DEF AccountInv
<1>1. c \in Customers \ overlapped BY DEF Begins
<1>2. Sound(c) /\ Undisturbed(c) BY <1>1 DEF AccountInv
<1>3. /\ UNCHANGED <<stock, carts, items, orders>> /\ sess[s] = Free
      /\ \A z \in Sessions : sess'[z] = IF z = s THEN r ELSE sess[z]
      /\ JustRead(r) /\ orders \in SaleOrders
  BY DEF Begins, ShopInv, ShopTypes
<1>4. r.owner[1] = c => \A z \in Sessions : sess[z].owner[1] # c BY <1>1 DEF Begins
<1>5. wanted'[c] = wanted[c]
  <2>1. wanted \in [Customers -> [Products -> Int]] BY DEF ShopInv, ShopTypes
  <2>2. r.owner[1] = c => wanted' = wanted BY <1>1 DEF Begins
  <2>3. r.owner[1] # c => wanted'[c] = wanted[c] BY <1>1, <2>1 DEF Begins
  <2> QED BY <2>2, <2>3
<1>6. Sound(c)'
  <2>1. \A x \in Sides(c) : SideKept(x) BY <1>3 DEF SideKept, ActiveCarts
  <2>2. \A p \in Products : OrderedBy(c, p)' = OrderedBy(c, p) BY <1>3, OrderedByKept
  <2> QED BY <1>1, <1>2, <1>5, <2>1, <2>2, SoundKept
<1>7. \A q : JustRead(q)' <=> JustRead(q)
  BY <1>3 DEF JustRead, _find_cart, _load_cart, ActiveCarts
<1>8. Undisturbed(c)'
  <2>1. ASSUME NEW y \in Sessions, NEW z \in Sessions,
               sess'[y] # Free, sess'[y].owner[1] = c, sess'[z] # Free, sess'[z].owner[1] = c
        PROVE  y = z
    BY <1>2, <1>3, <1>4, <2>1 DEF Undisturbed
  <2>2. ASSUME NEW z \in Sessions, sess'[z] # Free, sess'[z].owner[1] = c
        PROVE  JustRead(sess[z])'
    <3>1. JustRead(sess'[z]) BY <1>2, <1>3, <2>2 DEF Undisturbed
    <3>2. \A q : q = sess'[z] => JustRead(q)' BY <1>7, <3>1
    <3> QED BY <3>2
  <2> QED BY <2>1, <2>2 DEF Undisturbed
<1> QED BY <1>6, <1>8

\* A request that ends leaves the other customers' requests what they have read.
LEMMA EndAccounts ==
    ASSUME ShopInv, ShopInv', AccountInv, NEW s \in Sessions, Ends(s, sess[s]),
           Works(sess[s]) \/ UNCHANGED <<stock, carts, items, orders, wanted>>
    PROVE  AccountInv'
<1> SUFFICES ASSUME NEW c \in Customers \ overlapped' PROVE Sound(c)' /\ Undisturbed(c)'
  BY DEF AccountInv
<1> DEFINE r == sess[s]
           d == r.owner[1]
<1>1. c \in Customers \ overlapped BY DEF Ends
<1>2. Sound(c) /\ Undisturbed(c) BY <1>1 DEF AccountInv
<1>3. /\ \A z \in Sessions : sess'[z] = IF z = s THEN Free ELSE sess[z]
      /\ r # Free /\ AtWork(r) /\ orders \in SaleOrders
      /\ wanted \in [Customers -> [Products -> Int]]
  BY DEF Ends, AtWork, ShopInv, ShopTypes
<1>4. CASE c # d \/ UNCHANGED <<stock, carts, items, orders, wanted>>
  <2>1. \A x \in Sides(c) : SideKept(x)
    <3>1. CASE UNCHANGED <<stock, carts, items, orders, wanted>>
      BY <3>1 DEF SideKept, ActiveCarts
    <3>2. CASE c # d /\ Works(r)
      <4>1. Writes(d) BY <1>3, <3>2, WorkKeeps
      <4> QED BY <1>1, <3>2, <4>1, OthersKeep
    <3> QED BY <1>4, <3>1, <3>2
  <2>2. \A p \in Products : wanted'[c][p] = wanted[c][p] /\ OrderedBy(c, p)' = OrderedBy(c, p)
    <3>1. CASE UNCHANGED <<stock, carts, items, orders, wanted>>
      BY <1>3, <3>1, OrderedByKept
    <3>2. CASE c # d /\ Works(r)
      BY <1>1, <1>3, <3>2, OthersAccounts
    <3> QED BY <1>4, <3>1, <3>2
  <2>3. Sound(c)' BY <1>1, <1>2, <2>1, <2>2, SoundKept
  <2>4. Undisturbed(c)'
    <3>1. \A y, z \in Sessions : /\ sess'[y] # Free /\ sess'[y].owner[1] = c
                                 /\ sess'[z] # Free /\ sess'[z].owner[1] = c
                                 => y = z
      BY <1>2, <1>3 DEF Undisturbed
    <3>2. ASSUME NEW z \in Sessions, sess'[z] # Free, sess'[z].owner[1] = c
          PROVE  JustRead(sess[z])'
      <4>1. /\ sess'[z] = sess[z] /\ JustRead(sess[z]) /\ ShopRequest(sess[z])
            /\ sess[z].owner[1] = c
        BY <1>2, <1>3, <3>2 DEF Undisturbed, ShopInv, ShopTypes
      <4>2. \A x \in Sides(c) : OneCart(x) BY <1>2 DEF Sound, Single
      <4>3. \A q : q = sess[z] => JustRead(q)' BY <2>1, <4>1, <4>2, ReadKept
      <4> QED BY <4>1, <4>3
    <3> QED BY <3>1, <3>2 DEF Undisturbed
  <2> QED BY <2>3, <2>4
<1>5. CASE c = d /\ Works(r)
  <2>1. JustRead(r) BY <1>2, <1>3, <1>5 DEF Undisturbed
  <2>2. Turn(r) BY <1>1, <1>2, <1>3, <1>5, <2>1 DEF Turn
  <2>3. Sound(c)' BY <1>5, <2>2, WorkSound
  <2>4. Undisturbed(c)'
    <3>1. \A z \in Sessions : sess'[z] = Free \/ sess'[z].owner[1] # c
      BY <1>2, <1>3, <1>5 DEF Undisturbed
    <3> QED BY <3>1 DEF Undisturbed
  <2> QED BY <2>3, <2>4
<1> QED BY <1>4, <1>5

LEMMA AccountNext ==
    ShopInv /\ ShopInv' /\ AccountInv /\ [StorefrontNext]_storefrontVars => AccountInv'
<1> SUFFICES ASSUME ShopInv, ShopInv', AccountInv, [StorefrontNext]_storefrontVars
             PROVE  AccountInv'
  OBVIOUS
<1>1. CASE StorefrontNext
  <2>1. PICK s \in Sessions : \/ \E r : Begins(s, r)
                              \/ Ends(s, sess[s]) /\ Works(sess[s])
                              \/ GaveUp(s)
    BY <1>1, StepIs
  <2> QED BY <2>1, BeginAccounts, EndAccounts DEF GaveUp
<1>2. CASE UNCHANGED storefrontVars
  <2> SUFFICES ASSUME NEW c \in Customers \ overlapped' PROVE Sound(c)' /\ Undisturbed(c)'
    BY DEF AccountInv
  <2>1. /\ Sound(c) /\ Undisturbed(c) /\ UNCHANGED <<stock, carts, items, orders, wanted, sess>>
    BY <1>2 DEF AccountInv, storefrontVars
  <2>2. Sound(c)'
    <3>1. \A x \in Sides(c) : SideKept(x) BY <2>1 DEF SideKept, ActiveCarts
    <3>2. \A p \in Products : OrderedBy(c, p)' = OrderedBy(c, p)
      BY <2>1, OrderedByKept DEF ShopInv, ShopTypes
    <3> QED BY <2>1, <3>1, <3>2, SoundKept
  <2>3. Undisturbed(c)'
    <3>1. \A q : JustRead(q) => JustRead(q)'
      BY <2>1 DEF JustRead, _find_cart, _load_cart, ActiveCarts
    <3> QED BY <2>1, <3>1 DEF Undisturbed
  <2> QED BY <2>2, <2>3
<1> QED BY <1>1, <1>2

\* What the two sides hold is what the customer sees.
LEMMA AccountGives == ShopInv /\ AccountInv => CartUnitsAccounted
<1> SUFFICES ASSUME ShopInv, AccountInv, NEW c \in Customers \ overlapped, NEW p \in Products
             PROVE  wanted[c][p] = OrderedBy(c, p)
                                     + Quantity(_load_cart(_find_cart(<<c, "user">>)), p)
                                     + Quantity(_load_cart(_find_cart(<<c, "guest">>)), p)
  BY DEF CartUnitsAccounted
<1>1. Sound(c) BY DEF AccountInv
<1>2. ASSUME NEW x \in Sides(c) PROVE Quantity(_load_cart(_find_cart(x)), p) = Units(x, p)
  <2>1. Single(x) /\ OneCart(x) BY <1>1 DEF Sound, Single
  <2>2. x \in Owners /\ x[1] = c BY DEF Sides, Owners
  <2>3. /\ _find_cart(x) \in CartIds \cup {0}
        /\ _find_cart(x) # 0 => carts[_find_cart(x)].owner[1] = c
    BY <2>2, CartFound DEF ActiveCarts
  <2>4. IsView(_load_cart(_find_cart(x))) BY <2>3, ViewIs
  <2>5. RowsRead(_load_cart(_find_cart(x)), x) BY <2>1, LoadIs
  <2> QED BY <2>1, <2>4, <2>5, QuantityIs
<1>3. <<c, "user">> \in Sides(c) /\ <<c, "guest">> \in Sides(c) BY DEF Sides
<1>4. /\ Quantity(_load_cart(_find_cart(<<c, "user">>)), p) = Units(<<c, "user">>, p)
      /\ Quantity(_load_cart(_find_cart(<<c, "guest">>)), p) = Units(<<c, "guest">>, p)
  BY <1>2, <1>3
<1> QED BY <1>1, <1>4 DEF Sound

\* CartUnitsAccounted: as long as a customer has one request in flight at a time, each
\* request works on what it has read, an owner has one active cart with one row for each
\* product, and every unit asked for is in one of the customer's two carts or ordered.
THEOREM CartUnitsAreAccounted == StorefrontSpec => []CartUnitsAccounted
<1> QED
  BY ShopInit, ShopNext, AccountInit, AccountNext, AccountGives, PTL DEF StorefrontSpec
===============================================================================
