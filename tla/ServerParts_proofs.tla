-------------------------- MODULE ServerParts_proofs --------------------------
(***************************************************************************)
(* Theorems about RequestServing, for any finite set of requests and any   *)
(* number of connections and threads, and about OptionCatalog, for any     *)
(* codes and places, and sheets of any number of rows.                     *)
(***************************************************************************)
EXTENDS RequestServing, OptionCatalog, FiniteSetTheorems, WellFoundedInduction, TLAPS

ServingSpec == ServingInit /\ [][ServingNext]_servingVars

\* Who has a connection has begun, or its caller was looked up; it has not committed.
PoolInv == \A r \in pool : job[r].at \in {"ready", "begun", "locked", "calling", "closing"}

\* A provider call keeps its connection.
CallInv == \A r \in Slots : At(r, "calling") => r \in pool

\* Who has the row lock works, or waits for its session to be closed.
LockInv == rowLock # Nobody => job[rowLock].at \in {"locked", "closing"}

\* The inductive invariant.
ServingInv == ServingTypeOK /\ PoolInv /\ CallInv /\ LockInv

-----------------------------------------------------------------------------
\* What a step does to the job of its request and of the others.
LEMMA GoesTyped ==
    ASSUME ServingTypeOK, NEW r \in Slots, ~At(r, "idle"), NEW place \in Places,
           Goes(r, place)
    PROVE  /\ job' \in [Slots -> [op : Operations, at : Places] \cup {NoJob}]
           /\ job'[r].at = place
           /\ \A q \in Slots : q # r => job'[q] = job[q]
<1>1. job \in [Slots -> [op : Operations, at : Places] \cup {NoJob}]
  BY DEF ServingTypeOK
<1>2. job[r] \in [op : Operations, at : Places]
  BY <1>1 DEF At, NoJob
<1>3. [job[r] EXCEPT !.at = place] \in [op : Operations, at : Places]
  BY <1>2
<1>4. job' = [job EXCEPT ![r] = [job[r] EXCEPT !.at = place]]
  BY DEF Goes
<1>5. QED
  BY <1>1, <1>2, <1>3, <1>4

\* A request that starts or ends.
LEMMA JobTyped ==
    ASSUME ServingTypeOK, NEW r \in Slots,
           NEW new \in [op : Operations, at : Places] \cup {NoJob},
           job' = [job EXCEPT ![r] = new]
    PROVE  /\ job' \in [Slots -> [op : Operations, at : Places] \cup {NoJob}]
           /\ job'[r] = new
           /\ \A q \in Slots : q # r => job'[q] = job[q]
BY DEF ServingTypeOK

\* A session takes a connection only while one is left.
LEMMA PoolGrows ==
    ASSUME ServingTypeOK, NEW r \in Slots, Connected(r), pool' = pool \cup {r}
    PROVE  pool' \subseteq Slots /\ Cardinality(pool') <= PoolSize
<1>1. IsFiniteSet(pool) /\ pool \subseteq Slots /\ Cardinality(pool) <= PoolSize
  BY FS_Subset, ServingAssumption DEF ServingTypeOK
<1>2. Cardinality(pool) \in Nat
  BY <1>1, FS_CardinalityType
<1>3. Cardinality(pool \cup {r}) = IF r \in pool THEN Cardinality(pool) ELSE Cardinality(pool) + 1
  BY <1>1, FS_AddElement
<1>4. QED
  BY <1>1, <1>2, <1>3, ServingAssumption DEF Connected

\* What is given back makes room.
LEMMA PoolShrinks ==
    ASSUME ServingTypeOK, NEW r \in Slots, pool' = pool \ {r}
    PROVE  pool' \subseteq Slots /\ Cardinality(pool') <= PoolSize
<1>1. IsFiniteSet(pool) /\ pool \subseteq Slots /\ Cardinality(pool) <= PoolSize
  BY FS_Subset, ServingAssumption DEF ServingTypeOK
<1>2. Cardinality(pool) \in Nat
  BY <1>1, FS_CardinalityType
<1>3. Cardinality(pool \ {r}) = IF r \in pool THEN Cardinality(pool) - 1 ELSE Cardinality(pool)
  BY <1>1, FS_RemoveElement
<1>4. QED
  BY <1>1, <1>2, <1>3, ServingAssumption

\* The locks' holders stay requests or nobody.
LEMMA HoldersTyped ==
    ASSUME ServingTypeOK, NEW r \in Slots
    PROVE  /\ Freed(r) \in Slots \cup {Nobody}
           /\ Unlocked(r) \in Slots \cup {Nobody} /\ Unlocked(r) # r
           /\ Unlocked(r) # Nobody => Unlocked(r) = rowLock
BY ServingAssumption DEF ServingTypeOK, Freed, Unlocked

-----------------------------------------------------------------------------
\* The initial state.
LEMMA InitInv == ServingInit => ServingInv
<1> SUFFICES ASSUME ServingInit PROVE ServingInv
  OBVIOUS
<1>1. Cardinality(pool) = 0
  BY FS_EmptySet DEF ServingInit
<1>2. ServingTypeOK
  BY <1>1, ServingAssumption DEF ServingInit, ServingTypeOK
<1>3. PoolInv /\ CallInv /\ LockInv
  BY DEF ServingInit, PoolInv, CallInv, LockInv, At, NoJob
<1>4. QED
  BY <1>2, <1>3 DEF ServingInv

\* A step that moves r to another place and gives nothing to another request keeps the
\* parts of the invariant that speak of places.
LEMMA MovesKeep ==
    ASSUME ServingInv, NEW r \in Slots, NEW place \in Places,
           job'[r].at = place, \A q \in Slots : q # r => job'[q] = job[q],
           pool' \subseteq pool \cup {r},
           \A q \in pool : q # r => q \in pool',
           r \in pool' => place \in {"ready", "begun", "locked", "calling", "closing"},
           place = "calling" => r \in pool',
           rowLock' \in {rowLock, r, Nobody},
           rowLock' = r => place \in {"locked", "closing"}
    PROVE  PoolInv' /\ CallInv' /\ LockInv'
<1>1. pool \subseteq Slots /\ rowLock \in Slots \cup {Nobody}
  BY DEF ServingInv, ServingTypeOK
<1>2. PoolInv'
  BY <1>1 DEF ServingInv, PoolInv
<1>3. CallInv'
  BY DEF ServingInv, CallInv, At
<1>4. LockInv'
  BY <1>1 DEF ServingInv, LockInv
<1>5. QED
  BY <1>2, <1>3, <1>4

\* Every step of a request.
LEMMA StepInv == ServingInv /\ [ServingNext]_servingVars => ServingInv'
<1> SUFFICES ASSUME ServingInv, [ServingNext]_servingVars PROVE ServingInv'
  OBVIOUS
<1>t. ServingTypeOK /\ PoolInv /\ CallInv /\ LockInv
  BY DEF ServingInv
<1>1. ASSUME NEW r \in Slots, NEW op \in Operations, Arrives(r, op) PROVE ServingInv'
  <2>1. PICK place \in {"auth", "ready"} : job' = [job EXCEPT ![r] = [op |-> op, at |-> place]]
    BY <1>1 DEF Arrives
  <2>2. [op |-> op, at |-> place] \in [op : Operations, at : Places] /\ place \in Places
    BY DEF Places
  <2>3. UNCHANGED <<pool, rowLock, eventLoop>> /\ At(r, "idle")
    BY <1>1 DEF Arrives
  <2>4. /\ job' \in [Slots -> [op : Operations, at : Places] \cup {NoJob}]
        /\ job'[r].at = place /\ \A q \in Slots : q # r => job'[q] = job[q]
    <3>1. /\ job' \in [Slots -> [op : Operations, at : Places] \cup {NoJob}]
          /\ job'[r] = [op |-> op, at |-> place]
          /\ \A q \in Slots : q # r => job'[q] = job[q]
      BY <1>t, <2>1, <2>2, JobTyped
    <3>2. QED
      BY <3>1
  <2>5. ServingTypeOK'
    BY <1>t, <2>3, <2>4 DEF ServingTypeOK
  <2>6. r \notin pool /\ rowLock # r
    BY <1>t, <2>3, ServingAssumption DEF PoolInv, LockInv, At
  <2>7. PoolInv' /\ CallInv' /\ LockInv'
    BY <2>2, <2>3, <2>4, <2>6, MovesKeep
  <2>8. QED
    BY <2>5, <2>7 DEF ServingInv
<1>2. ASSUME NEW r \in Slots, Authenticated(r) PROVE ServingInv'
  <2>1. PICK place \in {"ready", "closing"} : Goes(r, place)
    BY <1>2 DEF Authenticated
  <2>2. At(r, "auth") /\ Connected(r) /\ pool' = pool \cup {r} /\ UNCHANGED <<rowLock, eventLoop>>
    BY <1>2 DEF Authenticated
  <2>3. ~At(r, "idle") /\ place \in Places
    BY <2>2 DEF At, Places
  <2>4. /\ job' \in [Slots -> [op : Operations, at : Places] \cup {NoJob}]
        /\ job'[r].at = place /\ \A q \in Slots : q # r => job'[q] = job[q]
    BY <1>t, <2>1, <2>3, GoesTyped
  <2>5. ServingTypeOK'
    BY <1>t, <2>2, <2>4, PoolGrows DEF ServingTypeOK
  <2>6. rowLock # r
    BY <1>t, <2>2, ServingAssumption DEF LockInv, At
  <2>7. PoolInv' /\ CallInv' /\ LockInv'
    BY <2>2, <2>3, <2>4, <2>6, MovesKeep
  <2>8. QED
    BY <2>5, <2>7 DEF ServingInv
<1>3. ASSUME NEW r \in Slots, Dispatched(r) PROVE ServingInv'
  <2>1. At(r, "ready") /\ Goes(r, "begun") /\ UNCHANGED <<pool, rowLock>> /\ eventLoop' \in {r, Nobody}
    BY <1>3 DEF Dispatched
  <2>2. ~At(r, "idle") /\ "begun" \in Places
    BY <2>1 DEF At, Places
  <2>3. /\ job' \in [Slots -> [op : Operations, at : Places] \cup {NoJob}]
        /\ job'[r].at = "begun" /\ \A q \in Slots : q # r => job'[q] = job[q]
    BY <1>t, <2>1, <2>2, GoesTyped
  <2>4. ServingTypeOK'
    BY <1>t, <2>1, <2>3 DEF ServingTypeOK
  <2>5. rowLock # r
    BY <1>t, <2>1, ServingAssumption DEF LockInv, At
  <2>6. PoolInv' /\ CallInv' /\ LockInv'
    BY <2>1, <2>2, <2>3, <2>5, MovesKeep
  <2>7. QED
    BY <2>4, <2>6 DEF ServingInv
<1>4. ASSUME NEW r \in Slots, Connects(r) PROVE ServingInv'
  <2>1. /\ At(r, "begun") /\ Connected(r) /\ pool' = pool \cup {r}
        /\ UNCHANGED <<job, rowLock, eventLoop>>
    BY <1>4 DEF Connects
  <2>2. ServingTypeOK'
    BY <1>t, <2>1, PoolGrows DEF ServingTypeOK
  <2>3. PoolInv' /\ CallInv' /\ LockInv'
    BY <1>t, <2>1 DEF PoolInv, CallInv, LockInv, At
  <2>4. QED
    BY <2>2, <2>3 DEF ServingInv
<1>5. ASSUME NEW r \in Slots, RowLocked(r) PROVE ServingInv'
  <2>1. /\ At(r, "begun") /\ Goes(r, "locked") /\ rowLock' = r
        /\ UNCHANGED <<pool, eventLoop>>
    BY <1>5 DEF RowLocked
  <2>2. ~At(r, "idle") /\ "locked" \in Places
    BY <2>1 DEF At, Places
  <2>3. /\ job' \in [Slots -> [op : Operations, at : Places] \cup {NoJob}]
        /\ job'[r].at = "locked" /\ \A q \in Slots : q # r => job'[q] = job[q]
    BY <1>t, <2>1, <2>2, GoesTyped
  <2>4. ServingTypeOK'
    BY <1>t, <2>1, <2>3 DEF ServingTypeOK
  <2>5. PoolInv' /\ CallInv' /\ LockInv'
    BY <2>1, <2>2, <2>3, MovesKeep
  <2>6. QED
    BY <2>4, <2>5 DEF ServingInv
<1>6. ASSUME NEW r \in Slots, ProviderCalled(r) PROVE ServingInv'
  <2>1. /\ At(r, "begun") /\ r \in pool /\ Goes(r, "calling")
        /\ UNCHANGED <<pool, rowLock, eventLoop>>
    BY <1>6 DEF ProviderCalled
  <2>2. ~At(r, "idle") /\ "calling" \in Places
    BY <2>1 DEF At, Places
  <2>3. /\ job' \in [Slots -> [op : Operations, at : Places] \cup {NoJob}]
        /\ job'[r].at = "calling" /\ \A q \in Slots : q # r => job'[q] = job[q]
    BY <1>t, <2>1, <2>2, GoesTyped
  <2>4. ServingTypeOK'
    BY <1>t, <2>1, <2>3 DEF ServingTypeOK
  <2>5. rowLock # r
    BY <1>t, <2>1, ServingAssumption DEF LockInv, At
  <2>6. PoolInv' /\ CallInv' /\ LockInv'
    BY <2>1, <2>2, <2>3, <2>5, MovesKeep
  <2>7. QED
    BY <2>4, <2>6 DEF ServingInv
<1>7. ASSUME NEW r \in Slots, Commits(r) PROVE ServingInv'
  <2>1. PICK place \in {"refreshing", "closing"} : Goes(r, place)
    BY <1>7 DEF Commits
  <2>2. /\ At(r, "locked") \/ At(r, "calling")
        /\ pool' = pool \ {r} /\ rowLock' = Unlocked(r) /\ eventLoop' \in {eventLoop, Freed(r)}
    BY <1>7 DEF Commits
  <2>3. ~At(r, "idle") /\ place \in Places
    BY <2>2 DEF At, Places
  <2>4. /\ job' \in [Slots -> [op : Operations, at : Places] \cup {NoJob}]
        /\ job'[r].at = place /\ \A q \in Slots : q # r => job'[q] = job[q]
    BY <1>t, <2>1, <2>3, GoesTyped
  <2>5. ServingTypeOK'
    BY <1>t, <2>2, <2>4, PoolShrinks, HoldersTyped DEF ServingTypeOK
  <2>6. rowLock' # r /\ rowLock' \in {rowLock, Nobody} /\ place # "calling"
    BY <1>t, <2>2, HoldersTyped
  <2>7. PoolInv' /\ CallInv' /\ LockInv'
    BY <2>2, <2>3, <2>4, <2>6, MovesKeep
  <2>8. QED
    BY <2>5, <2>7 DEF ServingInv
<1>8. ASSUME NEW r \in Slots, Refreshed(r) PROVE ServingInv'
  <2>1. /\ At(r, "refreshing") /\ Connected(r) /\ Goes(r, "closing")
        /\ pool' = pool \cup {r} /\ eventLoop' = Freed(r) /\ UNCHANGED rowLock
    BY <1>8 DEF Refreshed
  <2>2. ~At(r, "idle") /\ "closing" \in Places
    BY <2>1 DEF At, Places
  <2>3. /\ job' \in [Slots -> [op : Operations, at : Places] \cup {NoJob}]
        /\ job'[r].at = "closing" /\ \A q \in Slots : q # r => job'[q] = job[q]
    BY <1>t, <2>1, <2>2, GoesTyped
  <2>4. ServingTypeOK'
    BY <1>t, <2>1, <2>3, PoolGrows, HoldersTyped DEF ServingTypeOK
  <2>5. PoolInv' /\ CallInv' /\ LockInv'
    BY <2>1, <2>2, <2>3, MovesKeep
  <2>6. QED
    BY <2>4, <2>5 DEF ServingInv
<1>9. ASSUME NEW r \in Slots, Raises(r) PROVE ServingInv'
  <2>1. /\ ~At(r, "idle") /\ Goes(r, "closing") /\ eventLoop' = Freed(r)
        /\ \/ UNCHANGED <<pool, rowLock>>
           \/ pool' = pool \ {r} /\ rowLock' = Unlocked(r)
    BY <1>9 DEF Raises, At
  <2>2. "closing" \in Places
    BY DEF Places
  <2>3. /\ job' \in [Slots -> [op : Operations, at : Places] \cup {NoJob}]
        /\ job'[r].at = "closing" /\ \A q \in Slots : q # r => job'[q] = job[q]
    BY <1>t, <2>1, <2>2, GoesTyped
  <2>4. ServingTypeOK'
    BY <1>t, <2>1, <2>3, PoolShrinks, HoldersTyped DEF ServingTypeOK
  <2>5. rowLock' \in {rowLock, Nobody} /\ pool' \subseteq pool /\ \A q \in pool : q # r => q \in pool'
    BY <1>t, <2>1, HoldersTyped
  <2>6. PoolInv' /\ CallInv' /\ LockInv'
    BY <2>2, <2>3, <2>5, MovesKeep
  <2>7. QED
    BY <2>4, <2>6 DEF ServingInv
<1>10. ASSUME NEW r \in Slots, TimesOut(r) PROVE ServingInv'
  <2>1. /\ ~At(r, "idle") /\ Goes(r, "closing") /\ eventLoop' = Freed(r)
        /\ UNCHANGED <<pool, rowLock>>
    BY <1>10 DEF TimesOut, At
  <2>2. "closing" \in Places
    BY DEF Places
  <2>3. /\ job' \in [Slots -> [op : Operations, at : Places] \cup {NoJob}]
        /\ job'[r].at = "closing" /\ \A q \in Slots : q # r => job'[q] = job[q]
    BY <1>t, <2>1, <2>2, GoesTyped
  <2>4. ServingTypeOK'
    BY <1>t, <2>1, <2>3, HoldersTyped DEF ServingTypeOK
  <2>5. PoolInv' /\ CallInv' /\ LockInv'
    BY <2>1, <2>2, <2>3, MovesKeep
  <2>6. QED
    BY <2>4, <2>5 DEF ServingInv
<1>11. ASSUME NEW r \in Slots, Closed(r) PROVE ServingInv'
  <2>1. /\ job' = [job EXCEPT ![r] = NoJob] /\ pool' = pool \ {r} /\ rowLock' = Unlocked(r)
        /\ UNCHANGED eventLoop
    BY <1>11 DEF Closed
  <2>2. /\ job' \in [Slots -> [op : Operations, at : Places] \cup {NoJob}]
        /\ job'[r] = NoJob /\ \A q \in Slots : q # r => job'[q] = job[q]
    BY <1>t, <2>1, JobTyped
  <2>3. ServingTypeOK'
    BY <1>t, <2>1, <2>2, PoolShrinks, HoldersTyped DEF ServingTypeOK
  <2>4. pool \subseteq Slots /\ rowLock' # r /\ (rowLock' # Nobody => rowLock' = rowLock /\ rowLock \in Slots)
    BY <1>t, <2>1, HoldersTyped DEF ServingTypeOK
  <2>5. PoolInv'
    BY <1>t, <2>1, <2>2, <2>4 DEF PoolInv
  <2>6. CallInv'
    BY <1>t, <2>1, <2>2 DEF CallInv, At, NoJob
  <2>7. LockInv'
    BY <1>t, <2>2, <2>4 DEF LockInv
  <2>8. QED
    BY <2>3, <2>5, <2>6, <2>7 DEF ServingInv
<1>12. CASE UNCHANGED servingVars
  <2>1. job' = job /\ pool' = pool /\ rowLock' = rowLock /\ eventLoop' = eventLoop
    BY <1>12 DEF servingVars
  <2>2. QED
    BY <1>t, <2>1 DEF ServingInv, ServingTypeOK, PoolInv, CallInv, LockInv, At
<1>13. QED
  BY <1>1, <1>2, <1>3, <1>4, <1>5, <1>6, <1>7, <1>8, <1>9, <1>10, <1>11, <1>12
     DEF ServingNext, GoesOn

-----------------------------------------------------------------------------
\* While the event loop is free, a request that waits for the row lock waits for one that
\* can go on.
LEMMA HolderGoesOn ==
    ASSUME ServingInv, LoopIsFree, rowLock # Nobody
    PROVE  rowLock \in Slots /\ CanGoOn(rowLock) /\ job[rowLock].at \in {"locked", "closing"}
<1>1. rowLock \in Slots /\ job[rowLock].at \in {"locked", "closing"}
  BY DEF ServingInv, ServingTypeOK, LockInv
<1>2. CanGoOn(rowLock)
  BY <1>1 DEF CanGoOn, At
<1>3. QED
  BY <1>1, <1>2

\* Nobody waits in a circle while the event loop is free.
LEMMA InvStalls == ServingInv => OnlyLoopAndThreadsStall
<1> SUFFICES ASSUME ServingInv PROVE OnlyLoopAndThreadsStall
  OBVIOUS
<1> DEFINE calling == {r \in Slots : At(r, "calling")}
           waiting == {r \in Slots : job[r].at # "idle"} \ calling
<1> SUFFICES ASSUME LoopIsFree, waiting # {}, Cardinality(calling) < PoolSize,
                    Cardinality(calling) < Threads,
                    \A r \in pool : At(r, "ready") => ThreadLeft,
                    \A r \in waiting : ~CanGoOn(r)
             PROVE  FALSE
  BY DEF OnlyLoopAndThreadsStall
<1>1. rowLock = Nobody
  <2>1. SUFFICES ASSUME rowLock # Nobody PROVE FALSE
    OBVIOUS
  <2>2. rowLock \in Slots /\ CanGoOn(rowLock) /\ job[rowLock].at \in {"locked", "closing"}
    BY <2>1, HolderGoesOn
  <2>3. rowLock \in waiting
    BY <2>2 DEF At
  <2>4. QED
    BY <2>2, <2>3
<1>2. \A r \in pool : r \in calling
  <2>1. SUFFICES ASSUME NEW r \in pool, r \notin calling PROVE FALSE
    OBVIOUS
  <2>2. r \in Slots /\ job[r].at \in {"ready", "begun", "locked", "closing"}
    BY <2>1 DEF ServingInv, ServingTypeOK, PoolInv, At
  <2>3. r \in waiting
    BY <2>1, <2>2
  <2>4. CanGoOn(r)
    BY <1>1, <2>1, <2>2 DEF CanGoOn, At
  <2>5. QED
    BY <2>3, <2>4
<1>3. pool = calling
  BY <1>2 DEF ServingInv, CallInv
<1>4. \A r \in waiting : At(r, "ready") /\ r \notin pool
  <2> SUFFICES ASSUME NEW r \in waiting PROVE At(r, "ready") /\ r \notin pool
    OBVIOUS
  <2>1. job[r].at \in Places \ {"calling"} /\ r \in Slots
    BY DEF ServingInv, ServingTypeOK, NoJob, At
  <2>2. Connected(r) /\ r \notin pool
    BY <1>3 DEF Connected
  <2>3. QED
    BY <2>1, <2>2 DEF CanGoOn, At, Places
<1>5. PICK r \in waiting : ~ThreadLeft
  BY <1>4 DEF CanGoOn
<1>6. OnThread \subseteq calling
  <2> SUFFICES ASSUME NEW q \in OnThread, q \notin calling PROVE FALSE
    OBVIOUS
  <2>1. q \in waiting /\ ~At(q, "ready")
    BY DEF OnThread, At
  <2>2. QED
    BY <1>4, <2>1
<1>7. Cardinality(OnThread) <= Cardinality(calling)
      /\ Cardinality(OnThread) \in Nat /\ Cardinality(calling) \in Nat
  <2>1. IsFiniteSet(calling) /\ IsFiniteSet(OnThread)
    BY ServingAssumption, FS_Subset DEF OnThread
  <2>2. QED
    BY <1>6, <2>1, FS_Subset, FS_CardinalityType
<1>8. QED
  BY <1>5, <1>7, ServingAssumption DEF ThreadLeft

-----------------------------------------------------------------------------
\* The inductive invariant of the served requests: who has a connection or the row lock,
\* and how far it is (deps/admin.py:16-21, db/session.py:7).
THEOREM ServingInvHolds == ServingSpec => []ServingInv
BY InitInv, StepInv, PTL DEF ServingSpec

\* Connections and row locks alone never wait in a circle, for any number of requests,
\* connections and threads (deps/admin.py:16-21, db/session.py:7).
THEOREM OnlyLoopAndThreadsStallHolds == ServingSpec => []OnlyLoopAndThreadsStall
<1>1. ServingInv => OnlyLoopAndThreadsStall
  BY InvStalls
<1>2. QED
  BY <1>1, ServingInvHolds, PTL

-----------------------------------------------------------------------------
(* The options of a workbook.                                              *)

CatalogSpec == CatalogInit /\ [][CatalogNext]_catalogVars

\* The unique keys hold in the table, and in what it was before.
KeysUnique(rows) ==
    \A i, j \in DOMAIN rows :
        i # j => rows[i].code # rows[j].code /\ rows[i].order # rows[j].order

\* The inductive invariant.  Options are never deleted: a snapshot has no more of them than
\* the table.
CatalogInv ==
    /\ catalogue \in Seq(Rows) /\ KeysUnique(catalogue)
    /\ \A snapshot \in underWay :
          snapshot \in Seq(Rows) /\ KeysUnique(snapshot) /\ Len(snapshot) <= Len(catalogue)

-----------------------------------------------------------------------------
(* Induction over a sheet, without an operator as a parameter.             *)

\* What holds at 0 and goes from k to k + 1 holds of all numbers up to n.
LEMMA UpTo ==
    ASSUME NEW n \in Nat, NEW S, 0 \in S,
           \A k \in 0 .. n : k \in S /\ k < n => k + 1 \in S
    PROVE  \A k \in 0 .. n : k \in S
<1> DEFINE T == {k \in 0 .. n : k \notin S}
<1> SUFFICES ASSUME T # {} PROVE FALSE OBVIOUS
<1>1. PICK least \in T : \A k \in T : ~(<<k, least>> \in OpToRel(<, Nat))
    <2>1. T \subseteq Nat OBVIOUS
    <2> HIDE DEF T
    <2> QED BY <2>1, WFMin, NatLessThanWellFounded
<1>2. least \in 0 .. n /\ least \notin S /\ least # 0 OBVIOUS
<1>3. least - 1 \in 0 .. n /\ least - 1 \in Nat /\ least - 1 < least BY <1>2
<1>4. <<least - 1, least>> \in OpToRel(<, Nat) BY <1>2, <1>3 DEF OpToRel
<1>5. least - 1 \notin T BY <1>4, <1>1
<1> QED BY <1>2, <1>3, <1>5

\* The rounds of the loop are what their recursive definition says.
IsRounds(round, n, db, snapshot, sheet) ==
    round = [k \in 0 .. n |->
              IF k = 0 THEN OptionsLoaded(db, snapshot) ELSE Upserted(round[k - 1], sheet[k])]

LEMMA RoundsAre ==
    ASSUME NEW db, NEW snapshot, NEW sheet, Len(sheet) \in Nat
    PROVE  IsRounds(Rounds(db, snapshot, sheet), Len(sheet), db, snapshot, sheet)
<1> DEFINE Good(round, n) == IsRounds(round, n, db, snapshot, sheet)
           S == {n \in 0 .. Len(sheet) : \E round : Good(round, n)}
<1>1. 0 \in S
    <2> DEFINE round == [k \in 0 .. 0 |-> OptionsLoaded(db, snapshot)]
    <2>1. Good(round, 0) BY DEF IsRounds
    <2> HIDE DEF round, Good
    <2> QED BY <2>1
<1>2. ASSUME NEW n \in 0 .. Len(sheet), n \in S, n < Len(sheet)
      PROVE  n + 1 \in S
    <2>1. PICK round : Good(round, n) BY <1>2
    <2> DEFINE next == [k \in 0 .. n + 1 |->
                         IF k = n + 1 THEN Upserted(round[n], sheet[n + 1]) ELSE round[k]]
    <2>2. ASSUME NEW k \in 0 .. n + 1
          PROVE  next[k] = IF k = 0 THEN OptionsLoaded(db, snapshot)
                           ELSE Upserted(next[k - 1], sheet[k])
        <3>1. CASE k = 0 BY <3>1, <2>1 DEF IsRounds
        <3>2. CASE k = n + 1
            <4>1. next[k - 1] = round[n] BY <3>2
            <4> QED BY <3>2, <4>1
        <3>3. CASE k \in 1 .. n
            <4>1. next[k] = round[k] /\ next[k - 1] = round[k - 1] BY <3>3
            <4>2. round[k] = Upserted(round[k - 1], sheet[k]) BY <3>3, <2>1 DEF IsRounds
            <4> QED BY <3>3, <4>1, <4>2
        <3> QED BY <3>1, <3>2, <3>3
    <2>3. Good(next, n + 1) BY <2>2 DEF IsRounds
    <2>4. n + 1 \in 0 .. Len(sheet) BY <1>2
    <2> HIDE DEF next, Good
    <2> QED BY <2>3, <2>4
<1>3. Len(sheet) \in S
    <2> HIDE DEF S
    <2>1. \A k \in 0 .. Len(sheet) : k \in S BY <1>1, <1>2, UpTo
    <2> QED BY <2>1
<1>4. PICK round : Good(round, Len(sheet)) BY <1>3
<1>5. Rounds(db, snapshot, sheet) = CHOOSE r : Good(r, Len(sheet)) BY DEF Rounds, IsRounds
<1> QED BY <1>4, <1>5

-----------------------------------------------------------------------------
(* The rows and dictionaries of an import, and what each round keeps.      *)

Tables == UNION {[D -> Rows] : D \in SUBSET Nat}
Work == [db : Seq(Rows), loaded : Tables, held : Tables, fails : BOOLEAN,
         byCode : [OptCodes -> Nat], byOrder : [Orders -> Nat]]

\* What the import holds are rows of the table, and it has last seen all of them.
RowsOK(work) ==
    /\ work \in Work
    /\ DOMAIN work.held \subseteq DOMAIN work.db
    /\ DOMAIN work.loaded = DOMAIN work.held
    /\ ~work.fails => KeysUnique(work.db)

\* The dictionary of codes has every option held under its code, and no other; that of
\* places has what it has under its place.
CodesOK(work) ==
    /\ \A c \in OptCodes : work.byCode[c] # NoOption =>
          work.byCode[c] \in DOMAIN work.held /\ work.held[work.byCode[c]].code = c
    /\ \A i \in DOMAIN work.held : work.byCode[work.held[i].code] = i
PlacesOK(work) ==
    \A o \in Orders : work.byOrder[o] # NoOption =>
        work.byOrder[o] \in DOMAIN work.held /\ work.held[work.byOrder[o]].order = o

WorkOK(work) == RowsOK(work) /\ CodesOK(work) /\ PlacesOK(work)

\* Flushing writes rows, and only rows that fit are written without an error.
LEMMA FlushedOK ==
    ASSUME NEW work, RowsOK(work)
    PROVE  LET end == Flushed(work) IN
           /\ RowsOK(end)
           /\ end.held = work.held /\ end.loaded = work.held
           /\ end.byCode = work.byCode /\ end.byOrder = work.byOrder
           /\ Len(end.db) = Len(work.db) /\ DOMAIN end.db = DOMAIN work.db
           /\ work.fails => end.fails
<1> DEFINE Column(id, c) == IF work.held[id][c] = work.loaded[id][c]
                            THEN work.db[id][c] ELSE work.held[id][c]
           Row(id) == [code |-> Column(id, "code"), order |-> Column(id, "order")]
           Below(n) == [i \in DOMAIN work.db |->
                          IF i \in DOMAIN work.held /\ i < n THEN Row(i) ELSE work.db[i]]
           bad == \E id \in DOMAIN work.held : ~Fits(Below(id), id, Row(id))
           end == Flushed(work)
<1>1. end = [work EXCEPT !.db = Below(Len(work.db) + 1), !.loaded = work.held,
                         !.fails = @ \/ bad]
    BY DEF Flushed
<1>2. /\ work \in Work /\ work.db \in Seq(Rows) /\ work.held \in [DOMAIN work.held -> Rows]
      /\ work.loaded \in [DOMAIN work.held -> Rows]
      /\ DOMAIN work.held \subseteq DOMAIN work.db
      /\ work.held \in Tables /\ DOMAIN work.db = 1 .. Len(work.db)
    BY DEF RowsOK, Work, Tables
<1>3. ASSUME NEW id \in DOMAIN work.held PROVE Row(id) \in Rows
    <2>1. work.db[id] \in Rows /\ work.held[id] \in Rows
        <3>1. id \in 1 .. Len(work.db) BY <1>2
        <3> QED BY <3>1, <1>2
    <2>2. Column(id, "code") \in OptCodes /\ Column(id, "order") \in Orders BY <2>1 DEF Rows
    <2> QED BY <2>2 DEF Rows
<1>4. \A n \in Nat : Below(n) \in [1 .. Len(work.db) -> Rows]
    <2> HIDE DEF Row
    <2> QED BY <1>2, <1>3
<1>5. Below(Len(work.db) + 1) \in Seq(Rows) /\ Len(Below(Len(work.db) + 1)) = Len(work.db)
    <2> HIDE DEF Below
    <2>1. Len(work.db) \in Nat /\ Len(work.db) + 1 \in Nat BY <1>2
    <2>2. Below(Len(work.db) + 1) \in [1 .. Len(work.db) -> Rows] BY <1>4, <2>1
    <2> QED BY <2>1, <2>2
<1> HIDE DEF bad, end
<1>6. /\ end.db = Below(Len(work.db) + 1) /\ end.loaded = work.held /\ end.held = work.held
      /\ end.fails = (work.fails \/ bad)
      /\ end.byCode = work.byCode /\ end.byOrder = work.byOrder
    BY <1>1, <1>2 DEF Work
<1>7. end \in Work
    <2> HIDE DEF Below
    <2> QED BY <1>1, <1>2, <1>5 DEF Work
<1>8. ASSUME ~end.fails PROVE KeysUnique(end.db)
    <2>1. ~bad /\ KeysUnique(work.db) BY <1>8, <1>6, <1>2 DEF RowsOK, Work
    <2>2. ASSUME NEW i \in DOMAIN work.db, NEW j \in DOMAIN work.db, i < j
          PROVE  end.db[i].code # end.db[j].code /\ end.db[i].order # end.db[j].order
        <3>1. i \in Nat /\ j \in Nat /\ i <= Len(work.db) /\ j <= Len(work.db) BY <1>2
        <3>2. CASE j \in DOMAIN work.held
            <4>1. Fits(Below(j), j, Row(j)) BY <2>1, <3>2 DEF bad
            <4>2. end.db[j] = Row(j) BY <3>1, <3>2, <1>6
            <4>3. Below(j)[i] = end.db[i] BY <2>2, <3>1, <1>6
            <4>4. i \in DOMAIN Below(j) \ {j} BY <2>2, <3>1
            <4> HIDE DEF Below, Row
            <4> QED BY <4>1, <4>2, <4>3, <4>4 DEF Fits
        <3>3. CASE j \notin DOMAIN work.held /\ i \in DOMAIN work.held
            <4>1. Fits(Below(i), i, Row(i)) BY <2>1, <3>3 DEF bad
            <4>2. end.db[i] = Row(i) BY <3>1, <3>3, <1>6
            <4>3. Below(i)[j] = end.db[j] BY <3>3, <3>1, <1>6
            <4>4. j \in DOMAIN Below(i) \ {i} BY <2>2, <3>1
            <4> HIDE DEF Below, Row
            <4> QED BY <4>1, <4>2, <4>3, <4>4 DEF Fits
        <3>4. CASE j \notin DOMAIN work.held /\ i \notin DOMAIN work.held
            <4>1. end.db[i] = work.db[i] /\ end.db[j] = work.db[j] BY <3>4, <1>6
            <4>2. i # j BY <2>2, <3>1
            <4> QED BY <4>1, <4>2, <2>1 DEF KeysUnique
        <3> QED BY <3>2, <3>3, <3>4
    <2>3. DOMAIN end.db = DOMAIN work.db BY <1>6
    <2> HIDE DEF Below
    <2> QED BY <2>2, <2>3, <1>2 DEF KeysUnique
<1>9. DOMAIN end.db = DOMAIN work.db BY <1>6
<1> HIDE DEF Below
<1> QED BY <1>2, <1>5, <1>6, <1>7, <1>8, <1>9 DEF RowsOK, Work, end

\* The rows as read, with the dictionaries made of them.
LEMMA LoadedOK ==
    ASSUME NEW db \in Seq(Rows), NEW snapshot \in Seq(Rows), Len(snapshot) <= Len(db),
           KeysUnique(db), KeysUnique(snapshot)
    PROVE  WorkOK(OptionsLoaded(db, snapshot))
<1> DEFINE With(column, value) ==
             LET ids == {i \in DOMAIN snapshot : snapshot[i][column] = value}
             IN IF ids = {} THEN NoOption ELSE CHOOSE i \in ids : TRUE
           work == OptionsLoaded(db, snapshot)
<1>1. work = [db |-> db, loaded |-> snapshot, held |-> snapshot, fails |-> FALSE,
              byCode |-> [c \in OptCodes |-> With("code", c)],
              byOrder |-> [o \in Orders |-> With("order", o)]]
    BY DEF OptionsLoaded
<1>2. ASSUME NEW column, NEW value
      PROVE  /\ With(column, value) \in Nat
             /\ With(column, value) # NoOption =>
                  With(column, value) \in DOMAIN snapshot
                  /\ snapshot[With(column, value)][column] = value
             /\ With(column, value) = NoOption =>
                  \A i \in DOMAIN snapshot : snapshot[i][column] # value
    <2> DEFINE ids == {i \in DOMAIN snapshot : snapshot[i][column] = value}
    <2>1. CASE ids = {} BY <2>1 DEF NoOption
    <2>2. CASE ids # {}
        <3>1. With(column, value) \in ids BY <2>2
        <3>2. \A i \in ids : i \in Nat /\ i # 0 OBVIOUS
        <3> QED BY <3>1, <3>2 DEF NoOption
    <2> QED BY <2>1, <2>2
<1> HIDE DEF With, work
<1>3. work \in Work
    <2>1. DOMAIN snapshot \in SUBSET Nat /\ snapshot \in [DOMAIN snapshot -> Rows] OBVIOUS
    <2>2. snapshot \in Tables BY <2>1 DEF Tables
    <2> QED BY <1>1, <1>2, <2>2 DEF Work
<1>4. RowsOK(work)
    <2>1. DOMAIN snapshot \subseteq DOMAIN db OBVIOUS
    <2> QED BY <1>1, <1>3, <2>1 DEF RowsOK
<1>5. CodesOK(work)
    <2>1. \A c \in OptCodes : work.byCode[c] # NoOption =>
             work.byCode[c] \in DOMAIN work.held /\ work.held[work.byCode[c]].code = c
        BY <1>1, <1>2
    <2>2. ASSUME NEW i \in DOMAIN work.held PROVE work.byCode[work.held[i].code] = i
        <3>1. i \in DOMAIN snapshot /\ work.held[i] = snapshot[i] BY <1>1
        <3>2. snapshot[i] \in Rows BY <3>1
        <3>3. snapshot[i].code \in OptCodes BY <3>2 DEF Rows
        <3>4. With("code", snapshot[i].code) # NoOption BY <3>1, <1>2
        <3>5. With("code", snapshot[i].code) = i BY <3>1, <3>4, <1>2 DEF KeysUnique
        <3> QED BY <3>1, <3>3, <3>5, <1>1
    <2> QED BY <2>1, <2>2 DEF CodesOK
<1>6. PlacesOK(work) BY <1>1, <1>2 DEF PlacesOK
<1> QED BY <1>4, <1>5, <1>6 DEF WorkOK, work

\* Which of its three cases a round is, and the option it is about.
ById(work, row) ==
    IF work.byCode[row.code] # NoOption THEN work.byCode[row.code]
    ELSE IF work.byOrder[row.order] # NoOption THEN work.byOrder[row.order]
    ELSE Len(work.db) + 1

\* A round leaves every other row held as it is, gives its option the row, and once it fails
\* the import fails.
LEMMA UpsertedOK ==
    ASSUME NEW work, WorkOK(work), NEW row \in Rows
    PROVE  LET end == Upserted(work, row)
               id == ById(work, row)
           IN /\ WorkOK(end)
              /\ DOMAIN end.held = DOMAIN work.held \cup {id}
              /\ end.held[id] = row
              /\ \A i \in DOMAIN work.held : i # id => end.held[i] = work.held[i]
              /\ DOMAIN work.db \subseteq DOMAIN end.db
              /\ work.fails => end.fails
<1> DEFINE end == Upserted(work, row)
           id == ById(work, row)
<1>1. /\ work \in Work /\ row.code \in OptCodes /\ row.order \in Orders
      /\ work.held \in [DOMAIN work.held -> Rows] /\ DOMAIN work.held \subseteq Nat
      /\ work.byCode \in [OptCodes -> Nat] /\ work.byOrder \in [Orders -> Nat]
      /\ work.db \in Seq(Rows) /\ DOMAIN work.held \subseteq DOMAIN work.db
    BY DEF WorkOK, RowsOK, Work, Tables, Rows
<1>2. CASE work.byCode[row.code] # NoOption
    <2>1. /\ end = MovedTo(work, id, row) /\ id = work.byCode[row.code]
          /\ id \in DOMAIN work.held /\ work.held[id].code = row.code
        BY <1>1, <1>2 DEF Upserted, ById, WorkOK, CodesOK
    <2> HIDE DEF id
    <2> DEFINE held == [work.held EXCEPT ![id] = row]
               places == [work.byOrder EXCEPT ![work.held[id].order] = NoOption,
                                              ![row.order] = id]
    <2>2. held \in [DOMAIN work.held -> Rows] /\ held \in Tables
        <3>1. held \in [DOMAIN work.held -> Rows] BY <1>1
        <3> HIDE DEF held
        <3> QED BY <3>1, <1>1 DEF Tables
    <2>3. places \in [Orders -> Nat] BY <1>1, <2>1 DEF NoOption
    <2>4. end = [work EXCEPT !.held = held, !.byOrder = places]
        <3>1. [work.held[id] EXCEPT !.order = row.order] = row BY <1>1, <2>1 DEF Rows
        <3> QED BY <2>1, <3>1 DEF MovedTo
    <2>5. /\ end.held = held /\ end.byCode = work.byCode /\ end.byOrder = places
          /\ end.db = work.db /\ end.loaded = work.loaded /\ end.fails = work.fails
          /\ end \in Work
        <3> HIDE DEF held, places
        <3> QED BY <1>1, <2>2, <2>3, <2>4 DEF Work
    <2> HIDE DEF end
    <2>6. /\ DOMAIN end.held = DOMAIN work.held
          /\ \A i \in DOMAIN work.held :
                /\ end.held[i] = IF i = id THEN row ELSE work.held[i]
                /\ work.held[i].code \in OptCodes /\ work.held[i].order \in Orders
        BY <1>1, <2>5 DEF Rows
    <2>7. RowsOK(end) BY <2>5, <2>6 DEF WorkOK, RowsOK
    <2>8. \A o \in Orders : end.byOrder[o] = IF o = row.order THEN id
                 ELSE IF o = work.held[id].order THEN NoOption ELSE work.byOrder[o]
        BY <1>1, <2>1, <2>5
    <2> HIDE DEF held, places
    <2>9. CodesOK(end)
        <3>1. ASSUME NEW c \in OptCodes, end.byCode[c] # NoOption
              PROVE  end.byCode[c] \in DOMAIN end.held /\ end.held[end.byCode[c]].code = c
            <4>1. /\ work.byCode[c] \in DOMAIN work.held
                  /\ work.held[work.byCode[c]].code = c
                BY <3>1, <2>5 DEF WorkOK, CodesOK
            <4> QED BY <4>1, <2>1, <2>5, <2>6
        <3>2. ASSUME NEW i \in DOMAIN end.held PROVE end.byCode[end.held[i].code] = i
            <4>1. end.held[i].code = work.held[i].code BY <2>1, <2>6
            <4>2. work.byCode[work.held[i].code] = i BY <2>6 DEF WorkOK, CodesOK
            <4> QED BY <4>1, <4>2, <2>5
        <3> QED BY <3>1, <3>2 DEF CodesOK
    <2>10. PlacesOK(end)
        <3> SUFFICES ASSUME NEW o \in Orders, end.byOrder[o] # NoOption
                     PROVE  /\ end.byOrder[o] \in DOMAIN end.held
                            /\ end.held[end.byOrder[o]].order = o
            BY DEF PlacesOK
        <3>1. CASE o = row.order BY <3>1, <2>1, <2>6, <2>8
        <3>2. CASE o # row.order
            <4>1. end.byOrder[o] = work.byOrder[o] /\ o # work.held[id].order BY <3>2, <2>8
            <4>2. /\ work.byOrder[o] \in DOMAIN work.held
                  /\ work.held[work.byOrder[o]].order = o
                BY <4>1 DEF WorkOK, PlacesOK
            <4> QED BY <4>1, <4>2, <2>6
        <3> QED BY <3>1, <3>2
    <2> QED BY <2>1, <2>5, <2>6, <2>7, <2>9, <2>10 DEF WorkOK, end, id
<1>3. CASE work.byCode[row.code] = NoOption /\ work.byOrder[row.order] # NoOption
    <2>1. /\ end = Renamed(work, id, row) /\ id = work.byOrder[row.order]
          /\ id \in DOMAIN work.held /\ work.held[id].order = row.order
        BY <1>1, <1>3 DEF Upserted, ById, WorkOK, PlacesOK
    <2> HIDE DEF id
    <2> DEFINE held == [work.held EXCEPT ![id] = row]
               codes == [work.byCode EXCEPT ![work.held[id].code] = NoOption,
                                            ![row.code] = id]
    <2>2. held \in [DOMAIN work.held -> Rows] /\ held \in Tables
        <3>1. held \in [DOMAIN work.held -> Rows] BY <1>1
        <3> HIDE DEF held
        <3> QED BY <3>1, <1>1 DEF Tables
    <2>3. codes \in [OptCodes -> Nat] BY <1>1, <2>1 DEF NoOption
    <2>4. end = [work EXCEPT !.held = held, !.byCode = codes] BY <2>1 DEF Renamed
    <2>5. /\ end.held = held /\ end.byCode = codes /\ end.byOrder = work.byOrder
          /\ end.db = work.db /\ end.loaded = work.loaded /\ end.fails = work.fails
          /\ end \in Work
        <3> HIDE DEF held, codes
        <3> QED BY <1>1, <2>2, <2>3, <2>4 DEF Work
    <2> HIDE DEF end
    <2>6. /\ DOMAIN end.held = DOMAIN work.held
          /\ \A i \in DOMAIN work.held :
                /\ end.held[i] = IF i = id THEN row ELSE work.held[i]
                /\ work.held[i].code \in OptCodes /\ work.held[i].order \in Orders
        BY <1>1, <2>5 DEF Rows
    <2>7. RowsOK(end) BY <2>5, <2>6 DEF WorkOK, RowsOK
    <2>8. CodesOK(end)
        <3>1. \A c \in OptCodes : end.byCode[c] = IF c = row.code THEN id
                 ELSE IF c = work.held[id].code THEN NoOption ELSE work.byCode[c]
            BY <1>1, <2>1, <2>5
        <3> HIDE DEF held, codes
        <3>2. ASSUME NEW c \in OptCodes, end.byCode[c] # NoOption
              PROVE  end.byCode[c] \in DOMAIN end.held /\ end.held[end.byCode[c]].code = c
            <4>1. CASE c = row.code BY <4>1, <2>1, <2>6, <3>1
            <4>2. CASE c # row.code
                <5>1. end.byCode[c] = work.byCode[c] /\ c # work.held[id].code
                    BY <4>2, <3>1, <3>2
                <5>2. /\ work.byCode[c] \in DOMAIN work.held
                      /\ work.held[work.byCode[c]].code = c
                    BY <5>1, <3>2 DEF WorkOK, CodesOK
                <5> QED BY <5>1, <5>2, <2>6
            <4> QED BY <4>1, <4>2
        <3>3. ASSUME NEW i \in DOMAIN end.held PROVE end.byCode[end.held[i].code] = i
            <4>1. CASE i = id BY <4>1, <1>1, <2>1, <2>6, <3>1
            <4>2. CASE i # id
                <5>1. end.held[i] = work.held[i] /\ work.held[i].code \in OptCodes
                    BY <4>2, <2>6
                <5>2. work.byCode[work.held[i].code] = i /\ work.byCode[work.held[id].code] = id
                    BY <2>1, <2>6 DEF WorkOK, CodesOK
                <5>3. i # NoOption
                    <6>1. i \in DOMAIN work.db BY <1>1, <2>6
                    <6> QED BY <6>1, <1>1 DEF NoOption
                <5>4. work.held[i].code # row.code /\ work.held[i].code # work.held[id].code
                    BY <1>3, <4>2, <5>2, <5>3
                <5> QED BY <5>1, <5>2, <5>4, <3>1
            <4> QED BY <4>1, <4>2
        <3> QED BY <3>2, <3>3 DEF CodesOK
    <2>9. PlacesOK(end)
        <3> SUFFICES ASSUME NEW o \in Orders, work.byOrder[o] # NoOption
                     PROVE  /\ work.byOrder[o] \in DOMAIN end.held
                            /\ end.held[work.byOrder[o]].order = o
            BY <2>5 DEF PlacesOK
        <3>1. work.byOrder[o] \in DOMAIN work.held /\ work.held[work.byOrder[o]].order = o
            BY <1>1 DEF WorkOK, PlacesOK
        <3>2. CASE work.byOrder[o] = id BY <2>1, <2>6, <3>1, <3>2
        <3>3. CASE work.byOrder[o] # id BY <2>6, <3>1, <3>3
        <3> QED BY <3>2, <3>3
    <2> QED BY <2>1, <2>5, <2>6, <2>7, <2>8, <2>9 DEF WorkOK, end, id
<1>4. CASE work.byCode[row.code] = NoOption /\ work.byOrder[row.order] = NoOption
    <2> DEFINE flushed == Flushed(work)
               Known(rows) == [i \in DOMAIN rows \cup {id} |-> IF i = id THEN row ELSE rows[i]]
    <2>1. end = Inserted(work, row) /\ id = Len(work.db) + 1
        BY <1>1, <1>4 DEF Upserted, ById
    <2> HIDE DEF id
    <2>2. /\ RowsOK(flushed)
          /\ flushed.held = work.held /\ flushed.loaded = work.held
          /\ flushed.byCode = work.byCode /\ flushed.byOrder = work.byOrder
          /\ Len(flushed.db) = Len(work.db) /\ DOMAIN flushed.db = DOMAIN work.db
          /\ work.fails => flushed.fails
        BY FlushedOK DEF WorkOK
    <2>3. end = [flushed EXCEPT !.db = Append(@, row), !.held = Known(@), !.loaded = Known(@),
                                !.fails = @ \/ ~Fits(flushed.db, id, row),
                                !.byCode[row.code] = id, !.byOrder[row.order] = id]
        BY <2>1 DEF Inserted
    <2> HIDE DEF flushed
    <2>4. /\ id \in Nat /\ id # NoOption /\ id \notin DOMAIN work.held
          /\ id \notin DOMAIN work.db /\ DOMAIN work.db = 1 .. Len(work.db)
        BY <1>1, <2>1 DEF NoOption
    <2>5. flushed \in Work /\ flushed.db \in Seq(Rows) BY <2>2 DEF RowsOK, Work
    <2>6. Known(work.held) \in [DOMAIN work.held \cup {id} -> Rows] /\ Known(work.held) \in Tables
        <3>1. Known(work.held) \in [DOMAIN work.held \cup {id} -> Rows] BY <1>1
        <3>2. DOMAIN work.held \cup {id} \in SUBSET Nat BY <1>1, <2>4
        <3> HIDE DEF Known
        <3> QED BY <3>1, <3>2 DEF Tables
    <2> DEFINE codes == [work.byCode EXCEPT ![row.code] = id]
               places == [work.byOrder EXCEPT ![row.order] = id]
    <2>7. codes \in [OptCodes -> Nat] /\ places \in [Orders -> Nat] BY <1>1, <2>4
    <2>8. /\ end.held = Known(work.held) /\ end.loaded = Known(work.held)
          /\ end.byCode = codes /\ end.byOrder = places
          /\ end.db = Append(flushed.db, row)
          /\ end.fails = (flushed.fails \/ ~Fits(flushed.db, id, row))
          /\ end \in Work
        <3> DEFINE known == Known(work.held)
        <3>1. end = [flushed EXCEPT !.db = Append(flushed.db, row), !.held = known,
                                    !.loaded = known,
                                    !.fails = flushed.fails \/ ~Fits(flushed.db, id, row),
                                    !.byCode = codes, !.byOrder = places]
            <4>1. known = Known(flushed.held) /\ known = Known(flushed.loaded) BY <2>2
            <4>2. codes = [flushed.byCode EXCEPT ![row.code] = id] BY <2>2
            <4>3. places = [flushed.byOrder EXCEPT ![row.order] = id] BY <2>2
            <4> HIDE DEF Known, known, codes, places
            <4> QED BY <2>3, <4>1, <4>2, <4>3
        <3>2. Append(flushed.db, row) \in Seq(Rows) BY <2>5
        <3>3. known \in Tables BY <2>6
        <3> HIDE DEF known, codes, places
        <3>4. (flushed.fails \/ ~Fits(flushed.db, id, row)) \in BOOLEAN OBVIOUS
        <3>5. /\ end.held = known /\ end.loaded = known /\ end.byCode = codes
              /\ end.byOrder = places /\ end.db = Append(flushed.db, row)
              /\ end.fails = (flushed.fails \/ ~Fits(flushed.db, id, row)) /\ end \in Work
            BY <2>5, <2>7, <3>1, <3>2, <3>3, <3>4 DEF Work
        <3> QED BY <3>5 DEF known
    <2> HIDE DEF end
    <2>9. DOMAIN end.held = DOMAIN work.held \cup {id} /\ DOMAIN end.db = DOMAIN work.db \cup {id}
        BY <2>1, <2>2, <2>4, <2>5, <2>8
    <2>10. ASSUME ~end.fails PROVE KeysUnique(end.db)
        <3>1. KeysUnique(flushed.db) /\ Fits(flushed.db, id, row)
            BY <2>10, <2>8, <2>5, <2>2 DEF RowsOK, Work
        <3>2. end.db[id] = row /\ \A i \in DOMAIN work.db : end.db[i] = flushed.db[i]
            BY <2>1, <2>2, <2>4, <2>5, <2>8
        <3> QED BY <3>1, <3>2, <2>2, <2>4, <2>9 DEF KeysUnique, Fits
    <2>11. RowsOK(end) BY <2>8, <2>9, <2>10, <1>1 DEF RowsOK
    <2>12. \A i \in DOMAIN end.held :
              /\ end.held[i] = IF i = id THEN row ELSE work.held[i]
              /\ i # id => work.held[i].code \in OptCodes /\ work.held[i].order \in Orders
        BY <1>1, <2>4, <2>8, <2>9 DEF Rows
    <2>13. CodesOK(end)
        <3>1. \A c \in OptCodes : end.byCode[c] = IF c = row.code THEN id ELSE work.byCode[c]
            BY <1>1, <2>8
        <3> HIDE DEF codes, places, Known
        <3>2. ASSUME NEW c \in OptCodes, end.byCode[c] # NoOption
              PROVE  end.byCode[c] \in DOMAIN end.held /\ end.held[end.byCode[c]].code = c
            <4>1. CASE c = row.code BY <4>1, <2>9, <2>12, <3>1
            <4>2. CASE c # row.code
                <5>1. /\ work.byCode[c] \in DOMAIN work.held
                      /\ work.held[work.byCode[c]].code = c
                    BY <4>2, <3>1, <3>2 DEF WorkOK, CodesOK
                <5> QED BY <4>2, <5>1, <2>4, <2>9, <2>12, <3>1
            <4> QED BY <4>1, <4>2
        <3>3. ASSUME NEW i \in DOMAIN end.held PROVE end.byCode[end.held[i].code] = i
            <4>1. CASE i = id BY <4>1, <1>1, <2>12, <3>1
            <4>2. CASE i # id
                <5>1. /\ i \in DOMAIN work.held /\ end.held[i] = work.held[i]
                      /\ work.held[i].code \in OptCodes
                    BY <4>2, <2>9, <2>12
                <5>2. work.byCode[work.held[i].code] = i BY <5>1 DEF WorkOK, CodesOK
                <5>3. i # NoOption
                    <6>1. i \in DOMAIN work.db BY <1>1, <5>1
                    <6> QED BY <6>1, <1>1 DEF NoOption
                <5> QED BY <1>4, <5>1, <5>2, <5>3, <3>1
            <4> QED BY <4>1, <4>2
        <3> QED BY <3>2, <3>3 DEF CodesOK
    <2>14. PlacesOK(end) BY <1>1, <2>4, <2>8, <2>9, <2>12 DEF WorkOK, PlacesOK
    <2> QED BY <2>2, <2>4, <2>8, <2>9, <2>11, <2>12, <2>13, <2>14 DEF WorkOK, end, id
<1> QED BY <1>2, <1>3, <1>4

\* A round gives the row to the option of its code, else to the one at its place, else to none
\* that is held.
LEMMA ByIdIs ==
    ASSUME NEW work, WorkOK(work), NEW row \in Rows, NEW i \in DOMAIN work.held,
           work.held[i].code # row.code, work.held[i].order # row.order
    PROVE  i # ById(work, row)
<1>1. /\ row.code \in OptCodes /\ row.order \in Orders /\ i \in 1 .. Len(work.db)
      /\ Len(work.db) \in Nat
    BY DEF WorkOK, RowsOK, Work, Rows
<1>2. CASE work.byCode[row.code] # NoOption BY <1>1, <1>2 DEF ById, WorkOK, CodesOK
<1>3. CASE work.byCode[row.code] = NoOption /\ work.byOrder[row.order] # NoOption
    BY <1>1, <1>3 DEF ById, WorkOK, PlacesOK
<1>4. CASE work.byCode[row.code] = NoOption /\ work.byOrder[row.order] = NoOption
    BY <1>1, <1>4 DEF ById
<1> QED BY <1>2, <1>3, <1>4

\* The import has seen the table as it is, and what it has written of it.
Same(work) ==
    /\ DOMAIN work.held = DOMAIN work.db
    /\ \A i \in DOMAIN work.db : work.loaded[i] = work.db[i]

\* Then flushing brings the table in line with what the import holds.
LEMMA FlushedSame ==
    ASSUME NEW work, RowsOK(work), Same(work)
    PROVE  \A i \in DOMAIN work.db : Flushed(work).db[i] = work.held[i]
<1> SUFFICES ASSUME NEW i \in DOMAIN work.db PROVE Flushed(work).db[i] = work.held[i]
    OBVIOUS
<1> DEFINE Column(id, c) == IF work.held[id][c] = work.loaded[id][c]
                            THEN work.db[id][c] ELSE work.held[id][c]
           Row(id) == [code |-> Column(id, "code"), order |-> Column(id, "order")]
<1>1. /\ work \in Work /\ i \in DOMAIN work.held /\ work.held[i] \in Rows
      /\ work.loaded[i] = work.db[i] /\ i \in Nat /\ i < Len(work.db) + 1
    BY DEF RowsOK, Same, Work, Tables
<1>2. Row(i) = work.held[i]
    <2>1. Column(i, "code") = work.held[i].code /\ Column(i, "order") = work.held[i].order
        BY <1>1
    <2> QED BY <1>1, <2>1 DEF Rows
<1>3. Flushed(work).db[i] = Row(i)
    <2> DEFINE table == [k \in DOMAIN work.db |->
                           IF k \in DOMAIN work.held /\ k < Len(work.db) + 1 THEN Row(k)
                           ELSE work.db[k]]
    <2>1. Flushed(work).db = table BY <1>1 DEF Flushed, Work
    <2> HIDE DEF Row
    <2>2. table[i] = Row(i) BY <1>1
    <2> HIDE DEF table
    <2> QED BY <2>1, <2>2
<1> QED BY <1>2, <1>3

LEMMA UpsertedSame ==
    ASSUME NEW work, WorkOK(work), Same(work), NEW row \in Rows
    PROVE  Same(Upserted(work, row))
<1> DEFINE end == Upserted(work, row)
<1>1. /\ work \in Work /\ row.code \in OptCodes /\ row.order \in Orders
      /\ work.db \in Seq(Rows)
    BY DEF WorkOK, RowsOK, Work, Rows
<1>2. CASE work.byCode[row.code] # NoOption
    <2> DEFINE id == work.byCode[row.code]
    <2>1. end = MovedTo(work, id, row) BY <1>2 DEF Upserted
    <2>2. end.db = work.db /\ end.loaded = work.loaded /\ DOMAIN end.held = DOMAIN work.held
        BY <1>1, <2>1 DEF MovedTo, Work
    <2> QED BY <2>2 DEF Same
<1>3. CASE work.byCode[row.code] = NoOption /\ work.byOrder[row.order] # NoOption
    <2> DEFINE id == work.byOrder[row.order]
    <2>1. end = Renamed(work, id, row) BY <1>3 DEF Upserted
    <2>2. end.db = work.db /\ end.loaded = work.loaded /\ DOMAIN end.held = DOMAIN work.held
        BY <1>1, <2>1 DEF Renamed, Work
    <2> QED BY <2>2 DEF Same
<1>4. CASE work.byCode[row.code] = NoOption /\ work.byOrder[row.order] = NoOption
    <2> DEFINE flushed == Flushed(work)
               id == Len(work.db) + 1
               Known(rows) == [i \in DOMAIN rows \cup {id} |-> IF i = id THEN row ELSE rows[i]]
    <2>1. end = Inserted(work, row) BY <1>4 DEF Upserted
    <2>2. /\ RowsOK(flushed) /\ flushed.held = work.held /\ flushed.loaded = work.held
          /\ Len(flushed.db) = Len(work.db)
        BY FlushedOK DEF WorkOK
    <2>3. \A i \in DOMAIN work.db : flushed.db[i] = work.held[i] BY FlushedSame DEF WorkOK
    <2> HIDE DEF flushed
    <2>4. flushed \in Work /\ flushed.db \in Seq(Rows) BY <2>2 DEF RowsOK, Work
    <2>5. /\ end.db = Append(flushed.db, row) /\ end.held = Known(work.held)
          /\ end.loaded = Known(work.held)
        BY <2>1, <2>2, <2>4 DEF Inserted, Work, flushed
    <2> HIDE DEF end
    <2>6. DOMAIN work.held = 1 .. Len(work.db) /\ Len(work.db) \in Nat
          /\ DOMAIN work.db = 1 .. Len(work.db)
        BY <1>1 DEF Same
    <2>7. DOMAIN end.held = 1 .. id /\ DOMAIN end.db = 1 .. id BY <2>2, <2>4, <2>5, <2>6
    <2>8. ASSUME NEW i \in 1 .. id PROVE end.loaded[i] = end.db[i]
        BY <2>2, <2>3, <2>4, <2>5, <2>6
    <2> QED BY <2>7, <2>8 DEF Same, end
<1> QED BY <1>2, <1>3, <1>4

-----------------------------------------------------------------------------
(* All rounds of an import.                                                *)

LEMMA RoundIs ==
    ASSUME NEW db, NEW snapshot, NEW sheet \in Seq(Rows)
    PROVE  LET round == Rounds(db, snapshot, sheet) IN
           /\ round[0] = OptionsLoaded(db, snapshot)
           /\ \A k \in 0 .. Len(sheet) : k < Len(sheet) =>
                 round[k + 1] = Upserted(round[k], sheet[k + 1]) /\ sheet[k + 1] \in Rows
<1>1. Len(sheet) \in Nat OBVIOUS
<1>2. IsRounds(Rounds(db, snapshot, sheet), Len(sheet), db, snapshot, sheet) BY <1>1, RoundsAre
<1> DEFINE round == Rounds(db, snapshot, sheet)
<1> HIDE DEF round
<1>3. round = [k \in 0 .. Len(sheet) |->
                IF k = 0 THEN OptionsLoaded(db, snapshot) ELSE Upserted(round[k - 1], sheet[k])]
    BY <1>2 DEF IsRounds, round
<1>4. round[0] = OptionsLoaded(db, snapshot) BY <1>1, <1>3
<1>5. ASSUME NEW k \in 0 .. Len(sheet), k < Len(sheet)
      PROVE  round[k + 1] = Upserted(round[k], sheet[k + 1]) /\ sheet[k + 1] \in Rows
    <2>1. k + 1 \in 0 .. Len(sheet) /\ k + 1 # 0 /\ (k + 1) - 1 = k /\ k + 1 \in 1 .. Len(sheet)
        BY <1>1, <1>5
    <2>2. round[k + 1] = Upserted(round[(k + 1) - 1], sheet[k + 1]) BY <2>1, <1>3
    <2> QED BY <2>1, <2>2
<1> QED BY <1>4, <1>5 DEF round

\* Rows of the sheet that have an option by their code are what it is.
Given(work, sheet, k) ==
    \A i \in 1 .. k :
        work.byCode[sheet[i].code] # NoOption => work.held[work.byCode[sheet[i].code]] = sheet[i]

\* A row of the catalogue that the sheet does not touch.
Unnamed(row, sheet) == \A r \in Range(sheet) : r.code # row.code /\ r.order # row.order

Untouched(work, snapshot, sheet) ==
    \A i \in DOMAIN snapshot : Unnamed(snapshot[i], sheet) =>
        i \in DOMAIN work.held /\ work.held[i] = snapshot[i]

CodesDiffer(sheet) == \A i, j \in DOMAIN sheet : i # j => sheet[i].code # sheet[j].code

\* A table and a snapshot as CatalogInv has them.
TablesOK(db, snapshot) ==
    /\ db \in Seq(Rows) /\ KeysUnique(db)
    /\ snapshot \in Seq(Rows) /\ KeysUnique(snapshot) /\ Len(snapshot) <= Len(db)

LEMMA RoundsOK ==
    ASSUME NEW db, NEW snapshot, TablesOK(db, snapshot), NEW sheet \in Seq(Rows)
    PROVE  LET round == Rounds(db, snapshot, sheet) IN
           \A k \in 0 .. Len(sheet) :
              /\ WorkOK(round[k])
              /\ CodesDiffer(sheet) => Given(round[k], sheet, k)
              /\ Untouched(round[k], snapshot, sheet)
              /\ snapshot = db => Same(round[k])
              /\ DOMAIN db \subseteq DOMAIN round[k].db
<1> DEFINE round == Rounds(db, snapshot, sheet)
           Good(k) == /\ WorkOK(round[k])
                      /\ CodesDiffer(sheet) => Given(round[k], sheet, k)
                      /\ Untouched(round[k], snapshot, sheet)
                      /\ snapshot = db => Same(round[k])
                      /\ DOMAIN db \subseteq DOMAIN round[k].db
           S == {k \in 0 .. Len(sheet) : Good(k)}
<1>1. Len(sheet) \in Nat OBVIOUS
<1> HIDE DEF round
<1>2. Good(0)
    <2>1. round[0] = OptionsLoaded(db, snapshot) BY RoundIs DEF round
    <2>2. WorkOK(round[0]) BY <2>1, LoadedOK DEF TablesOK
    <2>3. round[0].held = snapshot /\ round[0].loaded = snapshot /\ round[0].db = db
        BY <2>1 DEF OptionsLoaded
    <2>4. Given(round[0], sheet, 0) BY DEF Given
    <2>5. Untouched(round[0], snapshot, sheet) BY <2>3 DEF Untouched
    <2>6. snapshot = db => Same(round[0]) BY <2>3 DEF Same
    <2> QED BY <2>2, <2>3, <2>4, <2>5, <2>6
<1>3. ASSUME NEW k \in 0 .. Len(sheet), Good(k), k < Len(sheet)
      PROVE  Good(k + 1)
    <2> DEFINE work == round[k]
               row == sheet[k + 1]
               end == round[k + 1]
               id == ById(work, row)
    <2>1. end = Upserted(work, row) /\ row \in Rows BY <1>3, RoundIs DEF round
    <2>2. WorkOK(work) BY <1>3
    <2>3. /\ WorkOK(end) /\ DOMAIN end.held = DOMAIN work.held \cup {id} /\ end.held[id] = row
          /\ \A i \in DOMAIN work.held : i # id => end.held[i] = work.held[i]
          /\ DOMAIN work.db \subseteq DOMAIN end.db
        BY <2>1, <2>2, UpsertedOK
    <2>4. CodesDiffer(sheet) => Given(end, sheet, k + 1)
        <3> SUFFICES ASSUME CodesDiffer(sheet), NEW i \in 1 .. k + 1,
                            end.byCode[sheet[i].code] # NoOption
                     PROVE  end.held[end.byCode[sheet[i].code]] = sheet[i]
            BY DEF Given
        <3> DEFINE j == end.byCode[sheet[i].code]
        <3>1. i \in DOMAIN sheet /\ sheet[i] \in Rows /\ sheet[i].code \in OptCodes
            <4>1. i \in 1 .. Len(sheet) BY <1>1, <1>3
            <4>2. i \in DOMAIN sheet /\ sheet[i] \in Rows BY <4>1
            <4> QED BY <4>2 DEF Rows
        <3>2. j \in DOMAIN end.held /\ end.held[j].code = sheet[i].code
            BY <2>3, <3>1 DEF WorkOK, CodesOK
        <3>3. CASE i = k + 1
            <4>1. end.byCode[end.held[id].code] = id BY <2>3 DEF WorkOK, CodesOK
            <4> QED BY <4>1, <2>3, <3>3
        <3>4. CASE i # k + 1
            <4>1. i \in 1 .. k BY <1>1, <3>4
            <4>2. k + 1 \in DOMAIN sheet BY <1>1, <1>3
            <4>3. sheet[i].code # row.code BY <3>1, <3>4, <4>2 DEF CodesDiffer
            <4>4. j \in DOMAIN work.held /\ work.held[j] = end.held[j] BY <2>3, <3>2, <4>3
            <4>5. work.byCode[work.held[j].code] = j BY <2>2, <4>4 DEF WorkOK, CodesOK
            <4>6. work.byCode[sheet[i].code] = j BY <3>2, <4>4, <4>5
            <4>7. Given(work, sheet, k) BY <1>3
            <4>8. work.held[work.byCode[sheet[i].code]] = sheet[i]
                BY <4>1, <4>6, <4>7 DEF Given
            <4> QED BY <4>4, <4>6, <4>8
        <3> QED BY <3>3, <3>4
    <2>5. Untouched(end, snapshot, sheet)
        <3> SUFFICES ASSUME NEW i \in DOMAIN snapshot, Unnamed(snapshot[i], sheet)
                     PROVE  i \in DOMAIN end.held /\ end.held[i] = snapshot[i]
            BY DEF Untouched
        <3>1. i \in DOMAIN work.held /\ work.held[i] = snapshot[i] BY <1>3 DEF Untouched
        <3>2. row \in Range(sheet)
            <4>1. k + 1 \in DOMAIN sheet BY <1>1, <1>3
            <4> QED BY <4>1 DEF Range
        <3>3. i # id BY <2>1, <2>2, <3>1, <3>2, ByIdIs DEF Unnamed
        <3> QED BY <2>3, <3>1, <3>3
    <2>6. snapshot = db => Same(end) BY <1>3, <2>1, <2>2, UpsertedSame
    <2>7. DOMAIN db \subseteq DOMAIN end.db BY <1>3, <2>3
    <2> QED BY <2>3, <2>4, <2>5, <2>6, <2>7
<1>4. \A k \in 0 .. Len(sheet) : k \in S
    <2> HIDE DEF Good
    <2>1. 0 \in S BY <1>1, <1>2
    <2>2. ASSUME NEW k \in 0 .. Len(sheet), k \in S, k < Len(sheet) PROVE k + 1 \in S
        <3>1. k + 1 \in 0 .. Len(sheet) BY <1>1, <2>2
        <3> QED BY <1>3, <2>2, <3>1
    <2> HIDE DEF S
    <2> QED BY <1>1, <2>1, <2>2, UpTo
<1> QED BY <1>4 DEF round

-----------------------------------------------------------------------------
(* What an import makes of the catalogue.                                  *)

\* An import that does not fail leaves a catalogue in order and an option for every row; if
\* it saw the catalogue as it is, these options show the rows, and others are as they were.
LEMMA ImportedOK ==
    ASSUME NEW db, NEW snapshot, TablesOK(db, snapshot), NEW sheet \in Seq(Rows),
           ~Imported(db, snapshot, sheet).fails
    PROVE  LET result == Imported(db, snapshot, sheet) IN
           /\ result.db \in Seq(Rows) /\ KeysUnique(result.db)
           /\ Len(db) <= Len(result.db)
           /\ CodesDiffer(sheet)
           /\ IsInjective(result.option)
           /\ DOMAIN result.option = DOMAIN sheet
           /\ snapshot = db =>
                /\ \A i \in DOMAIN sheet : /\ result.option[i] \in DOMAIN result.db
                                           /\ result.db[result.option[i]] = sheet[i]
                /\ \A i \in DOMAIN db :
                      Unnamed(db[i], sheet) => result.db[i] = db[i]
<1> DEFINE work == Rounds(db, snapshot, sheet)[Len(sheet)]
           end == Flushed(work)
           option == [i \in DOMAIN sheet |-> work.byCode[sheet[i].code]]
           codes == [i \in DOMAIN sheet |-> sheet[i].code]
           result == Imported(db, snapshot, sheet)
<1>1. result = [db |-> end.db, option |-> option,
                fails |-> \/ end.fails \/ NoOption \in Range(option) \/ ~IsInjective(codes)]
    BY DEF Imported
<1>2. ~end.fails /\ NoOption \notin Range(option) /\ IsInjective(codes)
    <2> HIDE DEF end, option, codes, result
    <2> QED BY <1>1 DEF result
<1>3. result.db = end.db /\ result.option = option BY <1>1
<1>4. CodesDiffer(sheet) BY <1>2 DEF IsInjective, CodesDiffer
<1>5. /\ WorkOK(work) /\ Given(work, sheet, Len(sheet)) /\ Untouched(work, snapshot, sheet)
      /\ snapshot = db => Same(work)
      /\ DOMAIN db \subseteq DOMAIN work.db
    <2>1. Len(sheet) \in 0 .. Len(sheet) OBVIOUS
    <2> QED BY <1>4, <2>1, RoundsOK
<1> HIDE DEF work
<1>6. RowsOK(end) /\ Len(end.db) = Len(work.db) /\ DOMAIN end.db = DOMAIN work.db
    BY <1>5, FlushedOK DEF WorkOK
<1>7. snapshot = db => \A i \in DOMAIN work.db : end.db[i] = work.held[i]
    BY <1>5, FlushedSame DEF WorkOK
<1> HIDE DEF end, result
<1>8. end.db \in Seq(Rows) /\ KeysUnique(end.db) BY <1>2, <1>6 DEF RowsOK, Work
<1>9. Len(db) <= Len(end.db)
    <2>1. db \in Seq(Rows) BY DEF TablesOK
    <2>2. CASE Len(db) = 0 BY <2>1, <2>2, <1>8
    <2>3. CASE Len(db) # 0
        <3>1. Len(db) \in DOMAIN db BY <2>1, <2>3
        <3>2. Len(db) \in DOMAIN end.db BY <3>1, <1>5, <1>6
        <3> QED BY <3>2, <1>8
    <2> QED BY <2>2, <2>3
<1>10. ASSUME NEW i \in DOMAIN sheet
       PROVE  /\ option[i] \in DOMAIN work.held /\ work.held[option[i]] = sheet[i]
              /\ option[i] \in DOMAIN end.db
    <2>1. sheet[i] \in Rows /\ sheet[i].code \in OptCodes /\ i \in 1 .. Len(sheet)
        <3>1. sheet[i] \in Rows /\ i \in 1 .. Len(sheet) OBVIOUS
        <3> QED BY <3>1 DEF Rows
    <2>2. option[i] # NoOption BY <1>2 DEF Range
    <2>3. option[i] = work.byCode[sheet[i].code] OBVIOUS
    <2> HIDE DEF option
    <2>4. option[i] \in DOMAIN work.held BY <1>5, <2>1, <2>2, <2>3 DEF WorkOK, CodesOK
    <2>5. work.held[option[i]] = sheet[i] BY <1>5, <2>1, <2>2, <2>3 DEF Given
    <2>6. option[i] \in DOMAIN work.db BY <1>5, <2>4 DEF WorkOK, RowsOK
    <2> QED BY <2>4, <2>5, <2>6, <1>6
<1>11. IsInjective(option)
    <2>1. DOMAIN option = DOMAIN sheet OBVIOUS
    <2> HIDE DEF option
    <2>2. ASSUME NEW i \in DOMAIN sheet, NEW j \in DOMAIN sheet, option[i] = option[j]
          PROVE  i = j
        <3>1. sheet[i] = sheet[j] BY <2>2, <1>10
        <3> QED BY <3>1, <1>4 DEF CodesDiffer
    <2> QED BY <2>1, <2>2 DEF IsInjective
<1>12. ASSUME snapshot = db, NEW i \in DOMAIN db, Unnamed(db[i], sheet)
       PROVE  end.db[i] = db[i]
    <2>1. work.held[i] = db[i] BY <1>5, <1>12 DEF Untouched
    <2> QED BY <2>1, <1>5, <1>7, <1>12
<1>13. DOMAIN option = DOMAIN sheet OBVIOUS
<1> HIDE DEF option
<1>14. ASSUME snapshot = db, NEW i \in DOMAIN sheet
       PROVE  option[i] \in DOMAIN end.db /\ end.db[option[i]] = sheet[i]
    BY <1>6, <1>7, <1>10, <1>14
<1> QED BY <1>3, <1>4, <1>8, <1>9, <1>11, <1>12, <1>13, <1>14 DEF result

\* The options of a catalogue that show the rows of a sheet.
Shows(db, sheet, option) ==
    /\ db \in Seq(Rows) /\ KeysUnique(db) /\ sheet \in Seq(Rows) /\ CodesDiffer(sheet)
    /\ option = [i \in DOMAIN sheet |-> option[i]]
    /\ \A i \in DOMAIN sheet : option[i] \in DOMAIN db /\ db[option[i]] = sheet[i]

\* A catalogue that shows a sheet stays what it is when the sheet is imported.
LEMMA ImportedAgain ==
    ASSUME NEW db, NEW sheet, NEW option, Shows(db, sheet, option)
    PROVE  Imported(db, db, sheet) = [db |-> db, option |-> option, fails |-> FALSE]
<1> USE DEF Shows
<1> DEFINE round == Rounds(db, db, sheet)
           first == OptionsLoaded(db, db)
           Still(work) == /\ work \in Work /\ work.db = db /\ work.held = db
                          /\ work.loaded = db /\ work.byCode = first.byCode /\ ~work.fails
           S == {k \in 0 .. Len(sheet) : Still(round[k])}
<1>1. TablesOK(db, db) /\ Len(sheet) \in Nat BY DEF TablesOK
<1>2. WorkOK(first) BY <1>1, LoadedOK DEF TablesOK
<1>3. /\ first.db = db /\ first.held = db /\ first.loaded = db /\ first.fails = FALSE
      /\ first \in Work
    BY <1>2 DEF OptionsLoaded, WorkOK, RowsOK
<1> HIDE DEF first
<1>4. ASSUME NEW i \in DOMAIN sheet
      PROVE  /\ first.byCode[sheet[i].code] = option[i] /\ option[i] # NoOption
             /\ sheet[i].code \in OptCodes
    <2>1. sheet[i] \in Rows /\ option[i] \in DOMAIN db /\ db[option[i]] = sheet[i] OBVIOUS
    <2>2. first.byCode[first.held[option[i]].code] = option[i]
        BY <1>2, <1>3, <2>1 DEF WorkOK, CodesOK
    <2> QED BY <1>3, <2>1, <2>2 DEF Rows, NoOption
<1> HIDE DEF round
<1>5. Still(round[0]) BY <1>3, RoundIs DEF round, first
<1>6. ASSUME NEW k \in 0 .. Len(sheet), Still(round[k]), k < Len(sheet)
      PROVE  Still(round[k + 1])
    <2> DEFINE work == round[k]
               row == sheet[k + 1]
               end == round[k + 1]
               id == option[k + 1]
    <2>1. end = Upserted(work, row) /\ row \in Rows BY <1>6, RoundIs DEF round
    <2>2. k + 1 \in DOMAIN sheet BY <1>1, <1>6
    <2>3. work.byCode[row.code] = id /\ id # NoOption /\ id \in DOMAIN db /\ db[id] = row
        BY <1>4, <1>6, <2>2
    <2>4. end = MovedTo(work, id, row) BY <2>1, <2>3 DEF Upserted
    <2>5. [work.held EXCEPT ![id].order = row.order] = db
        <3>1. work.held = db /\ db[id] \in Rows BY <1>6, <2>3
        <3>2. [db[id] EXCEPT !.order = row.order] = db[id] BY <2>3, <3>1 DEF Rows
        <3>3. db = [i \in DOMAIN db |-> db[i]] OBVIOUS
        <3> QED BY <2>3, <3>1, <3>2, <3>3
    <2> DEFINE places == [work.byOrder EXCEPT ![work.held[id].order] = NoOption, ![row.order] = id]
    <2>6. end = [work EXCEPT !.held = db, !.byOrder = places] BY <2>4, <2>5 DEF MovedTo
    <2>7. work \in Work /\ work.byOrder \in [Orders -> Nat] /\ id \in Nat BY <1>6, <2>3 DEF Work
    <2>8. places \in [Orders -> Nat] BY <2>7 DEF NoOption
    <2>9. work.held \in Tables BY <2>7 DEF Work
    <2> HIDE DEF places, end
    <2> QED BY <1>6, <2>6, <2>7, <2>8, <2>9 DEF Work, end
<1>7. \A k \in 0 .. Len(sheet) : k \in S
    <2> HIDE DEF Still
    <2>1. 0 \in S BY <1>1, <1>5
    <2>2. ASSUME NEW k \in 0 .. Len(sheet), k \in S, k < Len(sheet) PROVE k + 1 \in S
        <3>1. k + 1 \in 0 .. Len(sheet) BY <1>1, <2>2
        <3> QED BY <1>6, <2>2, <3>1
    <2> HIDE DEF S
    <2> QED BY <1>1, <2>1, <2>2, UpTo
<1> DEFINE work == round[Len(sheet)]
           end == Flushed(work)
<1>8. Still(work)
    <2>1. Len(sheet) \in S BY <1>1, <1>7
    <2> QED BY <2>1
<1> HIDE DEF work
<1>9. RowsOK(work) /\ Same(work) BY <1>8 DEF RowsOK, Same
<1>10. end.db = db
    <2>1. \A i \in DOMAIN db : end.db[i] = db[i] BY <1>8, <1>9, FlushedSame
    <2>2. DOMAIN end.db = DOMAIN db /\ end.db \in Seq(Rows) BY <1>8, <1>9, FlushedOK DEF RowsOK, Work
    <2> HIDE DEF end
    <2> QED BY <2>1, <2>2
<1>11. ~end.fails
    <2> DEFINE Column(id, c) == IF work.held[id][c] = work.loaded[id][c]
                                THEN work.db[id][c] ELSE work.held[id][c]
               Row(id) == [code |-> Column(id, "code"), order |-> Column(id, "order")]
               Below(n) == [i \in DOMAIN work.db |->
                              IF i \in DOMAIN work.held /\ i < n THEN Row(i) ELSE work.db[i]]
               bad == \E id \in DOMAIN work.held : ~Fits(Below(id), id, Row(id))
    <2>1. end.fails = (work.fails \/ bad) BY <1>8 DEF Flushed, Work
    <2>2. \A id \in DOMAIN db : Row(id) = db[id]
        <3> SUFFICES ASSUME NEW id \in DOMAIN db PROVE Row(id) = db[id] OBVIOUS
        <3>1. db[id] \in Rows OBVIOUS
        <3> QED BY <3>1, <1>8 DEF Rows
    <2> HIDE DEF Row
    <2>3. \A n : DOMAIN Below(n) = DOMAIN db /\ \A i \in DOMAIN db : Below(n)[i] = db[i]
        BY <1>8, <2>2
    <2> HIDE DEF Below
    <2>4. ~bad BY <1>8, <2>2, <2>3 DEF Fits, KeysUnique
    <2> QED BY <1>8, <2>1, <2>4
<1> HIDE DEF end
<1> DEFINE found == [i \in DOMAIN sheet |-> work.byCode[sheet[i].code]]
           codes == [i \in DOMAIN sheet |-> sheet[i].code]
<1>12. Imported(db, db, sheet) =
         [db |-> end.db, option |-> found,
          fails |-> end.fails \/ NoOption \in Range(found) \/ ~IsInjective(codes)]
    BY DEF Imported, work, end, round
<1>13. found = option
    <2>1. found = [i \in DOMAIN sheet |-> option[i]] BY <1>4, <1>8
    <2> QED BY <2>1
<1>14. NoOption \notin Range(found)
    <2>1. \A i \in DOMAIN sheet : found[i] # NoOption BY <1>4, <1>8
    <2> QED BY <2>1 DEF Range
<1>15. IsInjective(codes) BY DEF IsInjective, CodesDiffer
<1> HIDE DEF found, codes, end
<1>16. (end.fails \/ NoOption \in Range(found) \/ ~IsInjective(codes)) = FALSE
    BY <1>11, <1>14, <1>15
<1> QED BY <1>10, <1>12, <1>13, <1>16

-----------------------------------------------------------------------------
(* The behaviours of the catalogue.                                        *)

LEMMA SheetsAreSequences == ASSUME NEW sheet \in Sheets PROVE sheet \in Seq(Rows)
BY MaxRowsIsNat DEF Sheets

LEMMA InitCatalogInv == CatalogInit => CatalogInv
BY DEF CatalogInit, CatalogInv, KeysUnique

LEMMA StepCatalogInv == CatalogInv /\ [CatalogNext]_catalogVars => CatalogInv'
<1> SUFFICES ASSUME CatalogInv, [CatalogNext]_catalogVars PROVE CatalogInv'
    OBVIOUS
<1>1. CASE UNCHANGED catalogVars BY <1>1 DEF CatalogInv, catalogVars
<1>2. CASE ImportBegins
    <2>1. Len(catalogue) \in Nat BY DEF CatalogInv
    <2> QED BY <1>2, <2>1 DEF ImportBegins, CatalogInv
<1>3. ASSUME NEW snapshot \in underWay, NEW sheet \in Sheets, ImportEnds(snapshot, sheet)
      PROVE  CatalogInv'
    <2> DEFINE result == Imported(catalogue, snapshot, sheet)
    <2>1. TablesOK(catalogue, snapshot) /\ sheet \in Seq(Rows)
        BY SheetsAreSequences DEF CatalogInv, TablesOK
    <2>2. catalogue' = (IF result.fails THEN catalogue ELSE result.db) /\ underWay' \subseteq underWay
        BY <1>3 DEF ImportEnds
    <2>3. CASE result.fails BY <2>2, <2>3 DEF CatalogInv
    <2>4. CASE ~result.fails
        <3>1. result.db \in Seq(Rows) /\ KeysUnique(result.db) /\ Len(catalogue) <= Len(result.db)
            BY <2>1, <2>4, ImportedOK
        <3> HIDE DEF result
        <3>2. catalogue' = result.db /\ Len(catalogue) \in Nat /\ Len(result.db) \in Nat
            BY <2>2, <2>4, <3>1 DEF CatalogInv
        <3> QED BY <2>2, <3>1, <3>2 DEF CatalogInv
    <2> QED BY <2>3, <2>4
<1> QED BY <1>1, <1>2, <1>3 DEF CatalogNext

\* The keys of the catalogue are unique at any time, and a snapshot has no option that the
\* catalogue does not have (ImportEnds).
THEOREM CatalogInvHolds == CatalogSpec => []CatalogInv
BY InitCatalogInv, StepCatalogInv, PTL DEF CatalogSpec

LEMMA SheetIsShownIs == CatalogInv => SheetIsShown
<1> SUFFICES ASSUME CatalogInv, NEW snapshot \in underWay, NEW sheet \in Sheets,
                    NEW result, result = Imported(catalogue, snapshot, sheet), ~result.fails,
                    NEW again, again = Imported(result.db, result.db, sheet)
             PROVE  /\ IsInjective(result.option)
                    /\ snapshot = catalogue =>
                         /\ \A i \in DOMAIN sheet : result.db[result.option[i]] = sheet[i]
                         /\ \A i \in DOMAIN catalogue :
                              (\A r \in Range(sheet) : r.code # catalogue[i].code
                                                      /\ r.order # catalogue[i].order)
                              => result.db[i] = catalogue[i]
                         /\ ~again.fails /\ again.db = result.db /\ again.option = result.option
    BY DEF SheetIsShown
<1>1. TablesOK(catalogue, snapshot) /\ sheet \in Seq(Rows)
    BY SheetsAreSequences DEF CatalogInv, TablesOK
<1>2. /\ result.db \in Seq(Rows) /\ KeysUnique(result.db)
      /\ CodesDiffer(sheet)
      /\ IsInjective(result.option)
      /\ DOMAIN result.option = DOMAIN sheet
      /\ snapshot = catalogue =>
           /\ \A i \in DOMAIN sheet : /\ result.option[i] \in DOMAIN result.db
                                      /\ result.db[result.option[i]] = sheet[i]
           /\ \A i \in DOMAIN catalogue :
                 Unnamed(catalogue[i], sheet) => result.db[i] = catalogue[i]
    BY <1>1, ImportedOK
<1>3. result.option = [i \in DOMAIN sheet |-> result.option[i]]
    BY <1>2 DEF Imported
<1>4. ASSUME snapshot = catalogue
      PROVE  ~again.fails /\ again.db = result.db /\ again.option = result.option
    <2>1. \A i \in DOMAIN sheet : /\ result.option[i] \in DOMAIN result.db
                                  /\ result.db[result.option[i]] = sheet[i]
        BY <1>2, <1>4
    <2> DEFINE table == result.db
               option == result.option
    <2>2. Shows(table, sheet, option) BY <1>1, <1>2, <1>3, <2>1 DEF Shows
    <2> HIDE DEF table, option
    <2>3. Imported(table, table, sheet) = [db |-> table, option |-> option, fails |-> FALSE]
        BY <2>2, ImportedAgain
    <2> QED BY <2>3 DEF table, option
<1> QED BY <1>2, <1>4 DEF Unnamed

\* An import gives every row of its sheet an option of its own; if it saw the catalogue as it
\* is, these options show the rows, options the sheet does not name stay as they are, and
\* importing the sheet again succeeds and changes nothing (_persist_options).
THEOREM ImportShowsTheSheet == CatalogSpec => []SheetIsShown
BY CatalogInvHolds, SheetIsShownIs, PTL
=============================================================================
