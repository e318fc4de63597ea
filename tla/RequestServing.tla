--------------------------- MODULE RequestServing ---------------------------
(***************************************************************************)
(* How the server runs its requests: one event loop, worker threads, a     *)
(* pool of database connections, and the row lock of a version.  Handlers  *)
(* declared with def run on a thread; async ones run on the event loop and *)
(* keep it while they wait, for the database driver blocks.  get_db closes *)
(* the session of a request when the event loop gets to it: until then a   *)
(* handler that raised keeps its connection and its row lock.              *)
(***************************************************************************)
EXTENDS Naturals, FiniteSets

CONSTANTS
    Slots,     \* requests served at a time
    PoolSize,  \* connections of the pool, overflow included
    Threads,   \* worker threads
    Nobody

ASSUME ServingAssumption ==
    PoolSize \in Nat /\ Threads \in Nat /\ Nobody \notin Slots /\ IsFiniteSet(Slots)

VARIABLES
    job,       \* each request: its operation, and how far it is
    pool,      \* the requests whose session has a connection
    rowLock,   \* the request whose transaction has the lock of the version row
    eventLoop  \* the request whose async handler runs

servingVars == <<job, pool, rowLock, eventLoop>>

\* finalize and activate, call_session_llm; import_diagnostic_structure; start_session.
ThreadOps == {"change", "llm"}
LoopOps == {"import", "start"}
Operations == ThreadOps \cup LoopOps

\* "auth" looks up the caller, "ready" waits to be run, "begun" has not locked yet,
\* "locked" works, "calling" waits for the provider, "refreshing" has committed and
\* reads its row again, "closing" waits for get_db to close its session.
Places == {"auth", "ready", "begun", "locked", "calling", "refreshing", "closing"}

NoJob == [op |-> "none", at |-> "idle"]

ServingTypeOK ==
    /\ job \in [Slots -> [op : Operations, at : Places] \cup {NoJob}]
    /\ pool \subseteq Slots /\ Cardinality(pool) <= PoolSize
    /\ rowLock \in Slots \cup {Nobody} /\ eventLoop \in Slots \cup {Nobody}

ServingInit ==
    /\ job = [r \in Slots |-> NoJob]
    /\ pool = {} /\ rowLock = Nobody /\ eventLoop = Nobody

-----------------------------------------------------------------------------
At(r, place) == job[r].at = place
Goes(r, place) == job' = [job EXCEPT ![r].at = place]

LoopIsFree == eventLoop = Nobody
Freed(r) == IF eventLoop = r THEN Nobody ELSE eventLoop
Unlocked(r) == IF rowLock = r THEN Nobody ELSE rowLock

\* The session's first statement takes a connection, if one is left.
Connected(r) == r \in pool \/ Cardinality(pool) < PoolSize

\* Looking up the caller and a def handler take a thread each; a request that waits for
\* its handler has none.
OnThread == {r \in Slots :
    \/ At(r, "auth")
    \/ job[r].op \in ThreadOps /\ job[r].at \in {"begun", "locked", "calling", "refreshing"}}
ThreadLeft == Cardinality(OnThread) < Threads

\* call_session_llm looks up no caller, start_session one that has signed in.
Arrives(r, op) ==
    /\ At(r, "idle") /\ LoopIsFree
    /\ \E place \in {"auth", "ready"} :
         /\ op \in (IF place = "auth" THEN {"change", "import", "start"} ELSE {"start", "llm"})
         /\ place = "auth" => ThreadLeft
         /\ job' = [job EXCEPT ![r] = [op |-> op, at |-> place]]
    /\ UNCHANGED <<pool, rowLock, eventLoop>>

\* get_current_admin, get_optional_current_user: on a thread.
Authenticated(r) ==
    /\ At(r, "auth") /\ Connected(r)
    /\ pool' = pool \cup {r}
    /\ Goes(r, "ready") \/ Goes(r, "closing")
    /\ UNCHANGED <<rowLock, eventLoop>>

Dispatched(r) ==
    /\ At(r, "ready") /\ LoopIsFree
    /\ job[r].op \in ThreadOps => ThreadLeft
    /\ eventLoop' = IF job[r].op \in LoopOps THEN r ELSE Nobody
    /\ Goes(r, "begun")
    /\ UNCHANGED <<pool, rowLock>>

\* The handler's first statement, unless the caller was looked up before.
Connects(r) ==
    /\ At(r, "begun") /\ r \notin pool /\ Connected(r)
    /\ pool' = pool \cup {r}
    /\ UNCHANGED <<job, rowLock, eventLoop>>

\* SELECT ... FOR UPDATE of the version row; for start_session the foreign key of its INSERT.
RowLocked(r) ==
    /\ At(r, "begun") /\ job[r].op # "llm"
    /\ r \in pool /\ rowLock = Nobody
    /\ rowLock' = r
    /\ Goes(r, "locked")
    /\ UNCHANGED <<pool, eventLoop>>

\* call_session_llm reads, and calls the provider with its transaction open.
ProviderCalled(r) ==
    /\ At(r, "begun") /\ job[r].op = "llm" /\ r \in pool
    /\ Goes(r, "calling")
    /\ UNCHANGED <<pool, rowLock, eventLoop>>

\* db.commit() returns the connection; all but two handlers then read their row again.
Commits(r) ==
    /\ At(r, "locked") \/ At(r, "calling")
    /\ pool' = pool \ {r} /\ rowLock' = Unlocked(r)
    /\ IF job[r].op \in {"change", "start"}
       THEN Goes(r, "refreshing") /\ UNCHANGED eventLoop
       ELSE Goes(r, "closing") /\ eventLoop' = Freed(r)

Refreshed(r) ==
    /\ At(r, "refreshing") /\ Connected(r)
    /\ pool' = pool \cup {r} /\ eventLoop' = Freed(r)
    /\ Goes(r, "closing")
    /\ UNCHANGED rowLock

\* An error is raised, with the connection and the lock the session has by then, or after a
\* rollback.
Raises(r) ==
    /\ r \in pool
    /\ At(r, "begun") \/ At(r, "calling") \/ (At(r, "locked") /\ job[r].op # "start")
    /\ \/ UNCHANGED <<pool, rowLock>>
       \/ pool' = pool \ {r} /\ rowLock' = Unlocked(r)
    /\ eventLoop' = Freed(r)
    /\ Goes(r, "closing")

\* QueuePool's timeout, and innodb_lock_wait_timeout: errors like any other.
TimesOut(r) ==
    /\ \/ job[r].at \in {"auth", "begun", "refreshing"} /\ ~Connected(r)
       \/ At(r, "begun") /\ job[r].op # "llm" /\ r \in pool /\ rowLock # Nobody
    /\ eventLoop' = Freed(r)
    /\ Goes(r, "closing")
    /\ UNCHANGED <<pool, rowLock>>

\* Mutation: get_db without its finally.
ClosedLeaving(r) ==
    /\ At(r, "closing") /\ LoopIsFree
    /\ job' = [job EXCEPT ![r] = NoJob]
    /\ UNCHANGED <<pool, rowLock, eventLoop>>

\* The end of get_db: the session gives its connection back, which rolls back.
Closed(r) ==
    /\ At(r, "closing") /\ LoopIsFree
    /\ job' = [job EXCEPT ![r] = NoJob]
    /\ pool' = pool \ {r} /\ rowLock' = Unlocked(r)
    /\ UNCHANGED eventLoop

GoesOn(r) ==
    \/ Authenticated(r) \/ Dispatched(r) \/ Connects(r) \/ RowLocked(r) \/ ProviderCalled(r)
    \/ Commits(r) \/ Refreshed(r) \/ Raises(r) \/ Closed(r)

ServingNext ==
    \E r \in Slots : (\E op \in Operations : Arrives(r, op)) \/ GoesOn(r) \/ TimesOut(r)

-----------------------------------------------------------------------------
\* What a request needs to go on by itself.
CanGoOn(r) ==
    \/ At(r, "closing") /\ LoopIsFree
    \/ At(r, "ready") /\ LoopIsFree /\ (job[r].op \in ThreadOps => ThreadLeft)
    \/ (At(r, "auth") \/ At(r, "refreshing")) /\ Connected(r)
    \/ At(r, "begun") /\ r \notin pool /\ Connected(r)
    \/ At(r, "begun") /\ r \in pool /\ (job[r].op = "llm" \/ rowLock = Nobody)
    \/ At(r, "locked")

\* Connections and row locks alone never wait in a circle: while no async handler keeps
\* the event loop, no request keeps a connection for want of a thread, and provider calls
\* leave a connection and a thread, some request goes on without a timeout
\* (db/session.py:7, deps/admin.py:16-21).  Both exceptions are circles of this code: an
\* async handler waits for the lock of a request that the event loop has to close
\* (admin_diagnostics.py:605), and requests that were looked up wait for the threads of
\* those that wait for a connection (deps/admin.py:24).
OnlyLoopAndThreadsStall ==
    LET calling == {r \in Slots : At(r, "calling")}
        waiting == {r \in Slots : job[r].at # "idle"} \ calling
    IN /\ LoopIsFree /\ waiting # {}
       /\ \A r \in pool : At(r, "ready") => ThreadLeft
       /\ Cardinality(calling) < PoolSize /\ Cardinality(calling) < Threads
       => \E r \in waiting : CanGoOn(r)
=============================================================================
