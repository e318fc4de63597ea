-------------------------- MODULE VersionLifecycle --------------------------
(***************************************************************************)
(* The administrator's side of a diagnostic: create a version, import its  *)
(* structure, edit its prompt, finalize it, activate it                    *)
(* (backend/app/routers/admin_diagnostics.py).                             *)
(*                                                                         *)
(* Each HTTP request is served by its own thread in one InnoDB transaction *)
(* (REPEATABLE READ).  The admin lookup of the authentication dependency   *)
(* is the transaction's first consistent read and fixes its snapshot; a    *)
(* later plain SELECT reads that snapshot, while SELECT ... FOR UPDATE,    *)
(* UPDATE and DELETE read and lock the current row.  What one request does *)
(* while it holds a row lock becomes visible when it commits, so the       *)
(* writes of a request, its audit entry and its commit are one step.       *)
(***************************************************************************)
EXTENDS VersionData, Naturals, Sequences, FiniteSets

CONSTANTS
    Requests,      \* request slots served concurrently
    MaxAudit       \* bound: audit entries written in a behaviour

ASSUME MaxAuditIsNat == MaxAudit \in Nat

VARIABLES
    version,    \* diagnostic_versions: one row or NULL per primary key
    structure,  \* version_questions, version_options, version_outcomes
    active,     \* cfg_active_versions
    audit,      \* aud_diagnostic_version_logs, in id order
    pc,         \* how far each request is
    op,         \* the operation it serves
    target,     \* the version_id of its path
    snap,       \* the snapshot its transaction reads
    previous,   \* activate: version_id of the active row it locked
    answer      \* status of the last response of the slot

tables   == <<version, structure, active, audit>>
requests == <<pc, op, target, snap, previous, answer>>
vars     == <<version, structure, active, audit,
              pc, op, target, snap, previous, answer>>

-----------------------------------------------------------------------------
(* Reading the tables.                                                     *)

Exists(v) == version[v] # NULL
Frozen(v) == Exists(v) /\ version[v].src_hash # NULL

(* Row locks. *)

HoldsVersion(r, v) == pc[r] \in {"joining", "locked", "chosen"} /\ target[r] = v
VersionFree(v)     == \A q \in Requests : ~HoldsVersion(q, v)

\* The importer's SELECT ... JOIN ... FOR UPDATE locks the diagnostic too.
DiagnosticFree(d) ==
    \A q \in Requests : (pc[q] = "locked" /\ op[q] = "import")
                            => version[target[q]].diagnostic # d

\* The lock on the cfg_active_versions row, or on the gap where it would be.
HoldsActive(r, d) == pc[r] = "chosen" /\ version[target[r]].diagnostic = d

\* A gap of the unique index on diagnostic_id reaches from one row to the next: diagnostics
\* without a row share it when no row lies between them.
SameGap(d, e) ==
    /\ active[d] = NULL /\ active[e] = NULL
    /\ \A f \in Diagnostics : (d < f /\ f < e) \/ (e < f /\ f < d) => active[f] = NULL

\* q has locked the gap into which r inserts the first active row of its diagnostic.
SharesGap(r, q) ==
    /\ q # r /\ pc[q] = "chosen"
    /\ SameGap(version[target[r]].diagnostic, version[target[q]].diagnostic)

-----------------------------------------------------------------------------
(* Requests.                                                               *)

Writes == {"create", "import", "prompt", "finalize", "activate"}
Ops    == Writes \cup {"detail"}
Codes  == {"none", "ok", "not_found", "frozen", "dep_missing", "name_dup",
           "import_validation", "mismatch", "unexpected"}

NoSnapshot == [version |-> [v \in Versions |-> NULL],
               structure |-> [v \in Versions |-> EmptyStructure]]

At(r, place, o) == pc[r] = place /\ op[r] = o

Writers == {r \in Requests : pc[r] # "idle" /\ op[r] \in Writes}

\* get_current_admin: the first read of the transaction.
Begin(r, o, v) ==
    /\ pc[r] = "idle"
    /\ o \in Writes => Len(audit) + Cardinality(Writers) < MaxAudit
    /\ pc' = [pc EXCEPT ![r] = "begun"]
    /\ op' = [op EXCEPT ![r] = o]
    /\ target' = [target EXCEPT ![r] = v]
    /\ snap' = [snap EXCEPT ![r] = [version |-> version, structure |-> structure]]
    /\ answer' = [answer EXCEPT ![r] = "none"]
    /\ UNCHANGED <<tables, previous>>

\* The response is sent, the session closed and its locks released.
Answer(r, code) ==
    /\ pc' = [pc EXCEPT ![r] = "idle"]
    /\ op' = [op EXCEPT ![r] = "none"]
    /\ target' = [target EXCEPT ![r] = NULL]
    /\ snap' = [snap EXCEPT ![r] = NoSnapshot]
    /\ previous' = [previous EXCEPT ![r] = NULL]
    /\ answer' = [answer EXCEPT ![r] = code]

Refuse(r, code) == Answer(r, code) /\ UNCHANGED tables

GoTo(r, place) ==
    /\ pc' = [pc EXCEPT ![r] = place]
    /\ UNCHANGED <<tables, op, target, snap, previous, answer>>

\* record_diagnostic_version_log
Log(action, v, value) ==
    audit' = Append(audit, [action |-> action, version |-> v, value |-> value])

-----------------------------------------------------------------------------
(* What is refused before a version is read.                               *)

\* No diagnostic of that id, a name that is empty or too long; a prompt that is too long; an
\* empty file.  Not a step that Serve may take: what is in order must not get around a wait.
BodyRefused(r) ==
    \/ At(r, "begun", "create") /\ Refuse(r, "not_found")
    \/ pc[r] = "begun" /\ op[r] \in {"create", "prompt", "import"} /\ Refuse(r, "import_validation")

-----------------------------------------------------------------------------
(* create_diagnostic_version.                                              *)

CreateRefused(r, d, n) ==
    /\ At(r, "begun", "create")
    /\ NameTaken(snap[r].version, d, n)
    /\ Refuse(r, "name_dup")

\* The unique key fails in the flush, outside the handler's try block.
CreateCollides(r, d, n) ==
    /\ At(r, "begun", "create")
    /\ ~NameTaken(snap[r].version, d, n)
    /\ NameTaken(version, d, n)
    /\ Refuse(r, "unexpected")

Create(r, v, d, n, p) ==
    /\ At(r, "begun", "create")
    /\ ~NameTaken(snap[r].version, d, n)
    /\ ~NameTaken(version, d, n)
    /\ ~Exists(v)
    /\ DiagnosticFree(d)
    /\ version' = [version EXCEPT ![v] =
           [diagnostic |-> d, name |-> n, prompt |-> p, src_hash |-> NULL]]
    /\ Log("CREATE", v, p)
    /\ Answer(r, "ok")
    /\ UNCHANGED <<structure, active>>

-----------------------------------------------------------------------------
(* update_system_prompt: the row and its src_hash come from the snapshot.  *)

PromptRefused(r) ==
    LET seen == snap[r].version[target[r]] IN
    /\ At(r, "begun", "prompt")
    /\ \/ seen = NULL /\ Refuse(r, "not_found")
       \/ seen # NULL /\ seen.src_hash # NULL /\ Refuse(r, "frozen")

\* Mutation: the src_hash check is forgotten.
PromptUpdateUnguarded(r, p) ==
    LET v == target[r] IN
    /\ At(r, "begun", "prompt")
    /\ snap[r].version[v] # NULL
    /\ VersionFree(v)
    /\ version' = [version EXCEPT ![v].prompt = p]
    /\ Log("PROMPT_UPDATE", v, p)
    /\ Answer(r, "ok")
    /\ UNCHANGED <<structure, active>>

\* Mutation: an omitted prompt leaves the stored one, yet is logged.
PromptUpdateKeepsNull(r, p) ==
    LET v == target[r] IN
    /\ At(r, "begun", "prompt")
    /\ snap[r].version[v] # NULL
    /\ snap[r].version[v].src_hash = NULL
    /\ VersionFree(v)
    /\ version' = IF p = NULL THEN version ELSE [version EXCEPT ![v].prompt = p]
    /\ Log("PROMPT_UPDATE", v, p)
    /\ Answer(r, "ok")
    /\ UNCHANGED <<structure, active>>

\* The UPDATE carries only the attributes that differ from the row read: a
\* prompt equal to the one in the snapshot is not written.
PromptUpdate(r, p) ==
    LET v    == target[r]
        seen == snap[r].version[v]
    IN
    /\ At(r, "begun", "prompt")
    /\ seen # NULL
    /\ seen.src_hash = NULL
    /\ VersionFree(v)
    /\ version' = IF p = seen.prompt THEN version
                  ELSE [version EXCEPT ![v].prompt = p]
    /\ Log("PROMPT_UPDATE", v, p)
    /\ Answer(r, "ok")
    /\ UNCHANGED <<structure, active>>

-----------------------------------------------------------------------------
(* import_diagnostic_structure and StructureImporter.                      *)

ImportRefused(r) ==
    LET v == target[r] IN
    \/ At(r, "begun", "import") /\ ~Exists(v) /\ Refuse(r, "not_found")
    \/ /\ At(r, "joining", "import") /\ Frozen(v)
       /\ DiagnosticFree(version[v].diagnostic)
       /\ Refuse(r, "frozen")

\* The SELECT ... FOR UPDATE locks the version first, then the diagnostic it joins.
ImportJoin(r) ==
    LET v == target[r] IN
    /\ At(r, "begun", "import")
    /\ VersionFree(v)
    /\ Exists(v)
    /\ GoTo(r, "joining")

\* Mutation: the src_hash checked is that of the snapshot.
ImportLockCheckedEarly(r) ==
    LET v == target[r] IN
    /\ At(r, "joining", "import")
    /\ snap[r].version[v] # NULL
    /\ snap[r].version[v].src_hash = NULL
    /\ DiagnosticFree(version[v].diagnostic)
    /\ GoTo(r, "locked")

ImportLock(r) ==
    LET v == target[r] IN
    /\ At(r, "joining", "import")
    /\ ~Frozen(v)
    /\ DiagnosticFree(version[v].diagnostic)
    /\ GoTo(r, "locked")

ImportInvalid(r, sheet) ==
    /\ At(r, "locked", "import")
    /\ ~WellFormed(sheet)
    /\ Refuse(r, "import_validation")

\* _replace_version_structure deletes the rows of the version and inserts
\* those of the sheet.
ImportCommit(r, sheet) ==
    LET v == target[r] IN
    /\ At(r, "locked", "import")
    /\ WellFormed(sheet)
    /\ structure' = [structure EXCEPT ![v] = sheet]
    /\ Log("IMPORT", v, sheet)
    /\ Answer(r, "ok")
    /\ UNCHANGED <<version, active>>

\* The DELETEs lock gaps that reach into those of the versions next to v: imports into two
\* diagnostics may each wait for the other to INSERT, and InnoDB rolls one back.
ImportDeadlock(r) ==
    /\ At(r, "locked", "import")
    /\ \E q \in Requests \ {r} : At(q, "locked", "import")
    /\ Refuse(r, "unexpected")

-----------------------------------------------------------------------------
(* finalize_diagnostic_version: the version row is read under its lock,    *)
(* the questions, options and outcomes by plain SELECTs of the snapshot.   *)

FinalizeRefused(r) ==
    LET v == target[r] IN
    /\ At(r, "begun", "finalize")
    /\ VersionFree(v)
    /\ \/ ~Exists(v) /\ Refuse(r, "not_found")
       \/ Frozen(v) /\ Refuse(r, "frozen")
       \/ /\ Exists(v)
          /\ ~Frozen(v)
          /\ ~Complete(snap[r].structure[v])
          /\ Refuse(r, "dep_missing")

\* Mutation: the version is read without FOR UPDATE.
FinalizeLockPlainRead(r) ==
    LET v == target[r] IN
    /\ At(r, "begun", "finalize")
    /\ snap[r].version[v] # NULL
    /\ snap[r].version[v].src_hash = NULL
    /\ Complete(snap[r].structure[v])
    /\ GoTo(r, "locked")

\* Mutation: the dependency checks are forgotten.
FinalizeLockUnchecked(r) ==
    LET v == target[r] IN
    /\ At(r, "begun", "finalize")
    /\ VersionFree(v)
    /\ Exists(v)
    /\ ~Frozen(v)
    /\ GoTo(r, "locked")

FinalizeLock(r) ==
    LET v == target[r] IN
    /\ At(r, "begun", "finalize")
    /\ VersionFree(v)
    /\ Exists(v)
    /\ ~Frozen(v)
    /\ Complete(snap[r].structure[v])
    /\ GoTo(r, "locked")

FinalizeCommit(r) ==
    LET v    == target[r]
        hash == BuildSrcHash(version[v].prompt, snap[r].structure[v])
    IN
    /\ At(r, "locked", "finalize")
    /\ version' = [version EXCEPT ![v].src_hash = hash]
    /\ Log("FINALIZE", v, hash)
    /\ Answer(r, "ok")
    /\ UNCHANGED <<structure, active>>

-----------------------------------------------------------------------------
(* activate_diagnostic_version.                                            *)

\* d is the diagnostic_id of the body, NULL when the body leaves it out.
ActivateRefused(r, d) ==
    LET v == target[r] IN
    /\ At(r, "begun", "activate")
    /\ VersionFree(v)
    /\ \/ ~Exists(v) /\ Refuse(r, "not_found")
       \/ Exists(v) /\ ~Frozen(v) /\ Refuse(r, "dep_missing")
       \/ /\ Frozen(v)
          /\ d \notin {NULL, version[v].diagnostic}
          /\ Refuse(r, "mismatch")

\* Mutation: a draft may be activated.
ActivateLockDraft(r) ==
    LET v == target[r] IN
    /\ At(r, "begun", "activate")
    /\ VersionFree(v)
    /\ Exists(v)
    /\ GoTo(r, "locked")

ActivateLock(r) ==
    LET v == target[r] IN
    /\ At(r, "begun", "activate")
    /\ VersionFree(v)
    /\ Frozen(v)
    /\ GoTo(r, "locked")

\* Mutation: the active row is read without FOR UPDATE.
ActivateChoosePlainRead(r) ==
    /\ At(r, "locked", "activate")
    /\ pc' = [pc EXCEPT ![r] = "chosen"]
    /\ previous' = [previous EXCEPT ![r] = active[version[target[r]].diagnostic]]
    /\ UNCHANGED <<tables, op, target, snap, answer>>

\* The second FOR UPDATE excludes others only when the row exists: locks on
\* the gap of a missing row are compatible.
ActivateChoose(r) ==
    LET d == version[target[r]].diagnostic IN
    /\ At(r, "locked", "activate")
    /\ active[d] # NULL => \A q \in Requests : ~HoldsActive(q, d)
    /\ pc' = [pc EXCEPT ![r] = "chosen"]
    /\ previous' = [previous EXCEPT ![r] = active[d]]
    /\ UNCHANGED <<tables, op, target, snap, answer>>

\* An INSERT waits for the locks of others on the gap, whichever diagnostic
\* they are about; an UPDATE of the locked row does not.
ActivateCommit(r) ==
    LET v == target[r]
        d == version[v].diagnostic
    IN
    /\ At(r, "chosen", "activate")
    /\ previous[r] = NULL =>
           /\ \A q \in Requests : ~SharesGap(r, q)
           /\ DiagnosticFree(d)
    /\ active' = [active EXCEPT ![d] = v]
    /\ Log("ACTIVATE", v, previous[r])
    /\ Answer(r, "ok")
    /\ UNCHANGED <<version, structure>>

\* Mutation: nobody breaks the deadlock of two first activations.
ActivateDeadlockUnresolved(r) ==
    /\ At(r, "chosen", "activate")
    /\ previous[r] = NULL
    /\ \E q \in Requests : SharesGap(r, q)
    /\ GoTo(r, "chosen")

\* Two inserts waiting for each other's gap lock: InnoDB rolls one back.
ActivateDeadlock(r) ==
    /\ At(r, "chosen", "activate")
    /\ previous[r] = NULL
    /\ \E q \in Requests : SharesGap(r, q)
    /\ Refuse(r, "unexpected")

-----------------------------------------------------------------------------
(* Reading, failing, and the next-state relation.                          *)

\* get_diagnostic_version_detail and the other read-only handlers.
Detail(r) ==
    /\ At(r, "begun", "detail")
    /\ Refuse(r, IF snap[r].version[target[r]] = NULL THEN "not_found" ELSE "ok")

\* The database, the parser or the process fails: everything rolls back.
Fail(r) ==
    /\ pc[r] # "idle"
    /\ Refuse(r, "unexpected")

Init ==
    /\ version = [v \in Versions |-> NULL]
    /\ structure = [v \in Versions |-> EmptyStructure]
    /\ active = [d \in Diagnostics |-> NULL]
    /\ audit = <<>>
    /\ pc = [r \in Requests |-> "idle"]
    /\ op = [r \in Requests |-> "none"]
    /\ target = [r \in Requests |-> NULL]
    /\ snap = [r \in Requests |-> NoSnapshot]
    /\ previous = [r \in Requests |-> NULL]
    /\ answer = [r \in Requests |-> "none"]

Arrive(r) == \E o \in Ops, v \in Versions : Begin(r, o, v)

ServeCreate(r) ==
    \E d \in Diagnostics, n \in Names :
        \/ CreateRefused(r, d, n)
        \/ CreateCollides(r, d, n)
        \/ \E v \in Versions, p \in Prompt : Create(r, v, d, n, p)

ServePrompt(r) == PromptRefused(r) \/ \E p \in Prompt : PromptUpdate(r, p)

ServeImport(r) ==
    \/ ImportRefused(r)
    \/ ImportJoin(r)
    \/ ImportLock(r)
    \/ ImportDeadlock(r)
    \/ \E sheet \in Sheets : ImportInvalid(r, sheet) \/ ImportCommit(r, sheet)

ServeFinalize(r) == FinalizeRefused(r) \/ FinalizeLock(r) \/ FinalizeCommit(r)

ServeActivate(r) ==
    \/ \E d \in Diagnostics \cup {NULL} : ActivateRefused(r, d)
    \/ ActivateLock(r)
    \/ ActivateChoose(r)
    \/ ActivateCommit(r)
    \/ ActivateDeadlock(r)

Serve(r) ==
    \/ ServeCreate(r)
    \/ ServePrompt(r)
    \/ ServeImport(r)
    \/ ServeFinalize(r)
    \/ ServeActivate(r)
    \/ Detail(r)

Next == \E r \in Requests : Arrive(r) \/ BodyRefused(r) \/ Serve(r) \/ Fail(r)

Spec == Init /\ [][Next]_vars

\* A thread of the pool keeps running, and InnoDB grants a row lock in the
\* order of the waits: a request that is again and again able to go on does.
Fairness == \A r \in Requests : SF_vars(Serve(r))

FairSpec == Spec /\ Fairness

-----------------------------------------------------------------------------
(* Properties.                                                             *)

LogEntry == [action  : {"CREATE", "PROMPT_UPDATE", "IMPORT", "FINALIZE", "ACTIVATE"},
             version : Versions,
             value   : Prompt \cup Structure \cup SrcHash \cup Versions]

Snapshot == [version   : [Versions -> VersionRow \cup {NULL}],
             structure : [Versions -> Structure]]

\* Types of the tables and of the requests in flight.
TypeOK ==
    /\ version \in [Versions -> VersionRow \cup {NULL}]
    /\ structure \in [Versions -> Structure]
    /\ active \in [Diagnostics -> Versions \cup {NULL}]
    /\ audit \in Seq(LogEntry)
    /\ pc \in [Requests -> {"idle", "begun", "joining", "locked", "chosen"}]
    /\ op \in [Requests -> Ops \cup {"none"}]
    /\ target \in [Requests -> Versions \cup {NULL}]
    /\ snap \in [Requests -> Snapshot]
    /\ previous \in [Requests -> Versions \cup {NULL}]
    /\ answer \in [Requests -> Codes]

\* finalize freezes the structure: no import that overlaps a finalize, or
\* follows it, changes the questions, options or outcomes of the version.
StructureFrozen ==
    [][\A v \in Versions : Frozen(v) => structure'[v] = structure[v]]_vars

\* Of two overlapping finalizes one wins: src_hash is written once, and no
\* other handler clears it.
SrcHashWriteOnce ==
    [][\A v \in Versions :
          Frozen(v) => /\ version'[v] # NULL
                       /\ version'[v].src_hash = version[v].src_hash]_vars

\* The version a diagnostic shows is one of its own, finalized, and its hash
\* was computed over content that passed the dependency checks.
ActiveIsFinalized ==
    \A d \in Diagnostics : active[d] # NULL =>
        /\ Frozen(active[d])
        /\ version[active[d]].diagnostic = d
        /\ Complete(version[active[d]].src_hash.structure)

Logged(i, action, v) ==
    /\ i \in DOMAIN audit
    /\ audit[i].action = action
    /\ audit[i].version = v

\* The audit log orders the life of a version as the tables lived it: created
\* first, imported only before its one FINALIZE, which carries the stored
\* hash, and activated only after it.
AuditOrder ==
    \A v \in Versions :
        /\ Frozen(v) <=> \E i \in DOMAIN audit : Logged(i, "FINALIZE", v)
        /\ \A i, j \in DOMAIN audit :
              /\ Logged(i, "FINALIZE", v) => audit[i].value = version[v].src_hash
              /\ Logged(i, "FINALIZE", v) /\ Logged(j, "FINALIZE", v) => i = j
              /\ Logged(i, "IMPORT", v) /\ Logged(j, "FINALIZE", v) => i < j
              /\ Logged(i, "FINALIZE", v) /\ Logged(j, "ACTIVATE", v) => i < j
              /\ Logged(j, "CREATE", v) /\ i < j => audit[i].version # v

\* The entry i activates a version of diagnostic d.
Activates(i, d) ==
    /\ i \in DOMAIN audit
    /\ audit[i].action = "ACTIVATE"
    /\ version[audit[i].version].diagnostic = d

\* w is the version of d that the entries before n left active.
ActiveBefore(d, n, w) ==
    \/ w = NULL /\ \A i \in 1..(n - 1) : ~Activates(i, d)
    \/ \E i \in 1..(n - 1) :
          /\ Activates(i, d)
          /\ audit[i].version = w
          /\ \A j \in (i + 1)..(n - 1) : ~Activates(j, d)

\* No activation is lost: each ACTIVATE entry names as previous_version_id
\* the version that the entry before it activated, and the last one is the
\* version in cfg_active_versions.
ActivationChain ==
    \A d \in Diagnostics :
        /\ \A n \in DOMAIN audit : Activates(n, d) => ActiveBefore(d, n, audit[n].value)
        /\ ActiveBefore(d, Len(audit) + 1, active[d])

\* The structures the audit log shows as imported into v.
Imported(v) == {audit[i].value : i \in {j \in DOMAIN audit : Logged(j, "IMPORT", v)}}

(* The inductive invariant behind the properties above.                    *)

\* What a request has established when it is at a given place.
RequestInv ==
    \A r \in Requests :
        /\ pc[r] # "idle" => target[r] \in Versions /\ op[r] \in Ops
        /\ pc[r] = "locked" => op[r] \in {"import", "finalize", "activate"}
        /\ pc[r] = "joining" => op[r] = "import" /\ Exists(target[r])
        /\ pc[r] = "chosen" => op[r] = "activate"
        /\ pc[r] = "locked" /\ op[r] \in {"import", "finalize"} =>
               Exists(target[r]) /\ ~Frozen(target[r])
        /\ At(r, "locked", "finalize") => Complete(snap[r].structure[target[r]])
        /\ pc[r] \in {"locked", "chosen"} /\ op[r] = "activate" => Frozen(target[r])

\* The row lock of a version has one holder.
LockInv ==
    \A q, r \in Requests, v \in Versions :
        HoldsVersion(q, v) /\ HoldsVersion(r, v) => q = r

\* Every src_hash covers content that passed the dependency checks.
HashInv == \A v \in Versions : Frozen(v) => Complete(version[v].src_hash.structure)

\* A snapshot holds nothing the tables never held: its rows still exist, and
\* its structures, like the stored ones, were imported.
SnapshotInv ==
    \A v \in Versions :
        /\ structure[v] \in Imported(v) \cup {EmptyStructure}
        /\ \A r \in Requests :
              /\ snap[r].structure[v] \in Imported(v) \cup {EmptyStructure}
              /\ snap[r].version[v] # NULL => Exists(v)

\* The audit log is about versions that exist, and activates finalized ones.
LogInv ==
    \A i \in DOMAIN audit :
        /\ Exists(audit[i].version)
        /\ audit[i].action = "ACTIVATE" => Frozen(audit[i].version)

\* A request that is about to write the active row knows the version in it,
\* and has it to itself once there is one.
ChosenInv ==
    \A r \in Requests, d \in Diagnostics : HoldsActive(r, d) =>
        /\ previous[r] = active[d]
        /\ active[d] # NULL => \A q \in Requests : HoldsActive(q, d) => q = r

\* The invariant that the proofs carry through every step: a request relies
\* on what it read under a row lock only while it holds that lock.
IInv == /\ TypeOK /\ RequestInv /\ LockInv /\ HashInv /\ ActiveIsFinalized /\ SnapshotInv
        /\ LogInv /\ ChosenInv

(* Who waits for whom: the locks that a request holds from one step to     *)
(* another, on versions, on diagnostics, on the active row or its gap, and *)
(* on the gaps of the rows that an import replaces.                        *)

Importing(q) == At(q, "locked", "import")

\* The next step of r asks for a lock that q holds.  Two imports are taken to wait for each
\* other whenever they may, whatever versions lie between theirs.
WaitsFor(r, q) ==
    LET d == version[target[r]].diagnostic IN
    /\ q # r
    /\ \/ /\ pc[r] = "begun" /\ op[r] \in {"prompt", "import", "finalize", "activate"}
          /\ HoldsVersion(q, target[r])
       \/ pc[r] = "joining" /\ Importing(q) /\ version[target[q]].diagnostic = d
       \/ At(r, "begun", "create") /\ Importing(q)
       \/ Importing(r) /\ Importing(q)
       \/ At(r, "locked", "activate") /\ active[d] # NULL /\ HoldsActive(q, d)
       \/ /\ pc[r] = "chosen" /\ previous[r] = NULL
          /\ SharesGap(r, q) \/ (Importing(q) /\ version[target[q]].diagnostic = d)

\* How many kinds of locks a request is past.
Progress(r) ==
    IF pc[r] = "begun" THEN 0
    ELSE IF At(r, "locked", "activate") THEN 1
    ELSE IF pc[r] = "chosen" THEN 2
    ELSE IF pc[r] = "joining" THEN 3 ELSE 4

\* Each of the two waits to insert into a gap that the other has locked: first activations of
\* one diagnostic or of neighbours, or imports.  InnoDB sees it and rolls one of them back
\* (ActivateDeadlock, ImportDeadlock).
GapDeadlock(r, q) ==
    /\ WaitsFor(r, q) /\ WaitsFor(q, r)
    /\ \/ pc[r] = "chosen" /\ SharesGap(r, q)
       \/ Importing(r) /\ Importing(q)

\* Whoever waits waits for a request that is past more locks, so that no cycle of requests
\* waits for itself, but for two that insert into one gap.
LockOrder ==
    \A r, q \in Requests :
        WaitsFor(r, q) => Progress(r) < Progress(q) \/ GapDeadlock(r, q)

\* While requests are under way, one of them waits for nobody, or only for requests that
\* wait for it in turn to insert into one gap, which the database ends.
SomeoneGoesOn ==
    (\E r \in Requests : pc[r] # "idle") =>
        \E r \in Requests :
            /\ pc[r] # "idle"
            /\ \A q \in Requests : WaitsFor(r, q) => GapDeadlock(r, q)

\* Every request is answered: neither the row locks nor the inserts of first
\* activations into one gap block a request for ever.
EveryRequestAnswered ==
    \A r \in Requests : pc[r] # "idle" ~> pc[r] = "idle"

\* Every commit is one atomic operation of the contract, whatever requests
\* overlap: src_hash covers a complete structure imported into its version.
Contract == INSTANCE VersionContract WITH imported <- [v \in Versions |-> Imported(v)]

ImplementsContract == Contract!Spec

(* What the API documents promise.  It holds as long as no two requests    *)
(* edit one version at a time; requests that do break it.                  *)

Editing(r, v) == pc[r] # "idle" /\ op[r] \in {"prompt", "import", "finalize"} /\ target[r] = v

OneEditorPerVersion ==
    \A q, r \in Requests, v \in Versions : Editing(q, v) /\ Editing(r, v) => q = r

\* Then the snapshot of an editor is the version as it is; one that was
\* created since is not in it.
EditorsSeeTheirVersion ==
    \A r \in Requests, v \in Versions : Editing(r, v) =>
        /\ snap[r].version[v] \in {NULL, version[v]}
        /\ snap[r].structure[v] = structure[v]

\* 06_admin_update_system_prompt.md:35,46: a finalized version refuses the
\* update, so its prompt never changes.
PromptFrozen ==
    [][\A v \in Versions : Frozen(v) => version'[v].prompt = version[v].prompt]_vars

\* 07_admin_finalize_version.md:31-34: a finalized version has a question, an
\* active option for each question, and an outcome.
FinalizedIsComplete == \A v \in Versions : Frozen(v) => Complete(structure[v])

\* 07_admin_finalize_version.md:72: src_hash is the hash of the prompt and of
\* the structure the version has.
HashIsOfContent ==
    \A v \in Versions :
        Frozen(v) => version[v].src_hash = BuildSrcHash(version[v].prompt, structure[v])

\* 06_admin_update_system_prompt.md:67: the newest CREATE or PROMPT_UPDATE
\* entry of a version shows the prompt it has.
AuditShowsPrompt ==
    \A i \in DOMAIN audit :
        /\ audit[i].action \in {"CREATE", "PROMPT_UPDATE"}
        /\ \A j \in (i + 1)..Len(audit) :
              ~Logged(j, "PROMPT_UPDATE", audit[i].version)
        => audit[i].value = version[audit[i].version].prompt
=============================================================================
