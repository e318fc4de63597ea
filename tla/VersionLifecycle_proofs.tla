----------------------- MODULE VersionLifecycle_proofs ----------------------
(***************************************************************************)
(* Proofs about VersionLifecycle, for every value of its constants.        *)
(***************************************************************************)
EXTENDS VersionLifecycle, TLAPS

(* The steps of Next, with the refusals and failures taken together: they  *)
(* all answer the request and leave the tables as they are.                *)

Step(r) ==
    \/ \E o \in Ops, v \in Versions : Begin(r, o, v)
    \/ \E code \in Codes : pc[r] # "idle" /\ Refuse(r, code)
    \/ \E v \in Versions, d \in Diagnostics, n \in Names, p \in Prompt : Create(r, v, d, n, p)
    \/ \E p \in Prompt : PromptUpdate(r, p)
    \/ ImportJoin(r)
    \/ ImportLock(r)
    \/ \E sheet \in Sheets : ImportCommit(r, sheet)
    \/ FinalizeLock(r)
    \/ FinalizeCommit(r)
    \/ ActivateLock(r)
    \/ ActivateChoose(r)
    \/ ActivateCommit(r)

\* Every step of the next-state relation is one of these.
LEMMA NextIsStep == Next => \E r \in Requests : Step(r)
<1> SUFFICES ASSUME NEW r \in Requests, Arrive(r) \/ BodyRefused(r) \/ Serve(r) \/ Fail(r)
             PROVE  Step(r)
  BY DEF Next
<1>1. CASE Arrive(r)
  BY <1>1 DEF Arrive, Step
<1>2. CASE ServeCreate(r)
  BY <1>2 DEF ServeCreate, CreateRefused, CreateCollides, At, Codes, Step
<1>3. CASE ServePrompt(r)
  BY <1>3 DEF ServePrompt, PromptRefused, At, Codes, Step
<1>4. CASE ServeImport(r)
  BY <1>4 DEF ServeImport, ImportRefused, ImportInvalid, ImportDeadlock, At, Codes, Step
<1>5. CASE ServeFinalize(r)
  BY <1>5 DEF ServeFinalize, FinalizeRefused, At, Codes, Step
<1>6. CASE ServeActivate(r)
  BY <1>6 DEF ServeActivate, ActivateRefused, ActivateDeadlock, At, Codes, Step
<1>7. CASE Detail(r)
  BY <1>7 DEF Detail, At, Codes, Step
<1>8. CASE Fail(r)
  BY <1>8 DEF Fail, Codes, Step
<1>9. CASE BodyRefused(r)
  BY <1>9 DEF BodyRefused, At, Codes, Step
<1> QED
  BY <1>1, <1>2, <1>3, <1>4, <1>5, <1>6, <1>7, <1>8, <1>9 DEF Serve

-----------------------------------------------------------------------------
(* Type correctness.                                                       *)

\* Answering a request keeps the request variables in their types.
LEMMA AnswerType ==
    ASSUME TypeOK, NEW r \in Requests, NEW code \in Codes, Answer(r, code)
    PROVE  /\ pc' \in [Requests -> {"idle", "begun", "joining", "locked", "chosen"}]
           /\ op' \in [Requests -> Ops \cup {"none"}]
           /\ target' \in [Requests -> Versions \cup {NULL}]
           /\ snap' \in [Requests -> Snapshot]
           /\ previous' \in [Requests -> Versions \cup {NULL}]
           /\ answer' \in [Requests -> Codes]
<1>1. NoSnapshot \in Snapshot
  BY DEF NoSnapshot, Snapshot, EmptyStructure, Structure
<1> QED
  BY <1>1 DEF TypeOK, Answer

\* An entry of the right type keeps the audit log in its type.
LEMMA LogType ==
    ASSUME TypeOK, NEW v \in Versions,
           NEW action \in {"CREATE", "PROMPT_UPDATE", "IMPORT", "FINALIZE", "ACTIVATE"},
           NEW value \in Prompt \cup Structure \cup SrcHash \cup Versions,
           Log(action, v, value)
    PROVE  audit' \in Seq(LogEntry)
<1>1. [action |-> action, version |-> v, value |-> value] \in LogEntry
  BY DEF LogEntry
<1> QED
  BY <1>1 DEF TypeOK, Log

\* Every step keeps the types: a row it changes is there, because the request
\* saw it in its snapshot or holds its lock.
LEMMA TypeStep ==
    ASSUME TypeOK, RequestInv, SnapshotInv, NEW r \in Requests, Step(r)
    PROVE  TypeOK'
<1>1. CASE \E o \in Ops, v \in Versions : Begin(r, o, v)
  <2> PICK o \in Ops, v \in Versions : Begin(r, o, v)
    BY <1>1
  <2>1. [version |-> version, structure |-> structure] \in Snapshot
    BY DEF TypeOK, Snapshot
  <2> QED
    BY <2>1 DEF TypeOK, Begin, tables, Codes
<1>2. CASE \E code \in Codes : pc[r] # "idle" /\ Refuse(r, code)
  BY <1>2, AnswerType DEF Refuse, tables, TypeOK
<1>3. CASE \E v \in Versions, d \in Diagnostics, n \in Names, p \in Prompt : Create(r, v, d, n, p)
  <2> PICK v \in Versions, d \in Diagnostics, n \in Names, p \in Prompt : Create(r, v, d, n, p)
    BY <1>3
  <2>1. [diagnostic |-> d, name |-> n, prompt |-> p, src_hash |-> NULL] \in VersionRow
    BY DEF VersionRow
  <2>2. version' \in [Versions -> VersionRow \cup {NULL}]
    BY <2>1 DEF TypeOK, Create
  <2>3. audit' \in Seq(LogEntry)
    BY LogType DEF Create
  <2>4. Answer(r, "ok") /\ UNCHANGED <<structure, active>>
    BY DEF Create
  <2> QED
    BY <2>2, <2>3, <2>4, AnswerType DEF TypeOK, Codes
<1>4. CASE \E p \in Prompt : PromptUpdate(r, p)
  <2> PICK p \in Prompt : PromptUpdate(r, p)
    BY <1>4
  <2>0. target[r] \in Versions
    BY DEF PromptUpdate, At, RequestInv
  <2>1. version[target[r]] \in VersionRow
    BY <2>0 DEF PromptUpdate, SnapshotInv, Exists, TypeOK
  <2>2. version' \in [Versions -> VersionRow \cup {NULL}]
    BY <2>0, <2>1 DEF TypeOK, PromptUpdate, VersionRow
  <2>3. audit' \in Seq(LogEntry)
    BY <2>0, LogType DEF PromptUpdate
  <2>4. Answer(r, "ok") /\ UNCHANGED <<structure, active>>
    BY DEF PromptUpdate
  <2> QED
    BY <2>2, <2>3, <2>4, AnswerType DEF TypeOK, Codes
<1>5. CASE ImportJoin(r) \/ ImportLock(r) \/ FinalizeLock(r) \/ ActivateLock(r)
  BY <1>5 DEF ImportJoin, ImportLock, FinalizeLock, ActivateLock, GoTo, tables, TypeOK
<1>6. CASE \E sheet \in Sheets : ImportCommit(r, sheet)
  <2> PICK sheet \in Sheets : ImportCommit(r, sheet)
    BY <1>6
  <2>0. target[r] \in Versions /\ sheet \in Structure
    BY SheetsAreStructures DEF ImportCommit, At, RequestInv
  <2>2. structure' \in [Versions -> Structure]
    BY <2>0 DEF TypeOK, ImportCommit
  <2>3. audit' \in Seq(LogEntry)
    BY <2>0, LogType DEF ImportCommit
  <2>4. Answer(r, "ok") /\ UNCHANGED <<version, active>>
    BY DEF ImportCommit
  <2> QED
    BY <2>2, <2>3, <2>4, AnswerType DEF TypeOK, Codes
<1>7. CASE FinalizeCommit(r)
  <2> DEFINE v    == target[r]
             hash == BuildSrcHash(version[v].prompt, snap[r].structure[v])
  <2>0. v \in Versions /\ version[v] \in VersionRow
    BY <1>7 DEF FinalizeCommit, At, RequestInv, Exists, TypeOK
  <2>1. hash \in SrcHash
    BY <2>0 DEF BuildSrcHash, SrcHash, VersionRow, TypeOK, Snapshot
  <2>2. version' \in [Versions -> VersionRow \cup {NULL}]
    BY <1>7, <2>0, <2>1 DEF FinalizeCommit, TypeOK, VersionRow
  <2>3. audit' \in Seq(LogEntry)
    BY <1>7, <2>0, <2>1, LogType DEF FinalizeCommit
  <2>4. Answer(r, "ok") /\ UNCHANGED <<structure, active>>
    BY <1>7 DEF FinalizeCommit
  <2> QED
    BY <2>2, <2>3, <2>4, AnswerType DEF TypeOK, Codes
<1>8. CASE ActivateChoose(r)
  <2>1. version[target[r]].diagnostic \in Diagnostics
    BY <1>8 DEF ActivateChoose, At, RequestInv, Frozen, Exists, TypeOK, VersionRow
  <2> QED
    BY <1>8, <2>1 DEF ActivateChoose, tables, TypeOK
<1>9. CASE ActivateCommit(r)
  <2> DEFINE v == target[r]
  <2>0. v \in Versions /\ previous[r] \in Prompt \cup Versions
    BY <1>9 DEF ActivateCommit, At, RequestInv, TypeOK, Prompt
  <2>2. active' \in [Diagnostics -> Versions \cup {NULL}]
    BY <1>9, <2>0 DEF ActivateCommit, TypeOK
  <2>3. audit' \in Seq(LogEntry)
    BY <1>9, <2>0, LogType DEF ActivateCommit
  <2>4. Answer(r, "ok") /\ UNCHANGED <<version, structure>>
    BY <1>9 DEF ActivateCommit
  <2> QED
    BY <2>2, <2>3, <2>4, AnswerType DEF TypeOK, Codes
<1> QED
  BY <1>1, <1>2, <1>3, <1>4, <1>5, <1>6, <1>7, <1>8, <1>9 DEF Step

-----------------------------------------------------------------------------
(* What one step does to the tables and to the other requests.             *)

\* Only finalize under its lock freezes a version, over a complete structure;
\* no step unfreezes one, changes its src_hash or touches its structure.
LEMMA TableStep ==
    ASSUME IInv, NEW r \in Requests, Step(r), NEW v \in Versions
    PROVE  /\ Exists(v) => Exists(v)' /\ version'[v].diagnostic = version[v].diagnostic
           /\ Frozen(v) => /\ Frozen(v)'
                           /\ version'[v].src_hash = version[v].src_hash
                           /\ structure'[v] = structure[v]
           /\ Frozen(v)' /\ ~Frozen(v) =>
                  /\ At(r, "locked", "finalize")
                  /\ target[r] = v
                  /\ Complete(version'[v].src_hash.structure)
<1> USE DEF IInv, Exists, Frozen
<1>0. version \in [Versions -> VersionRow \cup {NULL}] /\ NULL \notin VersionRow
  BY NullIsNoRecord DEF TypeOK
<1>1. CASE UNCHANGED <<version, structure>>
  BY <1>1
<1>2. CASE \E w \in Versions, d \in Diagnostics, n \in Names, p \in Prompt : Create(r, w, d, n, p)
  BY <1>0, <1>2 DEF Create
<1>3. CASE \E p \in Prompt : PromptUpdate(r, p)
  <2> PICK p \in Prompt : PromptUpdate(r, p)
    BY <1>3
  <2>1. version[target[r]] \in VersionRow
    BY <1>0 DEF PromptUpdate, SnapshotInv, RequestInv, At
  <2>2. [version[target[r]] EXCEPT !.prompt = p] \in VersionRow
    BY <2>1 DEF VersionRow
  <2> QED
    BY <1>0, <2>1, <2>2 DEF PromptUpdate, VersionRow
<1>4. CASE \E sheet \in Sheets : ImportCommit(r, sheet)
  BY <1>4 DEF ImportCommit, At, RequestInv, TypeOK
<1>5. CASE FinalizeCommit(r)
  <2> DEFINE w    == target[r]
             hash == BuildSrcHash(version[w].prompt, snap[r].structure[w])
  <2>1. w \in Versions /\ version[w] \in VersionRow /\ ~Frozen(w)
    BY <1>0, <1>5 DEF FinalizeCommit, At, RequestInv
  <2>2. [version[w] EXCEPT !.src_hash = hash] \in [diagnostic : Diagnostics, name : Names,
            prompt : Prompt, src_hash : {hash}]
    BY <2>1 DEF VersionRow
  <2>3. version' = [version EXCEPT ![w].src_hash = hash] /\ structure' = structure
    BY <1>5 DEF FinalizeCommit
  <2>4. version'[w].src_hash = hash /\ version'[w].diagnostic = version[w].diagnostic
    BY <1>0, <2>1, <2>3 DEF VersionRow
  <2>5. hash.structure = snap[r].structure[w] /\ Complete(snap[r].structure[w])
    BY <1>5 DEF FinalizeCommit, At, RequestInv, BuildSrcHash
  <2>6. hash \in SrcHash /\ version'[w] \in VersionRow
    <3>1. version[w].prompt \in Prompt /\ snap[r].structure[w] \in Structure
      BY <2>1 DEF VersionRow, TypeOK, Snapshot
    <3>2. hash \in SrcHash
      BY <3>1 DEF BuildSrcHash, SrcHash
    <3>3. version'[w] = [version[w] EXCEPT !.src_hash = hash]
      BY <1>0, <2>1, <2>3
    <3> QED
      BY <2>2, <3>2, <3>3 DEF VersionRow
  <2>7. CASE v = w
    BY <1>0, <1>5, <2>1, <2>4, <2>5, <2>6, <2>7, NullIsNoRecord DEF FinalizeCommit
  <2>8. CASE v # w
    BY <1>0, <2>1, <2>3, <2>8
  <2> QED
    BY <2>7, <2>8
<1>6. CASE UNCHANGED tables
  BY <1>6, <1>1 DEF tables
<1> QED
  BY <1>1, <1>2, <1>3, <1>4, <1>5, <1>6
     DEF Step, Begin, Refuse, ImportJoin, ImportLock, FinalizeLock, ActivateLock, GoTo,
         ActivateChoose, ActivateCommit

\* A step of one request leaves the others where they are.
LEMMA OthersStep ==
    ASSUME TypeOK, NEW r \in Requests, Step(r), NEW q \in Requests \ {r}
    PROVE  /\ pc'[q] = pc[q] /\ op'[q] = op[q] /\ target'[q] = target[q]
           /\ snap'[q] = snap[q] /\ previous'[q] = previous[q]
BY DEF TypeOK, Step, Begin, Refuse, Answer, Create, PromptUpdate, ImportJoin, ImportLock,
       ImportCommit, FinalizeLock, FinalizeCommit, ActivateLock, ActivateChoose,
       ActivateCommit, GoTo

\* Where the request that takes the step is afterwards: answered, at its
\* first read, at a row lock that was free, or further on under its lock.
LEMMA OwnStep ==
    ASSUME IInv, NEW r \in Requests, Step(r)
    PROVE  \/ pc'[r] = "idle"
           \/ /\ pc'[r] = "begun" /\ target'[r] \in Versions /\ op'[r] \in Ops
           \/ /\ UNCHANGED <<tables, op, target, snap>>
              /\ pc[r] = "begun" /\ pc'[r] = "joining"
              /\ VersionFree(target[r]) /\ Exists(target[r]) /\ op[r] = "import"
           \/ /\ UNCHANGED <<tables, op, target, snap>>
              /\ pc[r] = "joining" /\ pc'[r] = "locked"
              /\ Exists(target[r]) /\ op[r] = "import" /\ ~Frozen(target[r])
           \/ /\ UNCHANGED <<tables, op, target, snap>>
              /\ pc[r] = "begun" /\ pc'[r] = "locked"
              /\ VersionFree(target[r]) /\ Exists(target[r])
              /\ \/ /\ op[r] = "finalize" /\ ~Frozen(target[r])
                    /\ Complete(snap[r].structure[target[r]])
                 \/ op[r] = "activate" /\ Frozen(target[r])
           \/ /\ UNCHANGED <<tables, op, target, snap>>
              /\ pc[r] = "locked" /\ pc'[r] = "chosen" /\ op[r] = "activate"
              /\ Frozen(target[r])
<1> USE DEF IInv, TypeOK
<1>1. CASE \E o \in Ops, v \in Versions : Begin(r, o, v)
  BY <1>1 DEF Begin
<1>2. CASE \E code \in Codes : Answer(r, code)
  BY <1>2 DEF Answer
<1>3. CASE ImportJoin(r) \/ ImportLock(r) \/ FinalizeLock(r) \/ ActivateLock(r)
  BY <1>3 DEF ImportJoin, ImportLock, FinalizeLock, ActivateLock, GoTo, At, Frozen, Exists,
              RequestInv
<1>4. CASE ActivateChoose(r)
  BY <1>4 DEF ActivateChoose, At, RequestInv
<1> QED
  BY <1>1, <1>2, <1>3, <1>4
     DEF Step, Refuse, Create, PromptUpdate, ImportCommit, FinalizeCommit,
         ActivateCommit, Codes

-----------------------------------------------------------------------------
(* The inductive invariant, conjunct by conjunct.                          *)

\* A request reaches a row lock only when no other one holds it.
LEMMA LockStep ==
    ASSUME IInv, NEW r \in Requests, Step(r)
    PROVE  LockInv'
<1> SUFFICES ASSUME NEW p \in Requests, NEW q \in Requests, p # q, NEW v \in Versions,
                    HoldsVersion(p, v)', HoldsVersion(q, v)'
             PROVE  FALSE
  BY DEF LockInv
<1>1. ASSUME NEW k \in Requests, k # r, HoldsVersion(k, v)'
      PROVE  HoldsVersion(k, v)
  BY <1>1, OthersStep DEF IInv, HoldsVersion
<1>2. ASSUME NEW k \in Requests, k # r, HoldsVersion(k, v), HoldsVersion(r, v)'
      PROVE  FALSE
  <2>1. HoldsVersion(r, v) \/ (VersionFree(target[r]) /\ target[r] = v)
    BY <1>2, OwnStep DEF HoldsVersion
  <2> QED
    BY <1>2, <2>1 DEF IInv, LockInv, VersionFree
<1>3. CASE p = r
  BY <1>1, <1>2, <1>3
<1>4. CASE q = r
  BY <1>1, <1>2, <1>4
<1>5. CASE p # r /\ q # r
  BY <1>1, <1>5 DEF IInv, LockInv
<1> QED
  BY <1>3, <1>4, <1>5

\* A request at a lock keeps what it established there: a step of another
\* request that would undo it needs the same lock.
LEMMA RequestStep ==
    ASSUME IInv, NEW r \in Requests, Step(r)
    PROVE  RequestInv'
<1> DEFINE Inv(q) ==
        /\ pc[q] # "idle" => target[q] \in Versions /\ op[q] \in Ops
        /\ pc[q] = "locked" => op[q] \in {"import", "finalize", "activate"}
        /\ pc[q] = "joining" => op[q] = "import" /\ Exists(target[q])
        /\ pc[q] = "chosen" => op[q] = "activate"
        /\ pc[q] = "locked" /\ op[q] \in {"import", "finalize"} =>
               Exists(target[q]) /\ ~Frozen(target[q])
        /\ At(q, "locked", "finalize") => Complete(snap[q].structure[target[q]])
        /\ pc[q] \in {"locked", "chosen"} /\ op[q] = "activate" => Frozen(target[q])
<1>1. \A q \in Requests : Inv(q)
  BY DEF IInv, RequestInv
<1>2. ASSUME NEW q \in Requests \ {r}
      PROVE  Inv(q)'
  <2>1. /\ pc'[q] = pc[q] /\ op'[q] = op[q] /\ target'[q] = target[q]
        /\ snap'[q] = snap[q]
    BY OthersStep DEF IInv
  <2>2. CASE pc[q] \in {"joining", "locked", "chosen"}
    <3>1. target[q] \in Versions
      BY <1>1, <2>2
    <3>2. Exists(target[q]) => Exists(target[q])'
      BY <2>1, <3>1, TableStep DEF Exists
    <3>3. Frozen(target[q]) => Frozen(target[q])'
      BY <2>1, <3>1, TableStep DEF Frozen, Exists
    <3>4. Frozen(target[q])' => Frozen(target[q])
      BY <2>1, <2>2, <3>1, TableStep DEF Frozen, Exists, IInv, LockInv, HoldsVersion, At
    <3> QED
      BY <1>1, <2>1, <3>1, <3>2, <3>3, <3>4 DEF At
  <2>3. CASE pc[q] \notin {"joining", "locked", "chosen"}
    BY <1>1, <2>1, <2>3 DEF At
  <2> QED
    BY <2>2, <2>3
<1>3. Inv(r)'
  <2>1. CASE UNCHANGED <<tables, op, target, snap>>
    BY <1>1, <2>1, OwnStep DEF At, Frozen, Exists, tables, Ops, Writes
  <2>2. CASE pc'[r] \in {"idle", "begun"}
    BY <2>2, OwnStep DEF At
  <2> QED
    BY <2>1, <2>2, OwnStep
<1> QED
  BY <1>2, <1>3 DEF RequestInv

\* A version that becomes frozen does so over the complete structure that
\* finalize checked; one that was keeps its hash.
LEMMA HashStep ==
    ASSUME IInv, NEW r \in Requests, Step(r)
    PROVE  HashInv'
BY TableStep DEF IInv, HashInv

\* Only activate writes the active version, and it holds the lock of a frozen
\* one; a frozen version stays frozen and in its diagnostic.
LEMMA ActiveStep ==
    ASSUME IInv, NEW r \in Requests, Step(r)
    PROVE  ActiveIsFinalized'
<1> SUFFICES ASSUME NEW d \in Diagnostics, active'[d] # NULL
             PROVE  /\ Frozen(active[d])'
                    /\ version'[active'[d]].diagnostic = d
                    /\ Complete(version'[active'[d]].src_hash.structure)
  BY DEF ActiveIsFinalized
<1>1. CASE active' = active
  <2>1. active[d] \in Versions /\ Frozen(active[d])
    BY <1>1 DEF IInv, ActiveIsFinalized, TypeOK
  <2>2. Frozen(active[d])'
    BY <1>1, <2>1, TableStep DEF Frozen, Exists
  <2> QED
    BY <1>1, <2>1, <2>2, TableStep DEF IInv, ActiveIsFinalized, Frozen
<1>2. CASE ActivateCommit(r)
  <2>1. /\ target[r] \in Versions /\ Frozen(target[r])
        /\ active' = [active EXCEPT ![version[target[r]].diagnostic] = target[r]]
        /\ version' = version
    BY <1>2 DEF ActivateCommit, At, IInv, RequestInv
  <2>2. CASE d = version[target[r]].diagnostic
    BY <2>1, <2>2 DEF IInv, HashInv, Frozen, Exists, TypeOK
  <2>3. CASE d # version[target[r]].diagnostic
    BY <2>1, <2>3 DEF IInv, ActiveIsFinalized, Frozen, Exists, TypeOK
  <2> QED
    BY <2>2, <2>3
<1> QED
  BY <1>1, <1>2
     DEF Step, Begin, Refuse, Create, PromptUpdate, ImportJoin, ImportLock, ImportCommit,
         FinalizeLock, FinalizeCommit, ActivateLock, ActivateChoose, GoTo, tables

-----------------------------------------------------------------------------
(* The imported structures, read off the audit log.                        *)

\* An audit entry adds its value to the imported structures of its version
\* when it is an IMPORT, and none otherwise.
LEMMA LogImported ==
    ASSUME TypeOK, NEW w \in Versions, NEW action, NEW value, Log(action, w, value),
           NEW v \in Versions
    PROVE  Imported(v)' = IF action = "IMPORT" /\ v = w THEN Imported(v) \cup {value}
                          ELSE Imported(v)
<1> DEFINE e == [action |-> action, version |-> w, value |-> value]
           n == Len(audit) + 1
<1>1. audit' = Append(audit, e) /\ audit \in Seq(LogEntry) /\ Len(audit) \in Nat
  BY DEF Log, TypeOK
<1>2. /\ DOMAIN audit = 1..Len(audit)
      /\ DOMAIN audit' = 1..n
      /\ \A i \in 1..Len(audit) : audit'[i] = audit[i]
      /\ audit'[n] = e
  BY <1>1
<1>3. \A x : x \in Imported(v) <=> \E i \in 1..Len(audit) :
                  audit[i].action = "IMPORT" /\ audit[i].version = v /\ x = audit[i].value
  BY <1>2 DEF Imported, Logged
<1>4. \A x : x \in Imported(v)' <=> \E i \in 1..n :
                  audit'[i].action = "IMPORT" /\ audit'[i].version = v /\ x = audit'[i].value
  BY <1>2 DEF Imported, Logged
<1>5. \A x : x \in Imported(v)' <=>
               x \in Imported(v) \/ (action = "IMPORT" /\ v = w /\ x = value)
  <2>1. 1..n = 1..Len(audit) \cup {n}
    BY <1>1
  <2>2. e.action = action /\ e.version = w /\ e.value = value
    OBVIOUS
  <2> QED
    BY <1>2, <1>3, <1>4, <2>1, <2>2
<1> QED
  BY <1>5

\* What a step does to the stored structure and to the imported ones: nothing,
\* unless it commits an import into the version, which adds the same to both.
LEMMA ImportedStep ==
    ASSUME IInv, NEW r \in Requests, Step(r), NEW v \in Versions
    PROVE  \/ structure'[v] = structure[v] /\ Imported(v)' = Imported(v)
           \/ /\ Imported(v)' = Imported(v) \cup {structure'[v]}
              /\ \E sheet \in Sheets : ImportCommit(r, sheet)
<1> USE DEF IInv
<1>1. CASE UNCHANGED <<structure, audit>>
  BY <1>1 DEF Imported, Logged
<1>2. CASE \E w \in Versions, d \in Diagnostics, n \in Names, p \in Prompt : Create(r, w, d, n, p)
  BY <1>2, LogImported DEF Create
<1>3. CASE \E p \in Prompt : PromptUpdate(r, p)
  BY <1>3, LogImported DEF PromptUpdate, At, RequestInv
<1>4. CASE \E sheet \in Sheets : ImportCommit(r, sheet)
  <2> PICK sheet \in Sheets : ImportCommit(r, sheet)
    BY <1>4
  <2>1. /\ target[r] \in Versions
        /\ Log("IMPORT", target[r], sheet)
        /\ structure' = [structure EXCEPT ![target[r]] = sheet]
    BY DEF ImportCommit, At, RequestInv
  <2>2. CASE v = target[r]
    BY <1>4, <2>1, <2>2, LogImported DEF TypeOK
  <2>3. CASE v # target[r]
    BY <2>1, <2>3, LogImported DEF TypeOK
  <2> QED
    BY <2>2, <2>3
<1>5. CASE FinalizeCommit(r)
  BY <1>5, LogImported DEF FinalizeCommit, At, RequestInv
<1>6. CASE ActivateCommit(r)
  BY <1>6, LogImported DEF ActivateCommit, At, RequestInv
<1> QED
  BY <1>1, <1>2, <1>3, <1>4, <1>5, <1>6
     DEF Step, Begin, Refuse, ImportJoin, ImportLock, FinalizeLock, ActivateLock, GoTo,
         ActivateChoose, tables

\* A new snapshot is the tables themselves, and what the tables hold stays
\* among what was imported.
LEMMA SnapshotStep ==
    ASSUME IInv, NEW r \in Requests, Step(r)
    PROVE  SnapshotInv'
<1> SUFFICES ASSUME NEW v \in Versions
             PROVE  /\ structure'[v] \in Imported(v)' \cup {EmptyStructure}
                    /\ \A q \in Requests :
                          /\ snap'[q].structure[v] \in Imported(v)' \cup {EmptyStructure}
                          /\ snap'[q].version[v] # NULL => Exists(v)'
  BY DEF SnapshotInv
<1>1. Imported(v) \subseteq Imported(v)' /\ structure'[v] \in Imported(v)' \cup {EmptyStructure}
  BY ImportedStep DEF IInv, SnapshotInv
<1>2. Exists(v) => Exists(v)'
  BY TableStep
<1>3. ASSUME NEW q \in Requests
      PROVE  \/ snap'[q] = snap[q]
             \/ snap'[q] = NoSnapshot
             \/ snap'[q] = [version |-> version, structure |-> structure]
  <2>1. CASE q # r
    BY <2>1, OthersStep DEF IInv
  <2>2. CASE q = r
    BY <2>2 DEF IInv, TypeOK, Step, Begin, Refuse, Answer, Create, PromptUpdate, ImportJoin, ImportLock,
                ImportCommit, FinalizeLock, FinalizeCommit, ActivateLock, ActivateChoose,
                ActivateCommit, GoTo
  <2> QED
    BY <2>1, <2>2
<1>4. \A q \in Requests :
          /\ snap'[q].structure[v] \in Imported(v) \cup {EmptyStructure}
          /\ snap'[q].version[v] # NULL => Exists(v)
  BY <1>3 DEF IInv, SnapshotInv, NoSnapshot, Exists
<1> QED
  BY <1>1, <1>2, <1>4

-----------------------------------------------------------------------------
(* The entry a commit appends to the audit log.                            *)

\* An entry of the log names a version.
LEMMA EntryVersion ==
    ASSUME TypeOK, NEW i \in DOMAIN audit
    PROVE  audit[i].version \in Versions
<1>1. audit \in Seq(LogEntry) /\ i \in 1..Len(audit)
  BY DEF TypeOK
<1>2. audit[i] \in LogEntry
  BY <1>1
<1> QED
  BY <1>2 DEF LogEntry

\* The log grows by one entry and keeps the others.
Appended(action, v, value) ==
    /\ Len(audit) \in Nat /\ Len(audit') = Len(audit) + 1
    /\ DOMAIN audit = 1..Len(audit)
    /\ DOMAIN audit' = 1..(Len(audit) + 1)
    /\ \A i \in DOMAIN audit : audit'[i] = audit[i]
    /\ audit'[Len(audit) + 1].action = action
    /\ audit'[Len(audit) + 1].version = v
    /\ audit'[Len(audit) + 1].value = value

\* Log appends the entry it is given.
LEMMA LogAppends ==
    ASSUME TypeOK, NEW action, NEW v, NEW value, Log(action, v, value)
    PROVE  Appended(action, v, value)
<1> DEFINE e == [action |-> action, version |-> v, value |-> value]
<1>1. audit' = Append(audit, e) /\ audit \in Seq(LogEntry) /\ Len(audit) \in Nat
  BY DEF Log, TypeOK
<1>2. /\ Len(audit') = Len(audit) + 1
      /\ DOMAIN audit = 1..Len(audit)
      /\ DOMAIN audit' = 1..(Len(audit) + 1)
      /\ \A i \in DOMAIN audit : audit'[i] = audit[i]
      /\ audit'[Len(audit) + 1] = e
  BY <1>1
<1> QED
  BY <1>1, <1>2 DEF Appended

\* What request r did to the tables when it logged that it took the action
\* on v.
Committed(r, action, v, value) ==
    /\ pc'[r] = "idle"
    /\ v \in Versions
    /\ Exists(v) <=> action # "CREATE"
    /\ Exists(v)'
    /\ action \in {"IMPORT", "FINALIZE"} => ~Frozen(v)
    /\ action = "FINALIZE" => Frozen(v)' /\ value = version'[v].src_hash
    /\ action # "FINALIZE" => \A w \in Versions : Frozen(w)' => Frozen(w)
    /\ \A w \in Versions \ {v} : version'[w] = version[w]
    /\ action = "ACTIVATE" =>
          /\ Frozen(v)
          /\ version[v].diagnostic \in Diagnostics
          /\ HoldsActive(r, version[v].diagnostic)
          /\ active' = [active EXCEPT ![version[v].diagnostic] = v]
          /\ value = previous[r]
    /\ action # "ACTIVATE" => active' = active
    /\ action = "CREATE" => version'[v].prompt = value
    /\ action = "PROMPT_UPDATE" =>
          \/ version'[v].prompt = value
          \/ /\ Editing(r, v) /\ snap[r].version[v] # NULL
             /\ snap[r].version[v].prompt = value
             /\ version'[v] = version[v]
    /\ action \in {"IMPORT", "FINALIZE", "ACTIVATE"} => version'[v].prompt = version[v].prompt
    /\ action \in {"CREATE", "PROMPT_UPDATE", "IMPORT", "FINALIZE", "ACTIVATE"}

\* A step leaves the versions, the active rows and the log alone, or commits
\* and appends the one entry that says what it did to them.
LEMMA CommitStep ==
    ASSUME IInv, NEW r \in Requests, Step(r)
    PROVE  \/ UNCHANGED <<version, active, audit>>
           \/ \E action, v, value :
                 Appended(action, v, value) /\ Committed(r, action, v, value)
<1> USE DEF IInv
<1>0. /\ version \in [Versions -> VersionRow \cup {NULL}] /\ NULL \notin VersionRow
      /\ pc \in [Requests -> {"idle", "begun", "joining", "locked", "chosen"}]
  BY NullIsNoRecord DEF TypeOK
<1>1. CASE \E v \in Versions, d \in Diagnostics, n \in Names, p \in Prompt : Create(r, v, d, n, p)
  <2> PICK v \in Versions, d \in Diagnostics, n \in Names, p \in Prompt : Create(r, v, d, n, p)
    BY <1>1
  <2> DEFINE row == [diagnostic |-> d, name |-> n, prompt |-> p, src_hash |-> NULL]
  <2>1. Appended("CREATE", v, p)
    BY LogAppends DEF Create
  <2>2. ~Exists(v) /\ version' = [version EXCEPT ![v] = row] /\ active' = active /\ pc'[r] = "idle"
    BY <1>0 DEF Create, Answer
  <2>3. row \in VersionRow
    BY DEF VersionRow
  <2>4. \A w \in Versions : Frozen(w)' => Frozen(w)
    BY <1>1, TableStep DEF Create, At
  <2>5. Exists(v)' /\ \A w \in Versions \ {v} : version'[w] = version[w]
    BY <1>0, <2>2, <2>3 DEF Exists
  <2>6. version'[v].prompt = p
    BY <1>0, <2>2
  <2> QED
    BY <2>1, <2>2, <2>4, <2>5, <2>6 DEF Committed
<1>2. CASE \E p \in Prompt : PromptUpdate(r, p)
  <2> PICK p \in Prompt : PromptUpdate(r, p)
    BY <1>2
  <2> PICK v \in Versions : v = target[r]
    BY DEF PromptUpdate, RequestInv, At
  <2>1. Exists(v) /\ version[v] \in VersionRow
    BY <1>0 DEF PromptUpdate, SnapshotInv, Exists
  <2>2. Appended("PROMPT_UPDATE", v, p)
    BY LogAppends DEF PromptUpdate
  <2>3. active' = active /\ pc'[r] = "idle"
    BY <1>0 DEF PromptUpdate, Answer
  <2>4. \A w \in Versions \ {v} : version'[w] = version[w]
    BY <1>0 DEF PromptUpdate
  <2>5. \A w \in Versions : Frozen(w)' => Frozen(w)
    BY <1>2, TableStep DEF PromptUpdate, At
  <2>6. Exists(v)'
    BY <2>1, TableStep
  <2>7. \/ version'[v].prompt = p
        \/ /\ Editing(r, v) /\ snap[r].version[v] # NULL
           /\ snap[r].version[v].prompt = p
           /\ version'[v] = version[v]
    BY <1>0, <2>1 DEF PromptUpdate, Editing, At, VersionRow
  <2> QED
    BY <2>1, <2>2, <2>3, <2>4, <2>5, <2>6, <2>7 DEF Committed
<1>3. CASE \E sheet \in Sheets : ImportCommit(r, sheet)
  <2> PICK sheet \in Sheets : ImportCommit(r, sheet)
    BY <1>3
  <2>1. Appended("IMPORT", target[r], sheet)
    BY LogAppends DEF ImportCommit
  <2>2. target[r] \in Versions /\ Exists(target[r]) /\ ~Frozen(target[r])
    BY DEF ImportCommit, At, RequestInv
  <2>3. version' = version /\ active' = active /\ pc'[r] = "idle"
    BY <1>0 DEF ImportCommit, Answer
  <2> QED
    BY <2>1, <2>2, <2>3 DEF Committed, Exists, Frozen
<1>4. CASE FinalizeCommit(r)
  <2> PICK v \in Versions : v = target[r]
    BY <1>4 DEF FinalizeCommit, RequestInv, At
  <2> DEFINE hash == BuildSrcHash(version[v].prompt, snap[r].structure[v])
  <2>1. Exists(v) /\ ~Frozen(v) /\ version[v] \in VersionRow
    BY <1>0, <1>4 DEF FinalizeCommit, At, RequestInv, Exists
  <2>2. Appended("FINALIZE", v, hash)
    BY <1>4, LogAppends DEF FinalizeCommit
  <2>3. version' = [version EXCEPT ![v].src_hash = hash] /\ active' = active /\ pc'[r] = "idle"
    BY <1>0, <1>4 DEF FinalizeCommit, Answer
  <2>4. version'[v].src_hash = hash
    BY <1>0, <2>1, <2>3 DEF VersionRow
  <2>5. hash # NULL
    <3>1. hash \in SrcHash
      BY <2>1 DEF BuildSrcHash, SrcHash, VersionRow, TypeOK, Snapshot
    <3> QED
      BY <3>1, NullIsNoRecord
  <2>6. Exists(v)'
    BY <2>1, TableStep
  <2>7. \A w \in Versions \ {v} : version'[w] = version[w]
    BY <1>0, <2>3
  <2>8. Frozen(v)'
    BY <2>4, <2>5, <2>6 DEF Frozen, Exists
  <2>9. version'[v].prompt = version[v].prompt
    BY <1>0, <2>1, <2>3 DEF VersionRow
  <2> QED
    BY <2>1, <2>2, <2>3, <2>4, <2>6, <2>7, <2>8, <2>9 DEF Committed
<1>5. CASE ActivateCommit(r)
  <2> DEFINE v == target[r]
             d == version[v].diagnostic
  <2>1. v \in Versions /\ Frozen(v) /\ Exists(v) /\ d \in Diagnostics
    BY <1>0, <1>5 DEF ActivateCommit, At, RequestInv, Frozen, Exists, VersionRow
  <2>2. Appended("ACTIVATE", v, previous[r])
    BY <1>5, LogAppends DEF ActivateCommit
  <2>3. /\ version' = version /\ pc'[r] = "idle"
        /\ active' = [active EXCEPT ![d] = v]
        /\ HoldsActive(r, d)
    BY <1>0, <1>5 DEF ActivateCommit, Answer, At, HoldsActive
  <2> QED
    BY <2>1, <2>2, <2>3 DEF Committed, Exists, Frozen
<1> QED
  BY <1>1, <1>2, <1>3, <1>4, <1>5
     DEF Step, Begin, Refuse, ImportJoin, ImportLock, FinalizeLock, ActivateLock, GoTo,
         ActivateChoose, tables

\* What the log says of a version, the tables still say after the next step.
LEMMA LogStep ==
    ASSUME IInv, NEW r \in Requests, Step(r)
    PROVE  LogInv'
<1> SUFFICES ASSUME NEW i \in DOMAIN audit'
             PROVE  /\ Exists(audit[i].version)'
                    /\ audit'[i].action = "ACTIVATE" => Frozen(audit[i].version)'
  BY DEF LogInv
<1>1. CASE i \in DOMAIN audit /\ audit'[i] = audit[i]
  <2>1. /\ audit[i].version \in Versions /\ Exists(audit[i].version)
        /\ audit[i].action = "ACTIVATE" => Frozen(audit[i].version)
    BY <1>1, EntryVersion DEF IInv, LogInv
  <2> QED
    BY <1>1, <2>1, TableStep DEF Exists, Frozen
<1>2. ASSUME NEW action, NEW v, NEW value,
             Appended(action, v, value), Committed(r, action, v, value)
      PROVE  \/ i \in DOMAIN audit /\ audit'[i] = audit[i]
             \/ /\ Exists(audit[i].version)'
                /\ audit'[i].action = "ACTIVATE" => Frozen(audit[i].version)'
  <2>1. CASE i = Len(audit) + 1
    <3>1. audit'[i].action = action /\ audit'[i].version = v
      BY <1>2, <2>1 DEF Appended
    <3>2. v \in Versions /\ Exists(v)' /\ (action = "ACTIVATE" => Frozen(v))
      BY <1>2 DEF Committed
    <3>3. action = "ACTIVATE" => Frozen(v)'
      BY <3>2, TableStep
    <3> QED
      BY <3>1, <3>2, <3>3 DEF Exists, Frozen
  <2>2. CASE i # Len(audit) + 1
    BY <1>2, <2>2 DEF Appended
  <2> QED
    BY <2>1, <2>2
<1> QED
  BY <1>1, <1>2, CommitStep

\* A missing row is in its own gap.
LEMMA OwnGap ==
    ASSUME NEW d \in Diagnostics, active[d] = NULL
    PROVE  SameGap(d, d)
<1>1. \A f \in Nat : ~(d < f /\ f < d)
  BY DiagnosticsAreKeys
<1> QED
  BY <1>1, DiagnosticsAreKeys DEF SameGap

\* Only a request at the lock of an active row writes it; when there is a row
\* it is the only one there.
LEMMA ChosenStep ==
    ASSUME IInv, NEW r \in Requests, Step(r)
    PROVE  ChosenInv'
<1> SUFFICES ASSUME NEW k \in Requests, NEW d \in Diagnostics, HoldsActive(k, d)'
             PROVE  /\ previous'[k] = active'[d]
                    /\ active'[d] # NULL => \A q \in Requests : HoldsActive(q, d)' => q = k
  BY DEF ChosenInv
<1> USE DEF IInv
<1>1. ASSUME NEW q \in Requests \ {r}, HoldsActive(q, d)'
      PROVE  HoldsActive(q, d) /\ previous'[q] = previous[q]
  <2>1. pc[q] = "chosen" /\ target'[q] = target[q] /\ previous'[q] = previous[q]
    BY <1>1, OthersStep DEF HoldsActive
  <2>2. target[q] \in Versions /\ Frozen(target[q])
    BY <2>1 DEF RequestInv
  <2> QED
    BY <1>1, <2>1, <2>2, TableStep DEF HoldsActive, Frozen
<1>2. CASE ActivateChoose(r)
  <2>1. /\ active' = active /\ version' = version /\ target' = target
        /\ pc' = [pc EXCEPT ![r] = "chosen"]
        /\ previous' = [previous EXCEPT ![r] = active[version[target[r]].diagnostic]]
        /\ active[version[target[r]].diagnostic] # NULL =>
              \A q \in Requests : ~HoldsActive(q, version[target[r]].diagnostic)
    BY <1>2 DEF ActivateChoose, tables
  <2>2. HoldsActive(r, d)' => d = version[target[r]].diagnostic /\ previous'[r] = active[d]
    BY <2>1 DEF HoldsActive, TypeOK
  <2> QED
    BY <1>1, <2>1, <2>2 DEF ChosenInv
<1>3. CASE ActivateCommit(r)
  <2> DEFINE c == version[target[r]].diagnostic
  <2>1. /\ active' = [active EXCEPT ![c] = target[r]]
        /\ HoldsActive(r, c)
        /\ previous[r] = NULL => \A q \in Requests : ~SharesGap(r, q)
        /\ pc'[r] = "idle"
    BY <1>3 DEF ActivateCommit, Answer, At, HoldsActive, TypeOK
  <2>2. c \in Diagnostics
    BY <1>3 DEF ActivateCommit, At, RequestInv, Frozen, Exists, TypeOK, VersionRow
  <2>3. \A q \in Requests \ {r} : ~HoldsActive(q, c)
    <3>1. active[c] = NULL => SameGap(c, c)
      BY <2>2, OwnGap
    <3> QED
      BY <2>1, <2>2, <3>1 DEF ChosenInv, HoldsActive, SharesGap
  <2>4. k # r /\ d # c
    BY <1>1, <2>1, <2>3 DEF HoldsActive
  <2>5. active'[d] = active[d]
    BY <2>1, <2>4 DEF TypeOK
  <2>6. ~HoldsActive(r, d)'
    BY <2>1 DEF HoldsActive
  <2> QED
    BY <1>1, <2>4, <2>5, <2>6 DEF ChosenInv
<1>4. CASE active' = active /\ pc'[r] # "chosen"
  BY <1>1, <1>4, OthersStep DEF ChosenInv, HoldsActive
<1> QED
  BY <1>2, <1>3, <1>4
     DEF Step, Begin, Refuse, Answer, Create, PromptUpdate, ImportJoin, ImportLock, ImportCommit,
         FinalizeLock, FinalizeCommit, ActivateLock, GoTo, tables, TypeOK

-----------------------------------------------------------------------------
(* The invariant of the specification.                                     *)

\* The empty database satisfies the invariant.
LEMMA InitIInv == Init => IInv
<1> SUFFICES ASSUME Init PROVE IInv
  OBVIOUS
<1>1. TypeOK
  <2>1. EmptyStructure \in Structure
    BY DEF EmptyStructure, Structure
  <2> QED
    BY <2>1 DEF Init, TypeOK, NoSnapshot, Snapshot, Codes
<1>2. RequestInv /\ LockInv
  BY DEF Init, RequestInv, LockInv, HoldsVersion, At
<1>3. HashInv /\ ActiveIsFinalized
  BY DEF Init, HashInv, ActiveIsFinalized, Frozen, Exists
<1>4. SnapshotInv
  BY DEF Init, SnapshotInv, NoSnapshot
<1>5. LogInv /\ ChosenInv
  BY DEF Init, LogInv, ChosenInv, HoldsActive
<1> QED
  BY <1>1, <1>2, <1>3, <1>4, <1>5 DEF IInv

\* Every step keeps the invariant.
LEMMA StepIInv == IInv /\ [Next]_vars => IInv'
<1> SUFFICES ASSUME IInv, [Next]_vars PROVE IInv'
  OBVIOUS
<1>1. CASE Next
  <2> PICK r \in Requests : Step(r)
    BY <1>1, NextIsStep
  <2>1. TypeOK'
    BY TypeStep DEF IInv
  <2> QED
    BY <2>1, LockStep, RequestStep, HashStep, ActiveStep, SnapshotStep, LogStep, ChosenStep DEF IInv
<1>2. CASE UNCHANGED vars
  BY <1>2 DEF vars, IInv, TypeOK, RequestInv, LockInv, HashInv, ActiveIsFinalized,
              SnapshotInv, LogInv, ChosenInv, HoldsVersion, HoldsActive, At, Frozen, Exists,
              Imported, Logged
<1> QED
  BY <1>1, <1>2

\* The invariant of update, import, finalize and activate, whatever requests
\* overlap: what a request established under a row lock stays true while it
\* holds the lock, and an active version is finalized over complete content.
THEOREM InvariantHolds == Spec => []IInv
BY InitIInv, StepIInv, PTL DEF Spec

\* Type correctness of the tables and of the requests in flight.
THEOREM TypeCorrect == Spec => []TypeOK
<1>1. IInv => TypeOK
  BY DEF IInv
<1> QED
  BY <1>1, InvariantHolds, PTL

\* A diagnostic only ever shows a finalized version of its own.
THEOREM ActiveSafe == Spec => []ActiveIsFinalized
<1>1. IInv => ActiveIsFinalized
  BY DEF IInv
<1> QED
  BY <1>1, InvariantHolds, PTL

-----------------------------------------------------------------------------
(* The audit log as a history of the versions.                             *)

\* An entry is found in the log after a commit when it was there before or is
\* the new one.
LEMMA LoggedStep ==
    ASSUME NEW action, NEW v, NEW value, Appended(action, v, value),
           NEW i, NEW a, NEW w
    PROVE  Logged(i, a, w)' <=>
              \/ Logged(i, a, w)
              \/ i = Len(audit) + 1 /\ a = action /\ w = v
<1>1. CASE i = Len(audit) + 1
  BY <1>1 DEF Appended, Logged
<1>2. CASE i # Len(audit) + 1
  <2>1. i \in DOMAIN audit' <=> i \in DOMAIN audit
    BY <1>2 DEF Appended
  <2> QED
    BY <1>2, <2>1 DEF Appended, Logged
<1> QED
  BY <1>1, <1>2

\* What is in the log is before the next entry, and about a version that is
\* there; it is finalized if it was activated.
LEMMA LoggedBefore ==
    ASSUME IInv, NEW action, NEW v, NEW value, Appended(action, v, value),
           NEW i, NEW a, NEW w, Logged(i, a, w)
    PROVE  /\ i \in Nat /\ i < Len(audit) + 1
           /\ audit'[i] = audit[i]
           /\ Exists(w)
           /\ a = "ACTIVATE" => Frozen(w)
BY DEF IInv, LogInv, Logged, Appended

\* The order of the entries of one version survives the next commit.
LEMMA OrderStep ==
    ASSUME IInv, AuditOrder, NEW r \in Requests, Step(r)
    PROVE  AuditOrder'
<1>1. CASE UNCHANGED <<version, active, audit>>
  BY <1>1 DEF AuditOrder, Logged, Frozen, Exists
<1>2. ASSUME NEW action, NEW u, NEW value,
             Appended(action, u, value), Committed(r, action, u, value)
      PROVE  AuditOrder'
  <2> DEFINE n == Len(audit) + 1
  <2> SUFFICES ASSUME NEW v \in Versions
               PROVE  /\ Frozen(v)' <=> \E i \in DOMAIN audit' : Logged(i, "FINALIZE", v)'
                      /\ \A i, j \in DOMAIN audit' :
                           /\ Logged(i, "FINALIZE", v)' => audit'[i].value = version'[v].src_hash
                           /\ Logged(i, "FINALIZE", v)' /\ Logged(j, "FINALIZE", v)' => i = j
                           /\ Logged(i, "IMPORT", v)' /\ Logged(j, "FINALIZE", v)' => i < j
                           /\ Logged(i, "FINALIZE", v)' /\ Logged(j, "ACTIVATE", v)' => i < j
                           /\ Logged(j, "CREATE", v)' /\ i < j => audit'[i].version # v
    BY DEF AuditOrder
  <2>0. n \in Nat /\ audit'[n].value = value /\ audit'[n].version = u
        /\ n \in DOMAIN audit' /\ DOMAIN audit' = DOMAIN audit \cup {n}
    BY <1>2 DEF Appended
  <2>1. \A i, a : Logged(i, a, v)' <=>
            \/ Logged(i, a, v)
            \/ i = n /\ a = action /\ v = u
    BY <1>2, LoggedStep
  <2>2. \A i, a : Logged(i, a, v) =>
            /\ i \in Nat /\ i < n /\ i \in DOMAIN audit /\ audit'[i] = audit[i]
            /\ Exists(v) /\ (a = "ACTIVATE" => Frozen(v))
    BY <1>2, LoggedBefore DEF Logged
  <2>3. /\ Frozen(v) => Frozen(v)' /\ version'[v].src_hash = version[v].src_hash
        /\ v = u /\ action = "FINALIZE" => ~Frozen(v) /\ Frozen(v)' /\ value = version'[v].src_hash
        /\ v = u /\ action = "IMPORT" => ~Frozen(v)
        /\ v = u /\ action = "ACTIVATE" => Frozen(v)
        /\ v = u /\ action = "CREATE" => ~Exists(v)
    BY <1>2, TableStep DEF Committed
  <2>4. Frozen(v)' => Frozen(v) \/ (v = u /\ action = "FINALIZE")
    BY <1>2 DEF Committed, Frozen, Exists
  <2>5. /\ Frozen(v) <=> \E i \in DOMAIN audit : Logged(i, "FINALIZE", v)
        /\ \A i, j \in DOMAIN audit :
              /\ Logged(i, "FINALIZE", v) => audit[i].value = version[v].src_hash
              /\ Logged(i, "FINALIZE", v) /\ Logged(j, "FINALIZE", v) => i = j
              /\ Logged(i, "IMPORT", v) /\ Logged(j, "FINALIZE", v) => i < j
              /\ Logged(i, "FINALIZE", v) /\ Logged(j, "ACTIVATE", v) => i < j
              /\ Logged(j, "CREATE", v) /\ i < j => audit[i].version # v
    BY DEF AuditOrder
  <2>6. Frozen(v)' <=> \E i \in DOMAIN audit' : Logged(i, "FINALIZE", v)'
    <3>1. CASE v = u /\ action = "FINALIZE"
      BY <2>0, <2>1, <2>3, <3>1
    <3>2. CASE ~(v = u /\ action = "FINALIZE")
      BY <2>0, <2>1, <2>2, <2>3, <2>4, <2>5, <3>2
    <3> QED
      BY <3>1, <3>2
  <2>7. ASSUME NEW i \in DOMAIN audit', NEW j \in DOMAIN audit'
        PROVE  /\ Logged(i, "FINALIZE", v)' => audit'[i].value = version'[v].src_hash
               /\ Logged(i, "FINALIZE", v)' /\ Logged(j, "FINALIZE", v)' => i = j
               /\ Logged(i, "IMPORT", v)' /\ Logged(j, "FINALIZE", v)' => i < j
               /\ Logged(i, "FINALIZE", v)' /\ Logged(j, "ACTIVATE", v)' => i < j
    BY <2>0, <2>1, <2>2, <2>3, <2>5
  <2>8. ASSUME NEW i \in DOMAIN audit', NEW j \in DOMAIN audit', Logged(j, "CREATE", v)', i < j
        PROVE  audit'[i].version # v
    <3>1. i \in DOMAIN audit /\ audit'[i] = audit[i]
      BY <1>2, <2>8 DEF Appended
    <3>2. audit[i].version = v => Exists(v)
      BY <3>1 DEF IInv, LogInv
    <3> QED
      BY <2>1, <2>2, <2>3, <2>5, <2>8, <3>1, <3>2
  <2> QED
    BY <2>6, <2>7, <2>8
<1> QED
  BY <1>1, <1>2, CommitStep

\* The audit log tells the life of every version in the order the tables
\* lived it, whatever requests overlap.
THEOREM AuditInOrder == Spec => []AuditOrder
<1>1. Init => AuditOrder
  BY DEF Init, AuditOrder, Logged, Frozen, Exists
<1>2. IInv /\ AuditOrder /\ [Next]_vars => AuditOrder'
  <2> SUFFICES ASSUME IInv, AuditOrder, [Next]_vars PROVE AuditOrder'
    OBVIOUS
  <2>1. CASE UNCHANGED vars
    BY <2>1 DEF vars, AuditOrder, Logged, Frozen, Exists
  <2>2. CASE Next
    BY <2>2, NextIsStep, OrderStep
  <2> QED
    BY <2>1, <2>2
<1> QED
  BY <1>1, <1>2, InvariantHolds, PTL DEF Spec

\* The chain is about the versions, the active rows and the log alone.
LEMMA ChainUnchanged ==
    ASSUME ActivationChain, UNCHANGED <<version, active, audit>>
    PROVE  ActivationChain'
BY DEF ActivationChain, ActiveBefore, Activates

\* The chain of activations of one diagnostic goes on with the new entry.
LEMMA ChainStep ==
    ASSUME IInv, ActivationChain, NEW r \in Requests, Step(r)
    PROVE  ActivationChain'
<1>1. CASE UNCHANGED <<version, active, audit>>
  BY <1>1, ChainUnchanged
<1>2. ASSUME NEW action, NEW u, NEW value,
             Appended(action, u, value), Committed(r, action, u, value)
      PROVE  ActivationChain'
  <2> PICK n \in Nat : n = Len(audit) + 1
    BY <1>2 DEF Appended
  <2> SUFFICES ASSUME NEW d \in Diagnostics
               PROVE  /\ \A m \in DOMAIN audit' :
                            Activates(m, d)' => ActiveBefore(d, m, audit[m].value)'
                      /\ ActiveBefore(d, Len(audit) + 1, active[d])'
    BY DEF ActivationChain
  <2>0. /\ Len(audit') = n /\ DOMAIN audit = 1..(n - 1) /\ DOMAIN audit' = 1..n
        /\ \A i \in 1..(n - 1) : audit'[i] = audit[i]
        /\ audit'[n].action = action /\ audit'[n].version = u /\ audit'[n].value = value
    BY <1>2 DEF Appended
  <2>1. \A i \in 1..(n - 1) : Activates(i, d)' <=> Activates(i, d)
    <3> TAKE i \in 1..(n - 1)
    <3>1. i \in DOMAIN audit /\ i \in DOMAIN audit' /\ audit'[i] = audit[i]
      BY <2>0
    <3>2. audit[i].version \in Versions /\ Exists(audit[i].version)
      BY <3>1, EntryVersion DEF IInv, LogInv
    <3>3. version'[audit[i].version].diagnostic = version[audit[i].version].diagnostic
      BY <3>2, TableStep
    <3> QED
      BY <3>1, <3>3 DEF Activates
  <2>2. ASSUME NEW m \in 1..n, NEW w
        PROVE  ActiveBefore(d, m, w)' <=> ActiveBefore(d, m, w)
    <3>1. \A i \in 1..(m - 1) :
              /\ audit'[i] = audit[i] /\ (Activates(i, d)' <=> Activates(i, d))
              /\ \A j \in (i + 1)..(m - 1) : j \in 1..(m - 1)
      BY <2>0, <2>1
    <3>2. /\ (\A i \in 1..(m - 1) : ~Activates(i, d)) <=>
                (\A i \in 1..(m - 1) : ~Activates(i, d)')
          /\ \A i \in 1..(m - 1) :
                (\A j \in (i + 1)..(m - 1) : ~Activates(j, d)) <=>
                (\A j \in (i + 1)..(m - 1) : ~Activates(j, d)')
      BY <3>1
    <3> QED
      BY <3>1, <3>2 DEF ActiveBefore
  <2>3. /\ \A m \in 1..(n - 1) : Activates(m, d) => ActiveBefore(d, m, audit[m].value)
        /\ ActiveBefore(d, n, active[d])
    BY <2>0 DEF ActivationChain
  <2>4. ASSUME NEW m \in DOMAIN audit, Activates(m, d)'
        PROVE  ActiveBefore(d, m, audit[m].value)'
    <3>1. ActiveBefore(d, m, audit[m].value) /\ audit'[m] = audit[m]
      BY <2>0, <2>1, <2>3, <2>4
    <3>2. PICK w : w = audit[m].value
      OBVIOUS
    <3>3. ActiveBefore(d, m, w)'
      BY <2>0, <2>2, <3>1, <3>2
    <3> QED
      BY <3>1, <3>2, <3>3 DEF ActiveBefore
  <2>5. CASE action = "ACTIVATE" /\ version[u].diagnostic = d
    <3>1. /\ HoldsActive(r, d) /\ value = previous[r] /\ u \in Versions /\ Exists(u)
          /\ active' = [active EXCEPT ![d] = u]
      BY <1>2, <2>5 DEF Committed, Frozen
    <3>2. value = active[d] /\ active'[d] = u
      BY <3>1 DEF IInv, ChosenInv, TypeOK
    <3>3. version'[u].diagnostic = d
      BY <2>5, <3>1, TableStep
    <3>4. Activates(n, d)'
      BY <2>0, <2>5, <3>3 DEF Activates
    <3>5. ActiveBefore(d, n, value)'
      BY <2>2, <2>3, <3>2
    <3>6. ActiveBefore(d, n + 1, u)'
      BY <2>0, <3>4 DEF ActiveBefore
    <3>7. ActiveBefore(d, Len(audit) + 1, active[d])'
      BY <2>0, <3>2, <3>6 DEF ActiveBefore
    <3>8. ActiveBefore(d, n, audit[n].value)'
      BY <2>0, <3>5 DEF ActiveBefore
    <3>9. ASSUME NEW m \in DOMAIN audit', Activates(m, d)'
          PROVE  ActiveBefore(d, m, audit[m].value)'
      <4>1. m \in DOMAIN audit \/ m = n
        BY <2>0
      <4>2. CASE m = n
        BY <3>8, <4>2
      <4>3. QED
        BY <2>4, <3>9, <4>1, <4>2
    <3>10. QED
      BY <3>7, <3>9
  <2>6. CASE ~(action = "ACTIVATE" /\ version[u].diagnostic = d)
    <3>1. active'[d] = active[d]
      BY <1>2, <2>6 DEF Committed, IInv, TypeOK
    <3>2. version'[u].diagnostic = version[u].diagnostic \/ action # "ACTIVATE"
      BY <1>2, TableStep DEF Committed, Frozen
    <3>3. ~Activates(n, d)'
      BY <2>0, <2>6, <3>2 DEF Activates
    <3>4. ActiveBefore(d, n + 1, active[d])'
      <4>1. PICK w : w = active[d] /\ w = active'[d]
        BY <3>1
      <4>2. ActiveBefore(d, n, w)'
        BY <2>2, <2>3, <4>1
      <4>3. ActiveBefore(d, n + 1, w)'
        BY <3>3, <4>2 DEF ActiveBefore
      <4>4. QED
        BY <4>1, <4>3 DEF ActiveBefore
    <3> QED
      BY <2>0, <2>4, <3>3, <3>4
  <2> QED
    BY <2>5, <2>6
<1> QED
  BY <1>1, <1>2, CommitStep

\* No activation is lost between overlapping ones: each ACTIVATE entry names
\* the version that was active before it, and the last one is active.
THEOREM ActivationsChained == Spec => []ActivationChain
<1>1. Init => ActivationChain
  <2> SUFFICES ASSUME Init PROVE ActivationChain
    OBVIOUS
  <2>1. audit = <<>> /\ Len(audit) = 0 /\ DOMAIN audit = {}
    BY DEF Init
  <2>2. ASSUME NEW d \in Diagnostics
        PROVE  ActiveBefore(d, Len(audit) + 1, active[d])
    <3>1. active[d] = NULL /\ \A i \in 1..((Len(audit) + 1) - 1) : FALSE
      BY <2>1 DEF Init
    <3> QED
      BY <3>1 DEF ActiveBefore
  <2> QED
    BY <2>1, <2>2 DEF ActivationChain
<1>2. IInv /\ ActivationChain /\ [Next]_vars => ActivationChain'
  <2> SUFFICES ASSUME IInv, ActivationChain, [Next]_vars PROVE ActivationChain'
    OBVIOUS
  <2>1. CASE UNCHANGED vars
    BY <2>1, ChainUnchanged DEF vars
  <2>2. CASE Next
    BY <2>2, NextIsStep, ChainStep
  <2> QED
    BY <2>1, <2>2
<1> QED
  BY <1>1, <1>2, InvariantHolds, PTL DEF Spec

-----------------------------------------------------------------------------
(* What no step may do.                                                    *)

\* No import, overlapping finalize or after it, changes a frozen structure.
THEOREM StructureStaysFrozen == Spec => StructureFrozen
<1>1. IInv /\ [Next]_vars => [\A v \in Versions : Frozen(v) => structure'[v] = structure[v]]_vars
  BY NextIsStep, TableStep
<1> QED
  BY <1>1, InvariantHolds, PTL DEF Spec, StructureFrozen

\* Of overlapping finalizes one writes src_hash, and nothing clears it.
THEOREM SrcHashOnce == Spec => SrcHashWriteOnce
<1>1. IInv /\ [Next]_vars =>
          [\A v \in Versions :
              Frozen(v) => /\ version'[v] # NULL
                           /\ version'[v].src_hash = version[v].src_hash]_vars
  BY NextIsStep, TableStep DEF Frozen, Exists
<1> QED
  BY <1>1, InvariantHolds, PTL DEF Spec, SrcHashWriteOnce

-----------------------------------------------------------------------------
(* Who waits for whom.                                                     *)

\* Where the holder of each kind of lock is.
LEMMA HoldersAre ==
    ASSUME IInv, NEW q \in Requests
    PROVE  /\ \A v \in Versions : HoldsVersion(q, v) => Progress(q) \in {1, 2, 3, 4}
           /\ Importing(q) => Progress(q) = 4
           /\ \A d : HoldsActive(q, d) => Progress(q) = 2
<1>1. /\ pc[q] \in {"idle", "begun", "joining", "locked", "chosen"}
      /\ pc[q] = "locked" => op[q] \in {"import", "finalize", "activate"}
  BY DEF IInv, TypeOK, RequestInv
<1> QED
  BY <1>1 DEF HoldsVersion, HoldsActive, Importing, At, Progress

\* A request that has chosen is an activation, of a version that is finalized.
LEMMA ChosenIs ==
    ASSUME IInv, NEW r \in Requests, pc[r] = "chosen"
    PROVE  /\ version[target[r]].diagnostic \in Diagnostics
           /\ previous[r] = active[version[target[r]].diagnostic]
<1>1. Frozen(target[r]) /\ target[r] \in Versions
  BY DEF IInv, RequestInv
<1>2. version[target[r]].diagnostic \in Diagnostics
  BY <1>1 DEF IInv, TypeOK, Frozen, Exists, VersionRow
<1> QED
  BY <1>2 DEF IInv, ChosenInv, HoldsActive

\* Two activations that insert into one gap wait for each other.
LEMMA GapsAreMutual ==
    ASSUME IInv, NEW r \in Requests, NEW q \in Requests,
           pc[r] = "chosen", previous[r] = NULL, SharesGap(r, q)
    PROVE  GapDeadlock(r, q)
<1> DEFINE d == version[target[r]].diagnostic
           e == version[target[q]].diagnostic
<1>1. pc[q] = "chosen" /\ q # r /\ SameGap(d, e)
  BY DEF SharesGap
<1>2. SameGap(e, d) /\ active[e] = NULL
  BY <1>1 DEF SameGap
<1>3. previous[q] = NULL /\ SharesGap(q, r)
  BY <1>1, <1>2, ChosenIs DEF SharesGap
<1> QED
  BY <1>1, <1>3 DEF GapDeadlock, WaitsFor

\* Row locks are asked for in one order.
LEMMA LocksInOrder == IInv => LockOrder
<1> SUFFICES ASSUME IInv, NEW r \in Requests, NEW q \in Requests, WaitsFor(r, q)
             PROVE  Progress(r) < Progress(q) \/ GapDeadlock(r, q)
  BY DEF LockOrder
<1> DEFINE d == version[target[r]].diagnostic
<1>1. CASE pc[r] = "begun"
  <2>1. target[r] \in Versions /\ Progress(r) = 0
    BY <1>1 DEF IInv, RequestInv, Progress
  <2>2. HoldsVersion(q, target[r]) \/ Importing(q)
    BY <1>1 DEF WaitsFor, Importing, At
  <2> QED
    BY <2>1, <2>2, HoldersAre
<1>2. CASE pc[r] = "joining"
  <2>1. Progress(r) = 3 /\ Importing(q)
    BY <1>2 DEF WaitsFor, Importing, At, Progress
  <2> QED
    BY <2>1, HoldersAre
<1>3. CASE Importing(r)
  <2>1. q # r /\ Importing(q)
    BY <1>3 DEF WaitsFor, Importing, At
  <2> QED
    BY <1>3, <2>1 DEF GapDeadlock, WaitsFor
<1>4. CASE At(r, "locked", "activate")
  <2>1. Progress(r) = 1 /\ HoldsActive(q, d)
    BY <1>4 DEF WaitsFor, Importing, At, Progress
  <2> QED
    BY <2>1, HoldersAre
<1>5. CASE pc[r] = "chosen"
  <2>1. Progress(r) = 2 /\ previous[r] = NULL /\ (SharesGap(r, q) \/ Importing(q))
    BY <1>5 DEF WaitsFor, Importing, At, Progress
  <2> QED
    BY <1>5, <2>1, HoldersAre, GapsAreMutual
<1> QED
  BY <1>1, <1>2, <1>3, <1>4, <1>5 DEF WaitsFor, At

\* Of the requests under way one that is past the most locks can go on.
LEMMA OneGoesOn == IInv => SomeoneGoesOn
<1> SUFFICES ASSUME IInv, NEW p \in Requests, pc[p] # "idle"
             PROVE  \E r \in Requests :
                       /\ pc[r] # "idle"
                       /\ \A q \in Requests : WaitsFor(r, q) => GapDeadlock(r, q)
  BY DEF SomeoneGoesOn
<1> DEFINE Busy(n) == \E r \in Requests : pc[r] # "idle" /\ Progress(r) = n
           Last(n) == \E r \in Requests : /\ pc[r] # "idle" /\ Progress(r) = n
                                          /\ \A q \in Requests : pc[q] # "idle" => Progress(q) \leq n
<1>1. \A r \in Requests : Progress(r) \in 0 .. 4
  BY DEF Progress
<1>2. Last(0) \/ Last(1) \/ Last(2) \/ Last(3) \/ Last(4)
  <2>1. Busy(0) \/ Busy(1) \/ Busy(2) \/ Busy(3) \/ Busy(4)
    BY <1>1
  <2> QED
    BY <1>1, <2>1
<1>3. PICK r \in Requests : /\ pc[r] # "idle"
                            /\ \A q \in Requests : pc[q] # "idle" => Progress(q) \leq Progress(r)
  BY <1>2
<1>4. \A q \in Requests : WaitsFor(r, q) => pc[q] # "idle"
  BY DEF WaitsFor, Importing, At, HoldsVersion, HoldsActive, SharesGap
<1>5. \A q \in Requests : WaitsFor(r, q) => GapDeadlock(r, q)
  <2> SUFFICES ASSUME NEW q \in Requests, WaitsFor(r, q)
               PROVE  GapDeadlock(r, q)
    OBVIOUS
  <2>1. Progress(q) \leq Progress(r) /\ Progress(q) \in 0 .. 4 /\ Progress(r) \in 0 .. 4
    BY <1>1, <1>3, <1>4
  <2>2. Progress(r) < Progress(q) \/ GapDeadlock(r, q)
    BY LocksInOrder DEF LockOrder
  <2> QED
    BY <2>1, <2>2
<1> QED
  BY <1>3, <1>5

\* Of the locks that a request holds from one step to another (on versions, on diagnostics, on
\* active rows and their gaps, on the gaps of what imports replace), whoever waits waits for a
\* request that is past more of them; the only circles are of requests that insert into one gap.
THEOREM LocksAreOrdered == Spec => []LockOrder
BY LocksInOrder, InvariantHolds, PTL

\* However many requests overlap, one of those under way waits for no other, or only for
\* requests that wait for it in turn to insert into one gap: the deadlocks InnoDB ends.
THEOREM SomeoneAlwaysGoesOn == Spec => []SomeoneGoesOn
BY OneGoesOn, InvariantHolds, PTL

-----------------------------------------------------------------------------
(* What the API documents promise, for versions that have one editor at a  *)
(* time: requests about different versions, creations, activations and     *)
(* reads may overlap them as they like.                                    *)

\* A version is written by the request that creates it or by one that edits it.
LEMMA WriterStep ==
    ASSUME IInv, NEW r \in Requests, Step(r), NEW v \in Versions
    PROVE  \/ version'[v] = version[v] /\ structure'[v] = structure[v]
           \/ ~Exists(v) /\ structure' = structure
           \/ pc'[r] = "idle" /\ Editing(r, v)
<1> USE DEF IInv
<1>1. CASE \E w \in Versions, d \in Diagnostics, n \in Names, p \in Prompt : Create(r, w, d, n, p)
  BY <1>1 DEF Create, TypeOK, Exists
<1>2. CASE \E p \in Prompt : PromptUpdate(r, p)
  BY <1>2 DEF PromptUpdate, Answer, At, TypeOK, Editing
<1>3. CASE \E sheet \in Sheets : ImportCommit(r, sheet)
  BY <1>3 DEF ImportCommit, Answer, At, TypeOK, Editing
<1>4. CASE FinalizeCommit(r)
  BY <1>4 DEF FinalizeCommit, Answer, At, TypeOK, Editing
<1>5. CASE UNCHANGED <<version, structure>>
  BY <1>5
<1> QED
  BY <1>1, <1>2, <1>3, <1>4, <1>5
     DEF Step, Begin, Refuse, ImportJoin, ImportLock, FinalizeLock, ActivateLock, GoTo,
         ActivateChoose, ActivateCommit, tables

\* While nobody else edits a version, its editor's snapshot stays true.
LEMMA EditorStep ==
    ASSUME IInv, OneEditorPerVersion, EditorsSeeTheirVersion, NEW r \in Requests, Step(r)
    PROVE  EditorsSeeTheirVersion'
<1> SUFFICES ASSUME NEW q \in Requests, NEW v \in Versions, Editing(q, v)'
             PROVE  /\ snap'[q].version[v] \in {NULL, version'[v]}
                    /\ snap'[q].structure[v] = structure'[v]
  BY DEF EditorsSeeTheirVersion
<1>1. ASSUME Editing(q, v), snap'[q] = snap[q], ~(pc'[r] = "idle" /\ Editing(r, v))
      PROVE  /\ snap'[q].version[v] \in {NULL, version'[v]}
             /\ snap'[q].structure[v] = structure'[v]
  <2>1. snap[q].version[v] # NULL => Exists(v)
    BY DEF IInv, SnapshotInv
  <2> QED
    BY <1>1, <2>1, WriterStep DEF EditorsSeeTheirVersion
<1>2. CASE q # r
  <2>1. Editing(q, v) /\ snap'[q] = snap[q]
    BY <1>2, OthersStep DEF Editing, IInv
  <2>2. ~Editing(r, v)
    BY <1>2, <2>1 DEF OneEditorPerVersion
  <2> QED
    BY <1>1, <2>1, <2>2
<1>3. CASE q = r
  <2>1. CASE \E o \in Ops, w \in Versions : Begin(r, o, w)
    <3>1. /\ snap'[r] = [version |-> version, structure |-> structure]
          /\ UNCHANGED <<version, structure>>
      BY <2>1 DEF Begin, tables, IInv, TypeOK
    <3> QED
      BY <1>3, <3>1
  <2>2. CASE pc'[r] # "idle" /\ UNCHANGED <<op, target, snap>> /\ pc[r] # "idle"
    BY <1>1, <1>3, <2>2 DEF Editing
  <2>3. CASE pc'[r] = "idle"
    BY <1>3, <2>3 DEF Editing
  <2> QED
    BY <2>1, <2>2, <2>3
       DEF IInv, TypeOK, Step, Refuse, Answer, Create, PromptUpdate, ImportJoin, ImportLock,
           ImportCommit, FinalizeLock, FinalizeCommit, ActivateLock, ActivateChoose,
           ActivateCommit, GoTo, At
<1> QED
  BY <1>2, <1>3

\* Only update_system_prompt changes the prompt of a version that is there.
LEMMA PromptStep ==
    ASSUME IInv, NEW r \in Requests, Step(r), NEW v \in Versions, Exists(v)
    PROVE  \/ version'[v].prompt = version[v].prompt
           \/ \E p \in Prompt : target[r] = v /\ PromptUpdate(r, p)
<1>0. version \in [Versions -> VersionRow \cup {NULL}]
  BY DEF IInv, TypeOK
<1>1. CASE version' = version
  BY <1>1
<1>2. CASE \E w \in Versions, d \in Diagnostics, n \in Names, p \in Prompt : Create(r, w, d, n, p)
  BY <1>0, <1>2 DEF Create, Exists
<1>3. CASE \E p \in Prompt : PromptUpdate(r, p)
  BY <1>0, <1>3 DEF PromptUpdate
<1>4. CASE FinalizeCommit(r)
  <2>1. version[v] \in VersionRow
    BY <1>0 DEF Exists
  <2> QED
    BY <1>0, <1>4, <2>1 DEF FinalizeCommit, VersionRow
<1> QED
  BY <1>1, <1>2, <1>3, <1>4
     DEF Step, Begin, Refuse, ImportJoin, ImportLock, ImportCommit, FinalizeLock, ActivateLock, GoTo,
         ActivateChoose, ActivateCommit, tables

\* Nobody edits the prompt of a finalized version that he sees as it is.
LEMMA PromptKept ==
    ASSUME IInv, EditorsSeeTheirVersion, NEW r \in Requests, Step(r),
           NEW v \in Versions, Frozen(v)
    PROVE  version'[v].prompt = version[v].prompt
<1>1. ~(\E p \in Prompt : target[r] = v /\ PromptUpdate(r, p))
  <2> SUFFICES ASSUME NEW p \in Prompt, target[r] = v, PromptUpdate(r, p) PROVE FALSE
    OBVIOUS
  <2>1. Editing(r, v) /\ snap[r].version[v] # NULL /\ snap[r].version[v].src_hash = NULL
    BY DEF PromptUpdate, At, Editing
  <2> QED
    BY <2>1 DEF EditorsSeeTheirVersion, Frozen
<1> QED
  BY <1>1, PromptStep DEF Frozen

\* A version is frozen by the commit of a finalize.
LEMMA FreezeStep ==
    ASSUME IInv, NEW r \in Requests, Step(r), NEW v \in Versions, ~Frozen(v), Frozen(v)'
    PROVE  FinalizeCommit(r) /\ target[r] = v
<1>1. At(r, "locked", "finalize") /\ target[r] = v
  BY TableStep
<1>2. version' # version
  BY DEF Frozen, Exists
<1> QED
  BY <1>1, <1>2
     DEF Step, Begin, Refuse, Create, PromptUpdate, ImportJoin, ImportLock, ImportCommit, FinalizeLock,
         ActivateLock, ActivateChoose, ActivateCommit, GoTo, tables, At

\* What finalize hashes is the version as it stays.
LEMMA ContentStep ==
    ASSUME IInv, EditorsSeeTheirVersion, HashIsOfContent, NEW r \in Requests, Step(r)
    PROVE  HashIsOfContent'
<1> SUFFICES ASSUME NEW v \in Versions, Frozen(v)'
             PROVE  version'[v].src_hash = BuildSrcHash(version'[v].prompt, structure'[v])
  BY DEF HashIsOfContent
<1>1. CASE Frozen(v)
  <2>1. version'[v].prompt = version[v].prompt
    BY <1>1, PromptKept
  <2>2. version'[v].src_hash = version[v].src_hash /\ structure'[v] = structure[v]
    BY <1>1, TableStep
  <2> QED
    BY <1>1, <2>1, <2>2 DEF HashIsOfContent
<1>2. CASE ~Frozen(v)
  <2> DEFINE hash == BuildSrcHash(version[v].prompt, snap[r].structure[v])
  <2>1. FinalizeCommit(r) /\ target[r] = v
    BY <1>2, FreezeStep
  <2>2. /\ version' = [version EXCEPT ![v].src_hash = hash]
        /\ structure' = structure
        /\ Editing(r, v) /\ Exists(v)
    BY <2>1 DEF FinalizeCommit, Editing, At, IInv, RequestInv
  <2>3. version[v] \in VersionRow /\ version \in [Versions -> VersionRow \cup {NULL}]
    BY <2>2 DEF IInv, TypeOK, Exists
  <2>4. version'[v].src_hash = hash /\ version'[v].prompt = version[v].prompt
    BY <2>2, <2>3 DEF VersionRow
  <2>5. snap[r].structure[v] = structure'[v]
    BY <2>2 DEF EditorsSeeTheirVersion
  <2> QED
    BY <2>4, <2>5
<1> QED
  BY <1>1, <1>2

\* The newest prompt in the log is the one the version has.
LEMMA ShownStep ==
    ASSUME IInv, EditorsSeeTheirVersion, AuditShowsPrompt, NEW r \in Requests, Step(r)
    PROVE  AuditShowsPrompt'
<1>1. CASE UNCHANGED <<version, active, audit>>
  BY <1>1 DEF AuditShowsPrompt, Logged
<1>2. ASSUME NEW action, NEW u, NEW value,
             Appended(action, u, value), Committed(r, action, u, value)
      PROVE  AuditShowsPrompt'
  <2> PICK n \in Nat : n = Len(audit) + 1
    BY <1>2 DEF Appended
  <2> SUFFICES ASSUME NEW i \in DOMAIN audit', audit'[i].action \in {"CREATE", "PROMPT_UPDATE"},
                      \A j \in (i + 1)..Len(audit') : ~Logged(j, "PROMPT_UPDATE", audit[i].version)'
               PROVE  audit'[i].value = version'[audit'[i].version].prompt
    BY DEF AuditShowsPrompt
  <2>0. /\ Len(audit') = n /\ DOMAIN audit = 1..(n - 1) /\ DOMAIN audit' = 1..n
        /\ \A j \in 1..(n - 1) : audit'[j] = audit[j]
        /\ audit'[n].action = action /\ audit'[n].version = u /\ audit'[n].value = value
    BY <1>2 DEF Appended
  <2>1. CASE i = n
    <3>1. action = "CREATE" => version'[u].prompt = value
      BY <1>2 DEF Committed
    <3>2. action = "PROMPT_UPDATE" => version'[u].prompt = value
      BY <1>2 DEF Committed, EditorsSeeTheirVersion
    <3> QED
      BY <2>0, <2>1, <3>1, <3>2
  <2>2. CASE i # n
    <3>1. i \in DOMAIN audit /\ audit'[i] = audit[i] /\ n \in (i + 1)..Len(audit')
      BY <2>0, <2>2
    <3> PICK w \in Versions : w = audit[i].version
      BY <3>1, EntryVersion DEF IInv
    <3>6. \A j \in (i + 1)..Len(audit') : ~Logged(j, "PROMPT_UPDATE", w)'
      BY <3>1 DEF Logged
    <3>2. ASSUME NEW j \in (i + 1)..Len(audit)
          PROVE  ~Logged(j, "PROMPT_UPDATE", w)
      <4>1. j \in (i + 1)..Len(audit')
        BY <1>2, <2>0 DEF Appended
      <4> QED
        BY <1>2, <3>6, <4>1, LoggedStep
    <3>3. audit[i].value = version[w].prompt
      BY <3>1, <3>2 DEF AuditShowsPrompt
    <3>4. Exists(w) /\ ~(action = "PROMPT_UPDATE" /\ w = u)
      BY <1>2, <3>1, <3>6, LoggedStep DEF IInv, LogInv
    <3>5. version'[w].prompt = version[w].prompt
      BY <1>2, <3>4 DEF Committed
    <3> QED
      BY <3>1, <3>3, <3>5
  <2> QED
    BY <2>1, <2>2
<1> QED
  BY <1>1, <1>2, CommitStep

\* An editor that has its version to itself reads it as it is.
LEMMA EditorsHold == Spec /\ []OneEditorPerVersion => []EditorsSeeTheirVersion
<1>1. Init => EditorsSeeTheirVersion
  BY DEF Init, EditorsSeeTheirVersion, Editing
<1>2. IInv /\ OneEditorPerVersion /\ EditorsSeeTheirVersion /\ [Next]_vars
          => EditorsSeeTheirVersion'
  <2>1. CASE UNCHANGED vars
    BY <2>1 DEF vars, EditorsSeeTheirVersion, Editing
  <2>2. CASE Next
    BY <2>2, NextIsStep, EditorStep
  <2> QED
    BY <2>1, <2>2
<1> QED
  BY <1>1, <1>2, InvariantHolds, PTL DEF Spec

\* src_hash is the hash of the prompt and the structure the version has.
THEOREM HashCoversContent == Spec /\ []OneEditorPerVersion => []HashIsOfContent
<1>1. Init => HashIsOfContent
  BY DEF Init, HashIsOfContent, Frozen, Exists
<1>2. IInv /\ EditorsSeeTheirVersion /\ HashIsOfContent /\ [Next]_vars => HashIsOfContent'
  <2>1. CASE UNCHANGED vars
    BY <2>1 DEF vars, HashIsOfContent, Frozen, Exists
  <2>2. CASE Next
    BY <2>2, NextIsStep, ContentStep
  <2> QED
    BY <2>1, <2>2
<1> QED
  BY <1>1, <1>2, InvariantHolds, EditorsHold, PTL DEF Spec

\* A finalized version has questions, active options for them, and an outcome.
THEOREM FinalizedStaysComplete == Spec /\ []OneEditorPerVersion => []FinalizedIsComplete
<1>1. IInv /\ HashIsOfContent => FinalizedIsComplete
  <2> SUFFICES ASSUME IInv, HashIsOfContent, NEW v \in Versions, Frozen(v)
               PROVE  Complete(structure[v])
    BY DEF FinalizedIsComplete
  <2>1. version[v].src_hash.structure = structure[v]
    <3>1. version[v].src_hash = BuildSrcHash(version[v].prompt, structure[v])
      BY DEF HashIsOfContent
    <3> QED
      BY <3>1 DEF BuildSrcHash
  <2>2. Complete(version[v].src_hash.structure)
    BY DEF IInv, HashInv
  <2> QED
    BY <2>1, <2>2
<1> QED
  BY <1>1, InvariantHolds, HashCoversContent, PTL

\* The newest prompt in the audit log is the prompt of the version.
THEOREM AuditShowsPrompts == Spec /\ []OneEditorPerVersion => []AuditShowsPrompt
<1>1. Init => AuditShowsPrompt
  <2> SUFFICES ASSUME Init PROVE AuditShowsPrompt
    OBVIOUS
  <2>1. audit = <<>> /\ \A i \in DOMAIN audit : FALSE
    BY DEF Init
  <2> QED
    BY <2>1 DEF AuditShowsPrompt
<1>2. IInv /\ EditorsSeeTheirVersion /\ AuditShowsPrompt /\ [Next]_vars => AuditShowsPrompt'
  <2>1. CASE UNCHANGED vars
    BY <2>1 DEF vars, AuditShowsPrompt, Logged
  <2>2. CASE Next
    BY <2>2, NextIsStep, ShownStep
  <2> QED
    BY <2>1, <2>2
<1> QED
  BY <1>1, <1>2, InvariantHolds, EditorsHold, PTL DEF Spec

\* The prompt of a finalized version never changes.
THEOREM PromptStaysFrozen == Spec /\ []OneEditorPerVersion => PromptFrozen
<1>1. IInv /\ EditorsSeeTheirVersion /\ [Next]_vars =>
          [\A v \in Versions : Frozen(v) => version'[v].prompt = version[v].prompt]_vars
  BY NextIsStep, PromptKept
<1> QED
  BY <1>1, InvariantHolds, EditorsHold, PTL DEF Spec, PromptFrozen

-----------------------------------------------------------------------------
(* The requests implement the contract.                                    *)

\* The empty database is the contract's, with nothing imported.
LEMMA ContractInit == Init => Contract!Init
BY DEF Init, Contract!Init, Imported, Logged, EmptyStructure, Contract!EmptyStructure

\* Every step is one operation of the contract or changes none of its state.
LEMMA ContractStep == IInv /\ [Next]_vars => [Contract!Next]_(Contract!vars)
<1> DEFINE imported == [v \in Versions |-> Imported(v)]
<1> SUFFICES ASSUME IInv, [Next]_vars
             PROVE  Contract!Next \/ UNCHANGED <<version, structure, active, imported>>
  BY DEF Contract!vars
<1>1. CASE UNCHANGED vars
  BY <1>1 DEF vars, Imported, Logged
<1>2. ASSUME NEW r \in Requests, Step(r)
      PROVE  Contract!Next \/ UNCHANGED <<version, structure, active, imported>>
  <2> USE <1>2
  <2>1. CASE UNCHANGED tables
    BY <2>1 DEF tables, Imported, Logged
  <2>2. CASE \E v \in Versions, d \in Diagnostics, n \in Names, p \in Prompt : Create(r, v, d, n, p)
    <3> PICK v \in Versions, d \in Diagnostics, n \in Names, p \in Prompt : Create(r, v, d, n, p)
      BY <2>2
    <3>1. UNCHANGED imported
      BY LogImported DEF Create, IInv
    <3>2. Contract!CreateVersion(v, d, n, p)
      BY <3>1 DEF Create, Exists, NameTaken, Contract!CreateVersion, Contract!NameTaken
    <3> QED
      BY <3>2 DEF Contract!Next, Prompt, Contract!Prompt
  <2>3. CASE \E p \in Prompt : PromptUpdate(r, p)
    <3> PICK p \in Prompt : PromptUpdate(r, p)
      BY <2>3
    <3>1. target[r] \in Versions /\ Exists(target[r])
      BY DEF PromptUpdate, At, IInv, RequestInv, SnapshotInv
    <3>2. UNCHANGED imported
      BY <3>1, LogImported DEF PromptUpdate, IInv
    <3>3. UNCHANGED <<version, structure, active, imported>> \/ Contract!SetPrompt(target[r], p)
      BY <3>1, <3>2 DEF PromptUpdate, Exists, Contract!SetPrompt
    <3> QED
      BY <3>1, <3>3 DEF Contract!Next, Prompt, Contract!Prompt
  <2>4. CASE \E sheet \in Sheets : ImportCommit(r, sheet)
    <3> PICK sheet \in Sheets : ImportCommit(r, sheet)
      BY <2>4
    <3> DEFINE v == target[r]
    <3>1. v \in Versions /\ Contract!Draft(v)
      BY DEF ImportCommit, At, IInv, RequestInv, Frozen, Exists, Contract!Draft
    <3>2. imported' = [imported EXCEPT ![v] = @ \cup {sheet}]
      <4>1. \A w \in Versions : Imported(w)' = IF w = v THEN Imported(w) \cup {sheet}
                                               ELSE Imported(w)
        BY <3>1, LogImported DEF ImportCommit, IInv
      <4> QED
        BY <3>1, <4>1
    <3>3. Contract!ImportStructure(v, sheet)
      BY <3>1, <3>2 DEF ImportCommit, Contract!ImportStructure
    <3> QED
      BY <3>1, <3>3 DEF Contract!Next
  <2>5. CASE FinalizeCommit(r)
    <3> DEFINE v == target[r]
               s == snap[r].structure[v]
    <3>1. v \in Versions /\ Contract!Draft(v) /\ Complete(s) /\ s \in Structure
      BY <2>5 DEF FinalizeCommit, At, IInv, RequestInv, Frozen, Exists, Contract!Draft,
                  TypeOK, Snapshot
    <3>2. s \in imported[v]
      BY <3>1 DEF IInv, SnapshotInv, Complete, EmptyStructure
    <3>3. UNCHANGED imported
      BY <2>5, <3>1, LogImported DEF FinalizeCommit, IInv
    <3>4. Contract!FreezeVersion(v, s)
      BY <2>5, <3>1, <3>2, <3>3
         DEF FinalizeCommit, Contract!FreezeVersion, BuildSrcHash, Contract!BuildSrcHash,
             Complete, Contract!Complete
    <3> QED
      BY <3>1, <3>4 DEF Contract!Next, Structure, Contract!Structure, OptionRow, Contract!OptionRow
  <2>6. CASE ActivateCommit(r)
    <3> DEFINE v == target[r]
    <3>1. v \in Versions /\ Contract!Final(v)
      BY <2>6 DEF ActivateCommit, At, IInv, RequestInv, Frozen, Exists, Contract!Final
    <3>2. UNCHANGED imported
      BY <2>6, <3>1, LogImported DEF ActivateCommit, IInv
    <3>3. Contract!ActivateVersion(v)
      BY <2>6, <3>1, <3>2 DEF ActivateCommit, Contract!ActivateVersion
    <3> QED
      BY <3>1, <3>3 DEF Contract!Next
  <2> QED
    BY <2>1, <2>2, <2>3, <2>4, <2>5, <2>6
       DEF Step, Begin, Refuse, ImportJoin, ImportLock, FinalizeLock, ActivateLock, GoTo,
           ActivateChoose, tables
<1> QED
  BY <1>1, <1>2, NextIsStep

\* Overlapping requests leave only what the atomic operations of the contract
\* could leave: every commit is one of them, on the state as it is then.
THEOREM Implementation == Spec => ImplementsContract
BY ContractInit, ContractStep, InvariantHolds, PTL
   DEF Spec, ImplementsContract, Contract!Spec
=============================================================================
