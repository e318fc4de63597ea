----------------------- MODULE SessionPipeline_proofs -----------------------
(***************************************************************************)
(* Proofs about SessionPipeline, for every value of its constants.         *)
(***************************************************************************)
EXTENDS SessionPipeline, TLAPS

(* The steps of Next, with the refusals and failures taken together, and   *)
(* with the ways to a document taken together.                             *)

\* Where a request that answers with doc has it from.
Obtained(r, doc) ==
    \/ doc.options = Answered(r)
    \/ \E t \in Sessions :
          /\ Seen(r, t) # NULL
          /\ Seen(r, t).version = Seen(r, target[r]).version
          /\ Seen(r, t).hash = Answered(r)
          /\ Seen(r, t).result = doc

LlmAnswers(r, doc, writesResult) ==
    /\ op[r] = "llm"
    /\ pc[r] # "idle"
    /\ Seen(r, target[r]) # NULL
    /\ Answered(r) # {}
    /\ Obtained(r, doc)
    /\ ~writesResult => Seen(r, target[r]).result = doc
    /\ LlmWrite(r, doc, writesResult)

Arrives(r, o, s, b) ==
    /\ o \in {"submit", "llm"} => s \in Sessions
    /\ o = "link" => b.user \in Users
    /\ o = "submit" /\ ResendsOverlap => Resend(s, b.ids)
    /\ Begin(r, o, s, b)

Retries(r, view) ==
    /\ pc[r] # "idle"
    /\ attempts[r] < SESSION_CODE_MAX_ATTEMPTS
    /\ view = snap[r] \/ (view = TakeSnapshot /\ pc[r] = "begun")
    /\ NextAttempt(r, view)

Step(r) ==
    \/ \E o \in Ops, s \in Sessions \cup {NULL}, b \in Body : Arrives(r, o, s, b)
    \/ \E code \in Codes : pc[r] # "idle" /\ Refuse(r, code)
    \/ \E view \in Snapshot : Retries(r, view)
    \/ \E s \in Sessions : Start(r, s)
    \/ SubmitInsert(r)
    \/ SubmitCommit(r)
    \/ LlmCall(r)
    \/ \E doc \in Document, writesResult \in BOOLEAN : LlmAnswers(r, doc, writesResult)
    \/ Link(r)

Environment ==
    \/ \E v \in Versions : Activate(v)
    \/ \E p \in Providers : Redeploy(p)

\* The tables as they are make a snapshot.
LEMMA SnapshotType == TypeOK => TakeSnapshot \in Snapshot
BY DEF TypeOK, TakeSnapshot, Snapshot

\* Every request arrives with what its handler needs.
LEMMA ArriveIsStep ==
    ASSUME NEW r \in Requests, Arrive(r)
    PROVE  Step(r)
<1>1. NoBody \in Body
  BY DEF NoBody, Body
<1>2. CASE ArriveStart(r)
  <2> PICK u \in Users \cup {NULL} : Begin(r, "start", NULL, [NoBody EXCEPT !.user = u])
    BY <1>2 DEF ArriveStart
  <2>1. [NoBody EXCEPT !.user = u] \in Body
    BY DEF NoBody, Body
  <2> QED
    BY <2>1 DEF Step, Arrives, Ops
<1>3. CASE ArriveSubmit(r)
  <2> PICK s \in Sessions, ids \in SUBSET Options :
          /\ ResendsOverlap => Resend(s, ids)
          /\ Begin(r, "submit", s, [NoBody EXCEPT !.ids = ids])
    BY <1>3 DEF ArriveSubmit
  <2> DEFINE b == [NoBody EXCEPT !.ids = ids]
  <2>1. b \in Body /\ b.ids = ids
    BY DEF NoBody, Body
  <2>2. Arrives(r, "submit", s, b)
    BY <2>1 DEF Arrives
  <2> QED
    BY <2>1, <2>2 DEF Step, Ops
<1>4. CASE ArriveLlm(r)
  <2> PICK s \in Sessions, force \in BOOLEAN : Begin(r, "llm", s, [NoBody EXCEPT !.force = force])
    BY <1>4 DEF ArriveLlm
  <2>1. [NoBody EXCEPT !.force = force] \in Body
    BY DEF NoBody, Body
  <2> QED
    BY <2>1 DEF Step, Arrives, Ops
<1>5. CASE ArriveLink(r)
  <2> PICK u \in Users, codes \in SUBSET Sessions :
          Begin(r, "link", NULL, [NoBody EXCEPT !.user = u, !.codes = codes])
    BY <1>5 DEF ArriveLink
  <2> DEFINE b == [NoBody EXCEPT !.user = u, !.codes = codes]
  <2>1. b \in Body /\ b.user = u
    BY DEF NoBody, Body
  <2>2. Arrives(r, "link", NULL, b)
    BY <2>1 DEF Arrives
  <2> QED
    BY <2>1, <2>2 DEF Step, Ops
<1> QED
  BY <1>2, <1>3, <1>4, <1>5 DEF Arrive

\* Every step of the LLM handler is a refusal, a retry, the call or an answer.
LEMMA ServeLlmIsStep ==
    ASSUME TypeOK, RequestInv, NEW r \in Requests, ServeLlm(r)
    PROVE  Step(r)
<1> USE DEF At
<1>0. snap[r] \in Snapshot /\ \A t \in Sessions : Seen(r, t) \in SessionRow \cup {NULL}
  BY DEF TypeOK, Snapshot, Seen
<1>1. CASE LlmRefused(r)
  BY <1>1 DEF LlmRefused, Codes, Step
<1>2. CASE LlmReuseOwn(r)
  <2> DEFINE doc == Seen(r, target[r]).result
  <2>1. op[r] = "llm" /\ pc[r] # "idle" /\ target[r] \in Sessions
        /\ Seen(r, target[r]) # NULL /\ Answered(r) # {}
    BY <1>2 DEF LlmReuseOwn, LlmReady, RequestInv
  <2>2. doc \in Document /\ doc.options = Answered(r)
    BY <1>0, <1>2, <2>1 DEF LlmReuseOwn, OwnHit, SessionRow
  <2>3. LlmWrite(r, doc, FALSE)
    BY <1>2 DEF LlmReuseOwn
  <2>4. LlmAnswers(r, doc, FALSE)
    BY <2>1, <2>2, <2>3 DEF LlmAnswers, Obtained
  <2> QED
    BY <2>2, <2>4 DEF Step
<1>3. CASE \E t \in Sessions : LlmReuseCandidate(r, t)
  <2> PICK t \in Sessions : LlmReuseCandidate(r, t)
    BY <1>3
  <2> DEFINE doc == Seen(r, t).result
  <2>1. op[r] = "llm" /\ pc[r] # "idle" /\ Seen(r, target[r]) # NULL /\ Answered(r) # {}
    BY DEF LlmReuseCandidate, LlmReady
  <2>2. /\ Seen(r, t) # NULL /\ doc # NULL
        /\ Seen(r, t).version = Seen(r, target[r]).version
        /\ Seen(r, t).hash = Answered(r)
    BY DEF LlmReuseCandidate, CandidateHit, Candidates
  <2>3. doc \in Document
    BY <1>0, <2>2 DEF SessionRow
  <2>4. PICK writes \in BOOLEAN : LlmWrite(r, doc, writes)
                                  /\ (~writes => Seen(r, target[r]).result = doc)
    BY DEF LlmReuseCandidate
  <2>5. LlmAnswers(r, doc, writes)
    BY <2>1, <2>2, <2>4 DEF LlmAnswers, Obtained
  <2> QED
    BY <2>3, <2>5 DEF Step
<1>4. CASE LlmCall(r)
  BY <1>4 DEF Step
<1>5. CASE LlmCallFails(r)
  <2>1. attempts[r] \in Nat
    BY DEF TypeOK, SESSION_CODE_MAX_ATTEMPTS
  <2>2. CASE attempts[r] + 1 < max_attempts
    BY <1>0, <1>5, <2>1, <2>2
       DEF LlmCallFails, max_attempts, Step, Retries, SESSION_CODE_MAX_ATTEMPTS
  <2>3. CASE ~(attempts[r] + 1 < max_attempts)
    BY <1>5, <2>3 DEF LlmCallFails, Step, Codes
  <2> QED
    BY <2>2, <2>3
<1>6. CASE LlmReturns(r)
  <2> DEFINE doc == [options |-> Answered(r), provider |-> provider]
  <2>1. op[r] = "llm" /\ pc[r] # "idle" /\ Seen(r, target[r]) # NULL /\ Answered(r) # {}
    BY <1>6 DEF LlmReturns, RequestInv
  <2>2. doc \in Document
    <3>1. target[r] \in Sessions
      BY <2>1 DEF RequestInv
    <3> QED
      BY <1>0, <3>1 DEF TypeOK, Answered, Document, Snapshot
  <2>3. LlmAnswers(r, doc, TRUE)
    BY <1>6, <2>1 DEF LlmAnswers, Obtained, LlmReturns
  <2> QED
    BY <2>2, <2>3 DEF Step
<1> QED
  BY <1>1, <1>2, <1>3, <1>4, <1>5, <1>6 DEF ServeLlm

\* Every step of the next-state relation is one of these.
LEMMA NextIsStep ==
    ASSUME TypeOK, RequestInv, Next
    PROVE  Environment \/ \E r \in Requests : Step(r)
<1> SUFFICES ASSUME NEW r \in Requests, Arrive(r) \/ BodyRefused(r) \/ Serve(r) \/ Fail(r)
             PROVE  Step(r)
  BY DEF Next, Environment
<1> USE DEF At
<1>1. CASE Arrive(r)
  BY <1>1, ArriveIsStep
<1>2. CASE ServeStart(r)
  <2>1. CASE StartRefused(r) \/ StartExhausted(r)
    BY <2>1 DEF StartRefused, StartExhausted, Codes, Step
  <2>2. CASE \E s \in Sessions : StartCollides(r, s)
    <3>1. snap[r] \in Snapshot /\ TakeSnapshot \in Snapshot
      BY SnapshotType DEF TypeOK
    <3> QED
      BY <2>2, <3>1 DEF StartCollides, Retries, Step
  <2>3. CASE \E s \in Sessions : Start(r, s)
    BY <2>3 DEF Step
  <2> QED
    BY <1>2, <2>1, <2>2, <2>3 DEF ServeStart
<1>3. CASE ServeSubmit(r)
  <2>1. CASE SubmitRefused(r) \/ SubmitDuplicate(r)
    BY <2>1 DEF SubmitRefused, SubmitDuplicate, Codes, Step
  <2>2. CASE SubmitDeadlock(r)
    <3>1. pc[r] # "idle"
      BY <2>2 DEF SubmitDeadlock, Contend
    <3> QED
      BY <2>2, <3>1 DEF SubmitDeadlock, Codes, Step
  <2> QED
    BY <1>3, <2>1, <2>2 DEF ServeSubmit, Step
<1>4. CASE ServeLlm(r)
  BY <1>4, ServeLlmIsStep
<1>5. CASE ServeLink(r)
  BY <1>5 DEF ServeLink, LinkRefused, Codes, Step
<1>6. CASE Fail(r)
  BY <1>6 DEF Fail, Codes, Step
<1>7. CASE BodyRefused(r)
  BY <1>7 DEF BodyRefused, Codes, Step
<1> QED
  BY <1>1, <1>2, <1>3, <1>4, <1>5, <1>6, <1>7 DEF Serve

-----------------------------------------------------------------------------
(* What a step does to the rows.                                           *)

\* The rows that an answer with doc may leave of a session.
RowsAfter(r, doc, writesResult) ==
    LET row == sess[target[r]] IN
    [version : {row.version}, user : {row.user},
     hash    : {IF Seen(r, target[r]).hash = Answered(r) THEN row.hash ELSE Answered(r)},
     result  : {IF writesResult THEN doc ELSE row.result},
     ended   : {TRUE}]

\* A request's answer leaves one of them.
LEMMA LlmRow ==
    ASSUME TypeOK, RequestInv, SnapshotInv, NEW r \in Requests, NEW doc \in Document,
           NEW writesResult \in BOOLEAN, LlmAnswers(r, doc, writesResult)
    PROVE  /\ target[r] \in Sessions
           /\ sess[target[r]] \in SessionRow
           /\ Answered(r) \in Hash
           /\ RowsAfter(r, doc, writesResult) \subseteq SessionRow
           /\ \E row \in RowsAfter(r, doc, writesResult) : sess' = [sess EXCEPT ![target[r]] = row]
<1> DEFINE s == target[r]
           hash == IF Seen(r, s).hash = Answered(r) THEN sess[s].hash ELSE Answered(r)
           result == IF writesResult THEN doc ELSE sess[s].result
           row == [sess[s] EXCEPT !.hash = hash, !.result = result, !.ended = TRUE]
<1>1. s \in Sessions
  BY DEF LlmAnswers, RequestInv
<1>2. sess[s] \in SessionRow
  BY <1>1 DEF LlmAnswers, SnapshotInv, TypeOK
<1>3. Answered(r) \in Hash
  BY <1>1 DEF TypeOK, Snapshot, Answered, Hash
<1>4. sess' = [sess EXCEPT ![s] = row]
  BY DEF LlmAnswers, LlmWrite
<1>5. row \in [version : {sess[s].version}, user : {sess[s].user}, hash : {hash},
               result : {result}, ended : {TRUE}]
  BY <1>2 DEF SessionRow
<1>6. RowsAfter(r, doc, writesResult) \subseteq SessionRow
  BY <1>2, <1>3 DEF RowsAfter, SessionRow
<1> QED
  BY <1>1, <1>2, <1>3, <1>4, <1>5, <1>6 DEF RowsAfter

\* A session stays, with its version; answers, a result, the end and an owner
\* stay once they are there.
Kept(s) ==
    /\ answers[s] \subseteq answers'[s]
    /\ sess[s] # NULL =>
          /\ sess'[s] # NULL
          /\ sess'[s].version = sess[s].version
          /\ sess[s].result # NULL => sess'[s].result # NULL
          /\ sess[s].ended => sess'[s].ended
          /\ sess[s].user # NULL => sess'[s].user # NULL

\* A step writes rows of the right type and takes nothing from a session.
LEMMA RowStep ==
    ASSUME TypeOK, RequestInv, SnapshotInv, NEW r \in Requests, Step(r)
    PROVE  /\ sess' \in [Sessions -> SessionRow \cup {NULL}]
           /\ answers' \in [Sessions -> SUBSET Options]
           /\ \A s \in Sessions : Kept(s)
<1>0. /\ sess \in [Sessions -> SessionRow \cup {NULL}]
      /\ answers \in [Sessions -> SUBSET Options]
      /\ NULL \notin SessionRow /\ NULL \notin Document /\ NULL \notin Users
  BY NullIsNoRecord, NullIsNoValue DEF TypeOK
<1>1. CASE UNCHANGED <<sess, answers>>
  BY <1>0, <1>1 DEF Kept
<1>2. CASE \E s \in Sessions : Start(r, s)
  <2> PICK s \in Sessions : Start(r, s)
    BY <1>2
  <2> DEFINE row == [version |-> Resolve(r), user |-> body[r].user, hash |-> {},
                     result |-> NULL, ended |-> FALSE]
  <2>1. sess' = [sess EXCEPT ![s] = row] /\ sess[s] = NULL /\ answers' = answers
        /\ Resolve(r) # NULL
    BY DEF Start
  <2>2. Resolve(r) \in Versions /\ body[r].user \in Users \cup {NULL}
    BY <2>1, FallbackIsVersion DEF TypeOK, Snapshot, Resolve, Body
  <2>3. row \in SessionRow
    BY <2>2 DEF SessionRow, Hash
  <2> QED
    BY <1>0, <2>1, <2>3 DEF Kept
<1>3. CASE SubmitCommit(r)
  <2> DEFINE s == target[r]
  <2>1. /\ s \in Sessions /\ body[r].ids \in SUBSET Options /\ sess[s] # NULL
        /\ answers' = [answers EXCEPT ![s] = @ \cup body[r].ids]
        /\ sess' = [sess EXCEPT ![s].hash = body[r].ids]
    BY <1>3 DEF SubmitCommit, At, RequestInv, TypeOK, Body, Submittable, SnapshotInv
  <2>2. sess[s] \in SessionRow
    BY <1>0, <2>1
  <2> DEFINE row == [version |-> sess[s].version, user |-> sess[s].user,
                     hash |-> body[r].ids, result |-> sess[s].result, ended |-> sess[s].ended]
  <2>3. [sess[s] EXCEPT !.hash = body[r].ids] = row /\ row \in SessionRow
    BY <2>1, <2>2 DEF SessionRow, Hash
  <2>4. sess' \in [Sessions -> SessionRow \cup {NULL}]
    BY <1>0, <2>1, <2>3
  <2>5. \A t \in Sessions : t # s => sess'[t] = sess[t]
    BY <1>0, <2>1
  <2>6. sess'[s] = row
    BY <1>0, <2>1, <2>3
  <2> QED
    BY <1>0, <2>1, <2>2, <2>3, <2>4, <2>5, <2>6 DEF Kept
<1>4. CASE \E doc \in Document, writesResult \in BOOLEAN : LlmAnswers(r, doc, writesResult)
  <2> PICK doc \in Document, writesResult \in BOOLEAN : LlmAnswers(r, doc, writesResult)
    BY <1>4
  <2> DEFINE s == target[r]
  <2>1. answers' = answers
    BY DEF LlmAnswers, LlmWrite
  <2>2. /\ s \in Sessions /\ sess[s] \in SessionRow
        /\ RowsAfter(r, doc, writesResult) \subseteq SessionRow
    BY LlmRow
  <2>3. PICK row \in RowsAfter(r, doc, writesResult) : sess' = [sess EXCEPT ![s] = row]
    BY LlmRow
  <2>4. /\ row \in SessionRow /\ row.version = sess[s].version /\ row.user = sess[s].user
        /\ row.ended /\ row.result \in {doc, sess[s].result}
    BY <2>2, <2>3 DEF RowsAfter
  <2>5. sess'[s] = row /\ \A t \in Sessions : t # s => sess'[t] = sess[t]
    BY <1>0, <2>2, <2>3
  <2>6. sess' \in [Sessions -> SessionRow \cup {NULL}]
    BY <1>0, <2>3, <2>4
  <2> QED
    BY <1>0, <2>1, <2>2, <2>4, <2>5, <2>6 DEF Kept
<1>5. CASE Link(r)
  <2> DEFINE linkable == {s \in body[r].codes : Seen(r, s) # NULL /\ Seen(r, s).user = NULL}
  <2>1. /\ body[r].user \in Users
        /\ body[r].codes \subseteq Sessions
        /\ answers' = answers
        /\ sess' = [s \in Sessions |->
              IF s \in linkable THEN [sess[s] EXCEPT !.user = body[r].user, !.ended = TRUE]
              ELSE sess[s]]
    BY <1>5 DEF Link, At, RequestInv, TypeOK, Body
  <2>2. ASSUME NEW s \in Sessions
        PROVE  sess'[s] \in SessionRow \cup {NULL} /\ Kept(s)
    <3>1. CASE s \notin linkable
      BY <1>0, <2>1, <3>1 DEF Kept
    <3>2. CASE s \in linkable
      <4>1. sess[s] \in SessionRow
        BY <1>0, <3>2 DEF SnapshotInv
      <4>2. sess'[s] = [version |-> sess[s].version, user |-> body[r].user,
                hash |-> sess[s].hash, result |-> sess[s].result, ended |-> TRUE]
        BY <2>1, <3>2, <4>1 DEF SessionRow
      <4> QED
        BY <1>0, <2>1, <4>1, <4>2 DEF Kept, SessionRow
    <3> QED
      BY <3>1, <3>2
  <2> QED
    BY <1>0, <2>1, <2>2
<1> QED
  BY <1>1, <1>2, <1>3, <1>4, <1>5
     DEF Step, Arrives, Begin, Refuse, Retries, NextAttempt, SubmitInsert, LlmCall, GoTo, tables

\* Only the commit of a batch adds answers.
LEMMA AnswersStep ==
    ASSUME NEW r \in Requests, Step(r)
    PROVE  UNCHANGED answers \/ SubmitCommit(r)
BY DEF Step, Arrives, Begin, Refuse, Retries, NextAttempt, Start, SubmitInsert, LlmCall,
       LlmAnswers, LlmWrite, Link, GoTo, tables

\* A step of one request leaves the others where they are.
LEMMA OthersStep ==
    ASSUME TypeOK, NEW r \in Requests, Step(r), NEW q \in Requests \ {r}
    PROVE  /\ pc'[q] = pc[q] /\ op'[q] = op[q] /\ target'[q] = target[q]
           /\ body'[q] = body[q] /\ snap'[q] = snap[q] /\ reply'[q] = reply[q]
<1> USE DEF TypeOK, Answer, Close, GoTo
<1>1. CASE \E o \in Ops, s \in Sessions \cup {NULL}, b \in Body : Arrives(r, o, s, b)
  BY <1>1 DEF Arrives, Begin
<1>2. CASE \E code \in Codes : pc[r] # "idle" /\ Refuse(r, code)
  BY <1>2 DEF Refuse
<1>3. CASE \E view \in Snapshot : Retries(r, view)
  BY <1>3 DEF Retries, NextAttempt
<1>4. CASE \E s \in Sessions : Start(r, s)
  BY <1>4 DEF Start
<1>5. CASE SubmitInsert(r) \/ SubmitCommit(r)
  BY <1>5 DEF SubmitInsert, SubmitCommit
<1>6. CASE LlmCall(r)
  BY <1>6 DEF LlmCall
<1>7. CASE \E doc \in Document, writesResult \in BOOLEAN : LlmAnswers(r, doc, writesResult)
  BY <1>7 DEF LlmAnswers, LlmWrite
<1>8. CASE Link(r)
  BY <1>8 DEF Link
<1>9. QED
  BY <1>1, <1>2, <1>3, <1>4, <1>5, <1>6, <1>7, <1>8 DEF Step

\* Where the request that takes the step is afterwards.
LEMMA OwnStep ==
    ASSUME TypeOK, NEW r \in Requests, Step(r)
    PROVE  \/ pc'[r] = "idle" /\ op'[r] = "none" /\ snap'[r] = NoSnapshot
           \/ /\ pc'[r] = "begun" /\ op'[r] \in Ops /\ snap'[r] = TakeSnapshot
              /\ op'[r] \in {"submit", "llm"} => target'[r] \in Sessions
              /\ op'[r] = "link" => body'[r].user \in Users
              /\ op'[r] = "submit" /\ ResendsOverlap => Resend(target'[r], body'[r].ids)
              /\ UNCHANGED tables
           \/ /\ pc'[r] = pc[r] /\ UNCHANGED <<tables, op, target, body>>
              /\ snap'[r] = snap[r] \/ (snap'[r] = TakeSnapshot /\ pc[r] = "begun")
           \/ (SubmitInsert(r) \/ LlmCall(r)) /\ snap'[r] = snap[r]
<1>1. CASE \E o \in Ops, s \in Sessions \cup {NULL}, b \in Body : Arrives(r, o, s, b)
  BY <1>1 DEF TypeOK, Arrives, Begin, Ops
<1>2. CASE \E code \in Codes : Close(r, code)
  BY <1>2 DEF TypeOK, Close
<1>3. CASE \E view \in Snapshot : Retries(r, view)
  BY <1>3 DEF TypeOK, Retries, NextAttempt
<1>4. CASE SubmitInsert(r) \/ LlmCall(r)
  BY <1>4 DEF TypeOK, SubmitInsert, LlmCall, GoTo
<1> QED
  BY <1>1, <1>2, <1>3, <1>4
     DEF Step, Refuse, Answer, Start, SubmitCommit, LlmAnswers, LlmWrite, Link, Codes

-----------------------------------------------------------------------------
(* The inductive invariant, conjunct by conjunct.                          *)

\* Every step keeps the types.
LEMMA TypeStep ==
    ASSUME TypeOK, RequestInv, SnapshotInv, NEW r \in Requests, Step(r)
    PROVE  TypeOK'
<1>1. /\ sess' \in [Sessions -> SessionRow \cup {NULL}]
      /\ answers' \in [Sessions -> SUBSET Options]
  BY RowStep
<1>2. CASE \E o \in Ops, s \in Sessions \cup {NULL}, b \in Body : Arrives(r, o, s, b)
  BY <1>2, SnapshotType DEF TypeOK, Arrives, Begin, tables, Codes
<1>3. CASE \E view \in Snapshot : Retries(r, view)
  BY <1>3 DEF TypeOK, Retries, NextAttempt, tables, SESSION_CODE_MAX_ATTEMPTS
<1>4. CASE SubmitInsert(r) \/ LlmCall(r)
  BY <1>4 DEF TypeOK, SubmitInsert, LlmCall, GoTo, tables
<1>5. ASSUME NEW code \in Codes, Close(r, code)
      PROVE  /\ pc' \in [Requests -> {"idle", "begun", "inserted", "calling"}]
             /\ op' \in [Requests -> Ops \cup {"none"}]
             /\ target' \in [Requests -> Sessions \cup {NULL}]
             /\ body' \in [Requests -> Body]
             /\ snap' \in [Requests -> Snapshot]
             /\ attempts' \in [Requests -> 0..SESSION_CODE_MAX_ATTEMPTS]
             /\ answer' \in [Requests -> Codes]
  <2>1. NoSnapshot \in Snapshot /\ NoBody \in Body
    BY DEF NoSnapshot, Snapshot, NoBody, Body
  <2> QED
    BY <1>5, <2>1 DEF TypeOK, Close, SESSION_CODE_MAX_ATTEMPTS
<1>6. CASE \E code \in Codes : Answer(r, code) /\ UNCHANGED <<active, provider>>
  <2> PICK code \in Codes : Answer(r, code) /\ UNCHANGED <<active, provider>>
    BY <1>6
  <2>1. Close(r, code) /\ reply' = reply
    BY DEF Answer
  <2> QED
    BY <1>1, <1>5, <2>1 DEF TypeOK
<1>7. CASE \E doc \in Document, writesResult \in BOOLEAN : LlmAnswers(r, doc, writesResult)
  <2> PICK doc \in Document, writesResult \in BOOLEAN : LlmAnswers(r, doc, writesResult)
    BY <1>7
  <2>1. /\ Close(r, "ok") /\ UNCHANGED <<active, provider>>
        /\ reply' = [reply EXCEPT ![r] = [asked |-> Answered(r), doc |-> doc]]
    BY DEF LlmAnswers, LlmWrite
  <2>2. [asked |-> Answered(r), doc |-> doc] \in Reply
    BY LlmRow DEF Reply, Hash
  <2> QED
    BY <1>1, <1>5, <2>1, <2>2 DEF TypeOK, Codes
<1> QED
  BY <1>2, <1>3, <1>4, <1>6, <1>7
     DEF Step, Refuse, Start, SubmitCommit, Link, Codes, tables

\* What a snapshot shows stays true of what the tables have kept since.
LEMMA SnapshotStep ==
    ASSUME IInv, NEW r \in Requests, Step(r)
    PROVE  SnapshotInv'
<1> SUFFICES ASSUME NEW q \in Requests
             PROVE  /\ FitsVersion(snap'[q].sess, snap'[q].answers)
                    /\ \A s \in Sessions :
                          /\ snap'[q].sess[s] # NULL =>
                                 /\ sess'[s] # NULL
                                 /\ sess'[s].version = snap'[q].sess[s].version
                          /\ snap'[q].answers[s] \subseteq answers'[s]
  BY DEF SnapshotInv, Seen, FitsVersion
<1>1. \A s \in Sessions : Kept(s)
  BY RowStep DEF IInv
<1>2. snap'[q] = snap[q] \/ snap'[q] = NoSnapshot \/ snap'[q] = TakeSnapshot
  <2>1. CASE q # r
    BY <2>1, OthersStep DEF IInv
  <2>2. CASE q = r
    BY <2>2, OwnStep DEF IInv
  <2> QED
    BY <2>1, <2>2
<1>3. CASE snap'[q] = snap[q]
  BY <1>1, <1>3 DEF IInv, SnapshotInv, Seen, Kept
<1>4. CASE snap'[q] = NoSnapshot
  BY <1>4 DEF NoSnapshot, FitsVersion
<1>5. CASE snap'[q] = TakeSnapshot
  BY <1>1, <1>5 DEF TakeSnapshot, IInv, WithinVersion, Kept
<1> QED
  BY <1>2, <1>3, <1>4, <1>5

\* A batch that waits for its UPDATE shares no key with another one.
LEMMA DisjointStep ==
    ASSUME IInv, NEW r \in Requests, Step(r)
    PROVE  BatchesDisjoint'
<1> SUFFICES ASSUME NEW p \in Requests, NEW q \in Requests, p # q,
                    pc'[p] = "inserted", pc'[q] = "inserted", target'[p] = target'[q]
             PROVE  body'[p].ids \cap body'[q].ids = {}
  BY DEF BatchesDisjoint
<1>1. ASSUME NEW k \in Requests, k # r
      PROVE  pc'[k] = pc[k] /\ target'[k] = target[k] /\ body'[k] = body[k]
  BY <1>1, OthersStep DEF IInv
<1>2. pc'[r] = "inserted" =>
          /\ target'[r] = target[r] /\ body'[r] = body[r]
          /\ pc[r] = "inserted"
             \/ \A k \in Requests : Inserted(k, target[r]) => body[r].ids \cap body[k].ids = {}
  BY OwnStep DEF SubmitInsert, LlmCall, GoTo, IInv, TypeOK
<1>3. ASSUME NEW k \in Requests, k # r, pc'[k] = "inserted", pc'[r] = "inserted",
             target'[k] = target'[r]
      PROVE  body'[r].ids \cap body'[k].ids = {}
  BY <1>1, <1>2, <1>3 DEF IInv, BatchesDisjoint, Inserted
<1>4. CASE p = r
  BY <1>3, <1>4
<1>5. CASE q = r
  BY <1>3, <1>5
<1>6. CASE p # r /\ q # r
  BY <1>1, <1>6 DEF IInv, BatchesDisjoint
<1> QED
  BY <1>4, <1>5, <1>6

\* A request keeps what it has established: batches that wait have disjoint
\* keys, and a retry that takes another snapshot is still before its checks.
LEMMA RequestStep ==
    ASSUME IInv, NEW r \in Requests, Step(r)
    PROVE  RequestInv'
<1> DEFINE Inv(q) ==
        /\ pc[q] # "idle" => op[q] \in Ops
        /\ op[q] \in {"submit", "llm"} => target[q] \in Sessions
        /\ op[q] = "link" => body[q].user \in Users
        /\ pc[q] = "inserted" =>
               /\ op[q] = "submit"
               /\ Submittable(q)
               /\ body[q].ids \cap answers[target[q]] = {}
        /\ pc[q] = "calling" =>
               /\ op[q] = "llm"
               /\ Seen(q, target[q]) # NULL
               /\ Answered(q) # {}
<1>1. \A q \in Requests : Inv(q)
  BY DEF IInv, RequestInv
<1>2. ASSUME NEW q \in Requests \ {r}
      PROVE  Inv(q)'
  <2>1. /\ pc'[q] = pc[q] /\ op'[q] = op[q] /\ target'[q] = target[q]
        /\ body'[q] = body[q] /\ snap'[q] = snap[q]
    BY OthersStep DEF IInv
  <2>2. pc[q] = "inserted" => body[q].ids \cap answers'[target[q]] = {}
    <3>1. CASE UNCHANGED answers
      BY <1>1, <3>1
    <3>2. CASE SubmitCommit(r)
      <4>1. pc[q] = "inserted" /\ target[q] = target[r] => body[q].ids \cap body[r].ids = {}
        BY <3>2 DEF SubmitCommit, At, IInv, BatchesDisjoint
      <4>2. pc[q] = "inserted" => target[q] \in Sessions
        BY <1>1
      <4> QED
        BY <1>1, <3>2, <4>1, <4>2 DEF SubmitCommit, IInv, TypeOK
    <3> QED
      BY <3>1, <3>2, AnswersStep
  <2> QED
    BY <1>1, <2>1, <2>2 DEF Submittable, Seen, Answered
<1>3. Inv(r)'
  <2>1. CASE pc'[r] = "idle" /\ op'[r] = "none"
    BY <2>1
  <2>2. CASE /\ pc'[r] = "begun" /\ op'[r] \in Ops
             /\ op'[r] \in {"submit", "llm"} => target'[r] \in Sessions
             /\ op'[r] = "link" => body'[r].user \in Users
    BY <2>2
  <2>3. CASE /\ pc'[r] = pc[r] /\ UNCHANGED <<tables, op, target, body>>
             /\ snap'[r] = snap[r] \/ pc[r] = "begun"
    BY <1>1, <2>3 DEF tables, Submittable, Seen, Answered
  <2>4. CASE SubmitInsert(r) /\ snap'[r] = snap[r]
    BY <1>1, <2>4 DEF SubmitInsert, At, GoTo, IInv, TypeOK, tables, Submittable, Seen
  <2>5. CASE LlmCall(r) /\ snap'[r] = snap[r]
    BY <1>1, <2>5 DEF LlmCall, LlmReady, At, GoTo, IInv, TypeOK, tables, Seen, Answered
  <2> QED
    BY <2>1, <2>2, <2>3, <2>4, <2>5, OwnStep DEF IInv
<1> QED
  BY <1>2, <1>3 DEF RequestInv

\* Submitted options are checked against the version, and a document comes
\* from a session of the same version.
LEMMA WithinStep ==
    ASSUME IInv, NEW r \in Requests, Step(r)
    PROVE  WithinVersion'
<1> DEFINE Fits(row, given) ==
        IF row = NULL THEN given = {}
        ELSE /\ given \cup row.hash \subseteq OptionsOf[row.version]
             /\ row.result # NULL => /\ row.result.options # {}
                                     /\ row.result.options \subseteq OptionsOf[row.version]
<1>0. /\ sess \in [Sessions -> SessionRow \cup {NULL}]
      /\ answers \in [Sessions -> SUBSET Options]
      /\ NULL \notin SessionRow /\ NULL \notin Document
      /\ \A s \in Sessions : Fits(sess[s], answers[s])
  BY NullIsNoRecord DEF IInv, TypeOK, WithinVersion, FitsVersion
<1> SUFFICES ASSUME NEW s \in Sessions
             PROVE  Fits(sess'[s], answers'[s])
  BY DEF WithinVersion, FitsVersion
<1>1. CASE UNCHANGED <<sess, answers>>
  BY <1>0, <1>1
<1>2. CASE \E t \in Sessions : Start(r, t)
  <2> PICK t \in Sessions : Start(r, t)
    BY <1>2
  <2>1. CASE s = t
    BY <1>0, <2>1 DEF Start
  <2>2. CASE s # t
    BY <1>0, <2>2 DEF Start
  <2> QED
    BY <2>1, <2>2
<1>3. CASE SubmitCommit(r)
  <2> DEFINE t == target[r]
             ids == body[r].ids
             row == [sess[t] EXCEPT !.hash = ids]
  <2>1. /\ t \in Sessions /\ sess[t] # NULL
        /\ ids \subseteq OptionsOf[sess[t].version]
        /\ answers' = [answers EXCEPT ![t] = @ \cup ids]
        /\ sess' = [sess EXCEPT ![t] = row]
    BY <1>3 DEF SubmitCommit, At, IInv, RequestInv, Submittable, SnapshotInv
  <2>2. sess[t] \in SessionRow /\ ids \in Hash
    BY <1>0, <2>1 DEF IInv, TypeOK, Body, Hash
  <2>3. row \in SessionRow /\ row.hash = ids /\ row.version = sess[t].version
        /\ row.result = sess[t].result
    BY <2>2 DEF SessionRow
  <2>4. CASE s = t
    BY <1>0, <2>1, <2>3, <2>4
  <2>5. CASE s # t
    BY <1>0, <2>1, <2>5
  <2> QED
    BY <2>4, <2>5
<1>4. CASE \E doc \in Document, writesResult \in BOOLEAN : LlmAnswers(r, doc, writesResult)
  <2> PICK doc \in Document, writesResult \in BOOLEAN : LlmAnswers(r, doc, writesResult)
    BY <1>4
  <2> DEFINE t == target[r]
  <2>1. /\ t \in Sessions /\ sess[t] \in SessionRow
        /\ RowsAfter(r, doc, writesResult) \subseteq SessionRow
    BY LlmRow DEF IInv
  <2>2. PICK row \in RowsAfter(r, doc, writesResult) : sess' = [sess EXCEPT ![t] = row]
    BY LlmRow DEF IInv
  <2>3. answers' = answers
    BY DEF LlmAnswers, LlmWrite
  <2>4. Seen(r, t) # NULL /\ Seen(r, t).version = sess[t].version /\ Answered(r) # {}
    BY <2>1 DEF LlmAnswers, IInv, SnapshotInv
  <2>5. Answered(r) \subseteq OptionsOf[sess[t].version]
    BY <2>1, <2>4 DEF IInv, SnapshotInv, FitsVersion, Answered, Seen
  <2>6. doc.options # {} /\ doc.options \subseteq OptionsOf[sess[t].version]
    <3>1. CASE doc.options = Answered(r)
      BY <2>4, <2>5, <3>1
    <3>2. CASE \E u \in Sessions : /\ Seen(r, u) # NULL
                                   /\ Seen(r, u).version = Seen(r, t).version
                                   /\ Seen(r, u).result = doc
      BY <1>0, <2>4, <3>2 DEF IInv, SnapshotInv, FitsVersion, Seen
    <3> QED
      BY <3>1, <3>2 DEF LlmAnswers, Obtained
  <2>7. /\ row # NULL /\ row.version = sess[t].version
        /\ row.hash \in {sess[t].hash, Answered(r)}
        /\ row.result \in {doc, sess[t].result}
    BY <1>0, <2>1, <2>2 DEF RowsAfter
  <2>8. CASE s = t
    BY <1>0, <2>1, <2>2, <2>3, <2>5, <2>6, <2>7, <2>8
  <2>9. CASE s # t
    BY <1>0, <2>1, <2>2, <2>3, <2>9
  <2> QED
    BY <2>8, <2>9
<1>5. CASE Link(r)
  <2> DEFINE linkable == {t \in body[r].codes : Seen(r, t) # NULL /\ Seen(r, t).user = NULL}
             row == [sess[s] EXCEPT !.user = body[r].user, !.ended = TRUE]
  <2>1. /\ body[r].user \in Users
        /\ answers' = answers
        /\ sess'[s] = IF s \in linkable THEN row ELSE sess[s]
    BY <1>5 DEF Link, At, IInv, RequestInv, TypeOK
  <2>2. CASE s \in linkable
    <3>1. sess[s] \in SessionRow
      BY <1>0, <2>2 DEF IInv, SnapshotInv
    <3>2. row \in SessionRow /\ row.version = sess[s].version /\ row.hash = sess[s].hash
          /\ row.result = sess[s].result
      BY <2>1, <3>1 DEF SessionRow
    <3> QED
      BY <1>0, <2>1, <2>2, <3>1, <3>2
  <2>3. CASE s \notin linkable
    BY <1>0, <2>1, <2>3
  <2> QED
    BY <2>2, <2>3
<1> QED
  BY <1>1, <1>2, <1>3, <1>4, <1>5
     DEF Step, Arrives, Begin, Refuse, Retries, NextAttempt, SubmitInsert, LlmCall, GoTo, tables

\* An activation and a deployment leave the sessions alone.
LEMMA EnvironmentStep ==
    ASSUME IInv, Environment
    PROVE  IInv' /\ UNCHANGED <<sess, answers, reply>>
<1>1. CASE \E v \in Versions : Activate(v)
  BY <1>1 DEF Activate, requests, IInv, TypeOK, SnapshotInv, RequestInv, BatchesDisjoint,
              WithinVersion, FitsVersion, Seen, Submittable, Answered
<1>2. CASE \E p \in Providers : Redeploy(p)
  <2> PICK p \in Providers : Redeploy(p)
    BY <1>2
  <2>1. TypeOK'
    <3>1. NoSnapshot \in Snapshot /\ NoBody \in Body
      BY DEF NoSnapshot, Snapshot, NoBody, Body
    <3> QED
      BY <3>1 DEF Redeploy, IInv, TypeOK, Codes, SESSION_CODE_MAX_ATTEMPTS
  <2>2. SnapshotInv'
    BY DEF Redeploy, SnapshotInv, NoSnapshot, FitsVersion, Seen
  <2>3. RequestInv' /\ BatchesDisjoint'
    BY DEF Redeploy, RequestInv, BatchesDisjoint
  <2>4. WithinVersion' /\ UNCHANGED <<sess, answers, reply>>
    BY DEF Redeploy, IInv, WithinVersion, FitsVersion
  <2> QED
    BY <2>1, <2>2, <2>3, <2>4 DEF IInv
<1> QED
  BY <1>1, <1>2 DEF Environment

-----------------------------------------------------------------------------
(* The invariant of the specification.                                     *)

\* The empty database satisfies the invariant.
LEMMA InitIInv == Init => IInv
<1> SUFFICES ASSUME Init PROVE IInv
  OBVIOUS
<1>1. TypeOK
  <2>1. NoSnapshot \in Snapshot /\ NoBody \in Body
    BY DEF NoSnapshot, Snapshot, NoBody, Body
  <2> QED
    BY <2>1 DEF Init, TypeOK, Codes, SESSION_CODE_MAX_ATTEMPTS
<1>2. SnapshotInv
  BY DEF Init, SnapshotInv, NoSnapshot, FitsVersion, Seen
<1>3. RequestInv /\ BatchesDisjoint
  BY DEF Init, RequestInv, BatchesDisjoint
<1>4. WithinVersion
  BY DEF Init, WithinVersion, FitsVersion
<1> QED
  BY <1>1, <1>2, <1>3, <1>4 DEF IInv

\* Every step keeps the invariant and takes nothing from a session.
LEMMA StepIInv == IInv /\ [Next]_vars => IInv' /\ \A s \in Sessions : Kept(s)
<1> SUFFICES ASSUME IInv, [Next]_vars PROVE IInv' /\ \A s \in Sessions : Kept(s)
  OBVIOUS
<1>1. CASE Environment
  BY <1>1, EnvironmentStep DEF Kept
<1>2. CASE \E r \in Requests : Step(r)
  <2> PICK r \in Requests : Step(r)
    BY <1>2
  <2>1. TypeOK' /\ \A s \in Sessions : Kept(s)
    BY TypeStep, RowStep DEF IInv
  <2> QED
    BY <2>1, SnapshotStep, RequestStep, DisjointStep, WithinStep DEF IInv
<1>3. CASE UNCHANGED vars
  BY <1>3 DEF vars, IInv, TypeOK, SnapshotInv, RequestInv, BatchesDisjoint, WithinVersion,
              FitsVersion, Seen, Submittable, Answered, Kept
<1>4. CASE Next
  BY <1>1, <1>2, <1>4, NextIsStep DEF IInv
<1> QED
  BY <1>3, <1>4

\* Batches, results and retries of any number of requests leave a session
\* with answers and results of its own version only.
THEOREM InvariantHolds == Spec => []IInv
<1>1. IInv /\ [Next]_vars => IInv'
  BY StepIInv
<1> QED
  BY <1>1, InitIInv, PTL DEF Spec

\* Type correctness of the tables and of the requests in flight.
THEOREM TypeCorrect == Spec => []TypeOK
<1>1. IInv => TypeOK
  BY DEF IInv
<1> QED
  BY <1>1, InvariantHolds, PTL

\* No request takes from a session its version, its answers or its result.
THEOREM SessionsKept == Spec => NothingLost
<1>1. IInv /\ [Next]_vars =>
          [\A s \in Sessions : sess[s] # NULL =>
              /\ sess'[s] # NULL
              /\ sess'[s].version = sess[s].version
              /\ answers[s] \subseteq answers'[s]
              /\ sess[s].result # NULL => sess'[s].result # NULL
              /\ sess[s].ended => sess'[s].ended
              /\ sess[s].user # NULL => sess'[s].user # NULL]_vars
  BY StepIInv DEF Kept
<1> QED
  BY <1>1, InvariantHolds, PTL DEF Spec, NothingLost

-----------------------------------------------------------------------------
(* The owner, when no two users link one session at a time.                *)

\* Only a link changes the owner of a session: its snapshot had none.
LEMMA OwnerStep ==
    ASSUME IInv, NEW r \in Requests, Step(r), NEW s \in Sessions, sess[s] # NULL
    PROVE  \/ sess'[s].user = sess[s].user
           \/ /\ Linking(r, s) /\ Seen(r, s) # NULL /\ Seen(r, s).user = NULL
              /\ sess'[s].user = body[r].user
              /\ op'[r] = "none"
<1>0. /\ sess \in [Sessions -> SessionRow \cup {NULL}] /\ sess[s] \in SessionRow
      /\ DOMAIN sess[s] = {"version", "user", "hash", "result", "ended"}
  <2>1. sess \in [Sessions -> SessionRow \cup {NULL}]
    BY DEF IInv, TypeOK
  <2> QED
    BY <2>1 DEF SessionRow
<1>1. CASE UNCHANGED sess
  BY <1>1
<1>2. CASE \E t \in Sessions : Start(r, t)
  BY <1>0, <1>2 DEF Start
<1>3. CASE SubmitCommit(r)
  <2>1. sess' = [sess EXCEPT ![target[r]].hash = body[r].ids]
    BY <1>3 DEF SubmitCommit
  <2> QED
    BY <1>0, <2>1
<1>4. CASE \E doc \in Document, writesResult \in BOOLEAN : LlmAnswers(r, doc, writesResult)
  <2> PICK doc \in Document, writesResult \in BOOLEAN : LlmAnswers(r, doc, writesResult)
    BY <1>4
  <2>1. PICK row \in RowsAfter(r, doc, writesResult) : sess' = [sess EXCEPT ![target[r]] = row]
    BY LlmRow DEF IInv
  <2>2. row.user = sess[target[r]].user
    BY DEF RowsAfter
  <2> QED
    BY <1>0, <2>1, <2>2
<1>5. CASE Link(r)
  <2> DEFINE linkable == {t \in body[r].codes : Seen(r, t) # NULL /\ Seen(r, t).user = NULL}
  <2>1. /\ op[r] = "link" /\ op'[r] = "none"
        /\ sess'[s] = IF s \in linkable THEN [sess[s] EXCEPT !.user = body[r].user, !.ended = TRUE]
                      ELSE sess[s]
    BY <1>5 DEF Link, At, Answer, Close, IInv, TypeOK
  <2>2. CASE s \in linkable
    <3>1. sess'[s].user = body[r].user
      BY <1>0, <2>1, <2>2
    <3> QED
      BY <2>1, <2>2, <3>1 DEF Linking
  <2>3. CASE s \notin linkable
    BY <2>1, <2>3
  <2> QED
    BY <2>2, <2>3
<1> QED
  BY <1>1, <1>2, <1>3, <1>4, <1>5
     DEF Step, Arrives, Begin, Refuse, Retries, NextAttempt, SubmitInsert, LlmCall, GoTo, tables

\* A link that has its session to its user reads the owner as it is.
LEMMA LinkerStep ==
    ASSUME IInv, IInv', OneUserLinks, LinksSeeTheOwner, NEW r \in Requests, Step(r)
    PROVE  LinksSeeTheOwner'
<1> SUFFICES ASSUME NEW q \in Requests, NEW s \in Sessions,
                    Linking(q, s)', Seen(q, s)' # NULL
             PROVE  sess'[s].user \in {Seen(q, s)'.user, body'[q].user}
  BY DEF LinksSeeTheOwner
<1>1. CASE q # r
  <2>1. /\ op'[q] = op[q] /\ body'[q] = body[q] /\ snap'[q] = snap[q]
    BY <1>1, OthersStep DEF IInv
  <2>2. Linking(q, s) /\ Seen(q, s) # NULL /\ Seen(q, s)' = Seen(q, s)
    BY <2>1 DEF Linking, Seen
  <2>3. sess[s] # NULL /\ sess[s].user \in {Seen(q, s).user, body[q].user}
    BY <2>2 DEF LinksSeeTheOwner, IInv, SnapshotInv
  <2>4. CASE sess'[s].user = sess[s].user
    BY <2>1, <2>2, <2>3, <2>4
  <2>5. CASE Linking(r, s) /\ sess'[s].user = body[r].user
    BY <2>1, <2>2, <2>5 DEF OneUserLinks
  <2> QED
    BY <2>3, <2>4, <2>5, OwnerStep
<1>2. CASE q = r
  <2>1. CASE snap'[r] = TakeSnapshot /\ UNCHANGED tables
    BY <1>2, <2>1 DEF TakeSnapshot, Seen, tables
  <2>2. CASE pc'[r] = pc[r] /\ snap'[r] = snap[r] /\ UNCHANGED <<tables, op, target, body>>
    BY <1>2, <2>2 DEF LinksSeeTheOwner, Linking, Seen, tables
  <2>3. CASE op'[r] = "none"
    BY <1>2, <2>3 DEF Linking
  <2>4. CASE SubmitInsert(r) \/ LlmCall(r)
    BY <1>2, <2>4 DEF SubmitInsert, LlmCall, LlmReady, GoTo, At, Linking
  <2> QED
    BY <2>1, <2>2, <2>3, <2>4, OwnStep DEF IInv
<1> QED
  BY <1>1, <1>2

\* A link sees who owns its sessions, whatever other requests overlap.
LEMMA LinkersHold == Spec /\ []OneUserLinks => []LinksSeeTheOwner
<1>1. Init => LinksSeeTheOwner
  BY DEF Init, LinksSeeTheOwner, Linking
<1>2. IInv /\ IInv' /\ OneUserLinks /\ LinksSeeTheOwner /\ [Next]_vars => LinksSeeTheOwner'
  <2> SUFFICES ASSUME IInv, IInv', OneUserLinks, LinksSeeTheOwner, [Next]_vars
               PROVE  LinksSeeTheOwner'
    OBVIOUS
  <2>1. CASE UNCHANGED vars
    BY <2>1 DEF vars, LinksSeeTheOwner, Linking, Seen
  <2>2. CASE \E v \in Versions : Activate(v)
    BY <2>2 DEF Activate, requests, LinksSeeTheOwner, Linking, Seen
  <2>3. CASE \E p \in Providers : Redeploy(p)
    BY <2>3 DEF Redeploy, LinksSeeTheOwner, Linking
  <2>4. CASE \E r \in Requests : Step(r)
    BY <2>4, LinkerStep
  <2> QED
    BY <2>1, <2>2, <2>3, <2>4, NextIsStep DEF IInv, Environment
<1> QED
  BY <1>1, <1>2, InvariantHolds, PTL DEF Spec

\* As long as no two users link one session at a time, the owner of a session never changes.
THEOREM OwnersStay == Spec /\ []OneUserLinks => OwnerNeverChanges
<1>1. IInv /\ OneUserLinks /\ LinksSeeTheOwner /\ [Next]_vars =>
          [\A s \in Sessions :
              sess[s] # NULL /\ sess[s].user # NULL => sess'[s].user = sess[s].user]_vars
  <2> SUFFICES ASSUME IInv, OneUserLinks, LinksSeeTheOwner, Next,
                      NEW s \in Sessions, sess[s] # NULL, sess[s].user # NULL
               PROVE  sess'[s].user = sess[s].user
    OBVIOUS
  <2>1. CASE Environment
    BY <2>1 DEF Environment, Activate, Redeploy
  <2>2. CASE \E r \in Requests : Step(r)
    <3> PICK r \in Requests : Step(r)
      BY <2>2
    <3>1. CASE Linking(r, s) /\ Seen(r, s) # NULL /\ Seen(r, s).user = NULL
               /\ sess'[s].user = body[r].user
      BY <3>1 DEF LinksSeeTheOwner
    <3> QED
      BY <3>1, OwnerStep
  <2> QED
    BY <2>1, <2>2, NextIsStep DEF IInv
<1> QED
  BY <1>1, InvariantHolds, LinkersHold, PTL DEF Spec, OwnerNeverChanges

-----------------------------------------------------------------------------
(* The cache, when answers that are sent again share one with the first.   *)

\* The answers a request works on are all that the session will ever have,
\* and any document it obtains is about them.
LEMMA DocumentFits ==
    ASSUME CacheInv, NEW r \in Requests, NEW doc \in Document, NEW writesResult \in BOOLEAN,
           LlmAnswers(r, doc, writesResult)
    PROVE  /\ target[r] \in Sessions
           /\ Answered(r) # {}
           /\ Answered(r) = answers[target[r]]
           /\ doc.options = Answered(r)
<1>1. target[r] \in Sessions /\ Answered(r) # {}
  BY DEF LlmAnswers, CacheInv, IInv, RequestInv
<1>2. Answered(r) = answers[target[r]]
  BY <1>1 DEF CacheInv, BatchInv, Answered
<1>3. CASE \E t \in Sessions : /\ Seen(r, t) # NULL
                               /\ Seen(r, t).hash = Answered(r)
                               /\ Seen(r, t).result = doc
  <2> PICK t \in Sessions : /\ Seen(r, t) # NULL
                            /\ Seen(r, t).hash = Answered(r)
                            /\ Seen(r, t).result = doc
    BY <1>3
  <2>1. doc # NULL
    BY NullIsNoRecord
  <2>2. FitsAnswers(snap[r].sess, snap[r].answers)
    BY DEF CacheInv, BatchInv
  <2> QED
    BY <1>1, <1>2, <2>1, <2>2 DEF FitsAnswers, Seen
<1> QED
  BY <1>1, <1>2, <1>3 DEF LlmAnswers, Obtained

\* A batch that is committed is the first and only one of its session.
LEMMA BatchIsFirst ==
    ASSUME CacheInv, NEW r \in Requests, SubmitCommit(r)
    PROVE  /\ target[r] \in Sessions
           /\ sess[target[r]] # NULL
           /\ answers[target[r]] = {}
           /\ body[r].ids # {}
           /\ answers' = [answers EXCEPT ![target[r]] = body[r].ids]
<1>1. /\ target[r] \in Sessions /\ sess[target[r]] # NULL
      /\ body[r].ids # {}
      /\ body[r].ids \cap answers[target[r]] = {}
  BY DEF SubmitCommit, At, CacheInv, IInv, RequestInv, Submittable, SnapshotInv
<1>2. CommonOption(answers[target[r]], body[r].ids)
  BY DEF SubmitCommit, At, CacheInv, BatchInv, Resend
<1>3. answers[target[r]] = {}
  BY <1>1, <1>2 DEF CommonOption
<1> QED
  BY <1>1, <1>3 DEF SubmitCommit

\* The stored hash and result of a session stay those of its answers.
LEMMA CacheStep ==
    ASSUME CacheInv, NEW r \in Requests, Step(r)
    PROVE  CacheSound'
<1> DEFINE Fits(row, given) ==
        row # NULL => /\ row.hash = given
                      /\ row.result # NULL => row.result.options = given /\ given # {}
<1>0. /\ sess \in [Sessions -> SessionRow \cup {NULL}]
      /\ answers \in [Sessions -> SUBSET Options]
      /\ NULL \notin SessionRow /\ NULL \notin Document
      /\ \A s \in Sessions : Fits(sess[s], answers[s])
      /\ \A s \in Sessions : sess[s] = NULL => answers[s] = {}
  BY NullIsNoRecord DEF CacheInv, IInv, TypeOK, CacheSound, FitsAnswers, WithinVersion, FitsVersion
<1> SUFFICES ASSUME NEW s \in Sessions
             PROVE  Fits(sess'[s], answers'[s])
  BY DEF CacheSound, FitsAnswers
<1>1. CASE UNCHANGED <<sess, answers>>
  BY <1>0, <1>1
<1>2. CASE \E t \in Sessions : Start(r, t)
  <2> PICK t \in Sessions : Start(r, t)
    BY <1>2
  <2>1. CASE s = t
    BY <1>0, <2>1 DEF Start
  <2>2. CASE s # t
    BY <1>0, <2>2 DEF Start
  <2> QED
    BY <2>1, <2>2
<1>3. CASE SubmitCommit(r)
  <2> DEFINE t == target[r]
             row == [sess[t] EXCEPT !.hash = body[r].ids]
  <2>1. /\ t \in Sessions /\ sess[t] # NULL /\ answers[t] = {}
        /\ answers' = [answers EXCEPT ![t] = body[r].ids]
        /\ sess' = [sess EXCEPT ![t] = row]
    BY <1>3, BatchIsFirst DEF SubmitCommit
  <2>2. sess[t] \in SessionRow /\ body[r].ids \in Hash
    BY <1>0, <2>1 DEF CacheInv, IInv, TypeOK, Body, Hash
  <2>3. row.hash = body[r].ids /\ row.result = sess[t].result
    BY <2>2 DEF SessionRow
  <2>4. CASE s = t
    BY <1>0, <2>1, <2>3, <2>4
  <2>5. CASE s # t
    BY <1>0, <2>1, <2>5
  <2> QED
    BY <2>4, <2>5
<1>4. CASE \E doc \in Document, writesResult \in BOOLEAN : LlmAnswers(r, doc, writesResult)
  <2> PICK doc \in Document, writesResult \in BOOLEAN : LlmAnswers(r, doc, writesResult)
    BY <1>4
  <2> DEFINE t == target[r]
  <2>1. t \in Sessions /\ sess[t] \in SessionRow
    BY LlmRow DEF CacheInv, IInv
  <2>2. PICK row \in RowsAfter(r, doc, writesResult) : sess' = [sess EXCEPT ![t] = row]
    BY LlmRow DEF CacheInv, IInv
  <2>3. answers' = answers
    BY DEF LlmAnswers, LlmWrite
  <2>4. Answered(r) = answers[t] /\ doc.options = answers[t] /\ answers[t] # {}
    BY DocumentFits
  <2>5. row.hash \in {sess[t].hash, Answered(r)} /\ row.result \in {doc, sess[t].result}
    BY <2>2 DEF RowsAfter
  <2>6. CASE s = t
    BY <1>0, <2>1, <2>2, <2>3, <2>4, <2>5, <2>6
  <2>7. CASE s # t
    BY <1>0, <2>1, <2>2, <2>3, <2>7
  <2> QED
    BY <2>6, <2>7
<1>5. CASE Link(r)
  <2> DEFINE linkable == {t \in body[r].codes : Seen(r, t) # NULL /\ Seen(r, t).user = NULL}
             row == [sess[s] EXCEPT !.user = body[r].user, !.ended = TRUE]
  <2>1. /\ body[r].user \in Users
        /\ answers' = answers
        /\ sess'[s] = IF s \in linkable THEN row ELSE sess[s]
    BY <1>5 DEF Link, At, CacheInv, IInv, RequestInv, TypeOK
  <2>2. CASE s \in linkable
    <3>1. sess[s] \in SessionRow
      BY <1>0, <2>2 DEF CacheInv, IInv, SnapshotInv
    <3>2. row.hash = sess[s].hash /\ row.result = sess[s].result
      BY <2>1, <3>1 DEF SessionRow
    <3> QED
      BY <1>0, <2>1, <2>2, <3>1, <3>2
  <2>3. CASE s \notin linkable
    BY <1>0, <2>1, <2>3
  <2> QED
    BY <2>2, <2>3
<1> QED
  BY <1>1, <1>2, <1>3, <1>4, <1>5
     DEF Step, Arrives, Begin, Refuse, Retries, NextAttempt, SubmitInsert, LlmCall, GoTo, tables

\* Snapshots keep fitting, and a batch in flight stays the only one.
LEMMA BatchStep ==
    ASSUME ResendsOverlap, CacheInv, NEW r \in Requests, Step(r)
    PROVE  BatchInv'
<1>1. ASSUME NEW s \in Sessions
      PROVE  answers'[s] = answers[s]
             \/ (SubmitCommit(r) /\ s = target[r] /\ answers[s] = {} /\ answers'[s] = body[r].ids)
  BY AnswersStep, BatchIsFirst DEF CacheInv, IInv, TypeOK
<1>2. ASSUME NEW q \in Requests
      PROVE  /\ FitsAnswers(snap'[q].sess, snap'[q].answers)
             /\ \A s \in Sessions : snap'[q].answers[s] \in {{}, answers'[s]}
  <2>1. snap'[q] = snap[q] \/ snap'[q] = NoSnapshot \/ (snap'[q] = TakeSnapshot /\ UNCHANGED answers)
    <3>1. CASE q # r
      BY <3>1, OthersStep DEF CacheInv, IInv
    <3>2. CASE q = r
      BY <3>2, OwnStep DEF CacheInv, IInv, tables
    <3> QED
      BY <3>1, <3>2
  <2>2. CASE snap'[q] = snap[q]
    BY <1>1, <2>2 DEF CacheInv, BatchInv
  <2>3. CASE snap'[q] = NoSnapshot
    BY <2>3 DEF NoSnapshot, FitsAnswers
  <2>4. CASE snap'[q] = TakeSnapshot /\ UNCHANGED answers
    BY <2>4 DEF TakeSnapshot, CacheInv, CacheSound
  <2> QED
    BY <2>1, <2>2, <2>3, <2>4
<1>3. ASSUME NEW q \in Requests, op'[q] = "submit"
      PROVE  \/ /\ op[q] = "submit" /\ target'[q] = target[q] /\ body'[q] = body[q]
                /\ target[q] \in Sessions
             \/ q = r /\ UNCHANGED answers /\ Resend(target'[r], body'[r].ids)
  <2>1. CASE q # r
    BY <1>3, <2>1, OthersStep DEF CacheInv, IInv, RequestInv
  <2>2. CASE q = r
    BY <1>3, <2>2, OwnStep DEF CacheInv, IInv, RequestInv, tables, SubmitInsert, LlmCall, GoTo
  <2> QED
    BY <2>1, <2>2
<1>4. ASSUME NEW q \in Requests, op'[q] = "submit"
      PROVE  CommonOption(answers'[target'[q]], body'[q].ids)
  <2>1. CASE q = r /\ UNCHANGED answers /\ Resend(target'[r], body'[r].ids)
    BY <2>1 DEF Resend
  <2>2. CASE /\ op[q] = "submit" /\ target'[q] = target[q] /\ body'[q] = body[q]
             /\ target[q] \in Sessions
    <3>1. Resend(target[q], body[q].ids)
      BY <2>2 DEF CacheInv, BatchInv
    <3>2. SubmitCommit(r) /\ target[q] = target[r] => CommonOption(body[r].ids, body[q].ids)
      BY <3>1 DEF Resend, SubmitCommit, At
    <3>3. answers'[target[q]] = answers[target[q]]
          \/ (SubmitCommit(r) /\ target[q] = target[r] /\ answers'[target[q]] = body[r].ids)
      BY <1>1, <2>2
    <3> QED
      BY <2>2, <3>1, <3>2, <3>3 DEF Resend
  <2> QED
    BY <1>3, <1>4, <2>1, <2>2
<1>5. ASSUME NEW p \in Requests, NEW q \in Requests, op'[p] = "submit", op'[q] = "submit",
             target'[p] = target'[q]
      PROVE  CommonOption(body'[p].ids, body'[q].ids)
  <2>1. CASE p = q
    BY <2>1 DEF CommonOption
  <2>2. CASE p # q /\ p # r /\ q # r
    BY <1>3, <1>5, <2>2 DEF CacheInv, BatchInv, Resend
  <2>3. ASSUME NEW k \in Requests, k # r, op'[k] = "submit", op'[r] = "submit",
               target'[k] = target'[r]
        PROVE  CommonOption(body'[k].ids, body'[r].ids)
    <3>1. op[k] = "submit" /\ target'[k] = target[k] /\ body'[k] = body[k]
      BY <1>3, <2>3
    <3>2. Resend(target'[r], body'[r].ids)
          \/ (op[r] = "submit" /\ target'[r] = target[r] /\ body'[r] = body[r])
      BY <1>3, <2>3
    <3> QED
      BY <2>3, <3>1, <3>2 DEF CacheInv, BatchInv, Resend
  <2>4. \A a, b : CommonOption(a, b) = CommonOption(b, a)
    BY DEF CommonOption
  <2> QED
    BY <1>5, <2>1, <2>2, <2>3, <2>4
<1> QED
  BY <1>2, <1>4, <1>5 DEF BatchInv, Resend

\* A reply is about what was asked.
LEMMA ReplyStep ==
    ASSUME CacheInv, ReplyMatchesAnswers, NEW r \in Requests, Step(r)
    PROVE  ReplyMatchesAnswers'
<1> SUFFICES ASSUME NEW q \in Requests, reply'[q] # NULL
             PROVE  reply'[q].doc.options = reply'[q].asked
  BY DEF ReplyMatchesAnswers
<1>1. CASE reply'[q] = reply[q]
  BY <1>1 DEF ReplyMatchesAnswers
<1>2. CASE \E doc \in Document, writesResult \in BOOLEAN : LlmAnswers(r, doc, writesResult)
  <2> PICK doc \in Document, writesResult \in BOOLEAN : LlmAnswers(r, doc, writesResult)
    BY <1>2
  <2>1. doc.options = Answered(r)
    BY DocumentFits
  <2>2. reply' = [reply EXCEPT ![r] = [asked |-> Answered(r), doc |-> doc]]
    BY DEF LlmAnswers, LlmWrite
  <2>3. CASE q = r
    BY <2>1, <2>2, <2>3 DEF CacheInv, IInv, TypeOK
  <2>4. CASE q # r
    BY <1>1, <2>2, <2>4 DEF CacheInv, IInv, TypeOK
  <2> QED
    BY <2>3, <2>4
<1>3. CASE reply'[q] = NULL
  BY <1>3
<1> QED
  BY <1>1, <1>2, <1>3
     DEF Step, Arrives, Begin, Refuse, Answer, Retries, NextAttempt, Start, SubmitInsert,
         SubmitCommit, LlmCall, Link, GoTo, CacheInv, IInv, TypeOK

\* The empty database satisfies the invariant of the cache.
LEMMA InitCache == Init => CacheInv /\ ReplyMatchesAnswers
BY InitIInv DEF Init, CacheInv, CacheSound, BatchInv, FitsAnswers, ReplyMatchesAnswers, NoSnapshot

\* Every step keeps it.
LEMMA StepCache ==
    ASSUME ResendsOverlap
    PROVE  CacheInv /\ ReplyMatchesAnswers /\ [Next]_vars => (CacheInv /\ ReplyMatchesAnswers)'
<1> SUFFICES ASSUME CacheInv, ReplyMatchesAnswers, [Next]_vars
             PROVE  (CacheInv /\ ReplyMatchesAnswers)'
  OBVIOUS
<1>0. IInv'
  BY StepIInv DEF CacheInv
<1>1. CASE Environment
  <2>1. UNCHANGED <<sess, answers, reply>>
    BY <1>1, EnvironmentStep DEF CacheInv
  <2>2. BatchInv'
    BY <1>1, <2>1 DEF Environment, Activate, Redeploy, requests, CacheInv, BatchInv, Resend,
                      NoSnapshot, FitsAnswers
  <2> QED
    BY <1>0, <2>1, <2>2 DEF CacheInv, CacheSound, FitsAnswers, ReplyMatchesAnswers
<1>2. CASE \E r \in Requests : Step(r)
  BY <1>0, <1>2, CacheStep, BatchStep, ReplyStep DEF CacheInv
<1>3. CASE UNCHANGED vars
  BY <1>0, <1>3 DEF vars, CacheInv, CacheSound, BatchInv, Resend, FitsAnswers, ReplyMatchesAnswers
<1>4. CASE Next
  BY <1>1, <1>2, <1>4, NextIsStep DEF CacheInv, IInv
<1> QED
  BY <1>3, <1>4

\* When answers sent again share one with the first, the cache is sound,
\* whatever requests overlap, are retried or fail.
THEOREM CacheHolds ==
    ASSUME ResendsOverlap
    PROVE  Spec => [](CacheInv /\ ReplyMatchesAnswers)
BY InitCache, StepCache, PTL DEF Spec

\* Then every reply is about the answers of the session it was asked for.
THEOREM RepliesMatch ==
    ASSUME ResendsOverlap
    PROVE  Spec => []ReplyMatchesAnswers
BY CacheHolds, PTL

-----------------------------------------------------------------------------
(* The requests implement the contract.                                    *)

\* What the contract shows of a row of sessions.
View(row) ==
    IF row = NULL THEN NULL
    ELSE [version |-> row.version, user |-> row.user,
          result |-> row.result, ended |-> row.ended]

\* Its type; a row that exists is shown by a record, not by NULL.
LEMMA ViewType ==
    ASSUME NEW row \in SessionRow
    PROVE  /\ row # NULL
           /\ View(row) # NULL
           /\ View(row) \in [version : {row.version}, user : {row.user},
                             result : {row.result}, ended : {row.ended}]
<1>1. row # NULL
  BY NullIsNoRecord
<1>2. View(row) \in SessionView
  BY <1>1 DEF View, SessionRow, SessionView
<1> QED
  BY <1>1, <1>2, NullIsNoRecord DEF View

\* The empty database is the contract's.
LEMMA ContractInit == Init => Contract!Init
BY DEF Init, Contract!Init

\* Every step is one operation of the contract or changes none of its state.
LEMMA ContractStep == CacheInv /\ [Next]_vars => [Contract!Next]_(Contract!vars)
<1> DEFINE session == [s \in Sessions |-> IF sess[s] = NULL THEN NULL ELSE
                          [version |-> sess[s].version, user |-> sess[s].user,
                           result |-> sess[s].result, ended |-> sess[s].ended]]
<1> SUFFICES ASSUME CacheInv, [Next]_vars
             PROVE  Contract!Next \/ UNCHANGED <<session, answers>>
  BY DEF Contract!vars
<1>0. /\ sess \in [Sessions -> SessionRow \cup {NULL}]
      /\ answers \in [Sessions -> SUBSET Options]
      /\ NULL \notin SessionRow
  BY NullIsNoRecord DEF CacheInv, IInv, TypeOK
<1>1. ASSUME NEW s \in Sessions
      PROVE  session[s] = View(sess[s]) /\ (session[s] = NULL <=> sess[s] = NULL)
  BY <1>0, ViewType DEF View
<1>2. ASSUME NEW t \in Sessions, NEW row \in SessionRow, sess' = [sess EXCEPT ![t] = row]
      PROVE  session' = [session EXCEPT ![t] = View(row)]
  BY <1>0, <1>2, ViewType DEF View
<1>3. CASE UNCHANGED <<sess, answers>>
  BY <1>3
<1>7. session = [s \in Sessions |-> session[s]]
  OBVIOUS
<1> HIDE DEF session
<1>4. ASSUME NEW r \in Requests, NEW t \in Sessions, Start(r, t)
      PROVE  Contract!Next
  <2> DEFINE row == [version |-> Resolve(r), user |-> body[r].user, hash |-> {},
                     result |-> NULL, ended |-> FALSE]
  <2>1. /\ sess' = [sess EXCEPT ![t] = row] /\ sess[t] = NULL
        /\ Resolve(r) # NULL /\ UNCHANGED answers
    BY <1>4 DEF Start
  <2>2. Resolve(r) \in Versions /\ body[r].user \in Users \cup {NULL}
    BY <2>1, FallbackIsVersion DEF CacheInv, IInv, TypeOK, Snapshot, Resolve, Body
  <2>3. row \in SessionRow
    BY <2>2 DEF SessionRow, Hash
  <2>4. View(row) = [version |-> Resolve(r), user |-> body[r].user,
                     result |-> NULL, ended |-> FALSE]
    BY <2>3, ViewType DEF View
  <2> PICK v \in Versions, u \in Users \cup {NULL} : v = Resolve(r) /\ u = body[r].user
    BY <2>2
  <2>5. Contract!StartSession(t, v, u)
    <3>1. session[t] = NULL
      BY <1>1, <2>1
    <3>2. session' = [session EXCEPT ![t] = View(row)]
      BY <1>2, <2>1, <2>3
    <3>3. View(row) = [version |-> v, user |-> u, result |-> NULL, ended |-> FALSE]
      BY <2>4
    <3> HIDE DEF row
    <3>4. QED
      BY <2>1, <3>1, <3>2, <3>3 DEF Contract!StartSession, session
  <2>6. \E s \in Sessions, x \in Versions, y \in Users \cup {NULL} : Contract!StartSession(s, x, y)
    BY <2>5
  <2> QED
    BY ONLY <2>6 DEF Contract!Next
<1>5. ASSUME NEW r \in Requests, SubmitCommit(r)
      PROVE  Contract!Next
  <2> PICK t \in Sessions, ids \in SUBSET Options : t = target[r] /\ ids = body[r].ids
    BY <1>5, BatchIsFirst DEF CacheInv, IInv, TypeOK, Body
  <2> DEFINE row == [sess[t] EXCEPT !.hash = ids]
  <2>1. /\ sess[t] # NULL /\ answers[t] = {} /\ ids # {}
        /\ answers' = [answers EXCEPT ![t] = ids]
        /\ sess' = [sess EXCEPT ![t] = row]
    BY <1>5, BatchIsFirst DEF SubmitCommit
  <2>2. sess[t] \in SessionRow /\ row \in SessionRow
    BY <1>0, <2>1 DEF SessionRow, Hash
  <2>3. /\ row.version = sess[t].version /\ row.user = sess[t].user
        /\ row.result = sess[t].result /\ row.ended = sess[t].ended
    BY <2>2 DEF SessionRow
  <2>4. View(row) = View(sess[t])
    <3>1. row # NULL /\ sess[t] # NULL
      BY <2>2, ViewType
    <3> HIDE DEF row
    <3> QED
      BY <2>3, <3>1 DEF View
  <2>5. session' = [session EXCEPT ![t] = View(row)]
    BY <1>2, <2>1, <2>2
  <2>9. UNCHANGED session
    <3>1. session' = [session EXCEPT ![t] = session[t]]
      BY <1>1, <2>4, <2>5
    <3> QED
      BY <1>7, <3>1
  <2>6. ids \subseteq OptionsOf[sess[t].version]
    BY <1>5, <2>1 DEF SubmitCommit, At, CacheInv, IInv, RequestInv, Submittable, SnapshotInv
  <2>7. session[t] # NULL /\ session[t].version = sess[t].version
    <3>1. session[t] = View(sess[t])
      BY <1>1
    <3>2. /\ View(sess[t]) # NULL
          /\ View(sess[t]) \in [version : {sess[t].version}, user : {sess[t].user},
                                result : {sess[t].result}, ended : {sess[t].ended}]
      BY <2>2, ViewType
    <3> QED
      BY <3>1, <3>2
  <2>8. Contract!AnswerSession(t, ids)
    BY <2>1, <2>6, <2>7, <2>9 DEF Contract!AnswerSession, session
  <2> QED
    BY <2>8 DEF Contract!Next
<1>6. ASSUME NEW r \in Requests, NEW doc \in Document, NEW writesResult \in BOOLEAN,
             LlmAnswers(r, doc, writesResult)
      PROVE  Contract!Next
  <2> PICK t \in Sessions : t = target[r]
    BY <1>6, DocumentFits
  <2> PICK p \in Providers : p = doc.provider
    BY DEF Document
  <2>1. PICK row \in RowsAfter(r, doc, writesResult) : sess' = [sess EXCEPT ![t] = row]
    BY <1>6, LlmRow DEF CacheInv, IInv
  <2>2. sess[t] \in SessionRow /\ row \in SessionRow
    BY <1>6, <2>1, LlmRow DEF CacheInv, IInv
  <2>3. /\ row.version = sess[t].version /\ row.user = sess[t].user
        /\ row.result = IF writesResult THEN doc ELSE sess[t].result
        /\ row.ended = TRUE
    BY <2>1 DEF RowsAfter
  <2>4. session' = [session EXCEPT ![t] = View(row)] /\ UNCHANGED answers
    BY <1>2, <1>6, <2>1, <2>2 DEF LlmAnswers, LlmWrite
  <2>5. session[t] = View(sess[t]) /\ session[t] # NULL
    BY <1>1, <2>2, ViewType
  <2>6. View(sess[t]) \in [version : {row.version}, user : {row.user},
                           result : {sess[t].result}, ended : {sess[t].ended}]
    BY <2>2, <2>3, ViewType
  <2>7. View(row) \in [version : {row.version}, user : {row.user},
                       result : {row.result}, ended : {TRUE}]
    BY <2>2, <2>3, ViewType
  <2>8. CASE writesResult
    <3> DEFINE shown == [options |-> answers[t], provider |-> p]
               after == [[View(sess[t]) EXCEPT !.result = shown] EXCEPT !.ended = TRUE]
    <3>1. doc = shown
      BY <1>6, DocumentFits DEF Document
    <3>2. after \in [version : {row.version}, user : {row.user}, result : {row.result},
                     ended : {TRUE}]
      BY <2>3, <2>6, <2>8, <3>1
    <3>3. View(row) = after
      <4> DEFINE fields == [version |-> row.version, user |-> row.user,
                            result |-> row.result, ended |-> TRUE]
      <4> HIDE DEF after
      <4>1. after = fields
        BY <3>2
      <4>2. View(row) = fields
        BY <2>7
      <4> QED
        BY <4>1, <4>2
    <3>4. session' = [session EXCEPT ![t].result = shown, ![t].ended = TRUE]
      BY <1>7, <2>4, <2>5, <3>3
    <3>5. Contract!ShowResult(t, p)
      BY <1>6, <2>4, <2>5, <3>4, DocumentFits DEF Contract!ShowResult, session
    <3> QED
      BY <3>5 DEF Contract!Next
  <2>9. CASE ~writesResult
    <3>1. [View(sess[t]) EXCEPT !.ended = TRUE]
              \in [version : {row.version}, user : {row.user}, result : {row.result}, ended : {TRUE}]
      BY <2>3, <2>6, <2>9
    <3>2. View(row) = [View(sess[t]) EXCEPT !.ended = TRUE]
      BY <2>7, <3>1
    <3>3. session' = [session EXCEPT ![t].ended = TRUE]
      BY <1>7, <2>4, <2>5, <3>2
    <3>4. Contract!EndSession(t)
      BY <2>4, <2>5, <3>3 DEF Contract!EndSession, session
    <3> QED
      BY <3>4 DEF Contract!Next
  <2> QED
    BY <2>8, <2>9
<1>8. ASSUME NEW r \in Requests, Link(r)
      PROVE  Contract!Next
  <2> DEFINE linkable == {s \in body[r].codes : Seen(r, s) # NULL /\ Seen(r, s).user = NULL}
  <2>0. body[r].user \in Users
    BY <1>8 DEF Link, At, CacheInv, IInv, RequestInv
  <2> PICK u \in Users : u = body[r].user
    BY <2>0
  <2> PICK claimed \in SUBSET Sessions : claimed = linkable
    BY DEF CacheInv, IInv, TypeOK, Body
  <2>1. /\ sess' = [s \in Sessions |->
                       IF s \in claimed THEN [sess[s] EXCEPT !.user = u, !.ended = TRUE]
                       ELSE sess[s]]
        /\ UNCHANGED answers
    <3>1. /\ sess' = [s \in Sessions |->
                         IF s \in linkable
                         THEN [sess[s] EXCEPT !.user = body[r].user, !.ended = TRUE]
                         ELSE sess[s]]
          /\ UNCHANGED answers
      BY <1>8 DEF Link
    <3> HIDE DEF linkable
    <3> QED
      BY <3>1
  <2>2. \A s \in claimed : sess[s] # NULL /\ sess[s] \in SessionRow
    BY <1>0 DEF CacheInv, IInv, SnapshotInv
  <2>3. ASSUME NEW s \in claimed
        PROVE  View([sess[s] EXCEPT !.user = u, !.ended = TRUE])
                   = [View(sess[s]) EXCEPT !.user = u, !.ended = TRUE]
    <3> DEFINE row == [sess[s] EXCEPT !.user = u, !.ended = TRUE]
               shown == [View(sess[s]) EXCEPT !.user = u, !.ended = TRUE]
               fields == [version |-> sess[s].version, user |-> u,
                          result |-> sess[s].result, ended |-> TRUE]
    <3>1. sess[s] \in SessionRow
      BY <2>2
    <3>2. row \in SessionRow
      BY <3>1 DEF SessionRow
    <3>3. /\ row.version = sess[s].version /\ row.user = u
          /\ row.result = sess[s].result /\ row.ended = TRUE
      BY <3>1 DEF SessionRow
    <3>4. View(row) = fields
      <4>1. row # NULL
        BY <3>2, ViewType
      <4> HIDE DEF row
      <4> QED
        BY <3>3, <4>1 DEF View
    <3>5. shown \in [version : {sess[s].version}, user : {u},
                     result : {sess[s].result}, ended : {TRUE}]
      BY <3>1, ViewType
    <3>6. shown = fields
      <4> HIDE DEF shown
      <4> QED
        BY <3>5
    <3> QED
      BY <3>4, <3>6
  <2>4. session' = [s \in Sessions |-> View(sess'[s])]
    BY DEF View, session
  <2>5. session' = [s \in Sessions |->
                       IF s \in claimed THEN [session[s] EXCEPT !.user = u, !.ended = TRUE]
                       ELSE session[s]]
    <3>1. ASSUME NEW s \in Sessions
          PROVE  View(sess'[s]) = IF s \in claimed
                                  THEN [session[s] EXCEPT !.user = u, !.ended = TRUE]
                                  ELSE session[s]
      <4>1. session[s] = View(sess[s])
        BY <1>1
      <4>2. CASE s \in claimed
        BY <2>1, <2>3, <4>1, <4>2
      <4>3. CASE s \notin claimed
        BY <2>1, <4>1, <4>3
      <4> QED
        BY <4>2, <4>3
    <3> QED
      BY <2>4, <3>1
  <2>6. Contract!ClaimSessions(claimed, u)
    <3>1. \A s \in claimed : session[s] # NULL
      BY <1>1, <2>2
    <3> QED
      BY <2>1, <2>5, <3>1 DEF Contract!ClaimSessions, session
  <2> QED
    BY <2>6 DEF Contract!Next
<1>9. CASE Environment
  BY <1>3, <1>9, EnvironmentStep DEF CacheInv
<1>10. ASSUME NEW r \in Requests, Step(r)
       PROVE  Contract!Next \/ UNCHANGED <<session, answers>>
  BY <1>3, <1>4, <1>5, <1>6, <1>8, <1>10
     DEF Step, Arrives, Begin, Refuse, Retries, NextAttempt, SubmitInsert, LlmCall, GoTo, tables
<1>11. CASE UNCHANGED vars
  BY <1>3, <1>11 DEF vars
<1>12. CASE Next
  BY <1>9, <1>10, <1>12, NextIsStep DEF CacheInv, IInv
<1> QED
  BY <1>11, <1>12

\* When answers sent again share one with the first, the requests, with their
\* snapshots and the cache, do nothing that sessions which each get a result
\* of their own could not do.
THEOREM Implementation ==
    ASSUME ResendsOverlap
    PROVE  Spec => ImplementsContract
<1>1. Spec => []CacheInv
  BY CacheHolds, PTL
<1> QED
  BY <1>1, ContractInit, ContractStep, PTL DEF Spec, ImplementsContract, Contract!Spec
=============================================================================
