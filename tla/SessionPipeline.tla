--------------------------- MODULE SessionPipeline --------------------------
(***************************************************************************)
(* The user's side of one diagnostic: start a session, submit answers, get *)
(* the LLM result, link sessions to an account                             *)
(* (backend/app/services/diagnostics: session_manager, answer_recorder,    *)
(* llm_executor, session_linker).                                          *)
(*                                                                         *)
(* As in VersionLifecycle, a request is one REPEATABLE READ transaction:   *)
(* its SELECTs read the snapshot of its first read, its INSERTs and        *)
(* UPDATEs meet the current rows, and its writes appear when it commits.   *)
(* No handler here locks what it reads.                                    *)
(***************************************************************************)
EXTENDS SessionData, Naturals, FiniteSets

CONSTANTS
    Prompted,      \* versions with a system prompt
    WithOp,        \* options with an llm_op
    Fallback,      \* the version of diagnostics_allow_fallback_version, or NULL
    Requests,      \* request slots served concurrently
    ResendsOverlap \* answers that are sent again share one with the first

ASSUME FallbackIsVersion == Fallback \in Versions \cup {NULL}
ASSUME ResendsOverlapIsFlag == ResendsOverlap \in BOOLEAN

SESSION_CODE_MAX_ATTEMPTS == 3
max_attempts == 2

VARIABLES
    active,     \* cfg_active_versions row of the diagnostic, or NULL
    provider,   \* settings.mode of the running deployment
    sess,       \* sessions: a row or NULL per session code
    answers,    \* answer_choices: the options of each session
    pc,         \* how far each request is
    op,         \* the operation it serves
    target,     \* the session code of its path
    body,       \* what its body and its token carry
    snap,       \* the snapshot its transaction reads
    attempts,   \* session codes, or provider calls, that did not work out
    answer,     \* status of the last response of the slot
    reply       \* the LLM result of that response, and the answers it is for

tables   == <<active, provider, sess, answers>>
requests == <<pc, op, target, body, snap, attempts, answer, reply>>
vars     == <<active, provider, sess, answers,
              pc, op, target, body, snap, attempts, answer, reply>>

-----------------------------------------------------------------------------
(* Requests.                                                               *)

Ops   == {"start", "submit", "llm", "link"}
Codes == {"none", "ok", "not_found", "no_version", "invalid", "out_of_version",
          "duplicate", "prompt_missing", "no_answers", "op_incomplete",
          "llm_failed", "owned_by_other", "unexpected"}

NoBody == [user |-> NULL, ids |-> {}, force |-> FALSE, codes |-> {}]

NoSnapshot == [active  |-> NULL,
               sess    |-> [s \in Sessions |-> NULL],
               answers |-> [s \in Sessions |-> {}]]

TakeSnapshot == [active |-> active, sess |-> sess, answers |-> answers]

At(r, place, o) == pc[r] = place /\ op[r] = o
Seen(r, s)      == snap[r].sess[s]

Begin(r, o, s, b) ==
    /\ pc[r] = "idle"
    /\ pc' = [pc EXCEPT ![r] = "begun"]
    /\ op' = [op EXCEPT ![r] = o]
    /\ target' = [target EXCEPT ![r] = s]
    /\ body' = [body EXCEPT ![r] = b]
    /\ snap' = [snap EXCEPT ![r] = TakeSnapshot]
    /\ answer' = [answer EXCEPT ![r] = "none"]
    /\ reply' = [reply EXCEPT ![r] = NULL]
    /\ UNCHANGED <<tables, attempts>>

\* The response is sent, the transaction ended and its locks released.
Close(r, code) ==
    /\ pc' = [pc EXCEPT ![r] = "idle"]
    /\ op' = [op EXCEPT ![r] = "none"]
    /\ target' = [target EXCEPT ![r] = NULL]
    /\ body' = [body EXCEPT ![r] = NoBody]
    /\ snap' = [snap EXCEPT ![r] = NoSnapshot]
    /\ attempts' = [attempts EXCEPT ![r] = 0]
    /\ answer' = [answer EXCEPT ![r] = code]

Answer(r, code) == Close(r, code) /\ UNCHANGED reply
Refuse(r, code) == Answer(r, code) /\ UNCHANGED tables

GoTo(r, place) ==
    /\ pc' = [pc EXCEPT ![r] = place]
    /\ UNCHANGED <<tables, op, target, body, snap, attempts, answer, reply>>

-----------------------------------------------------------------------------
(* create_diagnostic_session.                                              *)

\* _resolve_active_version_id
Resolve(r) == IF snap[r].active # NULL THEN snap[r].active ELSE Fallback

StartRefused(r) ==
    /\ At(r, "begun", "start")
    /\ Resolve(r) = NULL
    /\ Refuse(r, "no_version")

NextAttempt(r, view) ==
    /\ attempts' = [attempts EXCEPT ![r] = @ + 1]
    /\ snap' = [snap EXCEPT ![r] = view]
    /\ UNCHANGED <<tables, pc, op, target, body, answer, reply>>

\* A code that is taken is seen by the SELECT, or else by the unique key; the
\* latter rolls back, so that the version is resolved again.
StartCollides(r, s) ==
    /\ At(r, "begun", "start")
    /\ Resolve(r) # NULL
    /\ attempts[r] < SESSION_CODE_MAX_ATTEMPTS
    /\ \/ Seen(r, s) # NULL /\ NextAttempt(r, snap[r])
       \/ Seen(r, s) = NULL /\ sess[s] # NULL /\ NextAttempt(r, TakeSnapshot)

\* Mutation: the attempts are counted one too far.
StartExhaustedLate(r) ==
    /\ At(r, "begun", "start")
    /\ attempts[r] > SESSION_CODE_MAX_ATTEMPTS
    /\ Refuse(r, "unexpected")

StartExhausted(r) ==
    /\ At(r, "begun", "start")
    /\ attempts[r] = SESSION_CODE_MAX_ATTEMPTS
    /\ Refuse(r, "unexpected")

\* Mutation: session_code has no unique key, the row found last is replaced.
StartReplaces(r, s) ==
    /\ At(r, "begun", "start")
    /\ Resolve(r) # NULL
    /\ attempts[r] < SESSION_CODE_MAX_ATTEMPTS
    /\ Seen(r, s) = NULL
    /\ sess' = [sess EXCEPT ![s] =
           [version |-> Resolve(r), user |-> body[r].user, hash |-> {},
            result |-> NULL, ended |-> FALSE]]
    /\ Answer(r, "ok")
    /\ UNCHANGED <<active, provider, answers>>

Start(r, s) ==
    /\ At(r, "begun", "start")
    /\ Resolve(r) # NULL
    /\ attempts[r] < SESSION_CODE_MAX_ATTEMPTS
    /\ Seen(r, s) = NULL
    /\ sess[s] = NULL
    /\ sess' = [sess EXCEPT ![s] =
           [version |-> Resolve(r), user |-> body[r].user, hash |-> {},
            result |-> NULL, ended |-> FALSE]]
    /\ Answer(r, "ok")
    /\ UNCHANGED <<active, provider, answers>>

-----------------------------------------------------------------------------
(* submit_session_answers.                                                 *)

\* The foreign key of an inserted answer_choices row locks the sessions row
\* in share mode until the transaction ends.
Inserted(r, s) == pc[r] = "inserted" /\ target[r] = s
SessionFree(s) == \A q \in Requests : ~Inserted(q, s)

\* Mutation: options of other versions are accepted.
SubmittableAnyOption(r) == body[r].ids # {} /\ Seen(r, target[r]) # NULL

\* _ensure_option_membership, and the checks before it.
Submittable(r) ==
    LET seen == Seen(r, target[r]) IN
    /\ body[r].ids # {}
    /\ seen # NULL
    /\ body[r].ids \subseteq OptionsOf[seen.version]

SubmitRefused(r) ==
    LET seen == Seen(r, target[r]) IN
    /\ At(r, "begun", "submit")
    /\ \/ body[r].ids = {} /\ Refuse(r, "invalid")
       \/ body[r].ids # {} /\ seen = NULL /\ Refuse(r, "not_found")
       \/ /\ seen # NULL
          /\ ~(body[r].ids \subseteq OptionsOf[seen.version])
          /\ Refuse(r, "out_of_version")

\* The body is a list, which may be too long or name an option twice.  Not a step that
\* Serve may take: options in order must not get around a wait this way.
BodyRefused(r) ==
    /\ At(r, "begun", "submit")
    /\ Refuse(r, "invalid")

\* uq_answer_choices_once fails: nothing of the batch is kept.
SubmitDuplicate(r) ==
    /\ At(r, "begun", "submit")
    /\ Submittable(r)
    /\ body[r].ids \cap answers[target[r]] # {}
    /\ Refuse(r, "duplicate")

\* Another transaction's uncommitted row with the same key is waited for.
SubmitInsert(r) ==
    LET s == target[r] IN
    /\ At(r, "begun", "submit")
    /\ Submittable(r)
    /\ body[r].ids \cap answers[s] = {}
    /\ \A q \in Requests : Inserted(q, s) => body[r].ids \cap body[q].ids = {}
    /\ GoTo(r, "inserted")

\* Mutation: the stored hash is not updated.
SubmitCommitKeepsHash(r) ==
    LET s == target[r] IN
    /\ At(r, "inserted", "submit")
    /\ \A q \in Requests \ {r} : ~Inserted(q, s)
    /\ answers' = [answers EXCEPT ![s] = @ \cup body[r].ids]
    /\ Answer(r, "ok")
    /\ UNCHANGED <<active, provider, sess>>

\* The UPDATE of the sessions row waits for the share locks of the others.
\* The new hash covers the options of this batch only; it is never the one
\* that was loaded, which covers answers committed before.
SubmitCommit(r) ==
    LET s == target[r] IN
    /\ At(r, "inserted", "submit")
    /\ \A q \in Requests \ {r} : ~Inserted(q, s)
    /\ answers' = [answers EXCEPT ![s] = @ \cup body[r].ids]
    /\ sess' = [sess EXCEPT ![s].hash = body[r].ids]
    /\ Answer(r, "ok")
    /\ UNCHANGED <<active, provider>>

\* Two batches of one session, each with its share lock and the UPDATE or a
\* key of the other to wait for: InnoDB rolls one back.
Contend(q, r) ==
    /\ op[q] = "submit" /\ op[r] = "submit"
    /\ target[q] = target[r]
    /\ \/ pc[q] = "inserted" /\ pc[r] = "inserted"
       \/ /\ {pc[q], pc[r]} = {"begun", "inserted"}
          /\ body[q].ids \cap body[r].ids # {}

SubmitDeadlock(r) ==
    /\ \E q \in Requests \ {r} : Contend(q, r)
    /\ Refuse(r, "unexpected")

-----------------------------------------------------------------------------
(* call_session_llm.                                                       *)

\* _load_answer_payload
Answered(r) == snap[r].answers[target[r]]

\* Mutation: a session without answers is not refused.
LlmReadyUnanswered(r) ==
    LET seen == Seen(r, target[r]) IN
    /\ At(r, "begun", "llm")
    /\ seen # NULL
    /\ seen.version \in Prompted
    /\ Answered(r) \subseteq WithOp

LlmReady(r) ==
    LET seen == Seen(r, target[r]) IN
    /\ At(r, "begun", "llm")
    /\ seen # NULL
    /\ seen.version \in Prompted
    /\ Answered(r) # {}
    /\ Answered(r) \subseteq WithOp

LlmRefused(r) ==
    LET seen == Seen(r, target[r]) IN
    /\ At(r, "begun", "llm")
    /\ \/ seen = NULL /\ Refuse(r, "not_found")
       \/ /\ seen # NULL
          /\ \/ seen.version \notin Prompted /\ Refuse(r, "prompt_missing")
             \/ /\ seen.version \in Prompted
                /\ \/ Answered(r) = {} /\ Refuse(r, "no_answers")
                   \/ ~(Answered(r) \subseteq WithOp) /\ Refuse(r, "op_incomplete")

\* The session's own result is for these answers and this provider.
OwnHit(r) ==
    LET result == Seen(r, target[r]).result IN
    /\ ~body[r].force
    /\ result # NULL
    /\ result.options = Answered(r)
    /\ result.provider = provider

\* Mutation: the cache query looks at the version only.
CandidatesOfVersion(r) ==
    {t \in Sessions :
        LET row == Seen(r, t) IN
        /\ row # NULL
        /\ row.version = Seen(r, target[r]).version
        /\ row.result # NULL}

\* The rows of the cache query; updated_at, which orders them, is left open.
Candidates(r) ==
    {t \in Sessions :
        LET row == Seen(r, t) IN
        /\ row # NULL
        /\ row.version = Seen(r, target[r]).version
        /\ row.hash = Answered(r)
        /\ row.result # NULL}

CandidateHit(r, t) ==
    /\ ~body[r].force
    /\ ~OwnHit(r)
    /\ t \in Candidates(r)
    /\ Seen(r, t).result.provider = provider

\* No result is reused; a latest candidate of another provider is none.
Miss(r) ==
    \/ body[r].force
    \/ /\ ~OwnHit(r)
       /\ \/ Candidates(r) = {}
          \/ \E t \in Candidates(r) : Seen(r, t).result.provider # provider

\* The UPDATE carries the attributes that differ from the row loaded:
\* writesResult says whether llm_result is among them.
LlmWrite(r, doc, writesResult) ==
    LET s    == target[r]
        seen == Seen(r, s)
        row  == sess[s]
    IN
    /\ writesResult \/ seen.hash # Answered(r) \/ ~seen.ended => SessionFree(s)
    /\ sess' = [sess EXCEPT ![s] = [row EXCEPT
           !.hash   = IF seen.hash = Answered(r) THEN row.hash ELSE Answered(r),
           !.result = IF writesResult THEN doc ELSE row.result,
           !.ended  = TRUE]]
    /\ Close(r, "ok")
    /\ reply' = [reply EXCEPT ![r] = [asked |-> Answered(r), doc |-> doc]]
    /\ UNCHANGED <<active, provider, answers>>

LlmReuseOwn(r) ==
    /\ LlmReady(r)
    /\ OwnHit(r)
    /\ LlmWrite(r, Seen(r, target[r]).result, FALSE)

\* Documents that agree here may differ in what the model leaves out.
LlmReuseCandidate(r, t) ==
    LET doc == Seen(r, t).result IN
    /\ LlmReady(r)
    /\ CandidateHit(r, t)
    /\ \/ LlmWrite(r, doc, TRUE)
       \/ doc = Seen(r, target[r]).result /\ LlmWrite(r, doc, FALSE)

LlmCall(r) ==
    /\ LlmReady(r)
    /\ Miss(r)
    /\ GoTo(r, "calling")

LlmCallFails(r) ==
    /\ At(r, "calling", "llm")
    /\ IF attempts[r] + 1 < max_attempts THEN NextAttempt(r, snap[r])
       ELSE Refuse(r, "llm_failed")

LlmReturns(r) ==
    /\ At(r, "calling", "llm")
    /\ LlmWrite(r, [options |-> Answered(r), provider |-> provider], TRUE)

-----------------------------------------------------------------------------
(* link_sessions_to_user: the owners are read from the snapshot.           *)

LinkRefused(r) ==
    /\ At(r, "begun", "link")
    /\ \E s \in body[r].codes :
          \/ Seen(r, s) = NULL /\ Refuse(r, "not_found")
          \/ /\ Seen(r, s) # NULL
             /\ Seen(r, s).user \notin {NULL, body[r].user}
             /\ Refuse(r, "owned_by_other")

Link(r) ==
    LET codes    == body[r].codes
        linkable == {s \in codes : Seen(r, s) # NULL /\ Seen(r, s).user = NULL}
    IN
    /\ At(r, "begun", "link")
    /\ \A s \in codes : Seen(r, s) # NULL /\ Seen(r, s).user \in {NULL, body[r].user}
    /\ \A s \in linkable : SessionFree(s)
    /\ sess' = [s \in Sessions |->
           IF s \in linkable THEN [sess[s] EXCEPT !.user = body[r].user, !.ended = TRUE]
           ELSE sess[s]]
    /\ Answer(r, "ok")
    /\ UNCHANGED <<active, provider, answers>>

-----------------------------------------------------------------------------
(* The rest of the system, and the next-state relation.                    *)

\* The database or the process fails: the transaction rolls back.
Fail(r) ==
    /\ pc[r] # "idle"
    /\ Refuse(r, "unexpected")

\* An administrator activates a version (VersionLifecycle!ActivateCommit).
Activate(v) ==
    /\ active' = v
    /\ UNCHANGED <<provider, sess, answers, requests>>

\* A deployment with another mode ends the requests in flight.
Redeploy(p) ==
    /\ p # provider
    /\ provider' = p
    /\ pc' = [r \in Requests |-> "idle"]
    /\ op' = [r \in Requests |-> "none"]
    /\ target' = [r \in Requests |-> NULL]
    /\ body' = [r \in Requests |-> NoBody]
    /\ snap' = [r \in Requests |-> NoSnapshot]
    /\ attempts' = [r \in Requests |-> 0]
    /\ answer' = [r \in Requests |-> IF pc[r] = "idle" THEN answer[r] ELSE "unexpected"]
    /\ UNCHANGED <<active, sess, answers, reply>>

Init ==
    /\ active = NULL
    /\ provider \in Providers
    /\ sess = [s \in Sessions |-> NULL]
    /\ answers = [s \in Sessions |-> {}]
    /\ pc = [r \in Requests |-> "idle"]
    /\ op = [r \in Requests |-> "none"]
    /\ target = [r \in Requests |-> NULL]
    /\ body = [r \in Requests |-> NoBody]
    /\ snap = [r \in Requests |-> NoSnapshot]
    /\ attempts = [r \in Requests |-> 0]
    /\ answer = [r \in Requests |-> "none"]
    /\ reply = [r \in Requests |-> NULL]

\* The form sends all answers of a session at once.  After a failure they may
\* be sent again, with some changed; one option at least is the same unless
\* the user changes every answer.
CommonOption(a, b) == a = {} \/ b = {} \/ a \cap b # {}

Resend(s, ids) ==
    /\ CommonOption(answers[s], ids)
    /\ \A q \in Requests :
          op[q] = "submit" /\ target[q] = s => CommonOption(body[q].ids, ids)

ArriveStart(r) ==
    \E u \in Users \cup {NULL} : Begin(r, "start", NULL, [NoBody EXCEPT !.user = u])

ArriveSubmit(r) ==
    \E s \in Sessions, ids \in SUBSET Options :
        /\ ResendsOverlap => Resend(s, ids)
        /\ Begin(r, "submit", s, [NoBody EXCEPT !.ids = ids])

ArriveLlm(r) ==
    \E s \in Sessions, force \in BOOLEAN :
        Begin(r, "llm", s, [NoBody EXCEPT !.force = force])

ArriveLink(r) ==
    \E u \in Users, codes \in SUBSET Sessions :
        /\ codes # {}
        /\ Begin(r, "link", NULL, [NoBody EXCEPT !.user = u, !.codes = codes])

Arrive(r) == ArriveStart(r) \/ ArriveSubmit(r) \/ ArriveLlm(r) \/ ArriveLink(r)

ServeStart(r) ==
    \/ StartRefused(r)
    \/ StartExhausted(r)
    \/ \E s \in Sessions : StartCollides(r, s) \/ Start(r, s)

ServeSubmit(r) ==
    \/ SubmitRefused(r)
    \/ SubmitDuplicate(r)
    \/ SubmitInsert(r)
    \/ SubmitCommit(r)
    \/ SubmitDeadlock(r)

ServeLlm(r) ==
    \/ LlmRefused(r)
    \/ LlmReuseOwn(r)
    \/ \E t \in Sessions : LlmReuseCandidate(r, t)
    \/ LlmCall(r)
    \/ LlmCallFails(r)
    \/ LlmReturns(r)

ServeLink(r) == LinkRefused(r) \/ Link(r)

Serve(r) == ServeStart(r) \/ ServeSubmit(r) \/ ServeLlm(r) \/ ServeLink(r)

Next ==
    \/ \E r \in Requests : Arrive(r) \/ BodyRefused(r) \/ Serve(r) \/ Fail(r)
    \/ \E v \in Versions : Activate(v)
    \/ \E p \in Providers : Redeploy(p)

Spec == Init /\ [][Next]_vars

\* A thread keeps running and a lock is granted in the order of the waits.
FairSpec == Spec /\ \A r \in Requests : SF_vars(Serve(r))

-----------------------------------------------------------------------------
(* Properties.                                                             *)

Body == [user : Users \cup {NULL}, ids : SUBSET Options, force : BOOLEAN,
         codes : SUBSET Sessions]

Snapshot == [active  : Versions \cup {NULL},
             sess    : [Sessions -> SessionRow \cup {NULL}],
             answers : [Sessions -> SUBSET Options]]

Reply == [asked : SUBSET Options, doc : Document]

\* Types of the tables and of the requests in flight.
TypeOK ==
    /\ active \in Versions \cup {NULL}
    /\ provider \in Providers
    /\ sess \in [Sessions -> SessionRow \cup {NULL}]
    /\ answers \in [Sessions -> SUBSET Options]
    /\ pc \in [Requests -> {"idle", "begun", "inserted", "calling"}]
    /\ op \in [Requests -> Ops \cup {"none"}]
    /\ target \in [Requests -> Sessions \cup {NULL}]
    /\ body \in [Requests -> Body]
    /\ snap \in [Requests -> Snapshot]
    /\ attempts \in [Requests -> 0..SESSION_CODE_MAX_ATTEMPTS]
    /\ answer \in [Requests -> Codes]
    /\ reply \in [Requests -> Reply \cup {NULL}]

\* The LLM result a request returns, generated now or reused from whatever
\* session the cache query finds, was generated from the very answers the
\* request is about.
ReplyMatchesAnswers ==
    \A r \in Requests : reply[r] # NULL => reply[r].doc.options = reply[r].asked

\* What makes the rows of sessions and answer_choices a sound cache.
FitsAnswers(rows, given) ==
    \A s \in Sessions : rows[s] # NULL =>
        /\ rows[s].hash = given[s]
        /\ rows[s].result # NULL => /\ rows[s].result.options = given[s]
                                   /\ given[s] # {}

\* When answers sent again share one with the first, the stored hash is that
\* of its answers and its stored result is about them, so that the cache
\* query finds only results that fit.
CacheSound == FitsAnswers(sess, answers)

FitsVersion(rows, given) ==
    \A s \in Sessions :
        IF rows[s] = NULL THEN given[s] = {}
        ELSE /\ given[s] \cup rows[s].hash \subseteq OptionsOf[rows[s].version]
             /\ rows[s].result # NULL =>
                    /\ rows[s].result.options # {}
                    /\ rows[s].result.options \subseteq OptionsOf[rows[s].version]

\* Whatever batches and results overlap, a session only holds answers and
\* results of the version it was started with.
WithinVersion == FitsVersion(sess, answers)

\* No request, even one that draws a code in use, takes from a session its
\* version, answers or result, or reopens it once it is ended or owned.
NothingLost ==
    [][\A s \in Sessions : sess[s] # NULL =>
          /\ sess'[s] # NULL
          /\ sess'[s].version = sess[s].version
          /\ answers[s] \subseteq answers'[s]
          /\ sess[s].result # NULL => sess'[s].result # NULL
          /\ sess[s].ended => sess'[s].ended
          /\ sess[s].user # NULL => sess'[s].user # NULL]_vars

(* The inductive invariants behind them.                                   *)

\* A snapshot holds nothing that the tables lost since.
SnapshotInv ==
    \A r \in Requests :
        /\ FitsVersion(snap[r].sess, snap[r].answers)
        /\ \A s \in Sessions :
              /\ Seen(r, s) # NULL =>
                     sess[s] # NULL /\ sess[s].version = Seen(r, s).version
              /\ snap[r].answers[s] \subseteq answers[s]

\* What a request has established when it is at a given place.
RequestInv ==
    \A r \in Requests :
        /\ pc[r] # "idle" => op[r] \in Ops
        /\ op[r] \in {"submit", "llm"} => target[r] \in Sessions
        /\ op[r] = "link" => body[r].user \in Users
        /\ pc[r] = "inserted" =>
               /\ op[r] = "submit"
               /\ Submittable(r)
               /\ body[r].ids \cap answers[target[r]] = {}
        /\ pc[r] = "calling" =>
               /\ op[r] = "llm"
               /\ Seen(r, target[r]) # NULL
               /\ Answered(r) # {}

\* The batches that wait for their UPDATE have no key in common.
BatchesDisjoint ==
    \A q, r \in Requests :
        /\ q # r /\ pc[q] = "inserted" /\ pc[r] = "inserted" /\ target[q] = target[r]
        => body[q].ids \cap body[r].ids = {}

IInv == TypeOK /\ SnapshotInv /\ RequestInv /\ BatchesDisjoint /\ WithinVersion

\* If so, only the first batch of a session is ever stored: snapshots fit too,
\* and the batches in flight share an option with it and with each other.
BatchInv ==
    \A r \in Requests :
        /\ FitsAnswers(snap[r].sess, snap[r].answers)
        /\ \A s \in Sessions : snap[r].answers[s] \in {{}, answers[s]}
        /\ op[r] = "submit" => Resend(target[r], body[r].ids)

CacheInv == IInv /\ CacheSound /\ BatchInv

\* Every request is answered: the code and provider attempts end, and no two
\* batches of a session block each other for ever.
EveryRequestAnswered == \A r \in Requests : pc[r] # "idle" ~> pc[r] = "idle"

\* When answers sent again share one with the first, snapshots and cache are
\* indistinguishable from sessions that each get a result of their own.
Contract == INSTANCE SessionContract WITH
    session  <- [s \in Sessions |-> IF sess[s] = NULL THEN NULL ELSE
                    [version |-> sess[s].version, user |-> sess[s].user,
                     result |-> sess[s].result, ended |-> sess[s].ended]],
    answered <- answers

ImplementsContract == Contract!Spec

\* 24_user_link_session.md:52: a session that belongs to another user is
\* refused, so the owner of a session never changes.
OwnerNeverChanges ==
    [][\A s \in Sessions :
          sess[s] # NULL /\ sess[s].user # NULL => sess'[s].user = sess[s].user]_vars

(* It holds as long as no two users link one session at a time.            *)

Linking(r, s) == op[r] = "link" /\ s \in body[r].codes

OneUserLinks ==
    \A q, r \in Requests, s \in Sessions :
        Linking(q, s) /\ Linking(r, s) => body[q].user = body[r].user

\* Then the owner in the snapshot of a link is the owner as it is, but for a
\* session that the same user has linked since.
LinksSeeTheOwner ==
    \A r \in Requests, s \in Sessions :
        Linking(r, s) /\ Seen(r, s) # NULL =>
            sess[s].user \in {Seen(r, s).user, body[r].user}
=============================================================================
