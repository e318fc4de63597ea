# Verification of Diagnosis_MVP

TLA+ modules, TLC configurations and TLAPS proofs for the server and client of
the diagnosis application: administrators publish versions of a diagnostic,
users answer one and get a result generated by an LLM, and link what they did
anonymously to an account.

- [1. Inventory](#1-inventory)
- [2. Modules and the code they model](#2-modules-and-the-code-they-model)
- [3. Model checking](#3-model-checking)
- [4. Fairness](#4-fairness)
- [5. Proofs](#5-proofs)
- [6. Disagreements found](#6-disagreements-found)
- [7. What is not modelled](#7-what-is-not-modelled)
- [8. Plan](#8-plan)

Run `tlc -workers 2 -config X.cfg M` on a configuration `X.cfg` of module `M`
(the list is in section 3), and `tlapm M.tla` on a module `M_proofs`.

## 1. Inventory

The backend (`src/backend/app`) is a FastAPI application over SQLAlchemy and
MySQL (InnoDB, REPEATABLE READ). `src/frontend` is the users' Next.js
application, `src/admin_front` the administrators'.

What the whole backend shares, and every module of this project models:

- **One transaction per request.** `get_db` gives a request a database session,
  which the authentication dependency and the handler share. The lookup of the
  user or administrator is therefore the first consistent read and fixes the
  transaction's snapshot; later plain `SELECT`s read that snapshot, while
  `SELECT ... FOR UPDATE`, `UPDATE`, `DELETE` and unique keys meet the current
  rows. Nothing in the code re-reads after waiting for a lock.
- **Partial updates.** The ORM writes only the attributes that differ from the
  values it loaded: writing back what the stale snapshot shows writes nothing.
- **Concurrency.** Handlers declared with `def` run in a thread pool, several
  at a time; those declared with `async def` (`start_session`,
  `get_version_form`, `import_diagnostic_structure`) run on the event loop.
- **Errors.** An exception, or a process that stops, ends in a rollback.

| component | state it keeps | operations | interacts with | hard behaviour | what makes it correct |
|---|---|---|---|---|---|
| Admin API of versions (`routers/admin_diagnostics.py`) | `diagnostic_versions`, `cfg_active_versions` | create, update prompt, finalize, activate, list and detail | importer, audit log, session creation (reads the active version) | finalize, import and prompt update overlap; first activations deadlock on a gap, those of neighbouring diagnostics too | a finalized version is frozen, and only a finalized version is ever active |
| Structure importer (`services/diagnostics/structure_importer.py`) | `version_questions`, `version_options`, `version_outcomes`, the shared catalogue of questions and options | parse, validate, upsert the catalogue, replace the rows of a version | admin API, audit log | holds two row locks while it runs on the event loop; a catalogue row changes its code | never touches a finalized version; all or nothing |
| Audit log (`services/diagnostics/audit.py`) | `aud_diagnostic_version_logs` | append | admin API, importer | order of entries against order of changes | tells the life of a version as it was |
| Session creation (`session_manager.py`) | `sessions` | draw a code, insert, retry on collision | active version, linking | a collision that only the unique key sees rolls back and re-reads | never takes over a session; always ends |
| Answer recording (`answer_recorder.py`) | `answer_choices`, `sessions.version_options_hash` | check, insert, update the hash | LLM execution | two batches of one session deadlock between insert and update | all or nothing; answers of the session's version only |
| LLM execution and cache (`llm_executor.py`, `core/registry.py`) | `sessions.llm_result`, hash, `ended_at` | refuse, reuse own result, reuse another session's, call the provider with retry, write back | provider runtimes, answers of all sessions | seconds between read and write; the cache reads other sessions | a reply is generated from the answers it is shown for |
| Session linking (`session_linker.py`) | `sessions.user_id`, `ended_at` | claim a set of codes | registration and login in the client | two users claim one code | all or nothing; an owner stays |
| User and admin authentication (`routers/auth.py`, `routers/admin_auth.py`) | `refresh_tokens`, `admin_refresh_tokens`, users, OAuth accounts | login, register, refresh, logout, logout all | both Next.js servers | refresh in two tabs; a crash between its two commits; logout all racing it | of the tokens that follow one another at most the last is alive; once all are revoked only a sign-in brings one back |
| Client authentication (`lib/auth/options.ts` of both applications) | the next-auth cookie with the refresh token | sign in, refresh on reading, sign out, sign out everywhere | authentication routers, every server-rendered page | a server-side read refreshes and cannot store what it got; a failed refresh is swallowed | as above, whatever requests read one cookie at a time |
| Client session state (`frontend/features/diagnostics/session`, `commonQa/sessionLifecycle.ts`) | the provider's React state, the snapshot in `localStorage` | start, answer, submit, run the LLM with retry, poll, link | every user endpoint; the toasts, through effects that depend on them | state read before an `await` and stored after it; effects re-run by a toast; reload; retry after a timeout | the result kept is the one the LLM gave for that session; "linked" means linked; every submission and every spinner ends |
| Question form (`CommonQaScreen.tsx`, `commonQa/validation.ts`) | the form, the choices, the position | load, choose, go back and forth, submit | client session state | choices restored for a form that changed; answers taken back | what is sent answers every question shown |
| Result screen (`frontend/features/diagnostics/result`, `session/llmResult.ts`) | the result, the selected candidate, the open details, the chart's series | read, sanitise, rank, select | client session state (polling) | truncated answers; the same parser before and after the snapshot; a ranking that changes under the selection | the ranking is what the LLM said; what is selected is shown |
| Feedback and overlays (`feedback_provider.tsx`, `LoaderOverlay.tsx`) | toasts and their timers, the count of scroll locks | show, dismiss, open, close, unmount | every screen | overlapping overlays, minimum times, timers re-created by an effect | the page scrolls exactly when no overlay is shown; what should go goes |
| Admin console (`dashboard/page.tsx`, `hooks`, `components` of `admin_front`) | the selection, the hooks' data and requests, the prompt editor, the dialogs | select, reload, create, save, import, finalize | admin API | answers of cancelled requests; a selection that changes under a write or a dialog | what is shown is what is selected and not older than one's own writes; a text is saved, and a version finalized, where it belongs |
| Activation dialog (`ActivateVersionCard.tsx`, `useActiveVersions.ts`) | the list of active versions, the dialog | open, fill, choose, confirm | admin API | a dialog filled by the answer of another one | the active version is the diagnostic's own |
| Request scheduling (`db/session.py`, `main.py`, Starlette) | connection pool, thread pool, event loop | acquire, run, release | all | an async handler waits for a row lock that a finished request can only release through the event loop | every request ends |
| Readers, template export, master data, profile, proxies | none | read | | | |

`PROJECT.json` lists every component with its files and its status, and under
`hazards` each behaviour above at the line where it bites, with the property
that covers it or the reason none does yet.

## 2. Modules and the code they model

| module | role |
|---|---|
| `VersionData` | constants, rows and pure helpers of versions (`BuildSrcHash`, `Complete`, `WellFormed`, `NameTaken`) |
| `VersionContract` | abstract specification: atomic operations on the version tables |
| `VersionLifecycle` | the admin requests with snapshots and row locks; implements `VersionContract` |
| `VersionLifecycleMC`, `VersionActivationMC` | instances for TLC |
| `VersionLifecycle_proofs` | theorems and proofs |
| `SessionData` | constants and rows of sessions |
| `SessionContract` | abstract specification: a session is answered once, and its result is its own |
| `SessionPipeline` | the user requests with snapshots and the LLM cache; implements `SessionContract` |
| `SessionPipelineMC` | instances for TLC |
| `SessionPipeline_proofs` | theorems and proofs |
| `ClientSession` | the browser of a visitor: the provider, its snapshot, the question and the result screen, the linker |
| `ClientSession_proofs` | theorems and proofs |
| `QuestionForm` | the question form |
| `ResultDocument` | from the LLM's answer to the result screen |
| `UiFeedback` | toasts and loader overlays |
| `VisitorScreens_proofs` | theorems and proofs of `QuestionForm`, `ResultDocument` and `UiFeedback`, which have no state in common |
| `AdminData` | constants of the two modules of the console |
| `AdminConsole` | the admin's dashboard |
| `ActivationDialog` | the card and dialog of the active versions |
| `AdminScreens_proofs` | theorems and proofs of `AdminConsole` and `ActivationDialog`, which have no state in common |
| `AuthTokens` | refresh tokens and the cookies of both applications |
| `AuthTokens_proofs` | theorems and proofs |
| `RequestServing` | event loop, threads, connections and a row lock of the server |
| `OptionCatalog` | the import of a question's options into the shared catalogue |
| `ServerParts_proofs` | theorems and proofs of `RequestServing` and `OptionCatalog`, which have no state in common |
| `ScreensMC` | the nine parts above, from `ClientSession` on, as one instance for TLC |
| `Screens_proofs` | theorems and proofs of that composition, from those of its parts |

### Requests

Both detailed modules have *request slots* (`Requests`). A slot is `idle`, or
serves the operation `op[r]` on `target[r]` and is at the place `pc[r]`. The
places are the points of the handler between which another request can change
what this one sees: the snapshot is taken (`begun`), a row lock is held
(`locked`, `chosen`), rows are inserted but not committed (`inserted`), the
provider is being called (`calling`). Everything a handler does between two
such points is one action. A request's writes become visible at its commit, so
the writes of a handler, its audit entry and the commit are one action too,
guarded by the row locks that the writes need.

`snap[r]` is the transaction's snapshot: `Begin` fills it, and the guards of
the handlers read `snap[r]` exactly where the code uses a plain `SELECT` and the
current tables where it uses `FOR UPDATE` or meets a unique key. `Fail(r)` may
roll any request back at any place. Lost responses, repeated requests and
retries need no action of their own: any request may arrive at any time, and a
client that did not get its answer sends another.

### VersionLifecycle

| variable | table |
|---|---|
| `version` | `diagnostic_versions`: diagnostic, name, `system_prompt`, `src_hash`, or `NULL` |
| `structure` | `version_questions`, `version_options`, `version_outcomes` |
| `active` | `cfg_active_versions` |
| `audit` | `aud_diagnostic_version_logs` |

| actions | handler |
|---|---|
| `Begin` | `get_current_admin`, the first read of the transaction |
| `BodyRefused` | diagnostic not found; a name, prompt or file refused before a version is read |
| `CreateRefused`, `CreateCollides`, `Create` | `create_diagnostic_version` |
| `PromptRefused`, `PromptUpdate` | `update_system_prompt`: checked in the snapshot, written to the row of now; a prompt equal to the one in the snapshot is not written |
| `ImportRefused`, `ImportJoin`, `ImportLock`, `ImportInvalid`, `ImportCommit`, `ImportDeadlock` | `import_diagnostic_structure` and `import_version_structure`: locks the version, then the diagnostic (`joining` in between), then works; two imports into one gap of the rows they replace deadlock |
| `FinalizeRefused`, `FinalizeLock`, `FinalizeCommit` | `finalize_diagnostic_version`: `src_hash` is read under the lock, the structure from the snapshot |
| `ActivateRefused`, `ActivateLock`, `ActivateChoose`, `ActivateCommit`, `ActivateDeadlock` | `activate_diagnostic_version`: two `FOR UPDATE`s; on a missing row the second is a gap lock, which does not exclude another one, and the two `INSERT`s then deadlock; the gap reaches from row to row, so diagnostics without a row between them share it (`SharesGap`) |
| `Detail`, `Fail` | the read-only handlers; failure |

A hash stands for what is hashed (SHA-256 is taken to be injective). A sheet
stands for what the parser makes of a workbook; a malformed sheet is one with
an option of a question it does not list. Row locks are not variables: who
holds one follows from `pc`, `op` and `target`. `BodyRefused` can meet any request and
is no part of `Serve`: fairness of the handler is not satisfied by it.
Diagnostics are numbers, their primary keys, in the order of the index whose gaps they share.

### SessionPipeline

| variable | state |
|---|---|
| `active` | the `cfg_active_versions` row of the diagnostic |
| `provider` | the mode of the running deployment |
| `sess` | `sessions`: version, owner, hash, `llm_result`, ended, or `NULL` |
| `answers` | `answer_choices` |
| `reply[r]` | the result the response carries, and the answers it is for |

| actions | handler |
|---|---|
| `Begin` | `get_optional_current_user` and the first read |
| `BodyRefused` | more than 20 answers, or an answer twice |
| `StartRefused`, `StartCollides`, `StartExhausted`, `Start` | `create_diagnostic_session`: at most 3 codes; a collision met by the unique key rolls back and takes a new snapshot |
| `SubmitRefused`, `SubmitDuplicate`, `SubmitInsert`, `SubmitCommit`, `SubmitDeadlock` | `submit_session_answers`: the inserts hold a share lock on the session row, which the update of the hash has to upgrade |
| `LlmRefused`, `LlmReuseOwn`, `LlmReuseCandidate`, `LlmCall`, `LlmCallFails`, `LlmReturns` | `call_session_llm`: own result, latest session of the same version and hash, provider with 2 attempts; the write-back (`LlmWrite`) |
| `LinkRefused`, `Link` | `link_sessions_to_user` |
| `Activate`, `Redeploy`, `Fail` | an administrator activates a version; a deployment changes the provider and ends what runs; failure |

`updated_at`, which picks among several candidates of the cache query, is left
open: any of them may be the latest. The model has no text of prompts or
results; a result is the set of answers it was generated from, with its provider.

`ResendsOverlap` is the assumption of the cache: answers that are sent again
for a session share at least one option with those sent before. The client
(`answerSubmission.ts`) sends the whole form at once, and sends it again after a
failed or lost call, when the user may have changed some answers; the assumption
fails only when every answer was changed. With it, the unique key refuses the
second batch. Without it, see section 6.

### Contracts

`VersionContract` has no requests, locks or snapshots: six atomic operations.
It says what overlap leaves true: `FreezeVersion` covers a complete structure
that *was* imported into the version, not necessarily the one it has, and
`SetPrompt` has no guard on `src_hash`, because neither holds in the code.
`SessionContract` has no cache: `ShowResult` produces the result from the
session's own answers.

### ClientSession

The server is what `SessionContract` promises: `srv` has the sessions started,
recorded, generated, and their owners. A result is named by its session, 0 is none.

| variable | code |
|---|---|
| `store` | the snapshot in `localStorage` (`storage.ts`) |
| `prov` | `DiagnosticSessionProvider`: the latest state, `dirty` if a commit has to save it, `toasted` if the toast context changed |
| `page`, `view` | the page and `useSessionInitialiser` |
| `flow[c]` | the run of `handleSubmit` for session `c`, `live` while its screen is mounted |
| `links`, `poll` | the linker's requests; the polling of `ResultScreen` |

| actions | code |
|---|---|
| `Commit` | the effects of one commit of the provider, in their order: with a changed toast context the stored snapshot is read into the state *before* the state of this commit is stored (`context.tsx:88-115`) |
| `OpenQuestions`, `Leave`, `Navigate`, `ViewPrevious`, `Reload`, `SignIn`, `SignOut` | pages, and loads of the document, which end every handler |
| `FirstInitialise`, `RetryInitialise`, `RequestRediagnosis`, `SessionStarted`, `FormLoaded`, `InitialiseFails` | `sessionLifecycle.ts` |
| `Submit`, `AnswersSubmitted`, `SubmitFails` | `handleSubmit`, `answerSubmission.ts` |
| `SubmitOutOfVersion`, `FormReloaded`, `FormReloadFails` | the refusal E022 and the reload of the form that follows it, in the middle of `handleSubmit` |
| `LlmSucceeds`, `LlmUnavailable`, `WakeUp`, `LlmFails` | `llmExecution.ts`; a gateway error may hide a call that completed |
| `LinkAcknowledged`, `LinkFails` | `useSessionLinker.ts`; a lost answer may hide a link |
| `PollAnswered`, `PollFails`, `PollAgain` | the polling of `ResultScreen.tsx` |

Each `await` ends a step. A commit is urgent: every other step waits for
`Settled`. One run of `handleSubmit` is followed at a time, and an
unreadable result is 0. A load of the document links at once when the visitor is signed in
(`SessionLinkBootstrapper`). Whether the server refuses a submission with E022 is left open, and
it has no part in `srv`. `Screen` is what `CommonQaScreen.tsx` renders, its cards in the order of its
conditions: while there is no form, the loading card comes before the one of the form's error.
Left out: the error texts of linking (E040, E062), memory mode (no snapshot), a second tab of the browser,
and choices, which `QuestionForm` has.

### QuestionForm, ResultDocument, UiFeedback

`QuestionForm` has the form as sent (`response`), `choices`, `index` and the
option ids `sent`. Instead of the sorted array there is the `Place` of each active question, one more
than the number of questions that `compareSortOrder` puts before it; the question shown (`Current`) is
the one whose place is `index`. `LoadForm` normalises the form (order, inactive questions and
options) and restores a position; `ToggleOption`, `GoPrevious`, `GoNext`,
`SubmitForm` are the handlers of `CommonQaScreen.tsx`. Choices that were made for another form are
not restored: with one tab a form is loaded for a session without choices, or again for the
same version after E022, which gives the same form. So the position restored for a changed
form is translated and not exercised.

`ResultDocument` is the pipeline `NormaliseAnswer` (`parser.ts`), `Sanitise`
(`llmResult.ts`), `NormaliseAnswer` again for the screen, and the selection state of
`ResultScreen.tsx`. An answer is a set of candidates by key, in one of the fields a
provider uses, with at most one candidate that cannot be read. The answer of the server may replace the snapshot's
while that is shown. The entries are sorted by
`KeyAt`: the i-th key is the one with i - 1 keys below it. JSON text is abstracted;
`clampScore`, missing names and missing scores are not.

`UiFeedback` has `toasts`, their `timers` and whether the effect on the list has run
(`stale`), and for each overlay whether it is mounted, open, visible, its age and its hide
timer, next to the module-level `activeLocks` and the body's style. `Tick` is time,
in units of which `MinDuration` is the overlay's minimum. `withActionLoading` has no caller.

### AdminConsole, ActivationDialog

`console` is the page as one record; each effect is an operator on it
(`ListEffect`, `DetailEffect`, `PromptEffect`, `DraftEffect`, `DiagnosticEffect`) and
runs with the change that triggers it. `reqs` are the hooks' requests; the cleanup of an
effect clears `live`, and the answer may still arrive (`RequestAnswered`). The server
reads for a request when it is sent (`early`), when it is answered, or it finds nothing. `db` gives each
version a status and the revision that orders `updated_at`; `acked` is the latest
revision the page was told of. The handlers of the cards are `SelectDiagnostic`,
`SelectVersion`, `SavePrompt`, `ImportStructure`, `OpenFinalize`, `ConfirmFinalize` and
their answers, each accepted, refused or lost. `OtherAdmin` is a second administrator.
The select lists are ordered as the API orders them: diagnostics by code, drafts by
`updated_at`, then id, descending.

`ActivationDialog` has the server's `released`, the activations this page was
`told` of, `shownList` (`useActiveVersions`), `form` and the `openings` whose requests are under
way; `DialogFilled` fills whatever dialog is open by then. Identical
openings are one request. The server reads when it answers: an earlier reading would only offer
fewer versions, since versions are finalized and never reopened. Which finalized version is offered first depends on
`updated_at` and is left open.

### AuthTokens

A behaviour is about one `realm`, the site or the console. `tokens` are the rows of the
account's refresh tokens, `parent` is a history variable, `jar` the browser's cookie,
`calls[c]` a request that reads the session, with the cookie it was sent with.
`ReadSession`, `ForceRefresh` are the jwt callbacks; `RefreshRead`, `RefreshClear`,
`RefreshTooLate`, `RefreshRevoke`, `RefreshIssue`, `RefreshLost` the handler of
`/auth/refresh` and `/admin_auth/refresh` with its commits apart; `Answered` stores the cookie, or
drops it if a server component read it (that `getServerSession` cannot set a cookie there is the
library's behaviour); `SignInWith`, `SignOutOf`, `LogoutAll`, `AccessExpires`.
The device check always succeeds; the expiry of the cookie itself is left out.

### RequestServing

`job[r]` is the operation of request `r` and how far it is; `pool` are the requests whose
session has a connection, `rowLock` is the one that has the lock of the version,
`eventLoop` the one whose async handler runs.

| actions | code |
|---|---|
| `Authenticated` | `get_current_admin`, `get_optional_current_user`, on a thread: the first connection |
| `Dispatched` | a `def` handler gets a thread; an async one the event loop, which it keeps until it returns, for the driver blocks |
| `Connects`, `RowLocked`, `ProviderCalled` | the first statement; `FOR UPDATE` (for `start_session` the foreign key's share lock, taken as the same lock); the provider call, inside the transaction |
| `Commits`, `Refreshed` | `db.commit()` gives the connection back; `db.refresh` takes one again |
| `Raises`, `TimesOut` | errors, with or without a rollback; the timeouts of the pool and of row locks |
| `Closed` | the end of `get_db`, which FastAPI starts from the event loop: until then what a raised error left open stays open |

`OnThread` are the requests that have one of the worker threads (40 by default, for 15 connections): a
request has one while its caller is looked up and, for a `def` handler, while that runs, but
not in between. FastAPI ends dependencies outside that limit.

### OptionCatalog

`catalogue` are the rows of `options` of one question, each at its id; `underWay` the snapshots of
imports that have not got the lock of the diagnostic yet. `ImportEnds` is the import from the
lock to its commit: `Upserted` is a round of the loop of `_persist_options` with its two
dictionaries (`MovedTo`, `Renamed`, `Inserted`), `Rounds` the loop, `Flushed` what SQLAlchemy writes
then: row by row in the order of the ids, each statement meeting the unique keys of the rows as the ones
before it left them (`Below`). An import that meets one fails as a whole. It does so for sheets that are in order: two options that change places, or one that
takes the place of an option the sheet no longer lists, cannot be imported.

## 3. Model checking

| configuration | module | shows | distinct states |
|---|---|---|---|
| `VersionLifecycle_freeze` | `VersionLifecycleMC` | `IInv`, `AuditOrder`, `StructureFrozen`, `SrcHashWriteOnce`, `ImplementsContract` | 490 660 |
| `VersionLifecycle_editors` | `VersionLifecycleMC` | `FinalizedIsComplete`, `HashIsOfContent`, `AuditShowsPrompt`, `PromptFrozen` hold while requests overlap, each version edited by one of them at a time | 626 084 |
| `VersionActivation` | `VersionActivationMC` | `ActivationChain`, `EveryRequestAnswered` | 171 409 |
| `SessionPipeline_cache` | `SessionPipelineMC` | `CacheInv`, `ReplyMatchesAnswers`, `ImplementsContract` under `ResendsOverlap` | 877 998 |
| `SessionPipeline_batches` | `SessionPipelineMC` | `IInv`, `NothingLost`, `EveryRequestAnswered` with arbitrary batches | 295 678 |
| `Screens` | `ScreensMC` | the browser applications, their sign-in and two parts of the server, see below | 293 289 |
| `VersionLifecycle_race_promptfrozen` | `VersionLifecycleMC` | violates `PromptFrozen` | |
| `VersionLifecycle_race_complete` | `VersionLifecycleMC` | violates `FinalizedIsComplete` | |
| `SessionPipeline_second_batch` | `SessionPipelineMC` | violates `ReplyMatchesAnswers` | |
| `SessionPipeline_race_owner` | `SessionPipelineMC` | violates `OwnerNeverChanges` | |
| `Screens_submit_saved` | `ScreensMC` | violates `SubmittedIsSaved` | |
| `Screens_endless_loading` | `ScreensMC` | violates `NoEndlessLoading` | |

Deadlock is checked in every run. Each property of a passing run has a
mutation in the module it is about (comments `Mutation:`) that TLC catches: a
`FOR UPDATE` turned into a plain read, a check moved before the lock, a dropped
guard, an attempt counted one too far, a hash that is not updated.

**The properties.** `StructureFrozen` and `SrcHashWriteOnce` need three
requests on one version to be in danger: one waits for the lock that another
holds. `AuditOrder` relates the log to the tables. `ActivationChain` says that
each `ACTIVATE` entry names as `previous_version_id` what the entry before it
activated, and that the last one is what users see: a lost activation would
break the chain. `CacheInv` is what makes the rows of `sessions` a sound cache,
in the tables and in every snapshot that is still read. `ReplyMatchesAnswers`
is the property of the user: the result on the screen is about those answers.
`NothingLost` says that no request, whatever it overlaps, takes version,
answers, result, end or ownership from a session. `EveryRequestAnswered` is
liveness: retries end, lock waits end, deadlocks are resolved.

`Screens` chooses one part in the initial state and moves only that. The parts
share no state, so each property is checked of its part alone, in one run:

| part | properties | states |
|---|---|---|
| `ClientSession` | `UnlinkedResultsAreGenuine`, `LinkedMeansOwned`, `SubmitStartsNothing`, `SubmitEnds`, `LoadingEnds` | 93 800 |
| `QuestionForm` | `SentIsComplete`, `NothingSkipped` | 4 700 |
| `ResultDocument` | `RankingsAreTheAnswer`, `SelectionIsShown` | 1 100 |
| `UiFeedback` | `ScrollFollowsOverlays`, `ShownLongEnough`, `FeedbackGoes` | 360 |
| `AdminConsole` | `ShownIsSelected`, `OwnWritesShown`, `SavedTextIsOwn`, `FinalizedUnderItsDiagnostic` | 96 000 |
| `ActivationDialog` | `ActiveIsOwn`, `OwnActivationsShown` | 12 700 |
| `AuthTokens` | `RotationRetires`, `RevokedIsFinal` | 60 000 |
| `RequestServing` | `OnlyLoopAndThreadsStall` | 21 000 |
| `OptionCatalog` | `SheetIsShown` | 2 300 |

`UnlinkedResultsAreGenuine` is the client's half of `ReplyMatchesAnswers`: through
reloads, retries, the toast effect and late answers, the browser keeps and shows the result of no other
session. It excepts linking, because the linker writes back the snapshot it read before its
request; what such a write-back overwrites of an answer that arrived meanwhile no property says.
`LinkedMeansOwned` relates the snapshot to the server: a code marked as linked is linked there, whatever
answers were lost and whatever older snapshot is written back. `LoadingEnds` is of spinners of the question screen, with
the exception that `NoEndlessLoading` does not make (section 6). `OwnWritesShown` and
`ShownIsSelected` are about answers that arrive out of order. `SavedTextIsOwn` holds although
the answer of a save may put its text into the editor of another version: the save
reloads the prompt, so the editor cannot be saved before its own text is there.
`FinalizedUnderItsDiagnostic` is as much as can be said of a dialog that confirms the version selected
*now*. `RotationRetires` and `RevokedIsFinal` say what two commits, lost answers and
concurrent refreshes leave true; what they do not exclude is that a refresh
past its check outlives `logout_all` (`auth.py:267`). `OnlyLoopAndThreadsStall` is freedom from
circular waits: some request goes on without a timeout, with exactly the exceptions it
names. They are real: `import_diagnostic_structure` waits for a row lock on the event loop
while the holder, refused under the lock, waits for the event loop to be closed
(`admin_diagnostics.py:605`); and requests that were looked up keep their connections
while they wait for threads, all of which wait for a connection. In both cases only
`innodb_lock_wait_timeout` or the pool's timeout helps, and when provider calls have all connections
or all threads only their end.
`SheetIsShown` compares, for every sheet and every catalogue that imports can lead to, what
the loop makes of its dictionaries with what an upsert should give. Of an import that was overtaken
by another it only says that the rows of the sheet do not share options: such an import may leave
the other's codes and places in the rows it takes for its own.

**Bounds.** `MaxAudit` bounds the committed admin operations of a behaviour;
5 is enough for create, import, finalize and two more on one version, which is
every conflict of two writers after a preparation, and `VersionActivation`
starts from a prepared database with 4 to 6 entries and goes on to 9, with two versions of one
diagnostic or of two that share a gap. Three
requests are needed where one can commit between the snapshot and the lock of
another while a third holds a lock; two requests suffice for the pipeline,
where no request waits for more than one other. Sheets are complete,
incomplete (the option is inactive) and malformed. Two sessions are needed for
one to read the result of another, two providers for the switch, three options
for two overlapping and one foreign batch, two users for a claim that is
refused. The pipeline needs no bound on its length: its tables are finite. `SessionPipeline_batches` has
one session and one user, and one activation (`OneActivation`): its sessions are started before or after it.
`SessionPipeline_race_owner` has two users. Requests are symmetric in
`VersionLifecycle_freeze`, `VersionLifecycle_editors` and `SessionPipeline_cache`, which check no liveness.
`Screens` has two sessions of a visitor (one to be replaced by the other) and one account,
one retry of the LLM call and one of the poll; three questions, one with two options and one
retired; three candidates; two toasts, one of them persistent, and two overlays that overlap; two
diagnostics, one of them inactive, with three versions, of which two exist at first; in the console one revision
(`MaxRevision`, creations and writes together), one write and one request of a hook in flight
when the admin acts, besides one cancelled answer; one activation per diagnostic and two openings of
the dialog at a time; two requests that read the session and three tokens; three served requests, two
connections and two threads, so that one can have the lock, one wait for it and one wait for a
connection or a thread; three codes and places for a question's options and sheets of two rows, enough
to move, rename and insert one after another. The answers of cancelled requests are followed for
the details only (`LateKinds`): the four hooks cancel alike.

## 4. Fairness

`FairSpec` has strong fairness of `Serve(r)` for each slot and none of arrivals,
failures, activations or deployments. A thread of the pool keeps running, so a
handler whose next step stays possible takes it (weak fairness); a step that
waits for a row lock is possible again and again while others take the lock,
and InnoDB grants it in the order of the waits, which is what makes it strong.
The deadlock detector acts at once, so `ActivateDeadlock`, `SubmitDeadlock` and `ImportDeadlock`
are steps of the handler under the same fairness. `BodyRefused` is not, so that no request is answered by
assuming it invalid. That a provider call ends is
an assumption: the Bedrock client is made with connect and read timeouts
(`bedrock_runtime.py:35-40`), the Gemini client without any of its own. No
fairness is assumed of users.

`ClientFairness` is about the page alone: commits, requests and timers go on. `Loading`,
`Submission` and `Polling` have strong fairness because they wait for `Settled`, which a toast or a visitor
interrupts for one commit only. A request is answered or fails: the browser's
connection ends one way or the other. `LoadingEnds` is stated of a visitor who does not reload for
ever, and of screens that have not lost their form to E022. `UiFairness` has the effects, the clock and the timers. Nothing is
assumed of visitors and administrators.

The fairness does not cover that a handler waits on the event loop: `RequestServing`
shows when it may wait for ever but for timeouts, and assumes no fairness.

## 5. Proofs

All theorems hold for every value of the constants, under the assumptions the
modules name: `NULL` is none of the other values, sheets are structures,
`MaxAudit` and the sheets' `MaxRows` are natural numbers, diagnostics are natural numbers, the fallback is a version or `NULL`, options
belong to versions, an option of a form to one question, a version to one diagnostic; sets are finite where the
code counts them or takes a first element, and the times and bounds are natural numbers.

**VersionLifecycle.** `AuditOrder`, `ActivationChain` or `StructureFrozen` are
not inductive: an import at the lock would replace a structure if a finalize
could have committed since it checked. `IInv` adds what makes it impossible:
`LockInv` (the row lock of a version has one holder) and `RequestInv` (a request
at a lock has an unfrozen, or for activate a frozen, version *now*). A request
keeps what it established because a step that would undo it needs the lock it
holds; that argument is `LockStep` and `RequestStep`. `HashInv` and
`SnapshotInv` (a snapshot shows only what was imported) carry `ActiveIsFinalized`
and the refinement. `LogInv` relates the audit log to the tables entry by entry, and `ChosenInv`
says that a request past its second `FOR UPDATE` still knows the active version: of two requests
that found no row to lock, the first to insert ends the other in the deadlock.

`SomeoneGoesOn` is the safety half of `EveryRequestAnswered`: of the requests under way there is always one
that waits for nobody, or only for requests that wait for it in turn to insert into a gap both have locked.
That circle, `GapDeadlock`, the database ends: first activations of one diagnostic or of neighbours without a row between
them, or imports into one gap. It follows from `LockOrder`: the version is locked before the diagnostic or the active row, and
both before the rows of an import, so whoever waits is behind the request that it waits for (`Progress`), and a request that is
ahead of all others waits for nobody else. `WaitsFor` lists the locks that a request keeps from one step to a later one; locks
that are taken and released within one step cannot be part of a circle of these steps. That such a request has a step
at all is a statement about `ENABLED`, which TLC compared with `WaitsFor` on the instances of
`VersionLifecycle_freeze` and `VersionActivation`.

What `FinalizedIsComplete`, `HashIsOfContent`, `AuditShowsPrompt` and `PromptFrozen` say is false of
the code in general (section 6). The last four theorems say when it is true: `OneEditorPerVersion`, no two
requests that edit the prompt or structure of one version, or finalize it, overlap. Activations,
creations and edits of other versions may. The invariant they add is `EditorsSeeTheirVersion`: the
snapshot of a request that edits a version shows its row and structure of now.

| theorem | statement |
|---|---|
| `InvariantHolds` | `Spec => []IInv` |
| `TypeCorrect` | `Spec => []TypeOK` |
| `ActiveSafe` | `Spec => []ActiveIsFinalized` |
| `AuditInOrder` | `Spec => []AuditOrder` |
| `ActivationsChained` | `Spec => []ActivationChain` |
| `StructureStaysFrozen` | `Spec => StructureFrozen` |
| `SrcHashOnce` | `Spec => SrcHashWriteOnce` |
| `Implementation` | `Spec => ImplementsContract` |
| `LocksAreOrdered` | `Spec => []LockOrder` |
| `SomeoneAlwaysGoesOn` | `Spec => []SomeoneGoesOn` |
| `FinalizedStaysComplete` | `Spec /\ []OneEditorPerVersion => []FinalizedIsComplete` |
| `HashCoversContent` | `Spec /\ []OneEditorPerVersion => []HashIsOfContent` |
| `AuditShowsPrompts` | `Spec /\ []OneEditorPerVersion => []AuditShowsPrompt` |
| `PromptStaysFrozen` | `Spec /\ []OneEditorPerVersion => PromptFrozen` |

**SessionPipeline.** `Step` classes reduce the handlers to what they do to the
tables; the write-back of `call_session_llm` leaves one of a few rows
(`LlmRow`), because a write based on a stale snapshot combines columns of the
snapshot with columns of now. `IInv` holds without assumption on the client:
a snapshot is never ahead of the tables (`SnapshotInv`), and batches that wait
for their update are disjoint. `CacheInv` adds, under `ResendsOverlap`, that only
the first batch is ever stored; then a snapshot of a session's answers is empty
or final, and a hash that matches identifies the answers. The refinement
follows from it step by step: a committed batch is `AnswerSession`, an answer
of the LLM handler that writes a result is `ShowResult` (the document is about
the session's own answers), one that does not is `EndSession`.

`OwnerNeverChanges` is false of the code (section 6). `OwnersStay` says when it is true: `OneUserLinks`, no two
users link one session at a time. Links of one user, and everything else, may
overlap. The invariant it adds is `LinksSeeTheOwner`: the owner in the snapshot of a
link is the owner of now, or the session is already the linking user's own.

| theorem | statement |
|---|---|
| `InvariantHolds` | `Spec => []IInv` |
| `TypeCorrect` | `Spec => []TypeOK` |
| `SessionsKept` | `Spec => NothingLost` |
| `CacheHolds` | `ResendsOverlap` implies `Spec => []CacheInv` |
| `RepliesMatch` | `ResendsOverlap` implies `Spec => []ReplyMatchesAnswers` |
| `Implementation` | `ResendsOverlap` implies `Spec => ImplementsContract` |
| `OwnersStay` | `Spec /\ []OneUserLinks => OwnerNeverChanges` |

**AuthTokens.** `RotationRetires` is not inductive: a refresh between its two commits could
issue a successor of a token that is alive. `RefreshInv` adds that such a refresh has revoked the token it
replaces, and `Aging` classifies the other steps: they only take tokens from alive to
revoked, which keeps every retired generation retired.

| theorem | statement |
|---|---|
| `AuthInvHolds` | `AuthSpec => []AuthInv` |
| `RotationHolds` | `AuthSpec => []RotationRetires` |
| `RevocationHolds` | `AuthSpec => RevokedIsFinal` |

**ActivationDialog.** `ActiveIsOwn` rests on the server's check alone (`ActivatedStep`), so it
holds whatever `FormStep` makes of the dialog. `OwnActivationsShown` needs `ToldInv`: the server has every
activation the page was told of, and its count only grows, so a list read from it cannot be behind.

| theorem | statement |
|---|---|
| `ActivationInvHolds` | `ActivationSpec => []ActivationInv` |
| `ActiveOwnHolds` | `ActivationSpec => []ActiveIsOwn` |
| `ActivationsShownHolds` | `ActivationSpec => []OwnActivationsShown` |

**RequestServing.** Where everyone waited, the connections would all be with provider calls
or with requests that wait for the row lock, and the lock with nobody: its holder works
or waits for the event loop only. `ServingInv` says who can have a connection and the lock
(`PoolInv`, `CallInv`, `LockInv`); then all connections are with provider calls, which leave
one over, so that who waits can only wait for a thread; and who has a thread beside
provider calls goes on.

| theorem | statement |
|---|---|
| `ServingInvHolds` | `ServingSpec => []ServingInv` |
| `OnlyLoopAndThreadsStallHolds` | `ServingSpec => []OnlyLoopAndThreadsStall` |

**ClientSession.** `LinkedMeansOwned` is about every snapshot there is: in the storage, the provider
and the linker's requests; `LinkedInv` adds that a request to link names a session. `UnlinkedResultsAreGenuine`
rests on what `GenuineInv` says of a run of `handleSubmit` whose screen is mounted: the
provider and the storage have the session it submits, although the provider may read an older
snapshot back at any toast. That needs `LiveInv`: while such a run goes on, the screen has neither a start nor
a decision nor an error under way, because every path that would start another session goes
through a screen that the run's overlay hides; this is also why `SubmitStartsNothing` holds.
Linking is excepted as in section 3.

| theorem | statement |
|---|---|
| `ClientInvHolds` | `ClientSpec => []ClientInv` |
| `ClientTypeCorrect` | `ClientSpec => []ClientTypeOK` |
| `LinksAreOwned` | `ClientSpec => []LinkedMeansOwned` |
| `ResultsAreGenuine` | `ClientSpec => []UnlinkedResultsAreGenuine` |
| `SubmitStartsNone` | `ClientSpec => SubmitStartsNothing` |

**AdminConsole.** The properties are about hooks that are not loading. `PageOK` adds what is true
while they are: a request that is not cancelled (`live`) asks for what is selected *now*, and what it has read
early is at least as new as every write the page was told of. A handler that selects something
else cancels and asks again in one step (`ListEffect`, `DetailEffect`, `PromptEffect`), so each effect
is one lemma about a page, used for all the handlers. `FinalizedUnderItsDiagnostic` needs
`DialogOK`: the select lists offer versions of the diagnostic shown, and under an open
dialog no request for the diagnostics is left that could select another. That a greatest draft and
a first diagnostic exist follows without induction from the library's well-foundedness of strict
inclusion on finite sets (`Maximal`).

| theorem | statement |
|---|---|
| `ConsoleInvHolds` | `ConsoleSpec => []ConsoleInv` |
| `ShowsTheSelection` | `ConsoleSpec => []ShownIsSelected` |
| `ShowsItsOwnWrites` | `ConsoleSpec => []OwnWritesShown` |
| `SavesItsOwnText` | `ConsoleSpec => []SavedTextIsOwn` |
| `FinalizesUnderItsDiagnostic` | `ConsoleSpec => []FinalizedUnderItsDiagnostic` |

**QuestionForm.** `NothingSkipped` is inductive once `ChoicesInv` says that only active questions have
choices, of options they show: taking an answer back is possible for the question shown only.
The operator lemmas are about sorting: in a finite set with a strict total order each element has a place
of its own between 1 and the size of the set, and each of these is some element's (`PlacesAre`: places are an
injection because they follow the order, and an injection between finite sets of one size is onto).

| theorem | statement |
|---|---|
| `FormInvHolds` | `FormSpec => []FormInv` |
| `SkipsNothing` | `FormSpec => []NothingSkipped` |
| `SendsAllAnswers` | `FormSpec => []SentIsComplete` |

**ResultDocument.** `ResultInv` says that the result is the sanitised form of the last answer, next to
`SelectionIsShown` itself; `RankingsAreTheAnswer` then is a fact about the operators
(`RankingsOfAnswer`): without a candidate 0, sanitising keeps the keys, no two rankings share one, a name that was
filled in is not filled in again and a score clamped once stays. `KeyAtIs` is `PlacesAre` for the order of the
numbers.

| theorem | statement |
|---|---|
| `ResultInvHolds` | `ResultSpec => []ResultInv` |
| `ScreenShowsTheSelection` | `ResultSpec => []SelectionIsShown` |
| `ShowsTheAnswer` | `ResultSpec => []RankingsAreTheAnswer` |

**UiFeedback.** `UiInv` says for each overlay that its timer never ends before its minimum time
(`OverlayOK`), and of the module-level counter that it is the number of overlays shown, with the
page's own style saved for the last of them (`ScrollOK`).

| theorem | statement |
|---|---|
| `UiInvHolds` | `UiSpec => []UiInv` |
| `UiTypeCorrect` | `UiSpec => []UiTypeOK` |
| `ScrollIsRestored` | `UiSpec => []ScrollFollowsOverlays` |
| `NoFlash` | `UiSpec => ShownLongEnough` |

**OptionCatalog.** `SheetIsShown` is about the outcome of the whole loop, so its proof is an induction over the
rounds. `RoundsAre` shows that the recursive function is what its equations say, and `UpTo` that what holds
before the first round and is kept by each holds after every one: the library's induction
theorems take an operator, so both use a set instead, whose least element exists because the natural numbers are
well founded. Each round keeps (`RoundsOK`): the dictionary of codes has every row held, under its code, and no
other; what the dictionary of places has is at its place (`WorkOK`); the sheet's rows that have an
option by their code are what it is (`Given`); and, of an import that saw the
catalogue as it is, `Same`: the table is what was last seen of it, so that the last flush brings it in line
with the rows held. A row's option may be renamed by a later row that takes its place; then the row's code is not found at
the end, and the import fails. `FlushedOK` is why the keys stay unique: of two rows the later one was
compared with the earlier one as it is then. A second import of a sheet finds every row by its code and
at its place, and each of its rounds changes nothing (`ImportedAgain`).

| theorem | statement |
|---|---|
| `CatalogInvHolds` | `CatalogSpec => []CatalogInv` |
| `ImportShowsTheSheet` | `CatalogSpec => []SheetIsShown` |

**Screens.** `PartsStep`: a step of the composition is a step of one part and leaves the variables of every
other alone. So the composition implements each part (`ScreensAreTheirParts`), and all that is proved of the
parts holds of the specification that TLC checks as `Screens`.

| theorem | statement |
|---|---|
| `ScreensAreTheirParts` | `Spec => PartSpecs` |
| `ScreensTypeCorrect` | `Spec => []ScreensTypeOK` |
| `ScreensAreSafe` | `Spec => []PartsAreSafe` |
| `ScreensStepsAreSafe` | `Spec => SubmitStartsNothing /\ ShownLongEnough /\ RevokedIsFinal` |

Only model-checked are the liveness properties: both `EveryRequestAnswered`, `SubmitEnds`,
`LoadingEnds` and `FeedbackGoes`. They need fairness and `ENABLED`, which the provers do not handle. Every
other property of a passing run is stated by a theorem.

## 6. Disagreements found

Each is a run in which TLC finds the property violated.

- **A finalized prompt changes** (`VersionLifecycle_race_promptfrozen`).
  `update_system_prompt` checks `src_hash` by a plain read and then writes
  unconditionally; a finalize that commits in between is not seen. The API
  document asks for a conditional update (`06_admin_update_system_prompt.md:46`).
- **A finalized version is incomplete** (`VersionLifecycle_race_complete`).
  `finalize_diagnostic_version` locks the row but counts questions, options and
  outcomes in a snapshot from before it waited, so an import that commits in
  between is not what was checked (`07_admin_finalize_version.md:32`).
- **A cached result for other answers** (`SessionPipeline_second_batch`). A
  second, disjoint batch of answers replaces the hash of the first and leaves
  the result; the cache then gives that result to another session whose answers
  are the second batch (`00_common.md:25`). The web client does not send
  disjoint batches unless the user changes every answer after a failure.
- **A session changes owner** (`SessionPipeline_race_owner`). The owners are
  checked in the snapshot without the lock that `24_user_link_session.md:56,61`
  asks for.

- **A submission that is not saved** (`Screens_submit_saved`). `issue/resolve/24_loader.md:19`
  wants the local state to say `awaiting_llm` before the LLM is called, so that no other
  session is started. The provider's effect that reads the stored snapshot depends on the toast context
  (`context.tsx:88-101`), and the toast that follows the submission re-runs it: the older
  snapshot is read back over the state and then stored.
- **A spinner without end** (`Screens_endless_loading`). `front/03_共通診断画面.md:70` wants an error with a
  retry when the form cannot be loaded. After E022 `handleSubmit` loads the form again
  (`CommonQaScreen.tsx:378-380`); if that fails, `loadForm` clears the form and sets its error
  (`:148-154`), and the loading card (`:480`) comes before the card with the retry (`:490`). The run
  takes the server's refusal as given; it takes choices of another version, which two tabs can make with a version activated
  in between.

## 7. What is not modelled

- The catalogues of questions and outcomes, whose rows are found by their key alone.
- Parsing of workbooks, template export, master data,
  profile, rendering and proxies: pure functions or pure I/O without state of
  their own.
- In the clients: layout and wording; the master data of the result's details; the template
  download, the token countdown, the note of the prompt editor and the full prompt of the detail card,
  which shows the prompt of the version selected before until its own button is pressed; the sign-out on
  401 in the hooks; registration, OAuth exchanges and the device check.
- The wire formats of the LLM providers; they return a document or fail.
- `SELECT` lists, response bodies and error texts; a response is its code.
- Collisions of SHA-256.
- InnoDB's lock wait timeout: a lock is granted eventually, or the request fails
  (`Fail`).

## 8. Plan

Done: `VersionLifecycle` and `SessionPipeline` with contracts, runs and proofs; the
browser applications, authentication, the serving of requests and the option catalogue, with proofs, and
the theorems of their composition.
What is left:

1. **Serving ends**: liveness of `RequestServing` with the timeouts.
2. **PublishAndAnswer**: composition of `VersionLifecycle` and `SessionPipeline`
   over the active version: a session is only ever started on a finalized one.
