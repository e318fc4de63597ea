---------------------------- MODULE ClientSession ----------------------------
(***************************************************************************)
(* A visitor's browser during a diagnosis: the question screen, which      *)
(* starts a session, sends the answers and asks for the result; the result *)
(* screen, which polls for it; and the snapshot of the session that both   *)
(* share through localStorage with the linker, which saves the result to   *)
(* the account signed in.                                                  *)
(*                                                                         *)
(* React is modelled as far as the code depends on it: `prov` holds the    *)
(* provider's latest state with what its next commit will find changed,    *)
(* and Commit runs the effects of that commit in their order.  The await   *)
(* of a handler is a step of its own; what runs between two awaits is one  *)
(* step.  One diagnostic is supported, so there is one snapshot.           *)
(***************************************************************************)
EXTENDS Naturals, FiniteSets

CONSTANTS
    Accounts,     \* the accounts the visitor can sign in with
    MaxSessions,  \* sessions the server starts
    MaxTries,     \* LLM calls within LLM_EXECUTION_MAX_WAIT_MS, and polls within MAX_POLL_DURATION_MS
    MaxLinks,     \* link requests in flight at a time
    NULL

ASSUME ClientAssumption ==
    /\ MaxSessions \in Nat /\ MaxTries \in Nat /\ MaxLinks \in Nat
    /\ NULL \notin Accounts

VARIABLES
    srv,      \* the server: sessions started, recorded, generated, and their owners
    account,  \* the account signed in (useSession), or NULL
    store,    \* the snapshot in localStorage, or NULL
    prov,     \* the provider: its state, and what changed since its last commit
    toastUp,  \* a toast is on the screen
    page,     \* the page shown, the session of a result page, the session to go to
    view,     \* useSessionInitialiser: what the question screen shows
    flow,     \* the run of handleSubmit for each session
    links,    \* the link requests in flight
    poll      \* the result screen: its polling, and the session whose result it shows

clientVars == <<srv, account, store, prov, toastUp, page, view, flow, links, poll>>

Codes == 1 .. MaxSessions

\* createEmptyState; 0 is no session and no result, a result is named by its session.
EmptySnapshot ==
    [code |-> 0, status |-> "in_progress", result |-> 0, linked |-> FALSE]

ReadSnapshot(s) == IF s = NULL THEN EmptySnapshot ELSE s

IdleFlow == [at |-> "none", tries |-> 0, who |-> NULL, live |-> FALSE]
FreshView == [boot |-> FALSE, init |-> "idle", allow |-> FALSE, decision |-> FALSE,
              error |-> FALSE, form |-> FALSE, formError |-> FALSE]
FreshProvider(s) == [state |-> ReadSnapshot(s), dirty |-> TRUE, toasted |-> FALSE]
NoProvider == [state |-> EmptySnapshot, dirty |-> FALSE, toasted |-> FALSE]
FreshPoll(name) == [at |-> IF name = "result" THEN "ask" ELSE "none", tries |-> 0, shown |-> 0]

ClientInit ==
    /\ srv = [started |-> 0, recorded |-> {}, generated |-> {},
              owner |-> [c \in Codes |-> NULL]]
    /\ account = NULL /\ store = NULL /\ prov = NoProvider /\ toastUp = FALSE
    /\ page = [name |-> "away", code |-> 0, to |-> 0]
    /\ view = FreshView /\ flow = [c \in Codes |-> IdleFlow]
    /\ links = {} /\ poll = FreshPoll("away")

Snapshot == [code : 0 .. MaxSessions, status : {"in_progress", "awaiting_llm", "completed"},
             result : 0 .. MaxSessions, linked : BOOLEAN]

ASSUME SnapshotAssumption == NULL \notin Snapshot

Server == [started : 0 .. MaxSessions, recorded : SUBSET Codes, generated : SUBSET Codes,
           owner : [Codes -> Accounts \cup {NULL}]]
Provider == [state : Snapshot, dirty : BOOLEAN, toasted : BOOLEAN]
Page == [name : {"away", "qa", "result"}, code : 0 .. MaxSessions, to : 0 .. MaxSessions]
View == [boot : BOOLEAN, init : {"idle", "start", "form"}, allow : BOOLEAN,
         decision : BOOLEAN, error : BOOLEAN, form : BOOLEAN, formError : BOOLEAN]
Flow == [at : {"none", "submit", "form", "llm", "sleep", "link"}, tries : 0 .. MaxTries,
         who : Accounts \cup {NULL}, live : BOOLEAN]
LinkRequests == [entry : Snapshot, who : Accounts, via : {"screen", "boot", "login", "flow"}]
Poll == [at : {"none", "ask", "wait", "done", "error"}, tries : 0 .. MaxTries,
         shown : 0 .. MaxSessions]

ClientTypeOK ==
    /\ srv \in Server
    /\ account \in Accounts \cup {NULL} /\ toastUp \in BOOLEAN
    /\ store \in Snapshot \cup {NULL} /\ prov \in Provider
    /\ page \in Page /\ view \in View /\ flow \in [Codes -> Flow]
    /\ links \subseteq LinkRequests /\ poll \in Poll

-----------------------------------------------------------------------------
(* Toasts, and the provider's state.                                       *)

Mounted == page.name # "away"
Settled == ~prov.dirty /\ ~prov.toasted

\* toast.success and its kin change the toast context the provider depends on.
Toasted(p) == IF Mounted THEN [p EXCEPT !.toasted = TRUE] ELSE p

\* setState with a state or a recipe; without effect once the provider is unmounted.
Updated(p, s) == IF Mounted THEN [p EXCEPT !.state = s, !.dirty = TRUE] ELSE p

MarkAwaitingLlm(s, keep) ==
    [s EXCEPT !.status = "awaiting_llm", !.result = IF keep THEN @ ELSE 0]

\* The result kept is 0 when sanitizeSessionLlmResult finds nothing to read in it.
MarkCompleted(s, result) == [s EXCEPT !.status = "completed", !.result = result]

\* shouldResetState: a new session never continues the snapshot of another one.
Reconcile(s, c) ==
    IF s.status = "completed" \/ s.code # c
    THEN [EmptySnapshot EXCEPT !.code = c] ELSE s

\* linkPendingSessions up to its await, with others in flight: the request for a snapshot
\* not yet linked.
LinkRequest(others, s, who, via, allowed) ==
    IF /\ who # NULL /\ s # NULL /\ Cardinality(others) < MaxLinks
       /\ s.code # 0 /\ s.code \in allowed /\ ~s.linked
    THEN {[entry |-> s, who |-> who, via |-> via]} ELSE {}

\* One commit of the provider: its effects, and those of the screen inside it.
Commit ==
    /\ ~Settled
    /\ store' = IF prov.dirty THEN prov.state ELSE store
    /\ prov' = IF prov.toasted
               THEN [state |-> ReadSnapshot(store), dirty |-> TRUE, toasted |-> FALSE]
               ELSE [prov EXCEPT !.dirty = FALSE]
    /\ links' = links \cup
         IF /\ prov.toasted /\ page.name = "result"
            /\ prov.state.code = page.code /\ ~prov.state.linked
         THEN LinkRequest(links, store, account, "screen", {page.code}) ELSE {}
    /\ poll' = IF page.name = "result" /\ poll.shown = 0 /\ prov.state.code = page.code
               THEN [poll EXCEPT !.shown = prov.state.result] ELSE poll
    /\ UNCHANGED <<srv, account, toastUp, page, view, flow>>

\* The timer of a toast, or its close button.
DismissToast ==
    /\ toastUp /\ Settled
    /\ toastUp' = FALSE
    /\ prov' = Toasted(prov)
    /\ UNCHANGED <<srv, account, store, page, view, flow, links, poll>>

-----------------------------------------------------------------------------
(* Pages.                                                                  *)

\* Another page is mounted: the screens' state is new, running handlers go on.
Arrive(name, code) ==
    /\ page' = [name |-> name, code |-> code, to |-> 0]
    /\ view' = FreshView
    /\ prov' = IF name = "away" THEN NoProvider ELSE FreshProvider(store)
    /\ poll' = FreshPoll(name)
    /\ flow' = [c \in Codes |-> [flow[c] EXCEPT !.live = FALSE]]
    /\ UNCHANGED <<srv, account, store, toastUp>>

Idle == Settled /\ page.to = 0

OpenQuestions == Idle /\ page.name = "away" /\ Arrive("qa", 0) /\ UNCHANGED links
Leave == Idle /\ Mounted /\ Arrive("away", 0) /\ UNCHANGED links
\* router.push commits after the updates queued before it.
Navigate == Settled /\ page.to # 0 /\ Arrive("result", page.to) /\ UNCHANGED links
ViewPrevious ==
    /\ Idle /\ view.decision /\ prov.state.code # 0
    /\ Arrive("result", prov.state.code) /\ UNCHANGED links

\* The document is loaded again: every handler and request of the page is gone, and with an
\* account SessionLinkBootstrapper links what is stored.
Load(who) ==
    /\ flow' = [c \in Codes |-> IdleFlow]
    /\ toastUp' = FALSE /\ account' = who
    /\ page' = [page EXCEPT !.to = 0]
    /\ view' = FreshView
    /\ prov' = IF Mounted THEN FreshProvider(store) ELSE NoProvider
    /\ poll' = FreshPoll(page.name)
    /\ links' = LinkRequest({}, store, who, "boot", Codes)
    /\ UNCHANGED <<srv, store>>

Reload == Idle /\ Load(account)
SignOut == Idle /\ account # NULL /\ Load(NULL)

\* SessionLinkBootstrapper again, and the effect of the login page.
SignIn(a) ==
    /\ Idle /\ page.name = "away" /\ account = NULL
    /\ account' = a
    /\ links' = links \cup LinkRequest(links, store, a, "boot", Codes)
                      \cup LinkRequest(links, store, a, "login", Codes)
    /\ UNCHANGED <<srv, store, prov, toastUp, page, view, flow, poll>>

-----------------------------------------------------------------------------
(* useSessionInitialiser.                                                  *)

InitialiseSession(allow) ==
    IF ~allow /\ prov.state.status = "completed" /\ prov.state.code # 0
    THEN view' = [view EXCEPT !.boot = TRUE, !.allow = allow, !.error = FALSE,
                              !.decision = TRUE, !.form = FALSE]
    ELSE view' = [view EXCEPT !.boot = TRUE, !.allow = allow, !.error = FALSE, !.init = "start",
                              !.decision = IF allow THEN FALSE ELSE @]

\* Mutation: the effect runs whenever the callbacks it depends on change (issue 26).
FirstInitialiseAgain ==
    /\ page.name = "qa" /\ Settled
    /\ InitialiseSession(FALSE)
    /\ UNCHANGED <<srv, account, store, prov, toastUp, page, flow, links, poll>>

\* The effect guarded by hasInitialisedRef, in the first commit with a state.
FirstInitialise ==
    /\ page.name = "qa" /\ Settled /\ ~view.boot
    /\ InitialiseSession(FALSE)
    /\ UNCHANGED <<srv, account, store, prov, toastUp, page, flow, links, poll>>

RetryInitialise ==
    /\ Idle /\ view.error /\ view.init = "idle"
    /\ InitialiseSession(view.allow)
    /\ UNCHANGED <<srv, account, store, prov, toastUp, page, flow, links, poll>>

RequestRediagnosis ==
    /\ Idle /\ view.decision /\ prov.state.code # 0 /\ view.init = "idle"
    /\ InitialiseSession(TRUE)
    /\ UNCHANGED <<srv, account, store, prov, toastUp, page, flow, links, poll>>

Started(c) ==
    /\ c = srv.started + 1 /\ c \in Codes
    /\ srv' = [srv EXCEPT !.started = c]

\* The session is answered: its state replaces the snapshot, then the form is loaded.
SessionStarted ==
    /\ view.init = "start" /\ Settled
    /\ \E c \in Codes :
         /\ Started(c)
         /\ prov' = Updated(prov, Reconcile(prov.state, c))
    /\ view' = [view EXCEPT !.init = "form", !.formError = FALSE]
    /\ UNCHANGED <<account, store, toastUp, page, flow, links, poll>>

FormLoaded ==
    /\ view.init = "form" /\ Settled
    /\ view' = [view EXCEPT !.init = "idle", !.form = TRUE, !.decision = FALSE]
    /\ UNCHANGED <<srv, account, store, prov, toastUp, page, flow, links, poll>>

\* Either request fails; a session may have been started all the same.
InitialiseFails ==
    /\ view.init \in {"start", "form"} /\ Settled
    /\ \/ UNCHANGED srv
       \/ view.init = "start" /\ \E c \in Codes : Started(c)
    /\ view' = IF view.init = "form"
               THEN [view EXCEPT !.init = "idle", !.error = TRUE, !.form = FALSE, !.formError = TRUE]
               ELSE [view EXCEPT !.init = "idle", !.error = TRUE]
    /\ prov' = Toasted(prov) /\ toastUp' = TRUE
    /\ UNCHANGED <<account, store, page, flow, links, poll>>

-----------------------------------------------------------------------------
(* Answering, and handleSubmit.                                            *)

\* What the screen renders, the first card that applies.
Screen ==
    IF view.decision /\ prov.state.code # 0 THEN "decision"
    ELSE IF view.error THEN "retry"
    ELSE IF view.init # "idle" \/ ~view.form THEN "loading"
    ELSE IF view.formError THEN "form error"
    ELSE "questions"

\* One run of handleSubmit at a time: submitting and llmLoading disable the buttons, and a
\* visitor who leaves during a run submits the next session after it (a bound of the model).
Busy == \E c \in Codes : flow[c].at # "none"
Answerable == Idle /\ page.name = "qa" /\ Screen = "questions" /\ ~Busy

Submit ==
    /\ Answerable
    /\ IF prov.state.code = 0
       THEN /\ prov' = Toasted(prov) /\ toastUp' = TRUE /\ UNCHANGED flow
       ELSE /\ flow' = [flow EXCEPT ![prov.state.code] =
                          [at |-> "submit", tries |-> 0, who |-> account, live |-> TRUE]]
            /\ UNCHANGED <<prov, toastUp>>
    /\ UNCHANGED <<srv, account, store, page, view, links, poll>>

\* An action of the provider, if the screen that runs handleSubmit is still mounted.
Acted(c, s) == IF flow[c].live THEN Updated(prov, s) ELSE prov

\* The answers are recorded, or were before (E041): go on to the LLM.
AnswersSubmitted(c) ==
    /\ flow[c].at = "submit" /\ Settled
    /\ srv' = [srv EXCEPT !.recorded = @ \cup {c}]
    /\ prov' = Toasted(Acted(c, MarkAwaitingLlm(prov.state, c \in srv.recorded)))
    /\ toastUp' = TRUE
    /\ flow' = [flow EXCEPT ![c].at = "llm"]
    /\ UNCHANGED <<account, store, page, view, links, poll>>

\* The options are another version's (E022): the form is loaded again, by force.
SubmitOutOfVersion(c) ==
    /\ flow[c].at = "submit" /\ Settled
    /\ prov' = Toasted(prov) /\ toastUp' = TRUE
    /\ flow' = [flow EXCEPT ![c].at = "form"]
    /\ view' = IF flow[c].live THEN [view EXCEPT !.formError = FALSE] ELSE view
    /\ UNCHANGED <<srv, account, store, page, links, poll>>

FormReloaded(c) ==
    /\ flow[c].at = "form" /\ Settled
    /\ flow' = [flow EXCEPT ![c] = IdleFlow]
    /\ view' = IF flow[c].live THEN [view EXCEPT !.form = TRUE] ELSE view
    /\ UNCHANGED <<srv, account, store, prov, toastUp, page, links, poll>>

\* The form is dropped, and what loadForm throws is ignored.
FormReloadFails(c) ==
    /\ flow[c].at = "form" /\ Settled
    /\ flow' = [flow EXCEPT ![c] = IdleFlow]
    /\ view' = IF flow[c].live
               THEN [view EXCEPT !.form = FALSE, !.formError = TRUE] ELSE view
    /\ UNCHANGED <<srv, account, store, prov, toastUp, page, links, poll>>

\* Any other answer, or none: the server may have recorded the answers.
SubmitFails(c) ==
    /\ flow[c].at = "submit" /\ Settled
    /\ \/ UNCHANGED srv
       \/ srv' = [srv EXCEPT !.recorded = @ \cup {c}]
    /\ prov' = Toasted(prov) /\ toastUp' = TRUE
    /\ flow' = [flow EXCEPT ![c] = IdleFlow]
    /\ UNCHANGED <<account, store, page, view, links, poll>>

\* router.push after handleSubmit, wherever the visitor is by then.
Pushed(c) == page' = [page EXCEPT !.to = c]

\* The result, readable or not: saved in the state, then linked (the linker reads the
\* storage before the state reaches it) or shown.
LlmSucceeds(c) ==
    /\ flow[c].at = "llm" /\ Settled
    /\ srv' = [srv EXCEPT !.generated = @ \cup {c}]
    /\ \E result \in {0, c} : prov' = Toasted(Acted(c, MarkCompleted(prov.state, result)))
    /\ toastUp' = TRUE
    /\ LET request == LinkRequest(links, store, flow[c].who, "flow", {c})
       IN /\ links' = links \cup request
          /\ IF request # {}
             THEN flow' = [flow EXCEPT ![c].at = "link"] /\ UNCHANGED page
             ELSE flow' = [flow EXCEPT ![c] = IdleFlow] /\ Pushed(c)
    /\ UNCHANGED <<account, store, view, poll>>

\* A gateway error or a timeout: wait and ask again until the time is over.
LlmUnavailable(c) ==
    /\ flow[c].at = "llm" /\ Settled
    /\ \/ UNCHANGED srv
       \/ srv' = [srv EXCEPT !.generated = @ \cup {c}]
    /\ IF flow[c].tries < MaxTries
       THEN flow' = [flow EXCEPT ![c].at = "sleep"] /\ UNCHANGED <<prov, toastUp>>
       ELSE flow' = [flow EXCEPT ![c] = IdleFlow] /\ prov' = Toasted(prov) /\ toastUp' = TRUE
    /\ UNCHANGED <<account, store, page, view, links, poll>>

\* Mutation: the time spent is not counted.
WakeUpUncounted(c) ==
    /\ flow[c].at = "sleep" /\ Settled
    /\ flow' = [flow EXCEPT ![c].at = "llm"]
    /\ UNCHANGED <<srv, account, store, prov, toastUp, page, view, links, poll>>

WakeUp(c) ==
    /\ flow[c].at = "sleep" /\ Settled
    /\ flow' = [flow EXCEPT ![c].at = "llm", ![c].tries = @ + 1]
    /\ UNCHANGED <<srv, account, store, prov, toastUp, page, view, links, poll>>

LlmFails(c) ==
    /\ flow[c].at = "llm" /\ Settled
    /\ flow' = [flow EXCEPT ![c] = IdleFlow]
    /\ prov' = Toasted(prov) /\ toastUp' = TRUE
    /\ UNCHANGED <<srv, account, store, page, view, links, poll>>

-----------------------------------------------------------------------------
(* linkPendingSessions after its await.                                    *)

Free(c, a) == srv.owner[c] \in {NULL, a}

\* The continuation of handleSubmit, when the request is its own.
AfterLink(l, ok) ==
    IF l.via = "flow"
    THEN /\ flow' = [flow EXCEPT ![l.entry.code] = IdleFlow]
         /\ IF ok THEN Pushed(l.entry.code) ELSE UNCHANGED page
    ELSE UNCHANGED <<flow, page>>

\* linked or already_linked: the snapshot read before the request is written back.
LinkAcknowledged(l) ==
    /\ l \in links /\ Settled /\ Free(l.entry.code, l.who)
    /\ srv' = [srv EXCEPT !.owner[l.entry.code] = l.who]
    /\ store' = [l.entry EXCEPT !.linked = TRUE]
    /\ IF srv.owner[l.entry.code] = NULL
       THEN prov' = Toasted(prov) /\ toastUp' = TRUE
       ELSE UNCHANGED <<prov, toastUp>>
    /\ links' = links \ {l}
    /\ AfterLink(l, TRUE)
    /\ UNCHANGED <<account, view, poll>>

\* Mutation: the snapshot is marked as linked whatever the answer is.
LinkFailsMarked(l) ==
    /\ l \in links /\ Settled
    /\ store' = [l.entry EXCEPT !.linked = TRUE]
    /\ prov' = Toasted(prov) /\ toastUp' = TRUE
    /\ links' = links \ {l}
    /\ AfterLink(l, FALSE)
    /\ UNCHANGED <<srv, account, view, poll>>

\* E063, or no answer; the session may have been linked all the same.
LinkFails(l) ==
    /\ l \in links /\ Settled
    /\ \/ UNCHANGED srv
       \/ /\ Free(l.entry.code, l.who)
          /\ srv' = [srv EXCEPT !.owner[l.entry.code] = l.who]
    /\ prov' = Toasted(prov) /\ toastUp' = TRUE
    /\ links' = links \ {l}
    /\ AfterLink(l, FALSE)
    /\ UNCHANGED <<account, store, view, poll>>

-----------------------------------------------------------------------------
(* The result screen.                                                      *)

\* Mutation: the result is saved in the snapshot of whichever session that has.
PollAnsweredAnySession ==
    /\ poll.at = "ask" /\ Settled
    /\ IF page.code \in srv.generated
       THEN /\ poll' = [poll EXCEPT !.at = "done", !.shown = page.code]
            /\ prov' = Updated(prov, MarkCompleted(prov.state, page.code))
       ELSE /\ poll' = [poll EXCEPT !.at = IF poll.tries < MaxTries THEN "wait" ELSE "error"]
            /\ UNCHANGED prov
    /\ UNCHANGED <<srv, account, store, toastUp, page, view, flow, links>>

PollAnswered ==
    /\ poll.at = "ask" /\ Settled
    /\ IF page.code \in srv.generated
       THEN /\ poll' = [poll EXCEPT !.at = "done", !.shown = page.code]
            /\ prov' = IF prov.state.code = page.code
                       THEN Updated(prov, MarkCompleted(prov.state, page.code)) ELSE prov
       ELSE /\ poll' = [poll EXCEPT !.at = IF poll.tries < MaxTries THEN "wait" ELSE "error",
                                    !.shown = 0]
            /\ UNCHANGED prov
    /\ UNCHANGED <<srv, account, store, toastUp, page, view, flow, links>>

\* No answer, or a result that cannot be read.
PollFails ==
    /\ poll.at = "ask" /\ Settled
    /\ \/ poll' = [poll EXCEPT !.at = "error"]
       \/ page.code \in srv.generated /\ poll' = [poll EXCEPT !.at = "error", !.shown = 0]
    /\ UNCHANGED <<srv, account, store, prov, toastUp, page, view, flow, links>>

\* Mutation: the polls are not counted.
PollAgainUncounted ==
    /\ poll.at = "wait" /\ Settled
    /\ poll' = [poll EXCEPT !.at = "ask"]
    /\ UNCHANGED <<srv, account, store, prov, toastUp, page, view, flow, links>>

PollAgain ==
    /\ poll.at = "wait" /\ Settled
    /\ poll' = [poll EXCEPT !.at = "ask", !.tries = @ + 1]
    /\ UNCHANGED <<srv, account, store, prov, toastUp, page, view, flow, links>>

-----------------------------------------------------------------------------
\* What the visitor does, and what goes wrong.
Visitor ==
    \/ OpenQuestions \/ Leave \/ ViewPrevious \/ Reload \/ SignOut
    \/ \E a \in Accounts : SignIn(a)
    \/ RetryInitialise \/ RequestRediagnosis \/ Submit

\* What the page does by itself: effects, timers and the answers to its requests.
Effects == Commit \/ Navigate \/ FirstInitialise
Initialising == SessionStarted \/ FormLoaded \/ InitialiseFails
Submitting(c) ==
    \/ AnswersSubmitted(c) \/ SubmitFails(c)
    \/ SubmitOutOfVersion(c) \/ FormReloaded(c) \/ FormReloadFails(c)
    \/ LlmSucceeds(c) \/ LlmUnavailable(c) \/ LlmFails(c) \/ WakeUp(c)
Linking(l) == LinkAcknowledged(l) \/ LinkFails(l)
Polling == PollAnswered \/ PollFails \/ PollAgain

ClientNext ==
    \/ Visitor \/ DismissToast \/ Effects \/ Initialising \/ Polling
    \/ \E c \in Codes : Submitting(c)
    \/ \E l \in links : Linking(l)

-----------------------------------------------------------------------------
(* The commits, requests and timers of the page go on.  Commits are urgent  *)
(* in the model, so the steps that wait for one have strong fairness: they  *)
(* are enabled after every commit, however many commits the visitor causes. *)
Loading == FirstInitialise \/ Initialising
Submission ==
    \/ \E c \in Codes : Submitting(c)
    \/ \E l \in links : l.via = "flow" /\ Linking(l)

ClientFairness ==
    /\ WF_clientVars(Commit)
    /\ SF_clientVars(Loading) /\ SF_clientVars(Submission) /\ SF_clientVars(Polling)

ClientSpec == ClientInit /\ [][ClientNext]_clientVars /\ ClientFairness

-----------------------------------------------------------------------------
(* Properties.                                                             *)

Snapshots == ({store} \ {NULL}) \cup {prov.state} \cup {l.entry : l \in links}

\* As long as nothing has been linked, a result kept or shown for a session is the
\* one the LLM gave for that session, whatever reloads, retries, toasts and late
\* answers come between (context.tsx:88-115, ResultScreen.tsx:158-253).  Linking
\* excepted: useSessionLinker.ts:107 writes back what it read before its request.
UnlinkedResultsAreGenuine ==
    (\A c \in Codes : srv.owner[c] = NULL) =>
        /\ \A s \in Snapshots : s.result # 0 => s.result = s.code /\ s.code \in srv.generated
        /\ poll.shown # 0 => poll.shown = page.code /\ poll.shown \in srv.generated

\* A snapshot says "linked" only of a session that the server has linked to an
\* account: a lost answer, a refusal or a snapshot read before another request's answer
\* never makes the browser believe that a result is saved when it is not
\* (useSessionLinker.ts:107-140).
LinkedMeansOwned ==
    \A s \in Snapshots : s.linked => srv.owner[s.code] # NULL

\* No session is started while a submission runs on its screen, whatever toasts and
\* re-renders it causes (CommonQaScreen.tsx:198-207; issue/resolve/26).
SubmitStartsNothing ==
    [][\A c \in Codes : flow[c].at # "none" /\ flow[c].live =>
          srv'.started = srv.started]_clientVars

\* Every run of handleSubmit ends, in the result page or in an error: the retries of
\* the LLM call have a limit (llmExecution.ts:111-167).
SubmitEnds == Busy ~> ~Busy

Waiting == (page.name = "qa" /\ Screen = "loading") \/ poll.at \in {"ask", "wait"}
RarelyReloaded == <>[][~(Reload \/ SignOut)]_clientVars

\* The form of a submission's screen could not be loaded again: the card with the retry
\* button comes after the loading card, which a screen without a form shows.
FormLost == view.formError /\ ~view.error /\ view.init = "idle"

\* No spinner is for ever, for a visitor who does not reload for ever: the question
\* screen reaches its questions, the choice or the retry button, and the result screen
\* stops asking (CommonQaScreen.tsx:447-530, ResultScreen.tsx:163-253).  But for the
\* screen of a submission that lost its form, see NoEndlessLoading.
LoadingEnds ==
    RarelyReloaded => (Waiting /\ ~FormLost ~> ~Waiting \/ FormLost)

\* The document of the question screen (front/03): when a call fails the loader goes at
\* once, for an error with a retry button.  Not when a submission's form cannot be loaded
\* again (CommonQaScreen.tsx:378-380, :148-154, :480-514).
NoEndlessLoading == RarelyReloaded => (Waiting ~> ~Waiting)

\* issue/resolve/24: once the answers are submitted, the snapshot in the browser says
\* so ("awaiting_llm"), so that a reload does not start another session.
SubmittedIsSaved ==
    \A c \in Codes :
        Settled /\ flow[c].at \in {"llm", "sleep"} /\ flow[c].live =>
            store # NULL /\ (store.code = c => store.status # "in_progress")

=============================================================================
