------------------------- MODULE ClientSession_proofs -------------------------
(***************************************************************************)
(* Theorems about ClientSession, for any accounts, sessions, numbers of    *)
(* tries and of link requests in flight.                                   *)
(***************************************************************************)
EXTENDS ClientSession, TLAPS

\* The tries left when a retry waits for its timer.
CountInv ==
    /\ poll.at = "wait" => poll.tries < MaxTries
    /\ \A c \in Codes : flow[c].at = "sleep" => flow[c].tries < MaxTries

\* A session or a form is asked for by a screen that has initialised.
BootInv == view.form \/ view.init # "idle" => view.boot

\* A run of handleSubmit whose screen is still mounted.
FlowLive(c) == flow[c].at # "none" /\ flow[c].live

\* Below such a run the question screen is at its questions.
LiveInv ==
    \A c \in Codes : FlowLive(c) =>
        /\ page.name = "qa" /\ view.boot /\ view.init = "idle"
        /\ ~view.error /\ ~view.decision

\* "Linked" is said of a session that has an owner.
Honest(s) == s.linked => s.code \in Codes /\ srv.owner[s.code] # NULL

LinkedInv ==
    /\ \A s \in Snapshots : Honest(s)
    /\ \A l \in links : l.entry.code \in Codes

\* A result kept for a session is the one the LLM gave for it.
Genuine(s) == s.result # 0 => s.result = s.code /\ s.code \in srv.generated

\* While nothing is linked, a mounted run of handleSubmit is about the session of the
\* provider and of the storage, which agree whenever the provider has saved its state.
Unlinked == \A c \in Codes : srv.owner[c] = NULL

GenuineInv ==
    Unlinked =>
        /\ \A s \in Snapshots : Genuine(s)
        /\ poll.shown # 0 => poll.shown = page.code /\ poll.shown \in srv.generated
        /\ \A c \in Codes : FlowLive(c) => prov.state.code = c /\ ReadSnapshot(store).code = c
        /\ Mounted /\ ~prov.dirty => ReadSnapshot(store).code = prov.state.code

\* The inductive invariant.
ClientInv == ClientTypeOK /\ CountInv /\ BootInv /\ LiveInv /\ LinkedInv /\ GenuineInv

-----------------------------------------------------------------------------
(* What the helpers return.                                                *)

\* Sessions are numbered from 1.
LEMMA CodesAre == \A c \in 0 .. MaxSessions : c \in Codes <=> c # 0
BY ClientAssumption DEF Codes

LEMMA CodesNumbers == Codes \subseteq 0 .. MaxSessions
BY ClientAssumption DEF Codes

\* What the code builds of a snapshot is a snapshot; of its code, its result and its mark
\* as linked it changes what it says.
LEMMA Awaiting ==
    ASSUME NEW s \in Snapshot, NEW c, NEW recorded
    PROVE  /\ MarkAwaitingLlm(s, c \in recorded) \in Snapshot
           /\ MarkAwaitingLlm(s, c \in recorded).code = s.code
           /\ MarkAwaitingLlm(s, c \in recorded).linked = s.linked
           /\ MarkAwaitingLlm(s, c \in recorded).result \in {0, s.result}
<1>1. PICK result \in {0, s.result} :
          MarkAwaitingLlm(s, c \in recorded) = [s EXCEPT !.status = "awaiting_llm", !.result = result]
  BY DEF MarkAwaitingLlm, Snapshot
<1>2. MarkAwaitingLlm(s, c \in recorded) = [code |-> s.code, status |-> "awaiting_llm",
                                            result |-> result, linked |-> s.linked]
  BY <1>1 DEF Snapshot
<1>3. QED
  BY <1>2, ClientAssumption DEF Snapshot

LEMMA Completed ==
    ASSUME NEW s \in Snapshot, NEW result \in 0 .. MaxSessions
    PROVE  /\ MarkCompleted(s, result) \in Snapshot
           /\ MarkCompleted(s, result).code = s.code
           /\ MarkCompleted(s, result).linked = s.linked
           /\ MarkCompleted(s, result).result = result
BY DEF MarkCompleted, Snapshot

LEMMA Emptied ==
    /\ EmptySnapshot \in Snapshot
    /\ EmptySnapshot.code = 0 /\ EmptySnapshot.result = 0 /\ ~EmptySnapshot.linked
BY ClientAssumption DEF EmptySnapshot, Snapshot

LEMMA Reconciled ==
    ASSUME NEW s \in Snapshot, NEW c \in Codes
    PROVE  /\ Reconcile(s, c) \in Snapshot
           /\ Reconcile(s, c).code = c
           /\ \/ Reconcile(s, c) = s
              \/ Reconcile(s, c).result = 0 /\ ~Reconcile(s, c).linked
<1>1. c \in 0 .. MaxSessions
  BY ClientAssumption DEF Codes
<1>2. CASE s.status = "completed" \/ s.code # c
  <2>1. Reconcile(s, c) = [code |-> c, status |-> "in_progress", result |-> 0, linked |-> FALSE]
    BY <1>2 DEF Reconcile, EmptySnapshot
  <2>2. QED
    BY <1>1, <2>1, ClientAssumption DEF Snapshot
<1>3. CASE ~(s.status = "completed" \/ s.code # c)
  BY <1>3 DEF Reconcile
<1>4. QED
  BY <1>2, <1>3

LEMMA ReadIsSnapshot == \A s \in Snapshot \cup {NULL} : ReadSnapshot(s) \in Snapshot
BY Emptied DEF ReadSnapshot

\* The provider's states are states of a provider.
LEMMA BuiltProviders ==
    /\ NoProvider \in Provider
    /\ \A s \in Snapshot \cup {NULL} : FreshProvider(s) \in Provider
    /\ \A p \in Provider : Toasted(p) \in Provider
    /\ \A p \in Provider, s \in Snapshot : Updated(p, s) \in Provider
BY Emptied, ReadIsSnapshot DEF NoProvider, FreshProvider, Toasted, Updated, Provider

\* A link request is for the session stored, which is not linked.
LEMMA LinkRequestOf ==
    ASSUME ClientTypeOK,
           NEW who \in Accounts \cup {NULL}, NEW via \in {"screen", "boot", "login", "flow"},
           NEW allowed \in SUBSET (0 .. MaxSessions), NEW others,
           NEW l \in LinkRequest(others, store, who, via, allowed)
    PROVE  /\ l \in LinkRequests /\ store # NULL /\ l.entry = store
           /\ l.entry.code \in Codes
<1>1. /\ l = [entry |-> store, who |-> who, via |-> via]
      /\ who # NULL /\ store # NULL /\ store.code # 0
  BY DEF LinkRequest
<1>2. store \in Snapshot /\ store.code \in 0 .. MaxSessions
  BY <1>1 DEF ClientTypeOK, Snapshot
<1>3. store.code \in Codes
  BY <1>1, <1>2, ClientAssumption DEF Codes
<1>4. QED
  BY <1>1, <1>2, <1>3 DEF LinkRequests

\* What initialising leaves: a choice, or the request for a session.
LEMMA Initialised ==
    ASSUME view \in View, NEW allow \in BOOLEAN, InitialiseSession(allow)
    PROVE  /\ view' \in View /\ view'.boot /\ ~view'.error
           /\ view'.init \in {view.init, "start"}
<1>1. CASE ~allow /\ prov.state.status = "completed" /\ prov.state.code # 0
  <2>1. view' = [boot |-> TRUE, init |-> view.init, allow |-> allow, decision |-> TRUE,
                 error |-> FALSE, form |-> FALSE, formError |-> view.formError]
    BY <1>1 DEF InitialiseSession, View
  <2>2. QED
    BY <2>1 DEF View
<1>2. CASE ~(~allow /\ prov.state.status = "completed" /\ prov.state.code # 0)
  <2>1. PICK decision \in BOOLEAN :
            view' = [view EXCEPT !.boot = TRUE, !.allow = allow, !.error = FALSE,
                                 !.init = "start", !.decision = decision]
    BY <1>2 DEF InitialiseSession, View
  <2>2. view' = [boot |-> TRUE, init |-> "start", allow |-> allow, decision |-> decision,
                 error |-> FALSE, form |-> view.form, formError |-> view.formError]
    BY <2>1 DEF View
  <2>3. QED
    BY <2>2 DEF View
<1>3. QED
  BY <1>1, <1>2

\* The values of a new document, screen and run of handleSubmit.
LEMMA FreshValues ==
    /\ FreshView \in View /\ ~FreshView.boot /\ FreshView.init = "idle" /\ ~FreshView.form
    /\ IdleFlow \in Flow /\ IdleFlow.at = "none" /\ ~IdleFlow.live
    /\ \A name : FreshPoll(name) \in Poll /\ FreshPoll(name).shown = 0
    /\ \A name : FreshPoll(name).at \in {"none", "ask"}
BY ClientAssumption DEF IdleFlow, Flow, FreshPoll, Poll, FreshView, View

\* The options were another version's, and the form is loaded again.
Reforming(c) == SubmitOutOfVersion(c) \/ FormReloaded(c) \/ FormReloadFails(c)

\* The steps of the whole system, one by one.
LEMMA Steps ==
    ASSUME ClientNext
    PROVE  \/ OpenQuestions \/ Leave \/ Navigate \/ ViewPrevious
           \/ Reload \/ SignOut \/ \E a \in Accounts : SignIn(a)
           \/ Commit \/ DismissToast
           \/ FirstInitialise \/ RetryInitialise \/ RequestRediagnosis
           \/ SessionStarted \/ FormLoaded \/ InitialiseFails
           \/ Submit
           \/ \E c \in Codes : \/ AnswersSubmitted(c) \/ SubmitFails(c) \/ LlmSucceeds(c)
                               \/ LlmUnavailable(c) \/ WakeUp(c) \/ LlmFails(c)
                               \/ Reforming(c)
           \/ \E l \in links : LinkAcknowledged(l) \/ LinkFails(l)
           \/ PollAnswered \/ PollFails \/ PollAgain
BY DEF ClientNext, Visitor, Effects, Initialising, Submitting, Linking, Polling, Reforming

-----------------------------------------------------------------------------
(* Types.                                                                  *)

LEMMA TypeStep ==
    ASSUME ClientTypeOK, CountInv, ClientNext
    PROVE  ClientTypeOK'
<1> USE ClientAssumption
<1>a. /\ srv \in Server /\ prov \in Provider /\ flow \in [Codes -> Flow]
      /\ store \in Snapshot \cup {NULL} /\ links \subseteq LinkRequests
      /\ view \in View /\ page \in Page /\ poll \in Poll
  BY DEF ClientTypeOK
<1>1. ASSUME NEW name \in {"away", "qa", "result"}, NEW code \in 0 .. MaxSessions,
             Arrive(name, code), links' = links
      PROVE  ClientTypeOK'
  <2>1. prov' \in Provider /\ view' \in View
    BY <1>1, <1>a, BuiltProviders, FreshValues DEF Arrive
  <2>2. flow' \in [Codes -> Flow]
    BY <1>1, <1>a DEF Arrive, Flow
  <2>3. poll' \in Poll
    BY <1>1, FreshValues DEF Arrive
  <2>4. QED
    BY <1>1, <1>a, <2>1, <2>2, <2>3 DEF Arrive, Page, ClientTypeOK
<1>2. ASSUME NEW who \in Accounts \cup {NULL}, Load(who)
      PROVE  ClientTypeOK'
  <2>1. prov' \in Provider /\ view' \in View /\ flow' \in [Codes -> Flow]
    BY <1>2, <1>a, BuiltProviders, FreshValues DEF Load
  <2>2. poll' \in Poll
    BY <1>2, FreshValues DEF Load
  <2>3. page' \in Page
    BY <1>2, <1>a, ClientAssumption DEF Load, Page
  <2>4. links' \subseteq LinkRequests
    BY <1>2, LinkRequestOf, CodesNumbers DEF Load
  <2>5. QED
    BY <1>2, <1>a, <2>1, <2>2, <2>3, <2>4 DEF Load, ClientTypeOK
<1>3. CASE OpenQuestions \/ Leave
  BY <1>1, <1>3, ClientAssumption DEF OpenQuestions, Leave
<1>4. CASE Navigate
  BY <1>1, <1>4, <1>a DEF Navigate, Page
<1>5. CASE ViewPrevious
  BY <1>1, <1>5, <1>a DEF ViewPrevious, Provider, Snapshot
<1>6. CASE Reload
  BY <1>2, <1>6 DEF Reload, ClientTypeOK
<1>7. CASE SignOut
  BY <1>2, <1>7 DEF SignOut
<1>8. CASE \E a \in Accounts : SignIn(a)
  <2>1. PICK a \in Accounts : SignIn(a)
    BY <1>8
  <2>2. /\ LinkRequest(links, store, a, "boot", Codes) \subseteq LinkRequests
        /\ LinkRequest(links, store, a, "login", Codes) \subseteq LinkRequests
    BY LinkRequestOf DEF Codes
  <2>3. QED
    BY <2>1, <2>2, <1>a DEF SignIn, ClientTypeOK
<1>9. CASE Commit
  <2>1. store' \in Snapshot \cup {NULL} /\ prov' \in Provider
    BY <1>9, <1>a, ReadIsSnapshot DEF Commit, Provider
  <2>2. links' \subseteq LinkRequests
    <3>1. page.code \in 0 .. MaxSessions /\ account \in Accounts \cup {NULL}
      BY DEF ClientTypeOK, Page
    <3>2. LinkRequest(links, store, account, "screen", {page.code}) \subseteq LinkRequests
      BY <3>1, LinkRequestOf
    <3>3. QED
      BY <1>9, <1>a, <3>2 DEF Commit
  <2>3. poll' \in Poll
    BY <1>9, <1>a DEF Commit, Poll, Provider, Snapshot
  <2>4. QED
    BY <1>9, <2>1, <2>2, <2>3 DEF Commit, ClientTypeOK
<1>10. CASE DismissToast
  BY <1>10, <1>a, BuiltProviders DEF DismissToast, ClientTypeOK
<1>11. CASE FirstInitialise \/ RetryInitialise \/ RequestRediagnosis
  <2>1. view' \in View
    BY <1>11, <1>a, Initialised DEF FirstInitialise, RetryInitialise, RequestRediagnosis, View
  <2>2. QED
    BY <1>11, <2>1 DEF FirstInitialise, RetryInitialise, RequestRediagnosis, ClientTypeOK
<1>12. CASE SessionStarted
  <2>1. PICK c \in Codes : Started(c) /\ prov' = Updated(prov, Reconcile(prov.state, c))
    BY <1>12 DEF SessionStarted
  <2>2. prov' \in Provider
    BY <2>1, <1>a, Reconciled, BuiltProviders DEF Provider
  <2>3. srv' \in Server
    BY <2>1, <1>a, CodesNumbers DEF Started, Server
  <2>4. view' \in View
    BY <1>12, <1>a DEF SessionStarted, View
  <2>5. QED
    BY <1>12, <2>2, <2>3, <2>4 DEF SessionStarted, ClientTypeOK
<1>13. CASE FormLoaded
  <2>1. view' = [boot |-> view.boot, init |-> "idle", allow |-> view.allow, decision |-> FALSE,
                 error |-> view.error, form |-> TRUE, formError |-> view.formError]
    BY <1>13, <1>a DEF FormLoaded, View
  <2>2. view' \in View
    BY <2>1, <1>a DEF View
  <2>3. QED
    BY <1>13, <2>2 DEF FormLoaded, ClientTypeOK
<1>14. CASE InitialiseFails
  <2>1. srv' \in Server
    BY <1>14, <1>a, CodesNumbers DEF InitialiseFails, Started, Server
  <2>2. prov' \in Provider
    BY <1>14, <1>a, BuiltProviders DEF InitialiseFails
  <2>3. PICK form \in BOOLEAN, lost \in BOOLEAN :
            view' = [boot |-> view.boot, init |-> "idle", allow |-> view.allow,
                     decision |-> view.decision, error |-> TRUE, form |-> form, formError |-> lost]
    BY <1>14, <1>a DEF InitialiseFails, View
  <2>4. view' \in View
    BY <2>3, <1>a DEF View
  <2>5. QED
    BY <1>14, <2>1, <2>2, <2>4 DEF InitialiseFails, ClientTypeOK
<1>15. CASE Submit
  <2>1. prov' \in Provider /\ toastUp' \in BOOLEAN
    BY <1>15, <1>a, BuiltProviders DEF Submit, ClientTypeOK
  <2>2. [at |-> "submit", tries |-> 0, who |-> account, live |-> TRUE] \in Flow
    BY DEF ClientTypeOK, Flow
  <2>3. flow' \in [Codes -> Flow]
    BY <1>15, <1>a, <2>2 DEF Submit
  <2>4. QED
    BY <1>15, <2>1, <2>3 DEF Submit, ClientTypeOK
<1>16. CASE \E c \in Codes : AnswersSubmitted(c)
  <2>1. PICK c \in Codes : AnswersSubmitted(c)
    BY <1>16
  <2>2. MarkAwaitingLlm(prov.state, c \in srv.recorded) \in Snapshot
    BY <1>a, Awaiting DEF Provider
  <2>3. prov' \in Provider
    BY <2>1, <2>2, <1>a, BuiltProviders DEF AnswersSubmitted, Acted
  <2>4. srv' \in Server
    BY <2>1, <1>a DEF AnswersSubmitted, Server
  <2>5. flow' \in [Codes -> Flow]
    BY <2>1, <1>a DEF AnswersSubmitted, Flow
  <2>6. QED
    BY <2>1, <2>3, <2>4, <2>5 DEF AnswersSubmitted, ClientTypeOK
<1>17. CASE \E c \in Codes : SubmitFails(c) \/ LlmFails(c)
  <2>1. PICK c \in Codes : SubmitFails(c) \/ LlmFails(c)
    BY <1>17
  <2>2. prov' \in Provider
    BY <2>1, <1>a, BuiltProviders DEF SubmitFails, LlmFails
  <2>3. srv' \in Server
    BY <2>1, <1>a DEF SubmitFails, LlmFails, Server
  <2>4. flow' \in [Codes -> Flow]
    BY <2>1, <1>a, FreshValues DEF SubmitFails, LlmFails
  <2>5. QED
    BY <2>1, <2>2, <2>3, <2>4 DEF SubmitFails, LlmFails, ClientTypeOK
<1>18. CASE \E c \in Codes : LlmSucceeds(c)
  <2>1. PICK c \in Codes : LlmSucceeds(c)
    BY <1>18
  <2>2. PICK result \in {0, c} : prov' = Toasted(Acted(c, MarkCompleted(prov.state, result)))
    BY <2>1 DEF LlmSucceeds
  <2>3. prov' \in Provider
    <3>1. MarkCompleted(prov.state, result) \in Snapshot
      BY <1>a, Completed, CodesNumbers DEF Provider
    <3>2. QED
      BY <2>2, <3>1, <1>a, BuiltProviders DEF Acted
  <2>4. srv' \in Server
    BY <2>1, <1>a DEF LlmSucceeds, Server
  <2>5. flow' \in [Codes -> Flow]
    BY <2>1, <1>a, FreshValues DEF LlmSucceeds, Flow
  <2>6. page' \in Page
    BY <2>1, <1>a, CodesNumbers DEF LlmSucceeds, Pushed, Page
  <2>7. links' \subseteq LinkRequests
    <3>1. flow[c].who \in Accounts \cup {NULL} /\ {c} \in SUBSET (0 .. MaxSessions)
      BY <1>a, CodesNumbers DEF Flow
    <3>2. LinkRequest(links, store, flow[c].who, "flow", {c}) \subseteq LinkRequests
      BY <3>1, LinkRequestOf
    <3>3. QED
      BY <2>1, <1>a, <3>2 DEF LlmSucceeds
  <2>8. QED
    BY <2>1, <2>3, <2>4, <2>5, <2>6, <2>7 DEF LlmSucceeds, ClientTypeOK
<1>19. CASE \E c \in Codes : LlmUnavailable(c) \/ WakeUp(c)
  <2>1. PICK c \in Codes : LlmUnavailable(c) \/ WakeUp(c)
    BY <1>19
  <2>2. prov' \in Provider /\ toastUp' \in BOOLEAN
    BY <2>1, <1>a, BuiltProviders DEF LlmUnavailable, WakeUp, ClientTypeOK
  <2>3. srv' \in Server
    BY <2>1, <1>a DEF LlmUnavailable, WakeUp, Server
  <2>4. flow' \in [Codes -> Flow]
    <3>1. CASE LlmUnavailable(c)
      BY <3>1, <1>a, FreshValues DEF LlmUnavailable, Flow
    <3>2. CASE WakeUp(c)
      <4>1. flow[c] \in Flow /\ flow[c].tries + 1 \in 0 .. MaxTries
        BY <3>2, <1>a DEF WakeUp, CountInv, Flow
      <4>2. [flow[c] EXCEPT !.at = "llm"] \in Flow
        BY <4>1 DEF Flow
      <4>3. flow' = [flow EXCEPT ![c] = [at |-> "llm", tries |-> flow[c].tries + 1,
                                         who |-> flow[c].who, live |-> flow[c].live]]
        BY <3>2, <4>1, <1>a DEF WakeUp, Flow
      <4>4. QED
        BY <4>1, <4>3, <1>a DEF Flow
    <3>3. QED
      BY <2>1, <3>1, <3>2
  <2>5. QED
    BY <2>1, <2>2, <2>3, <2>4 DEF LlmUnavailable, WakeUp, ClientTypeOK
<1>20. CASE \E l \in links : LinkAcknowledged(l) \/ LinkFails(l)
  <2>1. PICK l \in links : LinkAcknowledged(l) \/ LinkFails(l)
    BY <1>20
  <2>2. l \in LinkRequests /\ l.entry \in Snapshot /\ l.who \in Accounts
    BY <1>a DEF LinkRequests
  <2>3. prov' \in Provider /\ toastUp' \in BOOLEAN
    BY <2>1, <1>a, BuiltProviders DEF LinkAcknowledged, LinkFails, ClientTypeOK
  <2>4. srv' \in Server
    BY <2>1, <2>2, <1>a DEF LinkAcknowledged, LinkFails, Server
  <2>5. flow' \in [Codes -> Flow]
    BY <2>1, <1>a, FreshValues DEF LinkAcknowledged, LinkFails, AfterLink
  <2>6. page' \in Page
    BY <2>1, <2>2, <1>a DEF LinkAcknowledged, LinkFails, AfterLink, Pushed, Page, Snapshot
  <2>7. store' \in Snapshot \cup {NULL}
    BY <2>1, <2>2, <1>a DEF LinkAcknowledged, LinkFails, Snapshot
  <2>8. QED
    BY <2>1, <1>a, <2>3, <2>4, <2>5, <2>6, <2>7 DEF LinkAcknowledged, LinkFails, ClientTypeOK
<1>21. CASE PollAnswered
  <2>1. prov' \in Provider
    <3>1. page.code \in 0 .. MaxSessions
      BY <1>a DEF Page
    <3>2. MarkCompleted(prov.state, page.code) \in Snapshot
      BY <3>1, <1>a, Completed DEF Provider
    <3>3. QED
      BY <1>21, <3>2, <1>a, BuiltProviders DEF PollAnswered
  <2>2. poll' \in Poll
    <3>1. CASE page.code \in srv.generated
      BY <1>21, <3>1, <1>a DEF PollAnswered, Poll, Page
    <3>2. CASE page.code \notin srv.generated
      <4>1. PICK at \in {"wait", "error"} : poll' = [poll EXCEPT !.at = at, !.shown = 0]
        BY <1>21, <3>2 DEF PollAnswered
      <4>2. poll' = [at |-> at, tries |-> poll.tries, shown |-> 0]
        BY <4>1, <1>a DEF Poll
      <4>3. QED
        BY <4>2, <1>a DEF Poll
    <3>3. QED
      BY <3>1, <3>2
  <2>3. QED
    BY <1>21, <2>1, <2>2 DEF PollAnswered, ClientTypeOK
<1>22. CASE PollFails \/ PollAgain
  <2>1. poll' \in Poll
    <3>1. CASE PollFails
      <4>1. PICK shown \in {0, poll.shown} : poll' = [poll EXCEPT !.at = "error", !.shown = shown]
        BY <3>1, <1>a DEF PollFails, Poll
      <4>2. poll' = [at |-> "error", tries |-> poll.tries, shown |-> shown]
        BY <4>1, <1>a DEF Poll
      <4>3. QED
        BY <4>2, <1>a DEF Poll
    <3>2. CASE PollAgain
      <4>1. poll.tries + 1 \in 0 .. MaxTries
        BY <3>2, <1>a DEF PollAgain, CountInv, Poll
      <4>2. poll' = [at |-> "ask", tries |-> poll.tries + 1, shown |-> poll.shown]
        BY <3>2, <1>a DEF PollAgain, Poll
      <4>3. QED
        BY <4>1, <4>2, <1>a DEF Poll
    <3>3. QED
      BY <1>22, <3>1, <3>2
  <2>2. QED
    BY <1>22, <2>1 DEF PollFails, PollAgain, ClientTypeOK
<1>23. CASE \E c \in Codes : Reforming(c)
  <2>1. PICK c \in Codes : Reforming(c)
    BY <1>23
  <2>2. prov' \in Provider /\ toastUp' \in BOOLEAN
    BY <2>1, <1>a, BuiltProviders
       DEF Reforming, SubmitOutOfVersion, FormReloaded, FormReloadFails, ClientTypeOK
  <2>3. view' \in View
    BY <2>1, <1>a DEF Reforming, SubmitOutOfVersion, FormReloaded, FormReloadFails, View
  <2>4. flow' \in [Codes -> Flow]
    BY <2>1, <1>a, FreshValues DEF Reforming, SubmitOutOfVersion, FormReloaded, FormReloadFails, Flow
  <2>5. QED
    BY <2>1, <2>2, <2>3, <2>4
       DEF Reforming, SubmitOutOfVersion, FormReloaded, FormReloadFails, ClientTypeOK
<1>24. QED
  BY Steps, <1>3, <1>4, <1>5, <1>6, <1>7, <1>8, <1>9, <1>10, <1>11, <1>12, <1>13, <1>14, <1>15,
     <1>16, <1>17, <1>18, <1>19, <1>20, <1>21, <1>22, <1>23

-----------------------------------------------------------------------------
(* The runs of handleSubmit and the screen below them.                     *)

\* What toasts, updates and mounts make of the provider.
LEMMA ProviderChanges ==
    /\ \A p \in Provider : Toasted(p).state = p.state /\ Toasted(p).dirty = p.dirty
    /\ \A p \in Provider : \A s : Mounted => Updated(p, s).state = s /\ Updated(p, s).dirty
    /\ \A p, s : ~Mounted => Updated(p, s) = p
    /\ \A s : FreshProvider(s).state = ReadSnapshot(s) /\ FreshProvider(s).dirty
    /\ NoProvider.state = EmptySnapshot
BY DEF Toasted, Updated, FreshProvider, NoProvider, Provider

\* The pages that are mounted or loaded, and what that leaves of the runs.
Mounting == OpenQuestions \/ Leave \/ Navigate \/ ViewPrevious
Reloading == Reload \/ SignOut
Running(c) ==
    \/ AnswersSubmitted(c) \/ SubmitFails(c) \/ LlmSucceeds(c)
    \/ LlmUnavailable(c) \/ WakeUp(c) \/ LlmFails(c)
Deciding == FirstInitialise \/ RetryInitialise \/ RequestRediagnosis

LEMMA MountingStep ==
    ASSUME ClientTypeOK, CountInv, Mounting \/ Reloading
    PROVE  /\ \A d \in Codes : ~FlowLive(d)'
           /\ view' = FreshView /\ poll'.shown = 0
           /\ CountInv'
<1>1. flow \in [Codes -> Flow]
  BY DEF ClientTypeOK
<1>2. CASE Mounting
  <2>1. PICK name, code : Arrive(name, code)
    BY <1>2 DEF Mounting, OpenQuestions, Leave, Navigate, ViewPrevious
  <2>2. \A d \in Codes : /\ ~flow'[d].live
                         /\ flow'[d].at = flow[d].at /\ flow'[d].tries = flow[d].tries
    BY <2>1, <1>1 DEF Arrive, Flow
  <2>3. QED
    BY <2>1, <2>2, FreshValues DEF Arrive, CountInv, FlowLive
<1>3. CASE Reloading
  <2>1. PICK who : Load(who)
    BY <1>3 DEF Reloading, Reload, SignOut
  <2>2. QED
    BY <2>1, FreshValues DEF Load, CountInv, FlowLive
<1>4. QED
  BY <1>2, <1>3

\* A step of a run changes neither the screen nor the page shown; it starts no run.
LEMMA RunningStep ==
    ASSUME ClientTypeOK, CountInv,
           \/ \E c \in Codes : Running(c)
           \/ \E l \in links : LinkAcknowledged(l) \/ LinkFails(l)
    PROVE  /\ page'.name = page.name /\ page'.code = page.code
           /\ UNCHANGED <<view, poll>>
           /\ \A d \in Codes : FlowLive(d)' => FlowLive(d)
           /\ CountInv'
<1>1. flow \in [Codes -> Flow] /\ page \in Page
  BY DEF ClientTypeOK
<1>2. /\ page'.name = page.name /\ page'.code = page.code
      /\ UNCHANGED <<view, poll>>
  BY <1>1 DEF Running, AnswersSubmitted, SubmitFails, LlmSucceeds, LlmUnavailable, WakeUp, LlmFails,
     LinkAcknowledged, LinkFails, AfterLink, Pushed, Page
<1>3. \A d \in Codes : \/ flow'[d] = flow[d] \/ flow'[d] = IdleFlow
                       \/ /\ flow[d].at # "none" /\ flow'[d].live = flow[d].live
                          /\ flow'[d].at = "sleep" => flow'[d].tries < MaxTries
  <2>1. CASE \E c \in Codes : AnswersSubmitted(c) \/ LlmUnavailable(c)
    BY <2>1, <1>1 DEF AnswersSubmitted, LlmUnavailable, Flow
  <2>2. CASE \E c \in Codes : SubmitFails(c) \/ LlmFails(c)
    BY <2>2, <1>1 DEF SubmitFails, LlmFails
  <2>3. CASE \E c \in Codes : LlmSucceeds(c)
    <3>1. PICK c \in Codes : LlmSucceeds(c)
      BY <2>3
    <3>2. flow' = [flow EXCEPT ![c].at = "link"] \/ flow' = [flow EXCEPT ![c] = IdleFlow]
      BY <3>1 DEF LlmSucceeds
    <3>3. flow[c].at = "llm"
      BY <3>1 DEF LlmSucceeds
    <3>4. QED
      BY <3>2, <3>3, <1>1 DEF Flow
  <2>4. CASE \E c \in Codes : WakeUp(c)
    BY <2>4, <1>1 DEF WakeUp, Flow
  <2>5. CASE \E l \in links : LinkAcknowledged(l) \/ LinkFails(l)
    BY <2>5, <1>1 DEF LinkAcknowledged, LinkFails, AfterLink
  <2>6. QED
    BY <2>1, <2>2, <2>3, <2>4, <2>5 DEF Running
<1>4. \A d \in Codes : FlowLive(d)' => FlowLive(d)
  BY <1>3, FreshValues DEF FlowLive
<1>5. CountInv'
  BY <1>2, <1>3, FreshValues DEF CountInv
<1>6. QED
  BY <1>2, <1>4, <1>5

\* Loading a form again leaves the screen below the run as it is, but for the form.
LEMMA ReformingStep ==
    ASSUME ClientTypeOK, CountInv, BootInv, LiveInv, \E c \in Codes : Reforming(c)
    PROVE  /\ UNCHANGED <<page, poll, store, srv, links>>
           /\ prov'.state = prov.state /\ prov'.dirty = prov.dirty
           /\ \A d \in Codes : FlowLive(d)' => FlowLive(d)
           /\ CountInv' /\ BootInv' /\ LiveInv'
<1> USE DEF Reforming, SubmitOutOfVersion, FormReloaded, FormReloadFails
<1>a. /\ flow \in [Codes -> Flow] /\ prov \in Provider /\ view \in View
  BY DEF ClientTypeOK
<1> PICK c \in Codes : Reforming(c)
  OBVIOUS
<1>1. UNCHANGED <<page, poll, store, srv, links>>
  OBVIOUS
<1>2. prov'.state = prov.state /\ prov'.dirty = prov.dirty
  BY <1>a, ProviderChanges
<1>3. \A d \in Codes : flow'[d] = flow[d] \/ flow'[d] = IdleFlow
                       \/ /\ d = c /\ flow[d].at = "submit"
                          /\ flow'[d].at = "form" /\ flow'[d].live = flow[d].live
  BY <1>a DEF Flow
<1>4. \A d \in Codes : FlowLive(d)' => FlowLive(d)
  BY <1>3, FreshValues DEF FlowLive
<1>5. CountInv'
  BY <1>1, <1>3, FreshValues DEF CountInv
<1>6. /\ view'.boot = view.boot /\ view'.init = view.init
      /\ view'.error = view.error /\ view'.decision = view.decision
  BY <1>a DEF View
<1>7. view'.form => view.form \/ FlowLive(c)
  BY <1>a DEF View, FlowLive
<1>8. BootInv' /\ LiveInv'
  BY <1>1, <1>4, <1>6, <1>7 DEF BootInv, LiveInv
<1>9. QED
  BY <1>1, <1>2, <1>4, <1>5, <1>8

\* Submitting needs the questions on the screen, for the session of the provider.
LEMMA SubmitStep ==
    ASSUME ClientTypeOK, CountInv, BootInv, Submit
    PROVE  /\ UNCHANGED <<page, view, poll, store, srv, links>>
           /\ prov'.state = prov.state /\ prov'.dirty = prov.dirty
           /\ \A d \in Codes : FlowLive(d)' /\ ~FlowLive(d) =>
                 /\ d = prov.state.code /\ page.name = "qa" /\ ~prov.dirty
                 /\ view.boot /\ view.init = "idle" /\ ~view.error /\ ~view.decision
           /\ CountInv'
<1>1. /\ flow \in [Codes -> Flow] /\ prov \in Provider
  BY DEF ClientTypeOK
<1>2. /\ UNCHANGED <<page, view, poll, store, srv, links>>
      /\ prov'.state = prov.state /\ prov'.dirty = prov.dirty
  BY <1>1 DEF Submit, Toasted, Provider
<1>3. page.name = "qa" /\ ~prov.dirty /\ Screen = "questions"
  BY DEF Submit, Answerable, Idle, Settled
<1>4. CASE prov.state.code = 0
  BY <1>2, <1>4 DEF Submit, FlowLive, CountInv
<1>5. CASE prov.state.code # 0
  <2>1. ~view.decision /\ ~view.error /\ view.init = "idle" /\ view.form
    BY <1>3, <1>5 DEF Screen
  <2>2. \A d \in Codes : \/ flow'[d] = flow[d]
                         \/ d = prov.state.code /\ flow'[d].at = "submit"
    BY <1>1, <1>5 DEF Submit
  <2>3. QED
    BY <1>2, <1>3, <2>1, <2>2 DEF FlowLive, CountInv, BootInv
<1>6. QED
  BY <1>4, <1>5

\* The steps of the screen that initialises, which no run is below.
LEMMA InitialisingStep ==
    ASSUME ClientTypeOK, BootInv, LiveInv,
           Deciding \/ SessionStarted \/ FormLoaded \/ InitialiseFails
    PROVE  /\ \A d \in Codes : ~FlowLive(d) /\ ~FlowLive(d)'
           /\ UNCHANGED <<page, poll, flow, store, links>>
           /\ BootInv'
<1>1. view \in View
  BY DEF ClientTypeOK
<1>2. UNCHANGED <<page, poll, flow, store, links>>
  BY DEF Deciding, FirstInitialise, RetryInitialise, RequestRediagnosis,
         SessionStarted, FormLoaded, InitialiseFails
<1>3. \A d \in Codes : ~FlowLive(d)
  BY DEF Deciding, FirstInitialise, RetryInitialise, RequestRediagnosis,
         SessionStarted, FormLoaded, InitialiseFails, LiveInv
<1>4. BootInv'
  <2>1. CASE Deciding
    BY <2>1, <1>1, Initialised DEF Deciding, FirstInitialise, RetryInitialise, RequestRediagnosis,
       View, BootInv
  <2>2. CASE SessionStarted \/ FormLoaded
    BY <2>2, <1>1 DEF SessionStarted, FormLoaded, View, BootInv
  <2>3. CASE InitialiseFails
    <3>1. view.boot
      BY <2>3 DEF InitialiseFails, BootInv
    <3>2. view'.boot
      BY <2>3, <3>1, <1>1 DEF InitialiseFails, View
    <3>3. QED
      BY <3>2 DEF BootInv
  <2>4. QED
    BY <2>1, <2>2, <2>3
<1>5. QED
  BY <1>2, <1>3, <1>4 DEF FlowLive
\* What neither mounts, loads, initialises nor runs.
Quiet == \/ Commit \/ DismissToast \/ \E a \in Accounts : SignIn(a)
         \/ PollAnswered \/ PollFails \/ PollAgain

LEMMA QuietStep ==
    ASSUME ClientTypeOK, CountInv, Quiet
    PROVE  UNCHANGED <<page, view, flow>> /\ CountInv'
<1>1. poll \in Poll
  BY DEF ClientTypeOK
<1>2. UNCHANGED <<page, view, flow>>
  BY DEF Quiet, Commit, DismissToast, SignIn, PollAnswered, PollFails, PollAgain
<1>3. poll'.at = "wait" => poll'.tries < MaxTries
  <2>1. CASE PollAnswered
    <3>1. CASE page.code \in srv.generated
      BY <2>1, <3>1, <1>1 DEF PollAnswered, Poll
    <3>2. CASE page.code \notin srv.generated
      BY <2>1, <3>2, <1>1 DEF PollAnswered, Poll
    <3>3. QED
      BY <3>1, <3>2
  <2>2. CASE Commit \/ PollFails \/ PollAgain
    BY <2>2, <1>1 DEF Commit, PollFails, PollAgain, Poll, CountInv
  <2>3. CASE DismissToast \/ \E a \in Accounts : SignIn(a)
    BY <2>3 DEF DismissToast, SignIn, CountInv
  <2>4. QED
    BY <2>1, <2>2, <2>3 DEF Quiet
<1>4. QED
  BY <1>2, <1>3 DEF CountInv

\* Every step is of one of these kinds.
LEMMA StepKinds ==
    ASSUME ClientNext
    PROVE  \/ Mounting \/ Reloading \/ Submit \/ Quiet
           \/ Deciding \/ SessionStarted \/ FormLoaded \/ InitialiseFails
           \/ \E c \in Codes : Running(c)
           \/ \E c \in Codes : Reforming(c)
           \/ \E l \in links : LinkAcknowledged(l) \/ LinkFails(l)
BY Steps DEF Mounting, Reloading, Quiet, Deciding, Running

LEMMA ScreenStep ==
    ASSUME ClientTypeOK, CountInv, BootInv, LiveInv, ClientNext
    PROVE  CountInv' /\ BootInv' /\ LiveInv'
<1>1. CASE Mounting \/ Reloading
  BY <1>1, MountingStep, FreshValues DEF BootInv, LiveInv
<1>2. CASE Submit
  BY <1>2, SubmitStep DEF BootInv, LiveInv
<1>3. CASE Deciding \/ SessionStarted \/ FormLoaded \/ InitialiseFails
  BY <1>3, InitialisingStep DEF CountInv, LiveInv
<1>4. CASE \/ \E c \in Codes : Running(c)
           \/ \E l \in links : LinkAcknowledged(l) \/ LinkFails(l)
  BY <1>4, RunningStep DEF BootInv, LiveInv
<1>5. CASE Quiet
  BY <1>5, QuietStep DEF BootInv, LiveInv, FlowLive
<1>6. CASE \E c \in Codes : Reforming(c)
  BY <1>6, ReformingStep
<1>7. QED
  BY StepKinds, <1>1, <1>2, <1>3, <1>4, <1>5, <1>6

-----------------------------------------------------------------------------
(* Where what is kept comes from.                                          *)

\* A snapshot that says of a result and of a link no more than `t` does.
Follows(s, t) ==
    s.code = t.code /\ s.linked = t.linked /\ s.result \in {0, t.result}

Blank(s) == s.result = 0 /\ ~s.linked

\* The provider's state: blank, one that was there before, or the provider's with the
\* result of the session of the result page or of a run.
LEMMA StateOrigin ==
    ASSUME ClientTypeOK, CountInv, BootInv, LiveInv, ClientNext
    PROVE  \/ Blank(prov'.state)
           \/ \E t \in Snapshots : Follows(prov'.state, t)
           \/ /\ prov'.state.code = prov.state.code /\ prov'.state.linked = prov.state.linked
              /\ prov'.state.result \in srv'.generated
              /\ prov'.state.result = prov.state.code \/ FlowLive(prov'.state.result)
<1>a. /\ prov \in Provider /\ prov.state \in Snapshot /\ store \in Snapshot \cup {NULL}
      /\ prov.state \in Snapshots
      /\ store # NULL => store \in Snapshots
  BY DEF ClientTypeOK, Provider, Snapshots
<1>b. Blank(EmptySnapshot)
  BY Emptied DEF Blank
<1>c. Blank(ReadSnapshot(store)) \/ \E t \in Snapshots : Follows(ReadSnapshot(store), t)
  BY <1>a, <1>b DEF ReadSnapshot, Follows
<1>d. ASSUME prov'.state = prov.state PROVE \E t \in Snapshots : Follows(prov'.state, t)
  BY <1>d, <1>a DEF Follows
<1>1. CASE Mounting
  BY <1>1, <1>b, <1>c, ProviderChanges
     DEF Mounting, OpenQuestions, Leave, Navigate, ViewPrevious, Arrive
<1>2. CASE Reloading
  BY <1>2, <1>b, <1>c, ProviderChanges DEF Reloading, Reload, SignOut, Load
<1>3. CASE Submit \/ DismissToast \/ InitialiseFails
  BY <1>3, <1>a, <1>d, ProviderChanges DEF Submit, DismissToast, InitialiseFails
<1>4. CASE Commit
  BY <1>4, <1>a, <1>c, <1>d DEF Commit, Provider
<1>5. CASE \/ Deciding \/ FormLoaded \/ PollFails \/ PollAgain
           \/ \E a \in Accounts : SignIn(a)
  BY <1>5, <1>d DEF Deciding, FirstInitialise, RetryInitialise, RequestRediagnosis, FormLoaded,
     PollFails, PollAgain, SignIn
<1>6. CASE PollAnswered
  <2>1. CASE page.code \in srv.generated /\ prov.state.code = page.code /\ Mounted
    <3>1. /\ prov' = Updated(prov, MarkCompleted(prov.state, page.code))
          /\ srv' = srv
      BY <1>6, <2>1 DEF PollAnswered
    <3>2. page.code \in 0 .. MaxSessions
      BY DEF ClientTypeOK, Page
    <3>3. QED
      BY <2>1, <3>1, <3>2, <1>a, Completed, ProviderChanges
  <2>2. CASE ~(page.code \in srv.generated /\ prov.state.code = page.code /\ Mounted)
    BY <1>6, <2>2, <1>d, ProviderChanges DEF PollAnswered
  <2>3. QED
    BY <2>1, <2>2
<1>7. CASE SessionStarted
  <2>1. PICK c \in Codes : prov' = Updated(prov, Reconcile(prov.state, c))
    BY <1>7 DEF SessionStarted
  <2>2. CASE Mounted
    BY <2>1, <2>2, <1>a, <1>d, Reconciled, ProviderChanges DEF Blank
  <2>3. CASE ~Mounted
    BY <2>1, <2>3, <1>d, ProviderChanges
  <2>4. QED
    BY <2>2, <2>3
<1>8. CASE \E c \in Codes : AnswersSubmitted(c)
  <2>1. PICK c \in Codes : AnswersSubmitted(c)
    BY <1>8
  <2>2. CASE flow[c].live /\ Mounted
    <3>1. /\ MarkAwaitingLlm(prov.state, c \in srv.recorded) \in Snapshot
          /\ Follows(MarkAwaitingLlm(prov.state, c \in srv.recorded), prov.state)
      <4>1. /\ MarkAwaitingLlm(prov.state, c \in srv.recorded) \in Snapshot
            /\ MarkAwaitingLlm(prov.state, c \in srv.recorded).code = prov.state.code
            /\ MarkAwaitingLlm(prov.state, c \in srv.recorded).linked = prov.state.linked
            /\ MarkAwaitingLlm(prov.state, c \in srv.recorded).result \in {0, prov.state.result}
        BY <1>a, Awaiting
      <4>2. QED
        BY <4>1, Zenon DEF Follows
    <3>2. prov'.state = MarkAwaitingLlm(prov.state, c \in srv.recorded)
      BY <2>1, <2>2, <3>1, <1>a, BuiltProviders, ProviderChanges DEF AnswersSubmitted, Acted
    <3>3. QED
      BY <3>1, <3>2, <1>a
  <2>3. CASE ~(flow[c].live /\ Mounted)
    BY <2>1, <2>3, <1>a, <1>d, ProviderChanges DEF AnswersSubmitted, Acted
  <2>4. QED
    BY <2>2, <2>3
<1>9. CASE \E c \in Codes : LlmSucceeds(c)
  <2>1. PICK c \in Codes : LlmSucceeds(c)
    BY <1>9
  <2>2. PICK result \in {0, c} : prov' = Toasted(Acted(c, MarkCompleted(prov.state, result)))
    BY <2>1 DEF LlmSucceeds
  <2>3. CASE flow[c].live /\ Mounted
    <3>1. /\ MarkCompleted(prov.state, result) \in Snapshot
          /\ MarkCompleted(prov.state, result).code = prov.state.code
          /\ MarkCompleted(prov.state, result).linked = prov.state.linked
          /\ MarkCompleted(prov.state, result).result = result
      BY <1>a, CodesNumbers, ClientAssumption, Completed
    <3>2. prov'.state = MarkCompleted(prov.state, result)
      BY <2>2, <2>3, <3>1, <1>a, BuiltProviders, ProviderChanges DEF Acted
    <3>3. FlowLive(c) /\ c \in srv'.generated
      <4>1. srv \in Server
        BY DEF ClientTypeOK
      <4>2. QED
        BY <2>1, <2>3, <4>1 DEF LlmSucceeds, FlowLive, Server
    <3>4. CASE result = 0
      BY <3>1, <3>2, <3>4, <1>a DEF Follows
    <3>5. CASE result = c
      BY <3>1, <3>2, <3>3, <3>5
    <3>6. QED
      BY <3>4, <3>5
  <2>4. CASE ~(flow[c].live /\ Mounted)
    BY <2>2, <2>4, <1>a, <1>d, ProviderChanges DEF Acted
  <2>5. QED
    BY <2>3, <2>4
<1>10. CASE \/ \E c \in Codes : SubmitFails(c) \/ LlmUnavailable(c) \/ WakeUp(c) \/ LlmFails(c)
            \/ \E l \in links : LinkAcknowledged(l) \/ LinkFails(l)
  BY <1>10, <1>a, <1>d, ProviderChanges DEF SubmitFails, LlmUnavailable, WakeUp, LlmFails,
     LinkAcknowledged, LinkFails
<1>11. CASE \E c \in Codes : Reforming(c)
  BY <1>11, <1>d, ReformingStep
<1>12. QED
  BY StepKinds, <1>1, <1>2, <1>3, <1>4, <1>5, <1>6, <1>7, <1>8, <1>9, <1>10, <1>11
     DEF Quiet, Running

\* The storage holds what was kept before, unless a link is acknowledged; the requests are
\* those from before and some for what was stored.
LEMMA StoreOrigin ==
    ASSUME ClientTypeOK, ClientNext
    PROVE  \/ store' = NULL \/ store' \in Snapshots
           \/ \E l \in links : LinkAcknowledged(l)
<1>1. store # NULL => store \in Snapshots
  BY DEF Snapshots
<1>2. CASE Mounting \/ Reloading \/ Submit
  BY <1>1, <1>2 DEF Mounting, OpenQuestions, Leave, Navigate, ViewPrevious, Arrive, Submit,
     Reloading, Reload, SignOut, Load
<1>3. CASE Quiet
  BY <1>1, <1>3 DEF Quiet, Commit, DismissToast, SignIn, PollAnswered, PollFails, PollAgain, Snapshots
<1>4. CASE Deciding \/ SessionStarted \/ FormLoaded \/ InitialiseFails
  BY <1>1, <1>4 DEF Deciding, FirstInitialise, RetryInitialise, RequestRediagnosis,
     SessionStarted, FormLoaded, InitialiseFails
<1>5. CASE \E c \in Codes : Running(c)
  BY <1>1, <1>5 DEF Running, AnswersSubmitted, SubmitFails, LlmSucceeds, LlmUnavailable, WakeUp,
     LlmFails
<1>6. CASE \E l \in links : LinkFails(l)
  BY <1>1, <1>6 DEF LinkFails
<1>7. CASE \E c \in Codes : Reforming(c)
  BY <1>1, <1>7 DEF Reforming, SubmitOutOfVersion, FormReloaded, FormReloadFails
<1>8. QED
  BY StepKinds, <1>2, <1>3, <1>4, <1>5, <1>6, <1>7

LEMMA LinksOrigin ==
    ASSUME ClientTypeOK, ClientNext, NEW l \in links', l \notin links
    PROVE  l.entry \in Snapshots /\ l.entry.code \in Codes
<1>a. ASSUME NEW who \in Accounts \cup {NULL}, NEW via \in {"screen", "boot", "login", "flow"},
             NEW allowed \in SUBSET (0 .. MaxSessions), NEW others,
             l \in LinkRequest(others, store, who, via, allowed)
      PROVE  l.entry \in Snapshots /\ l.entry.code \in Codes
  <2>1. store # NULL /\ l.entry = store /\ l.entry.code \in Codes
    BY <1>a, LinkRequestOf
  <2>2. QED
    BY <2>1 DEF Snapshots
<1>1. CASE Commit
  <2>1. /\ account \in Accounts \cup {NULL}
        /\ {page.code} \in SUBSET (0 .. MaxSessions)
    BY DEF ClientTypeOK, Page
  <2>2. l \in LinkRequest(links, store, account, "screen", {page.code})
    BY <1>1 DEF Commit
  <2>3. QED
    BY <2>1, <2>2, <1>a
<1>2. CASE \E a \in Accounts : SignIn(a)
  <2>1. PICK a \in Accounts : \/ l \in LinkRequest(links, store, a, "boot", Codes)
                              \/ l \in LinkRequest(links, store, a, "login", Codes)
    BY <1>2 DEF SignIn
  <2>2. QED
    BY <2>1, <1>a, CodesNumbers
<1>3. CASE \E c \in Codes : LlmSucceeds(c)
  <2>1. PICK c \in Codes : l \in LinkRequest(links, store, flow[c].who, "flow", {c})
    BY <1>3 DEF LlmSucceeds
  <2>2. flow[c].who \in Accounts \cup {NULL} /\ {c} \in SUBSET (0 .. MaxSessions)
    BY CodesNumbers DEF ClientTypeOK, Flow
  <2>3. QED
    BY <2>1, <2>2, <1>a
<1>4. CASE Reloading
  <2>1. PICK who \in Accounts \cup {NULL} : Load(who)
    BY <1>4 DEF Reloading, Reload, SignOut, ClientTypeOK
  <2>2. l \in LinkRequest({}, store, who, "boot", Codes)
    BY <2>1 DEF Load
  <2>3. QED
    BY <2>2, <1>a, CodesNumbers
<1>5. ASSUME ~Commit, ~ \E a \in Accounts : SignIn(a), ~ \E c \in Codes : LlmSucceeds(c), ~Reloading
      PROVE  l \in links
  <2>1. CASE Mounting \/ Submit \/ \E c \in Codes : Reforming(c)
    BY <2>1 DEF Mounting, OpenQuestions, Leave, Navigate, ViewPrevious, Submit,
       Reforming, SubmitOutOfVersion, FormReloaded, FormReloadFails
  <2>2. CASE Quiet
    BY <2>2, <1>5 DEF Quiet, DismissToast, PollAnswered, PollFails, PollAgain
  <2>3. CASE Deciding \/ SessionStarted \/ FormLoaded \/ InitialiseFails
    BY <2>3 DEF Deciding, FirstInitialise, RetryInitialise, RequestRediagnosis,
       SessionStarted, FormLoaded, InitialiseFails
  <2>4. CASE \E c \in Codes : Running(c)
    BY <2>4, <1>5 DEF Running, AnswersSubmitted, SubmitFails, LlmUnavailable, WakeUp, LlmFails
  <2>5. CASE \E m \in links : LinkAcknowledged(m) \/ LinkFails(m)
    BY <2>5 DEF LinkAcknowledged, LinkFails
  <2>6. QED
    BY StepKinds, <1>5, <2>1, <2>2, <2>3, <2>4, <2>5
<1>6. QED
  BY <1>1, <1>2, <1>3, <1>4, <1>5

\* Acknowledging a link gives the session an owner.
LEMMA AcknowledgedStep ==
    ASSUME ClientTypeOK, LinkedInv, NEW l \in links, LinkAcknowledged(l)
    PROVE  l.entry.code \in Codes /\ srv'.owner[l.entry.code] # NULL
<1>1. srv \in Server
  BY DEF ClientTypeOK
<1>2. l.who # NULL /\ l.entry.code \in Codes
  BY ClientAssumption DEF ClientTypeOK, LinkRequests, LinkedInv
<1>3. QED
  BY <1>1, <1>2 DEF LinkAcknowledged, Server

\* A session that was started, generated or linked stays so; linking is the only step
\* that changes an owner, and it gives one.
LEMMA ServerStep ==
    ASSUME ClientTypeOK, LinkedInv, ClientNext
    PROVE  /\ srv.generated \subseteq srv'.generated
           /\ \A c \in Codes : srv.owner[c] # NULL => srv'.owner[c] # NULL
           /\ \/ srv'.started = srv.started
              \/ SessionStarted
              \/ InitialiseFails /\ view.init = "start"
<1>1. srv \in Server
  BY DEF ClientTypeOK
<1>2. CASE SessionStarted \/ InitialiseFails
  <2>1. srv' = srv \/ \E c \in Codes : srv' = [srv EXCEPT !.started = c]
    BY <1>2 DEF SessionStarted, InitialiseFails, Started
  <2>2. InitialiseFails /\ view.init # "start" => srv' = srv
    BY DEF InitialiseFails
  <2>3. /\ srv'.generated = srv.generated /\ srv'.owner = srv.owner
    BY <1>1, <2>1 DEF Server
  <2>4. QED
    BY <1>2, <2>2, <2>3
<1>3. CASE \E c \in Codes : Running(c)
  <2>1. PICK c \in Codes : \/ srv' = srv
                           \/ srv' = [srv EXCEPT !.recorded = @ \cup {c}]
                           \/ srv' = [srv EXCEPT !.generated = @ \cup {c}]
    BY <1>3, Zenon DEF Running, AnswersSubmitted, SubmitFails, LlmSucceeds, LlmUnavailable, WakeUp,
       LlmFails
  <2>2. /\ srv.generated \subseteq srv'.generated
        /\ srv'.owner = srv.owner /\ srv'.started = srv.started
    BY <1>1, <2>1 DEF Server
  <2>3. QED
    BY <2>2
<1>4. CASE \E l \in links : LinkAcknowledged(l) \/ LinkFails(l)
  <2>1. PICK l \in links : LinkAcknowledged(l) \/ LinkFails(l)
    BY <1>4
  <2>2. l.who # NULL
    BY ClientAssumption DEF ClientTypeOK, LinkRequests
  <2>3. srv' = srv \/ srv' = [srv EXCEPT !.owner[l.entry.code] = l.who]
    BY <2>1 DEF LinkAcknowledged, LinkFails
  <2>4. /\ srv'.generated = srv.generated /\ srv'.started = srv.started
        /\ \A c \in Codes : srv'.owner[c] \in {srv.owner[c], l.who}
    BY <1>1, <2>3 DEF Server
  <2>5. QED
    BY <2>2, <2>4
<1>5. CASE Mounting \/ Reloading \/ Submit \/ Quiet \/ Deciding \/ FormLoaded
  <2>1. UNCHANGED srv
    BY <1>5 DEF Mounting, OpenQuestions, Leave, Navigate, ViewPrevious, Arrive, Submit,
       Reloading, Reload, SignOut, Load, Quiet, Commit, DismissToast, SignIn, PollAnswered, PollFails,
       PollAgain, Deciding, FirstInitialise, RetryInitialise, RequestRediagnosis, FormLoaded
  <2>2. QED
    BY <2>1
<1>6. CASE \E c \in Codes : Reforming(c)
  BY <1>6 DEF Reforming, SubmitOutOfVersion, FormReloaded, FormReloadFails
<1>7. QED
  BY StepKinds, <1>2, <1>3, <1>4, <1>5, <1>6

-----------------------------------------------------------------------------
(* Linking.                                                                *)

LEMMA LinkedStep ==
    ASSUME ClientTypeOK, CountInv, BootInv, LiveInv, LinkedInv, ClientNext
    PROVE  LinkedInv'
<1>1. \A t \in Snapshots : t.linked => t.code \in Codes /\ srv'.owner[t.code] # NULL
  BY ServerStep DEF LinkedInv, Honest
<1>2. prov'.state.linked => prov'.state.code \in Codes /\ srv'.owner[prov'.state.code] # NULL
  <2>1. prov.state \in Snapshots
    BY DEF Snapshots
  <2>2. QED
    BY <1>1, <2>1, StateOrigin DEF Blank, Follows
<1>3. \A l \in links' : /\ l.entry.code \in Codes
                        /\ l.entry.linked => srv'.owner[l.entry.code] # NULL
  <2> SUFFICES ASSUME NEW l \in links'
               PROVE  /\ l.entry \in Snapshots /\ l.entry.code \in Codes
    BY <1>1
  <2>1. CASE l \in links
    BY <2>1 DEF LinkedInv, Snapshots
  <2>2. CASE l \notin links
    BY <2>2, LinksOrigin
  <2>3. QED
    BY <2>1, <2>2
<1>4. store' # NULL /\ store'.linked => store'.code \in Codes /\ srv'.owner[store'.code] # NULL
  <2>1. CASE \E l \in links : LinkAcknowledged(l)
    <3>1. PICK l \in links : LinkAcknowledged(l)
      BY <2>1
    <3>2. store'.code = l.entry.code
      BY <3>1 DEF LinkAcknowledged, ClientTypeOK, LinkRequests, Snapshot
    <3>3. l.entry.code \in Codes /\ srv'.owner[l.entry.code] # NULL
      BY <3>1, AcknowledgedStep
    <3>4. QED
      BY <3>2, <3>3
  <2>2. CASE ~ \E l \in links : LinkAcknowledged(l)
    BY <2>2, <1>1, StoreOrigin
  <2>3. QED
    BY <2>1, <2>2
<1>5. QED
  BY <1>2, <1>3, <1>4 DEF LinkedInv, Snapshots, Honest
-----------------------------------------------------------------------------
(* Results.                                                                *)

\* The session of the provider and of the storage below a mounted run.
Aimed(c) == prov.state.code = c /\ ReadSnapshot(store).code = c

\* The provider has saved its state.
Saved == Mounted /\ ~prov.dirty => ReadSnapshot(store).code = prov.state.code

\* What a run does to the state leaves its session alone.
LEMMA ActedSameSession ==
    ASSUME ClientTypeOK, NEW c, NEW s \in Snapshot, s.code = prov.state.code
    PROVE  /\ Toasted(Acted(c, s)).state.code = prov.state.code
           /\ Toasted(Acted(c, s)).dirty = prov.dirty \/ Toasted(Acted(c, s)).dirty
<1>1. prov \in Provider
  BY DEF ClientTypeOK
<1>2. Acted(c, s) = prov \/ Acted(c, s) = Updated(prov, s)
  BY DEF Acted
<1>3. CASE Acted(c, s) = prov
  BY <1>1, <1>3, ProviderChanges
<1>4. CASE Acted(c, s) = Updated(prov, s) /\ Mounted
  BY <1>1, <1>4, BuiltProviders, ProviderChanges
<1>5. CASE Acted(c, s) = Updated(prov, s) /\ ~Mounted
  BY <1>1, <1>5, ProviderChanges
<1>6. QED
  BY <1>2, <1>3, <1>4, <1>5

LEMMA AimStep ==
    ASSUME ClientTypeOK, CountInv, BootInv, LiveInv, ClientNext,
           ~ \E l \in links : LinkAcknowledged(l),
           \A c \in Codes : FlowLive(c) => Aimed(c),
           Saved
    PROVE  /\ \A c \in Codes : FlowLive(c)' => prov'.state.code = c /\ ReadSnapshot(store').code = c
           /\ Saved'
<1>a. prov \in Provider /\ prov.state \in Snapshot /\ page \in Page
  BY DEF ClientTypeOK, Provider
<1>b. ASSUME page'.name = page.name, store' = store, prov'.state.code = prov.state.code,
             prov'.dirty = prov.dirty \/ prov'.dirty \/ ~Mounted
      PROVE  Saved'
  BY <1>b DEF Saved, Mounted
<1>1. CASE Mounting
  <2>1. PICK name, code : Arrive(name, code)
    BY <1>1 DEF Mounting, OpenQuestions, Leave, Navigate, ViewPrevious
  <2>2. Saved'
    BY <2>1, ProviderChanges DEF Arrive, Saved, Mounted
  <2>3. QED
    BY <1>1, <2>2, MountingStep
<1>2. CASE Reloading
  <2>1. PICK who : Load(who)
    BY <1>2 DEF Reloading, Reload, SignOut
  <2>2. page'.name = page.name /\ (Mounted => prov'.dirty)
    BY <2>1, <1>a, ProviderChanges DEF Load, Page
  <2>3. Saved'
    BY <2>2 DEF Saved, Mounted
  <2>4. QED
    BY <1>2, <2>3, MountingStep
<1>3. CASE Submit
  <2>1. Saved'
    BY <1>3, <1>b, SubmitStep
  <2>2. \A c \in Codes : FlowLive(c)' => Aimed(c)
    BY <1>3, SubmitStep DEF Aimed, Saved, Mounted
  <2>3. QED
    BY <1>3, <2>1, <2>2, SubmitStep DEF Aimed
<1>4. CASE Deciding \/ SessionStarted \/ FormLoaded \/ InitialiseFails
  <2>1. page' = page /\ store' = store
    BY <1>4, InitialisingStep
  <2>2. \/ prov'.dirty \/ ~Mounted
        \/ prov'.state = prov.state /\ prov'.dirty = prov.dirty
    <3>1. CASE SessionStarted
      <4>1. PICK s : prov' = Updated(prov, s)
        BY <3>1 DEF SessionStarted
      <4>2. CASE Mounted
        BY <4>1, <4>2, <1>a, ProviderChanges
      <4>3. QED
        BY <4>2
    <3>2. CASE Deciding \/ FormLoaded
      <4>1. UNCHANGED prov
        BY <3>2 DEF Deciding, FirstInitialise, RetryInitialise, RequestRediagnosis, FormLoaded
      <4>2. QED
        BY <4>1
    <3>3. CASE InitialiseFails
      <4>1. prov' = Toasted(prov)
        BY <3>3 DEF InitialiseFails
      <4>2. QED
        BY <4>1, <1>a, ProviderChanges
    <3>4. QED
      BY <1>4, <3>1, <3>2, <3>3
  <2>3. Saved'
    BY <2>1, <2>2 DEF Saved, Mounted
  <2>4. QED
    BY <1>4, <2>3, InitialisingStep
<1>5. CASE \/ \E c \in Codes : Running(c)
           \/ \E l \in links : LinkAcknowledged(l) \/ LinkFails(l)
  <2>1. store' = store
    BY <1>5 DEF Running, AnswersSubmitted, SubmitFails, LlmSucceeds, LlmUnavailable, WakeUp,
       LlmFails, LinkFails
  <2>2. prov'.state.code = prov.state.code /\ (prov'.dirty = prov.dirty \/ prov'.dirty)
    <3>1. CASE \E c \in Codes : AnswersSubmitted(c)
      <4>1. PICK c \in Codes : AnswersSubmitted(c)
        BY <3>1
      <4>2. /\ MarkAwaitingLlm(prov.state, c \in srv.recorded) \in Snapshot
            /\ MarkAwaitingLlm(prov.state, c \in srv.recorded).code = prov.state.code
            /\ MarkAwaitingLlm(prov.state, c \in srv.recorded).linked = prov.state.linked
            /\ MarkAwaitingLlm(prov.state, c \in srv.recorded).result \in {0, prov.state.result}
        BY <1>a, Awaiting
      <4>3. prov' = Toasted(Acted(c, MarkAwaitingLlm(prov.state, c \in srv.recorded)))
        BY <4>1 DEF AnswersSubmitted
      <4>4. QED
        BY <4>2, <4>3, ActedSameSession, Zenon
    <3>2. CASE \E c \in Codes : LlmSucceeds(c)
      <4>1. PICK c \in Codes, result \in 0 .. MaxSessions :
                prov' = Toasted(Acted(c, MarkCompleted(prov.state, result)))
        BY <3>2, CodesNumbers, ClientAssumption DEF LlmSucceeds
      <4>2. /\ MarkCompleted(prov.state, result) \in Snapshot
            /\ MarkCompleted(prov.state, result).code = prov.state.code
        BY <1>a, Completed
      <4>3. QED
        BY <4>1, <4>2, ActedSameSession, Zenon
    <3>3. CASE \/ \E c \in Codes : SubmitFails(c) \/ LlmUnavailable(c) \/ WakeUp(c) \/ LlmFails(c)
               \/ \E l \in links : LinkFails(l)
      BY <3>3, <1>a, ProviderChanges DEF SubmitFails, LlmUnavailable, WakeUp, LlmFails, LinkFails
    <3>4. QED
      BY <1>5, <3>1, <3>2, <3>3 DEF Running
  <2>3. \A c \in Codes : FlowLive(c)' => Aimed(c)
    BY <1>5, RunningStep
  <2>4. page'.name = page.name
    BY <1>5, RunningStep
  <2>5. QED
    BY <2>1, <2>2, <2>3, <2>4, <1>b DEF Aimed
<1>6. CASE Quiet
  <2>1. UNCHANGED <<page, view, flow>>
    BY <1>6, QuietStep
  <2>2. \A c \in Codes : FlowLive(c)' => Aimed(c)
    BY <2>1 DEF FlowLive
  <2>3. CASE Commit
    <3>1. /\ store' = IF prov.dirty THEN prov.state ELSE store
          /\ prov.toasted => prov'.state = ReadSnapshot(store) /\ prov'.dirty
          /\ ~prov.toasted => prov'.state = prov.state /\ ~prov'.dirty
      BY <2>3, <1>a DEF Commit, Provider
    <3>2. ReadSnapshot(prov.state) = prov.state
      BY <1>a, SnapshotAssumption DEF ReadSnapshot
    <3>3. QED
      BY <2>1, <2>2, <3>1, <3>2 DEF Aimed, Saved, Mounted
  <2>4. CASE ~Commit
    <3>1. store' = store
      BY <1>6, <2>4 DEF Quiet, DismissToast, SignIn, PollAnswered, PollFails, PollAgain
    <3>2. prov'.state.code = prov.state.code /\ (prov'.dirty = prov.dirty \/ prov'.dirty)
      <4>1. CASE PollAnswered
        <5>1. page.code \in 0 .. MaxSessions
          BY <1>a DEF Page
        <5>2. MarkCompleted(prov.state, page.code).code = prov.state.code
          BY <5>1, <1>a, Completed
        <5>3. QED
          BY <4>1, <5>2, ProviderChanges, <1>a DEF PollAnswered
      <4>2. CASE ~PollAnswered
        BY <1>6, <2>4, <4>2, <1>a, ProviderChanges DEF Quiet, DismissToast, SignIn, PollFails, PollAgain
      <4>3. QED
        BY <4>1, <4>2
    <3>3. QED
      BY <2>1, <2>2, <3>1, <3>2, <1>b DEF Aimed
  <2>5. QED
    BY <2>3, <2>4
<1>7. CASE \E c \in Codes : Reforming(c)
  <2>1. UNCHANGED <<page, store>> /\ prov'.state = prov.state /\ prov'.dirty = prov.dirty
    BY <1>7, ReformingStep
  <2>2. \A c \in Codes : FlowLive(c)' => Aimed(c)
    BY <1>7, ReformingStep
  <2>3. QED
    BY <2>1, <2>2, <1>b DEF Aimed
<1>8. QED
  BY StepKinds, <1>1, <1>2, <1>3, <1>4, <1>5, <1>6, <1>7

LEMMA GenuineStep ==
    ASSUME ClientTypeOK, CountInv, BootInv, LiveInv, LinkedInv, GenuineInv, ClientNext
    PROVE  GenuineInv'
<1> SUFFICES ASSUME Unlinked'
             PROVE  /\ \A s \in Snapshots' : s.result # 0 => s.result = s.code /\ s.code \in srv'.generated
                    /\ poll'.shown # 0 => poll'.shown = page'.code /\ poll'.shown \in srv'.generated
                    /\ \A c \in Codes : FlowLive(c)' =>
                          prov'.state.code = c /\ ReadSnapshot(store').code = c
                    /\ Saved'
  BY DEF GenuineInv, Genuine, Saved
<1>1. Unlinked /\ ~ \E l \in links : LinkAcknowledged(l)
  BY ServerStep, AcknowledgedStep DEF Unlinked
<1>2. /\ \A s \in Snapshots : Genuine(s)
      /\ poll.shown # 0 => poll.shown = page.code /\ poll.shown \in srv.generated
      /\ \A c \in Codes : FlowLive(c) => Aimed(c)
      /\ Saved
  BY <1>1 DEF GenuineInv, Aimed, Saved
<1>3. srv.generated \subseteq srv'.generated
  BY ServerStep
<1>4. \A t \in Snapshots : t.result # 0 => t.result = t.code /\ t.code \in srv'.generated
  BY <1>2, <1>3 DEF Genuine
<1>5. prov'.state.result # 0 =>
          prov'.state.result = prov'.state.code /\ prov'.state.code \in srv'.generated
  <2>1. CASE Blank(prov'.state) \/ \E t \in Snapshots : Follows(prov'.state, t)
    BY <2>1, <1>4 DEF Blank, Follows
  <2>2. CASE /\ prov'.state.code = prov.state.code
             /\ prov'.state.result \in srv'.generated
             /\ prov'.state.result = prov.state.code \/ FlowLive(prov'.state.result)
    <3>1. prov'.state.result \in Codes
      BY <2>2, TypeStep DEF ClientTypeOK, Server
    <3>2. FlowLive(prov'.state.result) => prov.state.code = prov'.state.result
      BY <3>1, <1>2 DEF Aimed
    <3>3. QED
      BY <2>2, <3>2
  <2>3. QED
    BY <2>1, <2>2, StateOrigin
<1>6. \A l \in links' : l.entry \in Snapshots
  BY LinksOrigin DEF Snapshots
<1>7. \A s \in Snapshots' : s.result # 0 => s.result = s.code /\ s.code \in srv'.generated
  BY <1>1, <1>4, <1>5, <1>6, StoreOrigin DEF Snapshots
<1>8. poll'.shown # 0 => poll'.shown = page'.code /\ poll'.shown \in srv'.generated
  <2>1. CASE Mounting \/ Reloading
    BY <2>1, MountingStep
  <2>2. CASE Submit \/ Deciding \/ SessionStarted \/ FormLoaded \/ InitialiseFails
    BY <2>2, <1>2, <1>3, SubmitStep, InitialisingStep
  <2>3. CASE \/ \E c \in Codes : Running(c)
             \/ \E l \in links : LinkAcknowledged(l) \/ LinkFails(l)
    BY <2>3, <1>2, <1>3, RunningStep
  <2>4. CASE Commit
    <3>1. prov.state.result # 0 =>
              prov.state.result = prov.state.code /\ prov.state.code \in srv.generated
      BY <1>2 DEF Genuine, Snapshots
    <3>2. page' = page /\ poll' \in {poll, [poll EXCEPT !.shown = prov.state.result]}
      BY <2>4 DEF Commit
    <3>3. poll'.shown # poll.shown =>
              poll'.shown = prov.state.result /\ prov.state.code = page.code
      BY <2>4 DEF Commit, ClientTypeOK, Poll
    <3>4. QED
      BY <1>2, <1>3, <3>1, <3>2, <3>3
  <2>5. CASE \/ PollAnswered \/ PollFails \/ PollAgain \/ DismissToast
             \/ \E a \in Accounts : SignIn(a)
    <3>1. page' = page
      BY <2>5 DEF PollAnswered, PollFails, PollAgain, DismissToast, SignIn
    <3>2. \/ poll'.shown \in {0, poll.shown}
          \/ poll'.shown = page.code /\ page.code \in srv.generated
      BY <2>5 DEF PollAnswered, PollFails, PollAgain, DismissToast, SignIn, ClientTypeOK, Poll
    <3>3. QED
      BY <1>2, <1>3, <3>1, <3>2
  <2>6. CASE \E c \in Codes : Reforming(c)
    BY <2>6, <1>2, <1>3, ReformingStep
  <2>7. QED
    BY StepKinds, <2>1, <2>2, <2>3, <2>4, <2>5, <2>6 DEF Quiet
<1>9. QED
  BY <1>1, <1>2, <1>7, <1>8, AimStep

-----------------------------------------------------------------------------
\* Nothing changes in a stuttering step.
LEMMA StutterStep ==
    ASSUME ClientInv, UNCHANGED clientVars
    PROVE  ClientInv'
BY DEF ClientInv, clientVars, ClientTypeOK, CountInv, BootInv, LiveInv, FlowLive, LinkedInv, Honest,
   GenuineInv, Genuine, Unlinked, Snapshots, Mounted, ReadSnapshot

LEMMA ClientInitial == ClientInit => ClientInv
<1> SUFFICES ASSUME ClientInit PROVE ClientInv
  OBVIOUS
<1>1. ClientTypeOK
  <2>1. srv \in Server /\ page \in Page
    BY ClientAssumption DEF ClientInit, Server, Page
  <2>2. prov \in Provider /\ view \in View /\ flow \in [Codes -> Flow] /\ poll \in Poll
    BY FreshValues, BuiltProviders DEF ClientInit
  <2>3. QED
    BY <2>1, <2>2 DEF ClientInit, ClientTypeOK
<1>2. /\ \A d \in Codes : ~FlowLive(d)
      /\ Snapshots = {EmptySnapshot} /\ links = {} /\ poll.shown = 0
  BY FreshValues, ProviderChanges DEF ClientInit, FlowLive, Snapshots
<1>3. CountInv /\ BootInv
  BY FreshValues DEF ClientInit, CountInv, BootInv
<1>4. LinkedInv /\ GenuineInv
  BY <1>2, Emptied DEF LinkedInv, Honest, GenuineInv, Genuine, ClientInit, Mounted
<1>5. QED
  BY <1>1, <1>2, <1>3, <1>4 DEF ClientInv, LiveInv

\* The inductive invariant holds of every behaviour of the browser.
THEOREM ClientInvHolds == ClientSpec => []ClientInv
<1>1. ClientInv /\ [ClientNext]_clientVars => ClientInv'
  BY TypeStep, ScreenStep, LinkedStep, GenuineStep, StutterStep DEF ClientInv
<1>2. QED
  BY ClientInitial, <1>1, PTL DEF ClientSpec

\* The types of the browser's state (context.tsx, CommonQaScreen.tsx, ResultScreen.tsx).
THEOREM ClientTypeCorrect == ClientSpec => []ClientTypeOK
<1>1. ClientInv => ClientTypeOK
  BY DEF ClientInv
<1>2. QED
  BY <1>1, ClientInvHolds, PTL

\* A snapshot says "linked" only of a session the server has linked to an account,
\* whichever requests, reloads and sign-ins cross (useSessionLinker.ts:107-140).
THEOREM LinksAreOwned == ClientSpec => []LinkedMeansOwned
<1>1. ClientInv => LinkedMeansOwned
  BY DEF ClientInv, LinkedInv, Honest, LinkedMeansOwned
<1>2. QED
  BY <1>1, ClientInvHolds, PTL

\* Until the first link, what is kept or shown as the result of a session is the result
\* the LLM gave for it (context.tsx:88-115, ResultScreen.tsx:158-253).
THEOREM ResultsAreGenuine == ClientSpec => []UnlinkedResultsAreGenuine
<1>1. ClientInv => UnlinkedResultsAreGenuine
  BY DEF ClientInv, GenuineInv, Genuine, Unlinked, UnlinkedResultsAreGenuine
<1>2. QED
  BY <1>1, ClientInvHolds, PTL

\* No toast, retry or re-render starts a session under a running submission
\* (CommonQaScreen.tsx:198-207).
THEOREM SubmitStartsNone == ClientSpec => SubmitStartsNothing
<1>1. ASSUME ClientInv, ClientNext, NEW c \in Codes, flow[c].at # "none", flow[c].live
      PROVE  srv'.started = srv.started
  BY <1>1, ServerStep DEF ClientInv, LiveInv, FlowLive, SessionStarted
<1>2. ASSUME ClientInv, [ClientNext]_clientVars
      PROVE  [\A c \in Codes : flow[c].at # "none" /\ flow[c].live =>
                 srv'.started = srv.started]_clientVars
  BY <1>1, <1>2
<1>3. QED
  BY <1>2, ClientInvHolds, PTL DEF ClientSpec, SubmitStartsNothing

=============================================================================
