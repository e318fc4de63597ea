---------------------------- MODULE QuestionForm ----------------------------
(***************************************************************************)
(* The questions of CommonQaScreen: the form of a version is normalised,   *)
(* shown one question at a time and answered in any order the buttons      *)
(* allow; handleSubmit sends the ids of the chosen options.  Questions and *)
(* options are named by their ids; the order of the questions is the place *)
(* each of them has.  What happens to the answers sent is in ClientSession.*)
(***************************************************************************)
EXTENDS Integers, Sequences, FiniteSets, FiniteSetsExt

CONSTANTS
    Questions,   \* ids of questions, naturals
    Choosable,   \* ids of options, naturals
    OptionsFor,  \* the options of each question
    SortOrders,  \* values of sort_order
    Retired      \* the options that are not active in every version

VARIABLES
    response,  \* the form as the server sends it, or <<>> before it is loaded
    choices,   \* session.choices: the options chosen for each question
    index,     \* currentIndex, counted from 1
    sent       \* the option ids of the last submission, {} before it

formVars == <<response, choices, index, sent>>

\* An option is of one question.
ASSUME FormAssumption ==
    /\ IsFiniteSet(Questions) /\ Questions \subseteq Nat /\ SortOrders \subseteq Int
    /\ OptionsFor \in [Questions -> SUBSET Choosable]
    /\ \A p, q \in Questions : p # q => OptionsFor[p] \cap OptionsFor[q] = {}

\* Question ids with what the form says of them; inactive ones are left out.
Responses ==
    {[sort |-> s, active |-> a, multi |-> m, options |-> o] :
        s \in [Questions -> SortOrders], a \in SUBSET Questions,
        m \in {{}, Questions}, o \in {Choosable \ Retired, Choosable}}

-----------------------------------------------------------------------------
\* compareSortOrder: by sort_order, then by id.
Before(r, p, q) == r.sort[p] < r.sort[q] \/ (r.sort[p] = r.sort[q] /\ p < q)

\* The place normaliseForm gives an active question, counted from 1.
Place(r, q) == Cardinality({p \in r.active : Before(r, p, q)}) + 1

\* The active options of a question.
ShownOptions(r, q) == OptionsFor[q] \cap r.options

\* findUnansweredQuestions, and where the first of them is.
Unanswered(r, ch) == {q \in r.active : ch[q] = {}}
FirstPlace(r, qs) == Min({Place(r, q) : q \in qs})

\* resolveInitialQuestionIndex.
InitialIndex(r, ch, reused) ==
    IF r.active = {} \/ ~reused THEN 1
    ELSE IF Unanswered(r, ch) = {} THEN Cardinality(r.active)
    ELSE FirstPlace(r, Unanswered(r, ch))

Loaded == response # <<>>
Current == CHOOSE q \in response[1].active : Place(response[1], q) = index
Total == Cardinality(response[1].active)
Shown == Loaded /\ index <= Total

FormInit ==
    /\ response = <<>>
    /\ choices = [q \in Questions |-> {}]
    /\ index = 1
    /\ sent = {}

\* A session is started and its form loaded: a new session reuses no choices.  When E022
\* has the form loaded again, it is the same one: the session keeps its version.
LoadForm(r) ==
    /\ ~Loaded
    /\ response' = <<r>>
    /\ index' = InitialIndex(r, choices, FALSE)
    /\ UNCHANGED <<choices, sent>>

\* Mutation: another option does not replace the one chosen.
ToggleOptionAdds(o) ==
    /\ Shown /\ o \in ShownOptions(response[1], Current)
    /\ choices' = [choices EXCEPT ![Current] = SymDiff(@, {o})]
    /\ UNCHANGED <<response, index, sent>>

\* handleToggle with upsertChoice and removeChoice.
ToggleOption(o) ==
    /\ Shown /\ o \in ShownOptions(response[1], Current)
    /\ choices' = [choices EXCEPT ![Current] =
         IF o \in @ THEN @ \ {o}
         ELSE IF Current \in response[1].multi THEN @ \cup {o} ELSE {o}]
    /\ UNCHANGED <<response, index, sent>>

GoPrevious ==
    /\ Shown /\ index > 1
    /\ index' = index - 1
    /\ UNCHANGED <<response, choices, sent>>

\* Mutation: the button is not disabled without an answer.
GoNextUnanswered ==
    /\ Shown /\ index < Total
    /\ index' = index + 1
    /\ UNCHANGED <<response, choices, sent>>

\* canGoNext: the question shown is answered.
GoNext ==
    /\ Shown /\ index < Total
    /\ choices[Current] # {}
    /\ index' = index + 1
    /\ UNCHANGED <<response, choices, sent>>

\* isLastQuestionAnswered enables the button; handleSubmit checks the rest.
SubmitForm ==
    /\ Shown /\ index = Total
    /\ choices[Current] # {}
    /\ LET open == Unanswered(response[1], choices) IN
       IF open # {}
       THEN /\ index' = FirstPlace(response[1], open)
            /\ UNCHANGED sent
       ELSE /\ sent' = UNION {choices[q] : q \in Questions}
            /\ UNCHANGED index
    /\ UNCHANGED <<response, choices>>

\* Another session replaces the one answered.
NextSession ==
    /\ Loaded
    /\ response' = <<>> /\ index' = 1 /\ sent' = {}
    /\ choices' = [q \in Questions |-> {}]

FormNext ==
    \/ \E r \in Responses : LoadForm(r)
    \/ \E o \in Choosable : ToggleOption(o)
    \/ GoPrevious \/ GoNext \/ SubmitForm \/ NextSession

-----------------------------------------------------------------------------
\* Every submission answers every question of the form, with options it shows, and a
\* question that takes one answer with one.
SentIsComplete ==
    sent # {} =>
        LET r == response[1] IN
        /\ \A q \in r.active :
             /\ sent \cap ShownOptions(r, q) # {}
             /\ q \notin r.multi => Cardinality(sent \cap OptionsFor[q]) = 1
        /\ sent \subseteq UNION {ShownOptions(r, q) : q \in r.active}

\* The questions before the one shown are answered, whatever was undone on the way: the
\* warning of handleSubmit about unanswered questions is never needed.
NothingSkipped ==
    Shown => \A q \in response[1].active : Place(response[1], q) < index => choices[q] # {}
=============================================================================
