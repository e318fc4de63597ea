-------------------------- MODULE ActivationDialog --------------------------
(***************************************************************************)
(* ActivateVersionCard: the list of the active versions, and the dialog    *)
(* that activates another one.  The request that fills the dialog is not   *)
(* cancelled when it is closed: its answer fills the dialog of whichever   *)
(* diagnostic is open by then, and only the server keeps a version of one  *)
(* diagnostic from being activated for another.                            *)
(***************************************************************************)
EXTENDS AdminData, Naturals, FiniteSets

CONSTANTS
    MaxActivations,  \* activations of a diagnostic
    MaxOpenings      \* requests of the dialog in flight

VARIABLES
    released,  \* the server: versions finalized, and the active version of each
               \* diagnostic with the number of its activations
    told,      \* the activations of each diagnostic this page made
    shownList, \* useActiveVersions: items, loading
    form,      \* the dialog: item, options, selected, loading, and the version
               \* posted while it is submitting
    openings   \* the requests of handleOpen in flight

activationVars == <<released, told, shownList, form, openings>>

ASSUME ActivationAssumption ==
    /\ Versions \subseteq Nat \ {0}
    /\ DiagnosticOf \in [Versions -> Diagnostics]
    /\ MaxActivations \in Nat /\ MaxOpenings \in Nat
    /\ Nil \notin Diagnostics

NeverActive == [ver |-> 0, nth |-> 0]
NoItem == [diag |-> Nil, active |-> 0]
ClosedForm == [item |-> NoItem, options |-> [v \in {} |-> TRUE], selected |-> 0,
               loading |-> FALSE, posted |-> 0]

ActivationInit ==
    /\ released = [finalized |-> {}, active |-> [d \in Diagnostics |-> NeverActive]]
    /\ told = [d \in Diagnostics |-> 0]
    /\ shownList = [items |-> [d \in {} |-> NeverActive], loading |-> TRUE]
    /\ form = ClosedForm
    /\ openings = {}

Opened == form.item # NoItem

Items == [diag : Diagnostics, active : Versions \cup {0}]
Entry == [ver : Versions \cup {0}, nth : 0 .. MaxActivations]
Released == [finalized : SUBSET Versions, active : [Diagnostics -> Entry]]
Lists == UNION {[D -> Entry] : D \in {{}, Diagnostics}}
Options == UNION {[V -> BOOLEAN] : V \in SUBSET Versions}
Forms == [item : Items \cup {NoItem}, options : Options, selected : Versions \cup {0},
          loading : BOOLEAN, posted : Versions \cup {0}]

ActivationTypeOK ==
    /\ released \in Released
    /\ told \in [Diagnostics -> 0 .. MaxActivations]
    /\ shownList \in [items : Lists, loading : BOOLEAN]
    /\ openings \subseteq Items
    /\ form \in Forms

-----------------------------------------------------------------------------
\* useActiveVersions: a request that is cancelled is followed by one that is not.
ReloadActive == ~shownList.loading /\ shownList' = [shownList EXCEPT !.loading = TRUE]
ReloadActiveVersions == ~Opened /\ ReloadActive /\ UNCHANGED <<released, told, form, openings>>

ActiveVersionsAnswered ==
    /\ shownList.loading
    /\ shownList' \in {[items |-> released.active, loading |-> FALSE],
                       [items |-> [d \in {} |-> NeverActive], loading |-> FALSE]}
    /\ UNCHANGED <<released, told, form, openings>>

\* handleOpen up to its await; options and selection stay as they were.
OpenDialog(d) ==
    /\ ~Opened /\ ~shownList.loading /\ d \in DOMAIN shownList.items
    /\ Cardinality(openings) < MaxOpenings
    /\ LET item == [diag |-> d, active |-> shownList.items[d].ver]
       IN /\ form' = [form EXCEPT !.item = item, !.loading = TRUE]
          /\ openings' = openings \cup {item}
    /\ UNCHANGED <<released, told, shownList>>

\* Whether each version of the diagnostic is finalized.
OptionsOf(d) == [v \in {w \in Versions : DiagnosticOf[w] = d} |-> v \in released.finalized]
Offered(options) == {v \in DOMAIN options : options[v]}

\* The version selected at first: the active one, or the finalized one changed last.
FirstChoices(item, options) ==
    IF item.active # 0 THEN {item.active}
    ELSE IF Offered(options) = {} THEN {0} ELSE Offered(options)

\* handleOpen after its await, whatever dialog is open by then, or none.
DialogFilled(item) ==
    /\ item \in openings
    /\ openings' = openings \ {item}
    /\ LET options == OptionsOf(item.diag)
       IN \E first \in FirstChoices(item, options) :
             form' = [form EXCEPT !.options = options, !.loading = FALSE, !.selected = first]
    /\ UNCHANGED <<released, told, shownList>>

FillingFails(item) ==
    /\ item \in openings
    /\ openings' = openings \ {item}
    /\ form' = [form EXCEPT !.loading = FALSE]
    /\ UNCHANGED <<released, told, shownList>>

ChooseOption(v) ==
    /\ Opened /\ ~form.loading /\ form.posted = 0
    /\ v \in Offered(form.options)
    /\ form' = [form EXCEPT !.selected = v]
    /\ UNCHANGED <<released, told, shownList, openings>>

CloseDialog ==
    /\ Opened /\ form.posted = 0
    /\ form' = ClosedForm
    /\ UNCHANGED <<released, told, shownList, openings>>

ConfirmActivation ==
    /\ Opened /\ form.posted = 0 /\ ~form.loading
    /\ form.selected # 0 /\ Offered(form.options) # {}
    /\ form' = [form EXCEPT !.posted = form.selected]
    /\ UNCHANGED <<released, told, shownList, openings>>

\* Mutation: the diagnostic of the version is not checked.
ActivatableForAny(v, d) == d \in Diagnostics /\ v \in released.finalized

\* activate_diagnostic_version: the version is of the diagnostic (E012) and finalized (E030).
Activatable(v, d) == DiagnosticOf[v] = d /\ v \in released.finalized

Activated(v, d) ==
    /\ released.active[d].nth < MaxActivations
    /\ released' = [released EXCEPT !.active[d] = [ver |-> v, nth |-> @.nth + 1]]

\* Mutation: the list is not loaded again.
ActivationSucceedsQuietly ==
    /\ form.posted # 0
    /\ LET d == form.item.diag IN
       /\ Activatable(form.posted, d) /\ Activated(form.posted, d)
       /\ told' = [told EXCEPT ![d] = released'.active[d].nth]
    /\ form' = ClosedForm
    /\ UNCHANGED <<shownList, openings>>

ActivationSucceeds ==
    /\ form.posted # 0
    /\ LET d == form.item.diag IN
       /\ Activatable(form.posted, d) /\ Activated(form.posted, d)
       /\ told' = [told EXCEPT ![d] = released'.active[d].nth]
    /\ form' = ClosedForm
    /\ shownList' = [shownList EXCEPT !.loading = TRUE]
    /\ UNCHANGED openings

\* Refused, or lost, and then it may have been carried out: the dialog stays open.
ActivationFails ==
    /\ form.posted # 0
    /\ \/ UNCHANGED released
       \/ Activatable(form.posted, form.item.diag) /\ Activated(form.posted, form.item.diag)
    /\ form' = [form EXCEPT !.posted = 0]
    /\ UNCHANGED <<told, shownList, openings>>

\* Another administrator finalizes or activates.
Release(v) ==
    /\ \/ /\ v \notin released.finalized
          /\ released' = [released EXCEPT !.finalized = @ \cup {v}]
       \/ Activatable(v, DiagnosticOf[v]) /\ Activated(v, DiagnosticOf[v])
    /\ UNCHANGED <<told, shownList, form, openings>>

-----------------------------------------------------------------------------
ActivationNext ==
    \/ ReloadActiveVersions \/ ActiveVersionsAnswered
    \/ \E d \in Diagnostics : OpenDialog(d)
    \/ \E item \in openings : DialogFilled(item) \/ FillingFails(item)
    \/ \E v \in Versions : ChooseOption(v) \/ Release(v)
    \/ CloseDialog \/ ConfirmActivation \/ ActivationSucceeds \/ ActivationFails

-----------------------------------------------------------------------------
\* However the answers of openings and closings of the dialog cross, the version of a
\* diagnostic that is active is one of its own and finalized.
ActiveIsOwn ==
    \A d \in Diagnostics : released.active[d].ver # 0 =>
        /\ DiagnosticOf[released.active[d].ver] = d
        /\ released.active[d].ver \in released.finalized

\* An activation the page was told of is in its list, once that is not loading.
OwnActivationsShown ==
    ~shownList.loading =>
        \A d \in DOMAIN shownList.items : shownList.items[d].nth >= told[d]
=============================================================================
