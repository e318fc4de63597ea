---------------------------- MODULE AdminConsole ----------------------------
(***************************************************************************)
(* The admin's dashboard: a diagnostic and a version are selected once for *)
(* all of its cards, two hooks load the list of versions and the version's *)
(* detail, and the cards edit its prompt, import its structure and         *)
(* finalize it, while other administrators do the same.                    *)
(*                                                                         *)
(* The page is a record, and each effect of its components an operator on  *)
(* it; the effects that follow a change run with it.  The cleanup of an    *)
(* effect marks its request, whose answer may still arrive.  A prompt is   *)
(* named by the version it was loaded from.                                *)
(***************************************************************************)
EXTENDS AdminData, Naturals, FiniteSets, FiniteSetsExt

CONSTANTS
    Inactive,      \* those shown with includeInactive only
    Existing0,     \* the versions there are at first, drafts
    MaxRevision,   \* creations and writes of versions, all together
    MaxWrites,     \* requests of the cards in flight at a time
    MaxRequests,   \* requests of the hooks in flight when the admin acts
    LateKinds      \* kinds of requests whose answers arrive although they are cancelled

VARIABLES
    db,      \* the server: each version's status and revision, which orders its updated_at
    acked,   \* the revision of each version this page was told of
    console  \* the page

adminVars == <<db, acked, console>>

ASSUME ConsoleAssumption ==
    /\ Diagnostics \subseteq Nat
    /\ IsFiniteSet(Versions) /\ Versions \subseteq Nat \ {0}
    /\ DiagnosticOf \in [Versions -> Diagnostics]
    /\ MaxRevision \in Nat
    /\ Nil \notin Diagnostics \cup Versions \cup {0}

NoDetail == [id |-> 0, status |-> "none", rev |-> 0]
NoVersions == [v \in {} |-> "draft"]

\* `ver` is 0 for the initial template and Nil for no version.
EmptyConsole ==
    [diags     |-> {},      \* useAdminDiagnostics
     all       |-> FALSE,   \* includeInactive
     diag      |-> Nil, ver |-> 0,
     list      |-> [of |-> Nil, entries |-> NoVersions, loading |-> FALSE],
     detail    |-> [data |-> NoDetail, loading |-> FALSE],
     editor    |-> [of |-> Nil, loading |-> FALSE],
     saving    |-> [ver |-> 0, of |-> Nil],
     importing |-> 0,
     dialog    |-> [at |-> "closed", ver |-> 0],
     reqs      |-> {}]

-----------------------------------------------------------------------------
(* Requests of the hooks.                                                  *)

Live(p, kind) == {r \in p.reqs : r.kind = kind /\ r.live}

\* What a failed request leaves: nothing of what it was to load.
NothingFor(kind) ==
    CASE kind = "diags"  -> {}
      [] kind = "list"   -> NoVersions
      [] kind = "detail" -> NoDetail
      [] kind = "prompt" -> Nil

\* The cleanup of an effect; at most one cancelled answer is still to come, and when the
\* server reads for it no longer matters.
Cancelled(r) == [r EXCEPT !.live = FALSE, !.early = NothingFor(r.kind)]
Cancel(p, kind) ==
    LET others == p.reqs \ Live(p, kind)
    IN [p EXCEPT !.reqs = others \cup
          IF \/ kind \notin LateKinds
             \/ \E r \in others : ~r.live THEN {} ELSE {Cancelled(r) : r \in Live(p, kind)}]

Existing(table, d) == {v \in Versions : table[v].status # "none" /\ DiagnosticOf[v] = d}

\* What the server answers out of its table.
ReadFor(table, kind, arg) ==
    CASE kind = "diags"  -> IF arg THEN Diagnostics ELSE Diagnostics \ Inactive
      [] kind = "list"   -> [v \in Existing(table, arg) |-> table[v]]
      [] kind = "detail" -> [id |-> arg, status |-> table[arg].status, rev |-> table[arg].rev]
      [] kind = "prompt" -> arg

\* A request is sent, by a page that was just told of what it wrote.
Request(table, kind, arg) ==
    [kind |-> kind, arg |-> arg, live |-> TRUE, early |-> ReadFor(table, kind, arg)]

Fetch(p, kind, arg) ==
    LET q == Cancel(p, kind)
    IN [q EXCEPT !.reqs = @ \cup {Request(db', kind, arg)}]

-----------------------------------------------------------------------------
(* Effects.                                                                *)

\* useDiagnosticVersions: the list shown stays until the next arrives.
ListEffect(p) ==
    IF p.diag = Nil
    THEN [Cancel(p, "list") EXCEPT !.list = [of |-> Nil, entries |-> NoVersions, loading |-> FALSE]]
    ELSE [Fetch(p, "list", p.diag) EXCEPT !.list.loading = TRUE]

\* useVersionDetail, likewise.
DetailEffect(p) ==
    IF p.ver \in {0, Nil}
    THEN [Cancel(p, "detail") EXCEPT !.detail = [data |-> NoDetail, loading |-> FALSE]]
    ELSE [Fetch(p, "detail", p.ver) EXCEPT !.detail.loading = TRUE]

\* The effect of SystemPromptCard on the selection and the detail.
PromptEffect(p) ==
    IF p.ver # Nil /\ p.ver # 0 /\ p.detail.data.id = p.ver
    THEN [Fetch(p, "prompt", p.ver) EXCEPT !.editor = [of |-> Nil, loading |-> TRUE]]
    ELSE [Cancel(p, "prompt") EXCEPT !.editor = [of |-> Nil, loading |-> FALSE]]

\* draftVersionOptions.
Drafts(p) == {v \in DOMAIN p.list.entries : p.list.entries[v].status = "draft"}

\* The first of them: the list is ordered by updated_at, then id, both descending.
FirstDraft(p) ==
    CHOOSE v \in Drafts(p) : \A w \in Drafts(p) \ {v} :
        \/ p.list.entries[v].rev > p.list.entries[w].rev
        \/ p.list.entries[v].rev = p.list.entries[w].rev /\ v > w

\* The effect that selects the first draft unless a draft is selected.
DraftEffect(p) ==
    IF p.diag = Nil \/ p.ver \in Drafts(p) \/ Drafts(p) = {} THEN p
    ELSE DetailEffect([p EXCEPT !.ver = FirstDraft(p)])

ChooseVersion(p, v) == PromptEffect(DraftEffect(DetailEffect([p EXCEPT !.ver = v])))

ChooseDiagnostic(p, d) ==
    ChooseVersion(ListEffect([p EXCEPT !.diag = d]), IF d = Nil THEN Nil ELSE 0)

\* The effect that keeps the selected diagnostic among those listed.
DiagnosticEffect(p) ==
    IF p.diag \in p.diags THEN p
    ELSE ChooseDiagnostic(p, IF p.diags = {} THEN Nil ELSE Min(p.diags))

ConsoleInit ==
    /\ db = [v \in Versions |->
               [status |-> IF v \in Existing0 THEN "draft" ELSE "none", rev |-> 0]]
    /\ acked = [v \in Versions |-> 0]
    /\ console = [EmptyConsole EXCEPT !.ver = Nil, !.reqs = {Request(db, "diags", FALSE)}]

\* Mutation: the answer of a cancelled request is not ignored.
AppliedCancelled(p, r, value) ==
    CASE r.kind = "diags" -> DiagnosticEffect([p EXCEPT !.diags = value])
      [] r.kind = "list" ->
           DraftEffect([p EXCEPT !.list = [of |-> r.arg, entries |-> value, loading |-> FALSE]])
      [] r.kind = "detail" -> [p EXCEPT !.detail = [data |-> value, loading |-> FALSE]]
      [] r.kind = "prompt" -> [p EXCEPT !.editor = [of |-> value, loading |-> FALSE]]

\* What the answer to a request of a hook sets; that of a cancelled one is ignored.
Applied(p, r, value) ==
    IF ~r.live THEN p
    ELSE CASE r.kind = "diags" -> DiagnosticEffect([p EXCEPT !.diags = value])
           [] r.kind = "list" ->
                LET q == DraftEffect([p EXCEPT !.list = [of |-> r.arg, entries |-> value,
                                                         loading |-> FALSE]])
                IN IF q.ver = p.ver THEN q ELSE PromptEffect(q)
           [] r.kind = "detail" ->
                PromptEffect([p EXCEPT !.detail = [data |-> value, loading |-> FALSE]])
           [] r.kind = "prompt" -> [p EXCEPT !.editor = [of |-> value, loading |-> FALSE]]

\* The server read its tables when the request was sent, or later.
RequestAnswered(r) ==
    /\ r \in console.reqs
    /\ UNCHANGED <<db, acked>>
    /\ \E value \in {NothingFor(r.kind), r.early, ReadFor(db, r.kind, r.arg)} :
         console' = Applied([console EXCEPT !.reqs = @ \ {r}], r, value)

-----------------------------------------------------------------------------
(* What the admin selects and reloads.                                     *)

Step(p) == UNCHANGED <<db, acked>> /\ console' = p

\* A dialog covers the page; and a bound of the model: the admin acts with few requests
\* of the hooks under way.
AtHand == console.dialog.at = "closed" /\ Cardinality(console.reqs) <= MaxRequests
LoadingDiags == Live(console, "diags") # {}

\* The select of any card; the empty choice of two of them ends at the first diagnostic.
SelectDiagnostic(d) ==
    /\ AtHand /\ d \in console.diags \ {console.diag}
    /\ Step(ChooseDiagnostic(console, d))

SelectNoDiagnostic ==
    /\ AtHand /\ console.diags # {}
    /\ Step(DiagnosticEffect(ChooseDiagnostic(console, Nil)))

SelectVersion(v) ==
    /\ AtHand /\ console.diag # Nil /\ ~console.list.loading
    /\ v \in ({0} \cup DOMAIN console.list.entries) \ {console.ver}
    /\ Step(ChooseVersion(console, v))

ToggleInactive ==
    /\ AtHand /\ ~LoadingDiags
    /\ Step([Fetch(console, "diags", ~console.all) EXCEPT !.all = ~@])

ReloadDiagnostics == AtHand /\ ~LoadingDiags /\ Step(Fetch(console, "diags", console.all))

\* The button, or the success of an activation.
ReloadVersions == AtHand /\ console.diag # Nil /\ Step(ListEffect(console))
ReloadDetail ==
    /\ AtHand /\ console.ver \notin {0, Nil}
    /\ ~console.detail.loading /\ ~console.list.loading
    /\ Step(DetailEffect(console))

-----------------------------------------------------------------------------
(* What the cards write.                                                   *)

\* A row is stored, later than every other.
Stored(v, status) ==
    LET latest == Max({db[w].rev : w \in Versions})
    IN /\ latest < MaxRevision
       /\ db' = [db EXCEPT ![v] = [status |-> status, rev |-> latest + 1]]

\* A write the server accepts.
Written(v, status) == db[v].status = "draft" /\ Stored(v, status)

Acknowledged(v) == acked' = [acked EXCEPT ![v] = db'[v].rev]

ReloadBoth(p) == DetailEffect(ListEffect(p))

\* The request is refused or lost; a lost one may have been carried out.
NotAcknowledged(v, status) == UNCHANGED acked /\ (UNCHANGED db \/ Written(v, status))

Writes == {k \in {"save", "import", "finalize"} :
    CASE k = "save" -> console.saving.ver # 0
      [] k = "import" -> console.importing # 0
      [] k = "finalize" -> console.dialog.at = "posting"}
MayWrite == Cardinality(Writes) < MaxWrites

\* canSave; handleSave up to its await.
SavePrompt ==
    /\ AtHand /\ MayWrite /\ console.saving.ver = 0
    /\ console.ver \notin {0, Nil}
    /\ console.detail.data.id = console.ver /\ console.detail.data.status = "draft"
    /\ ~console.detail.loading /\ ~console.list.loading /\ ~console.editor.loading
    /\ Step([console EXCEPT !.saving = [ver |-> console.ver, of |-> console.editor.of]])

\* Mutation: the list is not loaded again.
SaveSucceedsDetailOnly ==
    LET v == console.saving.ver IN
    /\ v # 0
    /\ Written(v, "draft") /\ Acknowledged(v)
    /\ console' = DetailEffect([console EXCEPT !.saving = EmptyConsole.saving, !.editor.of = v])

\* Mutation: nothing is loaded again.
SaveSucceedsQuietly ==
    LET v == console.saving.ver IN
    /\ v # 0
    /\ Written(v, "draft") /\ Acknowledged(v)
    /\ console' = [console EXCEPT !.saving = EmptyConsole.saving, !.editor.of = v]

SaveSucceeds ==
    LET v == console.saving.ver IN
    /\ v # 0
    /\ Written(v, "draft") /\ Acknowledged(v)
    /\ console' = ReloadBoth([console EXCEPT !.saving = EmptyConsole.saving, !.editor.of = v])

SaveFails ==
    LET v == console.saving.ver IN
    /\ v # 0
    /\ NotAcknowledged(v, "draft")
    /\ console' = [console EXCEPT !.saving = EmptyConsole.saving]

\* canSubmit of ImportStructureCard, with a file chosen.
ImportStructure ==
    /\ AtHand /\ MayWrite /\ console.importing = 0
    /\ console.diag # Nil /\ console.ver # 0 /\ ~console.list.loading /\ ~LoadingDiags
    /\ Step([console EXCEPT !.importing = console.ver])

ImportSucceeds ==
    LET v == console.importing IN
    /\ v # 0
    /\ Written(v, "draft") /\ Acknowledged(v)
    /\ console' = ReloadBoth([console EXCEPT !.importing = 0])

ImportFails ==
    LET v == console.importing IN
    /\ v # 0
    /\ NotAcknowledged(v, "draft")
    /\ console' = [console EXCEPT !.importing = 0]

\* Mutation: the dialog opens while the list is loading.
OpenFinalizeLoading ==
    /\ AtHand /\ ~LoadingDiags
    /\ console.ver \in Drafts(console)
    /\ Step([console EXCEPT !.dialog.at = "open"])

\* canOpenDialog: the version selected is a draft of the list shown.
OpenFinalize ==
    /\ AtHand /\ ~console.list.loading /\ ~LoadingDiags
    /\ console.ver \in Drafts(console)
    /\ Step([console EXCEPT !.dialog.at = "open"])

CancelFinalize == console.dialog.at = "open" /\ Step([console EXCEPT !.dialog.at = "closed"])

ConfirmFinalize ==
    /\ console.dialog.at = "open" /\ MayWrite /\ console.ver \in Drafts(console)
    /\ Step([console EXCEPT !.dialog = [at |-> "posting", ver |-> console.ver]])

FinalizeSucceeds ==
    LET v == console.dialog.ver IN
    /\ console.dialog.at = "posting"
    /\ Written(v, "finalized") /\ Acknowledged(v)
    /\ console' = ReloadBoth([console EXCEPT !.dialog = EmptyConsole.dialog])

FinalizeFails ==
    LET v == console.dialog.ver IN
    /\ console.dialog.at = "posting"
    /\ NotAcknowledged(v, "finalized")
    /\ console' = [console EXCEPT !.dialog = [at |-> "open", ver |-> 0]]

\* CreateVersionForm does not reload the list: the version is just there, as one that
\* another administrator creates.
CreateVersion(v) ==
    /\ db[v].status = "none"
    /\ Stored(v, "draft")
    /\ UNCHANGED <<acked, console>>

OtherAdmin(v) ==
    /\ \E status \in {"draft", "finalized"} : Written(v, status)
    /\ UNCHANGED <<acked, console>>

-----------------------------------------------------------------------------
Selecting ==
    \/ \E d \in Diagnostics : SelectDiagnostic(d)
    \/ \E v \in Versions \cup {0} : SelectVersion(v)
    \/ SelectNoDiagnostic \/ ToggleInactive
    \/ ReloadDiagnostics \/ ReloadVersions \/ ReloadDetail
Editing ==
    \/ SavePrompt \/ SaveSucceeds \/ SaveFails
    \/ ImportStructure \/ ImportSucceeds \/ ImportFails
    \/ OpenFinalize \/ CancelFinalize \/ ConfirmFinalize \/ FinalizeSucceeds \/ FinalizeFails
ConsoleNext ==
    \/ Selecting \/ Editing
    \/ \E r \in console.reqs : RequestAnswered(r)
    \/ \E v \in Versions : CreateVersion(v) \/ OtherAdmin(v)

-----------------------------------------------------------------------------
\* Once it is not loading, a hook shows what is selected now, however the answers of its
\* cancelled requests arrive (the `cancelled` flags of the hooks).
ShownIsSelected ==
    /\ ~console.list.loading => console.list.of = console.diag
    /\ ~console.detail.loading => console.detail.data.id \in {0, console.ver}

\* A write the server acknowledged to this page is in what it shows, once it is not loading.
OwnWritesShown ==
    /\ ~console.list.loading =>
          \A v \in DOMAIN console.list.entries : console.list.entries[v].rev >= acked[v]
    /\ ~console.detail.loading /\ console.detail.data.id # 0 =>
          console.detail.data.rev >= acked[console.detail.data.id]

\* The prompt of one version is never saved into another, although the answer of a save may
\* put its text into the editor after another version was selected.
SavedTextIsOwn == console.saving.of \in {Nil, console.saving.ver}

\* A version is finalized, which cannot be undone, only under its own diagnostic.
FinalizedUnderItsDiagnostic ==
    console.dialog.at = "posting" => DiagnosticOf[console.dialog.ver] = console.diag
=============================================================================
