------------------------- MODULE AdminScreens_proofs --------------------------
(***************************************************************************)
(* Theorems about AdminConsole, for any diagnostics, any finite number of  *)
(* versions, any number of writes, and any requests whose cancelled        *)
(* answers arrive, and about ActivationDialog, for any versions,           *)
(* diagnostics, numbers of openings and of activations.                    *)
(***************************************************************************)
EXTENDS AdminConsole, ActivationDialog, FiniteSetTheorems, TLAPS

ConsoleSpec == ConsoleInit /\ [][ConsoleNext]_adminVars

-----------------------------------------------------------------------------
(* Types.                                                                  *)

Row == [status : {"none", "draft", "finalized"}, rev : 0 .. MaxRevision]
Table == [Versions -> Row]
Listed == UNION {[S -> Row] : S \in SUBSET Versions}
Detail == [id : Versions \cup {0}, status : {"none", "draft", "finalized"}, rev : 0 .. MaxRevision]

RequestKinds == {"diags", "list", "detail", "prompt"}
Requests ==
    [kind : {"diags"}, arg : BOOLEAN, live : BOOLEAN, early : SUBSET Diagnostics] \cup
    [kind : {"list"}, arg : Diagnostics, live : BOOLEAN, early : Listed] \cup
    [kind : {"detail"}, arg : Versions, live : BOOLEAN, early : Detail] \cup
    [kind : {"prompt"}, arg : Versions, live : BOOLEAN, early : Versions \cup {Nil}]

Console ==
    [diags : SUBSET Diagnostics, all : BOOLEAN,
     diag : Diagnostics \cup {Nil}, ver : Versions \cup {0, Nil},
     list : [of : Diagnostics \cup {Nil}, entries : Listed, loading : BOOLEAN],
     detail : [data : Detail, loading : BOOLEAN],
     editor : [of : Versions \cup {Nil}, loading : BOOLEAN],
     saving : [ver : Versions \cup {0}, of : Versions \cup {Nil}],
     importing : Versions \cup {0},
     dialog : [at : {"closed", "open", "posting"}, ver : Versions \cup {0}],
     reqs : SUBSET Requests]

ConsoleTypeOK ==
    /\ db \in Table /\ acked \in [Versions -> 0 .. MaxRevision]
    /\ console \in Console

-----------------------------------------------------------------------------
(* The inductive invariant.  Its parts are about a page and the revisions  *)
(* it was told of, because an action applies several effects in turn, and  *)
(* each of them restores one part.                                         *)

\* What is shown or on its way is no older than what the page was told of.
ListUpToDate(entries, heard) == \A v \in DOMAIN entries : entries[v].rev >= heard[v]
DetailUpToDate(data, heard) == data.id # 0 => data.rev >= heard[data.id]

EntriesOK(p) == \A v \in DOMAIN p.list.entries : DiagnosticOf[v] = p.list.of

\* The list is that of the selected diagnostic, or is being loaded for it.
ListOK(p, heard) ==
    /\ \A r \in Live(p, "list") :
          /\ r.arg = p.diag
          /\ \A v \in DOMAIN r.early : DiagnosticOf[v] = r.arg
          /\ ListUpToDate(r.early, heard)
    /\ EntriesOK(p)
    /\ ~p.list.loading => p.list.of = p.diag /\ ListUpToDate(p.list.entries, heard)

\* So is the detail that of the selected version.
DetailOK(p, heard) ==
    /\ \A r \in Live(p, "detail") :
          r.arg = p.ver /\ r.early.id \in {0, p.ver} /\ DetailUpToDate(r.early, heard)
    /\ ~p.detail.loading => p.detail.data.id \in {0, p.ver} /\ DetailUpToDate(p.detail.data, heard)

\* Under a detail that is shown, the editor has the prompt of that version, if any.
PromptsOK(p) == \A r \in Live(p, "prompt") : r.arg = p.ver /\ r.early \in {Nil, p.ver}
PromptOK(p) ==
    /\ PromptsOK(p)
    /\ ~p.detail.loading /\ p.detail.data.id = p.ver /\ p.ver # 0 => p.editor.of \in {Nil, p.ver}

\* With a diagnostic goes a version of it, or the initial template.
ChoiceOK(p) == p.diag # Nil => p.ver # Nil

\* What a page shows of a selection.
ShownOK(p, heard) == ListOK(p, heard) /\ DetailOK(p, heard) /\ PromptOK(p) /\ ChoiceOK(p)

SaveOK(p) == p.saving.of \in {Nil, p.saving.ver}

\* Under the dialog the diagnostic stays selected and its list shown.
DialogOK(p) ==
    /\ p.dialog.at # "closed" => p.list.of = p.diag /\ Live(p, "diags") = {}
    /\ p.dialog.at = "posting" => p.dialog.ver \in Versions /\ DiagnosticOf[p.dialog.ver] = p.diag

PageOK(p, heard) == ShownOK(p, heard) /\ SaveOK(p) /\ DialogOK(p)

\* The server knows of every write it acknowledged.
AckedInv == \A v \in Versions : db[v].rev >= acked[v]

ConsoleInv == ConsoleTypeOK /\ AckedInv /\ PageOK(console, acked)

-----------------------------------------------------------------------------
(* Greatest and least elements.                                            *)

\* In a finite set, some element is below no other.
LEMMA Maximal ==
    ASSUME NEW S, IsFiniteSet(S), S # {}, NEW R,
           \A x \in S : <<x, x>> \notin R,
           \A x, y, z \in S : <<x, y>> \in R /\ <<y, z>> \in R => <<x, z>> \in R
    PROVE  \E x \in S : \A y \in S : <<x, y>> \notin R
<1> DEFINE Above(x) == {y \in S : <<x, y>> \in R}
           Aboves == {Above(x) : x \in S}
<1>1. IsWellFoundedOn(StrictSubsetOrdering(S), SUBSET S)
  BY FS_StrictSubsetOrderingWellFounded, FS_FiniteSubsetsOfFinite
<1>2. Aboves \subseteq SUBSET S /\ Aboves # {}
  <2>1. \A x \in S : Above(x) \in SUBSET S /\ Above(x) \in Aboves
    OBVIOUS
  <2>2. \A A \in Aboves : \E x \in S : A = Above(x)
    OBVIOUS
  <2> HIDE DEF Above, Aboves
  <2>3. QED
    BY <2>1, <2>2
<1> HIDE DEF Aboves
<1>3. \E A \in Aboves : \A B \in Aboves : <<B, A>> \notin StrictSubsetOrdering(S)
  BY <1>1, <1>2, WFMin
<1> USE DEF Aboves
<1>4. PICK x \in S : \A B \in Aboves : <<B, Above(x)>> \notin StrictSubsetOrdering(S)
  BY <1>3
<1>5. ASSUME NEW y \in S, <<x, y>> \in R
      PROVE  FALSE
  <2>1. Above(y) \subseteq Above(x) /\ y \in Above(x) /\ y \notin Above(y)
    BY <1>5
  <2>2. <<Above(y), Above(x)>> \in StrictSubsetOrdering(S)
    BY <2>1 DEF StrictSubsetOrdering
  <2>3. QED
    BY <1>4, <2>2
<1>6. QED
  BY <1>5

\* Max is what it is called on a finite set of numbers.
LEMMA MaxIs ==
    ASSUME NEW S, IsFiniteSet(S), S # {}, S \subseteq Nat
    PROVE  Max(S) \in S /\ \A y \in S : Max(S) >= y
<1> DEFINE R == {pair \in S \X S : pair[1] < pair[2]}
<1>1. \A x, y \in S : <<x, y>> \in R <=> x < y
  OBVIOUS
<1>2. /\ \A x \in S : <<x, x>> \notin R
      /\ \A x, y, z \in S : <<x, y>> \in R /\ <<y, z>> \in R => <<x, z>> \in R
  BY <1>1
<1> HIDE DEF R
<1>3. PICK x \in S : \A y \in S : <<x, y>> \notin R
  BY <1>2, Maximal
<1>4. \A y \in S : x >= y
  <2> SUFFICES ASSUME NEW y \in S PROVE x >= y
    OBVIOUS
  <2>1. x \in Nat /\ y \in Nat /\ ~(x < y)
    BY <1>1, <1>3
  <2>2. QED
    BY <2>1
<1>5. QED
  BY <1>4 DEF Max

\* Min likewise, on any set of numbers.
LEMMA MinIs ==
    ASSUME NEW S, S # {}, S \subseteq Nat
    PROVE  Min(S) \in S
<1>1. PICK x \in S : \A y \in S : <<y, x>> \notin OpToRel(<, Nat)
  BY NatLessThanWellFounded, WFMin
<1>2. \A y \in S : x =< y
  <2> SUFFICES ASSUME NEW y \in S PROVE x =< y
    OBVIOUS
  <2>1. x \in Nat /\ y \in Nat
    OBVIOUS
  <2>2. <<y, x>> \in Nat \X Nat /\ y < x => <<y, x>> \in OpToRel(<, Nat)
    BY DEF OpToRel
  <2>3. <<y, x>> \in Nat \X Nat
    BY <2>1
  <2>4. ~(y < x)
    BY <1>1, <2>2, <2>3, Zenon
  <2>5. QED
    BY <2>1, <2>4
<1>3. QED
  BY <1>2 DEF Min
-----------------------------------------------------------------------------
(* Requests.                                                               *)

LEMMA Nowhere == NoVersions \in Listed /\ DOMAIN NoVersions = {} /\ NoDetail \in Detail
<1>1. NoVersions \in [{} -> Row] /\ DOMAIN NoVersions = {}
  BY DEF NoVersions
<1>2. NoDetail \in Detail
  BY ConsoleAssumption DEF NoDetail, Detail
<1>3. QED
  BY <1>1, <1>2 DEF Listed

\* What a failed request leaves.
LEMMA NothingIs ==
    /\ NothingFor("diags") = {} /\ NothingFor("list") = NoVersions
    /\ NothingFor("detail") = NoDetail /\ NothingFor("prompt") = Nil
BY DEF NothingFor

\* What is read for a request is of its kind, of its argument and of the table.
LEMMA AnswerReadIs ==
    ASSUME NEW table \in Table
    PROVE  /\ \A arg \in BOOLEAN : ReadFor(table, "diags", arg) \in SUBSET Diagnostics
           /\ \A d \in Diagnostics :
                 /\ ReadFor(table, "list", d) \in Listed
                 /\ \A v \in DOMAIN ReadFor(table, "list", d) :
                       /\ v \in Versions /\ DiagnosticOf[v] = d
                       /\ ReadFor(table, "list", d)[v] = table[v]
           /\ \A v \in Versions :
                 /\ ReadFor(table, "detail", v) \in Detail
                 /\ ReadFor(table, "detail", v).id = v
                 /\ ReadFor(table, "detail", v).rev = table[v].rev
           /\ \A v \in Versions : ReadFor(table, "prompt", v) = v
<1>1. \A arg \in BOOLEAN : ReadFor(table, "diags", arg) \in SUBSET Diagnostics
  BY DEF ReadFor
<1>2. ASSUME NEW d \in Diagnostics
      PROVE  /\ ReadFor(table, "list", d) \in Listed
             /\ \A v \in DOMAIN ReadFor(table, "list", d) :
                   /\ v \in Versions /\ DiagnosticOf[v] = d
                   /\ ReadFor(table, "list", d)[v] = table[v]
  <2>1. ReadFor(table, "list", d) = [v \in Existing(table, d) |-> table[v]]
    BY DEF ReadFor
  <2>2. \A v \in Existing(table, d) : v \in Versions /\ DiagnosticOf[v] = d /\ table[v] \in Row
    BY DEF Existing, Table
  <2>3. [v \in Existing(table, d) |-> table[v]] \in [Existing(table, d) -> Row]
    BY <2>2
  <2>4. Existing(table, d) \in SUBSET Versions
    BY <2>2
  <2>5. QED
    BY <2>1, <2>2, <2>3, <2>4 DEF Listed
<1>3. ASSUME NEW v \in Versions
      PROVE  /\ ReadFor(table, "detail", v) \in Detail
             /\ ReadFor(table, "detail", v).id = v
             /\ ReadFor(table, "detail", v).rev = table[v].rev
  <2>1. ReadFor(table, "detail", v) = [id |-> v, status |-> table[v].status, rev |-> table[v].rev]
    BY DEF ReadFor
  <2>2. QED
    BY <2>1 DEF Table, Row, Detail
<1>4. \A v \in Versions : ReadFor(table, "prompt", v) = v
  BY DEF ReadFor
<1>5. QED
  BY <1>1, <1>2, <1>3, <1>4

\* What a request sent now is.
LEMMA RequestIs ==
    ASSUME NEW table \in Table, NEW kind, NEW arg,
           \/ kind = "diags" /\ arg \in BOOLEAN
           \/ kind = "list" /\ arg \in Diagnostics
           \/ kind \in {"detail", "prompt"} /\ arg \in Versions
    PROVE  /\ Request(table, kind, arg) \in Requests
           /\ Request(table, kind, arg).kind = kind /\ Request(table, kind, arg).arg = arg
           /\ Request(table, kind, arg).live
           /\ Request(table, kind, arg).early = ReadFor(table, kind, arg)
<1>1. Request(table, kind, arg) =
          [kind |-> kind, arg |-> arg, live |-> TRUE, early |-> ReadFor(table, kind, arg)]
  BY DEF Request
<1>2. Request(table, kind, arg) \in Requests
  BY <1>1, AnswerReadIs DEF Requests
<1>3. QED
  BY <1>1, <1>2

\* A page that differs in nothing but its requests.
SameButReqs(q, p) ==
    /\ q.diags = p.diags /\ q.all = p.all /\ q.diag = p.diag /\ q.ver = p.ver
    /\ q.list = p.list /\ q.detail = p.detail /\ q.editor = p.editor
    /\ q.saving = p.saving /\ q.importing = p.importing /\ q.dialog = p.dialog

LEMMA CancelledIs ==
    ASSUME NEW r \in Requests
    PROVE  Cancelled(r) \in Requests /\ ~Cancelled(r).live
<1>1. ASSUME NEW k \in RequestKinds, NEW A, NEW E, NothingFor(k) \in E,
             r \in [kind : {k}, arg : A, live : BOOLEAN, early : E]
      PROVE  /\ Cancelled(r) \in [kind : {k}, arg : A, live : BOOLEAN, early : E]
             /\ ~Cancelled(r).live
  <2>1. r.kind = k
    BY <1>1
  <2>2. Cancelled(r) = [r EXCEPT !.live = FALSE, !.early = NothingFor(k)]
    BY <2>1 DEF Cancelled
  <2>3. QED
    BY <1>1, <2>2
<1>2. CASE r \in [kind : {"diags"}, arg : BOOLEAN, live : BOOLEAN, early : SUBSET Diagnostics]
  <2>1. "diags" \in RequestKinds /\ NothingFor("diags") \in SUBSET Diagnostics
    BY NothingIs DEF RequestKinds
  <2>2. /\ Cancelled(r) \in [kind : {"diags"}, arg : BOOLEAN, live : BOOLEAN, early : SUBSET Diagnostics]
        /\ ~Cancelled(r).live
    BY <1>1, <1>2, <2>1
  <2>3. QED
    BY <2>2 DEF Requests
<1>3. CASE r \in [kind : {"list"}, arg : Diagnostics, live : BOOLEAN, early : Listed]
  BY <1>1, <1>3, NothingIs, Nowhere DEF Requests, RequestKinds
<1>4. CASE r \in [kind : {"detail"}, arg : Versions, live : BOOLEAN, early : Detail]
  BY <1>1, <1>4, NothingIs, Nowhere DEF Requests, RequestKinds
<1>5. CASE r \in [kind : {"prompt"}, arg : Versions, live : BOOLEAN, early : Versions \cup {Nil}]
  <2>1. "prompt" \in RequestKinds /\ NothingFor("prompt") \in Versions \cup {Nil}
    BY NothingIs DEF RequestKinds
  <2>2. /\ Cancelled(r) \in [kind : {"prompt"}, arg : Versions, live : BOOLEAN, early : Versions \cup {Nil}]
        /\ ~Cancelled(r).live
    BY <1>1, <1>5, <2>1
  <2>3. QED
    BY <2>2 DEF Requests
<1>6. QED
  BY <1>2, <1>3, <1>4, <1>5 DEF Requests

\* Cancelling leaves no live request of the kind and every other one.
LEMMA CancelIs ==
    ASSUME NEW p \in Console, NEW kind \in RequestKinds
    PROVE  /\ Cancel(p, kind) \in Console /\ SameButReqs(Cancel(p, kind), p)
           /\ Live(Cancel(p, kind), kind) = {}
           /\ \A k \in RequestKinds \ {kind} : Live(Cancel(p, kind), k) = Live(p, k)
<1> DEFINE others == p.reqs \ Live(p, kind)
           late == {Cancelled(r) : r \in Live(p, kind)}
<1>1. \A r \in Live(p, kind) : r \in Requests
  BY DEF Live, Console
<1>2. \A r \in Live(p, kind) : Cancelled(r) \in Requests /\ ~Cancelled(r).live
  BY <1>1, CancelledIs
<1>3. PICK more \in {{}, late} : Cancel(p, kind) = [p EXCEPT !.reqs = others \cup more]
  BY DEF Cancel
<1>4. \A r \in more : r \in Requests /\ ~r.live
  BY <1>2, <1>3
<1>5. others \subseteq Requests
  BY DEF Console
<1>6. Cancel(p, kind).reqs = others \cup more /\ SameButReqs(Cancel(p, kind), p)
  BY <1>3 DEF Console, SameButReqs
<1>7. Cancel(p, kind) \in Console
  BY <1>3, <1>4, <1>5 DEF Console
<1>8. /\ Live(Cancel(p, kind), kind) = {}
      /\ \A k \in RequestKinds \ {kind} : Live(Cancel(p, kind), k) = Live(p, k)
  BY <1>4, <1>6 DEF Live
<1>9. QED
  BY <1>6, <1>7, <1>8
\* Fetching cancels what is under way and sends one request.
Sendable(kind, arg) ==
    \/ kind = "diags" /\ arg \in BOOLEAN
    \/ kind = "list" /\ arg \in Diagnostics
    \/ kind \in {"detail", "prompt"} /\ arg \in Versions

LEMMA FetchIs ==
    ASSUME NEW p \in Console, NEW kind, NEW arg, Sendable(kind, arg), db' \in Table
    PROVE  /\ Fetch(p, kind, arg) \in Console /\ SameButReqs(Fetch(p, kind, arg), p)
           /\ Live(Fetch(p, kind, arg), kind) = {Request(db', kind, arg)}
           /\ \A k \in RequestKinds \ {kind} : Live(Fetch(p, kind, arg), k) = Live(p, k)
<1> DEFINE request == Request(db', kind, arg)
           q == Cancel(p, kind)
<1>1. kind \in RequestKinds
  BY DEF Sendable, RequestKinds
<1>2. request \in Requests /\ request.kind = kind /\ request.live
  BY RequestIs DEF Sendable
<1>3. /\ q \in Console /\ SameButReqs(q, p) /\ Live(q, kind) = {}
      /\ \A k \in RequestKinds \ {kind} : Live(q, k) = Live(p, k)
  BY <1>1, CancelIs
<1>4. Fetch(p, kind, arg) = [q EXCEPT !.reqs = q.reqs \cup {request}]
  BY DEF Fetch
<1> HIDE DEF request, q
<1>5. Fetch(p, kind, arg) \in Console
  BY <1>2, <1>3, <1>4 DEF Console
<1>6. /\ SameButReqs(Fetch(p, kind, arg), p)
      /\ Fetch(p, kind, arg).reqs = q.reqs \cup {request}
  BY <1>3, <1>4 DEF Console, SameButReqs
<1>7. /\ Live(Fetch(p, kind, arg), kind) = {request}
      /\ \A k \in RequestKinds \ {kind} : Live(Fetch(p, kind, arg), k) = Live(p, k)
  BY <1>2, <1>3, <1>6 DEF Live
<1>8. QED
  BY <1>5, <1>6, <1>7 DEF request

-----------------------------------------------------------------------------
(* Effects.                                                                *)

\* The server knows of what the page was told of.
Knows(table, heard) == \A v \in Versions : table[v].rev >= heard[v]

\* What no effect of the cards touches.
SameChoice(q, p) ==
    /\ q.diags = p.diags /\ q.all = p.all /\ q.diag = p.diag
    /\ q.saving = p.saving /\ q.importing = p.importing /\ q.dialog = p.dialog

LEMMA ListEffectIs ==
    ASSUME NEW p \in Console, NEW heard, EntriesOK(p), db' \in Table, Knows(db', heard)
    PROVE  /\ ListEffect(p) \in Console /\ ListOK(ListEffect(p), heard)
           /\ SameChoice(ListEffect(p), p) /\ ListEffect(p).ver = p.ver
           /\ ListEffect(p).detail = p.detail /\ ListEffect(p).editor = p.editor
           /\ ListEffect(p).list.of \in {p.list.of, p.diag}
           /\ \A k \in {"diags", "detail", "prompt"} : Live(ListEffect(p), k) = Live(p, k)
<1>1. CASE p.diag = Nil
  <2> DEFINE q == Cancel(p, "list")
             empty == [of |-> Nil, entries |-> NoVersions, loading |-> FALSE]
  <2>1. /\ q \in Console /\ SameButReqs(q, p) /\ Live(q, "list") = {}
        /\ \A k \in RequestKinds \ {"list"} : Live(q, k) = Live(p, k)
    BY CancelIs DEF RequestKinds
  <2>2. ListEffect(p) = [q EXCEPT !.list = empty]
    BY <1>1 DEF ListEffect
  <2>3. empty \in [of : Diagnostics \cup {Nil}, entries : Listed, loading : BOOLEAN]
    BY Nowhere
  <2> HIDE DEF q, empty
  <2>4. ListEffect(p) \in Console
    BY <2>1, <2>2, <2>3 DEF Console
  <2>5. /\ ListEffect(p).list = empty /\ ListEffect(p).reqs = q.reqs
        /\ SameChoice(ListEffect(p), p) /\ ListEffect(p).ver = p.ver
        /\ ListEffect(p).detail = p.detail /\ ListEffect(p).editor = p.editor
    BY <2>1, <2>2 DEF Console, SameButReqs, SameChoice
  <2>6. \A k : Live(ListEffect(p), k) = Live(q, k)
    BY <2>5 DEF Live
  <2>7. ListOK(ListEffect(p), heard)
    BY <1>1, <2>1, <2>5, <2>6, Nowhere DEF ListOK, EntriesOK, ListUpToDate, SameChoice, empty
  <2>8. QED
    BY <1>1, <2>1, <2>4, <2>5, <2>6, <2>7 DEF RequestKinds, empty
<1>2. CASE p.diag # Nil
  <2> DEFINE q == Fetch(p, "list", p.diag)
             request == Request(db', "list", p.diag)
  <2>1. p.diag \in Diagnostics
    BY <1>2 DEF Console
  <2>2. /\ q \in Console /\ SameButReqs(q, p) /\ Live(q, "list") = {request}
        /\ \A k \in RequestKinds \ {"list"} : Live(q, k) = Live(p, k)
    BY <2>1, FetchIs DEF RequestKinds, Sendable
  <2>3. ListEffect(p) = [q EXCEPT !.list.loading = TRUE]
    BY <1>2 DEF ListEffect
  <2>4. request.arg = p.diag /\ request.early = ReadFor(db', "list", p.diag)
    BY <2>1, RequestIs
  <2> HIDE DEF q, request
  <2>5. /\ ListEffect(p).list = [p.list EXCEPT !.loading = TRUE] /\ ListEffect(p).reqs = q.reqs
        /\ SameChoice(ListEffect(p), p) /\ ListEffect(p).ver = p.ver
        /\ ListEffect(p).detail = p.detail /\ ListEffect(p).editor = p.editor
    BY <2>2, <2>3 DEF Console, SameButReqs, SameChoice
  <2>6. /\ ListEffect(p).list.loading /\ ListEffect(p).list.of = p.list.of
        /\ ListEffect(p).list.entries = p.list.entries
        /\ ListEffect(p).list \in [of : Diagnostics \cup {Nil}, entries : Listed, loading : BOOLEAN]
    BY <2>5 DEF Console
  <2>7. ListEffect(p) \in Console
    BY <2>2, <2>3, <2>6 DEF Console
  <2>8. \A k : Live(ListEffect(p), k) = Live(q, k)
    BY <2>5 DEF Live
  <2>9. \A r \in Live(ListEffect(p), "list") :
            /\ r.arg = p.diag /\ \A v \in DOMAIN r.early : DiagnosticOf[v] = r.arg
            /\ ListUpToDate(r.early, heard)
    BY <2>1, <2>2, <2>4, <2>8, AnswerReadIs DEF ListUpToDate, Knows
  <2>10. ListOK(ListEffect(p), heard)
    BY <2>5, <2>6, <2>9 DEF ListOK, EntriesOK, SameChoice
  <2>11. QED
    BY <2>2, <2>5, <2>6, <2>7, <2>8, <2>10 DEF RequestKinds
<1>3. QED
  BY <1>1, <1>2

LEMMA DetailEffectIs ==
    ASSUME NEW p \in Console, NEW heard, db' \in Table, Knows(db', heard)
    PROVE  /\ DetailEffect(p) \in Console /\ DetailOK(DetailEffect(p), heard)
           /\ SameChoice(DetailEffect(p), p) /\ DetailEffect(p).ver = p.ver
           /\ DetailEffect(p).list = p.list /\ DetailEffect(p).editor = p.editor
           /\ \A k \in {"diags", "list", "prompt"} : Live(DetailEffect(p), k) = Live(p, k)
           /\ DetailEffect(p).detail.loading \/ DetailEffect(p).detail.data.id = 0
<1>1. CASE p.ver \in {0, Nil}
  <2> DEFINE q == Cancel(p, "detail")
             empty == [data |-> NoDetail, loading |-> FALSE]
  <2>1. /\ q \in Console /\ SameButReqs(q, p) /\ Live(q, "detail") = {}
        /\ \A k \in RequestKinds \ {"detail"} : Live(q, k) = Live(p, k)
    BY CancelIs DEF RequestKinds
  <2>2. DetailEffect(p) = [q EXCEPT !.detail = empty]
    BY <1>1 DEF DetailEffect
  <2>3. empty \in [data : Detail, loading : BOOLEAN] /\ empty.data.id = 0
    BY Nowhere DEF NoDetail
  <2> HIDE DEF q, empty
  <2>4. DetailEffect(p) \in Console
    BY <2>1, <2>2, <2>3 DEF Console
  <2>5. /\ DetailEffect(p).detail = empty /\ DetailEffect(p).reqs = q.reqs
        /\ SameChoice(DetailEffect(p), p) /\ DetailEffect(p).ver = p.ver
        /\ DetailEffect(p).list = p.list /\ DetailEffect(p).editor = p.editor
    BY <2>1, <2>2 DEF Console, SameButReqs, SameChoice
  <2>6. \A k : Live(DetailEffect(p), k) = Live(q, k)
    BY <2>5 DEF Live
  <2>7. DetailOK(DetailEffect(p), heard)
    BY <2>1, <2>3, <2>5, <2>6 DEF DetailOK, DetailUpToDate
  <2>8. QED
    BY <2>1, <2>3, <2>4, <2>5, <2>6, <2>7 DEF RequestKinds
<1>2. CASE p.ver \notin {0, Nil}
  <2> DEFINE q == Fetch(p, "detail", p.ver)
             request == Request(db', "detail", p.ver)
  <2>1. p.ver \in Versions
    BY <1>2 DEF Console
  <2>2. /\ q \in Console /\ SameButReqs(q, p) /\ Live(q, "detail") = {request}
        /\ \A k \in RequestKinds \ {"detail"} : Live(q, k) = Live(p, k)
    BY <2>1, FetchIs DEF RequestKinds, Sendable
  <2>3. DetailEffect(p) = [q EXCEPT !.detail.loading = TRUE]
    BY <1>2 DEF DetailEffect
  <2>4. request.arg = p.ver /\ request.early = ReadFor(db', "detail", p.ver)
    BY <2>1, RequestIs
  <2> HIDE DEF q, request
  <2>5. /\ DetailEffect(p).detail = [p.detail EXCEPT !.loading = TRUE] /\ DetailEffect(p).reqs = q.reqs
        /\ SameChoice(DetailEffect(p), p) /\ DetailEffect(p).ver = p.ver
        /\ DetailEffect(p).list = p.list /\ DetailEffect(p).editor = p.editor
    BY <2>2, <2>3 DEF Console, SameButReqs, SameChoice
  <2>6. /\ DetailEffect(p).detail.loading
        /\ DetailEffect(p).detail \in [data : Detail, loading : BOOLEAN]
    BY <2>5 DEF Console
  <2>7. DetailEffect(p) \in Console
    BY <2>2, <2>3, <2>6 DEF Console
  <2>8. \A k : Live(DetailEffect(p), k) = Live(q, k)
    BY <2>5 DEF Live
  <2>9. \A r \in Live(DetailEffect(p), "detail") :
            r.arg = p.ver /\ r.early.id \in {0, p.ver} /\ DetailUpToDate(r.early, heard)
    BY <2>1, <2>2, <2>4, <2>8, AnswerReadIs DEF DetailUpToDate, Knows
  <2>10. DetailOK(DetailEffect(p), heard)
    BY <2>5, <2>6, <2>9 DEF DetailOK
  <2>11. QED
    BY <2>2, <2>5, <2>6, <2>7, <2>8, <2>10 DEF RequestKinds
<1>3. QED
  BY <1>1, <1>2

LEMMA PromptEffectIs ==
    ASSUME NEW p \in Console, db' \in Table
    PROVE  /\ PromptEffect(p) \in Console /\ PromptOK(PromptEffect(p))
           /\ SameChoice(PromptEffect(p), p) /\ PromptEffect(p).ver = p.ver
           /\ PromptEffect(p).list = p.list /\ PromptEffect(p).detail = p.detail
           /\ \A k \in {"diags", "list", "detail"} : Live(PromptEffect(p), k) = Live(p, k)
<1>1. PICK q \in Console, loading \in BOOLEAN :
          /\ SameButReqs(q, p)
          /\ PromptEffect(p) = [q EXCEPT !.editor = [of |-> Nil, loading |-> loading]]
          /\ \A k \in RequestKinds \ {"prompt"} : Live(q, k) = Live(p, k)
          /\ \A r \in Live(q, "prompt") : r.arg = p.ver /\ r.early = p.ver
  <2>1. CASE p.ver # Nil /\ p.ver # 0 /\ p.detail.data.id = p.ver
    <3>1. p.ver \in Versions
      BY <2>1 DEF Console
    <3>2. /\ Fetch(p, "prompt", p.ver) \in Console /\ SameButReqs(Fetch(p, "prompt", p.ver), p)
          /\ Live(Fetch(p, "prompt", p.ver), "prompt") = {Request(db', "prompt", p.ver)}
          /\ \A k \in RequestKinds \ {"prompt"} : Live(Fetch(p, "prompt", p.ver), k) = Live(p, k)
      BY <3>1, FetchIs DEF Sendable
    <3>3. /\ Request(db', "prompt", p.ver).arg = p.ver
          /\ Request(db', "prompt", p.ver).early = p.ver
      BY <3>1, RequestIs, AnswerReadIs
    <3>4. PromptEffect(p) = [Fetch(p, "prompt", p.ver) EXCEPT !.editor = [of |-> Nil, loading |-> TRUE]]
      BY <2>1 DEF PromptEffect
    <3>5. QED
      BY <3>2, <3>3, <3>4
  <2>2. CASE ~(p.ver # Nil /\ p.ver # 0 /\ p.detail.data.id = p.ver)
    <3>1. /\ Cancel(p, "prompt") \in Console /\ SameButReqs(Cancel(p, "prompt"), p)
          /\ Live(Cancel(p, "prompt"), "prompt") = {}
          /\ \A k \in RequestKinds \ {"prompt"} : Live(Cancel(p, "prompt"), k) = Live(p, k)
      BY CancelIs DEF RequestKinds
    <3>2. PromptEffect(p) = [Cancel(p, "prompt") EXCEPT !.editor = [of |-> Nil, loading |-> FALSE]]
      BY <2>2 DEF PromptEffect
    <3>3. QED
      BY <3>1, <3>2
  <2>3. QED
    BY <2>1, <2>2
<1>2. PromptEffect(p) \in Console
  BY <1>1 DEF Console
<1>3. /\ PromptEffect(p).editor.of = Nil /\ PromptEffect(p).reqs = q.reqs
      /\ SameChoice(PromptEffect(p), p) /\ PromptEffect(p).ver = p.ver
      /\ PromptEffect(p).list = p.list /\ PromptEffect(p).detail = p.detail
  BY <1>1 DEF Console, SameButReqs, SameChoice
<1>4. \A k : Live(PromptEffect(p), k) = Live(q, k)
  BY <1>3 DEF Live
<1>5. PromptOK(PromptEffect(p))
  BY <1>1, <1>3, <1>4 DEF PromptOK, PromptsOK
<1>6. QED
  BY <1>1, <1>2, <1>3, <1>4, <1>5 DEF RequestKinds
\* The first draft is one of the drafts: the order of the list is total.
LEMMA FirstDraftIs ==
    ASSUME NEW p \in Console, Drafts(p) # {}
    PROVE  FirstDraft(p) \in Drafts(p) /\ Drafts(p) \subseteq Versions
<1> DEFINE rev(v) == p.list.entries[v].rev
           R == {pair \in Versions \X Versions :
                   \/ rev(pair[1]) < rev(pair[2])
                   \/ rev(pair[1]) = rev(pair[2]) /\ pair[1] < pair[2]}
<1>1. PICK S \in SUBSET Versions : p.list.entries \in [S -> Row]
  BY DEF Console, Listed
<1>2. Drafts(p) \subseteq S /\ \A v \in Drafts(p) : v \in Nat /\ rev(v) \in Nat
  <2>1. DOMAIN p.list.entries = S /\ \A v \in S : rev(v) \in 0 .. MaxRevision
    BY <1>1 DEF Row
  <2>2. Drafts(p) \subseteq S
    BY <2>1 DEF Drafts
  <2>3. \A v \in S : v \in Nat /\ rev(v) \in Nat
    <3> SUFFICES ASSUME NEW v \in S PROVE v \in Nat /\ rev(v) \in Nat
      OBVIOUS
    <3>1. v \in Nat
      BY <1>1, ConsoleAssumption
    <3> HIDE DEF rev
    <3>2. rev(v) \in Nat
      BY <2>1, ConsoleAssumption
    <3>3. QED
      BY <3>1, <3>2
  <2>4. QED
    BY <2>2, <2>3, Zenon
<1>3. IsFiniteSet(Drafts(p))
  BY <1>2, ConsoleAssumption, FS_Subset
<1>4. \A v, w \in Drafts(p) :
          <<v, w>> \in R <=> \/ rev(v) < rev(w)
                             \/ rev(v) = rev(w) /\ v < w
  BY <1>2
<1> HIDE DEF R, rev
<1>5. /\ \A v \in Drafts(p) : <<v, v>> \notin R
      /\ \A u, v, w \in Drafts(p) : <<u, v>> \in R /\ <<v, w>> \in R => <<u, w>> \in R
  BY <1>2, <1>4
<1>6. PICK v \in Drafts(p) : \A w \in Drafts(p) : <<v, w>> \notin R
  BY <1>3, <1>5, Maximal
<1>7. \A w \in Drafts(p) \ {v} : rev(v) > rev(w) \/ (rev(v) = rev(w) /\ v > w)
  <2> SUFFICES ASSUME NEW w \in Drafts(p) \ {v}
               PROVE  rev(v) > rev(w) \/ (rev(v) = rev(w) /\ v > w)
    OBVIOUS
  <2>1. ~(rev(v) < rev(w) \/ (rev(v) = rev(w) /\ v < w))
    BY <1>4, <1>6
  <2>2. v # w /\ v \in Nat /\ w \in Nat /\ rev(v) \in Nat /\ rev(w) \in Nat
    BY <1>2
  <2>3. QED
    BY <2>1, <2>2
<1>8. QED
  BY <1>2, <1>7 DEF FirstDraft, rev

\* Selecting the first draft loads its detail; otherwise nothing happens.
LEMMA DraftEffectIs ==
    ASSUME NEW p \in Console, NEW heard, db' \in Table, Knows(db', heard)
    PROVE  /\ DraftEffect(p) \in Console
           /\ SameChoice(DraftEffect(p), p)
           /\ DraftEffect(p).list = p.list /\ DraftEffect(p).editor = p.editor
           /\ \A k \in {"diags", "list", "prompt"} : Live(DraftEffect(p), k) = Live(p, k)
           /\ \/ DraftEffect(p) = p
              \/ /\ DetailOK(DraftEffect(p), heard)
                 /\ DraftEffect(p).ver # p.ver /\ DraftEffect(p).ver \in Versions
<1>1. CASE p.diag = Nil \/ p.ver \in Drafts(p) \/ Drafts(p) = {}
  BY <1>1 DEF DraftEffect, SameChoice
<1>2. CASE ~(p.diag = Nil \/ p.ver \in Drafts(p) \/ Drafts(p) = {})
  <2> DEFINE q == [p EXCEPT !.ver = FirstDraft(p)]
  <2>1. FirstDraft(p) \in Drafts(p) /\ FirstDraft(p) \in Versions
    BY <1>2, FirstDraftIs
  <2>2. /\ q \in Console /\ SameChoice(q, p) /\ q.list = p.list /\ q.editor = p.editor
        /\ q.ver = FirstDraft(p) /\ q.reqs = p.reqs
    BY <2>1 DEF Console, SameChoice
  <2>3. DraftEffect(p) = DetailEffect(q)
    BY <1>2 DEF DraftEffect
  <2> HIDE DEF q
  <2>4. /\ DetailEffect(q) \in Console /\ DetailOK(DetailEffect(q), heard)
        /\ SameChoice(DetailEffect(q), q) /\ DetailEffect(q).ver = q.ver
        /\ DetailEffect(q).list = q.list /\ DetailEffect(q).editor = q.editor
        /\ \A k \in {"diags", "list", "prompt"} : Live(DetailEffect(q), k) = Live(q, k)
    BY <2>2, DetailEffectIs
  <2>5. \A k : Live(q, k) = Live(p, k)
    BY <2>2 DEF Live
  <2>6. q.ver # p.ver
    BY <1>2, <2>1, <2>2
  <2>7. QED
    BY <2>1, <2>2, <2>3, <2>4, <2>5, <2>6 DEF SameChoice
<1>3. QED
  BY <1>1, <1>2

\* What depends on the list alone stays when it does.
LEMMA ListKept ==
    ASSUME NEW p, NEW q, NEW heard, ListOK(p, heard),
           q.list = p.list, q.diag = p.diag, Live(q, "list") \subseteq Live(p, "list")
    PROVE  ListOK(q, heard)
BY DEF ListOK, EntriesOK

LEMMA DetailKept ==
    ASSUME NEW p, NEW q, NEW heard, DetailOK(p, heard),
           q.detail = p.detail, q.ver = p.ver, Live(q, "detail") \subseteq Live(p, "detail")
    PROVE  DetailOK(q, heard)
BY DEF DetailOK

LEMMA PromptKept ==
    ASSUME NEW p, NEW q, PromptOK(p),
           q.editor = p.editor, q.ver = p.ver, Live(q, "prompt") \subseteq Live(p, "prompt"),
           q.detail = p.detail \/ q.detail.loading \/ q.detail.data.id = 0
    PROVE  PromptOK(q)
BY DEF PromptOK, PromptsOK

\* Choosing a version, on a page with a list, makes all of the page that of the selection.
LEMMA ChooseVersionIs ==
    ASSUME NEW p \in Console, NEW v \in Versions \cup {0, Nil}, NEW heard,
           p.diag # Nil => v # Nil, ListOK(p, heard), db' \in Table, Knows(db', heard)
    PROVE  /\ ChooseVersion(p, v) \in Console
           /\ SameChoice(ChooseVersion(p, v), p)
           /\ ChooseVersion(p, v).list = p.list
           /\ ShownOK(ChooseVersion(p, v), heard)
           /\ Live(ChooseVersion(p, v), "diags") = Live(p, "diags")
<1> DEFINE q == [p EXCEPT !.ver = v]
           d == DetailEffect(q)
           e == DraftEffect(d)
           f == PromptEffect(e)
<1>1. q \in Console /\ SameChoice(q, p) /\ q.list = p.list /\ q.reqs = p.reqs /\ q.ver = v
  BY DEF Console, SameChoice
<1>2. \A k : Live(q, k) = Live(p, k)
  BY <1>1 DEF Live
<1>3. ChooseVersion(p, v) = f
  BY DEF ChooseVersion
<1> HIDE DEF q
<1>4. /\ d \in Console /\ DetailOK(d, heard) /\ SameChoice(d, q) /\ d.list = q.list /\ d.ver = q.ver
      /\ \A k \in {"diags", "list", "prompt"} : Live(d, k) = Live(q, k)
  BY <1>1, DetailEffectIs
<1> HIDE DEF d
<1>5. /\ e \in Console /\ SameChoice(e, d) /\ e.list = d.list
      /\ \A k \in {"diags", "list", "prompt"} : Live(e, k) = Live(d, k)
      /\ e = d \/ (DetailOK(e, heard) /\ e.ver \in Versions)
  BY <1>4, DraftEffectIs
<1> HIDE DEF e
<1>6. /\ f \in Console /\ PromptOK(f) /\ SameChoice(f, e) /\ f.ver = e.ver
      /\ f.list = e.list /\ f.detail = e.detail
      /\ \A k \in {"diags", "list", "detail"} : Live(f, k) = Live(e, k)
  BY <1>5, PromptEffectIs
<1> HIDE DEF f
<1>7. DetailOK(e, heard)
  BY <1>4, <1>5
<1>8. DetailOK(f, heard)
  BY <1>6, <1>7, DetailKept
<1>9. f.list = p.list /\ SameChoice(f, p) /\ Live(f, "list") = Live(p, "list")
  BY <1>1, <1>2, <1>4, <1>5, <1>6 DEF SameChoice
<1>10. ListOK(f, heard)
  BY <1>9, ListKept DEF SameChoice
<1>11. ChoiceOK(f)
  BY <1>1, <1>4, <1>5, <1>6, <1>9, ConsoleAssumption DEF ChoiceOK, SameChoice
<1>12. QED
  BY <1>2, <1>3, <1>4, <1>5, <1>6, <1>8, <1>9, <1>10, <1>11 DEF ShownOK

\* What stays when a diagnostic is selected.
SameWrites(q, p) ==
    /\ q.diags = p.diags /\ q.all = p.all
    /\ q.saving = p.saving /\ q.importing = p.importing /\ q.dialog = p.dialog
    /\ Live(q, "diags") = Live(p, "diags")

LEMMA ChooseDiagnosticIs ==
    ASSUME NEW p \in Console, NEW d \in Diagnostics \cup {Nil}, NEW heard,
           EntriesOK(p), db' \in Table, Knows(db', heard)
    PROVE  /\ ChooseDiagnostic(p, d) \in Console
           /\ SameWrites(ChooseDiagnostic(p, d), p)
           /\ ShownOK(ChooseDiagnostic(p, d), heard)
<1> DEFINE q == [p EXCEPT !.diag = d]
           l == ListEffect(q)
           v == IF d = Nil THEN Nil ELSE 0
<1>1. q \in Console /\ SameWrites(q, p) /\ q.list = p.list
  <2>1. q \in Console /\ q.reqs = p.reqs
    BY DEF Console
  <2>2. QED
    BY <2>1 DEF Console, SameWrites, Live
<1>2. ChooseDiagnostic(p, d) = ChooseVersion(l, v)
  BY DEF ChooseDiagnostic
<1>3. v \in Versions \cup {0, Nil} /\ (q.diag # Nil => v # Nil)
  BY ConsoleAssumption DEF Console
<1> HIDE DEF q, v
<1>4. EntriesOK(q)
  BY <1>1 DEF EntriesOK
<1>5. /\ l \in Console /\ ListOK(l, heard) /\ SameChoice(l, q)
      /\ Live(l, "diags") = Live(q, "diags")
  BY <1>1, <1>4, ListEffectIs
<1> HIDE DEF l
<1>6. /\ ChooseVersion(l, v) \in Console /\ SameChoice(ChooseVersion(l, v), l)
      /\ ShownOK(ChooseVersion(l, v), heard)
      /\ Live(ChooseVersion(l, v), "diags") = Live(l, "diags")
  <2>1. l.diag # Nil => v # Nil
    BY <1>3, <1>5 DEF SameChoice
  <2>2. QED
    BY <1>3, <1>5, <2>1, ChooseVersionIs
<1>7. QED
  BY <1>1, <1>2, <1>5, <1>6 DEF SameChoice, SameWrites

LEMMA DiagnosticEffectIs ==
    ASSUME NEW p \in Console, NEW heard, ShownOK(p, heard), db' \in Table, Knows(db', heard)
    PROVE  /\ DiagnosticEffect(p) \in Console
           /\ SameWrites(DiagnosticEffect(p), p)
           /\ ShownOK(DiagnosticEffect(p), heard)
<1>1. CASE p.diag \in p.diags
  BY <1>1 DEF DiagnosticEffect, SameWrites
<1>2. CASE p.diag \notin p.diags
  <2> DEFINE d == IF p.diags = {} THEN Nil ELSE Min(p.diags)
  <2>1. d \in Diagnostics \cup {Nil}
    BY MinIs, ConsoleAssumption DEF Console
  <2>2. DiagnosticEffect(p) = ChooseDiagnostic(p, d)
    BY <1>2 DEF DiagnosticEffect
  <2>3. EntriesOK(p)
    BY DEF ShownOK, ListOK
  <2> HIDE DEF d
  <2>4. QED
    BY <2>1, <2>2, <2>3, ChooseDiagnosticIs
<1>3. QED
  BY <1>1, <1>2


\* Reloading the list and the detail makes both of them those of the table.
LEMMA ReloadBothIs ==
    ASSUME NEW p \in Console, NEW heard, EntriesOK(p), ChoiceOK(p), PromptsOK(p),
           db' \in Table, Knows(db', heard)
    PROVE  /\ ReloadBoth(p) \in Console /\ SameChoice(ReloadBoth(p), p)
           /\ ShownOK(ReloadBoth(p), heard)
           /\ ReloadBoth(p).list.of \in {p.list.of, p.diag}
           /\ Live(ReloadBoth(p), "diags") = Live(p, "diags")
<1> DEFINE l == ListEffect(p)
           q == DetailEffect(l)
<1>1. /\ l \in Console /\ ListOK(l, heard) /\ SameChoice(l, p) /\ l.ver = p.ver
      /\ l.editor = p.editor /\ l.list.of \in {p.list.of, p.diag}
      /\ \A k \in {"diags", "detail", "prompt"} : Live(l, k) = Live(p, k)
  BY ListEffectIs
<1> HIDE DEF l
<1>2. /\ q \in Console /\ DetailOK(q, heard) /\ SameChoice(q, l) /\ q.ver = l.ver
      /\ q.list = l.list /\ q.editor = l.editor
      /\ \A k \in {"diags", "list", "prompt"} : Live(q, k) = Live(l, k)
      /\ q.detail.loading \/ q.detail.data.id = 0
  BY <1>1, DetailEffectIs
<1>3. ReloadBoth(p) = q
  BY DEF ReloadBoth, l
<1> HIDE DEF q
<1>4. ListOK(q, heard)
  BY <1>1, <1>2, ListKept DEF SameChoice
<1>5. PromptOK(q)
  BY <1>1, <1>2 DEF PromptOK, PromptsOK
<1>6. SameChoice(q, p) /\ ChoiceOK(q)
  BY <1>1, <1>2 DEF SameChoice, ChoiceOK
<1>7. QED
  BY <1>1, <1>2, <1>3, <1>4, <1>5, <1>6 DEF ShownOK

-----------------------------------------------------------------------------
(* The server.                                                             *)

\* A row is stored with a revision above every other.
LEMMA StoredIs ==
    ASSUME db \in Table, NEW v \in Versions, NEW status \in {"draft", "finalized"},
           Stored(v, status)
    PROVE  /\ db' \in Table
           /\ \A w \in Versions : db'[w].rev >= db[w].rev
<1> DEFINE S == {db[w].rev : w \in Versions}
           latest == Max(S)
           row == [status |-> status, rev |-> latest + 1]
<1>1. \A w \in Versions : db[w] \in Row /\ db[w].rev \in 0 .. MaxRevision
  BY DEF Table, Row
<1>2. S \subseteq 0 .. MaxRevision /\ db[v].rev \in S
  BY <1>1
<1>3. S \subseteq Nat /\ IsFiniteSet(S)
  <2>1. MaxRevision \in Int /\ 0 .. MaxRevision \subseteq Nat
    BY ConsoleAssumption
  <2>2. IsFiniteSet(0 .. MaxRevision)
    BY <2>1, FS_Interval
  <2> HIDE DEF S
  <2>3. QED
    BY <1>2, <2>1, <2>2, FS_Subset
<1>4. latest \in S /\ \A y \in S : latest >= y
  BY <1>2, <1>3, MaxIs
<1>5. latest < MaxRevision /\ db' = [db EXCEPT ![v] = row]
  BY DEF Stored
<1>6. latest >= db[v].rev
  BY <1>2, <1>4
<1>7. latest \in Nat
  BY <1>3, <1>4
<1> HIDE DEF latest, S
<1>8. row.rev \in 0 .. MaxRevision /\ row.rev >= db[v].rev /\ row \in Row
  BY <1>1, <1>5, <1>6, <1>7, ConsoleAssumption DEF Row
<1> HIDE DEF row
<1>9. db' \in Table
  BY <1>5, <1>8 DEF Table
<1>10. \A w \in Versions : db'[w] = IF w = v THEN row ELSE db[w]
  BY <1>5 DEF Table
<1>11. ASSUME NEW w \in Versions
       PROVE  db'[w].rev >= db[w].rev
  <2>1. CASE w = v
    BY <1>8, <1>10, <2>1
  <2>2. CASE w # v
    BY <1>1, <1>10, <2>2
  <2>3. QED
    BY <2>1, <2>2
<1>12. QED
  BY <1>9, <1>11

\* The revisions told of stay those of the table or older, whatever is stored.
LEMMA StoredKnown ==
    ASSUME ConsoleInv, NEW v \in Versions, NEW status \in {"draft", "finalized"},
           Stored(v, status)
    PROVE  db' \in Table /\ Knows(db', acked)
<1>1. db' \in Table /\ \A w \in Versions : db'[w].rev >= db[w].rev
  BY StoredIs DEF ConsoleInv, ConsoleTypeOK
<1>2. ASSUME NEW w \in Versions
      PROVE  db'[w].rev >= acked[w]
  <2>1. db'[w].rev \in Nat /\ db[w].rev \in Nat /\ acked[w] \in Nat
    BY <1>1, ConsoleAssumption DEF ConsoleInv, ConsoleTypeOK, Table, Row
  <2>2. db'[w].rev >= db[w].rev /\ db[w].rev >= acked[w]
    BY <1>1 DEF ConsoleInv, AckedInv
  <2>3. QED
    BY <2>1, <2>2
<1>3. QED
  BY <1>1, <1>2 DEF Knows

LEMMA AcknowledgedKnown ==
    ASSUME ConsoleInv, NEW v \in Versions, NEW status \in {"draft", "finalized"},
           Written(v, status), Acknowledged(v)
    PROVE  /\ db' \in Table /\ Knows(db', acked')
           /\ acked' \in [Versions -> 0 .. MaxRevision]
<1>1. db' \in Table /\ Knows(db', acked)
  BY StoredKnown DEF Written
<1>2. db'[v].rev \in 0 .. MaxRevision
  BY <1>1 DEF Table, Row
<1>3. acked' = [acked EXCEPT ![v] = db'[v].rev] /\ acked \in [Versions -> 0 .. MaxRevision]
  BY DEF Acknowledged, ConsoleInv, ConsoleTypeOK
<1>4. acked' \in [Versions -> 0 .. MaxRevision]
  BY <1>2, <1>3
<1>5. \A w \in Versions : acked'[w] = IF w = v THEN db'[v].rev ELSE acked[w]
  BY <1>3
<1>6. \A w \in Versions : db'[w].rev >= acked'[w]
  BY <1>1, <1>2, <1>5, ConsoleAssumption DEF Knows
<1>7. QED
  BY <1>1, <1>4, <1>6 DEF Knows

LEMMA NotAcknowledgedKnown ==
    ASSUME ConsoleInv, NEW v \in Versions, NEW status \in {"draft", "finalized"},
           NotAcknowledged(v, status)
    PROVE  /\ db' \in Table /\ Knows(db', acked') /\ acked' = acked
           /\ acked' \in [Versions -> 0 .. MaxRevision]
<1>1. acked' = acked /\ acked \in [Versions -> 0 .. MaxRevision]
  BY DEF NotAcknowledged, ConsoleInv, ConsoleTypeOK
<1>2. CASE UNCHANGED db
  BY <1>1, <1>2 DEF ConsoleInv, ConsoleTypeOK, AckedInv, Knows
<1>3. CASE Written(v, status)
  BY <1>1, <1>3, StoredKnown DEF Written
<1>4. QED
  BY <1>1, <1>2, <1>3 DEF NotAcknowledged

-----------------------------------------------------------------------------
(* The steps.                                                              *)

\* On a page without a dialog, only what is shown is to be restored.
LEMMA ClosedPage ==
    ASSUME NEW p, NEW q, NEW heard, PageOK(p, heard), p.dialog.at = "closed",
           q.saving = p.saving, q.dialog = p.dialog, ShownOK(q, heard)
    PROVE  PageOK(q, heard)
BY DEF PageOK, SaveOK, DialogOK

\* What is shown stays when nothing of it changes, whatever requests end.
LEMMA ShownKept ==
    ASSUME NEW p, NEW q, NEW heard, ShownOK(p, heard),
           q.list = p.list, q.diag = p.diag, q.detail = p.detail, q.ver = p.ver,
           q.editor = p.editor,
           \A k \in {"list", "detail", "prompt"} : Live(q, k) \subseteq Live(p, k)
    PROVE  ShownOK(q, heard)
<1>1. ListOK(q, heard) /\ DetailOK(q, heard) /\ PromptOK(q)
  BY ListKept, DetailKept, PromptKept DEF ShownOK
<1>2. QED
  BY <1>1 DEF ShownOK, ChoiceOK

\* What the admin does on the page alone.
LEMMA StepIs ==
    ASSUME ConsoleInv, NEW q, Step(q), q \in Console, PageOK(q, acked)
    PROVE  ConsoleInv'
<1>1. db' = db /\ acked' = acked /\ console' = q
  BY DEF Step
<1>2. QED
  BY <1>1 DEF ConsoleInv, ConsoleTypeOK, AckedInv

LEMMA Unchanged ==
    ASSUME ConsoleInv, UNCHANGED <<db, acked>>
    PROVE  db' \in Table /\ Knows(db', acked) /\ acked' = acked
BY DEF ConsoleInv, ConsoleTypeOK, AckedInv, Knows

LEMMA SelectingStep ==
    ASSUME ConsoleInv, Selecting
    PROVE  ConsoleInv'
<1>1. /\ console \in Console /\ PageOK(console, acked) /\ ShownOK(console, acked)
      /\ EntriesOK(console)
  BY DEF ConsoleInv, ConsoleTypeOK, PageOK, ShownOK, ListOK
<1>2. /\ UNCHANGED <<db, acked>> /\ console.dialog.at = "closed"
  BY DEF Selecting, SelectDiagnostic, SelectNoDiagnostic, SelectVersion, ToggleInactive,
         ReloadDiagnostics, ReloadVersions, ReloadDetail, Step, AtHand
<1>3. db' \in Table /\ Knows(db', acked)
  BY <1>2, Unchanged
<1>4. ASSUME NEW q \in Console, q.saving = console.saving, q.dialog = console.dialog,
             ShownOK(q, acked), Step(q)
      PROVE  ConsoleInv'
  BY <1>1, <1>2, <1>4, ClosedPage, StepIs
<1>5. ASSUME NEW d \in Diagnostics, SelectDiagnostic(d)
      PROVE  ConsoleInv'
  <2>1. /\ ChooseDiagnostic(console, d) \in Console
        /\ SameWrites(ChooseDiagnostic(console, d), console)
        /\ ShownOK(ChooseDiagnostic(console, d), acked)
    BY <1>1, <1>3, ChooseDiagnosticIs
  <2>2. Step(ChooseDiagnostic(console, d))
    BY <1>5 DEF SelectDiagnostic
  <2>3. QED
    BY <1>4, <2>1, <2>2 DEF SameWrites
<1>6. ASSUME SelectNoDiagnostic
      PROVE  ConsoleInv'
  <2> DEFINE q == ChooseDiagnostic(console, Nil)
  <2>1. q \in Console /\ SameWrites(q, console) /\ ShownOK(q, acked)
    BY <1>1, <1>3, ChooseDiagnosticIs
  <2>2. Step(DiagnosticEffect(q))
    BY <1>6 DEF SelectNoDiagnostic
  <2> HIDE DEF q
  <2>3. /\ DiagnosticEffect(q) \in Console /\ SameWrites(DiagnosticEffect(q), q)
        /\ ShownOK(DiagnosticEffect(q), acked)
    BY <1>3, <2>1, DiagnosticEffectIs
  <2>4. QED
    BY <1>4, <2>1, <2>2, <2>3 DEF SameWrites
<1>7. ASSUME NEW v \in Versions \cup {0}, SelectVersion(v)
      PROVE  ConsoleInv'
  <2>1. v # Nil
    BY ConsoleAssumption
  <2>2. ListOK(console, acked)
    BY <1>1 DEF ShownOK
  <2>3. /\ ChooseVersion(console, v) \in Console
        /\ SameChoice(ChooseVersion(console, v), console)
        /\ ShownOK(ChooseVersion(console, v), acked)
    BY <1>1, <1>3, <2>1, <2>2, ChooseVersionIs
  <2>4. Step(ChooseVersion(console, v))
    BY <1>7 DEF SelectVersion
  <2>5. QED
    BY <1>4, <2>3, <2>4 DEF SameChoice
<1>8. ASSUME NEW arg \in BOOLEAN, NEW all \in BOOLEAN,
             Step([Fetch(console, "diags", arg) EXCEPT !.all = all])
      PROVE  ConsoleInv'
  <2> DEFINE f == Fetch(console, "diags", arg)
             q == [f EXCEPT !.all = all]
  <2>1. /\ f \in Console /\ SameButReqs(f, console)
        /\ \A k \in RequestKinds \ {"diags"} : Live(f, k) = Live(console, k)
    BY <1>1, <1>3, FetchIs DEF Sendable
  <2>2. Step(q)
    BY <1>8
  <2> HIDE DEF f
  <2>3. /\ q \in Console /\ q.reqs = f.reqs
        /\ q.list = f.list /\ q.diag = f.diag /\ q.detail = f.detail /\ q.ver = f.ver
        /\ q.editor = f.editor /\ q.saving = f.saving /\ q.dialog = f.dialog
    BY <2>1 DEF Console
  <2> HIDE DEF q
  <2>4. \A k \in {"list", "detail", "prompt"} : Live(q, k) \subseteq Live(console, k)
    BY <2>1, <2>3 DEF Live, RequestKinds
  <2>5. ShownOK(q, acked)
    BY <1>1, <2>1, <2>3, <2>4, ShownKept DEF SameButReqs
  <2>6. QED
    BY <1>4, <2>1, <2>2, <2>3, <2>5 DEF SameButReqs
<1>9. CASE ToggleInactive
  <2>1. PICK arg \in BOOLEAN : Step([Fetch(console, "diags", arg) EXCEPT !.all = ~@])
    <3>1. (~console.all) \in BOOLEAN
      OBVIOUS
    <3>2. Step([Fetch(console, "diags", ~console.all) EXCEPT !.all = ~@])
      BY <1>9 DEF ToggleInactive
    <3>3. QED
      BY <3>1, <3>2, Zenon
  <2> DEFINE f == Fetch(console, "diags", arg)
  <2>2. Step([f EXCEPT !.all = ~f.all]) /\ (~f.all) \in BOOLEAN
    BY <2>1
  <2> HIDE DEF f
  <2>3. PICK all \in BOOLEAN : Step([f EXCEPT !.all = all])
    BY <2>2, Zenon
  <2>4. QED
    BY <1>8, <2>3 DEF f
<1>10. CASE ReloadDiagnostics
  <2> DEFINE f == Fetch(console, "diags", console.all)
  <2>1. console.all \in BOOLEAN
    BY <1>1 DEF Console
  <2>2. f \in Console /\ f.all = console.all
    BY <1>1, <1>3, <2>1, FetchIs DEF Sendable, SameButReqs
  <2>3. Step(f)
    BY <1>10 DEF ReloadDiagnostics
  <2> HIDE DEF f
  <2>4. [f EXCEPT !.all = console.all] = f
    BY <2>2 DEF Console
  <2>5. QED
    BY <1>8, <2>1, <2>3, <2>4 DEF f
<1>11. CASE ReloadVersions
  <2> DEFINE q == ListEffect(console)
  <2>1. /\ q \in Console /\ ListOK(q, acked) /\ SameChoice(q, console) /\ q.ver = console.ver
        /\ q.detail = console.detail /\ q.editor = console.editor
        /\ \A k \in {"detail", "prompt"} : Live(q, k) = Live(console, k)
    BY <1>1, <1>3, ListEffectIs
  <2>2. Step(q)
    BY <1>11 DEF ReloadVersions
  <2> HIDE DEF q
  <2>3. DetailOK(q, acked) /\ PromptOK(q)
    BY <1>1, <2>1, DetailKept, PromptKept DEF ShownOK
  <2>4. ShownOK(q, acked)
    BY <1>1, <2>1, <2>3 DEF ShownOK, ChoiceOK, SameChoice
  <2>5. QED
    BY <1>4, <2>1, <2>2, <2>4 DEF SameChoice
<1>12. CASE ReloadDetail
  <2> DEFINE q == DetailEffect(console)
  <2>1. /\ q \in Console /\ DetailOK(q, acked) /\ SameChoice(q, console) /\ q.ver = console.ver
        /\ q.list = console.list /\ q.editor = console.editor
        /\ \A k \in {"list", "prompt"} : Live(q, k) = Live(console, k)
        /\ q.detail.loading \/ q.detail.data.id = 0
    BY <1>1, <1>3, DetailEffectIs
  <2>2. Step(q)
    BY <1>12 DEF ReloadDetail
  <2> HIDE DEF q
  <2>3. ListOK(q, acked) /\ PromptOK(q)
    BY <1>1, <2>1, ListKept, PromptKept DEF ShownOK, SameChoice
  <2>4. ShownOK(q, acked)
    BY <1>1, <2>1, <2>3 DEF ShownOK, ChoiceOK, SameChoice
  <2>5. QED
    BY <1>4, <2>1, <2>2, <2>4 DEF SameChoice
<1>13. QED
  BY <1>5, <1>6, <1>7, <1>9, <1>10, <1>11, <1>12 DEF Selecting

\* What becomes of the server besides, the page is that of the selection.
LEMMA WriteIs ==
    ASSUME NEW q, db' \in Table, acked' \in [Versions -> 0 .. MaxRevision],
           Knows(db', acked'), console' = q, q \in Console, PageOK(q, acked')
    PROVE  ConsoleInv'
BY DEF ConsoleInv, ConsoleTypeOK, AckedInv, Knows

\* A write that succeeds closes its part of the page and reloads.
LEMMA ReloadedIs ==
    ASSUME ConsoleInv, NEW p \in Console, SaveOK(p), DialogOK(p),
           p.list = console.list, p.diag = console.diag, p.ver = console.ver,
           p.reqs = console.reqs,
           db' \in Table, acked' \in [Versions -> 0 .. MaxRevision], Knows(db', acked'),
           console' = ReloadBoth(p)
    PROVE  ConsoleInv'
<1>1. EntriesOK(p) /\ ChoiceOK(p) /\ PromptsOK(p)
  BY DEF ConsoleInv, PageOK, ShownOK, ListOK, EntriesOK, ChoiceOK, PromptOK, PromptsOK, Live
<1> DEFINE q == ReloadBoth(p)
<1>2. /\ q \in Console /\ SameChoice(q, p) /\ ShownOK(q, acked')
      /\ q.list.of \in {p.list.of, p.diag} /\ Live(q, "diags") = Live(p, "diags")
  BY <1>1, ReloadBothIs
<1>3. console' = q
  OBVIOUS
<1> HIDE DEF q
<1>4. SaveOK(q) /\ DialogOK(q)
  BY <1>2 DEF SaveOK, DialogOK, SameChoice
<1>5. QED
  BY <1>2, <1>3, <1>4, WriteIs DEF PageOK

\* A step that touches neither what is shown nor the requests.
LEMMA AsideIs ==
    ASSUME ConsoleInv, NEW q \in Console, SaveOK(q), DialogOK(q),
           q.list = console.list, q.diag = console.diag, q.detail = console.detail,
           q.ver = console.ver, q.editor = console.editor, q.reqs = console.reqs,
           db' \in Table, acked' = acked, Knows(db', acked), console' = q
    PROVE  ConsoleInv'
<1>1. ShownOK(console, acked) /\ acked \in [Versions -> 0 .. MaxRevision]
  BY DEF ConsoleInv, ConsoleTypeOK, PageOK
<1>2. \A k : Live(q, k) = Live(console, k)
  BY DEF Live
<1>3. ShownOK(q, acked)
  BY <1>1, <1>2, ShownKept
<1>4. QED
  BY <1>1, <1>3, WriteIs DEF PageOK

\* Starting and ending a save leaves the rest of the page.
LEMMA SavingIs ==
    ASSUME NEW p \in Console, DialogOK(p), NEW v \in Versions \cup {0},
           NEW of \in Versions \cup {Nil}, of \in {Nil, v}
    PROVE  /\ [p EXCEPT !.saving = [ver |-> v, of |-> of]] \in Console
           /\ SaveOK([p EXCEPT !.saving = [ver |-> v, of |-> of]])
           /\ DialogOK([p EXCEPT !.saving = [ver |-> v, of |-> of]])
<1> DEFINE q == [p EXCEPT !.saving = [ver |-> v, of |-> of]]
<1>1. /\ q \in Console /\ q.saving.ver = v /\ q.saving.of = of /\ q.list = p.list
      /\ q.diag = p.diag /\ q.dialog = p.dialog /\ q.reqs = p.reqs
  BY DEF Console
<1> HIDE DEF q
<1>2. SaveOK(q) /\ DialogOK(q)
  BY <1>1 DEF SaveOK, DialogOK, Live
<1>3. QED
  BY <1>1, <1>2 DEF q

LEMMA SaveStep ==
    ASSUME ConsoleInv, SavePrompt \/ SaveSucceeds \/ SaveFails
    PROVE  ConsoleInv'
<1>1. /\ console \in Console /\ PageOK(console, acked) /\ SaveOK(console)
      /\ DialogOK(console) /\ PromptOK(console)
  BY DEF ConsoleInv, ConsoleTypeOK, PageOK, ShownOK
<1>2. EmptyConsole.saving = [ver |-> 0, of |-> Nil]
  BY DEF EmptyConsole
<1>3. CASE SavePrompt
  <2> DEFINE of == console.editor.of
             q == [console EXCEPT !.saving = [ver |-> console.ver, of |-> of]]
  <2>1. /\ console.ver \in Versions /\ of \in Versions \cup {Nil} /\ of \in {Nil, console.ver}
    BY <1>1, <1>3 DEF SavePrompt, Console, PromptOK
  <2>2. q \in Console /\ SaveOK(q) /\ DialogOK(q)
    BY <1>1, <2>1, SavingIs
  <2>3. Step(q)
    BY <1>3 DEF SavePrompt
  <2>4. /\ q.list = console.list /\ q.diag = console.diag /\ q.detail = console.detail
        /\ q.ver = console.ver /\ q.editor = console.editor /\ q.reqs = console.reqs
    BY <1>1 DEF Console
  <2> HIDE DEF q
  <2>5. db' \in Table /\ Knows(db', acked) /\ acked' = acked /\ console' = q
    BY <2>3, Unchanged DEF Step
  <2>6. QED
    BY <2>2, <2>4, <2>5, AsideIs
<1>4. CASE SaveSucceeds
  <2> DEFINE v == console.saving.ver
             p == [console EXCEPT !.saving = [ver |-> 0, of |-> Nil]]
             q == [p EXCEPT !.editor.of = v]
  <2>1. v \in Versions
    BY <1>1, <1>4 DEF SaveSucceeds, Console
  <2>2. Written(v, "draft") /\ Acknowledged(v)
    BY <1>4 DEF SaveSucceeds
  <2>3. console' = ReloadBoth(q)
    BY <1>1, <1>2, <1>4 DEF SaveSucceeds, Console
  <2>4. p \in Console /\ SaveOK(p) /\ DialogOK(p)
    BY <1>1, SavingIs
  <2>5. /\ p.list = console.list /\ p.diag = console.diag
        /\ p.ver = console.ver /\ p.reqs = console.reqs
    BY <1>1 DEF Console
  <2> HIDE DEF v, p
  <2>6. q = [p EXCEPT !.editor = [p.editor EXCEPT !.of = v]]
    BY <2>4 DEF Console
  <2>7. [p.editor EXCEPT !.of = v] \in [of : Versions \cup {Nil}, loading : BOOLEAN]
    BY <2>1, <2>4 DEF Console
  <2> HIDE DEF q
  <2>8. /\ q \in Console /\ q.list = p.list /\ q.diag = p.diag /\ q.ver = p.ver
        /\ q.reqs = p.reqs /\ q.saving = p.saving /\ q.dialog = p.dialog
    BY <2>4, <2>6, <2>7 DEF Console
  <2>9. SaveOK(q) /\ DialogOK(q)
    BY <2>4, <2>8 DEF SaveOK, DialogOK, Live
  <2>10. /\ db' \in Table /\ Knows(db', acked') /\ acked' \in [Versions -> 0 .. MaxRevision]
    BY <2>1, <2>2, AcknowledgedKnown
  <2>11. QED
    BY <2>3, <2>5, <2>8, <2>9, <2>10, ReloadedIs
<1>5. CASE SaveFails
  <2> DEFINE v == console.saving.ver
             q == [console EXCEPT !.saving = [ver |-> 0, of |-> Nil]]
  <2>1. v \in Versions
    BY <1>1, <1>5 DEF SaveFails, Console
  <2>2. NotAcknowledged(v, "draft") /\ console' = q
    BY <1>2, <1>5 DEF SaveFails
  <2>3. q \in Console /\ SaveOK(q) /\ DialogOK(q)
    BY <1>1, SavingIs
  <2>4. /\ q.list = console.list /\ q.diag = console.diag /\ q.detail = console.detail
        /\ q.ver = console.ver /\ q.editor = console.editor /\ q.reqs = console.reqs
    BY <1>1 DEF Console
  <2> HIDE DEF v, q
  <2>5. db' \in Table /\ Knows(db', acked) /\ acked' = acked
    BY <2>1, <2>2, NotAcknowledgedKnown
  <2>6. QED
    BY <2>2, <2>3, <2>4, <2>5, AsideIs
<1>6. QED
  BY <1>3, <1>4, <1>5

\* Starting and ending an import likewise.
LEMMA ImportingIs ==
    ASSUME NEW p \in Console, SaveOK(p), DialogOK(p), NEW v \in Versions \cup {0}
    PROVE  LET q == [p EXCEPT !.importing = v]
           IN /\ q \in Console /\ SaveOK(q) /\ DialogOK(q)
              /\ q.list = p.list /\ q.diag = p.diag /\ q.detail = p.detail
              /\ q.ver = p.ver /\ q.editor = p.editor /\ q.reqs = p.reqs
<1> DEFINE q == [p EXCEPT !.importing = v]
<1>1. /\ q \in Console /\ q.saving = p.saving /\ q.dialog = p.dialog
      /\ q.list = p.list /\ q.diag = p.diag /\ q.detail = p.detail
      /\ q.ver = p.ver /\ q.editor = p.editor /\ q.reqs = p.reqs
  BY DEF Console
<1> HIDE DEF q
<1>2. SaveOK(q) /\ DialogOK(q)
  BY <1>1 DEF SaveOK, DialogOK, Live
<1>3. QED
  BY <1>1, <1>2 DEF q

LEMMA ImportStep ==
    ASSUME ConsoleInv, ImportStructure \/ ImportSucceeds \/ ImportFails
    PROVE  ConsoleInv'
<1>1. /\ console \in Console /\ PageOK(console, acked) /\ SaveOK(console)
      /\ DialogOK(console) /\ ChoiceOK(console)
  BY DEF ConsoleInv, ConsoleTypeOK, PageOK, ShownOK
<1>2. CASE ImportStructure
  <2>1. console.ver \in Versions \cup {0}
    BY <1>1, <1>2 DEF ImportStructure, Console, ChoiceOK
  <2>2. Step([console EXCEPT !.importing = console.ver])
    BY <1>2 DEF ImportStructure
  <2>3. /\ db' \in Table /\ Knows(db', acked) /\ acked' = acked
        /\ console' = [console EXCEPT !.importing = console.ver]
    BY <2>2, Unchanged DEF Step
  <2>4. QED
    BY <1>1, <2>1, <2>3, ImportingIs, AsideIs
<1>3. CASE ImportSucceeds
  <2>1. console.importing \in Versions
    BY <1>1, <1>3 DEF ImportSucceeds, Console
  <2>2. /\ Written(console.importing, "draft") /\ Acknowledged(console.importing)
        /\ console' = ReloadBoth([console EXCEPT !.importing = 0])
    BY <1>3 DEF ImportSucceeds
  <2>3. /\ db' \in Table /\ Knows(db', acked') /\ acked' \in [Versions -> 0 .. MaxRevision]
    BY <2>1, <2>2, AcknowledgedKnown
  <2>4. QED
    BY <1>1, <2>2, <2>3, ImportingIs, ReloadedIs
<1>4. CASE ImportFails
  <2>1. console.importing \in Versions
    BY <1>1, <1>4 DEF ImportFails, Console
  <2>2. /\ NotAcknowledged(console.importing, "draft")
        /\ console' = [console EXCEPT !.importing = 0]
    BY <1>4 DEF ImportFails
  <2>3. db' \in Table /\ Knows(db', acked) /\ acked' = acked
    BY <2>1, <2>2, NotAcknowledgedKnown
  <2>4. QED
    BY <1>1, <2>2, <2>3, ImportingIs, AsideIs
<1>5. QED
  BY <1>2, <1>3, <1>4

\* The dialog opens over the list of the selected diagnostic, and posts a version of it.
LEMMA DialogIs ==
    ASSUME NEW p \in Console, SaveOK(p), DialogOK(p),
           NEW at \in {"closed", "open", "posting"}, NEW v \in Versions \cup {0},
           at # "closed" => p.list.of = p.diag /\ Live(p, "diags") = {},
           at = "posting" => v \in Versions /\ DiagnosticOf[v] = p.diag
    PROVE  LET q == [p EXCEPT !.dialog = [at |-> at, ver |-> v]]
           IN /\ q \in Console /\ SaveOK(q) /\ DialogOK(q)
              /\ q.list = p.list /\ q.diag = p.diag /\ q.detail = p.detail
              /\ q.ver = p.ver /\ q.editor = p.editor /\ q.reqs = p.reqs
<1> DEFINE q == [p EXCEPT !.dialog = [at |-> at, ver |-> v]]
<1>1. /\ q \in Console /\ q.saving = p.saving /\ q.dialog.at = at /\ q.dialog.ver = v
      /\ q.list = p.list /\ q.diag = p.diag /\ q.detail = p.detail
      /\ q.ver = p.ver /\ q.editor = p.editor /\ q.reqs = p.reqs
  BY DEF Console
<1> HIDE DEF q
<1>2. SaveOK(q) /\ DialogOK(q)
  BY <1>1 DEF SaveOK, DialogOK, Live
<1>3. QED
  BY <1>1, <1>2 DEF q

LEMMA FinalizeStep ==
    ASSUME ConsoleInv,
           \/ OpenFinalize \/ CancelFinalize \/ ConfirmFinalize
           \/ FinalizeSucceeds \/ FinalizeFails
    PROVE  ConsoleInv'
<1> DEFINE With(at, v) == [console EXCEPT !.dialog = [at |-> at, ver |-> v]]
<1>1. /\ console \in Console /\ PageOK(console, acked) /\ SaveOK(console)
      /\ DialogOK(console) /\ ListOK(console, acked) /\ EntriesOK(console)
  BY DEF ConsoleInv, ConsoleTypeOK, PageOK, ShownOK, ListOK
<1>2. console.dialog.ver \in Versions \cup {0}
  BY <1>1 DEF Console
<1>3. \A at : [console EXCEPT !.dialog.at = at] = With(at, console.dialog.ver)
  BY <1>1 DEF Console
<1>4. Drafts(console) \subseteq DOMAIN console.list.entries /\ Drafts(console) \subseteq Versions
  BY <1>1, FirstDraftIs DEF Drafts
<1>5. CASE OpenFinalize
  <2>1. console.list.of = console.diag /\ Live(console, "diags") = {}
    BY <1>1, <1>5 DEF OpenFinalize, LoadingDiags, ListOK
  <2>2. Step(With("open", console.dialog.ver))
    BY <1>3, <1>5 DEF OpenFinalize
  <2>3. /\ db' \in Table /\ Knows(db', acked) /\ acked' = acked
        /\ console' = With("open", console.dialog.ver)
    BY <2>2, Unchanged DEF Step
  <2>4. QED
    BY <1>1, <1>2, <2>1, <2>3, DialogIs, AsideIs
<1>6. CASE CancelFinalize
  <2>1. Step(With("closed", console.dialog.ver))
    BY <1>3, <1>6 DEF CancelFinalize
  <2>2. /\ db' \in Table /\ Knows(db', acked) /\ acked' = acked
        /\ console' = With("closed", console.dialog.ver)
    BY <2>1, Unchanged DEF Step
  <2>3. QED
    BY <1>1, <1>2, <2>2, DialogIs, AsideIs
<1>7. CASE ConfirmFinalize
  <2>1. console.list.of = console.diag /\ Live(console, "diags") = {}
    BY <1>1, <1>7 DEF ConfirmFinalize, DialogOK
  <2>2. console.ver \in Versions /\ DiagnosticOf[console.ver] = console.diag
    BY <1>1, <1>4, <1>7, <2>1 DEF ConfirmFinalize, EntriesOK
  <2>3. Step(With("posting", console.ver))
    BY <1>7 DEF ConfirmFinalize
  <2>4. /\ db' \in Table /\ Knows(db', acked) /\ acked' = acked
        /\ console' = With("posting", console.ver)
    BY <2>3, Unchanged DEF Step
  <2>5. QED
    BY <1>1, <2>1, <2>2, <2>4, DialogIs, AsideIs
<1>8. CASE FinalizeSucceeds
  <2>1. console.dialog.ver \in Versions
    BY <1>1, <1>8 DEF FinalizeSucceeds, DialogOK
  <2>2. /\ Written(console.dialog.ver, "finalized") /\ Acknowledged(console.dialog.ver)
        /\ console' = ReloadBoth(With("closed", 0))
    BY <1>8 DEF FinalizeSucceeds, EmptyConsole
  <2>3. /\ db' \in Table /\ Knows(db', acked') /\ acked' \in [Versions -> 0 .. MaxRevision]
    BY <2>1, <2>2, AcknowledgedKnown
  <2>4. QED
    BY <1>1, <2>2, <2>3, DialogIs, ReloadedIs
<1>9. CASE FinalizeFails
  <2>1. /\ console.dialog.ver \in Versions
        /\ console.list.of = console.diag /\ Live(console, "diags") = {}
    BY <1>1, <1>9 DEF FinalizeFails, DialogOK
  <2>2. /\ NotAcknowledged(console.dialog.ver, "finalized")
        /\ console' = With("open", 0)
    BY <1>9 DEF FinalizeFails
  <2>3. db' \in Table /\ Knows(db', acked) /\ acked' = acked
    BY <2>1, <2>2, NotAcknowledgedKnown
  <2>4. QED
    BY <1>1, <2>1, <2>2, <2>3, DialogIs, AsideIs
<1>10. QED
  BY <1>5, <1>6, <1>7, <1>8, <1>9

\* What an answer brings: nothing, or what the server read for it before or now.
LEMMA ValueIs ==
    ASSUME ConsoleInv, NEW r \in console.reqs, r.live,
           NEW value \in {NothingFor(r.kind), r.early, ReadFor(db, r.kind, r.arg)}
    PROVE  /\ r.kind \in RequestKinds
           /\ r.kind = "diags" => value \in SUBSET Diagnostics
           /\ r.kind = "list" =>
                /\ r.arg = console.diag /\ value \in Listed /\ ListUpToDate(value, acked)
                /\ \A v \in DOMAIN value : DiagnosticOf[v] = r.arg
           /\ r.kind = "detail" =>
                value \in Detail /\ value.id \in {0, console.ver} /\ DetailUpToDate(value, acked)
           /\ r.kind = "prompt" => value \in Versions \cup {Nil} /\ value \in {Nil, console.ver}
<1>1. /\ db \in Table /\ console \in Console /\ ShownOK(console, acked)
      /\ \A v \in Versions : db[v].rev >= acked[v]
  BY DEF ConsoleInv, ConsoleTypeOK, PageOK, AckedInv
<1>2. r \in Requests /\ r \in Live(console, r.kind)
  BY <1>1 DEF Console, Live
<1>3. r.kind \in RequestKinds
  BY <1>2 DEF Requests, RequestKinds
<1>4. CASE r.kind = "diags"
  <2>1. r.arg \in BOOLEAN /\ r.early \in SUBSET Diagnostics
    BY <1>2, <1>4 DEF Requests
  <2>2. NothingFor(r.kind) \in SUBSET Diagnostics /\ ReadFor(db, r.kind, r.arg) \in SUBSET Diagnostics
    BY <1>1, <1>4, <2>1, NothingIs, AnswerReadIs
  <2>3. QED
    BY <1>3, <1>4, <2>1, <2>2
<1>5. CASE r.kind = "list"
  <2>1. r.arg \in Diagnostics /\ r.early \in Listed
    BY <1>2, <1>5 DEF Requests
  <2>2. /\ r.arg = console.diag /\ ListUpToDate(r.early, acked)
        /\ \A v \in DOMAIN r.early : DiagnosticOf[v] = r.arg
    BY <1>1, <1>2, <1>5 DEF ShownOK, ListOK
  <2>3. /\ NoVersions \in Listed /\ ListUpToDate(NoVersions, acked)
        /\ \A v \in DOMAIN NoVersions : DiagnosticOf[v] = r.arg
    BY Nowhere DEF ListUpToDate
  <2>4. /\ ReadFor(db, "list", r.arg) \in Listed /\ ListUpToDate(ReadFor(db, "list", r.arg), acked)
        /\ \A v \in DOMAIN ReadFor(db, "list", r.arg) : DiagnosticOf[v] = r.arg
    BY <1>1, <2>1, AnswerReadIs DEF ListUpToDate
  <2>5. value \in {NoVersions, r.early, ReadFor(db, "list", r.arg)}
    BY <1>5, NothingIs
  <2>6. QED
    BY <1>3, <1>5, <2>1, <2>2, <2>3, <2>4, <2>5
<1>6. CASE r.kind = "detail"
  <2>1. r.arg \in Versions /\ r.early \in Detail
    BY <1>2, <1>6 DEF Requests
  <2>2. r.arg = console.ver /\ r.early.id \in {0, console.ver} /\ DetailUpToDate(r.early, acked)
    BY <1>1, <1>2, <1>6 DEF ShownOK, DetailOK
  <2>3. NoDetail \in Detail /\ NoDetail.id = 0 /\ DetailUpToDate(NoDetail, acked)
    BY Nowhere DEF NoDetail, DetailUpToDate
  <2>4. /\ ReadFor(db, "detail", r.arg) \in Detail /\ ReadFor(db, "detail", r.arg).id = r.arg
        /\ DetailUpToDate(ReadFor(db, "detail", r.arg), acked)
    BY <1>1, <2>1, AnswerReadIs DEF DetailUpToDate
  <2>5. value \in {NoDetail, r.early, ReadFor(db, "detail", r.arg)}
    BY <1>6, NothingIs
  <2>6. QED
    BY <1>3, <1>6, <2>1, <2>2, <2>3, <2>4, <2>5
<1>7. CASE r.kind = "prompt"
  <2>1. r.arg \in Versions /\ r.early \in Versions \cup {Nil}
    BY <1>2, <1>7 DEF Requests
  <2>2. r.arg = console.ver /\ r.early \in {Nil, console.ver}
    BY <1>1, <1>2, <1>7 DEF ShownOK, PromptOK, PromptsOK
  <2>3. value \in {Nil, r.early, r.arg}
    BY <1>1, <1>7, <2>1, NothingIs, AnswerReadIs
  <2>4. QED
    BY <1>3, <1>7, <2>1, <2>2, <2>3
<1>8. QED
  BY <1>3, <1>4, <1>5, <1>6, <1>7 DEF RequestKinds

LEMMA ConsoleAnswerStep ==
    ASSUME ConsoleInv, NEW r \in console.reqs, RequestAnswered(r)
    PROVE  ConsoleInv'
<1> DEFINE p == [console EXCEPT !.reqs = console.reqs \ {r}]
<1>1. /\ console \in Console /\ ShownOK(console, acked) /\ SaveOK(console) /\ DialogOK(console)
  BY DEF ConsoleInv, ConsoleTypeOK, PageOK
<1>2. db' = db /\ db' \in Table /\ Knows(db', acked) /\ acked' = acked
  BY Unchanged DEF RequestAnswered
<1>3. PICK value \in {NothingFor(r.kind), r.early, ReadFor(db, r.kind, r.arg)} :
          console' = Applied(p, r, value)
  BY DEF RequestAnswered
<1>4. /\ p \in Console /\ p.reqs = console.reqs \ {r} /\ p.diags = console.diags
      /\ SameButReqs(p, console)
  BY <1>1 DEF Console, SameButReqs
<1> HIDE DEF p
<1>5. \A k : Live(p, k) \subseteq Live(console, k)
  BY <1>4 DEF Live
<1>6. ShownOK(p, acked)
  BY <1>1, <1>4, <1>5, ShownKept DEF SameButReqs
<1>7. SaveOK(p) /\ DialogOK(p)
  BY <1>1, <1>4, <1>5 DEF SaveOK, DialogOK, SameButReqs
<1>8. acked' \in [Versions -> 0 .. MaxRevision]
  BY <1>2 DEF ConsoleInv, ConsoleTypeOK
<1>9. ASSUME NEW q \in Console, ShownOK(q, acked), SaveOK(q), DialogOK(q), console' = q
      PROVE  ConsoleInv'
  BY <1>2, <1>8, <1>9, WriteIs DEF PageOK
<1>10. CASE ~r.live
  <2>1. console' = p
    BY <1>3, <1>10 DEF Applied
  <2>2. QED
    BY <1>4, <1>6, <1>7, <1>9, <2>1
<1>11. CASE r.live /\ r.kind = "diags"
  <2> DEFINE q == [p EXCEPT !.diags = value]
             e == DiagnosticEffect(q)
  <2>1. value \in SUBSET Diagnostics
    BY <1>11, ValueIs
  <2>2. /\ q \in Console /\ q.list = p.list /\ q.diag = p.diag /\ q.detail = p.detail
        /\ q.ver = p.ver /\ q.editor = p.editor /\ q.reqs = p.reqs
        /\ q.saving = p.saving /\ q.dialog = p.dialog
    BY <1>4, <2>1 DEF Console
  <2>3. console' = e
    BY <1>3, <1>11 DEF Applied
  <2> HIDE DEF q
  <2>4. ShownOK(q, acked)
    BY <1>6, <2>2, ShownKept DEF Live
  <2>5. e \in Console /\ SameWrites(e, q) /\ ShownOK(e, acked)
    BY <1>2, <2>2, <2>4, DiagnosticEffectIs
  <2> HIDE DEF e
  <2>6. r \in Live(console, "diags")
    BY <1>11 DEF Live
  <2>7. console.dialog.at = "closed"
    BY <1>1, <2>6 DEF DialogOK
  <2>8. e.dialog.at = "closed"
    BY <1>4, <2>2, <2>5, <2>7 DEF SameWrites, SameButReqs
  <2>9. SaveOK(e) /\ DialogOK(e)
    BY <1>7, <2>2, <2>5, <2>8 DEF SameWrites, SaveOK, DialogOK
  <2>10. QED
    BY <1>9, <2>3, <2>5, <2>9
<1>12. CASE r.live /\ r.kind = "list"
  <2> DEFINE list == [of |-> r.arg, entries |-> value, loading |-> FALSE]
             l == [p EXCEPT !.list = list]
             d == DraftEffect(l)
             e == PromptEffect(d)
  <2>1. /\ r.arg = console.diag /\ value \in Listed /\ ListUpToDate(value, acked)
        /\ \A v \in DOMAIN value : DiagnosticOf[v] = r.arg
    BY <1>12, ValueIs
  <2>2. console' = IF d.ver = p.ver THEN d ELSE e
    BY <1>3, <1>12 DEF Applied
  <2>3. list \in [of : Diagnostics \cup {Nil}, entries : Listed, loading : BOOLEAN]
    BY <1>1, <2>1 DEF Console
  <2>4. list.of = r.arg /\ list.entries = value /\ ~list.loading
    OBVIOUS
  <2> HIDE DEF list
  <2>5. /\ l \in Console /\ l.list = list /\ l.diag = p.diag /\ l.detail = p.detail
        /\ l.ver = p.ver /\ l.editor = p.editor /\ l.reqs = p.reqs
        /\ l.saving = p.saving /\ l.dialog = p.dialog
    BY <1>4, <2>3 DEF Console
  <2> HIDE DEF l
  <2>6. \A k : Live(l, k) = Live(p, k)
    BY <2>5 DEF Live
  <2>7. p.diag = console.diag
    BY <1>4 DEF SameButReqs
  <2>8. ListOK(l, acked)
    BY <1>6, <2>1, <2>4, <2>5, <2>6, <2>7 DEF ShownOK, ListOK, EntriesOK
  <2>9. DetailOK(l, acked) /\ PromptOK(l) /\ ChoiceOK(l)
    BY <1>6, <2>5, <2>6, DetailKept, PromptKept DEF ShownOK, ChoiceOK
  <2>10. SaveOK(l) /\ DialogOK(l)
    BY <1>7, <2>1, <2>4, <2>5, <2>6, <2>7 DEF SaveOK, DialogOK
  <2>11. /\ d \in Console /\ SameChoice(d, l) /\ d.list = l.list /\ d.editor = l.editor
         /\ \A k \in {"diags", "list", "prompt"} : Live(d, k) = Live(l, k)
         /\ \/ d = l
            \/ DetailOK(d, acked) /\ d.ver # l.ver /\ d.ver \in Versions
    BY <1>2, <2>5, DraftEffectIs
  <2> HIDE DEF d
  <2>12. CASE d = l
    <3>1. console' = l
      BY <2>2, <2>5, <2>12
    <3>2. ShownOK(l, acked)
      BY <2>8, <2>9 DEF ShownOK
    <3>3. QED
      BY <1>9, <2>5, <2>10, <3>1, <3>2
  <2>13. CASE d # l
    <3>1. DetailOK(d, acked) /\ d.ver # p.ver /\ d.ver \in Versions
      BY <2>5, <2>11, <2>13
    <3>2. /\ e \in Console /\ PromptOK(e) /\ SameChoice(e, d) /\ e.ver = d.ver
          /\ e.list = d.list /\ e.detail = d.detail
          /\ \A k \in {"diags", "list", "detail"} : Live(e, k) = Live(d, k)
      BY <1>2, <2>11, PromptEffectIs
    <3>3. console' = e
      BY <2>2, <3>1
    <3> HIDE DEF e
    <3>4. /\ SameChoice(e, l) /\ e.list = l.list /\ Live(e, "list") = Live(l, "list")
          /\ Live(e, "diags") = Live(l, "diags")
      BY <2>11, <3>2 DEF SameChoice
    <3>5. ListOK(e, acked)
      BY <2>8, <3>4, ListKept DEF SameChoice
    <3>6. DetailOK(e, acked)
      BY <3>1, <3>2, DetailKept
    <3>7. ChoiceOK(e)
      BY <3>1, <3>2, ConsoleAssumption DEF ChoiceOK
    <3>8. SaveOK(e) /\ DialogOK(e)
      BY <2>10, <3>4 DEF SaveOK, DialogOK, SameChoice
    <3>9. QED
      BY <1>9, <3>2, <3>3, <3>5, <3>6, <3>7, <3>8 DEF ShownOK
  <2>14. QED
    BY <2>12, <2>13
<1>13. CASE r.live /\ r.kind = "detail"
  <2> DEFINE detail == [data |-> value, loading |-> FALSE]
             d == [p EXCEPT !.detail = detail]
             e == PromptEffect(d)
  <2>1. value \in Detail /\ value.id \in {0, console.ver} /\ DetailUpToDate(value, acked)
    BY <1>13, ValueIs
  <2>2. console' = e
    BY <1>3, <1>13 DEF Applied
  <2>3. detail \in [data : Detail, loading : BOOLEAN] /\ detail.data = value
    BY <2>1
  <2> HIDE DEF detail
  <2>4. /\ d \in Console /\ d.detail = detail /\ d.list = p.list /\ d.diag = p.diag
        /\ d.ver = p.ver /\ d.reqs = p.reqs
        /\ d.saving = p.saving /\ d.dialog = p.dialog
    BY <1>4, <2>3 DEF Console
  <2> HIDE DEF d
  <2>5. \A k : Live(d, k) = Live(p, k)
    BY <2>4 DEF Live
  <2>6. p.ver = console.ver
    BY <1>4 DEF SameButReqs
  <2>7. DetailOK(d, acked)
    BY <1>6, <2>1, <2>3, <2>4, <2>5, <2>6 DEF ShownOK, DetailOK
  <2>8. /\ e \in Console /\ PromptOK(e) /\ SameChoice(e, d) /\ e.ver = d.ver
        /\ e.list = d.list /\ e.detail = d.detail
        /\ \A k \in {"diags", "list", "detail"} : Live(e, k) = Live(d, k)
    BY <1>2, <2>4, PromptEffectIs
  <2> HIDE DEF e
  <2>9. ListOK(e, acked)
    BY <1>6, <2>4, <2>5, <2>8, ListKept DEF ShownOK, SameChoice
  <2>10. DetailOK(e, acked)
    BY <2>7, <2>8, DetailKept
  <2>11. ChoiceOK(e) /\ SaveOK(e) /\ DialogOK(e)
    BY <1>6, <1>7, <2>4, <2>5, <2>8 DEF ShownOK, ChoiceOK, SaveOK, DialogOK, SameChoice
  <2>12. QED
    BY <1>9, <2>2, <2>8, <2>9, <2>10, <2>11 DEF ShownOK
<1>14. CASE r.live /\ r.kind = "prompt"
  <2> DEFINE editor == [of |-> value, loading |-> FALSE]
             e == [p EXCEPT !.editor = editor]
  <2>1. value \in Versions \cup {Nil} /\ value \in {Nil, console.ver}
    BY <1>14, ValueIs
  <2>2. console' = e
    BY <1>3, <1>14 DEF Applied
  <2>3. editor \in [of : Versions \cup {Nil}, loading : BOOLEAN] /\ editor.of = value
    BY <2>1
  <2> HIDE DEF editor
  <2>4. /\ e \in Console /\ e.editor = editor /\ e.list = p.list /\ e.diag = p.diag
        /\ e.ver = p.ver /\ e.detail = p.detail /\ e.reqs = p.reqs
        /\ e.saving = p.saving /\ e.dialog = p.dialog
    BY <1>4, <2>3 DEF Console
  <2> HIDE DEF e
  <2>5. \A k : Live(e, k) = Live(p, k)
    BY <2>4 DEF Live
  <2>6. p.ver = console.ver
    BY <1>4 DEF SameButReqs
  <2>7. PromptOK(e)
    BY <1>6, <2>1, <2>3, <2>4, <2>5, <2>6 DEF ShownOK, PromptOK, PromptsOK
  <2>8. ListOK(e, acked) /\ DetailOK(e, acked)
    BY <1>6, <2>4, <2>5, ListKept, DetailKept DEF ShownOK
  <2>9. ChoiceOK(e) /\ SaveOK(e) /\ DialogOK(e)
    BY <1>6, <1>7, <2>4, <2>5 DEF ShownOK, ChoiceOK, SaveOK, DialogOK
  <2>10. QED
    BY <1>9, <2>2, <2>4, <2>7, <2>8, <2>9 DEF ShownOK
<1>15. QED
  BY <1>3, <1>10, <1>11, <1>12, <1>13, <1>14, ValueIs DEF RequestKinds

LEMMA ConsoleServerStep ==
    ASSUME ConsoleInv, NEW v \in Versions, CreateVersion(v) \/ OtherAdmin(v)
    PROVE  ConsoleInv'
<1>1. acked' = acked /\ console' = console
  BY DEF CreateVersion, OtherAdmin
<1>2. PICK status \in {"draft", "finalized"} : Stored(v, status)
  BY DEF CreateVersion, OtherAdmin, Written
<1>3. db' \in Table /\ Knows(db', acked)
  BY <1>2, StoredKnown
<1>4. QED
  BY <1>1, <1>3 DEF ConsoleInv, ConsoleTypeOK, AckedInv, Knows

LEMMA ConsoleStart ==
    ASSUME ConsoleInit
    PROVE  ConsoleInv
<1> DEFINE request == Request(db, "diags", FALSE)
           list == [of |-> Nil, entries |-> NoVersions, loading |-> FALSE]
           detail == [data |-> NoDetail, loading |-> FALSE]
<1>1. 0 \in 0 .. MaxRevision
  BY ConsoleAssumption
<1>2. \A v \in Versions : [status |-> IF v \in Existing0 THEN "draft" ELSE "none", rev |-> 0] \in Row
  BY <1>1 DEF Row
<1>3. /\ db \in Table /\ acked \in [Versions -> 0 .. MaxRevision]
      /\ \A v \in Versions : db[v].rev = 0 /\ acked[v] = 0
  BY <1>1, <1>2 DEF ConsoleInit, Table
<1>4. request \in Requests /\ request.kind = "diags"
  <2>1. ASSUME NEW arg \in BOOLEAN
        PROVE  Request(db, "diags", arg) \in Requests /\ Request(db, "diags", arg).kind = "diags"
    BY <1>3, RequestIs
  <2>2. QED
    BY <2>1, Zenon
<1>5. /\ list \in [of : Diagnostics \cup {Nil}, entries : Listed, loading : BOOLEAN]
      /\ detail \in [data : Detail, loading : BOOLEAN]
  BY Nowhere
<1> HIDE DEF request
<1>6. console =
        [diags |-> {}, all |-> FALSE, diag |-> Nil, ver |-> Nil, list |-> list, detail |-> detail,
         editor |-> [of |-> Nil, loading |-> FALSE], saving |-> [ver |-> 0, of |-> Nil],
         importing |-> 0, dialog |-> [at |-> "closed", ver |-> 0], reqs |-> {request}]
  BY DEF ConsoleInit, EmptyConsole, request
<1>7. console \in Console
  BY <1>4, <1>5, <1>6 DEF Console
<1>8. \A k \in RequestKinds \ {"diags"} : Live(console, k) = {}
  BY <1>4, <1>6 DEF Live
<1>9. ListOK(console, acked) /\ DetailOK(console, acked)
  BY <1>6, <1>8, Nowhere DEF ListOK, EntriesOK, ListUpToDate, DetailOK, DetailUpToDate, NoDetail, RequestKinds
<1>10. PromptOK(console) /\ ChoiceOK(console) /\ SaveOK(console) /\ DialogOK(console)
  <2>1. /\ console.diag = Nil /\ console.editor.of = Nil /\ console.saving.of = Nil
        /\ console.dialog.at = "closed"
    BY <1>6
  <2>2. Live(console, "prompt") = {}
    BY <1>8 DEF RequestKinds
  <2>3. QED
    BY <2>1, <2>2 DEF PromptOK, PromptsOK, ChoiceOK, SaveOK, DialogOK
<1>11. AckedInv
  BY <1>3 DEF AckedInv
<1>12. QED
  BY <1>3, <1>7, <1>9, <1>10, <1>11 DEF ConsoleInv, ConsoleTypeOK, PageOK, ShownOK

LEMMA ConsoleStep ==
    ASSUME ConsoleInv, [ConsoleNext]_adminVars
    PROVE  ConsoleInv'
<1>1. CASE Selecting
  BY <1>1, SelectingStep
<1>2. CASE Editing
  BY <1>2, SaveStep, ImportStep, FinalizeStep DEF Editing
<1>3. CASE \E r \in console.reqs : RequestAnswered(r)
  BY <1>3, ConsoleAnswerStep
<1>4. CASE \E v \in Versions : CreateVersion(v) \/ OtherAdmin(v)
  BY <1>4, ConsoleServerStep
<1>5. CASE UNCHANGED adminVars
  BY <1>5 DEF adminVars, ConsoleInv, ConsoleTypeOK, AckedInv
<1>6. QED
  BY <1>1, <1>2, <1>3, <1>4, <1>5 DEF ConsoleNext

-----------------------------------------------------------------------------
(* What follows of it.                                                     *)

\* The page is of its types and, with what is on its way to it, of what is selected and of
\* what it was told of, whatever answers come in whatever order.
THEOREM ConsoleInvHolds == ConsoleSpec => []ConsoleInv
<1>1. ConsoleInit => ConsoleInv
  BY ConsoleStart
<1>2. ConsoleInv /\ [ConsoleNext]_adminVars => ConsoleInv'
  BY ConsoleStep
<1>3. QED
  BY <1>1, <1>2, PTL DEF ConsoleSpec

\* A hook that is not loading shows the diagnostic and the version that are selected, however
\* late the answers to what was selected before arrive.
THEOREM ShowsTheSelection == ConsoleSpec => []ShownIsSelected
<1>1. ConsoleInv => ShownIsSelected
  BY DEF ConsoleInv, PageOK, ShownOK, ListOK, DetailOK, ShownIsSelected
<1>2. QED
  BY <1>1, ConsoleInvHolds, PTL

\* A write the server acknowledged to the page is never missing from what a hook shows when
\* it is not loading, although it may still show an answer that was read before.
THEOREM ShowsItsOwnWrites == ConsoleSpec => []OwnWritesShown
<1>1. ConsoleInv => OwnWritesShown
  BY DEF ConsoleInv, PageOK, ShownOK, ListOK, ListUpToDate, DetailOK, DetailUpToDate, OwnWritesShown
<1>2. QED
  BY <1>1, ConsoleInvHolds, PTL

\* handleSave sends a version no other version's prompt, although the answer to a save may put
\* its text into the editor after another version was selected.
THEOREM SavesItsOwnText == ConsoleSpec => []SavedTextIsOwn
<1>1. ConsoleInv => SavedTextIsOwn
  BY DEF ConsoleInv, PageOK, SaveOK, SavedTextIsOwn
<1>2. QED
  BY <1>1, ConsoleInvHolds, PTL

\* The finalization that is posted, which cannot be undone, is of a version of the diagnostic
\* the admin has before them.
THEOREM FinalizesUnderItsDiagnostic == ConsoleSpec => []FinalizedUnderItsDiagnostic
<1>1. ConsoleInv => FinalizedUnderItsDiagnostic
  BY DEF ConsoleInv, PageOK, DialogOK, FinalizedUnderItsDiagnostic
<1>2. QED
  BY <1>1, ConsoleInvHolds, PTL

-----------------------------------------------------------------------------
(* The activation dialog.                                                  *)

ActivationSpec == ActivationInit /\ [][ActivationNext]_activationVars

\* The activations the page was told of are among those of the server.
ToldInv == \A d \in Diagnostics : told[d] <= released.active[d].nth

\* The inductive invariant.
ActivationInv == ActivationTypeOK /\ ActiveIsOwn /\ OwnActivationsShown /\ ToldInv

-----------------------------------------------------------------------------
\* The two values a list of active versions takes are lists.
LEMMA ListsAre ==
    ASSUME ActivationTypeOK
    PROVE  /\ released.active \in Lists
           /\ [d \in {} |-> NeverActive] \in Lists
<1>1. released.active \in [Diagnostics -> Entry]
  BY DEF ActivationTypeOK, Released
<1>2. [d \in {} |-> NeverActive] \in [{} -> Entry]
  OBVIOUS
<1>3. QED
  BY <1>1, <1>2 DEF Lists

\* The activations are numbered.
LEMMA NumbersAre ==
    ASSUME ActivationTypeOK
    PROVE  \A d \in Diagnostics : told[d] \in Nat /\ released.active[d].nth \in Nat
<1> SUFFICES ASSUME NEW d \in Diagnostics
             PROVE  told[d] \in Nat /\ released.active[d].nth \in Nat
  OBVIOUS
<1>1. told[d] \in 0 .. MaxActivations /\ released.active[d] \in Entry
  BY DEF ActivationTypeOK, Released
<1>2. QED
  BY <1>1, ActivationAssumption DEF Entry

\* What a list shows are entries.
LEMMA ListEntries == \A list \in Lists : \A d \in DOMAIN list : list[d] \in Entry
<1> SUFFICES ASSUME NEW list \in Lists, NEW d \in DOMAIN list PROVE list[d] \in Entry
  OBVIOUS
<1>1. PICK D \in {{}, Diagnostics} : list \in [D -> Entry]
  BY DEF Lists
<1>2. QED
  BY <1>1

\* The options of a diagnostic are options.
LEMMA OptionsAre == \A d : OptionsOf(d) \in Options
<1>1. \A d : {w \in Versions : DiagnosticOf[w] = d} \in SUBSET Versions
  OBVIOUS
<1>2. \A d : OptionsOf(d) \in [{w \in Versions : DiagnosticOf[w] = d} -> BOOLEAN]
  BY DEF OptionsOf
<1>3. QED
  BY <1>1, <1>2 DEF Options

\* What is offered are versions.
LEMMA OfferedAre == \A options \in Options : Offered(options) \subseteq Versions
<1> SUFFICES ASSUME NEW options \in Options PROVE Offered(options) \subseteq Versions
  OBVIOUS
<1>1. PICK V \in SUBSET Versions : options \in [V -> BOOLEAN]
  BY DEF Options
<1>2. QED
  BY <1>1 DEF Offered

\* The server's part of an activation: a new active version, one of the diagnostic and
\* finalized, and one activation more.
LEMMA ActivatedStep ==
    ASSUME ActivationTypeOK, ActiveIsOwn, NEW v \in Versions, NEW d,
           Activatable(v, d), Activated(v, d)
    PROVE  /\ d \in Diagnostics
           /\ released' \in Released /\ ActiveIsOwn'
           /\ released'.active[d].nth = released.active[d].nth + 1
           /\ \A e \in Diagnostics : released.active[e].nth <= released'.active[e].nth
<1>1. d \in Diagnostics
  BY ActivationAssumption DEF Activatable
<1>2. /\ released \in Released
      /\ \A e \in Diagnostics : released.active[e] \in Entry /\ released.active[e].nth \in Nat
  BY ActivationAssumption DEF ActivationTypeOK, Released, Entry
<1>3. released' = [finalized |-> released.finalized,
                   active |-> [released.active EXCEPT ![d] =
                                 [ver |-> v, nth |-> released.active[d].nth + 1]]]
  BY <1>2 DEF Activated, Released
<1>4. released.active[d].nth + 1 \in 0 .. MaxActivations
  BY <1>1, <1>2, ActivationAssumption DEF Activated
<1>5. [ver |-> v, nth |-> released.active[d].nth + 1] \in Entry
  BY <1>4 DEF Entry
<1>6. released' \in Released
  BY <1>1, <1>2, <1>3, <1>5 DEF Released
<1>7. \A e \in Diagnostics : released'.active[e] =
          IF e = d THEN [ver |-> v, nth |-> released.active[d].nth + 1] ELSE released.active[e]
  BY <1>2, <1>3 DEF Released
<1>8. released'.finalized = released.finalized
  BY <1>3
<1>9. ActiveIsOwn'
  BY <1>7, <1>8 DEF ActiveIsOwn, Activatable
<1>10. QED
  BY <1>1, <1>2, <1>6, <1>7, <1>9

-----------------------------------------------------------------------------
\* The page's steps that leave the server, the list and what was told alone.
LEMMA DialogStep ==
    ASSUME ActivationInv,
           UNCHANGED <<released, told, shownList>>,
           openings' \subseteq Items,
           form' \in Forms
    PROVE  ActivationInv'
BY DEF ActivationInv, ActivationTypeOK, ActiveIsOwn, OwnActivationsShown, ToldInv

\* Opening, filling, choosing, closing and confirming.
LEMMA FormStep ==
    ASSUME ActivationInv,
           \/ \E d \in Diagnostics : OpenDialog(d)
           \/ \E item \in openings : DialogFilled(item) \/ FillingFails(item)
           \/ \E v \in Versions : ChooseOption(v)
           \/ CloseDialog \/ ConfirmActivation
    PROVE  ActivationInv'
<1>1. openings \subseteq Items /\ form \in Forms
  BY DEF ActivationInv, ActivationTypeOK
<1>2. CASE \E d \in Diagnostics : OpenDialog(d)
  <2>1. PICK d \in Diagnostics : OpenDialog(d)
    BY <1>2
  <2> DEFINE item == [diag |-> d, active |-> shownList.items[d].ver]
  <2>2. shownList.items[d] \in Entry
    <3>1. shownList.items \in Lists /\ d \in DOMAIN shownList.items
      BY <2>1 DEF OpenDialog, ActivationInv, ActivationTypeOK
    <3>2. QED
      BY <3>1, ListEntries
  <2>3. item \in Items
    BY <2>2 DEF Items, Entry
  <2>4. form' = [form EXCEPT !.item = item, !.loading = TRUE] /\ openings' = openings \cup {item}
    BY <2>1 DEF OpenDialog
  <2>5. UNCHANGED <<released, told, shownList>>
    BY <2>1 DEF OpenDialog
  <2> HIDE DEF item
  <2>6. QED
    BY <1>1, <2>3, <2>4, <2>5, DialogStep DEF Forms
<1>3. CASE \E item \in openings : DialogFilled(item) \/ FillingFails(item)
  <2>1. PICK item \in openings : DialogFilled(item) \/ FillingFails(item)
    BY <1>3
  <2>2. CASE DialogFilled(item)
    <3>1. item.active \in Versions \cup {0}
      BY <1>1 DEF Items
    <3>2. OptionsOf(item.diag) \in Options
      BY OptionsAre
    <3>3. FirstChoices(item, OptionsOf(item.diag)) \subseteq Versions \cup {0}
      BY <3>1, <3>2, OfferedAre DEF FirstChoices
    <3>4. PICK first \in Versions \cup {0} :
             form' = [form EXCEPT !.options = OptionsOf(item.diag), !.loading = FALSE, !.selected = first]
      BY <2>2, <3>3 DEF DialogFilled
    <3>5. openings' \subseteq openings /\ UNCHANGED <<released, told, shownList>>
      BY <2>2 DEF DialogFilled
    <3>6. QED
      BY <1>1, <3>2, <3>4, <3>5, DialogStep DEF Forms
  <2>3. CASE FillingFails(item)
    BY <1>1, <2>3, DialogStep DEF FillingFails, Forms
  <2>4. QED
    BY <2>1, <2>2, <2>3
<1>4. CASE \E v \in Versions : ChooseOption(v)
  <2>1. PICK v \in Versions : ChooseOption(v)
    BY <1>4
  <2>2. QED
    BY <1>1, <2>1, DialogStep DEF ChooseOption, Forms
<1>5. CASE CloseDialog
  <2>1. [v \in {} |-> TRUE] \in Options
    BY DEF Options
  <2>2. QED
    BY <1>1, <1>5, <2>1, DialogStep DEF CloseDialog, ClosedForm, Forms
<1>6. CASE ConfirmActivation
  BY <1>1, <1>6, DialogStep DEF ConfirmActivation, Forms
<1>7. QED
  BY <1>2, <1>3, <1>4, <1>5, <1>6

\* Loading the list.
LEMMA ListStep ==
    ASSUME ActivationInv, ReloadActiveVersions \/ ActiveVersionsAnswered
    PROVE  ActivationInv'
<1>1. UNCHANGED <<released, told, form, openings>>
  BY DEF ReloadActiveVersions, ActiveVersionsAnswered
<1>2. /\ shownList' \in [items : Lists, loading : BOOLEAN]
      /\ \/ shownList'.loading = TRUE
         \/ shownList'.items = released.active
         \/ shownList'.items = [d \in {} |-> NeverActive]
  <2>1. CASE ReloadActiveVersions
    <3>1. shownList \in [items : Lists, loading : BOOLEAN]
      BY DEF ActivationInv, ActivationTypeOK
    <3>2. shownList' = [shownList EXCEPT !.loading = TRUE]
      BY <2>1 DEF ReloadActiveVersions, ReloadActive
    <3>3. shownList' = [items |-> shownList.items, loading |-> TRUE]
      BY <3>1, <3>2
    <3>4. shownList.items \in Lists
      BY <3>1
    <3>5. QED
      BY <3>3, <3>4
  <2>2. CASE ActiveVersionsAnswered
    <3>1. PICK list \in {released.active, [d \in {} |-> NeverActive]} :
             shownList' = [items |-> list, loading |-> FALSE]
      BY <2>2 DEF ActiveVersionsAnswered
    <3>2. list \in Lists
      BY ListsAre DEF ActivationInv
    <3>3. QED
      BY <3>1, <3>2
  <2>3. QED
    BY <2>1, <2>2
<1>3. ActivationTypeOK'
  BY <1>1, <1>2 DEF ActivationInv, ActivationTypeOK
<1>4. ActiveIsOwn' /\ ToldInv'
  BY <1>1 DEF ActivationInv, ActiveIsOwn, ToldInv
<1>5. \A d \in Diagnostics : told[d] \in Nat /\ released.active[d].nth \in Nat
  BY NumbersAre DEF ActivationInv
<1>6. DOMAIN released.active = Diagnostics
  BY DEF ActivationInv, ActivationTypeOK, Released
<1>7. OwnActivationsShown'
  BY <1>1, <1>2, <1>5, <1>6 DEF ActivationInv, OwnActivationsShown, ToldInv
<1>8. QED
  BY <1>3, <1>4, <1>7 DEF ActivationInv

\* An activation of this page or of another, or the finalizing of a version.
LEMMA DialogServerStep ==
    ASSUME ActivationInv,
           ActivationSucceeds \/ ActivationFails \/ \E v \in Versions : Release(v)
    PROVE  ActivationInv'
<1>1. told \in [Diagnostics -> 0 .. MaxActivations] /\ released \in Released
  BY DEF ActivationInv, ActivationTypeOK
<1>2. \A d \in Diagnostics : told[d] \in Nat /\ released.active[d].nth \in Nat
  BY NumbersAre DEF ActivationInv
<1>3. form.posted # 0 => form.posted \in Versions
  BY DEF ActivationInv, ActivationTypeOK, Forms
<1>4. CASE ActivationSucceeds
  <2> DEFINE d == form.item.diag
  <2>1. form.posted \in Versions /\ Activatable(form.posted, d) /\ Activated(form.posted, d)
    BY <1>3, <1>4 DEF ActivationSucceeds
  <2>2. /\ d \in Diagnostics
        /\ released' \in Released /\ ActiveIsOwn'
        /\ \A e \in Diagnostics : released.active[e].nth <= released'.active[e].nth
    BY <2>1, ActivatedStep DEF ActivationInv
  <2>3. released'.active[d] \in Entry
    BY <2>2 DEF Released
  <2>4. told' = [told EXCEPT ![d] = released'.active[d].nth]
    BY <1>4 DEF ActivationSucceeds
  <2>5. form' = ClosedForm /\ openings' = openings /\ shownList' = [shownList EXCEPT !.loading = TRUE]
    BY <1>4 DEF ActivationSucceeds
  <2> HIDE DEF d
  <2>6. told' \in [Diagnostics -> 0 .. MaxActivations]
    BY <2>2, <2>3, <2>4 DEF ActivationInv, ActivationTypeOK, Entry
  <2>7. [v \in {} |-> TRUE] \in Options
    BY DEF Options
  <2>8. ActivationTypeOK'
    BY <2>2, <2>5, <2>6, <2>7 DEF ActivationInv, ActivationTypeOK, ClosedForm, Forms
  <2>9. ToldInv'
    <3>1. \A e \in Diagnostics : released'.active[e].nth \in Nat
      BY <2>2, ActivationAssumption DEF Released, Entry
    <3>2. \A e \in Diagnostics : told'[e] = IF e = d THEN released'.active[d].nth ELSE told[e]
      BY <2>4 DEF ActivationInv, ActivationTypeOK
    <3>3. QED
      BY <1>2, <2>2, <3>1, <3>2 DEF ActivationInv, ToldInv
  <2>10. OwnActivationsShown'
    BY <2>5 DEF ActivationInv, ActivationTypeOK, OwnActivationsShown
  <2>11. QED
    BY <2>2, <2>8, <2>9, <2>10 DEF ActivationInv
<1>5. ASSUME /\ released' \in Released /\ ActiveIsOwn'
             /\ \A e \in Diagnostics : released.active[e].nth <= released'.active[e].nth
             /\ UNCHANGED <<told, shownList, openings>>
             /\ form' = form \/ form' = [form EXCEPT !.posted = 0]
      PROVE  ActivationInv'
  <2>1. ActivationTypeOK'
    BY <1>5 DEF ActivationInv, ActivationTypeOK, Forms
  <2>2. ToldInv'
    <3>1. \A e \in Diagnostics : released'.active[e].nth \in Nat
      BY <1>5, ActivationAssumption DEF Released, Entry
    <3>2. QED
      BY <1>2, <1>5, <3>1 DEF ActivationInv, ToldInv
  <2>3. OwnActivationsShown'
    BY <1>5 DEF ActivationInv, OwnActivationsShown
  <2>4. QED
    BY <1>5, <2>1, <2>2, <2>3 DEF ActivationInv
<1>6. released \in Released
  BY DEF ActivationInv, ActivationTypeOK
<1>7. CASE ActivationFails
  <2>1. CASE UNCHANGED released
    BY <1>2, <1>5, <1>6, <1>7, <2>1 DEF ActivationFails, ActivationInv, ActiveIsOwn
  <2>2. CASE Activatable(form.posted, form.item.diag) /\ Activated(form.posted, form.item.diag)
    BY <1>3, <1>5, <1>7, <2>2, ActivatedStep DEF ActivationFails, ActivationInv
  <2>3. QED
    BY <1>7, <2>1, <2>2 DEF ActivationFails
<1>8. ASSUME NEW v \in Versions, Release(v)
      PROVE  ActivationInv'
  <2>1. CASE released' = [released EXCEPT !.finalized = @ \cup {v}]
    <3>1. released' \in Released
      BY <1>6, <2>1 DEF Released
    <3>2. released'.active = released.active /\ released.finalized \subseteq released'.finalized
      BY <1>6, <2>1 DEF Released
    <3>3. ActiveIsOwn'
      BY <3>2 DEF ActivationInv, ActiveIsOwn
    <3>4. QED
      BY <1>2, <1>5, <1>8, <3>1, <3>2, <3>3 DEF Release
  <2>2. CASE Activatable(v, DiagnosticOf[v]) /\ Activated(v, DiagnosticOf[v])
    BY <1>5, <1>8, <2>2, ActivatedStep DEF Release, ActivationInv
  <2>3. QED
    BY <1>8, <2>1, <2>2 DEF Release
<1>9. QED
  BY <1>4, <1>7, <1>8

-----------------------------------------------------------------------------
\* The inductive invariant holds: the server's tables, the list and the dialog have their
\* types, and the page was told of no activation that the server does not have.
THEOREM ActivationInvHolds == ActivationSpec => []ActivationInv
<1>1. ActivationInit => ActivationInv
  <2> SUFFICES ASSUME ActivationInit PROVE ActivationInv
    OBVIOUS
  <2>1. [v \in {} |-> TRUE] \in Options
    BY DEF Options
  <2>2. [d \in {} |-> NeverActive] \in Lists
    <3>1. [d \in {} |-> NeverActive] \in [{} -> Entry]
      OBVIOUS
    <3>2. QED
      BY <3>1 DEF Lists
  <2>3. NeverActive \in Entry
    BY ActivationAssumption DEF NeverActive, Entry
  <2>4. ActivationTypeOK
    BY <2>1, <2>2, <2>3, ActivationAssumption
       DEF ActivationInit, ActivationTypeOK, ClosedForm, Released, Forms
  <2>5. QED
    BY <2>4 DEF ActivationInit, ActivationInv, ActiveIsOwn, OwnActivationsShown, ToldInv, NeverActive
<1>2. ActivationInv /\ [ActivationNext]_activationVars => ActivationInv'
  <2> SUFFICES ASSUME ActivationInv, [ActivationNext]_activationVars PROVE ActivationInv'
    OBVIOUS
  <2>1. CASE UNCHANGED activationVars
    BY <2>1 DEF activationVars, ActivationInv, ActivationTypeOK, ActiveIsOwn, OwnActivationsShown, ToldInv
  <2>2. CASE ActivationNext
    BY <2>2, FormStep, ListStep, DialogServerStep DEF ActivationNext
  <2>3. QED
    BY <2>1, <2>2
<1>3. QED
  BY <1>1, <1>2, PTL DEF ActivationSpec

\* Whatever dialogs are opened and closed while their options are loading, the active
\* version of a diagnostic is one of its own and finalized
\* (ActivateVersionCard.tsx:93-143, admin_diagnostics.py:811-823).
THEOREM ActiveOwnHolds == ActivationSpec => []ActiveIsOwn
<1>1. ActivationInv => ActiveIsOwn
  BY DEF ActivationInv
<1>2. QED
  BY <1>1, ActivationInvHolds, PTL

\* An activation that the page was told of is in its list once that is not loading
\* (ActivateVersionCard.tsx:170-175, useActiveVersions.ts:98-166).
THEOREM ActivationsShownHolds == ActivationSpec => []OwnActivationsShown
<1>1. ActivationInv => OwnActivationsShown
  BY DEF ActivationInv
<1>2. QED
  BY <1>1, ActivationInvHolds, PTL
=============================================================================
