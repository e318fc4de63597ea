---------------------------- MODULE OptionCatalog ----------------------------
(***************************************************************************)
(* The options of one question in the catalogue that all versions of a     *)
(* diagnostic share, and how an import brings them in line with its sheet: *)
(* by code, else by place, through dictionaries that the loop keeps next   *)
(* to the rows.  The catalogue is read in the snapshot of the request and  *)
(* written, under the lock of the diagnostic, over the rows of now.        *)
(***************************************************************************)
EXTENDS Naturals, Sequences, FiniteSets, Functions

CONSTANTS OptCodes, Orders,
          MaxRows,        \* rows of a sheet for the question
          MaxImports      \* different snapshots under way

ASSUME MaxRowsIsNat == MaxRows \in Nat

VARIABLES
    catalogue,   \* the rows of options, at their ids
    underWay     \* the snapshots of the imports that have not got the lock yet

catalogVars == <<catalogue, underWay>>

Rows == [code : OptCodes, order : Orders]
Sheets == UNION {[1 .. n -> Rows] : n \in 1 .. MaxRows}
NoOption == 0

CatalogInit == catalogue = <<>> /\ underWay = {}

-----------------------------------------------------------------------------
\* uq_options_code, uq_options_question_sort
Fits(db, id, row) ==
    \A i \in DOMAIN db \ {id} : db[i].code # row.code /\ db[i].order # row.order

\* What the ORM writes: the columns that differ from what it loaded or wrote last, in the
\* order of the ids; each statement meets the keys of the rows as they are by then.
Flushed(work) ==
    LET Column(id, c) == IF work.held[id][c] = work.loaded[id][c]
                         THEN work.db[id][c] ELSE work.held[id][c]
        Row(id) == [code |-> Column(id, "code"), order |-> Column(id, "order")]
        Below(n) == [i \in DOMAIN work.db |->
                       IF i \in DOMAIN work.held /\ i < n THEN Row(i) ELSE work.db[i]]
    IN [work EXCEPT !.db = Below(Len(work.db) + 1), !.loaded = work.held,
                    !.fails = @ \/ \E id \in DOMAIN work.held : ~Fits(Below(id), id, Row(id))]

\* The dictionaries after the rows have been loaded.
OptionsLoaded(db, snapshot) ==
    LET With(column, value) ==
          LET ids == {i \in DOMAIN snapshot : snapshot[i][column] = value}
          IN IF ids = {} THEN NoOption ELSE CHOOSE i \in ids : TRUE
    IN [db |-> db, loaded |-> snapshot, held |-> snapshot, fails |-> FALSE,
        byCode |-> [c \in OptCodes |-> With("code", c)],
        byOrder |-> [o \in Orders |-> With("order", o)]]

\* An option of this code: its place changes.
MovedTo(work, id, row) ==
    [work EXCEPT !.held[id].order = row.order,
                 !.byOrder = [@ EXCEPT ![work.held[id].order] = NoOption, ![row.order] = id]]

\* Mutation: the dictionary of codes keeps the old code.
RenamedBoth(work, id, row) ==
    [work EXCEPT !.held[id] = row, !.byCode = [@ EXCEPT ![row.code] = id]]

\* None, but one at this place: it gets the code.
Renamed(work, id, row) ==
    [work EXCEPT !.held[id] = row,
                 !.byCode = [@ EXCEPT ![work.held[id].code] = NoOption, ![row.code] = id]]

\* Neither: it is inserted, after what is pending has been written.
Inserted(work, row) ==
    LET flushed == Flushed(work)
        id == Len(work.db) + 1
        Known(rows) == [i \in DOMAIN rows \cup {id} |-> IF i = id THEN row ELSE rows[i]]
    IN [flushed EXCEPT !.db = Append(@, row), !.held = Known(@), !.loaded = Known(@),
                       !.fails = @ \/ ~Fits(flushed.db, id, row),
                       !.byCode[row.code] = id, !.byOrder[row.order] = id]

Upserted(work, row) ==
    CASE work.byCode[row.code] # NoOption -> MovedTo(work, work.byCode[row.code], row)
      [] work.byCode[row.code] = NoOption /\ work.byOrder[row.order] # NoOption ->
           Renamed(work, work.byOrder[row.order], row)
      [] OTHER -> Inserted(work, row)

\* The loop over the sheet: the rows and dictionaries after each round.
Rounds(db, snapshot, sheet) ==
    LET round[k \in 0 .. Len(sheet)] ==
          IF k = 0 THEN OptionsLoaded(db, snapshot) ELSE Upserted(round[k - 1], sheet[k])
    IN round

\* What an import makes of the catalogue db: the options of the sheet's rows are looked up
\* last, and a code that lost its option meanwhile, or stands twice in the sheet, fails.
Imported(db, snapshot, sheet) ==
    LET work == Rounds(db, snapshot, sheet)[Len(sheet)]
        end == Flushed(work)
        option == [i \in DOMAIN sheet |-> work.byCode[sheet[i].code]]
    IN [db |-> end.db, option |-> option,
        fails |-> \/ end.fails \/ NoOption \in Range(option)
                  \/ ~IsInjective([i \in DOMAIN sheet |-> sheet[i].code])]

\* The administrator is looked up, which takes the snapshot.
ImportBegins ==
    /\ Cardinality(underWay \cup {catalogue}) <= MaxImports
    /\ underWay' = underWay \cup {catalogue}
    /\ UNCHANGED catalogue

\* The import has the lock and runs to its commit, or is rolled back.
ImportEnds(snapshot, sheet) ==
    LET result == Imported(catalogue, snapshot, sheet) IN
    /\ catalogue' = IF result.fails THEN catalogue ELSE result.db
    /\ underWay' \in {underWay, underWay \ {snapshot}}

CatalogNext ==
    \/ ImportBegins
    \/ \E snapshot \in underWay, sheet \in Sheets : ImportEnds(snapshot, sheet)

-----------------------------------------------------------------------------
\* An import gives every row of its sheet an option of its own, whatever other imports it
\* did not see.  If it saw the catalogue as it is, these options then have the rows' codes
\* and places, options whose code and place the sheet does not name stay as they are, and
\* importing the sheet again succeeds and changes nothing (structure_importer.py:561-655,
\* issue/resolve/01_import_issue.md).
SheetIsShown ==
    \A snapshot \in underWay, sheet \in Sheets :
        LET result == Imported(catalogue, snapshot, sheet)
            again == Imported(result.db, result.db, sheet)
        IN ~result.fails =>
             /\ IsInjective(result.option)
             /\ snapshot = catalogue =>
                  /\ \A i \in DOMAIN sheet : result.db[result.option[i]] = sheet[i]
                  /\ \A i \in DOMAIN catalogue :
                       (\A r \in Range(sheet) : r.code # catalogue[i].code
                                               /\ r.order # catalogue[i].order)
                       => result.db[i] = catalogue[i]
                  /\ ~again.fails /\ again.db = result.db /\ again.option = result.option
=============================================================================
