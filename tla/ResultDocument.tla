--------------------------- MODULE ResultDocument ---------------------------
(***************************************************************************)
(* What becomes of the LLM's answer on its way to the result screen: it is *)
(* read out of the provider's response (result/parser.ts), sanitised for   *)
(* the snapshot (session/llmResult.ts), read again for the screen and      *)
(* shown as a ranking, a chart and the details of one candidate            *)
(* (ResultScreen.tsx).                                                     *)
(*                                                                         *)
(* An answer is a record: the field of the response that holds its text,   *)
(* the candidates of its JSON by their key, and the key of the one that    *)
(* cannot be read: the text ends inside it, or the response is in several  *)
(* parts and the line break that joins them falls into one of its strings. *)
(***************************************************************************)
EXTENDS Integers, Sequences, FiniteSets, FiniteSetsExt, Functions

CONSTANTS
    Keys,       \* the keys of the candidates in an answer, naturals
    Series,     \* ScoreKey: the scores of a candidate
    Candidates, \* what an answer says of a candidate: a name or Null, and scores, each an
                \* integer, Null or Missing
    Missing,    \* a score the answer leaves out
    Null        \* null

VARIABLES
    answer,     \* the raw result the server returned last, or Null
    result,     \* sessionResult: the sanitised result, or Null
    selected,   \* selectedId, a name, or Null
    opened,     \* accordionOpenId, a name, or Null
    visible,    \* visibleSeries
    modal       \* modalOpen

resultVars == <<answer, result, selected, opened, visible, modal>>

\* Raw results: at most one candidate is broken, -1 stands for none.
Answers ==
    UNION {{[holder |-> h, candidates |-> c, broken |-> b] :
               h \in {"text", "none"}, b \in D \cup {-1},
               c \in [D -> Candidates]} :
           D \in SUBSET Keys}

\* Sanitised results whose keys are D.
Documents(D) ==
    [D -> [name   : ({c.name : c \in Candidates} \cup Keys) \ {Null},
           scores : [Series -> (0 .. 100) \cup {Null}]]]

ASSUME ResultAssumption ==
    /\ IsFiniteSet(Keys) /\ Keys \subseteq Nat /\ Series # {}
    /\ \A c \in Candidates : c.scores \in [Series -> Int \cup {Missing, Null}]
    /\ Null \notin Int \cup {Missing} /\ Missing \notin Int
    /\ Null \notin Answers
    /\ \A D \in SUBSET (Keys \cup 1 .. Cardinality(Keys)) : Null \notin Documents(D)

-----------------------------------------------------------------------------
(* parser.ts and llmResult.ts.                                             *)

\* clampScore of a score: Number(null) is 0, Number(undefined) is not a number.
ClampScore(v) ==
    IF v = Missing THEN Null
    ELSE IF v = Null THEN 0
    ELSE IF v < 0 THEN 0 ELSE IF v > 100 THEN 100 ELSE v

\* The i-th of the keys in ascending order.
KeyAt(keys, i) == CHOOSE k \in keys : Cardinality({j \in keys : j < k}) = i - 1

\* buildRankingEntry: a candidate without a name gets the name of its rank, here the
\* rank itself.
RankingEntry(k, candidate) ==
    [rank   |-> k,
     name   |-> IF candidate.name = Null THEN k ELSE candidate.name,
     scores |-> [s \in Series |-> ClampScore(candidate.scores[s])]]

\* buildRankings: the candidates by ascending key.
BuildRankings(document) ==
    [i \in 1 .. Cardinality(DOMAIN document) |->
       LET k == KeyAt(DOMAIN document, i) IN RankingEntry(k, document[k])]

\* The document as a whole, or the blocks that recoverRankingDocument can close.
ReadableKeys(a) == DOMAIN a.candidates \ {a.broken}

\* extractContentText, extractJsonSnippet, parseRankingDocument, recoverRankingDocument.
ReadDocument(a) ==
    IF a.holder = "none" THEN <<>> ELSE Restrict(a.candidates, ReadableKeys(a))

\* normaliseLlmResult of a provider's response.
NormaliseAnswer(a) == BuildRankings(ReadDocument(a))

\* Mutation: a ranking is stored under its place instead of its rank.
SanitiseByPlace(a) ==
    LET rankings == NormaliseAnswer(a)
    IN IF rankings = <<>> THEN Null
       ELSE [i \in DOMAIN rankings |-> [name |-> rankings[i].name, scores |-> rankings[i].scores]]

\* sanitizeSessionLlmResult: each ranking under its rank, or its place if that is 0; of
\* two under one key the later stays.
Sanitise(a) ==
    LET rankings == NormaliseAnswer(a)
        KeyOf(i) == IF rankings[i].rank > 0 THEN rankings[i].rank ELSE i
        keys == {KeyOf(i) : i \in DOMAIN rankings}
        Latest(k) == Max({i \in DOMAIN rankings : KeyOf(i) = k})
    IN IF rankings = <<>> THEN Null
       ELSE [k \in keys |-> [name |-> rankings[Latest(k)].name, scores |-> rankings[Latest(k)].scores]]

\* normaliseLlmResult of the sanitised result.
Rankings == IF result = Null THEN <<>> ELSE BuildRankings(result)

-----------------------------------------------------------------------------
(* ResultScreen.tsx.                                                       *)

RankedNames(rankings) == {rankings[i].name : i \in DOMAIN rankings}

\* Mutation: a selection is kept although the candidate is gone.
KeepSelectionStale(rankings, sel, open, mod) ==
    IF rankings = <<>>
    THEN opened' = Null /\ UNCHANGED selected /\ modal' = mod
    ELSE /\ selected' = IF sel # Null THEN sel ELSE rankings[1].name
         /\ opened' = IF open \in RankedNames(rankings) THEN open ELSE rankings[1].name
         /\ modal' = mod

\* The effect that keeps the selection within the rankings.
KeepSelection(rankings, sel, open, mod) ==
    IF rankings = <<>>
    THEN selected' = Null /\ opened' = Null /\ modal' = FALSE
    ELSE /\ selected' = IF sel \in RankedNames(rankings) THEN sel ELSE rankings[1].name
         /\ opened' = IF open \in RankedNames(rankings) THEN open ELSE rankings[1].name
         /\ modal' = mod

ResultInit ==
    /\ answer = Null /\ result = Null /\ selected = Null /\ opened = Null
    /\ visible = Series /\ modal = FALSE

\* The snapshot's result, or the one a poll returns, also in the place of the snapshot's;
\* or a poll that finds none yet.
ShowAnswer(a) ==
    /\ answer' = a
    /\ result' = Sanitise(a)
    /\ KeepSelection(IF Sanitise(a) = Null THEN <<>> ELSE BuildRankings(Sanitise(a)),
                     selected, opened, modal)
    /\ UNCHANGED visible

ShowNothing ==
    /\ answer # Null
    /\ answer' = Null /\ result' = Null
    /\ KeepSelection(<<>>, selected, opened, modal)
    /\ UNCHANGED visible

\* The accordion cannot be closed: without an open entry the effect opens the first.
ToggleReason(n) ==
    /\ n \in RankedNames(Rankings)
    /\ KeepSelection(Rankings, selected, IF opened = n THEN Null ELSE n, modal)
    /\ UNCHANGED <<answer, result, visible>>

\* The details of a candidate, from the accordion or from its bar in the chart.
SelectCandidate(n) ==
    /\ n \in RankedNames(Rankings)
    /\ selected' = n /\ modal' = TRUE
    /\ opened' \in {opened, n}
    /\ UNCHANGED <<answer, result, visible>>

CloseDetails ==
    /\ modal
    /\ modal' = FALSE
    /\ UNCHANGED <<answer, result, selected, opened, visible>>

\* handleToggleSeries keeps the last series.
ToggleSeries(s) ==
    LET next == SymDiff(visible, {s})
    IN /\ next # {}
       /\ visible' = next
       /\ UNCHANGED <<answer, result, selected, opened, modal>>

ResultNext ==
    \/ \E a \in Answers : ShowAnswer(a)
    \/ ShowNothing \/ CloseDetails
    \/ \E n \in RankedNames(Rankings) : ToggleReason(n) \/ SelectCandidate(n)
    \/ \E s \in Series : ToggleSeries(s)

\* chartRows: the length of each bar.
BarTotal(r) == FoldSet(LAMBDA s, sum : sum + (IF r.scores[s] = Null THEN 0 ELSE r.scores[s]), 0, visible)
ChartRows == IF visible = {} THEN <<>> ELSE [i \in DOMAIN Rankings |-> BarTotal(Rankings[i])]

-----------------------------------------------------------------------------
\* The way through the snapshot and back changes nothing: every candidate that can be
\* read is shown once, by its rank, with the scores it was given.  Two exceptions are in
\* the code: a candidate 0 takes the place of another, and a missing score is shown as 0.
RankingsAreTheAnswer ==
    answer # Null /\ 0 \notin DOMAIN answer.candidates =>
        /\ Len(Rankings) = Len(NormaliseAnswer(answer))
        /\ \A i \in DOMAIN Rankings :
             LET told == NormaliseAnswer(answer)[i] IN
             /\ Rankings[i].rank = told.rank /\ Rankings[i].name = told.name
             /\ \A s \in Series : told.scores[s] \in {Null, Rankings[i].scores[s]}
             /\ i > 1 => Rankings[i - 1].rank < Rankings[i].rank

\* What is selected is on the screen: details are open only for a candidate of the ranking,
\* and the chart has a row for each of them.
SelectionIsShown ==
    /\ selected \in RankedNames(Rankings) \cup {Null}
    /\ opened \in RankedNames(Rankings) \cup {Null}
    /\ modal => selected # Null
    /\ Len(ChartRows) = Len(Rankings)
=============================================================================
