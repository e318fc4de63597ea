----------------------- MODULE VisitorScreens_proofs -----------------------
(***************************************************************************)
(* Theorems about QuestionForm, for any questions and options, about       *)
(* ResultDocument, for any candidates, keys and scores, and about          *)
(* UiFeedback, for any toasts, any finite number of overlays and any       *)
(* minimum time.                                                           *)
(***************************************************************************)
EXTENDS QuestionForm, ResultDocument, UiFeedback, FiniteSetTheorems, SequenceTheorems,
        TLAPS

FormSpec == FormInit /\ [][FormNext]_formVars

-----------------------------------------------------------------------------
(* Sorting.  In a finite set that a relation orders strictly, the place of *)
(* an element is one more than the number of those before it.              *)

PlaceIn(A, R, q) == Cardinality({p \in A : <<p, q>> \in R}) + 1

StrictOrder(A, R) ==
    /\ \A p \in A : <<p, p>> \notin R
    /\ \A p, q \in A : p # q => <<p, q>> \in R \/ <<q, p>> \in R
    /\ \A o, p, q \in A : <<o, p>> \in R /\ <<p, q>> \in R => <<o, q>> \in R

\* Places follow the order, and each of them is that of exactly one element.
LEMMA PlacesAre ==
    ASSUME NEW A, IsFiniteSet(A), NEW R, StrictOrder(A, R)
    PROVE  /\ Cardinality(A) \in Nat
           /\ \A q \in A : PlaceIn(A, R, q) \in 1 .. Cardinality(A)
           /\ \A p, q \in A : <<p, q>> \in R => PlaceIn(A, R, p) < PlaceIn(A, R, q)
           /\ \A p, q \in A : PlaceIn(A, R, p) = PlaceIn(A, R, q) => p = q
           /\ \A i \in 1 .. Cardinality(A) : \E q \in A : PlaceIn(A, R, q) = i
<1> DEFINE B(q) == {p \in A : <<p, q>> \in R}
           n == Cardinality(A)
           place == [q \in A |-> PlaceIn(A, R, q)]
<1>1. n \in Nat
  BY FS_CardinalityType
<1>2. \A q \in A : IsFiniteSet(B(q)) /\ Cardinality(B(q)) \in Nat
  BY FS_Subset, FS_CardinalityType
<1>3. ASSUME NEW q \in A
      PROVE  PlaceIn(A, R, q) \in 1 .. n
  <2>1. B(q) \subseteq A \ {q}
    BY DEF StrictOrder
  <2>2. IsFiniteSet(A \ {q}) /\ Cardinality(A \ {q}) = n - 1
    BY FS_RemoveElement
  <2>3. PlaceIn(A, R, q) = Cardinality(B(q)) + 1
    BY DEF PlaceIn
  <2> HIDE DEF n, B
  <2>4. Cardinality(B(q)) =< Cardinality(A \ {q})
    BY ONLY <2>1, <2>2, FS_Subset
  <2>5. QED
    BY <1>1, <1>2, <2>2, <2>3, <2>4
<1>4. ASSUME NEW p \in A, NEW q \in A, <<p, q>> \in R
      PROVE  PlaceIn(A, R, p) < PlaceIn(A, R, q)
  <2>1. B(p) \subseteq B(q) /\ p \in B(q) /\ p \notin B(p)
    BY <1>4 DEF StrictOrder
  <2>2. B(p) \in SUBSET B(q) /\ B(p) # B(q)
    BY <2>1
  <2> HIDE DEF B
  <2>3. Cardinality(B(p)) < Cardinality(B(q))
    BY <1>2, <2>2, FS_Subset
  <2>4. PlaceIn(A, R, p) = Cardinality(B(p)) + 1 /\ PlaceIn(A, R, q) = Cardinality(B(q)) + 1
    BY DEF PlaceIn, B
  <2>5. QED
    BY <1>2, <2>3, <2>4
<1>5. \A p, q \in A : PlaceIn(A, R, p) = PlaceIn(A, R, q) => p = q
  <2> SUFFICES ASSUME NEW p \in A, NEW q \in A, p # q
               PROVE  PlaceIn(A, R, p) # PlaceIn(A, R, q)
    OBVIOUS
  <2>1. PlaceIn(A, R, p) \in Int /\ PlaceIn(A, R, q) \in Int
    BY <1>1, <1>3
  <2>2. <<p, q>> \in R \/ <<q, p>> \in R
    BY DEF StrictOrder
  <2>3. PlaceIn(A, R, p) < PlaceIn(A, R, q) \/ PlaceIn(A, R, q) < PlaceIn(A, R, p)
    BY <1>4, <2>2
  <2>4. QED
    BY <2>1, <2>3
<1>6. place \in Injection(A, 1 .. n)
  BY <1>3, <1>5 DEF Injection, IsInjective
<1>7. IsFiniteSet(1 .. n) /\ Cardinality(1 .. n) = n
  BY <1>1, FS_Interval
<1>8. place \in Surjection(A, 1 .. n)
  BY <1>6, <1>7, FS_Injection
<1>9. \A i \in 1 .. n : \E q \in A : PlaceIn(A, R, q) = i
  BY <1>8 DEF Surjection
<1>10. QED
  BY <1>1, <1>3, <1>4, <1>5, <1>9

-----------------------------------------------------------------------------
(* The order of the questions.                                             *)

\* What a form says of the order of its questions.
Ordered(r) == r.active \subseteq Questions /\ r.sort \in [Questions -> Int]

LEMMA ResponseIs ==
    ASSUME NEW r \in Responses
    PROVE  /\ Ordered(r) /\ r.multi \subseteq Questions /\ r.options \subseteq Choosable
           /\ IsFiniteSet(r.active)
<1>1. Ordered(r) /\ r.multi \subseteq Questions /\ r.options \subseteq Choosable
  <2>1. PICK s \in [Questions -> SortOrders], a \in SUBSET Questions, m \in {{}, Questions},
             o \in {Choosable \ Retired, Choosable} :
          r = [sort |-> s, active |-> a, multi |-> m, options |-> o]
    BY DEF Responses
  <2>2. s \in [Questions -> Int]
    BY FormAssumption
  <2>3. QED
    BY <2>1, <2>2 DEF Ordered
<1>2. QED
  BY <1>1, FormAssumption, FS_Subset DEF Ordered

LEMMA BeforeIs ==
    ASSUME NEW r, Ordered(r), NEW p \in r.active, NEW q \in r.active
    PROVE  /\ ~Before(r, p, p)
           /\ p # q => Before(r, p, q) \/ Before(r, q, p)
           /\ \A o \in r.active : Before(r, o, p) /\ Before(r, p, q) => Before(r, o, q)
<1>1. \A o \in r.active : o \in Int /\ r.sort[o] \in Int
  <2> SUFFICES ASSUME NEW o \in r.active PROVE o \in Int /\ r.sort[o] \in Int
    OBVIOUS
  <2>1. o \in Questions
    BY DEF Ordered
  <2>2. QED
    BY <2>1, FormAssumption DEF Ordered
<1>2. QED
  BY <1>1 DEF Before

\* Each place is that of exactly one question: the i-th of a sorted form is one question.
LEMMA PlaceIs ==
    ASSUME NEW r, Ordered(r), IsFiniteSet(r.active)
    PROVE  /\ Cardinality(r.active) \in Nat
           /\ \A q \in r.active : Place(r, q) \in 1 .. Cardinality(r.active)
           /\ \A p, q \in r.active : Place(r, p) = Place(r, q) => p = q
           /\ \A i \in 1 .. Cardinality(r.active) : \E q \in r.active : Place(r, q) = i
<1> DEFINE A == r.active
           R == {e \in A \X A : Before(r, e[1], e[2])}
<1>1. \A p, q \in A : <<p, q>> \in R <=> Before(r, p, q)
  OBVIOUS
<1> HIDE DEF R
<1>2. StrictOrder(A, R)
  BY <1>1, BeforeIs DEF StrictOrder
<1>3. ASSUME NEW q \in A
      PROVE  Place(r, q) = PlaceIn(A, R, q)
  <2>1. {p \in A : Before(r, p, q)} = {p \in A : <<p, q>> \in R}
    BY <1>1
  <2>2. QED
    BY <2>1 DEF Place, PlaceIn
<1>4. QED
  BY <1>2, <1>3, PlacesAre

-----------------------------------------------------------------------------
(* The form.                                                               *)

FormTypeOK ==
    /\ response \in {<<>>} \cup {<<r>> : r \in Responses}
    /\ choices \in [Questions -> SUBSET Choosable]
    /\ index \in Nat \ {0} /\ sent \subseteq Choosable

\* Only what the form shows is chosen, and one option where it takes one.
Answering(r, q) ==
    /\ choices[q] \subseteq ShownOptions(r, q)
    /\ q \notin r.active => choices[q] = {}
    /\ q \notin r.multi => \A o, p \in choices[q] : o = p

ChoicesInv ==
    /\ ~Loaded => sent = {} /\ \A q \in Questions : choices[q] = {}
    /\ Loaded => \A q \in Questions : Answering(response[1], q)

FormInv == FormTypeOK /\ ChoicesInv /\ NothingSkipped /\ SentIsComplete

LEMMA LoadedIs ==
    ASSUME FormTypeOK, Loaded
    PROVE  \E r \in Responses : response = <<r>> /\ response[1] = r
BY DEF FormTypeOK, Loaded

LEMMA CurrentIs ==
    ASSUME FormTypeOK, Shown
    PROVE  Current \in response[1].active /\ Place(response[1], Current) = index
<1>1. PICK r \in Responses : response[1] = r
  BY LoadedIs DEF Shown
<1>2. Ordered(r) /\ IsFiniteSet(r.active)
  BY ResponseIs
<1>3. index \in 1 .. Cardinality(r.active)
  BY <1>1, <1>2, PlaceIs DEF Shown, Total, FormTypeOK
<1>4. \E q \in r.active : Place(r, q) = index
  BY <1>2, <1>3, PlaceIs
<1>5. QED
  BY <1>1, <1>4 DEF Current

\* What was sent stays complete for the form it was sent for.
LEMMA SentKept ==
    ASSUME SentIsComplete, response' = response, sent' = sent
    PROVE  SentIsComplete'
BY DEF SentIsComplete, ShownOptions

LEMMA ToggleStep ==
    ASSUME FormInv, NEW o \in Choosable, ToggleOption(o)
    PROVE  FormInv'
<1> DEFINE c == Current
<1>1. PICK r \in Responses : response = <<r>> /\ response[1] = r
  BY LoadedIs DEF FormInv, ToggleOption, Shown
<1>2. c \in r.active /\ c \in Questions /\ Place(r, c) = index
  BY <1>1, ResponseIs, CurrentIs DEF FormInv, ToggleOption, Ordered
<1>3. /\ o \in ShownOptions(r, c) /\ response' = response /\ index' = index /\ sent' = sent
      /\ choices \in [Questions -> SUBSET Choosable] /\ Loaded /\ Loaded'
  BY <1>1 DEF ToggleOption, FormInv, FormTypeOK, Shown, Loaded
<1>4. Answering(r, c)
  BY <1>1, <1>2, <1>3 DEF FormInv, ChoicesInv
<1>5. choices' = [choices EXCEPT ![c] =
                    IF o \in choices[c] THEN choices[c] \ {o}
                    ELSE IF c \in r.multi THEN choices[c] \cup {o} ELSE {o}]
  BY <1>1 DEF ToggleOption
<1> HIDE DEF c
<1>6. PICK chosen \in SUBSET ShownOptions(r, c) :
        /\ choices' = [choices EXCEPT ![c] = chosen]
        /\ c \notin r.multi => \A a, b \in chosen : a = b
  <2>1. CASE o \in choices[c]
    BY <1>3, <1>4, <1>5, <2>1 DEF Answering
  <2>2. CASE o \notin choices[c] /\ c \in r.multi
    BY <1>3, <1>4, <1>5, <2>2 DEF Answering
  <2>3. CASE o \notin choices[c] /\ c \notin r.multi
    <3>1. {o} \in SUBSET ShownOptions(r, c) /\ \A a, b \in {o} : a = b
      BY <1>3
    <3>2. choices' = [choices EXCEPT ![c] = {o}]
      BY <1>5, <2>3
    <3>3. QED
      BY <3>1, <3>2
  <2>4. QED
    BY <2>1, <2>2, <2>3
<1>7. ShownOptions(r, c) \subseteq Choosable
  BY <1>2, FormAssumption DEF ShownOptions
<1>8. /\ choices' \in [Questions -> SUBSET Choosable] /\ choices'[c] = chosen
      /\ \A q \in Questions \ {c} : choices'[q] = choices[q]
  BY <1>2, <1>3, <1>6, <1>7
<1>9. FormTypeOK'
  BY <1>3, <1>8 DEF FormInv, FormTypeOK
<1>10. \A q \in Questions : Answering(r, q)'
  BY <1>1, <1>2, <1>3, <1>6, <1>8 DEF FormInv, ChoicesInv, Answering, ShownOptions
<1>11. ChoicesInv'
  BY <1>1, <1>3, <1>10 DEF ChoicesInv, Answering
<1>12. NothingSkipped'
  <2> SUFFICES ASSUME Shown', NEW q \in r.active, Place(r, q) < index
               PROVE  choices'[q] # {}
    BY <1>1, <1>3 DEF NothingSkipped, Place, Before
  <2>1. Shown
    BY <1>3 DEF Shown, Loaded, Total
  <2>2. q # c /\ q \in Questions
    BY <1>1, <1>2, ResponseIs, PlaceIs DEF Ordered
  <2>3. choices[q] # {}
    BY <1>1, <2>1 DEF FormInv, NothingSkipped
  <2>4. QED
    BY <1>8, <2>2, <2>3
<1>13. QED
  BY <1>3, <1>9, <1>11, <1>12, SentKept DEF FormInv

\* The buttons that turn to another question.
LEMMA TurnStep ==
    ASSUME FormInv, GoPrevious \/ GoNext
    PROVE  FormInv'
<1>1. PICK r \in Responses : response = <<r>> /\ response[1] = r
  BY LoadedIs DEF FormInv, GoPrevious, GoNext, Shown
<1>2. /\ response' = response /\ choices' = choices /\ sent' = sent /\ Shown
      /\ Loaded /\ Loaded'
  BY <1>1 DEF GoPrevious, GoNext, Shown, Loaded
<1>3. index' \in Nat \ {0}
  BY DEF GoPrevious, GoNext, FormInv, FormTypeOK
<1>4. FormTypeOK' /\ ChoicesInv'
  BY <1>2, <1>3 DEF FormInv, FormTypeOK, ChoicesInv, Answering, ShownOptions
<1>5. ASSUME NEW q \in r.active, Place(r, q) < index'
      PROVE  choices[q] # {}
  <2>1. /\ Ordered(r) /\ IsFiniteSet(r.active) /\ Place(r, q) \in Nat
        /\ index \in Nat
    BY ResponseIs, PlaceIs DEF FormInv, FormTypeOK
  <2>2. CASE Place(r, q) < index
    BY <1>1, <1>2, <2>2 DEF FormInv, NothingSkipped
  <2>3. CASE ~(Place(r, q) < index)
    <3>1. GoNext /\ Place(r, q) = index
      BY <1>5, <2>1, <2>3 DEF GoPrevious, GoNext
    <3>2. Current \in r.active /\ Place(r, Current) = index
      BY <1>1, <1>2, CurrentIs DEF FormInv
    <3>3. q = Current
      BY <2>1, <3>1, <3>2, PlaceIs
    <3>4. QED
      BY <3>1, <3>3 DEF GoNext
  <2>4. QED
    BY <2>2, <2>3
<1>6. NothingSkipped'
  BY <1>1, <1>2, <1>5 DEF NothingSkipped, Place, Before
<1>7. QED
  BY <1>2, <1>4, <1>6, SentKept DEF FormInv

\* The last question is answered, and so is every question before it: the submission finds
\* none that is not.
LEMMA AllAnswered ==
    ASSUME FormInv, SubmitForm
    PROVE  Unanswered(response[1], choices) = {}
<1>1. PICK r \in Responses : response[1] = r
  BY LoadedIs DEF FormInv, SubmitForm, Shown
<1>2. Ordered(r) /\ IsFiniteSet(r.active)
  BY ResponseIs
<1>3. Shown /\ index = Cardinality(r.active) /\ choices[Current] # {}
  BY <1>1 DEF SubmitForm, Total
<1>4. ASSUME NEW q \in r.active
      PROVE  choices[q] # {}
  <2>1. Place(r, q) \in 1 .. index /\ index \in Nat
    BY <1>2, <1>3, PlaceIs
  <2>2. CASE Place(r, q) = index
    <3>1. Current \in r.active /\ Place(r, Current) = index
      BY <1>1, <1>3, CurrentIs DEF FormInv
    <3>2. q = Current
      BY <1>2, <2>2, <3>1, PlaceIs
    <3>3. QED
      BY <1>3, <3>2
  <2>3. CASE Place(r, q) < index
    BY <1>1, <1>3, <2>3 DEF FormInv, NothingSkipped
  <2>4. QED
    BY <2>1, <2>2, <2>3
<1>5. QED
  BY <1>1, <1>4 DEF Unanswered

LEMMA FormSubmitStep ==
    ASSUME FormInv, SubmitForm
    PROVE  FormInv'
<1>1. PICK r \in Responses : response = <<r>> /\ response[1] = r
  BY LoadedIs DEF FormInv, SubmitForm, Shown
<1>2. /\ Ordered(r) /\ r.active \subseteq Questions
  BY ResponseIs DEF Ordered
<1>3. /\ response' = response /\ choices' = choices /\ index' = index
      /\ sent' = UNION {choices[q] : q \in Questions} /\ Loaded
  BY AllAnswered DEF SubmitForm, Shown
<1>4. \A q \in Questions : Answering(r, q) /\ choices[q] \subseteq Choosable
  BY <1>1, <1>3 DEF FormInv, FormTypeOK, ChoicesInv
<1>5. \A o : o \in sent' <=> \E q \in Questions : o \in choices[q]
  BY <1>3
<1>6. FormTypeOK'
  BY <1>3, <1>4, <1>5 DEF FormInv, FormTypeOK
<1>7. ChoicesInv' /\ NothingSkipped'
  <2>1. \A q \in Questions : Answering(r, q)'
    BY <1>3, <1>4 DEF Answering
  <2>2. ChoicesInv'
    BY <1>1, <1>3, <2>1 DEF ChoicesInv, Loaded
  <2>3. NothingSkipped'
    BY <1>3 DEF FormInv, NothingSkipped, Shown, Loaded, Total, Place
  <2>4. QED
    BY <2>2, <2>3
<1>8. ASSUME NEW q \in r.active
      PROVE  /\ sent' \cap ShownOptions(r, q) # {}
             /\ q \notin r.multi => Cardinality(sent' \cap OptionsFor[q]) = 1
  <2>1. choices[q] # {} /\ choices[q] \subseteq ShownOptions(r, q) /\ q \in Questions
    BY <1>1, <1>2, <1>4, AllAnswered DEF Unanswered, Answering
  <2>2. PICK o : o \in choices[q]
    BY <2>1
  <2>3. o \in sent' \cap ShownOptions(r, q)
    BY <1>5, <2>1, <2>2
  <2>4. ASSUME q \notin r.multi
        PROVE  sent' \cap OptionsFor[q] = {o}
    <3>1. ASSUME NEW p \in sent' \cap OptionsFor[q]
          PROVE  p = o
      <4>1. PICK s \in Questions : p \in choices[s]
        BY <1>5
      <4>2. p \in OptionsFor[s]
        BY <1>4, <4>1 DEF Answering, ShownOptions
      <4>3. s = q
        BY <2>1, <3>1, <4>2, FormAssumption
      <4>4. QED
        BY <1>4, <2>1, <2>2, <2>4, <4>1, <4>3 DEF Answering
    <3>2. QED
      BY <2>3, <3>1 DEF ShownOptions
  <2>5. QED
    BY <2>3, <2>4, FS_Singleton
<1>9. sent' \subseteq UNION {ShownOptions(r, q) : q \in r.active}
  <2> SUFFICES ASSUME NEW o \in sent' PROVE \E q \in r.active : o \in ShownOptions(r, q)
    OBVIOUS
  <2>1. PICK q \in Questions : o \in choices[q]
    BY <1>5
  <2>2. QED
    BY <1>4, <2>1 DEF Answering
<1>10. SentIsComplete'
  BY <1>1, <1>3, <1>8, <1>9 DEF SentIsComplete, ShownOptions
<1>11. QED
  BY <1>6, <1>7, <1>10 DEF FormInv

LEMMA LoadStep ==
    ASSUME FormInv, NEW r \in Responses, LoadForm(r)
    PROVE  FormInv'
<1>1. /\ response' = <<r>> /\ choices' = choices /\ sent' = {} /\ index' = 1
      /\ \A q \in Questions : choices[q] = {}
  BY DEF LoadForm, InitialIndex, FormInv, ChoicesInv
<1>2. FormTypeOK' /\ SentIsComplete'
  BY <1>1 DEF FormInv, FormTypeOK, SentIsComplete
<1>3. ChoicesInv'
  BY <1>1 DEF ChoicesInv, Loaded, Answering
<1>4. ASSUME NEW q \in r.active
      PROVE  ~(Place(r, q) < 1)
  <2>1. Place(r, q) \in 1 .. Cardinality(r.active)
    BY ResponseIs, PlaceIs
  <2>2. QED
    BY <2>1
<1>5. NothingSkipped'
  BY <1>1, <1>4 DEF NothingSkipped, Place, Before
<1>6. QED
  BY <1>2, <1>3, <1>5 DEF FormInv

\* The invariant of the form: what is chosen is an answer to a question it shows, and what
\* was passed is answered.
THEOREM FormInvHolds == FormSpec => []FormInv
<1>1. FormInit => FormInv
  BY DEF FormInit, FormInv, FormTypeOK, ChoicesInv, Loaded, NothingSkipped, Shown, SentIsComplete
<1>2. ASSUME FormInv, [FormNext]_formVars
      PROVE  FormInv'
  <2>1. CASE \E r \in Responses : LoadForm(r)
    BY <1>2, <2>1, LoadStep
  <2>2. CASE \E o \in Choosable : ToggleOption(o)
    BY <1>2, <2>2, ToggleStep
  <2>3. CASE GoPrevious \/ GoNext
    BY <1>2, <2>3, TurnStep
  <2>4. CASE SubmitForm
    BY <1>2, <2>4, FormSubmitStep
  <2>5. CASE NextSession
    <3>1. /\ response' = <<>> /\ index' = 1 /\ sent' = {}
          /\ choices' = [q \in Questions |-> {}]
      BY <2>5 DEF NextSession
    <3>2. QED
      BY <3>1 DEF FormInv, FormTypeOK, ChoicesInv, Loaded, NothingSkipped, Shown, SentIsComplete
  <2>6. CASE UNCHANGED formVars
    <3>1. response' = response /\ choices' = choices /\ index' = index /\ sent' = sent
      BY <2>6 DEF formVars
    <3>2. FormTypeOK' /\ ChoicesInv'
      BY <1>2, <3>1 DEF FormInv, FormTypeOK, ChoicesInv, Loaded, Answering, ShownOptions
    <3>3. NothingSkipped'
      BY <1>2, <3>1 DEF FormInv, NothingSkipped, Shown, Loaded, Total, Place, Before
    <3>4. QED
      BY <1>2, <3>1, <3>2, <3>3, SentKept DEF FormInv
  <2>7. QED
    BY <1>2, <2>1, <2>2, <2>3, <2>4, <2>5, <2>6 DEF FormNext
<1>3. QED
  BY <1>1, <1>2, PTL DEF FormSpec

\* Whatever is undone on the way, no question before the one shown is without an answer, so
\* that handleSubmit never has to warn of one.
THEOREM SkipsNothing == FormSpec => []NothingSkipped
<1>1. FormInv => NothingSkipped
  BY DEF FormInv
<1>2. QED
  BY <1>1, FormInvHolds, PTL

\* Every submission answers every question of the form out of the options it shows.
THEOREM SendsAllAnswers == FormSpec => []SentIsComplete
<1>1. FormInv => SentIsComplete
  BY DEF FormInv
<1>2. QED
  BY <1>1, FormInvHolds, PTL

-----------------------------------------------------------------------------
(* The ranking.                                                            *)

ResultSpec == ResultInit /\ [][ResultNext]_resultVars

\* The keys in ascending order: each of them has one index.
LEMMA KeyAtIs ==
    ASSUME NEW D, IsFiniteSet(D), D \subseteq Nat
    PROVE  /\ Cardinality(D) \in Nat
           /\ \A i \in 1 .. Cardinality(D) : KeyAt(D, i) \in D
           /\ \A i, j \in 1 .. Cardinality(D) : i < j => KeyAt(D, i) < KeyAt(D, j)
           /\ \A k \in D : \E i \in 1 .. Cardinality(D) : KeyAt(D, i) = k
<1> DEFINE R == {e \in D \X D : e[1] < e[2]}
<1>1. \A j, k \in D : <<j, k>> \in R <=> j < k
  OBVIOUS
<1>2. StrictOrder(D, R)
  BY <1>1 DEF StrictOrder
<1>3. ASSUME NEW k \in D
      PROVE  /\ Cardinality({j \in D : j < k}) \in Nat
             /\ PlaceIn(D, R, k) = Cardinality({j \in D : j < k}) + 1
  <2>1. {j \in D : j < k} = {j \in D : <<j, k>> \in R}
    BY <1>1
  <2>2. IsFiniteSet({j \in D : j < k})
    BY FS_Subset
  <2>3. QED
    BY <2>1, <2>2, FS_CardinalityType DEF PlaceIn
<1> HIDE DEF R
<1>4. /\ Cardinality(D) \in Nat
      /\ \A k \in D : PlaceIn(D, R, k) \in 1 .. Cardinality(D)
      /\ \A j, k \in D : <<j, k>> \in R => PlaceIn(D, R, j) < PlaceIn(D, R, k)
      /\ \A j, k \in D : PlaceIn(D, R, j) = PlaceIn(D, R, k) => j = k
      /\ \A i \in 1 .. Cardinality(D) : \E k \in D : PlaceIn(D, R, k) = i
  <2>1. IsFiniteSet(D)
    OBVIOUS
  <2>2. QED
    BY ONLY <1>2, <2>1, PlacesAre
<1>5. ASSUME NEW i \in 1 .. Cardinality(D)
      PROVE  KeyAt(D, i) \in D /\ PlaceIn(D, R, KeyAt(D, i)) = i
  <2>1. PICK k \in D : PlaceIn(D, R, k) = i
    BY <1>4
  <2>2. Cardinality({j \in D : j < k}) \in Nat /\ i = Cardinality({j \in D : j < k}) + 1
    BY <1>3, <2>1
  <2>3. Cardinality({j \in D : j < k}) = i - 1
    BY <2>2
  <2>4. KeyAt(D, i) \in D /\ Cardinality({j \in D : j < KeyAt(D, i)}) = i - 1
    BY <2>3, Zenon DEF KeyAt
  <2>5. PlaceIn(D, R, KeyAt(D, i)) = (i - 1) + 1
    BY <1>3, <2>4
  <2>6. QED
    BY <2>4, <2>5
<1>6. ASSUME NEW i \in 1 .. Cardinality(D), NEW j \in 1 .. Cardinality(D), i < j
      PROVE  KeyAt(D, i) < KeyAt(D, j)
  <2>1. ~ KeyAt(D, j) < KeyAt(D, i)
    <3>1. ASSUME <<KeyAt(D, j), KeyAt(D, i)>> \in R
          PROVE  FALSE
      <4>1. PlaceIn(D, R, KeyAt(D, j)) < PlaceIn(D, R, KeyAt(D, i))
        BY <1>4, <1>5, <3>1
      <4>2. QED
        BY <1>5, <1>6, <4>1
    <3>2. QED
      BY <1>1, <1>5, <3>1
  <2>2. KeyAt(D, i) # KeyAt(D, j)
    BY <1>5, <1>6
  <2>3. KeyAt(D, i) \in Nat /\ KeyAt(D, j) \in Nat
    BY <1>5
  <2>4. QED
    BY <2>1, <2>2, <2>3
<1>7. ASSUME NEW k \in D
      PROVE  \E i \in 1 .. Cardinality(D) : KeyAt(D, i) = k
  BY <1>4, <1>5
<1>8. QED
  BY <1>4, <1>5, <1>6, <1>7

\* Two indices never have the same key.
LEMMA KeysDiffer ==
    ASSUME NEW D, IsFiniteSet(D), D \subseteq Nat,
           NEW i \in 1 .. Cardinality(D), NEW j \in 1 .. Cardinality(D), KeyAt(D, i) = KeyAt(D, j)
    PROVE  i = j
<1>1. KeyAt(D, i) \in Nat /\ KeyAt(D, j) \in Nat /\ Cardinality(D) \in Nat
  BY KeyAtIs
<1>2. \A k, l \in 1 .. Cardinality(D) : k < l => KeyAt(D, k) < KeyAt(D, l)
  BY KeyAtIs
<1>3. (i < j => KeyAt(D, i) < KeyAt(D, j)) /\ (j < i => KeyAt(D, j) < KeyAt(D, i))
  BY <1>2
<1>4. ~ (i < j) /\ ~ (j < i)
  BY <1>1, <1>3
<1>5. QED
  BY <1>1, <1>4

LEMMA LenIs ==
    ASSUME NEW n \in Nat, NEW s, s = [i \in 1 .. n |-> s[i]]
    PROVE  Len(s) = n /\ DOMAIN s = 1 .. n /\ (s = <<>> <=> n = 0)
<1>1. s \in Seq({s[i] : i \in 1 .. n})
  BY SeqDef
<1>2. DOMAIN s = 1 .. Len(s) /\ Len(s) \in Nat /\ DOMAIN s = 1 .. n
  BY <1>1, LenProperties
<1>3. Len(s) = n
  BY <1>2
<1>4. s = <<>> <=> n = 0
  BY <1>1, <1>3, EmptySeq
<1>5. QED
  BY <1>2, <1>3, <1>4

LEMMA ClampIs ==
    /\ \A v \in Int \cup {Missing, Null} : ClampScore(v) \in (0 .. 100) \cup {Null}
    /\ \A v \in 0 .. 100 : ClampScore(v) = v
BY ResultAssumption DEF ClampScore

\* What a document makes of a ranking.
LEMMA BuiltIs ==
    ASSUME NEW d, IsFiniteSet(DOMAIN d), DOMAIN d \subseteq Nat
    PROVE  /\ Len(BuildRankings(d)) = Cardinality(DOMAIN d)
           /\ DOMAIN BuildRankings(d) = 1 .. Cardinality(DOMAIN d)
           /\ BuildRankings(d) = <<>> <=> DOMAIN d = {}
           /\ \A i \in 1 .. Cardinality(DOMAIN d) :
                BuildRankings(d)[i] = RankingEntry(KeyAt(DOMAIN d, i), d[KeyAt(DOMAIN d, i)])
<1> DEFINE n == Cardinality(DOMAIN d)
           b == BuildRankings(d)
<1>1. n \in Nat /\ (n = 0 <=> DOMAIN d = {})
  BY FS_CardinalityType, FS_EmptySet
<1>2. b = [i \in 1 .. n |-> RankingEntry(KeyAt(DOMAIN d, i), d[KeyAt(DOMAIN d, i)])]
  BY DEF BuildRankings
<1> HIDE DEF b, n
<1>3. b = [i \in 1 .. n |-> b[i]]
  BY <1>2
<1>4. Len(b) = n /\ DOMAIN b = 1 .. n /\ (b = <<>> <=> n = 0)
  BY <1>1, <1>3, LenIs
<1>5. \A i \in 1 .. n : b[i] = RankingEntry(KeyAt(DOMAIN d, i), d[KeyAt(DOMAIN d, i)])
  BY <1>2
<1>6. QED
  BY <1>1, <1>4, <1>5 DEF b, n

\* What can be read of an answer.
LEMMA ReadIs ==
    ASSUME NEW a \in Answers
    PROVE  /\ IsFiniteSet(DOMAIN ReadDocument(a)) /\ DOMAIN ReadDocument(a) \subseteq Keys
           /\ DOMAIN ReadDocument(a) \subseteq DOMAIN a.candidates
           /\ DOMAIN ReadDocument(a) \subseteq Nat
           /\ \A k \in DOMAIN ReadDocument(a) : ReadDocument(a)[k] \in Candidates
<1>1. PICK D \in SUBSET Keys : \E h \in {"text", "none"}, b \in D \cup {-1}, c \in [D -> Candidates] :
                                  a = [holder |-> h, candidates |-> c, broken |-> b]
  BY DEF Answers
<1>2. a.candidates \in [D -> Candidates]
  BY <1>1
<1>3. /\ DOMAIN ReadDocument(a) \subseteq DOMAIN a.candidates
      /\ \A k \in DOMAIN ReadDocument(a) : ReadDocument(a)[k] = a.candidates[k]
  BY DEF ReadDocument, ReadableKeys, Restrict
<1>4. DOMAIN ReadDocument(a) \subseteq Keys
  BY <1>2, <1>3
<1>5. QED
  BY <1>2, <1>3, <1>4, ResultAssumption, FS_Subset

\* What the answer's ranking says of each candidate.
LEMMA NormalisedIs ==
    ASSUME NEW a \in Answers, NEW i \in 1 .. Cardinality(DOMAIN ReadDocument(a))
    PROVE  /\ NormaliseAnswer(a)[i].rank = KeyAt(DOMAIN ReadDocument(a), i)
           /\ NormaliseAnswer(a)[i].rank \in Keys
           /\ NormaliseAnswer(a)[i].name \in ({c.name : c \in Candidates} \cup Keys) \ {Null}
           /\ NormaliseAnswer(a)[i].scores \in [Series -> (0 .. 100) \cup {Null}]
<1> DEFINE d == ReadDocument(a)
           k == KeyAt(DOMAIN d, i)
<1>1. NormaliseAnswer(a)[i] = RankingEntry(k, d[k])
  BY ReadIs, BuiltIs DEF NormaliseAnswer
<1>2. k \in DOMAIN d
  BY ReadIs, KeyAtIs
<1>3. k \in Keys /\ d[k] \in Candidates
  BY <1>2, ReadIs
<1> HIDE DEF k, d
<1>4. \A s \in Series : d[k].scores[s] \in Int \cup {Missing, Null}
  BY <1>3, ResultAssumption
<1>5. \A s \in Series : ClampScore(d[k].scores[s]) \in (0 .. 100) \cup {Null}
  BY <1>4, ClampIs
<1>6. k # Null
  BY <1>3, ResultAssumption
<1>7. RankingEntry(k, d[k]).scores \in [Series -> (0 .. 100) \cup {Null}]
  BY <1>5 DEF RankingEntry
<1>8. RankingEntry(k, d[k]).name \in ({c.name : c \in Candidates} \cup Keys) \ {Null}
  BY <1>3, <1>6 DEF RankingEntry
<1>9. RankingEntry(k, d[k]).rank = k
  BY DEF RankingEntry
<1>10. QED
  BY <1>1, <1>3, <1>7, <1>8, <1>9 DEF k, d

\* The entries of the sanitised result are rankings of the answer.
LEMMA SanitisedIs ==
    ASSUME NEW a \in Answers
    PROVE  \/ DOMAIN ReadDocument(a) = {} /\ Sanitise(a) = Null
           \/ /\ DOMAIN ReadDocument(a) # {}
              /\ \E D \in SUBSET (Keys \cup 1 .. Cardinality(Keys)) :
                    D # {} /\ Sanitise(a) \in Documents(D)
<1> DEFINE R == NormaliseAnswer(a)
           n == Cardinality(DOMAIN ReadDocument(a))
           KeyOf(i) == IF R[i].rank > 0 THEN R[i].rank ELSE i
           K == {KeyOf(i) : i \in DOMAIN R}
           Latest(k) == Max({i \in DOMAIN R : KeyOf(i) = k})
<1>1. /\ DOMAIN R = 1 .. n /\ (R = <<>> <=> DOMAIN ReadDocument(a) = {})
      /\ n \in Nat /\ n =< Cardinality(Keys) /\ Cardinality(Keys) \in Nat
  BY ReadIs, BuiltIs, FS_CardinalityType, FS_Subset, ResultAssumption DEF NormaliseAnswer
<1>2. \A i \in 1 .. n :
        /\ R[i].rank = KeyAt(DOMAIN ReadDocument(a), i) /\ R[i].rank \in Keys
        /\ R[i].name \in ({c.name : c \in Candidates} \cup Keys) \ {Null}
        /\ R[i].scores \in [Series -> (0 .. 100) \cup {Null}]
  BY NormalisedIs
<1>3. \A i, j \in 1 .. n : R[i].rank = R[j].rank => i = j
  BY <1>2, KeysDiffer, ReadIs
<1>4. Sanitise(a) = IF R = <<>> THEN Null
                    ELSE [k \in K |-> [name |-> R[Latest(k)].name, scores |-> R[Latest(k)].scores]]
  BY DEF Sanitise
<1>5. CASE DOMAIN ReadDocument(a) = {}
  BY <1>1, <1>4, <1>5
<1>6. CASE DOMAIN ReadDocument(a) # {}
  <2>1. \A i \in 1 .. n : R[i].rank \in Nat
    BY <1>2, ResultAssumption
  <2> HIDE DEF R, n
  <2>2. K \subseteq Keys \cup 1 .. Cardinality(Keys)
    BY <1>1, <1>2
  <2>3. K # {}
    <3>1. R # <<>>
      BY <1>1, <1>6
    <3>2. n # 0
      BY <1>6, ReadIs, FS_EmptySet DEF n
    <3>3. 1 \in DOMAIN R
      BY <1>1, <3>2
    <3>4. QED
      BY <3>3
  <2>4. ASSUME NEW k \in K
        PROVE  Latest(k) \in 1 .. n
    <3> DEFINE M == {i \in DOMAIN R : KeyOf(i) = k}
    <3>1. PICK i \in 1 .. n : i \in M
      BY <1>1, <2>4
    <3>2. ASSUME NEW j \in M, j # k
          PROVE  R[j].rank = k
      BY <3>2
    <3>3. ASSUME NEW j \in M, NEW l \in M, j # k, l # k
          PROVE  j = l
      BY <1>1, <1>3, <3>2, <3>3
    <3>4. \A j \in M : j \in 1 .. n /\ j \in Int
      BY <1>1
    <3> HIDE DEF M
    <3>5. \E m \in M : \A j \in M : m >= j
      <4>1. CASE \A j \in M : j = k
        BY <3>1, <3>4, <4>1
      <4>2. CASE \E j \in M : j # k
        <5>1. PICK j \in M : j # k
          BY <4>2
        <5>2. \A l \in M : l = j \/ l = k
          BY <3>3, <5>1
        <5>3. QED
          BY <3>4, <5>1, <5>2
      <4>3. QED
        BY <4>1, <4>2
    <3>6. Max(M) \in M
      BY <3>5 DEF Max
    <3>7. QED
      BY <3>4, <3>6 DEF M
  <2>5. \A k \in K : /\ R[Latest(k)].name \in ({c.name : c \in Candidates} \cup Keys) \ {Null}
                     /\ R[Latest(k)].scores \in [Series -> (0 .. 100) \cup {Null}]
    BY <1>2, <2>4
  <2>6. Sanitise(a) = [k \in K |-> [name |-> R[Latest(k)].name, scores |-> R[Latest(k)].scores]]
    BY <1>1, <1>4, <1>6
  <2> HIDE DEF K, Latest
  <2>7. Sanitise(a) \in Documents(K)
    BY <2>5, <2>6 DEF Documents
  <2>8. QED
    BY <1>6, <2>2, <2>3, <2>7
<1>7. QED
  BY <1>5, <1>6

\* Every ranking of a sanitised result has a name, and there is one.
LEMMA RankedIs ==
    ASSUME NEW D \in SUBSET (Keys \cup 1 .. Cardinality(Keys)), D # {}, NEW d \in Documents(D)
    PROVE  /\ BuildRankings(d) # <<>> /\ 1 \in DOMAIN BuildRankings(d)
           /\ Len(BuildRankings(d)) \in Nat
           /\ DOMAIN BuildRankings(d) = 1 .. Len(BuildRankings(d))
           /\ Null \notin RankedNames(BuildRankings(d))
<1>1. IsFiniteSet(D) /\ D \subseteq Nat /\ DOMAIN d = D
  <2>1. Cardinality(Keys) \in Nat
    BY ResultAssumption, FS_CardinalityType
  <2>2. IsFiniteSet(1 .. Cardinality(Keys))
    BY <2>1, FS_Interval
  <2>3. IsFiniteSet(Keys \cup 1 .. Cardinality(Keys))
    BY <2>2, ResultAssumption, FS_Union
  <2>4. DOMAIN d = D
    BY DEF Documents
  <2>5. D \subseteq Nat
    BY <2>1, ResultAssumption
  <2>6. QED
    BY <2>3, <2>4, <2>5, FS_Subset
<1>2. /\ Len(BuildRankings(d)) = Cardinality(D) /\ DOMAIN BuildRankings(d) = 1 .. Cardinality(D)
      /\ BuildRankings(d) # <<>>
  BY <1>1, BuiltIs
<1>3. Cardinality(D) \in Nat /\ Cardinality(D) # 0
  BY <1>1, FS_CardinalityType, FS_EmptySet
<1>4. ASSUME NEW i \in 1 .. Cardinality(D)
      PROVE  BuildRankings(d)[i].name # Null
  <2>1. BuildRankings(d)[i] = RankingEntry(KeyAt(D, i), d[KeyAt(D, i)])
    BY <1>1, BuiltIs
  <2>2. KeyAt(D, i) \in D
    BY <1>1, KeyAtIs
  <2>3. d[KeyAt(D, i)].name # Null
    BY <2>2 DEF Documents
  <2>4. QED
    BY <2>1, <2>3 DEF RankingEntry
<1>5. QED
  BY <1>2, <1>3, <1>4 DEF RankedNames

-----------------------------------------------------------------------------
(* The selection on the result screen.                                     *)

\* The screen has the sanitised form of the last answer.
ResultInv ==
    /\ answer \in Answers \cup {Null}
    /\ result = IF answer = Null THEN Null ELSE Sanitise(answer)
    /\ visible \subseteq Series /\ visible # {}
    /\ SelectionIsShown

\* A ranking as the screen can have it.
Rankable(r) ==
    \/ r = <<>> /\ RankedNames(r) = {} /\ Len(r) = 0 /\ DOMAIN r = 1 .. 0
    \/ /\ r # <<>> /\ 1 \in DOMAIN r /\ Len(r) \in Nat /\ DOMAIN r = 1 .. Len(r)
       /\ Null \notin RankedNames(r) /\ r[1].name \in RankedNames(r)

LEMMA RankingsAre ==
    ASSUME NEW d, \/ d = Null
                  \/ \E D \in SUBSET (Keys \cup 1 .. Cardinality(Keys)) : D # {} /\ d \in Documents(D)
    PROVE  Rankable(IF d = Null THEN <<>> ELSE BuildRankings(d))
<1>1. Rankable(<<>>)
  BY DEF Rankable, RankedNames
<1>2. ASSUME d # Null
      PROVE  Rankable(BuildRankings(d))
  <2>1. PICK D \in SUBSET (Keys \cup 1 .. Cardinality(Keys)) : D # {} /\ d \in Documents(D)
    BY <1>2
  <2>2. /\ BuildRankings(d) # <<>> /\ 1 \in DOMAIN BuildRankings(d)
        /\ Len(BuildRankings(d)) \in Nat
        /\ DOMAIN BuildRankings(d) = 1 .. Len(BuildRankings(d))
        /\ Null \notin RankedNames(BuildRankings(d))
    BY <2>1, RankedIs
  <2>3. BuildRankings(d)[1].name \in RankedNames(BuildRankings(d))
    BY <2>2 DEF RankedNames
  <2>4. QED
    BY <2>2, <2>3 DEF Rankable
<1>3. QED
  BY <1>1, <1>2

\* What the last answer leaves in the result.
LEMMA ResultIs ==
    ASSUME NEW a \in Answers
    PROVE  Rankable(IF Sanitise(a) = Null THEN <<>> ELSE BuildRankings(Sanitise(a)))
BY SanitisedIs, RankingsAre

LEMMA RankingsRankable ==
    ASSUME ResultInv
    PROVE  Rankable(Rankings)
BY ResultIs, RankingsAre DEF ResultInv, Rankings

\* The effect leaves a selection in the ranking, whatever was selected before.
LEMMA KeepSelectionIs ==
    ASSUME NEW r, Rankable(r), NEW sel, NEW open, NEW mod, KeepSelection(r, sel, open, mod)
    PROVE  /\ selected' \in RankedNames(r) \cup {Null}
           /\ opened' \in RankedNames(r) \cup {Null}
           /\ modal' => selected' # Null
BY DEF KeepSelection, Rankable

\* The chart has a row for each ranking.
LEMMA ChartIs ==
    ASSUME Rankable(Rankings), visible # {}
    PROVE  Len(ChartRows) = Len(Rankings)
<1>1. Len(Rankings) \in Nat /\ DOMAIN Rankings = 1 .. Len(Rankings)
  BY DEF Rankable
<1>2. ChartRows = [i \in 1 .. Len(Rankings) |-> BarTotal(Rankings[i])]
  BY <1>1 DEF ChartRows
<1>3. ChartRows = [i \in 1 .. Len(Rankings) |-> ChartRows[i]]
  BY <1>2
<1>4. QED
  BY <1>1, <1>3, LenIs

\* A step that leaves the answer alone and selects something of the ranking.
LEMMA SelectionStep ==
    ASSUME ResultInv, UNCHANGED <<answer, result>>, visible' \subseteq Series, visible' # {},
           selected' \in RankedNames(Rankings) \cup {Null},
           opened' \in RankedNames(Rankings) \cup {Null}, modal' => selected' # Null
    PROVE  ResultInv'
<1>1. Rankings' = Rankings
  BY DEF Rankings
<1>2. Rankable(Rankings)'
  BY <1>1, RankingsRankable DEF Rankable, RankedNames
<1>3. Len(ChartRows)' = Len(Rankings)'
  <2>1. Len(Rankings') \in Nat /\ DOMAIN Rankings' = 1 .. Len(Rankings')
    BY <1>2 DEF Rankable
  <2>2. ChartRows' = [i \in 1 .. Len(Rankings') |-> BarTotal(Rankings[i])']
    BY <2>1 DEF ChartRows
  <2>3. ChartRows' = [i \in 1 .. Len(Rankings') |-> ChartRows'[i]]
    BY <2>2
  <2>4. QED
    BY <2>1, <2>3, LenIs
<1>4. RankedNames(Rankings)' = RankedNames(Rankings)
  BY <1>1 DEF RankedNames
<1>5. QED
  BY <1>3, <1>4 DEF ResultInv, SelectionIsShown

\* A step that replaces the answer.
LEMMA AnswerStep ==
    ASSUME answer' \in Answers \cup {Null},
           result' = IF answer' = Null THEN Null ELSE Sanitise(answer'),
           visible' \subseteq Series, visible' # {},
           NEW r, r = Rankings', KeepSelection(r, selected, opened, modal)
    PROVE  ResultInv'
<1>1. Rankable(r)
  <2>1. CASE answer' = Null
    <3>1. r = IF result' = Null THEN <<>> ELSE BuildRankings(result')
      BY DEF Rankings
    <3>2. result' = Null
      BY <2>1
    <3>3. QED
      BY <3>1, <3>2, RankingsAre
  <2>2. CASE answer' # Null
    <3>1. answer' \in Answers /\ result' = Sanitise(answer')
      BY <2>2
    <3>2. r = IF Sanitise(answer') = Null THEN <<>> ELSE BuildRankings(Sanitise(answer'))
      BY <3>1 DEF Rankings
    <3>3. QED
      BY <3>1, <3>2, ResultIs
  <2>3. QED
    BY <2>1, <2>2
<1>2. /\ selected' \in RankedNames(r) \cup {Null}
      /\ opened' \in RankedNames(r) \cup {Null}
      /\ modal' => selected' # Null
  BY <1>1, KeepSelectionIs
<1>3. Len(ChartRows)' = Len(Rankings)'
  <2>1. Len(Rankings') \in Nat /\ DOMAIN Rankings' = 1 .. Len(Rankings')
    BY <1>1 DEF Rankable
  <2>2. ChartRows' = [i \in 1 .. Len(Rankings') |-> BarTotal(Rankings[i])']
    BY <2>1 DEF ChartRows
  <2>3. ChartRows' = [i \in 1 .. Len(Rankings') |-> ChartRows'[i]]
    BY <2>2
  <2>4. QED
    BY <2>1, <2>3, LenIs
<1>4. RankedNames(Rankings)' = RankedNames(r)
  BY DEF RankedNames
<1>5. QED
  BY <1>2, <1>3, <1>4 DEF ResultInv, SelectionIsShown

LEMMA ResultStep ==
    ASSUME ResultInv, ResultNext
    PROVE  ResultInv'
<1>1. ASSUME NEW a \in Answers, ShowAnswer(a)
      PROVE  ResultInv'
  <2>1. a # Null /\ answer' = a /\ result' = Sanitise(a) /\ visible' = visible
    BY <1>1, ResultAssumption DEF ShowAnswer
  <2>2. Rankings' = IF Sanitise(a) = Null THEN <<>> ELSE BuildRankings(Sanitise(a))
    BY <2>1 DEF Rankings
  <2>3. KeepSelection(IF Sanitise(a) = Null THEN <<>> ELSE BuildRankings(Sanitise(a)),
                      selected, opened, modal)
    BY <1>1 DEF ShowAnswer
  <2>4. visible' \subseteq Series /\ visible' # {}
    BY <2>1 DEF ResultInv
  <2>5. QED
    BY <2>1, <2>2, <2>3, <2>4, AnswerStep
<1>2. ASSUME ShowNothing
      PROVE  ResultInv'
  <2>1. answer' = Null /\ result' = Null /\ visible' = visible
    BY <1>2 DEF ShowNothing
  <2>2. Rankings' = <<>>
    BY <2>1 DEF Rankings
  <2>3. KeepSelection(<<>>, selected, opened, modal)
    BY <1>2 DEF ShowNothing
  <2>4. visible' \subseteq Series /\ visible' # {}
    BY <2>1 DEF ResultInv
  <2>5. QED
    BY <2>1, <2>2, <2>3, <2>4, AnswerStep
<1>3. ASSUME CloseDetails
      PROVE  ResultInv'
  <2>1. /\ UNCHANGED <<answer, result, selected, opened, visible>> /\ modal' = FALSE
        /\ visible' \subseteq Series /\ visible' # {}
    BY <1>3 DEF CloseDetails, ResultInv
  <2>2. /\ selected' \in RankedNames(Rankings) \cup {Null}
        /\ opened' \in RankedNames(Rankings) \cup {Null}
    BY <2>1 DEF ResultInv, SelectionIsShown
  <2>3. QED
    BY <2>1, <2>2, SelectionStep
<1>4. ASSUME NEW n \in RankedNames(Rankings), ToggleReason(n)
      PROVE  ResultInv'
  <2>1. /\ UNCHANGED <<answer, result>> /\ visible' \subseteq Series /\ visible' # {}
        /\ KeepSelection(Rankings, selected, IF opened = n THEN Null ELSE n, modal)
    BY <1>4 DEF ToggleReason, ResultInv
  <2>2. UNCHANGED <<answer, result>> /\ visible' \subseteq Series /\ visible' # {}
    BY <2>1
  <2>3. selected' \in RankedNames(Rankings) \cup {Null}
    BY <2>1, RankingsRankable, KeepSelectionIs
  <2>4. opened' \in RankedNames(Rankings) \cup {Null}
    BY <2>1, RankingsRankable, KeepSelectionIs
  <2>5. modal' => selected' # Null
    BY <2>1, RankingsRankable, KeepSelectionIs
  <2>6. QED
    BY <2>2, <2>3, <2>4, <2>5, SelectionStep
<1>5. ASSUME NEW n \in RankedNames(Rankings), SelectCandidate(n)
      PROVE  ResultInv'
  <2>1. n # Null
    BY RankingsRankable DEF Rankable
  <2>2. /\ UNCHANGED <<answer, result>> /\ visible' \subseteq Series /\ visible' # {}
        /\ selected' = n /\ opened' \in {opened, n}
    BY <1>5 DEF SelectCandidate, ResultInv
  <2>3. opened' \in RankedNames(Rankings) \cup {Null}
    BY <2>2 DEF ResultInv, SelectionIsShown
  <2>4. QED
    BY <2>1, <2>2, <2>3, SelectionStep
<1>6. ASSUME NEW s \in Series, ToggleSeries(s)
      PROVE  ResultInv'
  <2>1. UNCHANGED <<answer, result, selected, opened, modal>> /\ visible' # {}
    BY <1>6 DEF ToggleSeries
  <2>2. visible' \subseteq Series
    BY <1>6 DEF ToggleSeries, SymDiff, ResultInv
  <2>3. /\ selected' \in RankedNames(Rankings) \cup {Null}
        /\ opened' \in RankedNames(Rankings) \cup {Null}
    BY <2>1 DEF ResultInv, SelectionIsShown
  <2>4. modal' => selected' # Null
    BY <2>1 DEF ResultInv, SelectionIsShown
  <2>5. UNCHANGED <<answer, result>>
    BY <2>1
  <2>6. QED
    BY <2>1, <2>2, <2>3, <2>4, <2>5, SelectionStep
<1>7. QED
  BY <1>1, <1>2, <1>3, <1>4, <1>5, <1>6 DEF ResultNext

\* What is shown is the last answer, the selection is within it and one series is visible.
THEOREM ResultInvHolds == ResultSpec => []ResultInv
<1>1. ResultInit => ResultInv
  <2>1. ASSUME ResultInit
        PROVE  ResultInv
    <3>1. answer = Null /\ result = Null /\ selected = Null /\ opened = Null /\ ~modal
      BY <2>1 DEF ResultInit
    <3>2. visible \subseteq Series /\ visible # {}
      BY <2>1, ResultAssumption DEF ResultInit
    <3>3. Rankable(Rankings)
      BY <3>1, RankingsAre DEF Rankings
    <3>4. QED
      BY <3>1, <3>2, <3>3, ChartIs DEF ResultInv, SelectionIsShown
  <2>2. QED
    BY <2>1
<1>2. ASSUME ResultInv, [ResultNext]_resultVars
      PROVE  ResultInv'
  <2>1. CASE UNCHANGED resultVars
    <3>1. UNCHANGED <<answer, result, selected, opened, visible, modal>>
      BY <2>1 DEF resultVars
    <3>2. /\ visible' \subseteq Series /\ visible' # {}
          /\ selected' \in RankedNames(Rankings) \cup {Null}
          /\ opened' \in RankedNames(Rankings) \cup {Null}
      BY <1>2, <3>1 DEF ResultInv, SelectionIsShown
    <3>3. modal' => selected' # Null
      BY <1>2, <3>1 DEF ResultInv, SelectionIsShown
    <3>4. UNCHANGED <<answer, result>>
      BY <3>1
    <3>5. QED
      BY <1>2, <3>2, <3>3, <3>4, SelectionStep
  <2>2. QED
    BY <1>2, <2>1, ResultStep
<1>3. QED
  BY <1>1, <1>2, PTL DEF ResultSpec

\* Whatever answers follow one another, the details are open for a candidate on the screen
\* only and the chart has a row for each candidate (ResultScreen.tsx:274-327).
THEOREM ScreenShowsTheSelection == ResultSpec => []SelectionIsShown
<1>1. ResultInv => SelectionIsShown
  BY DEF ResultInv
<1>2. QED
  BY <1>1, ResultInvHolds, PTL

\* The sanitised form of an answer without a candidate 0 has the keys of the answer.
LEMMA SanitisedByRank ==
    ASSUME NEW a \in Answers, 0 \notin DOMAIN a.candidates, DOMAIN ReadDocument(a) # {}
    PROVE  /\ Sanitise(a) # Null /\ DOMAIN Sanitise(a) = DOMAIN ReadDocument(a)
           /\ \A i \in 1 .. Cardinality(DOMAIN ReadDocument(a)) :
                Sanitise(a)[KeyAt(DOMAIN ReadDocument(a), i)] =
                    [name |-> NormaliseAnswer(a)[i].name, scores |-> NormaliseAnswer(a)[i].scores]
<1> DEFINE R == NormaliseAnswer(a)
           D == DOMAIN ReadDocument(a)
           n == Cardinality(D)
           KeyOf(i) == IF R[i].rank > 0 THEN R[i].rank ELSE i
           K == {KeyOf(i) : i \in DOMAIN R}
           Latest(k) == Max({i \in DOMAIN R : KeyOf(i) = k})
<1>1. DOMAIN R = 1 .. n /\ R # <<>> /\ n \in Nat
  BY ReadIs, BuiltIs, FS_CardinalityType DEF NormaliseAnswer
<1>2. \A i \in 1 .. n : R[i].rank = KeyAt(D, i)
  BY NormalisedIs
<1>3. /\ \A i \in 1 .. n : KeyAt(D, i) \in D
      /\ \A k \in D : \E i \in 1 .. n : KeyAt(D, i) = k
  BY ReadIs, KeyAtIs
<1>4. \A k \in D : k \in Nat /\ k > 0
  BY ReadIs
<1>5. \A i, j \in 1 .. n : KeyAt(D, i) = KeyAt(D, j) => i = j
  BY KeysDiffer, ReadIs
<1>6. Sanitise(a) = [k \in K |-> [name |-> R[Latest(k)].name, scores |-> R[Latest(k)].scores]]
  BY <1>1 DEF Sanitise
<1>7. Sanitise(a) # Null
  BY SanitisedIs, ResultAssumption
<1> HIDE DEF R, D, n
<1>8. \A i \in 1 .. n : KeyOf(i) = KeyAt(D, i)
  BY <1>2, <1>3, <1>4
<1>9. K = D
  BY <1>1, <1>3, <1>8
<1>10. ASSUME NEW i \in 1 .. n
       PROVE  Latest(KeyAt(D, i)) = i
  <2>1. {j \in DOMAIN R : KeyOf(j) = KeyAt(D, i)} = {i}
    BY <1>1, <1>5, <1>8
  <2>2. i \in Int /\ \A m \in {i} : m >= m
    BY <1>1
  <2>3. Max({i}) = i
    BY <2>2 DEF Max
  <2>4. QED
    BY <2>1, <2>3
<1> HIDE DEF K, Latest
<1>11. \A i \in 1 .. n :
          Sanitise(a)[KeyAt(D, i)] = [name |-> R[i].name, scores |-> R[i].scores]
  BY <1>3, <1>6, <1>9, <1>10
<1>12. QED
  BY <1>6, <1>7, <1>9, <1>11 DEF R, D, n

\* Through the snapshot and back, the candidates, their order, names and scores stay.
LEMMA RankingsOfAnswer ==
    ASSUME NEW a \in Answers, 0 \notin DOMAIN a.candidates, DOMAIN ReadDocument(a) # {}
    PROVE  LET r == BuildRankings(Sanitise(a)) told == NormaliseAnswer(a) IN
           /\ Len(r) = Len(told)
           /\ \A i \in DOMAIN r :
                /\ r[i].rank = told[i].rank /\ r[i].name = told[i].name
                /\ \A s \in Series : told[i].scores[s] \in {Null, r[i].scores[s]}
                /\ i > 1 => r[i - 1].rank < r[i].rank
<1> DEFINE s == Sanitise(a)
           R == NormaliseAnswer(a)
           D == DOMAIN ReadDocument(a)
           n == Cardinality(D)
<1>1. /\ DOMAIN s = D
      /\ \A i \in 1 .. n : s[KeyAt(D, i)] = [name |-> R[i].name, scores |-> R[i].scores]
  BY SanitisedByRank
<1>2. IsFiniteSet(D) /\ D \subseteq Nat /\ n \in Nat
  BY ReadIs, FS_CardinalityType
<1>3. /\ Len(BuildRankings(s)) = n /\ DOMAIN BuildRankings(s) = 1 .. n
      /\ \A i \in 1 .. n : BuildRankings(s)[i] = RankingEntry(KeyAt(D, i), s[KeyAt(D, i)])
  BY <1>1, <1>2, BuiltIs
<1>4. Len(R) = n
  BY <1>2, BuiltIs DEF NormaliseAnswer
<1>5. \A i \in 1 .. n :
        /\ R[i].rank = KeyAt(D, i) /\ R[i].name # Null
        /\ R[i].scores \in [Series -> (0 .. 100) \cup {Null}]
  BY NormalisedIs
<1>6. \A i, j \in 1 .. n : i < j => KeyAt(D, i) < KeyAt(D, j)
  BY <1>2, KeyAtIs
<1> HIDE DEF s, R, D, n
<1>7. ASSUME NEW i \in 1 .. n
      PROVE  /\ BuildRankings(s)[i].rank = KeyAt(D, i)
             /\ BuildRankings(s)[i].name = R[i].name
             /\ \A x \in Series : R[i].scores[x] \in {Null, BuildRankings(s)[i].scores[x]}
  <2>1. BuildRankings(s)[i] =
          RankingEntry(KeyAt(D, i), [name |-> R[i].name, scores |-> R[i].scores])
    BY <1>1, <1>3
  <2>2. /\ BuildRankings(s)[i].rank = KeyAt(D, i)
        /\ BuildRankings(s)[i].name = R[i].name
        /\ BuildRankings(s)[i].scores = [x \in Series |-> ClampScore(R[i].scores[x])]
    BY <1>5, <2>1 DEF RankingEntry
  <2>3. ASSUME NEW x \in Series
        PROVE  R[i].scores[x] \in {Null, BuildRankings(s)[i].scores[x]}
    <3>1. R[i].scores[x] \in (0 .. 100) \cup {Null}
      BY <1>5
    <3>2. BuildRankings(s)[i].scores[x] = ClampScore(R[i].scores[x])
      BY <2>2
    <3>3. QED
      BY <3>1, <3>2, ClampIs
  <2>4. QED
    BY <2>2, <2>3
<1>8. ASSUME NEW i \in 1 .. n, i > 1
      PROVE  BuildRankings(s)[i - 1].rank < BuildRankings(s)[i].rank
  <2>1. i - 1 \in 1 .. n /\ i - 1 < i
    BY <1>2, <1>8
  <2>2. QED
    BY <1>6, <1>7, <2>1
<1>9. \A i \in 1 .. n :
        /\ BuildRankings(s)[i].rank = R[i].rank /\ BuildRankings(s)[i].name = R[i].name
        /\ \A x \in Series : R[i].scores[x] \in {Null, BuildRankings(s)[i].scores[x]}
        /\ i > 1 => BuildRankings(s)[i - 1].rank < BuildRankings(s)[i].rank
  BY <1>5, <1>7, <1>8
<1>10. QED
  BY <1>3, <1>4, <1>9 DEF s, R

\* Every candidate that can be read is shown by its rank, with its name and scores.
THEOREM ShowsTheAnswer == ResultSpec => []RankingsAreTheAnswer
<1>1. ASSUME ResultInv, answer # Null, 0 \notin DOMAIN answer.candidates
      PROVE  /\ Len(Rankings) = Len(NormaliseAnswer(answer))
             /\ \A i \in DOMAIN Rankings :
                  LET told == NormaliseAnswer(answer)[i] IN
                  /\ Rankings[i].rank = told.rank /\ Rankings[i].name = told.name
                  /\ \A s \in Series : told.scores[s] \in {Null, Rankings[i].scores[s]}
                  /\ i > 1 => Rankings[i - 1].rank < Rankings[i].rank
  <2>1. answer \in Answers /\ result = Sanitise(answer)
    BY <1>1 DEF ResultInv
  <2>2. CASE DOMAIN ReadDocument(answer) = {}
    <3>1. Rankings = <<>>
      BY <2>1, <2>2, SanitisedIs DEF Rankings
    <3>2. NormaliseAnswer(answer) = <<>>
      BY <2>1, <2>2, ReadIs, BuiltIs DEF NormaliseAnswer
    <3>3. QED
      BY <3>1, <3>2
  <2>3. CASE DOMAIN ReadDocument(answer) # {}
    <3>1. Rankings = BuildRankings(Sanitise(answer))
      BY <1>1, <2>1, <2>3, SanitisedByRank DEF Rankings
    <3>2. QED
      BY <1>1, <2>1, <2>3, <3>1, RankingsOfAnswer
  <2>4. QED
    BY <2>2, <2>3
<1>2. ResultInv => RankingsAreTheAnswer
  BY <1>1 DEF RankingsAreTheAnswer
<1>3. QED
  BY <1>2, ResultInvHolds, PTL

-----------------------------------------------------------------------------
(* The feedback.                                                           *)

Overlay == [mounted : BOOLEAN, open : BOOLEAN, visible : BOOLEAN,
            age : 0 .. MinDuration \cup {None}, timer : 0 .. MinDuration \cup {None}]

\* The timer of an overlay ends no sooner than its minimum time is over.
OverlayOK(v) ==
    /\ v.open => v.visible /\ v.timer = None
    /\ v.visible => v.mounted /\ v.age # None
    /\ v.timer # None => v.visible /\ v.timer + v.age >= MinDuration

Covering == {o \in Overlays : overlay[o].visible}

ScrollOK ==
    /\ locks = Cardinality(Covering)
    /\ scroll = IF Covering = {} THEN [style |-> "page", saved |-> None]
                                 ELSE [style |-> "hidden", saved |-> "page"]

UiInv == UiTypeOK /\ (\A o \in Overlays : OverlayOK(overlay[o])) /\ ScrollOK

LEMMA CoveringIs ==
    IsFiniteSet(Covering) /\ Cardinality(Covering) \in Nat
    /\ (Cardinality(Covering) = 0 <=> Covering = {})
<1>1. IsFiniteSet(Covering)
  BY UiAssumption, FS_Subset DEF Covering
<1>2. QED
  BY <1>1, FS_CardinalityType, FS_EmptySet

LEMMA NoOverlayIs == NoOverlay \in Overlay /\ OverlayOK(NoOverlay) /\ ~NoOverlay.visible
BY DEF NoOverlay, Overlay, OverlayOK

\* Whatever becomes of an overlay, the lock it takes or gives back keeps the count.
LEMMA SetOverlayIs ==
    ASSUME UiInv, NEW o \in Overlays, NEW next \in Overlay, OverlayOK(next), SetOverlay(o, next)
    PROVE  /\ UiInv'
           /\ overlay'[o] = next /\ \A other \in Overlays \ {o} : overlay'[other] = overlay[other]
<1>1. /\ overlay \in [Overlays -> Overlay] /\ locks \in Nat
      /\ overlay' = [overlay EXCEPT ![o] = next]
      /\ toasts' = toasts /\ timers' = timers /\ stale' = stale
  BY DEF UiInv, UiTypeOK, Overlay, SetOverlay, toastVars
<1>2. /\ overlay' \in [Overlays -> Overlay] /\ overlay'[o] = next
      /\ \A other \in Overlays \ {o} : overlay'[other] = overlay[other]
  BY <1>1
<1>3. \A other \in Overlays : OverlayOK(overlay'[other])
  BY <1>2 DEF UiInv
<1>4. /\ locks = Cardinality(Covering) /\ IsFiniteSet(Covering)
      /\ (locks = 0 <=> Covering = {})
      /\ scroll = IF Covering = {} THEN [style |-> "page", saved |-> None]
                                   ELSE [style |-> "hidden", saved |-> "page"]
  BY CoveringIs DEF UiInv, ScrollOK
<1>5. ScrollOK' /\ locks' \in Nat
  <2>1. CASE next.visible = overlay[o].visible
    <3>1. Covering' = Covering
      BY <1>2, <2>1 DEF Covering
    <3>2. locks' = locks /\ scroll' = scroll
      BY <2>1 DEF SetOverlay
    <3>3. QED
      BY <1>1, <1>4, <3>1, <3>2 DEF ScrollOK
  <2>2. CASE next.visible /\ ~overlay[o].visible
    <3>1. Covering' = Covering \cup {o} /\ o \notin Covering
      BY <1>2, <2>2 DEF Covering
    <3>2. Cardinality(Covering') = Cardinality(Covering) + 1
      BY <1>4, <3>1, FS_AddElement
    <3>3. LockScroll
      BY <2>2 DEF SetOverlay
    <3>4. locks' = locks + 1 /\ scroll' = [style |-> "hidden", saved |-> "page"]
      BY <1>1, <1>4, <3>3 DEF LockScroll
    <3>5. QED
      BY <1>1, <1>4, <3>1, <3>2, <3>4 DEF ScrollOK
  <2>3. CASE ~next.visible /\ overlay[o].visible
    <3>1. Covering' = Covering \ {o} /\ o \in Covering
      BY <1>2, <2>3 DEF Covering
    <3>2. Cardinality(Covering') = Cardinality(Covering) - 1 /\ IsFiniteSet(Covering')
      BY <1>4, <3>1, FS_RemoveElement
    <3>3. UnlockScroll /\ locks # 0 /\ scroll = [style |-> "hidden", saved |-> "page"]
      BY <1>4, <2>3, <3>1 DEF SetOverlay
    <3>4. locks' = locks - 1 /\ (locks' = 0 <=> Covering' = {})
      BY <1>1, <1>4, <3>2, <3>3, FS_EmptySet DEF UnlockScroll
    <3>5. scroll' = IF locks' = 0 THEN [style |-> "page", saved |-> None]
                                  ELSE [style |-> "hidden", saved |-> "page"]
      BY <1>1, <3>3, <3>4 DEF UnlockScroll
    <3>6. QED
      BY <1>1, <1>4, <3>2, <3>3, <3>4, <3>5 DEF ScrollOK
  <2>4. next.visible \in BOOLEAN /\ overlay[o].visible \in BOOLEAN
    BY <1>1 DEF Overlay
  <2>5. QED
    BY <2>1, <2>2, <2>3, <2>4
<1>6. UiTypeOK'
  <2>1. scroll' \in [style : {"page", "hidden", None}, saved : {"page", "hidden", None}]
    BY <1>5 DEF ScrollOK
  <2>2. QED
    BY <1>1, <1>2, <1>5, <2>1 DEF UiInv, UiTypeOK, Overlay
<1>7. QED
  BY <1>2, <1>3, <1>5, <1>6 DEF UiInv

\* No action on an overlay hides it before its minimum time is over, unless it goes.
Spared(o) == overlay[o].visible /\ ~overlay'[o].visible /\ overlay'[o].mounted =>
                 overlay[o].age = MinDuration

LEMMA OverlayActions ==
    ASSUME UiInv, NEW o \in Overlays,
           \/ \E open \in BOOLEAN : MountOverlay(o, open)
           \/ UnmountOverlay(o) \/ OpenOverlay(o) \/ CloseOverlay(o) \/ HideTimer(o)
    PROVE  UiInv' /\ \A other \in Overlays : Spared(other)
<1> DEFINE v == overlay[o]
<1>1. v \in Overlay /\ OverlayOK(v) /\ MinDuration \in Nat /\ None \notin 0 .. MinDuration
  BY UiAssumption DEF UiInv, UiTypeOK, Overlay
<1>2. ASSUME NEW next \in Overlay, OverlayOK(next), SetOverlay(o, next),
             v.visible /\ ~next.visible /\ next.mounted => v.age = MinDuration
      PROVE  UiInv' /\ \A other \in Overlays : Spared(other)
  BY <1>2, SetOverlayIs DEF Spared
<1>3. ASSUME NEW open \in BOOLEAN, MountOverlay(o, open)
      PROVE  UiInv' /\ \A other \in Overlays : Spared(other)
  <2> DEFINE next == [mounted |-> TRUE, open |-> open, visible |-> open,
                      age |-> IF open THEN 0 ELSE None, timer |-> None]
  <2>1. next \in Overlay /\ OverlayOK(next)
    BY <1>1 DEF Overlay, OverlayOK
  <2>2. SetOverlay(o, next) /\ ~v.visible
    BY <1>1, <1>3 DEF MountOverlay, OverlayOK
  <2> HIDE DEF next
  <2>3. QED
    BY <1>2, <2>1, <2>2
<1>4. CASE UnmountOverlay(o)
  <2>1. SetOverlay(o, NoOverlay) /\ ~NoOverlay.mounted
    BY <1>4 DEF UnmountOverlay, NoOverlay
  <2>2. QED
    BY <1>2, <2>1, NoOverlayIs
<1>5. CASE OpenOverlay(o)
  <2> DEFINE next == [v EXCEPT !.open = TRUE, !.visible = TRUE, !.age = 0, !.timer = None]
  <2>1. v.mounted /\ 0 \in 0 .. MinDuration /\ 0 # None
    BY <1>1, <1>5 DEF OpenOverlay
  <2>2. /\ next \in Overlay /\ next.mounted /\ next.visible
        /\ next.age = 0 /\ next.timer = None
    BY <1>1, <2>1 DEF Overlay
  <2>3. OverlayOK(next)
    BY <2>1, <2>2 DEF OverlayOK
  <2>4. SetOverlay(o, next)
    BY <1>5 DEF OpenOverlay
  <2> HIDE DEF next
  <2>5. QED
    BY <1>2, <2>2, <2>3, <2>4
<1>6. CASE CloseOverlay(o)
  <2>1. v.mounted /\ v.open /\ v.visible /\ v.age \in 0 .. MinDuration
    BY <1>1, <1>6 DEF CloseOverlay, OverlayOK, Overlay
  <2>2. CASE v.age < MinDuration
    <3> DEFINE next == [v EXCEPT !.open = FALSE, !.timer = MinDuration - v.age]
    <3>1. MinDuration - v.age \in 0 .. MinDuration /\ MinDuration - v.age + v.age = MinDuration
      BY <1>1, <2>1
    <3>2. /\ next \in Overlay /\ ~next.open /\ next.mounted /\ next.visible
          /\ next.age = v.age /\ next.timer = MinDuration - v.age
      BY <1>1, <2>1, <3>1 DEF Overlay
    <3>3. SetOverlay(o, next)
      BY <1>6, <2>2 DEF CloseOverlay
    <3> HIDE DEF next
    <3>4. next.age # None /\ next.timer + next.age >= MinDuration
      BY <1>1, <2>1, <3>1, <3>2
    <3>5. OverlayOK(next)
      BY <3>2, <3>4 DEF OverlayOK
    <3>6. QED
      BY <1>2, <3>2, <3>3, <3>5
  <2>3. CASE ~(v.age < MinDuration)
    <3> DEFINE next == [v EXCEPT !.open = FALSE, !.visible = FALSE, !.age = None]
    <3>1. v.age = MinDuration /\ v.timer = None
      BY <1>1, <1>6, <2>1, <2>3 DEF CloseOverlay, OverlayOK
    <3>2. next \in Overlay /\ OverlayOK(next)
      BY <1>1, <3>1 DEF Overlay, OverlayOK
    <3>3. SetOverlay(o, next)
      BY <1>6, <2>3 DEF CloseOverlay
    <3> HIDE DEF next
    <3>4. QED
      BY <1>2, <3>1, <3>2, <3>3
  <2>4. QED
    BY <2>2, <2>3
<1>7. CASE HideTimer(o)
  <2> DEFINE next == [v EXCEPT !.visible = FALSE, !.age = None, !.timer = None]
  <2>1. v.timer = 0 /\ SetOverlay(o, next)
    BY <1>7 DEF HideTimer
  <2>2. v.visible /\ v.age \in 0 .. MinDuration /\ v.age = MinDuration
    BY <1>1, <2>1 DEF OverlayOK, Overlay
  <2>3. ~v.open
    BY <1>1, <2>1 DEF OverlayOK
  <2>4. /\ next \in Overlay /\ ~next.open /\ ~next.visible /\ next.timer = None
    BY <1>1, <2>3 DEF Overlay
  <2> HIDE DEF next
  <2>5. OverlayOK(next)
    BY <2>4 DEF OverlayOK
  <2>6. QED
    BY <1>2, <2>1, <2>2, <2>4, <2>5
<1>8. QED
  BY <1>3, <1>4, <1>5, <1>6, <1>7

LEMMA TickStep ==
    ASSUME UiInv, Tick
    PROVE  UiInv' /\ \A o \in Overlays : Spared(o)
<1>1. MinDuration \in Nat /\ None \notin 0 .. MinDuration /\ overlay \in [Overlays -> Overlay]
  BY UiAssumption DEF UiInv, UiTypeOK, Overlay
<1>2. UNCHANGED <<toasts, timers, stale, locks, scroll>>
  BY DEF Tick, toastVars
<1> DEFINE older(v) == IF v.age = None \/ v.age = MinDuration THEN v.age ELSE v.age + 1
           nearer(v) == IF v.timer = None \/ v.timer = 0 THEN v.timer ELSE v.timer - 1
<1>3. overlay' = [o \in Overlays |-> [overlay[o] EXCEPT !.age = older(overlay[o]),
                                                        !.timer = nearer(overlay[o])]]
  BY DEF Tick
<1>4. ASSUME NEW v \in Overlay, OverlayOK(v)
      PROVE  LET next == [v EXCEPT !.age = older(v), !.timer = nearer(v)]
             IN next \in Overlay /\ OverlayOK(next) /\ next.visible = v.visible
  <2>1. older(v) \in 0 .. MinDuration \cup {None} /\ nearer(v) \in 0 .. MinDuration \cup {None}
    BY <1>1 DEF Overlay
  <2>2. /\ v.age = None <=> older(v) = None
        /\ v.timer = None <=> nearer(v) = None
    BY <1>1 DEF Overlay
  <2>3. ASSUME v.timer # None, v.age # None, v.timer + v.age >= MinDuration
        PROVE  nearer(v) + older(v) >= MinDuration
    BY <1>1, <2>3 DEF Overlay
  <2> HIDE DEF older, nearer
  <2> DEFINE next == [v EXCEPT !.age = older(v), !.timer = nearer(v)]
  <2>4. /\ next \in Overlay /\ next.open = v.open /\ next.visible = v.visible
        /\ next.mounted = v.mounted /\ next.age = older(v) /\ next.timer = nearer(v)
    BY <2>1 DEF Overlay
  <2> HIDE DEF next
  <2>5. /\ next.open => next.visible /\ next.timer = None
        /\ next.visible => next.mounted /\ next.age # None
    BY <1>4, <2>2, <2>4 DEF OverlayOK
  <2>6. ASSUME next.timer # None
        PROVE  next.visible /\ next.timer + next.age >= MinDuration
    <3>1. v.timer # None /\ v.visible /\ v.age # None /\ v.timer + v.age >= MinDuration
      BY <1>4, <2>2, <2>4, <2>6 DEF OverlayOK
    <3>2. QED
      BY <2>3, <2>4, <3>1
  <2>7. OverlayOK(next)
    BY <2>5, <2>6 DEF OverlayOK
  <2>8. QED
    BY <2>4, <2>7 DEF next
<1> HIDE DEF older, nearer
<1>5. \A o \in Overlays : overlay'[o] \in Overlay /\ OverlayOK(overlay'[o])
                          /\ overlay'[o].visible = overlay[o].visible
  BY <1>1, <1>3, <1>4 DEF UiInv
<1>6. overlay' \in [Overlays -> Overlay]
  BY <1>3, <1>5
<1>7. Covering' = Covering
  BY <1>5 DEF Covering
<1>8. UiInv'
  BY <1>2, <1>5, <1>6, <1>7 DEF UiInv, UiTypeOK, ScrollOK, Overlay
<1>9. QED
  BY <1>5, <1>8 DEF Spared

LEMMA ToastKeeps ==
    ASSUME UiInv, ToastStep \/ UNCHANGED uiVars
    PROVE  UiInv' /\ \A o \in Overlays : Spared(o)
<1>1. overlay' = overlay /\ locks' = locks /\ scroll' = scroll
  BY DEF ToastStep, EnqueueToast, CloseToast, ToastTimer, Dismiss, RunToastEffect, uiVars, overlayVars
<1>2. toasts' \subseteq Toasts /\ timers' \subseteq Toasts /\ stale' \in BOOLEAN
  BY DEF UiInv, UiTypeOK, ToastStep, EnqueueToast, CloseToast, ToastTimer, Dismiss, RunToastEffect,
         uiVars
<1>3. UiInv'
  BY <1>1, <1>2 DEF UiInv, UiTypeOK, ScrollOK, Covering
<1>4. QED
  BY <1>1, <1>3 DEF Spared

LEMMA UiStep ==
    ASSUME UiInv, [ToastStep \/ OverlayStep]_uiVars
    PROVE  UiInv' /\ \A o \in Overlays : Spared(o)
<1>1. CASE Tick
  BY <1>1, TickStep
<1>2. CASE ToastStep \/ UNCHANGED uiVars
  BY <1>2, ToastKeeps
<1>3. CASE \E o \in Overlays : \/ \E open \in BOOLEAN : MountOverlay(o, open)
                               \/ UnmountOverlay(o) \/ OpenOverlay(o) \/ CloseOverlay(o)
                               \/ HideTimer(o)
  BY <1>3, OverlayActions
<1>4. QED
  BY <1>1, <1>2, <1>3 DEF OverlayStep

\* The count of locks is that of the overlays shown, and a timer never ends early.
THEOREM UiInvHolds == UiSpec => []UiInv
<1>1. UiInit => UiInv
  <2>1. ASSUME UiInit
        PROVE  UiInv
    <3>1. \A o \in Overlays : overlay[o] = NoOverlay
      BY <2>1 DEF UiInit
    <3>2. Covering = {}
      BY <3>1, NoOverlayIs DEF Covering
    <3>3. ScrollOK
      BY <2>1, <3>2, FS_EmptySet DEF UiInit, ScrollOK
    <3>4. UiTypeOK
      BY <2>1, NoOverlayIs DEF UiInit, UiTypeOK, Overlay
    <3>5. QED
      BY <3>1, <3>3, <3>4, NoOverlayIs DEF UiInv
  <2>2. QED
    BY <2>1
<1>2. UiInv /\ [ToastStep \/ OverlayStep]_uiVars => UiInv'
  BY UiStep
<1>3. QED
  BY <1>1, <1>2, PTL DEF UiSpec

\* Toasts, timers, overlays and the lock keep their types.
THEOREM UiTypeCorrect == UiSpec => []UiTypeOK
<1>1. UiInv => UiTypeOK
  BY DEF UiInv
<1>2. QED
  BY <1>1, UiInvHolds, PTL

\* However many overlays open, close, replace each other and are removed while they are
\* shown, the page is locked exactly while one of them is shown, and ends as it began.
THEOREM ScrollIsRestored == UiSpec => []ScrollFollowsOverlays
<1>1. UiInv => ScrollFollowsOverlays
  BY DEF UiInv, ScrollOK, Covering, OverlayOK, ScrollFollowsOverlays
<1>2. QED
  BY <1>1, UiInvHolds, PTL

\* No overlay flashes, whenever it is closed, opened again and closed.
THEOREM NoFlash == UiSpec => ShownLongEnough
<1>1. UiInv /\ [ToastStep \/ OverlayStep]_uiVars =>
        [\A o \in Overlays : overlay[o].visible /\ ~overlay'[o].visible /\ overlay'[o].mounted =>
              overlay[o].age = MinDuration]_uiVars
  BY UiStep DEF Spared
<1>2. QED
  BY <1>1, UiInvHolds, PTL DEF UiSpec, ShownLongEnough
=============================================================================
