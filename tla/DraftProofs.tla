---------------------------- MODULE DraftProofs -----------------------------
(***************************************************************************)
(* Theorems about Draft, for any number of drafts, presses and faults.     *)
(***************************************************************************)
EXTENDS Draft, SequenceTheorems, TLAPS

-----------------------------------------------------------------------------
(* Answers.                                                                *)

\* The order of the answers, to all but the offsets, is that of the questions.
Chosen(g) == \A x \in g : x[2] \notin {Start, End} => x[1] <= x[2]

\* The number pad asks for the price before anything that rests on it.
PriceFirst(g, e) == e = Base => Answered(g) \subseteq {Symbol, Basis}

Answers == {g \in SUBSET (Questions \X Questions) : IsOrder(g)}

\* What is answered once q is.
LEMMA GivenAnswered ==
  ASSUME NEW g \in Answers, NEW q \in Questions
  PROVE  Answered(Given(g, q)) = Answered(g) \cup {q}
  BY DEF Answers, Given, Answered, Questions

LEMMA GivenIsAnOrder ==
  ASSUME NEW g \in Answers, NEW q \in Questions
  PROVE  Given(g, q) \in Answers
  <1> DEFINE others == {x \in g : x[1] # q /\ x[2] # q}
             h == Given(g, q)
  <1>1. h = others \cup {<<r, q>> : r \in Answered(others) \cup {q}}
    BY DEF Given
  <1>2. Answered(others) = Answered(g) \ {q}
    BY DEF Answered
  <1>3. \A r, s \in Questions : <<r, s>> \in h <=>
          IF s = q THEN r \in Answered(g) \cup {q} ELSE r # q /\ <<r, s>> \in g
    BY <1>1, <1>2 DEF Answers, Questions
  <1>4. Answered(h) = Answered(g) \cup {q}
    BY GivenAnswered
  <1>5. h \subseteq Questions \X Questions
    <2>1. others \subseteq Questions \X Questions
      BY DEF Answers
    <2>2. Answered(others) \cup {q} \subseteq Questions
      BY DEF Answered
    <2> HIDE DEF others, h
    <2> QED BY <1>1, <2>1, <2>2
  <1>6. h \subseteq Answered(h) \X Answered(h)
    BY <1>3, <1>4, <1>5 DEF Answers, IsOrder
  <1>7. ASSUME NEW r \in Answered(h), NEW s \in Answered(h), r # s
        PROVE  <<r, s>> \in h <=> <<s, r>> \notin h
    <2>1. r \in Questions /\ s \in Questions /\ q \in Questions
      BY DEF Answered
    <2>2. \A a, b \in Answered(g) : a # b => (<<a, b>> \in g <=> <<b, a>> \notin g)
      BY DEF Answers, IsOrder
    <2>3. CASE s = q
      BY <2>1, <2>3, <1>3, <1>4, <1>7
    <2>4. CASE r = q
      BY <2>1, <2>4, <1>3, <1>4, <1>7
    <2>5. CASE r # q /\ s # q
      <3>1. r \in Answered(g) /\ s \in Answered(g)
        BY <2>5, <1>4
      <3> QED BY <3>1, <2>1, <2>2, <2>5, <1>3, <1>7
    <2> QED BY <2>3, <2>4, <2>5
  <1> HIDE DEF h
  <1> QED BY <1>5, <1>6, <1>7 DEF Answers, IsOrder, h

LEMMA ClearedIsAnOrder ==
  ASSUME NEW g \in Answers, NEW q \in 0..Preview
  PROVE  Cleared(g, q) \in Answers
  <1>1. Cleared(g, q) \subseteq g
    BY DEF Cleared
  <1>2. Answered(Cleared(g, q)) = {r \in Answered(g) : r < q}
    BY DEF Cleared, Answered
  <1>3. \A r, s \in Questions : <<r, s>> \in Cleared(g, q) <=> <<r, s>> \in g /\ r < q /\ s < q
    BY DEF Cleared
  <1>4. Cleared(g, q) \subseteq Answered(Cleared(g, q)) \X Answered(Cleared(g, q))
    BY <1>1, <1>2, <1>3 DEF Answers, IsOrder
  <1>5. ASSUME NEW r \in Answered(Cleared(g, q)), NEW s \in Answered(Cleared(g, q)), r # s
        PROVE  <<r, s>> \in Cleared(g, q) <=> <<s, r>> \notin Cleared(g, q)
    BY <1>2, <1>3, <1>5 DEF Answers, IsOrder, Answered
  <1> QED BY <1>1, <1>4, <1>5 DEF Answers, IsOrder

\* An offset may be replaced at any time, any other answer once nothing is left
\* that was answered after it.
LEMMA StaysChosen ==
  ASSUME NEW g \in Answers, Chosen(g)
  PROVE  /\ \A q \in 0..Preview : Chosen(Cleared(g, q))
         /\ \A q \in {Start, End} : Chosen(Given(g, q))
         /\ \A q \in Questions : (\A r \in Answered(g) : r <= q) => Chosen(Given(g, q))
         /\ \A q \in Questions : Chosen(Given(Cleared(g, q), q))
  <1>1. \A q \in 0..Preview : Chosen(Cleared(g, q))
    BY DEF Chosen, Cleared
  <1>2. ASSUME NEW q \in {Start, End} PROVE Chosen(Given(g, q))
    <2>1. ASSUME NEW x \in Given(g, q), x[2] \notin {Start, End} PROVE x \in g
      <3>1. \A r : x # <<r, q>>
        BY <2>1
      <3> QED BY <3>1 DEF Given
    <2> QED BY <2>1 DEF Chosen
  <1>3. ASSUME NEW h \in Answers, Chosen(h), NEW q \in Questions, \A r \in Answered(h) : r <= q
        PROVE  Chosen(Given(h, q))
    <2> DEFINE others == {x \in h : x[1] # q /\ x[2] # q}
    <2>1. \A r \in Answered(others) \cup {q} : r <= q
      BY <1>3 DEF Answered, Questions
    <2>2. ASSUME NEW x \in Given(h, q), x[2] \notin {Start, End} PROVE x[1] <= x[2]
      <3>1. CASE x \in others
        BY <3>1, <1>3, <2>2 DEF Chosen
      <3>2. ASSUME NEW r \in Answered(others) \cup {q}, x = <<r, q>> PROVE x[1] <= x[2]
        BY <3>2, <2>1
      <3> QED BY <3>1, <3>2 DEF Given
    <2> QED BY <2>2 DEF Chosen
  <1>4. ASSUME NEW q \in Questions PROVE Chosen(Given(Cleared(g, q), q))
    <2>1. q \in 0..Preview
      BY DEF Questions, Preview
    <2>2. \A r \in Answered(Cleared(g, q)) : r <= q
      BY DEF Answered, Cleared, Questions
    <2> QED BY <1>1, <1>3, <2>1, <2>2, ClearedIsAnOrder
  <1> QED BY <1>1, <1>2, <1>3, <1>4

\* What is left to answer again once an answer is taken back.
LEMMA ClearedAnswers ==
  ASSUME NEW g, NEW q
  PROVE  Answered(Cleared(g, q)) \subseteq {r \in Questions : r < q}
  BY DEF Answered, Cleared

-----------------------------------------------------------------------------
(* Screens and presses.                                                    *)

Drawable ==
  {s \in [kind : {"note", "question", "keypad", "preview", "blocked", "beside"}, q : 0..Preview] :
     s.kind = "question" => s.q \in Questions}

\* Step finds a question or comes to the preview.
LEMMA StepType == ASSUME NEW g PROVE Step(g) \in Questions \cup {Preview}
  <1> DEFINE missing == Questions \ Answered(g)
  <1>1. ASSUME missing # {} PROVE \E q \in missing : \A r \in missing : q <= r
    <2>1. missing \subseteq {1, 2, 3, 4, 5, 6, 7}
      BY DEF Questions
    <2> HIDE DEF missing
    <2> SUFFICES ASSUME \A q \in missing : \E r \in missing : r < q PROVE FALSE
      BY <2>1
    <2>2. 1 \notin missing /\ 2 \notin missing /\ 3 \notin missing
      BY <2>1
    <2>3. 4 \notin missing /\ 5 \notin missing
      BY <2>1, <2>2
    <2>4. 6 \notin missing /\ 7 \notin missing
      BY <2>1, <2>2, <2>3
    <2> QED BY <1>1, <2>1, <2>2, <2>3, <2>4
  <1>2. ASSUME missing # {} PROVE (CHOOSE q \in missing : \A r \in missing : q <= r) \in missing
    <2> HIDE DEF missing
    <2> QED BY <1>1, <1>2
  <1> QED BY <1>2 DEF Step

LEMMA ScreensAreDrawable ==
  /\ Note \subseteq Drawable /\ Beside \subseteq Drawable
  /\ \A g, e : Screens(g, e) \subseteq Drawable
  <1>1. Note \subseteq Drawable /\ Beside \subseteq Drawable
    BY DEF Note, Beside, Screen, Drawable, Preview
  <1>2. ASSUME NEW g, NEW e PROVE Screens(g, e) \subseteq Drawable
    <2>1. Step(g) \in Questions \cup {Preview}
      BY StepType
    <2>2. CASE Step(g) = Preview
      <3>1. \A kind \in {"keypad", "preview", "blocked"} : Screen(kind, 0) \in Drawable
        BY DEF Screen, Drawable, Preview
      <3> QED BY <2>2, <3>1 DEF Screens
    <2>3. CASE Step(g) \in Questions
      <3>1. Step(g) \in 0..Preview /\ Step(g) # Preview
        BY <2>3 DEF Questions, Preview
      <3>2. Screen("question", Step(g)) \in Drawable /\ Screen("keypad", 0) \in Drawable
        BY <2>3, <3>1 DEF Screen, Drawable, Preview
      <3> QED BY <3>1, <3>2, <1>1 DEF Screens
    <2> QED BY <2>1, <2>2, <2>3
  <1> QED BY <1>1, <1>2

\* A sequence of elements of S changed element by element is one still.
LEMMA ChangedInPlace ==
  ASSUME NEW S, NEW s \in Seq(S), NEW t, t = [i \in DOMAIN s |-> t[i]],
         \A i \in DOMAIN s : t[i] \in S
  PROVE  t \in Seq(S) /\ Len(t) = Len(s)
  <1>1. DOMAIN s = 1..Len(s) /\ Len(s) \in Nat
    OBVIOUS
  <1>2. t \in [1..Len(s) -> S]
    BY <1>1
  <1> QED BY <1>1, <1>2

\* What a handler leaves to be shown and to be handled.
LEMMA FinishTypes ==
  ASSUME TypeOK, queue # <<>>, NEW d \in Drafts, NEW changed \in BOOLEAN,
         NEW screens \in SUBSET Drawable, Finish(d, changed, screens)
  PROVE  /\ shown' \in [Drafts -> AnyScreen]
         /\ queue' \in Seq(AnyPress) /\ Len(queue') <= MaxPresses
         /\ faults' \in 0..MaxFaults
         /\ clock' \in 0..MaxClock /\ startedAt' \in 0..clock'
  <1>1. PICK screen \in screens, drawn \in BOOLEAN, again \in BOOLEAN, at \in Dates :
          LET now    == IF drawn /\ screen.kind # "beside"
                        THEN [kind |-> screen.kind, q |-> screen.q, seen |-> TRUE, old |-> FALSE,
                              at |-> IF screen.kind = "preview" THEN at ELSE 0]
                        ELSE [shown[d] EXCEPT !.seen = @ /\ ~changed]
              left   == IF again THEN queue ELSE Tail(queue)
              others == [i \in DOMAIN left |-> IF changed THEN Outdated(left[i], d) ELSE left[i]]
          IN /\ screen.kind = "beside" => drawn
             /\ Costs(One(~drawn) + One(again))
             /\ IF again
                THEN /\ shown' = [e \in Drafts |-> Aged(IF e = d THEN now ELSE shown[e])]
                     /\ queue' = [i \in DOMAIN others |-> Late(others[i])]
                     /\ clock' \in clock..MaxClock /\ startedAt' = clock'
                ELSE /\ shown' = [shown EXCEPT ![d] = now]
                     /\ queue' = others
                     /\ UNCHANGED time
    BY DEF Finish
  <1> DEFINE now    == IF drawn /\ screen.kind # "beside"
                       THEN [kind |-> screen.kind, q |-> screen.q, seen |-> TRUE, old |-> FALSE,
                             at |-> IF screen.kind = "preview" THEN at ELSE 0]
                       ELSE [shown[d] EXCEPT !.seen = @ /\ ~changed]
             left   == IF again THEN queue ELSE Tail(queue)
             others == [i \in DOMAIN left |-> IF changed THEN Outdated(left[i], d) ELSE left[i]]
  <1>2. faults' \in 0..MaxFaults
    BY <1>1, ConstantsAssumption DEF Costs, One, TypeOK
  <1>10. clock' \in 0..MaxClock /\ startedAt' \in 0..clock'
    BY <1>1, ConstantsAssumption DEF time, TypeOK
  <1>3. now \in AnyScreen
    <2>1. shown[d] \in AnyScreen
      BY DEF TypeOK
    <2>2. screen \in Drawable /\ at \in Nat
      BY ConstantsAssumption DEF Dates
    <2>3. CASE drawn /\ screen.kind # "beside"
      BY <2>2, <2>3 DEF Drawable, AnyScreen
    <2>4. CASE ~(drawn /\ screen.kind # "beside")
      BY <2>1, <2>4 DEF AnyScreen
    <2> QED BY <2>3, <2>4
  <1>4. \A s \in AnyScreen : Aged(s) \in AnyScreen
    BY DEF AnyScreen, Aged
  <1>5. \A p \in AnyPress : Late(p) \in AnyPress /\ Outdated(p, d) \in AnyPress
    BY DEF AnyPress, Late, Outdated
  <1>6. left \in Seq(AnyPress) /\ Len(left) <= MaxPresses
    BY ConstantsAssumption DEF TypeOK
  <1>7. others \in Seq(AnyPress) /\ Len(others) = Len(left)
    <2> HIDE DEF left
    <2>1. \A i \in DOMAIN left : others[i] \in AnyPress
      BY <1>5, <1>6
    <2>2. others = [i \in DOMAIN left |-> others[i]]
      OBVIOUS
    <2> HIDE DEF others
    <2> QED BY <1>6, <2>1, <2>2, ChangedInPlace
  <1>8. shown' \in [Drafts -> AnyScreen]
    <2> HIDE DEF now, others
    <2>1. CASE again
      <3>1. shown' = [e \in Drafts |-> Aged(IF e = d THEN now ELSE shown[e])]
        BY <1>1, <2>1 DEF now
      <3> QED BY <3>1, <1>3, <1>4 DEF TypeOK
    <2>2. CASE ~again
      <3>1. shown' = [shown EXCEPT ![d] = now]
        BY <1>1, <2>2 DEF now
      <3> QED BY <3>1, <1>3 DEF TypeOK
    <2> QED BY <2>1, <2>2
  <1>9. queue' \in Seq(AnyPress) /\ Len(queue') = Len(others)
    <2>1. CASE again
      <3>1. queue' = [i \in DOMAIN others |-> Late(others[i])]
        BY <1>1, <2>1
      <3> HIDE DEF others
      <3>2. queue' = [i \in DOMAIN others |-> queue'[i]] /\ \A i \in DOMAIN others : queue'[i] \in AnyPress
        BY <3>1, <1>5, <1>7
      <3> QED BY <3>2, <1>7, ChangedInPlace
    <2>2. CASE ~again
      BY <1>1, <1>7, <2>2
    <2> QED BY <2>1, <2>2
  <1> QED BY <1>2, <1>6, <1>7, <1>8, <1>9, <1>10

\* A button can only send what its handler expects.
LEMMA ButtonsArePresses ==
  ASSUME NEW s \in AnyScreen, NEW b \in Buttons(s), NEW d \in Drafts
  PROVE  PressOf(d, b, s) \in AnyPress
  <1>1. s.q \in 0..Preview /\ s.seen \in BOOLEAN /\ s.old \in BOOLEAN /\ s.at \in Nat
        /\ (s.kind = "question" => s.q \in Questions)
    BY DEF AnyScreen
  <1>2. /\ b.what \in Whats /\ b.q \in 0..Preview
        /\ b.what = "answer" => b.q \in Questions
        /\ b.what = "enter" => b.q \in {Start, End}
    <2> USE DEF Pressed, Whats, Questions, Preview, Symbol, Basis, Base, Start, End, Total
    <2>1. CASE s.kind = "question" /\ s.q = Symbol
      BY <2>1 DEF Buttons
    <2>2. CASE s.kind = "question" /\ s.q = Basis
      BY <2>2 DEF Buttons
    <2>3. CASE s.kind = "question" /\ s.q \in {Start, End}
      BY <2>3 DEF Buttons
    <2>4. CASE s.kind = "question" /\ s.q \notin {Symbol, Basis, Start, End}
      BY <2>4, <1>1 DEF Buttons
    <2>5. CASE s.kind = "keypad"
      BY <2>5 DEF Buttons
    <2>6. CASE s.kind = "preview"
      BY <2>6 DEF Buttons
    <2>7. CASE s.kind = "blocked"
      BY <2>7 DEF Buttons
    <2>8. CASE s.kind \notin {"question", "keypad", "preview", "blocked"}
      BY <2>8 DEF Buttons
    <2> QED BY <2>1, <2>2, <2>3, <2>4, <2>5, <2>6, <2>7, <2>8
  <1> QED BY <1>1, <1>2 DEF PressOf, AnyPress

-----------------------------------------------------------------------------
(* The steps.                                                              *)

Entries == {0, Base, Start, End, Total}

LEMMA HeadIsAPress ==
  ASSUME TypeOK, queue # <<>>
  PROVE  /\ Its \in AnyPress /\ Its.d \in Drafts /\ given[Its.d] \in Answers
         /\ Its.q \in 0..Preview
         /\ Its.what = "answer" => Its.q \in Questions
         /\ Its.what = "enter" => Its.q \in {Start, End}
  <1>1. Its \in AnyPress
    BY DEF TypeOK, Its
  <1> QED BY <1>1 DEF AnyPress, Answers, TypeOK

LEMMA AnswerStep ==
  ASSUME DraftOK, queue # <<>>, NEW d \in Drafts, NEW g \in Answers, Chosen(g),
         NEW e \in Entries, PriceFirst(g, e), NEW changed \in BOOLEAN, Answer(d, g, e, changed)
  PROVE  DraftOK'
  <1> USE DEF DraftOK
  <1>1. Finish(d, changed, Screens(g, e)) /\ Screens(g, e) \subseteq Drawable
    BY ScreensAreDrawable DEF Answer
  <1>2. /\ shown' \in [Drafts -> AnyScreen] /\ queue' \in Seq(AnyPress)
        /\ Len(queue') <= MaxPresses /\ faults' \in 0..MaxFaults
        /\ clock' \in 0..MaxClock /\ startedAt' \in 0..clock'
    BY <1>1, FinishTypes
  <1>3. given' = [given EXCEPT ![d] = g] /\ entry' = [entry EXCEPT ![d] = e]
        /\ UNCHANGED <<state, prompt, unseen, outlived>>
    BY DEF Answer, history
  <1>4. TypeOK'
    BY <1>2, <1>3 DEF TypeOK, Answers, Entries
  <1>5. ChosenInOrder'
    BY <1>3 DEF TypeOK, Chosen, ChosenInOrder
  <1>6. PriceIsAskedFirst'
    BY <1>3 DEF TypeOK, PriceFirst, PriceIsAskedFirst
  <1> QED BY <1>4, <1>5, <1>6

\* A handler that leaves the answers alone.
LEMMA KeepStep ==
  ASSUME DraftOK, queue # <<>>, UNCHANGED <<given, history>>,
         entry' \in [Drafts -> Entries], \A d \in Drafts : entry'[d] \in {0, entry[d]},
         prompt' \in Drafts \cup {NoDraft},
         state' \in [Drafts -> {"NONE", "DRAFT", "SENT", "GONE"}],
         NEW d \in Drafts, NEW screens \in SUBSET Drawable, Finish(d, FALSE, screens)
  PROVE  DraftOK'
  <1> USE DEF DraftOK
  <1>1. /\ shown' \in [Drafts -> AnyScreen] /\ queue' \in Seq(AnyPress)
        /\ Len(queue') <= MaxPresses /\ faults' \in 0..MaxFaults
        /\ clock' \in 0..MaxClock /\ startedAt' \in 0..clock'
    BY FinishTypes
  <1>2. TypeOK'
    BY <1>1 DEF TypeOK, Entries, history
  <1>3. PriceIsAskedFirst'
    BY DEF PriceIsAskedFirst, Answered, Base
  <1> QED BY <1>2, <1>3 DEF ChosenInOrder

LEMMA RefuseStep ==
  ASSUME DraftOK, queue # <<>>, NEW d \in Drafts, Refuse(d)
  PROVE  DraftOK'
  <1>1. UNCHANGED <<state, given, entry, prompt, history>> /\ Finish(d, FALSE, Note)
    BY DEF Refuse, rows
  <1>2. /\ entry' \in [Drafts -> Entries] /\ prompt' \in Drafts \cup {NoDraft}
        /\ state' \in [Drafts -> {"NONE", "DRAFT", "SENT", "GONE"}]
    BY <1>1 DEF DraftOK, TypeOK, Entries
  <1>3. \A e \in Drafts : entry'[e] \in {0, entry[e]}
    BY <1>1
  <1> QED BY <1>1, <1>2, <1>3, ScreensAreDrawable, KeepStep

\* The presses that answer a question or take an answer back.
LEMMA QuestionsStep ==
  ASSUME DraftOK,
         SetField \/ SetBasis \/ SetManual \/ SetTotal \/ SetTotalByHand \/ Enter \/ Back
  PROVE  DraftOK'
  <1> DEFINE d == Its.d  g == given[d]
  <1>1. queue # <<>>
    BY DEF SetField, SetBasis, SetManual, SetTotal, SetTotalByHand, Enter, Back, Next1
  <1>2. /\ d \in Drafts /\ g \in Answers /\ Chosen(g) /\ Its.q \in 0..Preview
        /\ Its.what = "answer" => Its.q \in Questions
        /\ Its.what = "enter" => Its.q \in {Start, End}
    BY <1>1, HeadIsAPress DEF DraftOK, ChosenInOrder, Chosen
  <1>3. /\ \A q \in 0..Preview : Cleared(g, q) \in Answers /\ Chosen(Cleared(g, q))
        /\ \A q \in Questions : /\ Given(Cleared(g, q), q) \in Answers
                                /\ Chosen(Given(Cleared(g, q), q))
    <2>1. \A q \in 0..Preview : Cleared(g, q) \in Answers
      BY <1>2, ClearedIsAnOrder
    <2>2. \A q \in Questions : Given(Cleared(g, q), q) \in Answers
      BY <2>1, GivenIsAnOrder DEF Questions, Preview
    <2> QED BY <2>1, <2>2, <1>2, StaysChosen
  <1>13. /\ \A h, e : e # Base => PriceFirst(h, e)
         /\ 0 # Base /\ Total # Base /\ Start # Base /\ End # Base
    BY DEF PriceFirst, Base, Total, Start, End
  <1>4. 0 \in Entries /\ Base \in Entries /\ Total \in Entries /\ {Start, End} \subseteq Entries
    BY DEF Entries
  <1>5. Basis \in Questions /\ Total \in Questions /\ Base \in Questions
        /\ Total \in 0..Preview /\ Basis \in 0..Preview
    BY DEF Questions, Basis, Total, Base, Preview
  <1> HIDE DEF d, g
  <1>6. CASE SetField
    <2>1. Its.q \in Questions
      BY <1>2, <1>6 DEF SetField, Next1, Its
    <2> QED BY <1>1, <1>2, <1>3, <1>4, <1>6, <1>13, <2>1, AnswerStep, RefuseStep DEF SetField, d, g
  <1>7. CASE SetBasis
    <2> DEFINE h == Given(Cleared(g, Basis), Basis)
    <2>1. h \in Answers /\ Chosen(h)
      BY <1>3, <1>5
    <2>2. \A r \in Answered(h) : r <= Base
      <3>1. Answered(h) = Answered(Cleared(g, Basis)) \cup {Basis}
        BY <1>3, <1>5, GivenAnswered
      <3>2. Answered(Cleared(g, Basis)) \subseteq {r \in Questions : r < Basis}
        BY ClearedAnswers
      <3> QED BY <3>1, <3>2 DEF Basis, Base, Questions
    <2> HIDE DEF h
    <2>3. Given(h, Base) \in Answers /\ Chosen(Given(h, Base))
      BY <2>1, <2>2, <1>5, GivenIsAnOrder, StaysChosen
    <2>4. CASE \E f \in {h, Given(h, Base)} : Answer(d, f, 0, TRUE)
      BY <1>1, <1>2, <1>4, <1>13, <2>1, <2>3, <2>4, AnswerStep
    <2> QED BY <1>1, <1>2, <2>4, <1>7, RefuseStep DEF SetBasis, d, g, h
  <1>8. CASE SetManual
    <2> DEFINE h == Given(Cleared(g, Basis), Basis)
    <2>1. h \in Answers /\ Chosen(h)
      BY <1>3, <1>5
    <2>2. PriceFirst(h, Base)
      <3>1. Answered(h) = Answered(Cleared(g, Basis)) \cup {Basis}
        BY <1>3, <1>5, GivenAnswered
      <3>2. Answered(Cleared(g, Basis)) \subseteq {r \in Questions : r < Basis}
        BY ClearedAnswers
      <3> QED BY <3>1, <3>2 DEF PriceFirst, Basis, Symbol, Questions
    <2> HIDE DEF h
    <2> QED BY <1>1, <1>2, <1>4, <1>8, <2>1, <2>2, AnswerStep, RefuseStep DEF SetManual, d, g, h
  <1>9. CASE SetTotal
    BY <1>1, <1>2, <1>3, <1>4, <1>5, <1>9, <1>13, AnswerStep, RefuseStep DEF SetTotal, d, g
  <1>10. CASE SetTotalByHand
    BY <1>1, <1>2, <1>3, <1>4, <1>5, <1>10, <1>13, AnswerStep, RefuseStep DEF SetTotalByHand, d, g
  <1>11. CASE Enter
    <2>1. Its.q \in Entries /\ Its.q \in {Start, End}
      BY <1>2, <1>4, <1>11 DEF Enter, Next1, Its
    <2> QED BY <1>1, <1>2, <1>3, <1>4, <1>11, <1>13, <2>1, AnswerStep, RefuseStep DEF Enter, d, g
  <1>12. CASE Back
    BY <1>1, <1>2, <1>3, <1>4, <1>12, <1>13, AnswerStep, RefuseStep DEF Back, d, g
  <1> QED BY <1>6, <1>7, <1>8, <1>9, <1>10, <1>11, <1>12

\* The keypad: a number is committed for the question it is open for, which is
\* an offset, or one that nothing answered follows.
LEMMA KeypadStep ==
  ASSUME DraftOK, Keypad \/ Commit \/ AskSymbol
  PROVE  DraftOK'
  <1> DEFINE d == Its.d
  <1>1. queue # <<>> /\ d \in Drafts /\ given[d] \in Answers /\ Chosen(given[d])
    <2>1. queue # <<>>
      BY DEF Keypad, Commit, AskSymbol, Next1
    <2> QED BY <2>1, HeadIsAPress DEF DraftOK, ChosenInOrder, Chosen
  <1>2. /\ entry \in [Drafts -> Entries] /\ prompt \in Drafts \cup {NoDraft}
        /\ state \in [Drafts -> {"NONE", "DRAFT", "SENT", "GONE"}]
    BY DEF DraftOK, TypeOK, Entries
  <1>6. 0 \in Entries /\ \A g : PriceFirst(g, 0)
    BY DEF Entries, PriceFirst, Base
  <1> HIDE DEF d
  <1>3. CASE Keypad
    <2>1. CASE Refuse(d)
      BY <1>1, <2>1, RefuseStep
    <2>2. CASE ~Refuse(d)
      <3>1. PICK e \in Entries : /\ e \in {0, entry[d]}
                                 /\ entry' = [entry EXCEPT ![d] = e] /\ UNCHANGED <<state, given, prompt, history>>
                                 /\ Finish(d, FALSE, Screens(given[d], e))
        BY <1>1, <1>2, <1>3, <2>2 DEF Keypad, d, Entries
      <3>2. entry' \in [Drafts -> Entries] /\ \A c \in Drafts : entry'[c] \in {0, entry[c]}
        BY <3>1, <1>2
      <3> QED BY <1>1, <1>2, <3>1, <3>2, ScreensAreDrawable, KeepStep
    <2> QED BY <2>1, <2>2
  <1>4. CASE Commit
    <2>1. CASE Refuse(d)
      BY <1>1, <2>1, RefuseStep
    <2>2. CASE UNCHANGED <<rows, prompt, history>> /\ Finish(d, FALSE, Screens(given[d], entry[d]))
      BY <1>1, <1>2, <2>2, ScreensAreDrawable, KeepStep DEF rows
    <2>3. CASE entry[d] # 0 /\ Answer(d, Given(given[d], entry[d]), 0, TRUE)
      <3>1. entry[d] \in {Base, Start, End, Total} /\ entry[d] \in Questions
        BY <1>1, <1>2, <2>3 DEF Entries, Questions, Base, Start, End, Total
      <3>2. ASSUME entry[d] \in {Start, End} PROVE Chosen(Given(given[d], entry[d]))
        BY <1>1, <3>1, <3>2, StaysChosen
      <3>3. ASSUME entry[d] \in {Base, Total} PROVE Chosen(Given(given[d], entry[d]))
        <4>1. \A r \in Answered(given[d]) : r <= entry[d]
          BY <1>1, <3>3 DEF DraftOK, PriceIsAskedFirst, Answered, Questions, Symbol, Basis, Base, Total
        <4> QED BY <1>1, <3>1, <4>1, StaysChosen
      <3>4. Given(given[d], entry[d]) \in Answers /\ Chosen(Given(given[d], entry[d]))
        BY <1>1, <3>1, <3>2, <3>3, GivenIsAnOrder
      <3> QED BY <1>1, <1>6, <2>3, <3>4, AnswerStep
    <2>4. CASE Answer(d, Cleared(given[d], Total), 0, TRUE)
      <3>1. Total \in 0..Preview
        BY DEF Total, Preview
      <3> QED BY <1>1, <1>6, <2>4, <3>1, ClearedIsAnOrder, StaysChosen, AnswerStep
    <2> QED BY <1>4, <2>1, <2>2, <2>3, <2>4 DEF Commit, d
  <1>5. CASE AskSymbol
    <2>1. CASE Refuse(d)
      BY <1>1, <2>1, RefuseStep
    <2>2. CASE prompt' = d /\ UNCHANGED <<rows, history>> /\ Finish(d, FALSE, Beside)
      BY <1>1, <1>2, <2>2, ScreensAreDrawable, KeepStep DEF rows
    <2> QED BY <1>5, <2>1, <2>2 DEF AskSymbol, d
  <1> QED BY <1>3, <1>4, <1>5

\* The send button leaves the answers as they are.
LEMMA GoStep ==
  ASSUME DraftOK, Go
  PROVE  DraftOK'
  <1> DEFINE d == Its.d
  <1>1. queue # <<>> /\ d \in Drafts
    <2>1. queue # <<>>
      BY DEF Go, Next1
    <2> QED BY <2>1, HeadIsAPress DEF DraftOK
  <1>2. /\ entry \in [Drafts -> Entries] /\ prompt \in Drafts \cup {NoDraft}
        /\ state \in [Drafts -> {"NONE", "DRAFT", "SENT", "GONE"}]
        /\ unseen \subseteq Drafts /\ outlived \subseteq Drafts
    BY DEF DraftOK, TypeOK, Entries
  <1> HIDE DEF d
  <1>3. CASE Refuse(d)
    BY <1>1, <1>3, RefuseStep
  <1>4. CASE UNCHANGED <<rows, prompt, history>> /\ Finish(d, FALSE, Screens(given[d], entry[d]))
    BY <1>1, <1>2, <1>4, ScreensAreDrawable, KeepStep DEF rows
  <1>5. CASE /\ state[d] = "DRAFT"
    /\ state' = [state EXCEPT ![d] = "SENT"]
    /\ unseen' = (IF Its.seen THEN unseen ELSE unseen \cup {d})
    /\ outlived' = (IF Its.old THEN outlived \cup {d} ELSE outlived)
    /\ UNCHANGED <<given, entry, prompt>> /\ Finish(d, FALSE, Note)
    <2>1. /\ shown' \in [Drafts -> AnyScreen] /\ queue' \in Seq(AnyPress)
          /\ Len(queue') <= MaxPresses /\ faults' \in 0..MaxFaults
          /\ clock' \in 0..MaxClock /\ startedAt' \in 0..clock'
        /\ clock' \in 0..MaxClock /\ startedAt' \in 0..clock'
      BY <1>1, <1>5, ScreensAreDrawable, FinishTypes DEF DraftOK
    <2>2. outlived' \subseteq Drafts /\ unseen' \subseteq Drafts
      BY <1>1, <1>2, <1>5
    <2>3. state' \in [Drafts -> {"NONE", "DRAFT", "SENT", "GONE"}]
      BY <1>1, <1>2, <1>5
    <2> QED BY <2>1, <2>2, <2>3, <1>5
        DEF DraftOK, TypeOK, ChosenInOrder, PriceIsAskedFirst
  <1> QED BY <1>3, <1>4, <1>5 DEF Go, d

LEMMA ReplyStep ==
  ASSUME DraftOK, OnReply
  PROVE  DraftOK'
  <1>1. queue # <<>> /\ Its.d \in Drafts /\ prompt' = NoDraft
    <2>1. queue # <<>> /\ prompt' = NoDraft
      BY DEF OnReply, Next1
    <2> QED BY <2>1, HeadIsAPress DEF DraftOK
  <1>2. /\ entry \in [Drafts -> Entries] /\ prompt \in Drafts \cup {NoDraft}
        /\ state \in [Drafts -> {"NONE", "DRAFT", "SENT", "GONE"}]
    BY DEF DraftOK, TypeOK, Entries
  <1>3. CASE prompt = NoDraft /\ UNCHANGED <<rows, history>> /\ Finish(Its.d, FALSE, Beside)
    BY <1>1, <1>2, <1>3, ScreensAreDrawable, KeepStep DEF rows
  <1>4. CASE prompt # NoDraft /\ UNCHANGED <<rows, history>> /\ Finish(prompt, FALSE, Note \cup Beside)
    BY <1>1, <1>2, <1>4, ScreensAreDrawable, KeepStep DEF rows
  <1>5. CASE /\ prompt # NoDraft /\ UNCHANGED <<state, history>>
             /\ given' = [given EXCEPT ![prompt] = Given(Cleared(@, Symbol), Symbol)]
             /\ entry' = [entry EXCEPT ![prompt] = 0]
             /\ Finish(prompt, TRUE, Screens(given'[prompt], 0))
    <2> DEFINE g == Given(Cleared(given[prompt], Symbol), Symbol)
    <2>1. prompt \in Drafts /\ given[prompt] \in Answers /\ Chosen(given[prompt])
      BY <1>2, <1>5 DEF DraftOK, TypeOK, ChosenInOrder, Chosen, Answers
    <2>2. g \in Answers /\ Chosen(g)
      <3>1. Symbol \in Questions /\ Symbol \in 0..Preview
        BY DEF Symbol, Questions, Preview
      <3> QED BY <2>1, <3>1, ClearedIsAnOrder, GivenIsAnOrder, StaysChosen
    <2> HIDE DEF g
    <2>3. given' = [given EXCEPT ![prompt] = g]
      BY <1>5 DEF g
    <2>4. /\ shown' \in [Drafts -> AnyScreen] /\ queue' \in Seq(AnyPress)
          /\ Len(queue') <= MaxPresses /\ faults' \in 0..MaxFaults
          /\ clock' \in 0..MaxClock /\ startedAt' \in 0..clock'
        /\ clock' \in 0..MaxClock /\ startedAt' \in 0..clock'
      BY <1>1, <1>5, <2>1, ScreensAreDrawable, FinishTypes DEF DraftOK
    <2>5. TypeOK'
      BY <1>1, <1>5, <2>1, <2>2, <2>3, <2>4 DEF DraftOK, TypeOK, Answers, history
    <2>6. ChosenInOrder'
      BY <2>1, <2>2, <2>3 DEF DraftOK, TypeOK, ChosenInOrder, Chosen
    <2>7. PriceIsAskedFirst'
      BY <1>2, <1>5, <2>1, <2>3 DEF DraftOK, TypeOK, PriceIsAskedFirst, Base
    <2> QED BY <2>5, <2>6, <2>7 DEF DraftOK
  <1> QED BY <1>3, <1>4, <1>5 DEF OnReply

\* What the operator does, and what happens to the process and to old drafts.
LEMMA OutsideStep ==
  ASSUME DraftOK, Operator \/ SaveFails \/ Restart \/ Tick \/ \E d \in Drafts : Prune(d)
  PROVE  DraftOK'
  <1> USE DEF DraftOK
  <1>1. ASSUME NEW d \in Drafts, StartDraft(d) PROVE DraftOK'
    <2>1. [kind |-> "question", q |-> Symbol, seen |-> TRUE, old |-> FALSE, at |-> 0] \in AnyScreen
      BY DEF AnyScreen, Symbol, Questions, Preview
    <2> QED BY <1>1, <2>1 DEF StartDraft, TypeOK, ChosenInOrder, PriceIsAskedFirst, time, history
  <1>2. ASSUME NEW d \in Drafts, Press(d) PROVE DraftOK'
    <2>1. PICK b \in Buttons(shown[d]) : queue' = Append(queue, PressOf(d, b, shown[d]))
      BY <1>2 DEF Press
    <2>2. PressOf(d, b, shown[d]) \in AnyPress
      BY ButtonsArePresses DEF TypeOK
    <2>3. queue' \in Seq(AnyPress) /\ Len(queue') <= MaxPresses
      BY <1>2, <2>1, <2>2, ConstantsAssumption DEF Press, TypeOK
    <2> QED BY <1>2, <2>3 DEF Press, TypeOK, ChosenInOrder, PriceIsAskedFirst, rows, time, history
  <1>3. ASSUME NEW d \in Drafts, Reply(d) PROVE DraftOK'
    <2>1. [d |-> d, what |-> "reply", q |-> 0, seen |-> TRUE, old |-> FALSE, at |-> 0] \in AnyPress
      BY DEF AnyPress, Whats, Preview
    <2>2. queue' \in Seq(AnyPress) /\ Len(queue') <= MaxPresses
      BY <1>3, <2>1, ConstantsAssumption DEF Reply, TypeOK
    <2> QED BY <1>3, <2>2 DEF Reply, TypeOK, ChosenInOrder, PriceIsAskedFirst, rows, time, history
  <1>4. CASE SaveFails
    <2>1. queue' \in Seq(AnyPress) /\ Len(queue') <= MaxPresses /\ faults' \in 0..MaxFaults
      BY <1>4, ConstantsAssumption DEF SaveFails, Costs, TypeOK
    <2> QED BY <1>4, <2>1 DEF SaveFails, TypeOK, ChosenInOrder, PriceIsAskedFirst, rows, time, history
  <1>5. CASE Restart
    <2>1. PICK kept \in {queue, <<>>} : queue' = [i \in DOMAIN kept |-> Late(kept[i])]
      BY <1>5 DEF Restart
    <2>2. kept \in Seq(AnyPress) /\ Len(kept) <= MaxPresses
      <3>1. CASE kept = queue
        BY <3>1 DEF TypeOK
      <3>2. CASE kept = <<>>
        BY <3>2, EmptySeq, ConstantsAssumption
      <3> QED BY <3>1, <3>2
    <2>3. \A p \in AnyPress : Late(p) \in AnyPress
      BY DEF AnyPress, Late
    <2>4. queue' \in Seq(AnyPress) /\ Len(queue') = Len(kept)
      <3>1. queue' = [i \in DOMAIN kept |-> queue'[i]] /\ \A i \in DOMAIN kept : queue'[i] \in AnyPress
        BY <2>1, <2>2, <2>3
      <3> QED BY <3>1, <2>2, ChangedInPlace
    <2>5. shown' \in [Drafts -> AnyScreen]
      <3>1. \A s \in AnyScreen : Aged(s) \in AnyScreen
        BY DEF AnyScreen, Aged
      <3>2. shown \in [Drafts -> AnyScreen]
        BY DEF TypeOK
      <3>3. shown' = [d \in Drafts |-> Aged(shown[d])]
        BY <1>5 DEF Restart
      <3> QED
        BY <3>1, <3>2, <3>3
    <2>6. faults' \in 0..MaxFaults
      BY <1>5, ConstantsAssumption DEF Restart, Costs, TypeOK
    <2> QED BY <1>5, <2>2, <2>4, <2>5, <2>6
        DEF Restart, TypeOK, ChosenInOrder, PriceIsAskedFirst, rows, time, history
  <1>6. ASSUME NEW d \in Drafts, Prune(d) PROVE DraftOK'
    BY <1>6 DEF Prune, TypeOK, ChosenInOrder, PriceIsAskedFirst, time, history
  <1>7. CASE Tick
    BY <1>7, ConstantsAssumption DEF Tick, TypeOK, ChosenInOrder, PriceIsAskedFirst, rows, history
  <1> QED BY <1>1, <1>2, <1>3, <1>4, <1>5, <1>6, <1>7 DEF Operator

LEMMA DraftInit == Init => DraftOK
  <1> SUFFICES ASSUME Init PROVE DraftOK
    OBVIOUS
  <1>1. IsOrder({}) /\ {} \in SUBSET (Questions \X Questions)
    BY DEF IsOrder, Answered
  <1>2. [kind |-> "none", q |-> 0, seen |-> TRUE, old |-> FALSE, at |-> 0] \in AnyScreen
    BY DEF AnyScreen, Preview
  <1>3. TypeOK
    BY <1>1, <1>2, ConstantsAssumption DEF Init, TypeOK
  <1> QED BY <1>3 DEF Init, DraftOK, ChosenInOrder, PriceIsAskedFirst, Base, Answered

LEMMA DraftStep == DraftOK /\ [Next]_vars => DraftOK'
  <1> SUFFICES ASSUME DraftOK, [Next]_vars PROVE DraftOK'
    OBVIOUS
  <1>1. CASE UNCHANGED vars
    BY <1>1 DEF vars, rows, time, history, DraftOK, TypeOK, ChosenInOrder, PriceIsAskedFirst
  <1>2. CASE Handler
    BY <1>2, QuestionsStep, KeypadStep, GoStep, ReplyStep, OutsideStep DEF Handler
  <1> QED BY <1>1, <1>2, OutsideStep DEF Next

-----------------------------------------------------------------------------
(* The theorems.                                                           *)

\* The types; no answer outlives an earlier one it was chosen for, in whatever
\* order presses of earlier screens arrive (Clear), an offset replaced on the
\* number pad excepted; and the pad asks for the price before what follows it.
THEOREM DraftOKAlways == Spec => []DraftOK
  BY DraftInit, DraftStep, PTL DEF Spec

\* A step leaves a sent ladder sent, and with no number pad open as it is
\* (setField, applySymbol, keypad).
LEMMA SentStep ==
  ASSUME DraftOK, [Next]_vars, NEW d \in Drafts, state[d] = "SENT"
  PROVE  /\ state'[d] = "SENT"
         /\ entry[d] = 0 => given'[d] = given[d] /\ entry'[d] = 0
  <1>1. /\ given \in [Drafts -> SUBSET (Questions \X Questions)]
        /\ entry \in [Drafts -> Entries]
        /\ state \in [Drafts -> {"NONE", "DRAFT", "SENT", "GONE"}]
    BY DEF DraftOK, TypeOK, Entries
  <1>2. \A e \in Drafts : Refuse(e) => UNCHANGED rows
    BY DEF Refuse
  <1>3. ASSUME NEW e \in Drafts, NEW g, NEW f, NEW c, state[e] = "DRAFT", Answer(e, g, f, c)
        PROVE  UNCHANGED <<state[d], given[d], entry[d]>>
    BY <1>1, <1>3 DEF Answer
  <1>4. queue # <<>> => Its.d \in Drafts
    BY HeadIsAPress DEF DraftOK
  <1>5. CASE UNCHANGED rows
    BY <1>5 DEF rows
  <1>6. CASE SetField \/ SetBasis \/ SetManual \/ SetTotal \/ SetTotalByHand \/ Enter \/ Back
    <2>1. queue # <<>>
      BY <1>6 DEF SetField, SetBasis, SetManual, SetTotal, SetTotalByHand, Enter, Back, Next1
    <2>2. Refuse(Its.d) \/ \E g, f, c : state[Its.d] = "DRAFT" /\ Answer(Its.d, g, f, c)
      BY <1>6 DEF SetField, SetBasis, SetManual, SetTotal, SetTotalByHand, Enter, Back
    <2> QED BY <2>1, <2>2, <1>2, <1>3, <1>4, <1>5
  <1>7. CASE Keypad
    <2>1. queue # <<>>
      BY <1>7 DEF Keypad, Next1
    <2> QED BY <2>1, <1>1, <1>2, <1>4, <1>5, <1>7 DEF Keypad
  <1>8. CASE Commit
    <2>1. queue # <<>>
      BY <1>8 DEF Commit, Next1
    <2> QED BY <2>1, <1>1, <1>2, <1>4, <1>5, <1>8 DEF Commit, Answer
  <1>9. CASE Go
    <2>1. queue # <<>>
      BY <1>9 DEF Go, Next1
    <2> QED BY <2>1, <1>1, <1>2, <1>4, <1>5, <1>9 DEF Go
  <1>10. CASE OnReply
    BY <1>1, <1>5, <1>10 DEF OnReply, Waits
  <1>11. CASE AskSymbol \/ SaveFails \/ Restart \/ Tick
    BY <1>2, <1>4, <1>5, <1>11 DEF AskSymbol, SaveFails, Restart, Tick, Next1
  <1>12. ASSUME NEW e \in Drafts, StartDraft(e) \/ Press(e) \/ Reply(e) \/ Prune(e)
         PROVE  UNCHANGED <<state[d], given[d], entry[d]>>
    BY <1>1, <1>12 DEF StartDraft, Press, Reply, Prune, rows
  <1>13. CASE UNCHANGED vars
    BY <1>5, <1>13 DEF vars
  <1> QED BY <1>6, <1>7, <1>8, <1>9, <1>10, <1>11, <1>12, <1>13 DEF Next, Handler, Operator

\* Nothing that arrives late changes a ladder that has been sent, unless a
\* number pad was left open, and nothing makes it a draft again.
THEOREM SentIsUntouchedAlways == Spec => SentIsUntouched
  <1>1. DraftOK /\ [Next]_vars =>
          [\A d \in Drafts : state[d] = "SENT" =>
             /\ state'[d] = "SENT"
             /\ entry[d] = 0 => given'[d] = given[d] /\ entry'[d] = 0]_vars
    BY SentStep
  <1> QED BY <1>1, DraftOKAlways, PTL DEF Spec, SentIsUntouched
=============================================================================
