------------------------------- MODULE Draft --------------------------------
(***************************************************************************)
(* The conversation that assembles a ladder: app/draft.go, the screens of  *)
(* app/preview.go it draws, the submit button, and the draft rows behind   *)
(* them (store.Ladder with Step and Clear).                                *)
(*                                                                         *)
(* One message shows one draft.  Its buttons are pressed on whatever it    *)
(* showed at the time; the presses wait in a queue and are handled one at  *)
(* a time, each handler running to its end.  A redraw can fail, and the    *)
(* process can stop before the offset of a handled press is stored, so     *)
(* that Telegram delivers it again.  A message carries the date, by        *)
(* Telegram's clock and in whole seconds, at which it was last written;    *)
(* the process knows the second, by its own clock, at which it started.    *)
(*                                                                         *)
(* The seven questions are numbered in the order they are asked.  What an  *)
(* answer says is left out: a draft is the set of the questions that are   *)
(* answered, with the order in which the answers were given.               *)
(***************************************************************************)
EXTENDS Naturals, Sequences

CONSTANTS
  Drafts,      \* ladder ids
  NoDraft,     \* no pending question
  MaxPresses,  \* bound: presses under way at once
  MaxFaults,   \* bound: failed redraws, failed writes and restarts
  MaxClock,    \* bound: the last second of the process's clock
  Skew         \* how many seconds Telegram's clock may be off ours

ASSUME ConstantsAssumption ==
  /\ NoDraft \notin Drafts /\ MaxPresses \in Nat /\ MaxFaults \in Nat
  /\ MaxClock \in Nat /\ Skew \in Nat

VARIABLES
  state,   \* ladders.status as far as the conversation asks for it
  given,   \* pairs <<q, r>> of answered questions, q answered no later than r
  entry,   \* entry_field: the question the keypad is open for, 0 for none
  prompt,  \* runtime_state "reply_prompt": the draft a typed answer is for
  shown,   \* what the draft's message shows
  queue,   \* presses and replies not yet handled
  faults,  \* failures so far
  clock,   \* the time, in whole seconds of the process's clock
  startedAt, \* when this process started (App.startedAt)
  unseen,  \* for checking: drafts sent with answers the pressed screen did not show
  outlived \* for checking: drafts sent from a screen of an earlier process

rows    == <<state, given, entry>>
time    == <<clock, startedAt>>
history == <<unseen, outlived>>
vars    == <<rows, prompt, shown, queue, faults, time, history>>

Symbol == 1  Basis == 2  Base == 3  Start == 4  End == 5  Total == 7
Questions == 1..7
Preview == 8

-----------------------------------------------------------------------------
(* The draft row.                                                          *)

Answered(g) == {q \in Questions : <<q, q>> \in g}

\* Step: the next thing a draft with answers g needs, derived and never stored.
Step(g) ==
  LET missing == Questions \ Answered(g)
  IN IF missing = {} THEN Preview ELSE CHOOSE q \in missing : \A r \in missing : q <= r

\* Mutant: only the answer being changed is dropped.
Cleared_One(g, q) == {x \in g : x[1] # q /\ x[2] # q}

\* Clear: an answer and the answers to every later question are dropped.
Cleared(g, q) == {x \in g : x[1] < q /\ x[2] < q}

\* An answer takes the place of an earlier one to the same question.
Given(g, q) ==
  LET others == {x \in g : x[1] # q /\ x[2] # q}
  IN others \cup {<<r, q>> : r \in Answered(others) \cup {q}}

Screen(kind, q) == [kind |-> kind, q |-> q]

\* Screens with nothing to press: a note or the sent ladder, and a message of
\* its own that leaves the draft's as it is.
Note   == {Screen("note", 0)}
Beside == {Screen("beside", 0)}

\* draftScreen: the keypad while an entry is open, else the next question.  A
\* preview may refuse to offer the send button (Build, no fee), and a screen
\* that needs figures from the exchange may be an error instead.
Screens(g, e) ==
  IF e # 0 \/ Step(g) = Base THEN {Screen("keypad", 0)}
  ELSE IF Step(g) = Preview THEN {Screen("preview", 0), Screen("blocked", 0)}
  ELSE {Screen("question", Step(g))} \cup (IF Step(g) \in {Symbol, Total} THEN Note ELSE {})

\* What can be pressed on a screen that asks for question q.
Pressed(what, q) == [what |-> what, q |-> q]
Buttons(screen) ==
  CASE screen.kind = "question" /\ screen.q = Symbol ->
         {Pressed("answer", Symbol), Pressed("ask", Symbol)}
    [] screen.kind = "question" /\ screen.q = Basis ->
         {Pressed("basis", Basis), Pressed("manual", Basis), Pressed("back", Symbol)}
    [] screen.kind = "question" /\ screen.q \in {Start, End} ->
         {Pressed("answer", screen.q), Pressed("enter", screen.q),
          Pressed("back", IF screen.q = Start THEN Basis ELSE Start)}
    [] screen.kind = "question" /\ screen.q \notin {Symbol, Basis, Start, End} ->
         {Pressed(IF screen.q = Total THEN "total" ELSE "answer", screen.q),
          Pressed("back", screen.q - 1)}
         \cup (IF screen.q = Total THEN {Pressed("byhand", Total)} ELSE {})
    [] screen.kind = "keypad" -> {Pressed(k, 0) : k \in {"digit", "ok", "cancel"}}
    [] screen.kind = "preview" -> {Pressed("go", 0)} \cup {Pressed("back", q) : q \in {Basis, 6, Total}}
    [] screen.kind = "blocked" -> {Pressed("answer", 6)} \cup {Pressed("back", q) : q \in {Basis, 6, Total}}
    [] OTHER -> {}

-----------------------------------------------------------------------------
(* How a handler ends.                                                     *)

Costs(n) == faults + n <= MaxFaults /\ faults' = faults + n
One(b)   == IF b THEN 1 ELSE 0

\* The dates that Telegram may give a message written now.  Nothing asks for the
\* date of any but a preview, and no other is kept.
Dates == {t \in 0..(MaxClock + Skew) : t <= clock + Skew /\ clock <= t + Skew}

\* Of a press that is under way, only whether it was for the send button on a
\* screen that has changed since, or that an earlier process drew, is kept.
Outdated(p, d) == IF p.d = d /\ p.what = "go" THEN [p EXCEPT !.seen = FALSE] ELSE p
Late(p)        == IF p.what = "go" THEN [p EXCEPT !.old = TRUE] ELSE p
Aged(s)        == IF s.kind = "preview" THEN [s EXCEPT !.old = TRUE] ELSE s

\* The handler of the press at the head is through with draft d: it changed the
\* answers or not, and draws one of the screens, or fails to.  The process may
\* stop before the offset is stored, and the same press is then delivered again
\* to the next one, which starts in this second or a later one.
Finish(d, changed, screens) ==
  \E screen \in screens, drawn \in BOOLEAN, again \in BOOLEAN, at \in Dates :
    LET now    == IF drawn /\ screen.kind # "beside"
                  THEN [kind |-> screen.kind, q |-> screen.q, seen |-> TRUE, old |-> FALSE,
                        at |-> IF screen.kind = "preview" THEN at ELSE 0]
                  ELSE [shown[d] EXCEPT !.seen = @ /\ ~changed]
        left   == IF again THEN queue ELSE Tail(queue)
        others == [i \in DOMAIN left |-> IF changed THEN Outdated(left[i], d) ELSE left[i]]
    IN /\ screen.kind = "beside" => drawn
       /\ Costs(One(~drawn) + One(again))
       /\ IF again
          THEN /\ shown' = [e \in Drafts |-> Aged(IF e = d THEN now ELSE shown[e])]
               /\ queue' = [i \in DOMAIN others |-> Late(others[i])]
               /\ clock' \in clock..MaxClock /\ startedAt' = clock'
          ELSE /\ shown' = [shown EXCEPT ![d] = now]
               /\ queue' = others
               /\ UNCHANGED time

\* The press at the head of the queue.
Next1(what) == queue # <<>> /\ Head(queue).what = what
Its         == Head(queue)

Answer(d, g, e, changed) ==
  /\ given' = [given EXCEPT ![d] = g]
  /\ entry' = [entry EXCEPT ![d] = e]
  /\ UNCHANGED <<state, prompt, history>>
  /\ Finish(d, changed, Screens(g, e))

\* The draft is gone or sent, the exchange gave no figure, or a write failed.
Refuse(d) == UNCHANGED <<rows, prompt, history>> /\ Finish(d, FALSE, Note)

-----------------------------------------------------------------------------
(* The operator.                                                           *)

\* startDraft.
StartDraft(d) ==
  /\ state[d] = "NONE"
  /\ state' = [state EXCEPT ![d] = "DRAFT"]
  /\ shown' = [shown EXCEPT ![d] =
                  [kind |-> "question", q |-> Symbol, seen |-> TRUE, old |-> FALSE, at |-> 0]]
  /\ UNCHANGED <<given, entry, prompt, queue, faults, time, history>>

\* Button b of draft d pressed on screen s, which is sent along with it; only the
\* send button's handler looks at the screen.
PressOf(d, b, s) ==
  LET go == b.what = "go"
  IN [d |-> d, what |-> b.what, q |-> b.q,
      seen |-> go => s.seen, old |-> go /\ s.old, at |-> IF go THEN s.at ELSE 0]

Press(d) ==
  /\ Len(queue) < MaxPresses
  /\ \E b \in Buttons(shown[d]) : queue' = Append(queue, PressOf(d, b, shown[d]))
  /\ UNCHANGED <<rows, prompt, shown, faults, time, history>>

\* A typed message, which answers whatever question is pending when it is read.
Reply(d) ==
  /\ Len(queue) < MaxPresses /\ prompt = d
  /\ queue' = Append(queue, [d |-> d, what |-> "reply", q |-> 0, seen |-> TRUE, old |-> FALSE, at |-> 0])
  /\ UNCHANGED <<rows, prompt, shown, faults, time, history>>

-----------------------------------------------------------------------------
(* The handlers.                                                           *)

\* setField: symbol, start, end and rungs.
SetField ==
  /\ Next1("answer")
  /\ LET d == Its.d IN
       IF state[d] # "DRAFT" THEN Refuse(d)
       ELSE Answer(d, Given(Cleared(given[d], Its.q), Its.q), 0, TRUE)

\* setBasis with the quote or the average cost, which needs a symbol.  A price
\* of zero is saved and leaves the question of the price open.
SetBasis ==
  /\ Next1("basis")
  /\ LET d == Its.d IN
       \/ Refuse(d)
       \/ /\ state[d] = "DRAFT" /\ Symbol \in Answered(given[d])
          /\ LET g == Given(Cleared(given[d], Basis), Basis)
             IN \E h \in {g, Given(g, Base)} : Answer(d, h, 0, TRUE)

\* setBasis by hand: the keypad is opened for the price.
SetManual ==
  /\ Next1("manual")
  /\ LET d == Its.d IN
       IF state[d] # "DRAFT" THEN Refuse(d)
       ELSE Answer(d, Given(Cleared(given[d], Basis), Basis), Base, TRUE)

\* setTotal with a share of what is available, which rounding may take to zero:
\* that is saved and leaves the question open.
SetTotal ==
  /\ Next1("total")
  /\ LET d == Its.d IN
       \/ Refuse(d)
       \/ /\ state[d] = "DRAFT"
          /\ LET g == Cleared(given[d], Total)
             IN \E h \in {g, Given(g, Total)} : Answer(d, h, 0, TRUE)

SetTotalByHand ==
  /\ Next1("byhand")
  /\ LET d == Its.d IN
       IF state[d] # "DRAFT" THEN Refuse(d)
       ELSE Answer(d, Cleared(given[d], Total), Total, TRUE)

\* setField "ent": the keypad is opened; nothing is cleared yet.
Enter ==
  /\ Next1("enter")
  /\ LET d == Its.d IN
       IF state[d] # "DRAFT" THEN Refuse(d) ELSE Answer(d, given[d], Its.q, FALSE)

Back ==
  /\ Next1("back")
  /\ LET d == Its.d IN
       IF state[d] # "DRAFT" THEN Refuse(d) ELSE Answer(d, Cleared(given[d], Its.q), 0, TRUE)

\* askSymbol: the question is remembered, and asked in a message of its own.
AskSymbol ==
  /\ Next1("ask")
  /\ LET d == Its.d IN
       IF state[d] # "DRAFT" THEN Refuse(d)
       ELSE /\ prompt' = d
            /\ UNCHANGED <<rows, history>>
            /\ Finish(d, FALSE, Beside)

\* keypad: it does not ask for the state, only for an open entry.  The digits
\* typed so far are left out, so that erasing one is like typing one.
Keypad ==
  /\ Next1("digit") \/ Next1("cancel")
  /\ LET d == Its.d IN
       IF state[d] \in {"NONE", "GONE"} THEN Refuse(d)
       ELSE /\ LET e == IF Its.what = "cancel" THEN 0 ELSE entry[d]
               IN entry' = [entry EXCEPT ![d] = e] /\ Finish(d, FALSE, Screens(given[d], e))
            /\ UNCHANGED <<state, given, prompt, history>>

\* commitEntry: the typed number becomes the answer, or is refused unsaved.  A
\* total to sell that rounds to zero is saved and answers nothing.
Commit ==
  /\ Next1("ok")
  /\ LET d == Its.d IN
       IF state[d] \in {"NONE", "GONE"} THEN Refuse(d)
       ELSE IF entry[d] = 0
       THEN UNCHANGED <<rows, prompt, history>> /\ Finish(d, FALSE, Screens(given[d], entry[d]))
       ELSE \/ Refuse(d)
            \/ Answer(d, Given(given[d], entry[d]), 0, TRUE)
            \/ entry[d] = Total /\ Answer(d, Cleared(given[d], Total), 0, TRUE)

\* submitDraft: the pressed message was last written before the second in which
\* this process started.  (Telegram sends the message with the press.)
Stale(p) == p.at < startedAt

\* submitDraft: only a complete draft can be built, and only once.
Go ==
  /\ Next1("go")
  /\ LET d == Its.d IN
       IF state[d] \in {"DRAFT", "SENT"} /\ Stale(Its)
       THEN UNCHANGED <<rows, prompt, history>> /\ Finish(d, FALSE, Screens(given[d], entry[d]))
       ELSE \/ Refuse(d)
            \/ /\ state[d] = "DRAFT" /\ Step(given[d]) = Preview
               /\ state' = [state EXCEPT ![d] = "SENT"]
               /\ unseen' = IF Its.seen THEN unseen ELSE unseen \cup {d}
               /\ outlived' = IF Its.old THEN outlived \cup {d} ELSE outlived
               /\ UNCHANGED <<given, entry, prompt>>
               /\ Finish(d, FALSE, Note)

\* Mutant: a reply is applied whatever became of the ladder meanwhile.
Waits_Always(d) == state[d] # "GONE"

\* applySymbol: only a draft still waiting for its symbol may be changed.
Waits(d) == state[d] = "DRAFT" /\ Step(given[d]) = Symbol

\* onReply: the question is forgotten first, whatever happens to the answer.
OnReply ==
  /\ Next1("reply")
  /\ prompt' = NoDraft
  /\ IF prompt = NoDraft
     THEN UNCHANGED <<rows, history>> /\ Finish(Its.d, FALSE, Beside)
     ELSE \/ /\ UNCHANGED <<rows, history>>
             /\ Finish(prompt, FALSE, Note \cup Beside)
          \/ /\ Waits(prompt)
             /\ given' = [given EXCEPT ![prompt] = Given(Cleared(@, Symbol), Symbol)]
             /\ entry' = [entry EXCEPT ![prompt] = 0]
             /\ UNCHANGED <<state, history>>
             /\ Finish(prompt, TRUE, Screens(given'[prompt], 0))

\* SaveLadder fails: the handler returns before it draws anything.
SaveFails ==
  /\ queue # <<>> /\ Head(queue).what # "reply"
  /\ Costs(1)
  /\ queue' = Tail(queue)
  /\ UNCHANGED <<rows, prompt, shown, time, history>>

\* PruneDrafts, once the draft is a day old.
Prune(d) ==
  /\ state[d] = "DRAFT"
  /\ state' = [state EXCEPT ![d] = "GONE"]
  /\ UNCHANGED <<given, entry, prompt, shown, queue, faults, time, history>>

\* The process stops between two presses and starts again; those Telegram
\* counts as read are lost.
Restart ==
  /\ Costs(1)
  /\ \E kept \in {queue, <<>>} : queue' = [i \in DOMAIN kept |-> Late(kept[i])]
  /\ shown' = [d \in Drafts |-> Aged(shown[d])]
  /\ startedAt' = clock
  /\ UNCHANGED <<rows, prompt, clock, history>>

\* A second passes.
Tick ==
  /\ clock < MaxClock
  /\ clock' = clock + 1
  /\ UNCHANGED <<rows, prompt, shown, queue, faults, startedAt, history>>

-----------------------------------------------------------------------------
Init ==
  /\ state = [d \in Drafts |-> "NONE"]
  /\ given = [d \in Drafts |-> {}]
  /\ entry = [d \in Drafts |-> 0]
  /\ prompt = NoDraft
  /\ shown = [d \in Drafts |-> [kind |-> "none", q |-> 0, seen |-> TRUE, old |-> FALSE, at |-> 0]]
  /\ queue = <<>> /\ faults = 0 /\ clock = 0 /\ startedAt = 0 /\ unseen = {} /\ outlived = {}

Operator == \E d \in Drafts : StartDraft(d) \/ Press(d) \/ Reply(d)

Handler ==
  \/ SetField \/ SetBasis \/ SetManual \/ SetTotal \/ SetTotalByHand \/ Enter \/ Back
  \/ AskSymbol \/ Keypad \/ Commit \/ Go \/ OnReply \/ SaveFails

Next == Operator \/ Handler \/ Restart \/ Tick \/ \E d \in Drafts : Prune(d)

Spec == Init /\ [][Next]_vars

AnyScreen ==
  {s \in [kind : {"none", "note", "question", "keypad", "preview", "blocked"},
          q : 0..Preview, seen : BOOLEAN, old : BOOLEAN, at : Nat] : s.kind = "question" => s.q \in Questions}

Whats == {"answer", "ask", "basis", "manual", "total", "byhand", "enter", "back",
          "digit", "ok", "cancel", "go", "reply"}

AnyPress ==
  {p \in [d : Drafts, what : Whats, q : 0..Preview, seen : BOOLEAN, old : BOOLEAN, at : Nat] :
     /\ p.what = "answer" => p.q \in Questions
     /\ p.what = "enter" => p.q \in {Start, End}}

\* The answers, in an order.
IsOrder(g) ==
  /\ g \subseteq Answered(g) \X Answered(g)
  /\ \A q, r \in Answered(g) : q = r \/ (<<q, r>> \in g <=> <<r, q>> \notin g)

TypeOK ==
  /\ state \in [Drafts -> {"NONE", "DRAFT", "SENT", "GONE"}]
  /\ given \in [Drafts -> SUBSET (Questions \X Questions)] /\ \A d \in Drafts : IsOrder(given[d])
  /\ entry \in [Drafts -> {0, Base, Start, End, Total}]
  /\ shown \in [Drafts -> AnyScreen]
  /\ queue \in Seq(AnyPress)
  /\ prompt \in Drafts \cup {NoDraft} /\ unseen \subseteq Drafts /\ outlived \subseteq Drafts
  /\ Len(queue) <= MaxPresses /\ faults \in 0..MaxFaults
  /\ clock \in 0..MaxClock /\ startedAt \in 0..clock

-----------------------------------------------------------------------------
(* Correctness.                                                            *)

\* No answer outlives an earlier one it was chosen for, in whatever order presses
\* of earlier screens arrive (Clear).  Only the offsets are excepted, which
\* commitEntry replaces without clearing what follows them.
ChosenInOrder ==
  \A d \in Drafts : \A x \in given[d] : x[2] \notin {Start, End} => x[1] <= x[2]

\* The number pad is open for the price only while nothing follows the basis,
\* so that the price typed on it drops no answer either.
PriceIsAskedFirst ==
  \A d \in Drafts : entry[d] = Base => Answered(given[d]) \subseteq {Symbol, Basis}

\* The types, and answers given in the order of the questions.
DraftOK == TypeOK /\ ChosenInOrder /\ PriceIsAskedFirst

\* Nothing that arrives late, a typed answer above all, changes a ladder that
\* has been sent (setField, applySymbol), unless a number pad was left open; it
\* is never a draft again, to be sent twice (submitDraft).
SentIsUntouched ==
  [][\A d \in Drafts : state[d] = "SENT" =>
       /\ state'[d] = "SENT"
       /\ entry[d] = 0 => given'[d] = given[d] /\ entry'[d] = 0]_vars

\* A button drawn before this process started is refused (submitDraft).  The
\* test compares whole seconds of two clocks, and lets a screen pass that was
\* drawn in the second of the restart.
NeverSentFromBefore == outlived = {}

\* What has been sent already is refused (setField).  The number pad does not
\* ask: sent with the pad open, a ladder still takes what is typed on it.
SentIsClosed ==
  [][\A d \in Drafts : state[d] = "SENT" =>
       given'[d] = given[d] /\ entry'[d] = entry[d] /\ state'[d] = "SENT"]_vars

\* Clear says that a ladder must never be priced from a mix of old and new
\* choices: no answer that is kept is older than one to an earlier question.
\* An offset typed on the keypad replaces the old one without clearing what
\* was answered after it (commitEntry), so it can be.
NeverAMix ==
  \A d \in Drafts : \A x \in given[d] : x[1] <= x[2]

\* Nothing is submitted without the operator reading the preview: what is sent
\* is what the pressed screen showed.  A press handled between the one and the
\* other changes the draft, and the send button names only the draft.
SentWasShown == unseen = {}

\* A reply is answered once and only against the thing that asked for it.  onReply
\* ignores which question the message replies to, so a later question gets it.
RepliesReachTheirAsker ==
  [][queue # <<>> /\ Its.what = "reply" =>
       \A d \in Drafts : given'[d] # given[d] => d = Its.d]_vars

\* Step is derived so that the flow cannot get out of step with the data, but
\* once the keypad is cancelled while it asks for the price it is shown with no
\* entry open, and no key on it does anything.
KeypadIsAlive ==
  \A d \in Drafts :
    shown[d].kind = "keypad" /\ shown[d].seen /\ state[d] = "DRAFT" /\ queue = <<>> /\ faults = 0
      => entry[d] # 0
=============================================================================
