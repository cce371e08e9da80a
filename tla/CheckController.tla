--------------------------- MODULE CheckController ---------------------------
(***************************************************************************)
(* The checks of one browser tab: runCheck and cancelCheck of              *)
(* frontend/src/checking/controller.ts, the debounce that starts checks    *)
(* (checking/scheduler.ts), the stream a check is followed by              *)
(* (subscribeCheck of api/client.ts), and what moves under their feet: the *)
(* text, the open document and the session.                                *)
(*                                                                         *)
(* A check answers twice, by the reply of its POST and by the events of    *)
(* its stream, and both may come after the text, the document or the user  *)
(* is another one.  Findings and a scorecard are represented by the check  *)
(* they come from, a page is what a document shows and saves.  How pages   *)
(* reach the server is DocSync's subject: here a document that is left     *)
(* keeps the page it was left with, and `dirty' says that the buffer holds *)
(* something the server has not.                                           *)
(***************************************************************************)
EXTENDS Integers, FiniteSets

CONSTANTS
  Users, Nobody,
  Docs, NoDoc, Owner,      \* documents, and whose they are
  Texts, Blank,            \* what an editor may hold; runCheck ignores a blank one
  Written,                 \* what the documents hold at first
  LlmAuto,                 \* the setting llmAuto: typing also starts full checks
  MaxChecks, MaxMoves      \* bounds: checks posted; documents opened and sessions ended

ASSUME ControllerAssumption ==
  /\ Nobody \notin Users
  /\ NoDoc \notin Docs /\ Owner \in [Docs -> Users]
  /\ Blank \in Texts /\ Written \in [Docs -> Texts]
  /\ LlmAuto \in BOOLEAN
  /\ MaxChecks \in Nat \ {0} /\ MaxMoves \in Nat

VARIABLES
  user, gen,      \* who is signed in; autosave.ts's generation
  open,           \* the document in the editor
  page,           \* per document its text, findings and scorecard
  dirty,          \* the buffer holds an unsaved snapshot of the open document
  opening,        \* how far the opening of a document has come
  timers,         \* the debounce timers that are armed
  phase,          \* checkPhase of the store
  latest,         \* the check that took the present epoch; none once it was bumped
  current,        \* currentCheckId
  emptied,        \* the last runCheck found nothing to check
  check,          \* the checks posted so far
  moves           \* how often a document was opened or the session ended

controllerVars ==
  <<user, gen, open, page, dirty, opening, timers, phase, latest, current, emptied, check, moves>>

Checks == 1..MaxChecks
NoRun == 0
NoCheck == [state |-> "unused", user |-> Nobody, doc |-> NoDoc, text |-> Blank,
            llm |-> FALSE, gen |-> 0, late |-> FALSE]
NoCard == [check |-> NoRun, stale |-> FALSE]
NewPage(text) == [text |-> text, fast |-> NoRun, llm |-> NoRun, card |-> NoCard]

ControllerInit ==
  /\ user = Nobody /\ gen = 0 /\ open = NoDoc
  /\ page = [d \in Docs |-> NewPage(Written[d])]
  /\ dirty = FALSE
  /\ opening = [d \in Docs |-> "no"]
  /\ timers = {} /\ phase = "idle"
  /\ latest = NoRun /\ current = NoRun /\ emptied = FALSE
  /\ check = [c \in Checks |-> NoCheck]
  /\ moves = 0

Text == IF open = NoDoc THEN Blank ELSE page[open].text
HasState(c, states) == check[c].state \in states
Unused == {c \in Checks : HasState(c, {"unused"})}

\* Closes the subscription, if there is one.
Unsubscribed ==
  [c \in Checks |-> IF HasState(c, {"findings", "card", "done"})
                      THEN [check[c] EXCEPT !.state = "over"] ELSE check[c]]
Advance(c, state) == check' = [check EXCEPT ![c].state = state]

\* cancelCheck.
CancelCheck ==
  /\ latest' = NoRun /\ current' = NoRun
  /\ phase' = "idle" /\ emptied' = FALSE
  /\ check' = Unsubscribed

-----------------------------------------------------------------------------
(* Starting a check. *)

\* runCheck up to its await.  Whether the LLM takes part depends on the plan and
\* on the provider besides the button or the timer that asks for it.
RunCheck(full) ==
  /\ Unused # {}
  /\ IF Text = Blank
       THEN /\ page' = IF open = NoDoc THEN page
                       ELSE [page EXCEPT ![open].fast = NoRun, ![open].llm = NoRun]
            /\ check' = Unsubscribed
            /\ latest' = NoRun /\ emptied' = TRUE
            /\ UNCHANGED phase
       ELSE \E c \in Unused, llm \in {FALSE, full} :
              /\ \A other \in Unused : c <= other
              /\ check' = [Unsubscribed EXCEPT
                             ![c] = [state |-> "posted", user |-> user, doc |-> open,
                                     text |-> Text, llm |-> llm, gen |-> gen,
                                     late |-> \E d \in Docs : opening[d] = "replaying"]]
              /\ latest' = c /\ emptied' = FALSE
              /\ phase' = IF llm THEN "llm" ELSE "fast"
              /\ UNCHANGED page
  /\ UNCHANGED <<user, gen, open, dirty, opening, current, moves>>

\* The fast timer is the shorter one: armed together, it fires first.
FastTimer ==
  /\ "fast" \in timers
  /\ timers' = timers \ {"fast"}
  /\ RunCheck(FALSE)
LlmTimer ==
  /\ timers = {"llm"}
  /\ timers' = {}
  /\ RunCheck(TRUE)

\* The Check button is disabled while checkPhase is not idle.
CheckButton ==
  /\ open # NoDoc /\ phase = "idle"
  /\ RunCheck(TRUE)
  /\ UNCHANGED timers

-----------------------------------------------------------------------------
(* The answers to a check. *)

\* What may be applied: the generation and the epoch are those of the request.
WantedOfSession(c) == check[c].gen = gen
Wanted(c) == check[c].gen = gen /\ latest = c

\* applyFindings: only onto the text that was checked.
MergeAnyText(c, sources, p) ==
  [p EXCEPT !.fast = IF "fast" \in sources THEN c ELSE @,
            !.llm = IF "llm" \in sources THEN c ELSE @]
Merge(c, sources, p) ==
  IF p.text = check[c].text THEN MergeAnyText(c, sources, p) ELSE p

\* Onto the page in the editor, followed by flush(), which writes the buffer if
\* there is something new.
Apply(sources, c) ==
  /\ page' = IF open = NoDoc THEN page
             ELSE [page EXCEPT ![open] = Merge(c, sources, @)]
  /\ dirty' = (dirty \/ page' # page)

Unsettled == UNCHANGED phase
Settled == phase' = "idle"

Posted(c) == HasState(c, {"posted"})
Rest == <<user, gen, open, opening, timers, emptied, moves>>

\* The POST is answered.  A check with the LLM goes on in its stream unless the
\* server reports it done, because it skipped the LLM.
PostAnswered(c) ==
  /\ Posted(c)
  /\ \E skipped \in BOOLEAN :
       IF ~Wanted(c)
         THEN Advance(c, "over") /\ UNCHANGED <<page, dirty, phase, current>>
         ELSE /\ Apply({"fast"}, c)
              /\ IF ~check[c].llm \/ skipped
                   THEN Advance(c, "over") /\ Settled /\ UNCHANGED current
                   ELSE Advance(c, "findings") /\ current' = c /\ UNCHANGED phase
  /\ UNCHANGED <<Rest, latest>>

\* It fails: 429, another status, no network.
Failed(c) ==
  /\ Posted(c)
  /\ Advance(c, "over")
  /\ IF Wanted(c) THEN Settled ELSE UNCHANGED phase
  /\ UNCHANGED <<Rest, page, dirty, latest, current>>

\* The events of the stream, in the order _run_llm emits them.  A handler acts
\* only while its check is the current one.
Stream(c) == HasState(c, {"findings", "card", "done"})

FindingsArrive(c) ==
  /\ HasState(c, {"findings"})
  /\ Advance(c, "card")
  /\ IF current = c THEN Apply({"llm"}, c) ELSE UNCHANGED <<page, dirty>>
  /\ UNCHANGED <<Rest, phase, latest, current>>

\* onScorecard: the card is kept, as stale, when the text has moved on.
ScoredFresh(c, p) == [p EXCEPT !.card = [check |-> c, stale |-> FALSE]]
Scored(c, p) == [p EXCEPT !.card = [check |-> c, stale |-> p.text # check[c].text]]
CardArrives(c) ==
  /\ HasState(c, {"card"})
  /\ Advance(c, "done")
  /\ IF current = c /\ open # NoDoc
       THEN page' = [page EXCEPT ![open] = Scored(c, @)] /\ dirty' = TRUE
       ELSE UNCHANGED <<page, dirty>>
  /\ UNCHANGED <<Rest, phase, latest, current>>

\* `done', or the connection breaks, or the job is gone: all of it is onDone.
\* An LLM that fails emits checker_error and done, one that scores nothing no card.
StreamEnds(c) ==
  /\ Stream(c)
  /\ Advance(c, "over")
  /\ IF current = c THEN Settled /\ current' = NoRun ELSE UNCHANGED <<phase, current>>
  /\ UNCHANGED <<Rest, page, dirty, latest>>

-----------------------------------------------------------------------------
(* The text. *)

\* The editor's update listener: the buffer is written, the timers are armed
\* anew, a scorecard is outdated.
Stale(p) == [p EXCEPT !.card.stale = p.card.check # NoRun]
Armed == timers' = {"fast"} \cup (IF LlmAuto THEN {"llm"} ELSE {})
Untouched == <<user, gen, opening, phase, latest, current, emptied, check, moves>>

Type(text) ==
  /\ open # NoDoc /\ text # Text
  /\ page' = [page EXCEPT ![open] = [Stale(@) EXCEPT !.text = text]]
  /\ dirty' = TRUE /\ Armed
  /\ UNCHANGED <<Untouched, open>>

\* The example: setEditorText replaces the text and drops the scorecard.
LoadExample(text) ==
  /\ open # NoDoc
  /\ page' = [page EXCEPT ![open].text = text, ![open].card = NoCard]
  /\ dirty' = TRUE /\ Armed
  /\ UNCHANGED <<Untouched, open>>

\* Autosave has brought the buffer to the server.
Saved ==
  /\ dirty /\ dirty' = FALSE
  /\ UNCHANGED <<Untouched, open, page, timers>>

-----------------------------------------------------------------------------
(* The document. *)

\* openDocument, up to its request.
Open(d) ==
  /\ user # Nobody /\ Owner[d] = user
  /\ opening[d] = "no" /\ moves < MaxMoves
  /\ opening' = [opening EXCEPT ![d] = "fetching"]
  /\ moves' = moves + 1
  /\ UNCHANGED <<user, gen, open, page, dirty, timers, phase, latest, current, emptied, check>>

\* The part of hydrateFromDocument that shows the document.  Replacing the text
\* is a change like any other, except that the buffer is then written clean.
Show(d) ==
  /\ open' = d /\ dirty' = FALSE
  /\ opening' = [opening EXCEPT ![d] = "no"]
  /\ IF Text = Blank /\ page[d].text = Blank THEN UNCHANGED timers ELSE Armed

\* hydrateFromDocument: the check in flight is cancelled at once, the document
\* is shown after the replay of a snapshot of another one, if there is any.
Fetched(d) ==
  /\ opening[d] = "fetching"
  /\ CancelCheck
  /\ IF dirty /\ d # open
       THEN /\ opening' = [opening EXCEPT ![d] = "replaying"]
            /\ UNCHANGED <<open, dirty, timers>>
       ELSE Show(d)
  /\ UNCHANGED <<user, gen, page, moves>>

Replayed(d) ==
  /\ opening[d] = "replaying"
  /\ Show(d)
  /\ UNCHANGED <<user, gen, page, phase, latest, current, emptied, check, moves>>

FetchFails(d) ==
  /\ opening[d] = "fetching"
  /\ opening' = [opening EXCEPT ![d] = "no"]
  /\ UNCHANGED <<user, gen, open, page, dirty, timers, phase, latest, current, emptied, check, moves>>

-----------------------------------------------------------------------------
(* The session. *)

\* login as another user than the last: a new generation as well.
SignIn(u) ==
  /\ user = Nobody /\ user' = u /\ gen' = gen + 1
  /\ CancelCheck
  /\ \E d \in Docs : Owner[d] = u /\ opening' = [opening EXCEPT ![d] = "fetching"]
  /\ UNCHANGED <<open, page, dirty, timers, moves>>

\* logout and expireSession.  Openings stop at their generation checks, the
\* editor is unmounted and takes its timers along.
SessionEnds(answered) ==
  /\ user # Nobody /\ moves < MaxMoves
  /\ user' = Nobody /\ gen' = gen + 1 /\ moves' = moves + 1
  /\ latest' = NoRun /\ current' = NoRun /\ phase' = "idle" /\ emptied' = FALSE
  /\ check' = [c \in Checks |-> IF c \in answered THEN [check[c] EXCEPT !.state = "over"]
                                                  ELSE Unsubscribed[c]]
  /\ open' = NoDoc /\ dirty' = FALSE /\ timers' = {}
  /\ opening' = [d \in Docs |-> "no"]
  /\ UNCHANGED page

SignOut == SessionEnds({})

\* A 401 for the token of this session, to a POST or to a stream, expires it.
Unauthorized(c) ==
  /\ check[c].gen = gen
  /\ Posted(c) \/ Stream(c)
  /\ SessionEnds({c})

-----------------------------------------------------------------------------
ControllerNext ==
  \/ FastTimer \/ LlmTimer \/ CheckButton
  \/ \E c \in Checks : \/ PostAnswered(c) \/ Failed(c)
                       \/ FindingsArrive(c) \/ CardArrives(c) \/ StreamEnds(c)
                       \/ Unauthorized(c)
  \/ \E t \in Texts : Type(t) \/ LoadExample(t)
  \/ Saved
  \/ \E d \in Docs : Open(d) \/ Fetched(d) \/ Replayed(d) \/ FetchFails(d)
  \/ \E u \in Users : SignIn(u)
  \/ SignOut

ControllerSpec == ControllerInit /\ [][ControllerNext]_controllerVars

\* Requests are answered or fail, and streams end: that the server owes them an
\* end is what CheckJobs shows.  The user owes nothing.
ControllerFairness ==
  \A c \in Checks : /\ WF_controllerVars(PostAnswered(c) \/ Failed(c))
                    /\ WF_controllerVars(StreamEnds(c))
FairControllerSpec == ControllerSpec /\ ControllerFairness

-----------------------------------------------------------------------------
Generations == 0..(2 * MaxMoves + 1)
ControllerTypeOK ==
  /\ user \in Users \cup {Nobody} /\ gen \in Generations /\ moves \in 0..MaxMoves
  /\ open \in Docs \cup {NoDoc}
  /\ page \in [Docs -> [text : Texts, fast : 0..MaxChecks, llm : 0..MaxChecks,
                        card : [check : 0..MaxChecks, stale : BOOLEAN]]]
  /\ dirty \in BOOLEAN /\ emptied \in BOOLEAN
  /\ opening \in [Docs -> {"no", "fetching", "replaying"}]
  /\ timers \subseteq {"fast", "llm"} /\ phase \in {"idle", "fast", "llm"}
  /\ latest \in 0..MaxChecks /\ current \in 0..MaxChecks
  /\ check \in [Checks -> [state : {"unused", "posted", "findings", "card", "done", "over"},
                           user : Users \cup {Nobody}, doc : Docs \cup {NoDoc}, text : Texts,
                           llm : BOOLEAN, gen : Generations, late : BOOLEAN]]

\* The checks a page shows something of.
Shown(p) == {p.fast, p.llm, p.card.check} \ {NoRun}

(* Whatever answers late, no page ever shows a finding or a scorecard of a    *)
(* check that another user ran, nor of another document (controller.ts:109;   *)
(* "can never let its late scorecard land on", docs/frontend-architecture.md, *)
(* cross-document cancellation) - unless the check was started in the gap     *)
(* of hydrateFromDocument: between its cancelCheck and the document it shows lies *)
(* the replay of another document's snapshot, with the old text in the editor *)
(* and the timers and the Check button alive.                                 *)
OnlyTheGapLeaks ==
  \A d \in Docs : \A c \in Shown(page[d]) :
    /\ check[c].user = Owner[d]
    /\ check[c].doc = d \/ check[c].late

(* A scorecard that is not marked stale was computed for the text beside it,  *)
(* in the editor and in every saved page: through edits, edits undone, the    *)
(* example, a reopened document and a card that arrives late.                 *)
CardFitsText ==
  \A d \in Docs : LET card == page[d].card IN
    card.check # NoRun /\ ~card.stale => check[card.check].text = page[d].text

(* A busy phase ends, whatever is lost: an answer, a stream, the session.     *)
(* Only the run on an empty document may leave it for good.                   *)
BusyEnds == (phase # "idle") ~> (phase = "idle" \/ emptied)
=============================================================================
