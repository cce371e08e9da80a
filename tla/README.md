# A verification project for fabulous-writing

TLA+ models of the parts of fabulous-writing whose behaviour depends on the
order in which things happen, and of the pure algorithms those parts rest on;
TLC configurations that check them on small instances; and TLAPS proofs of the
most important facts for every instance. `PROJECT.json` is the index: components,
runs, the mutation each property is tried against, the source lines of every
definition, hazards and theorems.

Run a check inside this directory with `tlc -config MCUsageLedger.cfg
MCUsageLedger.tla` (and likewise for the other `.cfg` files), the proofs with
`tlapm SessionAndGate_proofs.tla` (and
likewise for the other modules named `_proofs`).

## 1. Inventory of the system

A FastAPI backend (`backend/app`), a React application (`frontend/src`), an
embeddable variant of it (`frontend/src/embed`) and a browser extension that
hosts the embed beside a text field of any page (`clients/browser-extension`).
The last column names the modules; what is left out of each is in section 7.

| Component | State it keeps | Operations | Talks to | What is hard | Modelled by |
|---|---|---|---|---|---|
| LLM usage ledger `services/usage.py` | table `llm_usage`: one row per run, `started` holds a slot and an estimate | reserve, finish, sweep, reports | the gate, the metered endpoints | concurrent reservations, crash between reservation and settlement, sweeps of live runs | `UsageLedger` |
| LLM gate, permissions `api/llm_gate.py`, `core/permissions.py` | none | select tier, provider and model; size; reserve; translate rejections | ledger, providers | a decision table over policies, allowlists and routing; cancellation | `LlmSelection`, `UsageLedger` |
| Document store `services/documents.py` | table `documents` with a revision | create, read, update if the revision is current, `set_name`, `set_folder`, delete | documents API | merges of what was read in an earlier statement | `Library`, `DocHistory` |
| Document sync of a tab `frontend/src/documents` | the open document, a one-slot buffer, timers, coordination flags, a generation counter | type, flush, push, recover, replay, open, create, rename, remove, start up | document store, session, checks | every `await` is an interleaving point; requests are lost, tabs close, sessions end | `DocSync` |
| Session of a tab `auth/session.ts` | user, tokens, its own generation, refresh timer; storage shared by all tabs | login, logout, expiry, refresh, restore | auth API, document sync | rotating tokens, several tabs, answers after the session | `TabSession`, `DocSync` |
| Check jobs `services/jobs.py`, `api/checks.py` | jobs with an event history | create with capacity and eviction, emit, finish, stream, discard | ledger, checkers | several readers of one history, capacity with running jobs | `CheckJobs` |
| Check controller `checking/controller.ts` | current check, epoch | run, cancel, apply findings and scorecards | check jobs, editor, sync | answers for a text, document or session that changed | `CheckController` |
| Suggestions `checking/suggest.ts`, `sidebar/` | pending action, caches by finding id | ask for fixes and rewrites, apply, migrate caches | suggestions API, editor | ids change with every check, places with every edit | `Suggestions` |
| Accounts with an identity provider `api/auth.py`, `api/admin.py`, `core/supabase_auth.py`, `services/supabase_gateway.py`, `services/seed_admin.py` | table `users`, the provider's identities | create, invite, resend, patch, sign in, refresh, change, reset, verify a token, seed | user store, provider | two stores and no transaction over both | `Accounts`, `EmailLocks` |
| Accounts with local passwords `api/auth.py`, `core/auth.py` | throttle, rows, token versions | login, change, administrators' patch | user store | threads, a table with a cap, hashing under no lock | `LocalLogin` |
| Folders, profiles, terminology | tables | CRUD, defaults, sweeps, seeds | documents, checks | check-then-act over several connections, seeds that crash | `Library` |
| Rule engine, terminology, LLM checker, anchoring, vetting `checkers/` | none | text to findings; a model's diagnoses and fixes to what is shown | checks, suggestions | positions, duplicates, what a fix breaks | `Analysis` |
| Header, profiles and preferences of a tab `frontend/src/header`, `profiles/`, `rules/`, `state/` | the selection in the header, the fetched profiles, the preferences in `localStorage` | choose, open, fetch for a language or session, edit profiles, keep preferences | profiles API, document sync, session | who writes the selection last; late answers; effects that are cancelled | `Header`, `Page` |
| Terminology page of a tab `frontend/src/terminology` | the domains, the open domain, its rows, the row being edited | select, add, rename, remove, edit | terminology API, header | answers of a domain that was left; fetches nothing orders | `Terminology`, `Page` |
| Embed bridge and host document `frontend/src/embed`, `simulator/` | pinned parent, buffer, tracked findings, pending replacements; the host's field and marks | connect, text changes, replace, disconnect, sign in, reload | host page, checks | two sides that edit one text; late and timed-out answers | `HostDoc`, `TextSplice` |
| Extension service worker `sw.ts`, `registry.ts` | one field and one panel per window, ports per tab | connect, relay, replace, server change | content scripts, panel | ports replaced before the old one disconnects | `FieldRegistry` |
| Extension scripts and panel `scout.ts`, `panel.ts`, `relay.ts` | session of a field, ready embed | attach, detach, re-acquire | service worker, page | pages that move, a worker that dies | `Extension` |
| Re-acquisition `reacquire.ts` | the fingerprint of a field, the search under way | take a fingerprint, find the field again, hand the session over | scout, page | a page that renders its fields and forms again | `Reacquire` |
| LLM providers | none | HTTP clients | external services | plumbing; their outcome is any status and cost | not modelled |
| Remaining user interface, translations | React state | views | everything in the tab | | only as the actions of the users |
| Database seam, start-up, CLI | connections, settings | transactions, schema, import | all stores | schema and sweep at start-up | only as steps of the others |

What makes each of the modelled ones correct is stated with its module below;
the hazards of all of them are listed in `PROJECT.json` at the line where they
bite, with the property that covers them or the reason why none does.

## 2. Plan

Done, in this order, the most important behaviour first:

1. `UsageLedger`: who may spend money.
2. `DocHistory` (abstract) and `DocSync` (detailed): the texts of the users.
3. `CheckJobs`, and `CheckController`, which needs little of the server - an
   answer, the order of the events, an end - that `CheckJobs` shows.
4. `FieldRegistry`; `Extension`, which composes it with the scripts and panels and
   implements it.
5. `EmailLocks`; `Accounts`, which extends it; `LocalLogin`; `TabSession`, their
   client.
6. `Library`: everything the accounts keep on the server, statement by statement.
7. `TextSplice`, the arithmetic of findings in a text that somebody else edits, and
   `HostDoc`, which extends it with the two sides that post messages.
8. `Analysis`, the checkers as operators, and `Suggestions`, which extends it.
9. `LlmSelection`: what a request for the LLM is turned into.
10. `Header` and `Terminology` over `Page`: what a tab shows of the server's tables.
11. `Reacquire`: fields that a page takes away and puts back.
12. The proofs (section 6): `SessionAndGate_proofs` about 1, 9 and `TabSession`,
    `DocSync_proofs`, `Checks_proofs` about 3, `Accounts_proofs` (with `LocalLogin`),
    `ExtensionPorts_proofs` and `Extension_proofs` (with `FieldRegistry`),
    `Library_proofs` and `HostDoc_proofs` (with `TextSplice`).

Open, in the order of their worth:

* `EmbedAgrees` of `Extension`: what `FieldSide` says of the queues of a script's port
  must be said of a panel's, and of the texts on it.
* The invariants of `Suggestions`, `Header`, `Terminology` and `Reacquire`, and
  `OnlyExposedEditsAreLost` and `NoPhantomCopy` of `DocSync`.
* Folder defaults and the legacy-text migration in `DocSync`; the
  desynchronisation switch of the simulator.

## 3. The modules

### UsageLedger and LlmSelection

State: `row` is the table `llm_usage`, `phase` is where the coroutine of each
request stands, `asked` and `outcome` are its local variables across awaits and
transactions, `tier` the users' tiers, `up` whether a server process runs.

| Action | Code |
|---|---|
| `Request` | the caller's tier and the moment are read, before the transaction |
| `Exhaust`, `Throttle`, `Admit` | the three ends of `reserve_llm_run`: one transaction that sweeps, inserts and then counts; a rejection rolls everything back |
| `FinishRead`, `FinishWrite` | the two statements of `finish_run`; the update is conditional on `started` |
| `FinishFails` | the settlement raises, and the endpoint goes on |
| `Crash`, `Start` | the process dies; `create_app` sweeps all started rows |
| `SetTier`, `Tick` | an administrator, the clock |

The reservation is one step because both dialects serialise it (the write lock
of SQLite, an advisory lock on Postgres); `moment` is read before it and may be
older than the commit.

Properties. `SlotsAreHeld` has three parts: `ServerCapRespected`;
`CallerCapsRespected` (a user's started rows stay within the cap of some tier,
whatever tiers she is moved between while requests wait); `LiveRunsHoldSlots` (no
sweep takes the slot of a young live run; it rests on there being one process, so
it is conditional on `~Overlap`). `OvershootBounded` (a budget is exceeded by what was in flight and by
nothing else); `OnlyFreshRunsThrottle` (a leaked row stops costing anybody a slot
after `llm_run_max_age`, although a rejected reservation rolls its own sweep
back); `SlotsAreReleased` (liveness).

`LlmSelection` is what stands before the reservation: `PolicyFor` and `CharsFor`
(`policy_for`, `limits_for`), `Resolve` with the walk down and up the ladder, the
direct provider with its allowlist and the two fallbacks, and `Gate`, which
orders the refusals. It has no state; its claims are theorems, and the run
`usage_ledger` evaluates them on an instance as assumptions of `MCUsageLedger`.

### DocHistory and DocSync

`DocHistory` is what the store promises: a document is created once, a write is
a superset of what was accepted before, only a deletion takes text away.

`DocSync` is one tab with everything around it. A text is abstracted to the set
of edits it descends from: two texts are told apart by what they contain, which
is what losing or keeping text is about. Each asynchronous function is a frame
whose `pc` names the `await` it stands at; one step runs from one await to the
next. A generation has one frame for the save chain (`saving` admits one), one for
the navigation, one for an opening that overtakes it, and one for a renaming. A
request that writes is served and answered in two steps and either can be lost.

| Definitions | Code |
|---|---|
| `Type`, `Flush`, `EndPush`, `PushAnswered`, `TitleAnswered`, `FlushBy` | `autosave.ts`: `noteChange`, `flush`, `push`, the retry |
| `Hydrate`, `Show`, `Replayed`, `Recovery*` | `hydration.ts` |
| `Open`, `Create`, `Rename`, `Renamed`, `Remove`, `RetryInit`, `BufferPushed`, `Listed`, `ListFailed` | `documents.ts` |
| `Login`, `Logout`, `ExpireSession` | `session.ts` and `invalidateDocumentWork` |
| `Put`, `Post`, `Delete`, `Answer` | `services/documents.py` behind `api/documents.py` |
| `Serve`, `Lose`, `ServeStray`, `Foreign*`, `Close` | network, other device, closed tab |

What may happen together is given by scenes (`Scenes`): which acts the user may
make and how often, how many things go wrong, how many documents exist.

Properties. `ImplementsHistory`: the server's table implements `DocHistory`, in the
scenes of `doc_sync`; it does not in general, and section 5 says where it fails.
`OnlyExposedEditsAreLost`: nothing is lost except edits the code let out of its
hands (variable `exposed`): typed while a document is being opened, newer than the
snapshot of a recovery that met them, unsaved when the start-up went on, or on the
screen alone when the tab was closed or the session expired, because a confirmed
save or a removal had taken them out of the buffer (`tab.bare`). Of these last,
`BareTextGoesOn` says that they are never left lying: the debounce runs or a save
is queued. The property says that there is no further window. Edits given up on
purpose are in `forgone`: a removed document, a logout, the documented single slot
of the buffer. That a closing tab loses such a text at all is against the
documentation, and `ClosingKeepsText`, which says it does not, is violated
(`doc_closing`). `NoPhantomCopy`: as long as nothing fails, the tab never conflicts with
itself, whichever saves, switches, overtaking openings and start-ups overlap,
except over a document renamed or removed meanwhile. `NoCrossUserLeak`: no edit
reaches a document of somebody who did not make it. `TypeOK` contains the lock:
`saving` is held exactly while a chain of saves of the current generation runs.

### CheckJobs

The store of check jobs and the requests on them. `jobs` are the ids in the
store, `job` every job with its status, findings and event history, `reader` the
generators of the streams, `poll` a poll in its thread. All but the poll runs on
one event loop, so a step is what lies between two awaits.

| Action | Code |
|---|---|
| `Create` | `JobManager.create` with its two evictions and two refusals, then `create_check` up to the LLM's gate, or a checker that raises and discards the job |
| `GateAnswers` | the gate lets the LLM pass, skips it, or raises (also: the request is cancelled) and the job is discarded |
| `Progress`, `ProviderEnds`, `Callback` | the provider posts to the loop (`call_soon_threadsafe`, `to_thread`), the loop runs `on_progress` and the rest of `_run_llm` in the order of the posts |
| `Follow`, `Turn`, `Leave` | `check_events` and `CheckJob.stream`: replay, the end after `done`, or clear and wait |
| `PollStarts`, `PollAnswers` | `get_check`, a plain `def`, reads the status and then the results |

`create` inserts the new job first and evicts one by one; since the store is
within its limits before, at most one of the owner's finished jobs and one of
anybody's are evicted, and `Excess` and `Oldest` say which. Ids are given in the
order of creation, so the oldest is the smallest.

Properties. `ReadersAreServed` has two parts: `ReadersAreWoken` (each reader clears
the event they share) and `DoneAnswersAreWhole` (a poll that says done carries all
of it: the status is read first). `StreamsEnd` (whatever became of LLM, ledger and
the job's place in the store). Proved besides: `StoreBounded`, `RunningJobsStay`,
`RefusedChangesNothing` (a create evicts before it knows whether it is refused, and
yet a refusal costs nobody a result), `NeighboursKeepTheirs`, `DoneIsLast`.

### CheckController

The checks of one tab. `check` are the checks it posted and how far their answers
have come, `latest` is the check that holds the present epoch, `current` is
`currentCheckId`, `page` is what a document shows and saves: its text and the
checks its findings and its scorecard come from. How pages reach the server is
`DocSync`'s subject.

| Action | Code |
|---|---|
| `FastTimer`, `LlmTimer`, `CheckButton` with `RunCheck` | `scheduler.ts`, `App.tsx`, `runCheck` up to its `postCheck` |
| `PostAnswered`, `Failed` | the rest of `runCheck` and its catch block |
| `FindingsArrive`, `CardArrives`, `StreamEnds` | `onResult`, `onScorecard`, `onDone` with the settling of `readEvents` |
| `Type`, `LoadExample`, `Saved` | the editor's update listener, `setEditorText`, autosave |
| `Open`, `Fetched`, `Replayed`, `FetchFails` | `openDocument` and `hydrateFromDocument`, which cancels the check, then may replay another document's snapshot, then shows the document |
| `SignIn`, `SignOut`, `Unauthorized` | `login`, `logout`, `expireSession` |

Properties. `OnlyTheGapLeaks`: no page shows what another user's check found, and
results stay with their document unless the check was started in the gap of
`hydrateFromDocument` (section 5). `CardFitsText`: a scorecard that is not marked
stale was computed for the text beside it, in every saved page. `BusyEnds`: the
phase that disables the Check button ends.

### Analysis and Suggestions

`Analysis` is the pure part of the checkers over texts that are sequences of words:
the seven kinds of rules with activation, packs and exceptions (`CheckExistence`, ...),
duplicates, terminology, where a quote of the model is anchored, and the vetting of
the fixes a model offers (sanity, spelling, advice in parentheses, a re-run of the
rules).

`Suggestions` puts a tab and the two endpoints around it: editing with the tracked
findings that an edit touches or moves, a check that merges fresh findings and
migrates the caches to their equivalents, questions for fixes and rewrites with
answers that come late, applying, opening another text, the end of a session.

Properties. `NoForeignSuggestions`: sessions are counted (`sitting`), so that an
answer of the same user's earlier session is foreign too, and an answer remembers
what it was asked about (`Gist`), so that one under a fresh id can be told from one
under a wrong id. `CachesSurviveChecks` (a check that finds the
same again keeps the answers that were paid for, although every id is fresh);
`AcceptedIsClean` (an option that passed the vetting, applied where the tab would
put it, brings no finding of a general rule and takes one of its own away).

### EmailLocks, Accounts and LocalLogin

`EmailLocks` is `core/email_locks.py`: a table of locks with counts, waiters in
order, the eviction of entries nobody needs, a restart. `OnePerEmail`: two requests
for one address are never inside together, whatever is evicted while they wait.

`Accounts` extends it with the two stores of the Supabase mode: the provider's
identities (`ident`, with passwords, sessions and one-time links) and the rows of
`users`, and with every request that touches both: create, invite, resend, retry,
patch, login, refresh, change, reset and its confirmation, token verification with
the adoption or provisioning of a row in a thread, and the seeding at start-up. A
request goes from one call of the provider to the next; a call can be refused, or
its answer lost after it was done; local writes fail; the process dies.

Properties. `AccountsAreSingle`: `OnePerEmail` in this composition, and
`RotationEvicts` (a row whose identity's password was rotated, and the rotation
answered as done, carries its mark, less the tolerated drift, so that tokens issued
before it are refused, whoever links the row and when). `CreationsAreHonest`:
`PasswordHonoured` (the password a 201 reports is the account's, or none is, or
something other than a creation set it since) and `NoStrangersLinked` (no
administrator's request links an identity that opens with a password set
elsewhere).

`LocalLogin` is the mode without a provider: the throttle's table with its order,
stamps and eviction, the row of an account, threads that check, hash, record and
issue in separate critical sections. `BlocksHold`: `BlockStands` (neither failures on other keys
nor a late stamp nor pruning lift a block) and `CapIsHard`. `TokensFollowPassword` (a
token that is accepted was given for the present password, although the hash is
checked long before the token is made).

### TabSession

Several tabs of one browser over one storage, which they read and write key by key.
`tab` is what `session.ts` keeps in memory, `calls` the requests under way with the
token and the generation they were sent with, `sess` the provider's sessions with
rotation and the reuse interval. Actions are the form, the timer, a page load
(`restoreSession`), `refreshUser`, a refused request (`client.ts`), logout and expiry.

Properties. `SessionHolds` has three parts: `BearerIsUser` (a tab speaks as the user it shows); `AlwaysRenewing` (a
signed-in tab has a timer or a refresh that will set one); `SignedOutIsSilent`
(nothing asked in a session that ended brings it back). `EndsForItsOwn`: a session
ends unasked only for a token of that session; which of its rotated tokens it was is
not looked at.

### Library

Documents, folders, profiles, domains and terms with the requests of their routers.
`FolderPlan`, `ProfilePlan`, `DomainPlan`, `TermPlan` and `DocumentPlan` give each operation its statements, one connection each; a request holds
what it read (`req`) while others run between its statements. Start-up with its
seeds and their marker is a process of its own that may die between any two.

Properties. `EditsAreKept` (`update_document` writes back every column it read, and
yet no accepted write undoes a text or a name the user chose); `SweepsAreWhole` (a
deleted domain leaves all profiles and a deleted folder all documents, except for a
reference that was checked before and stored after or left by a process that died
in the sweep); `SeededOnce` (the example
comes once and the Standard profile exists exactly once, however often the process
dies while it seeds).

### TextSplice and HostDoc

`TextSplice` is text as UTF-16 units: the one splice between two texts
(`DeriveSplice`), findings mapped through it, and offsets in code points, which is
what the server counts.

`HostDoc` is the page and the embed with a queue of messages each way. The host has
its field with its text, its marks and the plain or rich adapter; the embed has its
copy, the tracked findings, the selected one, pending replacements with a timeout
and the run of checks on it; users type, connect, leave, click, sign in and out, and
the frame reloads. A finding is tagged with the user its check was started for
(`check.user`), which the code keeps nowhere. What a page makes of a replacement
is in `Outcomes`: the rich adapter looks at the field afterwards and says no, or
detaches, if it is not what it put in (`Verified`); the plain one says `ok` with
whatever the field holds then (`Unverified`), which a script or `maxlength` may
have rewritten.

Properties. `InStep` (a finding stands over the text it was found in, and when
nothing is under way the two sides agree on field, text and marks); `PanelIsOwn`
(all findings are of checks the signed-in user started, and there are none while
nobody is signed in); `AnswersAreTrue` (`ok` is said only where the shown text was
found, and of a rich field only of what was put in; a refusal of what was not);
`OnlyWhatWasShown` (a replacement changes only a place that holds the text the
panel showed). All four are proved (section 6). `met` and `applied` remember of a
request what came of it, which the code keeps nowhere.

### Page, Header and Terminology

`Page` has what the other two share: the users, the administrators, an empty list.
In both, a step is a task of the page: a state change, the rendering and the effects
it causes, which run before the next task. Requests are sent, served and answered,
and any of them can fail. What is tried together is given by mixes, as elsewhere.

`Header` is the selection in the header of a tab and those who write to it.

| Definitions | Code |
|---|---|
| `Login`, `Relogin`, `Logout` with `Emptied`, `Loaded`, `Written` | `session.ts`, `prefsPersistence.ts`: reset, load, and the subscriber that stores |
| `Due`, `Ran`, `Fetch`, `AnswerFetch`, `FailFetch` | the effect of `useHeaderData.ts`, its cancellation and its guards |
| `Open`, `New`, `Hydrate`, `Autosave` | `documents.ts`, `hydration.ts` and `settings.ts`, as far as the header goes; `DocSync` has the texts |
| `SelectLanguage`, `SelectDomains`, `SelectLlm`, `SelectProfile` | the controls |
| `SaveCard`, `SaveRules`, `SaveOverrides`, `ResetProfile`, `DeleteProfile`, `CreateProfile`, `AnswerSave` | the editors of `profiles/` and `rules/`; each sends a whole profile |

Properties. `ProfilesFit` (the list on the page is of the user, and when it is settled
of the language); `ChoicesLand` (a choice in one editor is not undone by the whole
profile another one sends); `PrefsAreKept` (what a user prefers is stored, and only
his own session writes it); `OpenedStays` (while the user does nothing, a document
stays as it was opened). Their exemptions are `mixed` (profiles over which requests
overlapped) and `crowded` (a document opened over a switch of the language or an edit
under way); the double opening among these is the run `header_opening`.

`Terminology` is the terminology page: the domains, which header and page both fetch,
the open domain with its rows, the row that is edited, and the requests.

| Definitions | Code |
|---|---|
| `List`, `AnswerList`, `FailList` | `getDomains` of `useHeaderData.ts` and of `TerminologyView.tsx` |
| `Renders`, `Picked`, `Opened`, `Tabled` | the view's effects and the table that is kept or unmounted |
| `AskTerms`, `AnswerAsk` with `Applies` | `loadTerms` and its guards |
| `AddDomain`, `RemoveDomain`, `SaveRename`, `AddTerm`, `SaveEdit`, `DeleteTerm`, `Granted`, `ServeWork`, `AnswerWork` | the forms, and the endpoints with their rights |

Properties. `RowsFit` (rows are of the open domain, edited only where the user may, and
the domains are the user's); `PageIsCurrent` (at rest rows and domains are the server's,
unless two fetches of the list overlapped or one failed, `crossed`, or rows were not
fetched again after a lost answer or a page that closed, `missed`).

### Reacquire

The content script's search for a field the page has rendered again. `hostPage` is the
page as blocks, forms and fields in none, in document order; the page is the
environment and takes away, inserts, replaces and resizes fields and whole forms.

| Definitions | Code |
|---|---|
| `FormIdentity`, `ResolvedForm`, `Number` | one untyped string for an id, a name or a place; looked up as id or name, then as `forms[Number(text)]` (`reacquire.ts:77-94`) |
| `Fingerprint`, `Distinguishes`, `UniqueMatch` | `computeFingerprint`, `uniqueEligibleMatch` |
| `Joined`, `IndexOf` | `formId:index`, read behind the first colon (`:194`, `:233-235`) |
| `Candidate`, `MatchScope`, `Accepts` | `findFingerprintMatch`, `resolveMatchScope` |
| `PointAt`, `Attach`, `Poll`, `LetGo`, `CallOff` | `scout.ts`, `session.ts` |

Properties. `FindsTheReplacement`: where no form bears the text another is known by, a
field that is rendered again is found, except one known by its index in a form with a
colon in its title (`Garbled`). `HandsOverWithin`: the session keeps its kind
(`KeepsKind`), is not taken over by a field that stood beside it because of a name or
label (`LeavesNeighbours`), and while its form is away goes on in another form only if
that one answers to the remembered text (`RefusesElsewhere`, `Answers`).

### FieldRegistry and Extension

`FieldRegistry` is the service worker. `registry.ts` returns effects from its
operations, and so do the definitions of the module: `FieldConnected`,
`TextChanged`, `HostRelay`, `FieldPortGone`, `EmbedRelay`, `PanelReady`,
`DisconnectRequested` and `ServerChanged` yield the next windows and badges and
the messages to send, `Execute` is the effect loop of `sw.ts`, and one action per
port event (`FieldPortOpens`, `FieldPortSays`, `PanelHello`, ...) calls them with
the currency checks of `sw.ts`. Ports say anything at any time, as far as one
session per tab allows (`Speaks`); `WorkerDies` is the suspension or crash. The
history `told` is what the embed of a window knows if every message arrives.

Properties, proved: `FieldHasItsPort` (no ghost stays behind when a tab moves to
another window or a port is replaced before it closes), `PanelMatchesRegistry` (what
a ready panel was told is exactly what the registry holds; the windows in `lapsed`,
whose field was taken by a change of the server, wait for their panel's reload),
`BadgeMeansField`.

`Extension` puts the clients around it: `scout` (`scout.ts` and the life of a
session), `panel` (`panel.ts`, `relay.ts` and the field the embed shows), and the
ports between them as two queues each. A change of the server is heard by worker,
scripts and panels one by one. The worker's steps are those of `FieldRegistry`,
without its assumption on what ports say: `ImplementsRegistry` states that the
scripts and panels fulfil it, it is proved, and with it the facts above hold here.
`SessionsAgree` and `EmbedAgrees` compare all three parties when nothing is under way.

### The MC modules

Values for the configurations, and the mixes or scenes TLC tries one after another.
Five of them put modules that share no state into one run: `MCAccounts` the two modes
of accounts, `MCCheckJobs` a check's job and its slot in the ledger, `MCTabSession` the
session of a tab and its suggestions, `MCPages` the tables, the header and the
terminology page, `MCHostPages` the panel and the pages that render again. A variable
`part` (in `MCAccounts`, `mode`) says which is explored; the others stand still at one
initial state, so every part is explored whole and the run is their union, not their
product. `MCLibrary`, `MCHeader`, `MCHostDoc`, `MCReacquire` and `MCSuggestions` have
the values of the parts.

The operators with a name like `ReservedUnswept`, `NotedLater` or `StillRunning` in the
modules are the mistakes the properties are tried against; no other definition uses
them.

## 4. The runs

| Run | Instance | Checks |
|---|---|---|
| `usage_ledger` | 3 requests, 2 users, 2 tiers with caps 1 and 2, server cap 2, windows of 1 and 2 ticks, a clock up to 2, symmetry (527 thousand states); with it every selection of 3 providers and 2 models under 144 policies | `SlotsAreHeld`, `OvershootBounded`, `OnlyFreshRunsThrottle` |
| `doc_sync` | 2 users, 2 edits, 3 documents, up to 2 faults, symmetry; five scenes: `Writing` beside another device, `Leaving` (one edit and everything that can happen around it), `Renaming`, `SwitchingAhead` (typing while a document opens), `Overtaking` (two openings at once) (737 thousand states) | `OnlyExposedEditsAreLost`, `NoPhantomCopy`, `NoCrossUserLeak`, `ImplementsHistory` |
| `check_controller` | 2 users, 3 documents, 2 texts one of which is blank, 2 checks, 2 moves, automatic LLM checks, fair (1.26 million states) | `OnlyTheGapLeaks`, `CardFitsText`, `BusyEnds` |
| `check_jobs` | jobs: 3 owners, a store of 1 job, 3 creates, the first 2 with the LLM, 2 readers and a poll of the first, 1 progress report; ledger: 2 requests, 1 user, overlapping processes; fair (403 thousand states) | `ReadersAreServed`, `StreamsEnd`, `SlotsAreReleased` |
| `accounts` | a server in either mode. With the provider: one address, two identities that can own it, two lock objects, three requests; ten mixes of request kinds with at most one crash, one failing call and one tick. With local passwords: 2 handlers, 3 keys of which one is the account's, a table of 2, threshold 2; the clock to 3, or two changes of the account; symmetry (2.78 million states) | `AccountsAreSingle`, `CreationsAreHonest`, `TokensFollowPassword`, `BlocksHold` |
| `tab_session` | session: 2 tabs, 2 users, 2 sessions of the provider, one rotation each; six mixes of arriving, switching, reloading, resuming, working. Fixes: one rule of every kind, two terminology domains, texts of up to 7 words; five scenes: editing, pasting, retyping, casings, ends of sessions; symmetry (1.80 million states) | `SessionHolds`, `EndsForItsOwn`; `NoForeignSuggestions`, `AcceptedIsClean`, `CachesSurviveChecks` |
| `extension` | 2 windows, 2 tabs, 3 field ports, 2 panel ports, 2 fields, 3 moves and 1 fault, everything that can happen, symmetry (574 thousand states) | `SessionsAgree`, `EmbedAgrees`, `ImplementsRegistry` |
| `pages` | tables: 3 profiles, 2 domains, 2 terms, 2 folders, 2 documents; six mixes of four requests of two users and an administrator, up to 2 restarts. Header: 2 users, 2 languages, 3 documents, 4 profiles; five mixes of up to 4 acts and 1 failure. Terminology: a global domain, one owned, one to be made, 3 terms; six mixes of up to 4 acts and 1 failure (682 thousand states) | `SeededOnce`, `SweepsAreWhole`, `EditsAreKept`; `ProfilesFit`, `ChoicesLand`, `PrefsAreKept`, `OpenedStays`; `RowsFit`, `PageIsCurrent` |
| `host_pages` | panel: a plain and a rich field, texts of up to 4 units, 2 users, 2 replacements; ten mixes. Render: 8 fields of both kinds and 6 forms, nine first pages, 4 turns (1.20 million states) | `InStep`, `PanelIsOwn`, `AnswersAreTrue`, `OnlyWhatWasShown`; `FindsTheReplacement`, `HandsOverWithin` |
| `doc_sync_renaming` | `doc_sync` in the scene `RenamingAbroad`: a document is renamed while it is being opened and another device writes it | that `ImplementsHistory` is violated (section 5) |
| `doc_closing` | `doc_sync` with nothing but typing and a tab that closes, 2 edits | that `ClosingKeepsText` is violated (section 5) |
| `header_opening` | `pages`' header with nothing but logins and documents that are opened, 3 acts | that `OpeningKeepsSettings` is violated (section 5) |

Why the bounds are enough. A cap of 2 needs 3 requests to be exceeded, and 2
users to tell the user's cap from the server's; age 1 lets a run become stale
while it is served, and a window end under a reservation. In `DocSync` an edit is
lost by two actors that hold different texts, so two edits; a switch needs two
documents and a recovery a third; the longest scenario found needs two moves and
two faults. Two openings at once can be of the same document, or of two: one more
move after the first has arrived.

In `check_jobs` a store of one lets each of the two evictions and each of the two
refusals happen: of the owner's own job, and of another's; two readers are what it
takes to clear each other's event; a job is evicted while it is followed, and its
successor too, in three creates. What the limits promise is proved for all of them. The state constraint `OwnersInOrder` names owners in
the order of their first job: owners are interchangeable, so every behaviour is a
renaming of one that is kept, and it is used in place of `SYMMETRY`, which is not
sound for `StreamsEnd`. In `check_controller` a late answer needs two checks, a
foreign one two users, a leak two documents of one user; two moves let a document
be left and opened again, or a session end under an opening.

In `accounts` every claim is about one address, and what two requests do to each
other needs two of them and a third that verifies a token or retries; a mix says
which kinds meet, since all kinds at once with crashes are too many. Two identities
are what it takes to link the wrong one. In its other mode a table of two is crowded
by three keys, and a late stamp needs a second thread. In `tab_session` the other
tab overwrites the storage, so two tabs; two users tell whose tokens they are; one
rotation and the reuse interval make a token stale. In `Library` a hazard is two
requests between whose statements a third one runs, or a sweep, or a restart; four
slots let a mix hold them at once. In the header two languages and two users are what a
late answer can be of, and an effect is cancelled by the next one; the terminology page
needs three domains for one that is left, one that is opened and one that comes.  In
`host_pages` a text of three units has a finding
on either side of an edit, and `High` and `Low` a character that is two units. In the
extension a ghost needs two windows and a port that replaces another, a takeover two
tabs, and a late message of an old port a third port. For `Reacquire` the nine pages
hold what the code tells apart: two fields that look alike in one form, in two, in
none; a shared name with and without a label, a shared id; forms with an id, with a
name that two of them share, with neither, with a number for a name and with a colon in
the id. Four turns take a field or a form away, put another there and resize one.

`CHECK_DEADLOCK FALSE` everywhere: the bounded clocks, moves and faults run out, and
a tab, a server or a ledger at rest is a legitimate end.

Fairness. `check_jobs` and `check_controller` are fair. Of the ledger it is assumed
that an await that is over resumes, that provider calls end (the HTTP clients carry
timeouts) and that a dead process is restarted; nothing of users, administrators or
the clock. Of the jobs, that the event loop runs what is ready (callbacks, a generator
whose client reads on), that the gate decides and that a provider ends. The part that
stands still has nothing enabled that it owes, so the two assumptions do not meet. Of
the controller, that requests are answered or fail and that streams end, which
`check_jobs` shows of the server and the network's own errors do otherwise. The other
runs assume none and check safety only.

## 5. What the models show besides

Not every claim one would like to make holds. These behaviours were met while the
properties were formulated; the properties name them as their exceptions, or are
stated so that they do not depend on them.

Documents in the tab

* `push` marks its own older snapshot as the clean buffer after the user typed on
  (`autosave.ts:241`), and a switch that waits for it then overwrites what was typed. A
  tab that is closed then loses it as well: `flush` at `beforeunload` finds the save
  chain busy with the title of the saved text, and only queues itself
  (`autosave.ts:181-190`), so that the text is neither in the buffer nor sent. This is
  the finding the run `doc_closing` shows. Likewise
  what is typed while a conflict is recovered is overwritten by the hydration at its
  end (`hydration.ts:220-226`); when the start-up's PUT fails and its list succeeds,
  the document is hydrated over the dirty buffer (`documents.ts:290`).
  `docs/frontend-architecture.md:1025` promises that a switch drops nothing. These
  are the windows that `exposed` stands for.
* A removal takes the text out of the buffer before its request is answered
  (`documents.ts:207-216`); when it fails, the text is on the screen alone, with no save
  due, until the next keystroke (`BareTextGoesOn` leaves it out).
* A removal does not stop the debounce or the save in flight; the 404 brings the
  document back as a recovered copy (`documents.ts:208-212`).
* The start-up's retry button does not wait for a save in flight: old text gets a new
  revision and the next save undoes an accepted one (`autosave.ts:239`). A renaming
  does the same with two faults: its answer hands the tab a fresh revision for a
  stale text (`documents.ts:185-205`); with none it can only make a copy nobody needs.
* A document is renamed while it is being opened, and another device writes it: the
  revision of the renaming is given to the text that was read before that write
  (`documents.ts:189-200`), and the next save replaces it with no conflict. This is the
  finding the run `doc_sync_renaming` shows.
* Two openings of one document at once, with typing between their ends: the second
  puts the older text into the editor while the save of what was typed is under way,
  the save then confirms its revision for it (`autosave.ts:240`), and the next one
  undoes it. The scenes let nobody type during overlapping openings.
* A replayed orphan races the debounced save of the same document when the user types
  during the switch: another phantom copy.

Checks and suggestions

* `hydrateFromDocument` cancels the check in flight and then awaits the replay of the
  outgoing document (`hydration.ts:98-99`) with its text still in the editor. A check
  started then is not cancelled any more, and its scorecard lands on the document
  that is shown next and is saved with it.
* A run on an empty text ends its predecessor without touching the phase
  (`controller.ts:67`); the button stays disabled until the next run or cancel.
* An edit in front of a finding drops the caches of its answers (`store.ts:297-301`),
  and an answer that arrives after a re-check is stored under the dead id, though it
  was paid for. A repeated replacement is honoured twice (`Sidebar.tsx:239`).
* The rule re-check of a fix uses the default rule configuration
  (`vetting.py:196-204`), not the profile's.

Sessions and accounts

* A tab can go back to an earlier token of its session (`session.ts:395-401`); logout
  or expiry in one tab clears the tokens another user's tab has stored; a renewal of
  another tab of the same session can write tokens back after a logout; a renewal that
  succeeds by timer leaves a page at `restoreFailed` until Retry.
* `reset_confirm` checks that an account is active before it awaits the rotation; a
  crash of `seed_admin` between its two writes leaves the row unmarked; concurrent
  first sign-ins of one subject can be refused (`supabase_auth.py:106-112`).
* `record_failure` reads the clock before it takes the lock, so the table need not be
  in the order of last sight that `auth.py:171-174` relies on, and a stale stamp sets a
  shorter block. The cap is hard rather than soft: when every other entry is blocked,
  a new key's failures are forgotten at once, and it is never blocked. Parallel
  attempts pass the check before any of them is recorded. A self-service change that
  was proved before an administrator's reset overwrites it.

The server's tables

* `update_domain` merges the row it read, so two patches at a time lose a name; a sweep
  that read a profile before its owner changed it puts back the domains it had;
  `update_profile` answers 200 for a row deleted meanwhile. `profiles.py:337` ("drop the
  id from every owner's profiles") holds up to references stored after the check.
* A restart seeds a deleted global domain again, and a crash between a domain and its
  terms leaves it without them.
* `limits_for` gives a user of an unconfigured plan an administrator's limits; she never
  reaches the reservation (`UnknownPlanReservesNothing`).

The pages of a tab

* A document that switches the language is opened, and a second one, or the same again,
  before the profiles for the new language are there: the second hydration disarms the
  suppression the first one's fetch needed, and the profile's settings overwrite the
  document's (`hydration.ts`, `useHeaderData.ts`). This is the finding the run
  `header_opening` shows; `crowded` exempts it from `OpenedStays`.
* Every profile editor sends the whole profile from the list it has: two requests that
  overlap undo each other (`mixed`).
* `refreshDomains` is not ordered: of two fetches of the list the older answer may come
  last and stay (`crossed`). A domain that is new is opened when its list arrives,
  wherever the user went meanwhile. A deletion sets nothing open and then fetches the list
  (`TerminologyView.tsx:109-116`); the effect in between opens the first domain of the old
  list, which may be the deleted one. Saving a row answers late and closes the row that is
  edited by then, if the table is the same.

The embed and the extension

* A plain field's adapter answers `ok` with whatever the field holds after the
  replacement (`textareaAdapter.ts:726-739`): a page that rewrites its input, or a
  `maxlength`, makes it true of something else. The embed learns the text from the echo.
* `resolveForm` takes the first form whose id or name is the remembered text, and failing
  that `forms[Number(text)]` (`reacquire.ts:91-94`). When the form is gone, one of the
  same name, the one that moved up to its place, or, if its name is `1`, the second form
  of the page is searched, and a field there is connected. The comment
  (`reacquire.ts:41-51`) says that a fingerprint is only valid in that same form and
  that the match refuses otherwise; `RefusesElsewhere` says when it does.
* A fingerprint by index is split at its first colon (`reacquire.ts:233-235`): in a form
  with a colon in its id, as some frameworks make them, the field is never found again.
* A name is unique if no other *eligible* field bears it: a neighbour that was disabled
  when the field was connected can be taken for it later. When an index is the identity,
  the survivor of two alike takes it.
* A host that connects before its frame's load event forgets the field while the embed
  keeps it (`forgotten` in `HostDoc`); after a merge selects an equivalent finding, the
  host is not told.
* A `fieldConnected` that is under way while the server changes is registered after the
  worker disconnected everything, and its script detaches without a word
  (`scout.ts:512`): the field stays with the new server until its port closes.

## 6. What is proved

Eight modules, each about the modules it extends, for every value of their constants
that satisfies the named assumptions. No invariant below was stated for the proof and
then weakened: the inductive ones are stronger than the properties they carry.

`SessionAndGate_proofs`, about `UsageLedger`, for any finite set of requests and any
users, tiers, caps, windows and prices:

* `TypeCorrect`: `[]TypeOK`. `TypeOK` is inductive.
* `SlotsHeld`: `[]SlotsAreHeld`, from the next three.
* `CallerCapsHold`: `[]CallerCapsRespected`, inductive with the types: only `Admit` adds a
  row of the user it asks for, and it counted them under the tier it was given when it
  asked; a cap that is the largest bounds them all. The run cannot try it apart from
  the server's cap, since its larger cap is the same number; the theorem is about any.
* `ServerCapHolds`: `[]ServerCapRespected`. With `TypeOK` it is inductive: only
  `Admit` adds a started row, and its guard counted the table it commits; every
  other step only takes rows out of the started set (`StartedShrinks`).
* `LiveRunsHold`: `[]LiveRunsHoldSlots`. It is not inductive: nothing in it says
  that the row of a coroutine that serves is its own, or when it was made. The
  strengthening is `RowsFollowRequests` (`RequestsInvariant`): a request that was
  not admitted has no row, moments lie in the past, coroutines live in a process
  that is up, and a young call's row is started.
* `TerminalRowsStay`, `FreshRunsThrottle`: action properties, by cases on the
  step from the type invariant. The second rests on `ReservedStarted`: the rows
  that are started after the sweep and the insertion are the fresh ones and the
  request's own.

The caps as constants with `UserCap <= ServerCap` and the positive age come from
the validation in `core/config.py`.

and about `LlmSelection`, for any providers, models, plans, routing and requests:

* `GateAdmitsWhatIsGranted`: what is reserved is granted by the caller's plan
  (`WithinPolicy`), reported as degraded exactly when it is not what was asked
  (`SaysSo`), never better than needed, constructible and within the size. By cases on
  the rules of `Resolve`, one lemma per rule; the walk along the ladder needs that a
  finite non-empty set of rungs has a least and a greatest element.
* `UnknownPlanReservesNothing`.

`Extension_proofs`, for any sets of windows, tabs, ports, fields and texts. First
`FieldRegistry` by itself, with its assumption on what ports say:

* `TypeCorrect`, `NoGhosts` (`FieldHasItsPort`), `PanelsAgree`
  (`PanelMatchesRegistry`) and `BadgesAgree` (`BadgeMeansField`), all from one
  inductive invariant `Inv`. None of the three is inductive: a late message of a
  replaced port is harmless only because ports are captured once and the
  registered one is where its field is, a panel agrees only because a window that
  is ready has a registered panel, and a badge is put out by every way a field can
  leave only if the field's tab is the one that was lit. One lemma per operation
  of the registry says that its result keeps `Inv`; the actions cite them.

Then `Extension`, whose scripts and panels take the place of that assumption:

* `ClientTypes`: `[]ClientTypeOK`, the contents of all queues included.
* `RegistryImplemented`: `ImplementsRegistry`, the refinement: every step is one of
  `FieldRegistry` or leaves it alone. A script says what `Speaks` allows because its
  port speaks of its opening first and once, is captured in the order in which the
  ports of its tab were opened (`InTurn`), and names after a connection no field but
  that until it lets go of it.
* `RegistryKept`: hence `FieldHasItsPort`, `PanelMatchesRegistry` and `BadgeMeansField`
  hold of the extension, which assumes nothing of ports.
* `SessionsAgreed`: `[]SessionsAgree`. It speaks of states in which nothing is under
  way and is far from inductive. `FieldSide` (`ExtensionPorts_proofs`) says of any
  state what is still to come: `PortsShaped` and `OwnPorts`, which port of a tab counts
  and what may stand in its queue; `Spoken`, that a text or an end is said of the field
  connected last; `Sessions` and `Typings`, that the session and the text of a script
  are the last its port tells of or what the worker has; `AllFollowed`, that a field
  the worker has, or is about to hear of, is the session of its script or will be
  replaced, or was dropped at a change of the server; `Names`, that a field is connected
  once, and by nobody after its script was told to detach. `LineSide` says the little
  that is needed of panels: a port is greeted before anything else is said on it. `EInv`
  joins the two with `Inv` and the counts.

The proof is in three layers. The lemmas `XKeeps` of `ExtensionPorts_proofs` are about
values: one kind of change of ports, scripts, windows and captures (`XStep`), from any
values that satisfy `FieldSide`. `FieldsSound` shows for each action of `Extension` that
it is such changes in turn. `EInvStep` puts the sides together.

`Checks_proofs`, of the server, for any owners, limits, readers and numbers of jobs:

* `TypeCorrect`: `JobsTypeOK` is inductive together with `PollAimed` (a poll under way
  reads a job that exists).
* `LimitsHold`: `[]StoreBounded`, inductive with the types. The lemmas are about
  the eviction itself: a set within its limit exceeds it by at most one new
  element (`ExcessOfOneMore`), and taking the oldest of enough candidates out makes
  a set smaller by as much (`RoomIsMade`, which needs a smallest number,
  `Smallest`). `OwnTrim` and `GlobalTrim` apply them to the two evictions.
* `RunningStay`, `RefusalIsFree`, `NeighboursKeep`: the action properties, from the
  limits, since only a store within its limits asks for one eviction at a time.
* `WokenReaders`: `[]ReadersAreWoken`, inductive with `ReadersFollow` (no reader is
  further than its job), because histories only grow (`EventsGrow`).
* `DoneLast`: `[]DoneIsLast`, from `JobsLive`: the stage of a job says what is still
  posted, so that the end is taken when nothing else is left (`TakenPosts`).
* `AnswersWhole`: `[]DoneAnswersAreWhole`, with `PollKnows`: a poll that has read done
  has read it of a job that changes no more, so what it reads after that is all.
  `ReadersServed` joins it with `WokenReaders`.

`Checks_proofs`, of the tab, for any users, documents, texts and numbers of checks:

* `ControllerTypeCorrect`, `LeaksOnlyInTheGap` (`[]OnlyTheGapLeaks`) and `CardsFit`
  (`[]CardFitsText`), from one inductive invariant. One check at most can still be
  applied, the one that took the last epoch (`OneStream`); it is of this generation
  (`LatestRan`); and it was started for the document in the editor, or else late, while
  a replay stood between the cancelled check and the document to be shown
  (`InTheGap`). A page keeps what it was given because a check that is over never
  changes (`SameRun`, `StillFits`).

`DocSync_proofs`, for any users, documents, edits and scenes, with strays, other
devices, lost requests and ends of sessions at any moment:

* `TypeCorrect`: `[]TypeOK`, and with it the lock of the save chain - `saving` is set
  exactly while the frame of the present generation saves, so no two saves overlap and
  no session begins with the chain locked.
* `NothingLeaks`: `[]NoCrossUserLeak`. The invariant says of everything that holds a
  text whose it is: the buffer by its owner, a request by the token it carries
  (`Held`), the editor by the session (`OwnTab`), a frame of this generation by the
  token of this session (`Carries`). One lemma per step; those of the tab go through
  what its parts keep (`FlushFits`, `HydrateFits`, `ThrowFits`, ...).

`Accounts_proofs`, for any requests, addresses, identities and lock objects, any mixes
of kinds and any numbers of faults, crashes and ticks:

* `LocksTypeCorrect`, and `OneRequestPerEmail`: `[]OnePerEmail`, of the locks alone. The
  strengthening `LocksInv` says that the count of an address is the number of requests
  that wait or are inside for it (`Counted`), hence an entry somebody needs is never
  evicted, hence all who need an address share one lock (`Shared`), whose holder is
  who is inside (`Entered`).
* `TypeCorrect` and `OneAdministratorPerEmail`: `[]OnePerEmail` where the locks are
  used. A request enters and leaves them only as `EmailLocks` says, and the
  administrators' requests are inside from their first call to their last
  (`Sections`).
* `RotationsEvict` (`[]RotationEvicts`), `LinksNoStranger` (`NoStrangersLinked`) and
  `HonoursPasswords` (`PasswordHonoured`). What a request relies on lives in two
  services that share no transaction, so the invariant says what is never taken
  back: an identity has one address for ever - its home - and every row, request and
  retry token that names it does so under that address (`Homed`, `Rowed`); an identity
  whose password nobody else set stays so (`Unopened`); a rotation that was answered
  has its row linked and is to mark it (`MustBeLinked`, `Marks`). `Later` is what any
  step leaves of this to the requests it does not belong to (`FitsStays`), and one
  lemma per call of the gateway does the rest. `PasswordHonoured` needs the lock as
  well: between the rotation and the 201 nobody else creates under that address.
  `AccountsHeld` and `HonestCreations` join them into the two properties the run checks.

Accounts without a provider, `LocalLogin`, also in `Accounts_proofs`, for any handlers,
keys, limits and numbers of changes:

* `TokensAreOfToday`: `[]TokensFollowPassword`. The strengthening pairs password and
  epoch in the account, in every row a handler holds and in every token
  (`LoginInv`): it is enough because a row is read once, in one statement, and the
  epoch of the token is taken from it.
* `LoginTypeCorrect`, `CapStaysHard` (`[]CapIsHard`), `BlocksStand` (`BlockStands`), from
  `ThrottleInv`: one entry for each key; none blocked for longer than the longest delay
  after it was last seen, so that the sweep of old entries never reaches it; none
  blocked that has not failed `Threshold` times, so that the entry that is one too many
  is unblocked or replaces one (`RecordedKeeps`, `EvictedKeeps`, `UnexpiredKeeps`). The
  lemmas count places of the table by their rank (`Ranked`, `PlacedIs`), which needs no
  induction. `BlocksStand` assumes `Stall < 2 * BaseDelay`: a thread that stamps a failure
  and then waits for the lock for longer than a second delay can shorten a block, as the
  stamp counts (`auth.py:207-236`). The comment there calls the cap soft; with a
  threshold of at least two, as both instances have, it is hard. `ThrottleHeld` joins
  the two.

`TabSession`, also in `SessionAndGate_proofs`, for any numbers of tabs, users, sessions
and rotations:

* `SessionTypeCorrect`, and `SessionHeld` (`[]SessionHolds`) from its parts:
  `BearerKnown` (`[]BearerIsUser`), `RenewsForever`
  (`[]AlwaysRenewing`), `SilentOnceSignedOut` (`[]SignedOutIsSilent`), from one
  inductive invariant `Sound`: a request that still counts for a tab carries the token
  the tab holds and at most one of each kind does (`Counts`, `CountBoth`), whatever the
  storage says by then; a page that shows a user holds a token of that user
  (`PageKnown`).
* `EndsOnlyForItsOwn` (`EndsForItsOwn`), an action property: an answer that ends a
  session is the answer to the token that session holds, because the one refresh that
  counts was sent with it.

`Library_proofs`, for any users, rows, documents and requests, any mixes of what they
ask and any number of restarts:

* `TypeCorrect`, `SeededForGood` (`[]SeededOnce`), `SweptEverywhere`
  (`[]SweepsAreWhole`) and `EditsKept` (`EditsAreKept`), from one inductive invariant.
  A request makes its statements in transactions of their own, so nothing it has read
  need be there when it writes. `Fits` says what it may rely on all the same: its
  target is of its kind and was born, a folder is its own (`Aimed`); the row it merges
  is what its target was seeded as (`Holding`); the list a sweep has read holds every
  profile with the domain that was not stored since (`SweepsOn`); the columns of a
  document whose revision is still the caller's are those it read, up to a title
  (`Dated`). `Later` is what any statement leaves of the tables - rows and documents are
  born once, keep their owner and their seed, never return, and change a text only
  with the revision - and `FitsLater` that no request loses what it relies on by it.
  `Starting` is the argument about crashes: which seeds stand at which stage of
  start-up, and that the marker is set before requests are served.
* `LoadsAssumption` says of the tables the server starts with what the program leaves
  behind: domains that profiles refer to exist, a document's folder is its owner's, and
  either the seeds were made and marked or there is room for them under their names.
  TLC evaluates it on the mixes of the run.

`HostDoc_proofs`, for any fields, users, texts and numbers of requests, and any mix of
what users, frameworks, timers and reloads do. First what a splice is: the one
`DeriveSplice` finds turns the old text into the new one (`SpliceIs`), and a finding it
does not touch stands, moved, over its text (`StandsMoved`). Then five invariants, each
proved with those before it:

* `TypeCorrect` (`[]TypeOK`), from `Kept`: the kinds of everything, and every finding over
  the text it was found in. The first cannot be had without the second: that a finding is
  not turned inside out by a splice, and that a request is for a place inside a text,
  follow from where it stands.
* `PanelStaysOwn` (`[]PanelIsOwn`), from `Owned`: findings are kept only while somebody is
  signed in, a check that was started and not aborted is the signed-in user's
  (`abortCheck` at every change of the user), and so are the findings it brings, which
  carry the user of the check and not the one who is there when they arrive.
* `AnswersStayTrue` (`[]AnswersAreTrue`), from `Asking`: a request has at most one message
  under way, its wish or its answer, and an answer says what was done (`Due`, `Told`). A
  frame that reloads numbers its requests anew: when a hello is under way to it no wish
  of the frame before is, and no answer to one follows that hello (`Ungreeted`). Of what
  a plain field made of the replacement the theorem promises nothing.
* `OnlyShownTextIsReplaced` (`OnlyWhatWasShown`), an action property: a wish carries what
  its finding said when it was made, and the host compares that with the place it is
  about to change.
* `StaysInStep` (`[]InStep`). Its second half speaks of two sides at rest and is not
  inductive; the strengthenings say where the messages under way lead. `InLine`: hearing
  all of `toEmbed` in order, the embed ends with the host's field and text (`Leads`,
  `Heard`, `Arrives`), across a frame's reload and its second greeting. `Introduced`: a
  connected field has an embed that answered. `Worded`: of the findings messages to a
  field the last one counts, and what it says, or what is marked when there is none, is
  nothing or the spans of the embed's present findings; once the field's
  `fieldConnected` has been heard, it is those spans. Earlier messages may say
  anything, which is why the invariant speaks of the last.

Only model-checked:

* Liveness (`SlotsAreReleased`, `StreamsEnd`, `BusyEnds`): fairness and `ENABLED` are
  out of the prover's reach.
* `OvershootBounded` and what `Analysis` computes: sums and folds need induction over
  data, which the installed provers cannot apply.
* `ImplementsHistory`, which is false of all scenes together; `OnlyExposedEditsAreLost`
  and `NoPhantomCopy`, whose truth depends on the scene.
* `EmbedAgrees`, the text and field an embed shows at rest. What the worker told a panel
  is proved (`PanelMatchesRegistry`); that a panel has heard it is checked.
* `Suggestions`, `Header`, `Terminology` and `Reacquire`, whose operators compute with
  sequences and cardinalities of words, rows and fields. Liveness of the last three - that
  a list arrives, that a search ends - is not checked.

## 7. What is not modelled

In `UsageLedger`: the price formula (a set of costs), the delay before a rejection,
the reports (they only read). In `LlmSelection`: the text of warnings.

In `DocSync`: moving to a folder and folder defaults (`Library` has the server's
side), the legacy-text migration, more than two openings at a time; the document list
is taken from the server when it is used; the title request may succeed or fail
with the same effect on saving; `localStorage` does not fail. `MaxFaults` bounds the
lost requests, closed tabs, foreign writes and ended sessions, a scene's `moves` what
the user does besides typing.

In `CheckJobs`: the texts of findings and events, a task that is cancelled (nothing
cancels it). `LlmJobs` and `Watched` bound which jobs ask for the LLM and are followed;
the proofs hold for all of them. In `CheckController`: error messages, the token
counter, the refresh of the usage display; that a replacement and its findings are
one transaction of the editor.

In `Analysis`: characters within a word, regular expressions, inflection and the
parser's tags (a rule lists the words it means), the segmentation of Chinese and
Japanese, whose `lower()` can change lengths; prompts and the parsing of a model's
reply. In `Suggestions` a check is one step, and which finding is selected is left
out.

In `Accounts`: requests refused before they touch anything, roles and settings, the
audit log, other subjects than those of the addresses. The throttle of the password
reset is a second instance of the one in `LocalLogin`. In `LocalLogin`: more than one
account; roles, so that two administrators can demote each other is not a state of the
model.

In `TabSession`: preferences; the mode without an identity provider, which has no
refresh token and no timer; and the silent login of the same user after a change of the
password (`AccountMenu.tsx:245-270`), whose two comparisons of the generation the logins
of the model have, but not its third outcome, an expiry because that login failed.
`EndsForItsOwn` compares sessions: that a refusal of an older token of the same session
ends it is not excluded. In `Library`: time stamps, settings that no other
statement reads, one language; who may create at all is who asks.

In `Page`, `Header` and `Terminology`: a task of the page is one step, its state change
with the rendering and the effects it causes; sorting, filtering and the languages of the
terminology page; a login over another user's session without a logout; in the header an
autosave is one step (`DocSync` has its parts).

In `HostDoc`: status messages, geometry and overlays, the segment map
of the rich adapter (a field is its text), the simulator's desynchronisation switch; the
capabilities of a field, so that the refusal of every replacement under `replace: 'none'`
(`hostDoc.ts:347-351`) is not a case; a script that sets a field's value without an input
event, which nothing hears; two sessions of one user one after another, of whom the tag of
a finding names the user only. In `Reacquire`: geometry and the other conditions of
eligibility (a field is eligible or not), a contenteditable that is itself the form's
element, numbers in other spellings (`01`), two elements of one id.
In `Extension`: the chip and its geometry, the contents of fields beyond a text that
changes, markings, replacements and clicks (`FieldRegistry` relays them, `HostDoc`
has their ends), the keepalive pings, the gesture that opens the panel. A reload
closes a panel's port and the loading panel connects later; a message that reaches
an embed while it loads may be lost.

Exemptions. Some properties leave a window open that the code has, by a history variable
or a definition of its own: `exposed` and `tab.bare` in `DocSync`, `late` checks in
`CheckController`, `strayed` in `Library` (references checked before and stored after the
deletion, so that the check-then-set races themselves are not caught), `mixed` and
`crowded` in `Header`, `crossed` and `missed` in `Terminology`, `forgotten` in `HostDoc`,
`Answers`, `Known` and `Garbled` in `Reacquire`, `lapsed` in `FieldRegistry`. Each is
named with its property in section 3 and, where it is an effect a user can see, in
section 5.

The LLM providers are HTTP clients of external services, whose outcome the models
take as any; the views and translations have no state of their own beyond what the
modules keep; the command line, schema creation and import are scripts run by hand.
The components with status `partly` or `not_modelled` in `PROJECT.json` carry the
reason.
