# AgentGuard in TLA+

A verification development for the AgentGuard backend (`src/app`): a governed
agent that prepares guest replies and price changes for short-term rentals and
lets no irreversible action pass without a person. The modules translate the
Python source; TLC checks them on small instances and TLAPS proves the safety
properties for every value of the constants.

The backend is FastAPI with synchronous handlers, so requests are served by a
pool of threads side by side; webhooks leave background tasks; pricing jobs and
the distillation of knowledge are processes of their own. All of them share one
SQL database, and nothing locks: a handler is a sequence of short transactions,
provider requests and model calls, and anything may happen between two of them.
That is where the hard behaviour is, and that is what the stateful modules are
about. Beside it the system decides a great deal by pure rules (prices,
vacancy, what a guest is owed, what is learned), whose thresholds, orders of
precedence and rounding are the subject of the stateless modules.

## 1. Inventory

| Component | State it keeps | Operations | Hard behaviour | Modelled by |
|---|---|---|---|---|
| Agent runtime (`agent.py`, `run_store.py`, `approval_store.py`, `reconciliation.py`, `tool_registry.py`) | runs, saved conversations, approvals, audit events | run, request_action, the bounded loop, park, resolve_approval, reconcile | double resolution, death between two commits, a sweep with an old list | `AgentRuntime`, `GovernedRun` |
| Pricing cleanup (`pricing_cleanup*.py`, PriceLabs write client and tools) | `pricing_cleanups`; the overrides at PriceLabs | apply_pricing_action, run_once, claim, begin_delete, resolve, release, manual resolution | overlapping passes, leases, crashes at the DELETE boundary, lost and late answers, people editing the same nights | `PricingCleanup`, `CleanupLifecycle` |
| Pricing session and write gate (`pricing_session.py`, `pricing_tools.py`) | one window in the memory of the process | start, end, submit, gates, second reading, write | a window that lapses, a card older than its night or made up by a request, a restart | `WriteGate` |
| Pricing policy and recommendations (`pricing_config.py`, `pricing_policy.py`, `pricing_recommendations.py`, `pricing_history.py`, `opportunities.py`, `opportunity_priority.py`, `lower_priority.py`) | none | bands, guardrails, rules, selection, triage | cap against floor against rounding, order of rules, boundaries of lead times | `PricingBands`, `PricingDecision`, `PricingBoard` |
| Pricing outcomes (`pricing_outcomes.py`, `pricing_reconciler.py`) | `pricing_action_outcomes` | record_execution, note_first_booking, set_current, finalize | overlapping passes with older pages, a pass killed between two transactions, when to stop polling | `PricingOutcomes` |
| Vacancy, calendars (`vacancy.py`) | none | states of nights, runs, windows, score, attention, occupancy | unreadable nights, ranking against money | `Vacancy` |
| Guest replies and drafts (`conversation_refresh.py`, `drafts.py`, Lodgify inbox and messaging client, webhooks) | `conversation_drafts`; the thread at Lodgify | process, record_outcome, replace, edit, mark_sent, send_reply, settle | passes over old and new states, sessions that overlap, POSTs without an answer | `GuestReplies` |
| Inbox view, activity index (`inbox_view.py`, `conversation_activity.py`) | `conversation_activity`, the shared discovery | poll, prepare, discover, refresh within a budget, webhook task | starvation behind failing conversations, partial scans, upserts out of order | `InboxPoll` |
| Conversation analysis (`hospitality.py`, `late_checkout.py`, `early_check_in.py`, `stay_extension.py`, `cancellation.py`) | none | open messages, four stay policies, guidance, escalation | a question followed by thanks, a request already answered, a schedule that cannot be read | `StayPolicies` |
| Hospitality knowledge (`knowledge.py`, `distill_knowledge.py`, `knowledge_consolidation.py`, `knowledge_safety.py`) | `hospitality_knowledge` | distil, propose, approve, reject, create, edit, supersede | a run that lists and deletes, or reads and refreshes, while people decide | `Knowledge`, `KnowledgeRules` |
| Historical replies (`historical_replies.py`, `reply_retrieval.py`) | `historical_reply_examples` | index a conversation, rebuild, retrieve | a thread read again after it grew | `HistoricalReplies` (extraction and identity) |
| Enquiries (`enquiry_replies.py`) | none | draft, request, send | silence against an open question | `StayPolicies` (drafting); the send as in `GuestReplies` |
| Users and authentication, observability, persistence, demo domain, model provider, read clients, HTTP layer, console | see `PROJECT.json` | | cryptography, display, pure I/O | not modelled (section 7) |

How they interact: every write to a provider is a DANGEROUS tool, so it runs
only inside `AgentService.approve` after a person resolved its approval
(`AgentRuntime`). `apply_pricing_action` is such a tool: it passes the gates of
`WriteGate`, leaves a row that makes its removal owed (`PricingCleanup`) and a
row whose outcome is followed (`PricingOutcomes`); the card it carries comes
from `PricingDecision`. `send_guest_reply` is another, and a confirmed one
retires a draft (`GuestReplies`); which conversations get drafts, and when, is
`InboxPoll`'s; what a draft may say is `StayPolicies`', told with the rules of
`Knowledge`. The approval of a tool appears in these modules as the step that
lets the tool start.

What makes each modelled component correct:

* Runtime: a gated tool runs only for a grant that is on record, its outcome
  reaches the audit trail, a request uses a decision once, requests end; and a
  run that no two requests share goes through its diagram.
* Cleanup: one automatic DELETE per obligation; a pin of ours at the provider
  always has a row that owes its removal or a person who knows; verdicts are
  final; the audit trail tells the row.
* Gate: the session narrows what the deployment permits and never widens it; the
  card of a recommendation, however old, moves a night only as far as the night
  allows that is read before the write. (A card that a request makes up is held
  by nothing but the fingerprint: section 6.)
* Decisions: no proposal leaves the cap, the bands or whole dollars; evidence
  decides, in a stated order; the board shows the gaps there are.
* Outcomes: the first booking is frozen, a loss is real, polling stops after
  the stay has settled, and does stop.
* Replies and inbox: silence towards a guest is never the model's decision
  alone; a send says what happened; everybody the provider serves is seen and
  answered.
* Knowledge: what a person settled between two runs outlives every run; a rule is
  retired only with a replacement of its own; rules and examples show what was
  written.

## 2. Modules and how they correspond to the code

Conventions. One action per database transaction, provider request or model
call, because these are the points where another thread, the provider or a
crash can come in; the local variables of a handler are per-thread variables,
and `pc` (or a `step` field) names the next transaction. A read that a later
write depends on is a step of its own. A crash empties a thread's locals and
leaves the tables. Text is data: what the code finds in a wording by its lists
of markers and its patterns is a set of marks, an input. Mutants
(`PROJECT.json`) are operators next to the one they change, marked `Mutant:`; no
specification uses them. `PROJECT.json`'s `map` gives the source lines of every
definition.

### PricingCleanup (implements CleanupLifecycle)

`state`, `token`, `lapsed`, `arrived`, `created`, `reasonSent` are the columns
of `pricing_cleanups`; `override` and `late` are PriceLabs: what each night is
pinned to, and requests that timed out here and may still take effect. The
clock is abstracted to the two comparisons the queries make. `Apply(r)` is
`apply_pricing_action` with `set_override`; `Pass(w)` is `run_once` with both
its loops (expired claims, then due rows), ownership proof, the fence, DELETE,
verification and `_resolve`; `Manual(o)` is the operator's route with its read,
its compare-and-swap and its audit event; `PersonPins`, `PersonEdits` and
`PinRemoved` are people and expiry at PriceLabs. `audit` and `deletes` are
histories.

`CleanupLifecycle` is the promise in eight moves: what states one obligation
goes through and where the one DELETE may be sent. `ImplementsLifecycle` says
that every transaction of every actor is one of those moves or leaves the
obligation alone.

### AgentRuntime (implements GovernedRun)

`status`, `conversation`, `stale` are `runs`; `decision`, `runOf` are
`approvals`; `audit` is `audit_events`; each thread has its step, run,
approval, conversation, iterations left and list to sweep. A saved conversation
is reduced to what resuming it depends on: empty, open, or ended by the call of
an approval. A call that parks a run is identified with the approval created
for it. `Run`, `RequestAction`, `Turn`, `Park`, `CreateApproval`, `Announce`,
`ReadApproval`, `Approve`/`Grant`/`Resume`/`AuditGrant`/`Execute`/
`RecordExecution`, `Reject`, `SweepRead`, `SweepFail` follow the source method
by method. An audit record and the display step written next to it are one
step; `run_steps` is not modelled because nothing decides on it. A refused
permission (403) changes nothing but the audit trail and is left out. The
resolution route's second read of the approval is the one modelled: the first
is for authorization only.

Requests may overlap in any way, also on one run. `contested` is a history of
that: the runs that two requests were ever at work on at once (`Touches`,
`Overlapping`). Every step is `Step /\ Contest`, so that no step can be taken
without it, and no guard asks for it.

`GovernedRun` is the run diagram of the README with its approvals. Of a run that
is not contested it promises the diagram: a run waits while one of its approvals
is open and for one at a time (`Settled`), a decision is taken once and moves the
run on, and the tool is called once at most (`Unspent`). Of a contested run it
promises what the code keeps there: its status may be overwritten, a decision may
be asked for beside another or be taken again, but is never open again, and each
request that took it calls the tool once. Whether a run is contested is a matter
of that run alone, so nothing of a run is lost for what happens to another. What
contested runs come to is in section 6 (`ExecutedAtMostOnce`, `AnswersItsCall`).

### WriteGate, PricingDecision, PricingBands, PricingBoard

`PricingBands` holds the listings' bands and floor schedules
(`pricing_config`), `PricingDecision` the guardrails, the history and the rules
for one night (`pricing_policy`, `pricing_history`, `recommend_night`), in
cents, with the rounding to whole dollars as the code does it. The paid nights
the history is drawn from are a function from booking and night (`SamplesFor`),
and its median reads them in ascending order by `OrderStatistics`. `PricingBoard`
selects, groups and triages the rows of a console page.

`WriteGate` is what happens to a card. `session` is the `SESSIONS` singleton,
`env` the deployment's switches, `night` the provider's night per listing,
`calls[c]` one approved `apply_pricing_action` with its card. `Submit`,
`Approve` (the gates), `Reread` (the second reading, the fingerprint and whether
there is a price) and the write are separate steps; `Refresh` moves nights,
`Tick` the clock, `Restart` ends the process. The route takes the card from the
request and asks for an action that writes and a listing with bands: neither it nor
the tool looks at the price again. So a call is submitted with the card of a
recommendation the console was shown, of the present night or an older one
(`SubmitRecommended`), or with any action, price and fingerprint
(`SubmitOther`), and the history `drawn` has the calls of the first kind. A price
is a natural number of cents, 0 being none; one under `LeastPrice` is taken to be
refused by PriceLabs, so that the nights that are read have a price of which ten
per cent can be taken.

### PricingOutcomes

`row` is one row of `pricing_action_outcomes`, `reserved` and `bookedAt` the
provider's reservations, `Passes` passes of `PricingOutcomeReconciler` that may
overlap: `StartPass` keeps what it read of the row, `Fetch` its page,
`NoteFirst` and `SetCurrent` are separate transactions, `Look` decides,
`Finalize` commits. The cadence is the flag `due`, the counter of passes is
capped at its minimum. `touch`, `reopen` and `reopen_if_changed` have no caller
in the code and are left out.

### GuestReplies (implements ReplyDelivery)

One conversation. The thread of messages only grows, so a state, which the code
identifies by its fingerprint, is the number of messages; `rows` are the rows
of `conversation_drafts` by state (`draft_ref` is unique per state) and `order`
their ids. `Refresh`/`Regenerate` read the conversation; `Skip`, `Conclude` and
`Draft` are the three ways through `process`; `Select`, `Insert`, `Commit`,
`Replace` are the sessions of `DraftStore`. A session loads a row and commits
later, and the ORM then writes the columns whose new value differs from the
loaded one: `Updated`. `Edit`/`EditDraft` are the console's edit; `Submit`,
`Deny`, `Approve` bring a reply to `SendBefore`, `Post`, `Verify`, then `Settle`
and `MarkSent`. `onTheWay` holds replies whose POST had no answer and may still
arrive. `arrived` and `since` are histories: which replies reached the guest,
and how long the thread was when a reply was granted.

`ReplyDelivery` is the promise: a reply is submitted, denied or granted, posted
once, its words reach the guest once at most, soon or late or never, it is
reported sent only when its words stand in the thread behind its grant, and
failed only when nothing was or will be posted; a draft is retired when some
reply is known to be sent. `ImplementsReplyDelivery` maps `reply` to its
`standing`, `arrived` and `onTheWay` to the state of its POST (`PostOf`), and
the rows with status SENT to `retired`; threads, sessions, passes and crashes
disappear.

Abstractions: a message of the guest asks or closes; what makes it so is
`StayPolicies`' subject and an input here. A drafting run is one step with its
possible outcomes (its run in the agent runtime is `AgentRuntime`'s business).
The run reads the conversation again through its tools, so its text may answer
a newer state than its row; texts carry no meaning here, so nothing depends on
it. The fingerprint a console submits can always be a current one, or the
provider is unreadable, so `Submit` takes any text. A tool that raises before
its POST (unknown conversation, bad argument) is the same to this module as one
whose first reading failed: nothing is sent. Each reply is resolved once;
resolutions that overlap are in `AgentRuntime`. The subject of a reply travels
with its text. DISCARDED is a status no code path writes.

### InboxPoll

Several conversations. A state is the time of its last message. `index` and
`rotation` are `conversation_activity` (its `last_message_at` and the order of
`last_refreshed_at`), `discovery` is the `DiscoveryCache`, `settled` the states
that have a settled row in `conversation_drafts`. `Poll` is GET /inbox;
`RefreshRead`, `RefreshWrite`, `RefreshDiscover`, `RefreshDraft` are POST
/inbox/refresh; `TaskProcess`, `TaskRead` and `TaskUpsert` are a webhook's
background task, which reads the thread once more and upserts what it read without
looking at what the index has by then. The provider's `health`
per thread is served, refused or emptied, a scan of the bookings may be
partial (`Scans`), and a reading may miss any of its threads (`Observations`). A query with ORDER BY and LIMIT is the one list `Ordered` has
for a set and an order; a loop over a list that passes some of it on is `Keep`.
Two polls that overlap are not modelled: a poll is one step,
and what overlapping would add is what the split refresh shows beside it.

### Knowledge and KnowledgeRules

`Knowledge` is the table under a distilling run and administrators at once. A
run reads (`RunClears`, `RunLooksUp`) and commits in a later step; a
supersession is two sessions (`SupersedeReads`, `SupersedeWrites`). What a run
proposes may have one name twice: the rules of two audiences are consolidated
apart, and the name of a row does not tell them apart. `quiet` and `replaces` are
histories: the rules that were decided while no run was at work, and which rule was
written to replace which. `KnowledgeRules` is what a run makes of the model's
answers: screening, consolidation by similarity, promotion across properties.
Candidates are named by their position in the list they come in, a bucket and a
cluster are sets of positions, `ByEvidence` puts such a set in the order of the
code's stable sort (`Placed`: by rank), and the two loops that merge (`Kept`,
`Combined`) are recursive functions of the place. Similarity of two wordings is
the constant `Overlap`.

### StayPolicies, Vacancy, HistoricalReplies, Decisions

`StayPolicies`: what is unanswered, what closes, the four policies (late
check-out, early arrival, extension, cancellation), `ReplyGuidance`,
`EscalationReason`, `ProcessOutcome` (what a refresh records) and
`EnquiryDraft`. `Vacancy`: a provider's calendar into states, runs, windows,
scores, attention and the occupancy the board shows; a calendar is a function
from the days that have a night, a run the interval of its days, the loop of
`runs_of` a recursive function of the day (`LoopBefore`), and the ranking is by
place (`RankOf`), which is what sorting by a total order makes of it.
`HistoricalReplies`: a thread into examples of a question and our answer, and
their identity.

None of them keeps state, so `Decisions` gives them one: a behaviour takes one
reading of one kind and stops, and a thread grows message by message. Its
properties compare the rules with reference definitions written from what the
rules are for (a window is a maximal run of open nights; an answer is owed as
long as an open message asks) and never with the rule's own text.

## 3. Runs

| Run | Instance | What it shows |
|---|---|---|
| `cleanup_race` | 1 row, 2 passes, 1 operator, 1 edit, 1 crash, 3 tokens, 3 stamps | `AtMostOneDelete`, `ExclusiveProof`, `NoStrandedPin`, `AuditTellsTheRow`, `DeleteIsAudited`, `VerdictIsFinal`, and the refinement `ImplementsLifecycle` |
| `cleanup_surfaced` | 1 row, 2 passes, 1 crash | `ClaimsAreSurfaced`: no claim stays for ever |
| `runtime_races` | 1 run, 1 approval, 2 threads, 2 turns, 1 crash | `OncePerThread`, `ExecutedWasGranted`, `ExecutionIsReported` however requests overlap, and `RequestsEnd` |
| `runtime_governed` | 2 runs, 2 approvals, 2 threads, 1 turn, 1 crash | `ImplementsGovernedRun`: the run diagram for every run that no two requests shared, and what is left of it for the others |
| `runtime_twice` (violation) | 1 run, 2 threads | two grants of one approval both call the tool (`ExecutedAtMostOnce`) |
| `replies_desk` | 2 threads, 1 reply, 2 messages, 2 touches | `SilenceIsAgreed`, `OutcomesAreHonest` and the refinement `ImplementsReplyDelivery` under every interleaving of two threads, the guest and the owner |
| `replies_live` | 2 threads, 2 messages, 1 touch, 1 crash | `EveryStateIsProcessed`: every lasting state gets its row |
| `outcomes_passes` | 2 passes, 2 overlapping stays that end on different days, 4 days, 1 crash | `FirstIsFrozen`, `FirstIsAfterTheAction`, `CurrentHasEvidence`, `LossIsReal`, `FinalIsSettled`, `EventuallyFinal` |
| `gate_session` | 2 listings, 2 calls, 2 readings of a night and what writes make of them, 1 price that no rule proposes, a clock of 2 ticks, 1 restart | `DeploymentIsTheCeiling`, `GatedInAWindow`, `MovesAreBounded` |
| `decisions` | nights, histories, calendars, windows, threads of 3 messages, schedules, clock readings, model answers, archived threads of 5 messages | `ProposalsAreBounded`, `EvidenceDecides`, `BoardIsTrue`, `StaysFollowPolicy`, `WhatIsLearnedWasWritten` |
| `inbox_passes` | 2 conversations; a page of 2; batch, sweep and budget of 1; 1 message; 2 faults (a partial scan or reading, a dark thread, a failed drafting run, a change of a booking, a restart) | `InboxIsSound`, `TurnsAreKept`, `EveryoneIsSeen`, `EveryoneIsAnswered` |
| `knowledge_runs` | 2 names, 2 contents, 2 administrators, 4 touches, 2 runs | `DecisionsOutliveRuns`, `RetiredHasReplacement` |

The properties of `decisions` are conjunctions of named parts, one idea each:

* `ProposalsAreBounded`: an actionable move is within ten per cent, in whole
  dollars, within the bands, and no rule is refused by the cap it was clamped
  to.
* `EvidenceDecides`: nothing is offered on a sold night, the property's own
  history goes before the market's close to arrival, what is urgent is
  contradicted by no signal, a cancelled stay is no evidence, and the line
  under which a person is asked never lies under the one nothing is written at.
* `BoardIsTrue`: the open windows are exactly the maximal runs of nights the
  provider shows free, in date order; no window worth over 1.65 times another is
  ranked behind it or left out for it, and the list has every window with a
  price, or ten of them.
* `StaysFollowPolicy`: a draft that is ready as it stands breaks no policy and
  decides nothing that is the owner's; nothing is closed in silence (by a
  refresh or by the writer of an enquiry) while an open message asks; the
  retention offer is made once; an early arrival is declined for a departure
  that was read, never for a schedule that could not be; times are read as the
  guest meant them.
* `WhatIsLearnedWasWritten`: proposed rules carry the evidence of the replies
  they come from, numbers stay flagged through every merge, and what is promoted
  has three properties and no number; examples pair a question with our own
  words, and survive the guest's writing on.

Why the bounds are enough. Every race named above is between two actors over
one row, one run, one rule or one conversation; two actors, one object and one
failure reach all of them, and the third token, stamp or message lets an actor
meet something that is neither its own nor the initial value. More rows,
passes, approvals, replies, reservations, names or listings are covered by the
theorems, which bound nothing. In `cleanup_race` the edit of a person is the
only bounded environment step, in `replies_desk` edits and regenerations are
(`MaxTouches`); passes, polls and sweeps repeat without bound. In
`outcomes_passes` one counted pass is enough to finalize (`MinPasses` = 1), so
that every other pass is one that overlaps or repeats; `FinalRowsAreSettled` is
proved for every minimum. In `inbox_passes` a batch and a sweep of
one let one conversation wait for the other's turn; with a page of two and a budget
of one a refresh finds two conversations due and drafts one, and two faults are
enough for its drafting to fail twice, or to fail while the provider does. In
`knowledge_runs` the two administrators can each hold a rule they have read, of
the same row or of rows that would be replaced by the same one, and four touches
are two supersessions and what makes two rules live. The inputs of `decisions` lie on,
under and over each threshold the rules name. `AgentRuntime`, `PricingOutcomes`,
`WriteGate`, `Knowledge` and `Decisions` are checked without deadlock checking,
since all requests may have been served, all days may be over, or the reading
has been taken; the other modules always have a step. Two runs leave out of the
comparison of states (VIEW) what no step reads and no property of theirs is about:
`runtime_governed` the audit trail, `gate_session` the cards of calls that are
over. Threads, runs, approvals, calls and administrators are symmetric where
safety alone is checked.

Fairness.

* `cleanup_surfaced`: weak fairness of each worker's pass, which is what the
  hourly job amounts to, and of a lease running out, which is time passing;
  crashes, people and late answers are owed by nobody.
* `runtime_races`: weak fairness of a request that was taken up: model client,
  connectors and database return or raise.
* `replies_live`: a thread at work goes on, and each thread that is free again
  and again takes up a refresh (strong fairness: other work may occupy it in
  between). The console polls as long as the Inbox is open ("the webhook makes
  drafting fast; polling makes it certain").
* `outcomes_passes`: days pass, the job starts when the row is due, a pass that
  runs goes on, and a provider that is asked again and again answers in the end
  (strong fairness of `Fetch`). Crashes are bounded: a job that is killed every
  time settles nothing.
* `inbox_passes`: the console asks for a refresh again and again and one that
  is served goes on; a discovery expires. Nothing is assumed of polls, webhooks
  or their tasks. `EveryoneIsSeen` and `EveryoneIsAnswered` state under which
  conduct of the provider they hold; section 6 has what fails without it.

## 4. Proofs

Everything here holds for any values of the constants under the named
assumptions only. Those are:

* the "null" values are not among the real ones, bounds are naturals, the sets
  whose cardinality is taken are finite (reservations, names, contents);
* a night that is read has a price of five dollars at least (`LeastPrice`; under
  it ten per cent is less than the half dollar that rounding moves);
* what PriceLabs serves of a night is a `ProviderNight` (`ReadingsAssumption`),
  and what a request may propose is a natural number of cents
  (`PricesAssumption`);
* the bands are naturals with a list of scheduled floors, and no normal floor of a listing lies under its hard
  floor (`BandsAssumption`): the table of `pricing_config` is so, and
  `effective_floor` relies on it ("Both sit *above* the hard floor",
  `pricing_policy.py:315`);
* a booking has one id, and an arrival is a day (`SchedulesAssumption`);
* a calendar is a list of rows with a day, a status and numbers
  (`CalendarsAssumption`), a board a list of windows with a value, a first day
  and their property's health (`EntriesAssumption`). Nothing is assumed of the
  order of rows, of days that occur twice, lie outside the horizon or are missing;
* an archived message has a sender, its words in a list and a day
  (`LettersAssumption`), and a model's answers are a list of wordings with the
  replies they rest on (`CandidatesAssumption`); the archive is finite, the
  scope of no property is a scope, and how alike two wordings are is a natural
  number of per cent that does not depend on which is asked first
  (`WordingsAssumption`): `similarity` is the cosine of two sets of tokens
  (`knowledge_consolidation.py:133`).

* `PricingCleanupProofs`. `TypeCorrect`; then `CleanupInv`, the conjunction
  that makes the safety properties inductive: the writer owns its row until it
  settled it (`WriterShape`); a holder still has its claim or somebody settled
  the row for good (`HeldOrSettled`), since a compare on the token alone does
  not exclude the second; two holders of one row are one (`UniqueHolder`);
  before the DELETE there has been none, behind the fence the row is at the
  boundary or settled (`FenceShape`). `OneDelete`, `ProofIsExclusive`,
  `NeverReenters`, `ClaimsHaveTokens` follow. `LifecycleImplemented` is the
  refinement: each step maps to a move of `CleanupLifecycle` or a stutter.
  `VerdictsAreFinal` is the action property. `AuditIsTrue` adds what passes are
  about to announce (`AuditInv`), `PinsAreOwed` where a marker of ours can be
  and which answers can still be on their way (`PinInv`). `DeletesAreConfessed`
  adds who still has to report a DELETE: a pass at work, or a crash.
* `AgentRuntimeProofs`. `TypeCorrect`, which includes that every request at
  work names the run and the decided approval its step needs. `DecisionIsSpent`
  (`SpentInv`): a call that is not parked yet has no approval and one thread,
  and whoever is about to call a tool has not called it. From it
  `CalledOncePerThread` and `GatedRunsAreGranted`; `CallsAreReported` adds that
  an outcome is written before the thread leaves. Of a run that requests never
  shared more is true, and `HoldInv` has it: while a request is at work on its run,
  the run is in the status, and the approval decided the way, the request found or
  made them, and the conversation it has read is empty or ends with the call of its
  approval (`Held`: what belongs to the request itself, `Placed`, and what is so
  only of a run it never shared, `Alone`); a pending approval has a waiting run,
  whose saved conversation it ends, to itself (`Parked`); and who shares a run now
  has contested it. None is inductive without the others: what a request finds when
  it takes up a run is what the one before it left. The proof has no assumption on
  how requests overlap: a step that could disturb what another request holds is a
  step on a run they share (`OthersHold`, `ConfinedSteps`, `OthersKeep`). From it
  `WrongAnswersAreContested` and `RepeatedCallsAreContested`, which say of the two
  failures of section 6 that nothing but an overlap causes them, so that keeping the
  requests of one run apart would be enough, and the refinement of `GovernedRun`
  (`RunsAreGoverned`: each step is a move of the diagram, a move of a contested run,
  or a stutter) follow.
* `GuestRepliesProofs`. `TypeCorrect`. `StoreInv` says what each session is
  about to store and had loaded, and needs that a verdict on a state never
  changes while the thread grows (`VerdictStands`); it gives `SilenceAgreed`.
  `SendInv` says that one thread sends a
  granted reply, which has not left before its POST and has left once it is to be
  verified, and that the snapshot the verification starts from is no older than
  the grant; it gives `OutcomesHonest` (what is reported sent stands in the thread
  behind its grant, and stays there: `SeenStays`) and `RetiredConfirmed`.
  `RepliesDelivered` is the refinement of `ReplyDelivery`: what people and the
  provider do (`DeskDelivered`), the one send (`SendDelivered`, where a POST with
  no answer is one that `Posted`) and the sessions that store a row
  (`StoreDelivered`) are its moves, and everything else is a stutter.
* `InboxPollProofs`. First what the lists do: the recursion of `Keep` has a
  function (`RoundsExist`, by the least number at which it would have none), it
  picks what is in the set, each place once and in order (`KeepPicks`), so what had
  nothing twice has nothing twice after an upsert (`BothOnce`). `InboxSound` is not
  inductive alone: a refresh and a task write what they read some steps ago, and the
  invariant (`HeldIsPast`, `TasksArePast`) says that this was so then, for no
  conversation twice.
  `RememberKeeps` is the step that polls, refreshes and tasks share. With it come
  `InboxInvariant`, `InboxTypes`, `InboxSound`; the action property `TurnsKept`
  needs that an upsert moves only the rows it writes (`UpsertTakesItsOwnTurn`), and
  what it writes is what was read.
* `DecisionsProofs`, on the lemmas about the rules of `PricingDecision` that
  `WriteGateProofs` begins with.
  `ReadingOK` says what is read; everything else is about the rules. *Bounds*
  (`ProposalsKeepTheBands`): the cap in whole units is a tenth (`TenPerCent`),
  clamping and rounding stay within it, and each rule proposes a clamped price
  (`MovesAreWithinBounds`). *Evidence* (`EvidenceIsFollowed`): which rule moved a
  night (`MovesAreTheRules`), what is left for it to have seen, and that the
  floors keep their order. Trying to prove that an urgent raise stops at the
  market found that it does so only to the dollar: at a price of 200.50 and a
  25th percentile of 217.50 the code proposes 218, so `UrgentIsSafe` says
  `Round(p25)`, as the code has it. *Policies* (`PoliciesAreFollowed`): what
  `EscalationReason` lets through has none of the marks a person is asked about
  (`NothingEscalates`), whatever the length of the thread. *The board*
  (`BoardShowsTheGaps`): the loop over the nights of a calendar has an invariant
  (`LoopOK`: the runs found are the maximal ones of the days before, but for the
  one in hand), each night keeps it (`LoopStaysOK`), and a last run is closed at
  the end; the ranking is a total order, so every place is taken once
  (`RanksArePlaces`), and the bonuses make a score 1 to 1.65 times the gross
  (`ScoreIsBounded`). Induction over the days uses no induction theorem: the
  recursion of `LoopBefore` has a function (`RecursionExists`), and a statement
  that fails somewhere fails at a least day (`LeastOfNaturals`). *Examples*
  (`ExamplesPairExchanges`): where a run of messages of one sender ends is one
  place (`RunEndsOnce`), a text has the words of its messages and no others
  (`FlattenedWords`), and a thread cut after a guest message has the turns it has
  uncut (`EarlierReadingsAgree`). *Rules* (`ProposalsKeepTheReplies`): the sort is
  a permutation (`PlacedInOrder`) whose first does not depend on what else is
  sorted (`PlacedByEvidence`), which is why the seed of a cluster is the rule
  whose words the promotion keeps; each candidate that is kept or merged leaves
  what is kept in its bucket, apart, and with the evidence and the flag of all
  before (`KeepOrMergeKeeps`, by places `KeptKeeps`; `ConsolidatedKeeps` for all
  buckets); and a promotion replaces exactly what it covers (`RuleOfACluster`,
  `PromotedKeeps`). That a kept rule stays apart from the others while it absorbs
  more rests on a merge keeping the words of the first. Together they are
  `WhatIsLearnedIsWritten`.
* `WriteGateProofs`. A card in flight passed the allow-list (which only a restart
  changes, and a restart ends what is in flight), and a card that counts as drawn is
  one of a recommendation (`GateIsInvariant`, a lemma). `SessionsOnlyNarrow`,
  `GatesNeedAWindow` (the live session is the window last opened) and
  `LateMovesAreBounded` (equal fingerprints are prices less than a dollar apart, so
  the bounds of `PricingDecision`, which `MovesAreWithinBounds` proves of the rules,
  carry over to the night as it is) follow. The last is about recommendations alone,
  whatever made-up cards do to the nights meanwhile.
* `PricingOutcomesProofs`. `TypeCorrect`; the invariant says what the row and
  each pass know: a page's bookings were made and are still booked or
  cancelled since, a first booking covers the night and came after the action,
  a pass that is about to conclude a loss has seen a first booking that is on
  record. `EvidenceIsFrozen`, `EvidenceIsLater`, `CurrentIsBacked`,
  `LossesAreReal`, `FinalRowsAreSettled` follow.
* `KnowledgeProofs`. `TypeCorrect`; an invariant about what a run has listed
  and read gives `DecisionsHold`; that what was written to replace a rule is never in
  the queue, so that no run lists it (`ReplacementsStay`), gives
  `RetiredAreReplaced`, with two supersessions between their two sessions.

Model-checked only: the liveness properties (`ClaimsAreSurfaced`,
`RequestsEnd`, `EveryStateIsProcessed`, `EventuallyFinal`, `EveryoneIsSeen`,
`EveryoneIsAnswered`), which need ENABLED and fairness. Every invariant, action
property and refinement that a passing run checks is a theorem, and so are the
type invariants and `SentNeverReenters`, `ClaimsAreTokened` and
`RetiredAfterConfirmation`, which the runs leave to the proofs. Out of the
prover's reach altogether: liveness, the library's induction theorems (they take
an operator), RECURSIVE operators (none is used).

## 5. Findings

`runtime_twice`: `resolve_approval` tests PENDING in one transaction and writes
the decision unconditionally in another, so that two grants that overlap both
call the tool. `PROJECT.json` quotes the lines.

## 6. Disagreements

Statements of comments and documents that the models refute. Each is a
definition in its module, so that adding it to the run named here shows the
behaviour; none is checked in the runs of section 3 unless it says so.

| Statement, and where the code says it | Definition, and the run to add it to | What the code does |
|---|---|---|
| An approval is resolved once (`tests/test_runs.py:441`) | `ExecutedAtMostOnce`, checked in `runtime_twice` | see section 5; a REJECTED approval may also have run, by the same race |
| Resolving an approval "executes the pending tool, appends the real result to the stored conversation" (`README.md:160`) | `AnswersItsCall`, `runtime_twice` with two approvals | of two grants of one approval the first drives the run on until it is parked at another call; the second reads the conversation only then, executes its tool again and appends the result to it, as the answer to a call that is over (`agent.py:335`). The open call is left unanswered and its approval pending |
| "nothing can take the claim away from a DELETE_STARTED row" (`docs/PRICING_CLEANUP_V2.md:295`) | `BoundaryIsHeld`, `cleanup_race` | a reconciler with an older list settles the row behind a DELETE that goes on (`pricing_cleanup.py:763`); no second DELETE follows |
| A parked run "is waiting on a human, not stalled" (`run_store.py:187`) | `WaitingIsOnHuman`, `runtime_races` | a death between parking and creating the approval, or between a decision and the resumption, leaves a run that waits for nobody (`agent.py:650`) |
| "Only RUNNING runs are touched" (`reconciliation.py:65`) | `OnlyRunningIsReconciled`, `runtime_races` | the sweep lists RUNNING runs and fails each without looking again |
| A new guest message brings the badge straight back (`drafts.py:226`) | `GuestIsNeverHidden`, `replies_desk` with three messages | a confirmed send retires the draft that is newest after the send, which may be of a newer message (`main.py:733`) |
| "a later automatic pass must not silently replace their words" (`drafts.py:300`; `drafts.py:405` says so of Regenerate) | `WordsAreKept`, `replies_desk` | a pass loads a row that waits for a person, the person edits it, and the pass commits over it, column by column, so that the row may have the pass's text under the person's status (`drafts.py:314`) |
| "Bring one conversation's prepared state up to date" (`conversation_refresh.py:207`) | `PreparedIsShown`, `replies_desk` | a slower pass inserts the row of the older state last, and the last row is shown (`drafts.py:459`) |
| "a row still changing is never finalized" (`pricing_outcomes.py:54`) | `FinalIsStable`, `outcomes_passes` with `MinPasses` = `StablePasses` = 2 | `FINALIZATION_STABLE_PASSES` is never read |
| "Close the window immediately" (`main.py:2198`) | `EndCloses`, `gate_session` | the session is asked before the second reading and not again before the write |
| "The single gate every write action passes" (`pricing_policy.py:275`); a refused candidate "is no longer actionable, so no route can submit it for approval" (`pricing_policy.py:362`) | `EveryMoveIsBounded`, `gate_session` | the guardrails are asked when a recommendation is drawn. The route takes action, price and fingerprint from the request (`main.py:2498`), and the tool checks the fingerprint and not the price (`pricing_tools.py:499`), so a price of any size is set once a person approves it |
| A raise the cap held back is reported as clamped (`opportunity_priority.py:95`) | `ClampIsReported`, `decisions` | the cap rounds down and the report compares with the nearest dollar, so a clamped raise may not be reported |
| "counts as occupied -- it is not vacancy, and it does not depress occupancy" (`vacancy.py:71`) | `BlockedIsOccupied`, `decisions` | the board's totals count booked nights only (`vacancy.py:901`) |
| Every night "not positively established lands on UNKNOWN" (`normalise.py:80`) | `OpenIsEstablished`, `decisions` | any number but 1 passes for vacant: the -1 PriceLabs writes where a field does not apply (`normalise.py:49`) reads OPEN (`normalise.py:98`) |
| The draft is told what the refresh decides about an early arrival (`early_check_in.py:118`) | `GuidanceAgreesWithEscalation`, `decisions` | the tool hands the guidance a record where it is compared with True and False (`messaging_tools.py:194`) |
| A request we answered "does not escalate the thread forever" (`late_checkout.py:237`, `hospitality.py:1305`) | `AnsweredIsClosed`, `decisions` | the cancellation policy reads every message the guest ever wrote (`cancellation.py:231`) |
| Every conversation "is re-read within one full cycle" (`conversation_activity.py:223`) | `EveryoneIsReread`, `inbox_passes` | a thread that is not served keeps its place at the head of the rotation |
| Known activity is not replaced by an empty read (`inbox_view.py:625`) | `KnownActivityIsKept`, `inbox_passes` | the webhook's task upserts what it read without `_supersedes` (`main.py:1571`) |
| "The rest arrive on the next" poll (`main.py:939`) | `TheRestArrives`, `inbox_passes` | conversations whose drafting fails use up each refresh's budget before the ones behind them |
| "this method cannot destroy owner knowledge" (`knowledge.py:570`) | `OwnerKnowledgeIsKept`, `knowledge_runs` | the queue is listed and then deleted by key; a rule approved in between goes with it |
| "a candidate the owner already decided on is left alone" (`knowledge.py:226`) | `LiveWordsAreLeft`, `knowledge_runs` | a run reads the candidate as PROPOSED, an administrator approves it, and the run's commit puts the words of its new evidence into the live rule, which nobody has read (`knowledge.py:245`) |
| "Editing an APPROVED rule in place would rewrite history" (`knowledge.py:394`) | `WordsOfLiveRulesStay`, `knowledge_runs` | the route that edits asks for no status, so a live rule takes new words in place (`knowledge.py:476`) |
| A supersession leaves one live version (`knowledge.py:405`) | `OneLiveVersion`, `knowledge_runs` | an edit may give a rule the name of another; two administrators both check APPROVED first and write later |
| "Global is earned in phase 2 from cross-property agreement" (`distill_knowledge.py:327`) | `GlobalIsEarned`, `decisions` | replies without a property are a group of their own, whose rules have no property from the start |
| A conversation indexed again "produces no duplicates" (`historical_replies.py:502`) | `ReindexFindsTheRows`, `decisions` | the fingerprint contains our answer, so a reading between two pieces of it leaves a row that the next one does not find. `ExamplesAreExchanges` has what holds: once the guest has written again, a reading finds all it had |

Seen while modelling, without a property:

* A removal whose first reading fails reports `deleted=True` although no DELETE
  was sent (`pricing_cleanup_runner.py:347`, against the field's comment at
  `:52`). `DeleteIsAudited` is one-sided for that reason.
* The audit event of a manual resolution names the state the route read, which
  may not be the one the compare-and-swap closed (`main.py:2365`, `:2350`).
* `set_override`'s reading before its POST may fail and leave its row in
  PENDING_WRITE for ever (`pricing_tools.py:615`; `pricing_cleanup.py:962` says
  the state is momentary).
* One conversation state may cost several model calls: passes look for the row
  before they draft and store after (`conversation_refresh.py:239`, against
  line 20 of its header).
* A pass that failed overlaps one that escalated, and its commit wipes the
  escalated text (`drafts.py:318`); the state is drafted again by the next poll.
* Nothing calls `reopen_if_changed` for a finalized pricing outcome.
* Two passes over one outcome write `current_*` in any order, so an older page may
  stand over a newer one's finding until the next pass (`pricing_reconciler.py:277`).
* The verification of a send takes any message of the owner's with its text for its
  own (`inbox.py:1235`): words that stand behind a grant count as sent, whoever
  wrote them.

## 7. Not modelled

* Users, authentication and authorization: password hashing and tokens are
  cryptography, the permission matrix is a table. Every actor of the modules is
  one whom the routes admit.
* Model provider, provider read clients: adapters whose outcomes (an answer, a
  call of a tool, an exception; a page, a partial page, no answer) are the
  nondeterminism of the modules that call them.
* HTTP API, console: schemas, status codes and pages. The routes that change
  state are in the module of what they change.
* Observability: counters that nothing decides on. Persistence and migrations:
  the tables are the variables of the modules, their history is not.
* Migration batches: a demonstration domain behind the same gate.
* Within modelled components: redaction, topics and the scoring of retrieved
  examples (patterns and weights in floating point); the keyword lists
  themselves; `find_conflicts`; the board's breakdown by month and the older
  dashboard's listing health; wording everywhere.
* Of the cleanup, `adopt` and the exemption of an adopted row from the marker check
  (`pricing_cleanup.py:327`, `:228`, `:260`, `:443`): a one-off for an override that is
  older than the table, which nothing in `app` calls.
* The composition of the runtime with the tools it gates is by assumption: an
  approved call starts once in `WriteGate`, `PricingCleanup` and
  `GuestReplies`. `runtime_twice` shows that the runtime may start it twice;
  what the second start does to a provider is not explored.
