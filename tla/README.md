# Boardchestrator in TLA+

Boardchestrator is one Go process over one SQLite file: a task board whose
changes are *actions*, called alike by people, API keys and agents. This
directory holds TLA+ models of the parts of it that run concurrently or can
fail half-way, the TLC configurations that check them, and proofs checked by
TLAPS. Paths below are relative to the repository root.

- [The system](#the-system): parts, state, operations, hard behaviours
- [The models](#the-models): state and actions of each module, abstractions
- [The runs](#the-runs): what TLC checks, bounds, fairness
- [The proofs](#the-proofs)
- [Where code and documents differ](#where-code-and-documents-differ)
- [Not modelled](#not-modelled) and [the plan](#the-plan)

## The system

| Part | State it keeps | Operations | Interacts with | What is hard |
|---|---|---|---|---|
| Job pool (`internal/job`) | `jobs` rows: status, attempts, run_at | enqueue, list, claim, complete, fail, dead | calls a handler per job (runs, webhooks, snapshots) | workers race for a job; handler and pool both write the row; stop and crash |
| Run engine (`internal/agentrt`) | `runs`, `run_steps` | EnqueueRun, start, tool loop, finish, failAndRetry | pool, Dispatch, model provider | caps counted before the insert; several statements, each can fail |
| Approvals (`agentrt/approvals.go`, `action/approvals.go`) | `approvals`, `notifications` | gate, request, decide | engine, Dispatch, a person | decision read in another transaction than the action; repeated decisions |
| Triggers (`internal/server`) | `scheduled_triggers`, subscriptions | mention, column, schedule, chat, resume loops | bus, engine | several goroutines enqueue; stale rows written back |
| Dispatch (`internal/action`) | `idempotency_keys`, `audit_log`, the handler's tables | the pipeline around every action | everything | key, transaction, event and audit are separate; clients disconnect and retry |
| Event bus (`internal/event`) | subscriptions with bounded channels | publish, subscribe | all followers | drops when a follower is slow |
| SSE hub (`internal/sse`) | replay buffer, connections | pump, SendToUser, connect, replay, stream | bus, engine, browsers | replay against live delivery; audience; restart |
| Webhooks (`internal/webhook`) | `webhooks`, `webhook_deliveries`, jobs | match, enqueue, deliver, retry, edit | bus, pool | retry shared by two owners; edits under the subscriber; one error ends the loop over webhooks |
| Sign-in (`internal/auth`) | `users`, `identities`, `sessions`, replay cache | resolve a login, sessions, logout, passkeys | invitations, memberships | racing logins, single use, revocation |
| SCIM (`internal/auth/scim`) | `scim_users`, groups, memberships | provision, deprovision, group sync | memberships, sessions | last owner, source of a membership |
| Tenancy (`internal/action`, `internal/perm`) | `orgs`, `memberships`, `roles`, `invites` | invite, join, change role, leave | all permission checks | an organisation without owner |
| Board (`internal/action`) | `tasks`, `columns`, `sprints` | create, move, archive, close sprint | bus, search, reports | key allocation, sprint membership |
| Search, notifications, reports | FTS rows, `notifications`, snapshots | follow events, daily snapshot | bus, pool | lost and repeated events |

What makes each part correct: a job is run by one worker and a run is driven by
one loop; the caps on active runs hold; a gated action needs an approval; a caller
can rely on the answer of Dispatch, and a retry with a key on getting the result
of the same call; a browser gets its own events, without gaps; a delivery is
retried; an invitation is used once; an organisation keeps an owner.
`PROJECT.json` lists the hazards line by line with the properties that cover them.

## The models

### AgentRuns: pool, engine and approvals

| Variables | Code |
|---|---|
| `jobStatus`, `attempts`, `due` | `jobs.status`, `attempts`, `run_at <= now` |
| `runStatus`, `runCall` | `runs.status`; `task_id`, `project_id`, `initiated_by` as passed to EnqueueRun |
| `approvals`, `notified` | rows of `approvals` per run and tool call; runs with a `run.failed` notification |
| `loopPc`, `loopCall`, `loopRun` | where a goroutine is inside EnqueueRun |
| `pc`, `job`, `tries`, `batch`, `steps`, `calls` | locals of a pool worker and of the handler and tool loop it runs |

`EnqueueCheck`, `CreateRun` and `EnqueueJob` are the three stages of
`EnqueueRun`. `Poll`, `Claim`, `PoolComplete`, `PoolFail` are `Pool.worker`.
`StartRun`, `ModelTurn`, the `Tool...` actions, `RequestApproval`, `ParkRun`,
`FinishRun`, `HandlerComplete`, `FailJob`, `FailRun` are the engine's handler, in
the order of its statements. `Decide` is `approval.decide`. `Crash` loses all
goroutines and keeps the rows; it stands for `Pool.Stop` too, because that cancels
the context in-flight handlers write through. Every SQL statement is a step and
can fail (`Fault`), as long as errors are left.

Abstractions, and why they are sound for the properties:

- A tool call is an element of `Actions` (action name and input together, which
  is what `FindApprovalForRun` compares), with a fixed policy. The latest row is
  the last appended; two rows stored in the same instant would be ordered by
  SQLite's choice.
- A model turn is a failure, an end, or any sequence of at most `MaxCalls` tool
  calls. The failure also stands for errors before the first turn (context,
  permissions, client). What an action does is irrelevant here: `ToolExecutes`.
- Budgets and hourly caps in EnqueueRun only skip a call, which changes nothing.
- `LIMIT 25` of the listing is left out: a poll lists any queued job.
- Chat runs share this control flow; the messages they store and stream do not
  appear. `run_steps` rows are a transcript nothing reads back.
- The call sites of EnqueueRun are open: `CallsAssumption` only says that one
  loop alone passes tasks, which is the trigger loop. In the present code the
  events the trigger loop receives carry no project id, and the chat and resume
  loops wait for `chat.sent` and `approval.decided` while actions emit
  `chat.send` and `approval.decide`, so only the scheduler gets through. The
  passing runs include the trigger loop's calls, because the engine is written
  for them; the violation runs use scheduler calls only, so they do not rest on
  them. `EnqueueResume` is left out: its only caller cannot be reached.

### Dispatch: the action pipeline

`Arrive` covers all checks before the idempotency lookup (they write nothing);
`Get`, `Execute`, `Put`, `Emit`, `Audit` follow in the order of
`Dispatcher.Dispatch`. A call is an element of `Requests`; it stands for its
committed rows (`rows`), its event (`events`) and its audit row (`audited`). A
result says which call it is of and whether it still carries a one-time secret:
the calls in `Secret` (`member.invite`, `apikey.create`, `scim.token.create`,
`skill.export`) return one in the clear (`Out`), and `Put` stores what is left of
it (`Redacted`). The caller that executed gets the secret, a replay does not. So a
retry after a lost answer learns that the token was made, and never the token.
Events and audit rows are made from the redacted result too; the model keeps only
whose they are. `Key`, `Dry` and `MustAudit` say what kind of call it is. A retry
is another call with the same key. `Disconnect` cancels a call's context, as
`net/http` does when the client goes; statements fail from then on, publishing
does not. `Crash` ends all calls in flight. `prior` is a history variable: the
calls already answered when a call came. The marshalling error between commit and
`Put` is left out: handlers return plain structs and maps.

### EventStream: bus and SSE hub

`Publish` fills the hub's subscription; `Dispatch` numbers and records a message
and `Deliver` offers it, two steps because `record` and the send loop take
different locks; `SendToUser` and `DeliverToUser` likewise, on another
goroutine. `Connect` snapshots the organisations and registers, `Replay` sends
what is newer than the tab's position, `Receive` writes one message,
`Disconnect` ends the handler. `Restart` empties the process and keeps `last`,
which the browser holds. `from`, `got` and `dropped` record what the current
connection owes and has done. The organisations are chosen freely at each
`Connect`, since membership and single sign-on change between connections. A tab
has one connection at a time: an old one that lingers after the browser left it
delivers to nobody. Of the bus's subscriptions this module has the hub's.

### ActionService: what Dispatch promises

The abstract specification behind `Dispatch`: a call is let in or answered from
the record of its key, takes effect at most once, and is closed with a result or
without one; a key is bound to one call for good. There are no transactions,
events, audit rows or errors in it. The refinement mapping (`Service` in
`Dispatch`) takes `rows` for `applied`, the call that `stored` is of for `bound`,
the call that `answer` is of for `result`, and a call's place in the pipeline for
its phase: it is new until the lookup has let it through. Note what the service
does not promise: calls let in before the key is bound may all take effect (see
`dispatch_retry`).

### Webhooks: bus, deliveries and their jobs

| Variables | Code |
|---|---|
| `hook` | `webhooks`: existence, `enabled`, `event_filter` as the set of names it matches |
| `buffer` | the channel of the webhook subscription |
| `subPc`, `subEvent`, `subRest`, `subHook` | the subscriber goroutine inside HandleEvent: its list, and the delivery it has just stored |
| `status`, `attempts` | `webhook_deliveries`, one per event and webhook |
| `jobStatus`, `jobAttempts`, `due` | the delivery's row of `jobs` |
| `pc`, `job`, `tries`, `seen` | locals of a pool worker and of RunJob |
| `published`, `dropped`, `wanted`, `muted`, `accepted`, `refused` | history |

`Publish`, `Receive`, `ListEnabled`, `CreateDelivery`, `EnqueueJob` follow an event
from the bus to its jobs; `Claim`, `FindDelivery`, `Post`, `MarkDelivered`,
`CompleteDelivered`, `MarkFailed`, `RequeueFailed`, `BuryExhausted`, `PoolFail`,
`PoolComplete` are RunJob and the pool around it, one SQL statement or POST each.
`WebhookCreate`, `WebhookUpdate`, `WebhookDelete` edit the table between any two
of those; a deletion takes the deliveries with it and leaves the jobs. The
address check, the signature and HTTP are one choice of outcome in `Post`. A
worker claims any queued job that is due: its listing adds nothing, since Claim
checks status and time again. The copy of address and secret that a job carries
(and that an edit of the webhook does not reach) is left out.

### Tenancy: memberships and everything that writes them

State: the tables `orgs`, `users`, `roles`, `memberships`, `invites`,
`org_sso_settings`, `idp_group_mappings`, `scim_users` and `scim_groups`, and who
verified each domain. A handler is one write transaction and SQLite has one
writer, so each is one step; what interleaves are whole handlers of three kinds of
writers: people (`ByHand`), sign-ins (`AtSignIn`) and the organisation's directory
(`ByDirectory`), with configuration changing in between (`ByConfiguration`).
Permission checks run before the transaction and may be stale, so any caller may
call anything. `membership.create` does not check whose team it is given, so
`Teams` holds the teams as the rows of one organisation name them; a team that two
organisations' rows name is two elements. `ReconcileIdPMemberships` is the
algorithm that derives memberships from groups; group changes sync the affected
people in the order of their ids, which are random, so it is a choice of `order`.

### SignIn: the claim of the platform, identities, passkeys, sessions, domains

State: the start-up settings and the stored bootstrap token, `users`,
`user_identities`, passkeys, `sessions` (with the identity they were opened
through) and `org_domains`. Steps are whole transactions, except that
`org.domain.verify` reads its row and asks DNS before it writes (`DomainCheck`,
`DomainMark`). A request is authenticated before its transaction, so it may run
after its session ended (`Authenticated`). What other tables decide
(`trust_email`, `allow_signup`, JIT, an invitation's address, a SCIM row) is an
input. One domain is modelled; the server restarts only while unclaimed, since
afterwards its settings decide nothing here. Left out: expiry as time (any
session may end at any time), the flow cookie, the replay cache, the passkey
counter and the limit on passkeys.

## The runs

| Run | Checks |
|---|---|
| `agentruns_safety` | types; `LoopOwnsItsRun`, `OneWorkerPerTask`, `OneActiveRunPerTask`, `OverlapOnlyBetweenLoops`, `ApprovalStillInForce`, `ParkedRunHasPendingApproval`, `EndedRunsStayEnded` |
| `agentruns_live` | `NewRunSettles` |
| `dispatch_safety` | types; `AnswerMatchesEffects`, `RecordsFollowCommit`, `AnswersAgree`, `NoRepeatAfterAnswer`; the refinement `ImplementsService` |
| `eventstream_safety` | types and buffer limits; `AudienceOnly`, `NothingSkipped` |
| `webhooks_safety` | types; `AcceptedOncePerFault`, `DeadMeansExhausted`, `WantedIsEnqueued`, `MutedNotEnqueued` |
| `tenancy_safety` | types; `InvitesSpentOnce`, `LastOwnerKept`, `InactiveStaysOut`, `ProvisionedNotOwner`, `GroupChangesFollowed` |
| `signin_safety` | types, one verified domain; `ClaimedOnce`, `SessionsFollowIdentities`, `ClaimByTokenInForce`, `ProvedControl`, `MethodKept` |
| `agentruns_retry`, `agentruns_ended`, `agentruns_park`, `dispatch_retry`, `webhooks_retry` | one documented promise each, violated (below) |

Where a property stops, because the code does. `NothingSkipped` speaks of one
connection: a message dropped from a full channel, or numbered before one that was
offered earlier, lies behind the position a tab returns with, and no later
connection owes it. `InactiveStaysOut` is about provisioning; an invitation or an
administrator may let an inactive person in again. `GroupChangesFollowed` is about
changes of groups, with the mappings of that moment; an edit of a mapping takes
effect at the next one. `SessionsFollowIdentities` ties a session to its account,
and a passkey's session to the user only, as deleting a passkey ends no session.
`WantedIsEnqueued` excepts full buffers, errors, crashes and deletions.

Each property has a mutant in `PROJECT.json`: a plausible slip in one definition
that makes TLC report the property.

**Bounds.** *AgentRuns*: two workers, because every race over a job is between
two; two runs, one per loop or both of one task; two tool calls, one free and
one gated, two per turn so that a turn can park in the middle; two attempts, so
one retry and one exhaustion; one error and one crash, at any statement. The
proofs lift all of these. *Dispatch*: three calls with one key and a secret in
their results (two race, one comes late), an audited call without key and a dry
run, one error, one crash, any number of disconnects; calls and keys are
unbounded in the proofs. The run says `CHECK_DEADLOCK FALSE` because every call
ends. *EventStream*: one tab (tabs share nothing but the pump), a user message
for another user, an organisation event and a platform event, channels of one so
that they overflow, a replay buffer of two with four ids so that it evicts, one
restart; the proofs lift these too. *Webhooks*: two webhooks, so that the loop
can stop between them; one event they may filter for and one that only takes its
place in a buffer of one; two workers; two attempts; three edits, which allows
both webhooks and a change or a deletion under way; one error and one crash. A
second matched event would only repeat the first: the subscriber takes one event
at a time. *Tenancy*: one organisation besides the platform's, two people (one
owner to lose and one to take over), an editable role, one group mapping at a
time, one directory group, one invitation, three changes of configuration. With
one mapping no two disagree, so that the oldest wins (`Desired`) is not
exercised by the run; `GroupsFollowed` covers any number of mappings, but takes
their order from `Desired` itself, which rests on reading the code. *SignIn*:
two people, an account at a platform provider and one at an organisation's, a
passkey, two organisations that claim the domain with two rows, two sessions,
two starts with different settings. These runs say `CHECK_DEADLOCK FALSE`
because their inputs run out.

**Fairness** (`FairSpec`, used by `agentruns_live`, `agentruns_retry` and
`webhooks_retry`). Weak fairness of each enqueuing loop in the middle of
EnqueueRun, of each worker, and of the passing of a retry delay; for webhooks, of
the subscriber too. Go schedules runnable goroutines, statements are local, and
the model client and the webhook client have timeouts, so each step is eventually
taken. Nothing is assumed of triggers, people, errors or crashes. `agentruns_live`
runs without errors and crashes: with them a run can stay `running` for good,
since no code puts a job back after a stop (`claimTimeout` is never read).

## The proofs

`AgentRunsProofs`, `DispatchProofs`, `EventStreamProofs`, `WebhooksProofs`,
`TenancyProofs` and `SignInProofs` prove, for every value of the constants that
satisfies the named assumptions, each safety property and each action property
that the safety runs check, and the refinement.

*AgentRuns* assumes `CallsAssumption` (only one loop passes a given task; the
markers are no calls and no runs), `PolicyAssumption` and `BoundsAssumption`.
The invariant `IInv` has four layers, each proved from the ones before it:

1. types and what a busy goroutine holds (`GoroutinesOK`);
2. `Ownership`: a claimed job belongs to one worker and is not `queued`
   (`ClaimIsExclusive`), a run that is being created has no job yet
   (`CreatedRunHasNoJob`). This is what makes the unconditional writes of the
   engine safe, and gives `LoopOwnsItsRun`;
3. `Caps`: what EnqueueRun counted is still true when it inserts
   (`CapsStillHold`), because only the same loop can create a run of that task,
   and only a parked run can become active again, which was active all along;
4. `Approvals`: between the gate's read and the execution no decision can
   change, because `approval.decide` rolls back unless the run is parked, and by
   layer 2 it is `running`; and a run parks with the row it has just inserted.

From it follow `TypeCorrect`, `LoopOwnership`, `TaskCap`, `ProjectCap`,
`TaskExclusion`, `ApprovalSafety`, `ParkedRunsCanWake`, and the action property
`EndIsFinal`.

*Dispatch* assumes `CallsAssumption` and `BoundsAssumption`. Its invariant adds to
the properties what a call has done at each point of the pipeline (`ProgressOK`),
that whoever holds a key's result holds the stored one or the one redacted to it
(`StoredOK`), and that a call which came after an answer cannot pass the lookup
(`LateCallsOK`). Theorems: `TypeCorrect`, `AnswersAreTrue`, `CommitFirst`,
`OneResultPerKey`, `AnsweredCallsAreNotRepeated`, and `Refinement` (`Spec =>
ImplementsService`): the initial states map to initial states, each step of a call
maps to one step of the service or to none (`StepRefines`), and a crash closes all
calls in flight at once (`CrashRefines`). It needs `StoredOK`, so that an answer
is one the key is bound to, and that a call has no result before its end
(`UnansweredOK`).

*EventStream* assumes `ScopesAssumption`, `BoundsAssumption` (every buffer has
room for a message) and `NoMessageAssumption`. Its invariant adds two facts to
the properties: a closed tab has nothing under way (`ClosedIsEmpty`), so a new
connection with another set of organisations inherits no message; and the replay
buffer holds no id above the counter (`RingIsPast`), so a first connection, which
continues from the counter, owes nothing yet. `NothingSkipped` is then kept for
each connection by itself (`StaysCovered`): a step may record only the message
that `Run` is about to offer, and must have offered the one before. Theorems:
`TypeCorrect`, `AudienceSafety`, `NoGap`. The buffers' facts (`AppendContents`,
`TailContents`, `RecordKeeps`) are lemmas over the library's theorems about
sequences.

*Webhooks* assumes `NamesAssumption`, `NoneAssumption` and `BoundsAssumption`. Its
invariant rests on two facts. `HoldsJob`: a claimed job belongs to one worker
until `RunJob` is over; once it has returned, the job may be claimed again although
the pool has still to write to it. `HandledOnce`: an event is in the buffer or with
the subscriber at most once, and what is still to be stored is not stored. From
the first follow `AcceptedOK` (a delivery whose job can still be claimed was
accepted only as often as a statement failed) and `CountsOK` (attempts, stored or
read, never exceed the failed POSTs); from the second `MutedOK` and, as long as
nothing failed, crashed or was deleted, `WantedOK`: a wanted delivery is stored
with its job (`Enqueued`) or `OnItsWay` through the buffer and the subscriber's
list. Theorems: `TypeCorrect`, `AcceptedSafety`, `DeadSafety`, `WantedSafety`,
`MutedSafety`.

*Tenancy* assumes `TenancyAssumption` (`NONE` is no row and no id, the users are
finite, the seeded roles are roles). The invariant `IInv` is small, because a
handler is one step and most properties are about steps: types, `UnmadeRoles`
(an id no organisation made a role of grants nothing, so giving it to somebody
creates no owner), `SpentWhenAccepted` (an invitation let somebody in only when
its row says so, so the conditional UPDATE lets nobody in again) and
`InviteRowsGiven`. TLC checks all of it on the instance of `tenancy_safety` too.
What a step may do to memberships is stated once, as `RowGiven` (a row is as it
was, gone, given by hand, by an invitation to this person, or by provisioning
that does not pass over the directory) and `OwnersSafe`, and proved for each
action (`EveryStep`). Provisioning composes operators, and `Changed` says what
each of them may do to the rows of one user in one organisation; it is transitive,
so joining, granting and syncing in one transaction need no new argument
(`ReconcileChanges`, `OrgProvisioningChanges`, `DeprovisionChanges`,
`SyncUserChanges`). `syncUsers` goes through any number of users, by recursion.
`SyncUsersPrefix` proves that its sequence of tables exists, and
`SyncUsersInduction` what every sync keeps; the induction is over a set of
numbers (`SetInduction`, from the well-foundedness of `<`), which needs no
operator as a parameter. For `GroupsFollowed` two more facts are needed: a user's
rows stay as the user's own place in the order left them, and a user who keeps an
owner's row against the mappings was the only owner there and stays an owner, so
that a second one cannot be the only owner later (`SyncUsersFollow`); and the
users a change moves are among those `saveGroup` syncs (`SavedGroupFollowed`,
`DeletedGroupFollowed`). Theorems: `TypesKept`, `OneInvitationOnePerson`,
`OwnerKept`, `InactiveKeptOut`, `NoOwnerProvisioned`, `GroupsFollowed`.

*SignIn* assumes `SignInAssumption`. Its invariant adds three facts to the
properties. `IdentitiesLive`: only live users have linked accounts, because
deleting a user unlinks them, which `SessionsFollow` needs when an account is
linked again. `OneRowPerOrg`: an organisation adds the domain again only after
it removed its row, so that a verified row and one under way are the same row.
`VerifiedProved`: a row is verified, or about to be, only once its own token was
in DNS; a removal between the lookup and the write makes the write match nothing.
What each way of signing in does to sessions and accounts is a lemma of its own
(`Rotated`, `Ended`, `ResolvedEffect`, `PasskeyMethodEffect`). Theorems:
`TypesKept` (with at most one verified row), `PlatformClaimedOnce`,
`SessionsFollow`, and the action properties `ClaimedInForce`, `ControlProved`,
`WayInKept`.

Only model-checked: `NewRunSettles`, a liveness property, which is out of the
prover's reach; and that `JITDefaultRole`, `Desired` and the other operators do
what the code does for every input rests on reading them, not on a proof.

## Where code and documents differ

- **Failed runs are not retried.** `PRD.md:248`: "Failure: retry per policy, then
  mark failed and notify the trigger's owner." `failAndRetry` marks the job and
  returns nil, and the pool overwrites the mark with `succeeded`
  (`agentruns_retry`).
- **A succeeded run can turn into a failed one.** `migrations/0020_runs.up.sql:5`
  makes `succeeded` an end. If completing the job fails, the pool runs it again
  and the unconditional `FinishRun` records a failure (`agentruns_ended`).
  `EndedRunsStayEnded` is what does hold: it does not become active again.
- **A scheduled run does not wait for its approval.** `SPEC.md:331`:
  "`ErrApprovalPending` → persist state, set run `awaiting_approval`, stop". The
  notification for initiator `schedule` violates a foreign key, and the gate
  returns that error instead (`agentruns_park`).
- **A retry with an idempotency key can apply twice.** `PRD.md:62`: "retries
  (agent or network) do not double-apply". Lookup and store are not in the
  transaction of the action (`dispatch_retry`). What holds is that all answers
  with one key are of one call, alike but for a secret that at most one of them
  carries, and that an answered call is not repeated.

- **A failed webhook delivery is not retried.** `PRD.md:200`: "Outbound webhooks
  ... with retry and dead-letter." RunJob puts the job back and returns nil, and
  the pool marks it `succeeded` (`webhooks_retry`). The delivery stays `failed`.

Seen while modelling, without a run of their own:

- A webhook created without a filter is stored with the text `null`
  (`action/webhooks.go:102` marshals a nil slice), which `filterMatches` matches
  with nothing; the form says "blank = all" and `migrations/0027_webhooks.up.sql:4`
  "empty/[] matches all events". `Matches` follows the code.
- A webhook deleted between the listing and its insert makes HandleEvent return,
  and the webhooks after it miss the event. `WantedIsEnqueued` names this
  exception.
- When the start-up settings change from a generated token to admin addresses
  before the claim, the stored token still claims the platform, although the
  comment of `Bootstrap.Prepare` leaves it to `BC_ADMIN_EMAILS`.
  `ClaimByTokenInForce` counts it as in force.
- `role.update` guards the owners of the role's own organisation only: editing a
  seeded role can take the owners of another. `user.delete` is not guarded
  either, which `SPEC.md:303` says. `LastOwnerKept` names both.
- The resume and chat loops wait for event names that no action emits (see
  AgentRuns).

`BACKLOG.md` (WU-524, WU-529 to WU-533) tracks some of these.

## Not modelled

Most of the repository's lines are generated or render pages, and hold no state
of their own: `*_templ.go` views and `internal/web` (rendering, forms that call
Dispatch), `internal/db/sqlc` (generated from the queries, which the modules
model where they use them), provider protocols (OIDC, SAML, WebAuthn:
cryptography, parsing and HTTP), storage, GitHub and wiki I/O, configuration,
Markdown. The map therefore covers a small share of all lines.

Of the rest:

- **Board, sprints, templates, snapshots**: handlers that each write in the one
  transaction Dispatch opens; SQLite has one writer, so nothing interleaves
  inside them. In `Dispatch` each is one committed step.
- **Scheduler write-back**: `server.go:1202` writes back every column of the
  trigger it listed, so an edit made meanwhile is undone. No document says what
  should happen.
- **Search and notifications**: single inserts of one subscriber; their queue
  behaves as the one of `Webhooks`.
- **Replay cache, rate limits**: small structures behind a mutex, whose behaviour
  is a matter of real time.
- **Permission evaluation**: a pure function of grants; the models let any caller
  act.

## The plan

Done: **AgentRuns**, **Dispatch** with **ActionService**, **EventStream**,
**Webhooks**, **Tenancy**, **SignIn**, and the proofs of all their safety and
action properties. To come:

1. An abstract specification of what a membership table promises (owner kept,
   rows given for a reason), which `Tenancy` implements, proved from `RowGiven` and
   `OwnersSafe`.
2. The kill switch and the scheduler's write-back of `next_at`, as further steps of
   AgentRuns, with the proofs that they touch.
