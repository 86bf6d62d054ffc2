# A verification project for FractalMind OS

FractalMind OS is a monorepo: Move contracts on Sui that hold identities,
organizations, authority and work; `envd`, the Go daemon that executes signed
commands on a Host; and applications, bridges and skills around them.  This
directory models the parts of it that carry the system's central promise: *a
human's device may have an Agent on a remote Host act, within bounds, exactly
as signed, at most once, and with an outcome everybody can read*.  They are the
contracts and the Host on one side, and the App's flows that sign, pay, deliver
and ask again on the other.

## 1. Inventory

### The remote command path (the core)

| part | source | state | operations |
|---|---|---|---|
| Capability | `contracts/protocol/sources/remote_authority.move` | limits, use and budget counters, four replay tables, the bound-budget ledger, revocation version | issue, claim, settle, delegate, revoke |
| Command execution | `node_execution.move` | one `CommandExecution` per command: state, cursor, stop flag, attempt, result; result keys; the Host's command queue | grant key, prepare, queue, begin, finish, stop |
| Host admission and Agents | `host.move` | coordinator bindings, invites, memberships, managed Agents, authority bindings, the Agent execution index | join, revoke, import, rebind, issue capabilities |
| Identity and devices | `identity.move` | human generation, device grants, roles, recovery records, pairing requests | pair, change, revoke, recover, set member |
| Encrypted records | `product_record.move` | record pointers with revisions, organization key version | save, rotate |
| Execution extensions | `execution_extension.move`, packages `okr`, `direct_agent`, `handover` | contract bindings, assignment counters, permissions | sealed witnesses for contract-bound commands |
| Host executor | `envd/internal/runtimeadapter/executor.go` | in-flight calls | `Execute` |
| Chain stores | `envd/internal/sui/chain_reservations.go`, `chain_execution_store.go`, `stopped_review.go` | none: they read and write the chain | `Inspect`, `Reserve`, `ConfirmStart`, `SaveCommand`, `LoadCommand`, `SettleStoppedHandoverReview` |
| Command validation | `envd/internal/nodecommand` | local authority projection and reservation files | `Validate`, `Inspect`, `Reserve` |

A device signs a command and, in one transaction, grants the result key and
*prepares* the run: one use is consumed, the whole budget is reserved, a
`CommandExecution` in state QUEUED appears.  The command reaches the Host
through the Coordinator or through the chain queue, often through both.  envd
validates it, *begins* the run on chain under a random attempt id, reads back
that it owns the start, invokes the adapter, and *finishes* the run with the
encrypted result.  The human may ask for a stop at any time; administrators may
withdraw any part of the authority at any time.

What is hard here:

* several calls of `Execute` for one command overlap, and one may be answered
  with what another obtained;
* a transaction whose receipt was lost may land later, also after a crash;
* a stop, an expiry or an operator's settlement arrives between any two steps;
* authority is checked when a command is prepared, queued, and begun, by
  comparing pinned versions, and not when it is finished;
* uses, budget, tokens, the Agent execution index and the queue are updated by
  different transactions and must agree.

### The device's own transactions

`protocols/fractalmind-protocol/sdk/src/transaction-manager.ts`,
`browser-transaction-journal.ts` and `selfpay-okr-submit.ts`: before a command
can be prepared, the device has to pay for and broadcast a transaction.  Several
managers (of several windows) share one durable journal per signing address.  A
submission queries its request, prepares a quote with concrete Gas coins, has it
approved, rechecks, signs, *claims* the digest and the Gas in the journal, only
then broadcasts, and records the outcome.

What is hard here: windows race for one request or one coin between any two
awaits; a page may be closed after the claim or after the broadcast; the receipt
may be lost and the transaction executed later; and a caller that is told
"rejected" will consider the work not done.

### Direct messages

`contracts/direct-agent/sources/direct_agent.move` keeps one standing permission
per Agent: a version, the allowed kinds, a limit, two accounts (standing and
approved), messages, one-off approvals, and which run belongs to which message.
`DirectAgentConversation.tsx`, `direct-agent.ts`, `direct-unresolved.ts`,
`direct-conversation-state.ts` and `direct-draft.ts` are the window: it quotes,
submits, asks the Host once, remembers requests of unknown outcome (one locator
and a bounded list), and saves drafts.

What is hard here: the permission is renewed, lowered or revoked while runs of
an older version are reserved; two signed commands compete for one message; a
window is closed between any two awaits; a request of unknown outcome may land
later; an encrypted save is overtaken by a submission of the same text.

### Objectives

`contracts/okr/sources/okr.move` and `handover.move`: an objective is drafted,
agreed (with a review by the Host, or with an agent-manager Agent without one),
run one key result at a time out of its own budget, measured by the runs'
results, verified and accepted by Humans.  `sdk/src/okr-runner.ts`,
`native-okr-runner.ts`, `OkrContinuation.tsx`, `okr-autonomy.ts`,
`okr-control.ts` and `okr-delivery-journal.ts` drive it from a device: they plan
a ticket, reserve the run, and deliver it through the Coordinator or the chain
queue, by dialogs and by an autonomy session.

What is hard here: an objective is paused, specified and agreed on anew while
runs of the old agreement are queued, running or of unknown outcome; runs are
scheduled ahead of their turn; two devices or two windows plan the same key
result; a locator that says "sent" is saved over by another window.

### The device session and onboarding

`device-session.ts` with `App.tsx` and the native vault (`native/src/lib.rs`):
the screen shows a session that the vault may have ended.  `onboarding.ts` with
`CreateIdentity.tsx`: two transactions, one for the Human and one for the
organization, each retried under a new request after a failure, with a node that
prunes old receipts.

What is hard here: answers of native calls arrive after what they answer has
changed; the App forgets what it read of the device grants; something must
eventually notice; two windows walk one chain of
attempts while one of them retries.

### What makes the parts correct

* Capability: counters are sums over the claims, limits hold, tokens are used
  once, lapsed authority does not come back.
* Command execution: a run exists exactly for a claim, starts once under one
  attempt, ends once, and is settled exactly when its outcome is known; its keys
  do not change under it.
* Hosts and Agents: the execution index counts the unsettled controls, and an
  Agent is not rebound under one.
* Host executor: the adapter runs at most once per run, results are published
  once and agree with the stop flag, answers are true, rejections definite, and
  every call returns.
* Self-pay: one transaction per request, no coin signed twice, outcomes are the
  chain's, a rejection has no effect.
* Direct messages: both accounts are sums over the claims, the limit holds
  through every renewal, a message has one run, lapsed authority never starts
  one; the Host is asked once, a broadcast request stays located, a restriction
  is dropped only when harmless, no save that was under way brings a submitted
  text back as unsent.
* Objectives: budget totals are sums over the claims and within the limit in
  force, runs start in the order of the key results, measurements are of the
  key result's own run, nothing is reserved under an unreviewed agreement; one
  ticket is one reservation, delivered once and in one way.
* Device session: what is shown becomes what the vault holds, a device that the
  App knows to be revoked does not stay unlocked, unlocking ends.
* Onboarding: at most one attempt of a stage can still take effect, and no walk
  comes to show an attempt that has a successor.

### Other parts

The remaining contracts (organizations, fractals, tasks, governance,
reviews, policies), envd's bounded process runtime, the
Coordinator, FractalBot, DeMail, the skills and the other applications are listed in
`PROJECT.json` with the reason why they are not, or not yet, modelled.

## 2. Modules

```
RemoteCapability ----> NodeExecution ------(implements)------> CommandLifecycle
                              |                                     |
                     NodeExecution_proofs                      HostExecutor
                                                                    |
SelfPay ----> SelfPay_proofs                               HostExecutor_proofs

DirectPermission ----> DirectConversation ----> MCDirectConversation <---- DirectDraft
       |                       |                                              |
       \-----------------------+----> DirectConversation_proofs <-------------/

Objective ----> OkrRunner                     IdentityCreation ----> IdentityCreation_proofs
    |               |
Objective_proofs ---+---> OkrRunner_proofs    DeviceSession
```

`Units` has the sums of the ledgers: a claim of `n` units is a block of `n` pairs,
and a total is the cardinality of a union of blocks.  `RemoteCapability`,
`DirectPermission` and `Objective` state their accounts with it, and
`Units_proofs` says what adding or removing a block does to a total.  The proof
modules extend the modules they are about and contain no part of the model.

`RemoteCapability` has the functions of `remote_authority.move` as functions on
one capability record; `NodeExecution` puts them in actions together with the
calls `node_execution.move` makes into `host`, `identity` and `product_record`.
One action is one entry function: a Sui transaction is atomic, and one that
aborts is no step.

`CommandLifecycle` is the abstract specification: all a Host may rely on.
`NodeExecution` implements it (property `ImplementsLifecycle`), and
`HostExecutor` is built on it: what is shown of the Host does not depend on how
the contract keeps its promise.

`HostExecutor` has one record per call of `Execute`; `pc` names the place in the
code where the call waits.  Reads of the chain are atomic, everything between
two reads is one step.  An answer is one of those a caller of envd can tell apart:
refused, start rejected, no gas, unknown, timeout, an outcome.  *No gas* is kept
apart from *refused* because `preflightRun` gives it before the start and, from
`ConfirmStart`, once more after it.

`SelfPay` has one record per call of the OKR submitter.  A call prepares at most
one quote, so the call also names the quote and its digest.  A step ends at an
`await`; a journal transaction (`claim`, `replace`) is one step, as IndexedDB
makes it.  The chain is external: a broadcast transaction lands at any time while
its coins are still at the versions it pays with, or never.  Reading several
coins is one step: nothing relies on the versions read before the claim.

`DirectPermission` is the contract of direct messages, one action per entry.
`DirectConversation` puts the windows on top of it: a window is at a place `pc`
between two awaits and holds what it read; `Course` is what the person asks for
in an instance (policy, messages, decisions, windows).  The transaction manager
under it is what `SelfPay` shows of it: a request is sent at most once, its
outcome is known late or never.  `DirectDraft` has the editors over one stored
draft: a text, the token drawn when it was saved, and the request attempted with
it.  Two windows may hold the same text.  Storage has no compare-and-swap, and a
save first compares, then encrypts, then compares again and writes.

`Objective` is the contract of objectives with the parts of `host`,
`node_execution` and `execution_extension` it calls.  `OkrRunner` extends it with
devices, their dialogs and autonomy session, tickets, locators and the delivery
journal; a device's step ends at an await.

`DeviceSession` has the screen, the vault and one task per kind of native call;
`revoked` is what holds on the chain, `read` what the grants the App holds show,
which a new connection or a failed read empties.
`IdentityCreation` has windows that walk, retry and submit over the journal and
the chain.

The correspondence of every definition to source lines is in `PROJECT.json`
(`map`).  Definitions introduced as *Fault* are plausible bugs: each replaces one
definition in a mutant that must violate one property.

What is abstracted: hashes, addresses, names and signatures are model values or
small numbers; time is a clock with a small bound; a transaction's Move code is
one guard and one update; encryption, building and parsing of transactions may
only fail.  The versioned entries of one operation (`prepare_agent_command`,
`prepare_agent_command_with_contract`, ...) share an action; their differences
are in its guards.

## 3. Runs

Several runs explore more than one instance *side by side*: a variable of the MC
module, `instance` (or `course` in `DirectConversation`), is chosen in the first
state and confines every step, so that each instance stays small while all of
them are checked by the same configuration.

| run | instances | distinct states | what it shows |
|---|---|---|---|
| `ledger` | one capability with one or two uses and a budget of 2; four commands, two of which repeat a nonce or an intent; clock to 2 | 124 038 | ledger, quota, replay and settlement are exact in every order of issue, prepare, queue, begin, finish, stop, revoke and expiry; the contract implements `CommandLifecycle` |
| `authority` | one control command; two generations, grant versions, memberships and key versions, three Agent versions, an administrator's record; the key is rotated while the Agent is unchanged | 880 128 | no rebind under an unsettled control; no authority that lapsed becomes valid again |
| `queue` | two capabilities over the Host, a tracked and a legacy Agent, contract-bound or not, with two commands; and two capabilities with one intent, two key versions and an administrator's record | 316 628 | the Agent index counts the unsettled controls; the result keys of a run are fixed when it is created |
| `calls` | three calls of `Execute` for one observing run | 300 871 | the adapter runs at most once, true answers, definite rejections, results that agree with the stop flag; every call returns |
| `windows` | four calls of which three take place: for one request, two of them in a shared flight, or for two requests that compete for one coin and the address balance; two versions | 1 252 580 | one transaction per request, no Gas shared by open transactions, true outcomes |
| `unread` | as `windows` | violation | see *Findings* |
| `permission` | two messages and three commands over three versions; and one message of two devices against every change around the permission | 914 281 | exact accounts, the limit, one run per message, lapsed authority |
| `conversation` | one window, or two, with a message that needs a decision, is sent and may be unknown, a permission that is renewed; and two editors of one draft with two texts | 1 036 786 | the Host is asked once, requests stay located, restrictions are dropped safely, submitted texts do not come back as unsent |
| `objective` | one objective from draft to acceptance; one that is paused, specified and agreed anew; two that compete for one place | 531 907 | order of runs, budget, evidence, review |
| `runner` | two dialogs of one device over one key result; a dialog of one device and an autonomy session of another; one dialog with two key results and both ways of delivery | 644 569 | one ticket and one reservation, sent once, in one way |
| `session` | one profile, three changes asked for | 170 850 | the three liveness properties of the screen |
| `creation` | two windows: up to three attempts of the organization stage, or both stages with two transactions | 499 115 | one live attempt, successors not hidden |

Why the bounds are enough for what is asked:

* A claim competes with one other claim for a use, a token or budget.  Of the
  four commands one repeats a nonce and one an intent of another; that the other
  two tokens are compared in the same way rests on `ReplayCorrect`.  The budget
  fits one command, or both after a settlement.
* Authority is a comparison of pinned with current versions.  Two values of each
  version, and three of the Agent's, let each of them change before and after
  the capability is issued, and a rejoin follow a revocation.
* Calls of `Execute` interact in pairs (flight and waiter) and through the next
  flight while a waiter acts, which takes three.  Calls for different commands
  share nothing but the crash.
* Submissions race in pairs; the third call is the one that pays with the same
  Gas for another request, or the one in another window while two share a flight.
  Two versions of a coin let it change once between quote and claim.
* A permission matters to a run through its version: three versions are the one
  it was reserved under, a renewal and a revocation.  Two commands for one
  message and one for another are every way to compete for message and account.
* A window interacts with what it, or another window, did before: two windows
  and one locator are enough for each to overwrite what the other relies on.
* A draft is contended by two windows with two texts, so that both may hold the
  same one; three tokens are a save, a submission and the save it overtakes.
* An objective is agreed on twice with two key results: a run of the old
  agreement, one of the present key result and one scheduled ahead.
* Onboarding has two stages; a failed attempt, its retry and a competing one are
  three transactions of one stage.  A walk goes over one failed attempt
  (`MaxVisited = 1`), so at most one retry is broadcast; longer chains rest on
  the theorems.

The theorems below remove the bounds for the properties they state.

`CHECK_DEADLOCK FALSE` is in every configuration because the instances are finite:
when all commands have ended, or all calls have returned, nothing is left to do.
Symmetry (`CapSymmetry`, `CallSymmetry`) is used where no definition
distinguishes the permuted values, and never with a liveness property.

### Fairness

`calls` assumes weak fairness of the steps of each call, `WF_vars(Step(p))`,
under which `EveryCallReturns` holds unless envd dies.  The
code justifies it: the polls for a start and for a result run under 30-second
contexts, HTTP reads have client timeouts, adapters run under the deadline of
their command, and a call from the chain queue under its expiry as a whole.  A
gRPC call of a Coordinator delivery has no deadline of its own besides its
caller's context; that the connection answers or fails is assumed there.  No
fairness is assumed of the chain, of the human or of other calls beyond their own
steps.  The self-pay manager sets no time limit on its RPC calls, so no
termination is claimed of it.

`session` assumes weak fairness of the answers of native calls (the vault is a
local process that answers or fails), of the interval while a session is shown
(`setInterval`), and of React's effects after a render.  Nothing is assumed of
the person, of expiry or of reads of the chain: the grants may never be read, and
what was read may be lost.  `RevokedEnds` therefore speaks of a device that the
App holds as revoked; its second part, on what is revoked on the chain, has the
assumption that the grants are read again and again in its statement.

### Findings

* `unread` (documentation and code differ).  `createSelfPayOkrSubmitter` answers
  *unknown* when its first query cannot read the journal, because that "cannot
  establish that an earlier process did not send this request", and the product
  document says that a failed journal read keeps the request awaiting
  confirmation.  Later journal reads of the same submission, in `prepare` and
  `submit`, are answered *rejected*.  The run has two calls for one request: the
  first broadcasts after the second one's query; the second then fails to read
  the journal and is told that its submission was rejected.

What else the models show and no run of this project states as a property:

* Two windows of one conversation share one locator: the quote of one replaces
  the locator of a request the other waits for, and both may submit opposite
  decisions (`DirectAgentConversation.tsx:598`).  `SubmittedIsLocated` is stated
  for one window for this reason.
* A message whose approval was rejected can still be run through the ordinary
  entry once budget is released or the workspace is not protected any more
  (`direct_agent.move:307`); FR-06 of the product requirements says that what was
  rejected is not executed.
* A run scheduled ahead is unsettled and keeps the present key result, which it
  waits for, from being prepared (`okr-control.ts:125`); someone has to stop it.
* A delivery on chain takes no claim: of two windows of one device one can queue a
  run on chain while the other asks the Coordinator for it
  (`OkrContinuation.tsx:644`).  `OneWay` is stated for one window per device for
  this reason, and the instance with two dialogs has no deliveries on chain.
* A call that is told `host_gas_insufficient` or `host_gas_unavailable` may have
  started its run: `ConfirmStart` measures the gas again
  (`chain_execution_store.go:298`) and its answer carries no
  `requires_confirmation` (`cmd/envd/main.go:1027`).  The run stays RUNNING under
  that attempt.  `v020-node-execution.md:26` describes the second check and both
  codes, so this is no disagreement with a document; `RejectionIsDefinite` says of
  these answers only that the adapter was not invoked and no result sent.
* A device that was read as revoked and is unlocked again stays unlocked while the
  App does not hold the grants: their section of a read failed (`chain.ts:193`) or
  the connection is new (`use-chain.ts:22`), and the effect (`App.tsx:299`) finds
  nothing to lock for until they are read.
* The mark of a submitted draft goes when the user deletes the draft: a save that
  another window began over an empty store then finds it empty again and writes,
  also the text that was submitted (`direct-draft.ts:176`).
* With two profiles on a device, an answer for the old one can show a session
  that the interval never asks about (`device-session.ts:222`).

## 4. Theorems

All theorems hold for every value of the constants, under the assumptions
named in the modules: the sets of tokens, calls and offers have the shapes the
actions need (`RemoteCapability`, `NodeExecution`), `NoAttempt`, `NoCall`,
`NoCommand`, `None` and the objective name `"none"` are not elements of the sets
they stand apart from, `RunOf`, `RequestOf` and `ManagerOf` are functions of the
calls; a message has a kind and an amount, a command names a message and a
capability, and a policy allows no more calls than its limit pays for
(`DirectPermission`; the contract checks it in `input`); an operation of the App
names the message, policy or decision its kind has (`OperationAssumption`), the
empty form is one of the texts (`TextAssumption`), and
there are finitely many windows (`WindowAssumption`: the restriction to one window
counts them); a window of the runner is a dialog or a session and has a device, and
there is a limit and a version 2 for the agreement it starts from
(`RunnerAssumption`).

| module | theorem | property |
|---|---|---|
| `NodeExecution_proofs` | `TypeCorrect`, `LedgerCorrect`, `QuotaCorrect`, `ReplayCorrect`, `SettlementCorrect` | `TypeOK`, `BudgetLedgerExact`, `QuotaKept`, `NoReplay`, `SettledExactlyWhenTerminal` |
| `NodeExecution_proofs` | `ControlCounted`, `BindingKept`, `LapsedForGood`, `KeysFixed` | `ControlCountExact`, `ControlRunKeepsBinding`, `LapsedAuthorityStaysLapsed`, `ResultKeysFixedByRun` |
| `NodeExecution_proofs` | `Implements` | `ImplementsLifecycle` |
| `HostExecutor_proofs` | `AtMostOnce`, `ResultAgrees`, `AnswersAreTruthful`, `RejectionsAreDefinite` | `AdapterAtMostOnce`, `ResultAgreesWithChain`, `AnswersTruthful`, `RejectionIsDefinite` |
| `SelfPay_proofs` | `SentRecorded`, `GasKeptApart`, `OutcomesTrue`, `SyncedRecorded`, `RejectedWithoutEffect` | `SentIsRecorded`, `NoGasEquivocation`, `KnownOutcomesTrue`, `SyncedMeansRecorded`, `RejectedHasNoEffect` |
| `DirectConversation_proofs` | `AccountsExact`, `LimitHolds`, `RunsUnique`, `LapsedRunsNeverBegin` | `LedgerExact`, `StandingWithinLimit`, `OneRunPerMessage`, `LapsedNeverStarts` |
| `DirectConversation_proofs` | `HostAskedOnce`, `RequestsLocated`, `DroppedWhenHarmless`, `SubmittedStaysSubmitted` | `HostRequestOnce`, `SubmittedIsLocated`, `RestrictionsDropSafely`, `SubmittedNotUnsent` |
| `Objective_proofs` | `BudgetCorrect`, `OrderKept`, `MeasurementsOwn`, `ReviewedFirst` | `BudgetExact`, `StartedInOrder`, `MeasuredByOwnRun`, `ReservedAfterReview` |
| `OkrRunner_proofs` | `OneReservation`, `CoordinatorAskedOnce`, `OneWayKept` (one window per device) | `TicketIsReservation`, `SentOnce`, `OneWay` |
| `IdentityCreation_proofs` | `OneCanLand`, `RetriesSeen` | `OneLiveAttempt`, `SuccessorNotHidden` |

Every inductive invariant below was first checked by TLC as an invariant of the
run that checks its properties.

**The ledger.**  `LedgerInv` is `TypeOK`, `CapabilityInv` of every capability,
`RunPerClaim` and `SettledExactlyWhenTerminal`.  None of the stated properties is
inductive alone: that a settlement does not take a counter below zero needs the
sums to be exact, this needs the claim to be unsettled, and this that its run is
not terminal.  The sums are cardinalities of sets of units (`ReservedUnits`,
`SpentUnits`), so that claiming or settling adds or removes one block; the first
lemmas of `NodeExecution_proofs` say what each function of `RemoteCapability` does
to one capability.

**The execution index.**  `ControlInv` adds to `LedgerInv` that the unsettled
controls of a tracked Agent are finitely many, that its counter is their number,
and that the Agent is bound as their capabilities say.  A rebind is allowed when
the counter is zero, and only an exact counter then says that there is no run to
break; that `finish` and `stop` settle a run once, and so count down once, is
`LedgerInv`.

**Authority.**  `PinsBehind` says that what a capability pinned is never ahead of
the object it pins.  Versions only advance, so a pinned version that differs from
the present one is behind it and stays so: `LapsedForGood` is this argument for
one step.  `KeysFixed` is one too: the only entry that adds a key refuses a new one
for an intent that a claim uses.

**The refinement.**  The mapping `LifeView` reads state, cursor, stop flag and
attempt out of each run.  Every action maps to one lifecycle action or to a
stutter.  `RunPerClaim` is needed for *create*: that a claim is fresh must imply
that there is no run.

**The Host.**  `HostInv` speaks of one call and its run at a time: at which places
of the code a call has sent what, that its start landed exactly if the run carries
its attempt, and that a result that was sent was settled for the stop flag at its
cursor.  A step of a call has to restore its
own part, a step of the chain the part of every call of that run.

**The device.**  `SelfPayInv` says that an entry belongs to a call for its request
that cannot change its quote any more, that a recorded outcome is the chain's,
that pending entries do not compete for Gas, and per call what it knows at each
place.  Two open transactions are then both pending in the journal, and so kept
apart by `claim`.

**The permission.**  `PermissionInv` is `Shape` (types, without the capabilities:
no stated property reads them), `RunsMade` (a run has a message that exists, and
only a settled one has spent), `Accounts`, `StandingWithinLimit` and
`OneRunPerMessage`.  The accounts are stated once more as cardinalities of sets
of units, one block per claim, which `Accounts` equates with the contract's
counters: a reservation adds a block, a settlement exchanges one, and every other
entry leaves all of them alone.  A settlement needs its claim to be unsettled and
no larger than the account, which the exact sum gives.  That a lapse is final is
an argument about one step: the version only grows, grants only shrink, and once
a run exists neither the writer of its message nor the approver of a consumed
approval can change.

**The conversation.**  Every transaction of the App or the Host is shown to be a
step of the contract (`EffectIsNext`, `HostIsNext`), so `PermissionInv` holds
below the windows, and `ForGood` collects what a contract step leaves for good: a
message keeps its run and its version, a settled run stays settled.
`ConversationInv` then adds, for the Host being asked once, that a window's
command is for the message it works on (`CommandsFit`), that a signed command is
held by one window and not delivered yet (`HeldOnce`), and that what is about to
be delivered is the command the run was reserved with (`Deliveries`).  For
restrictions it adds that what a window read of a message that is over is still
true when it acts on it (`ViewsHold`): a stale reading can only be of something
final.  For requests of unknown outcome it adds where the one window knows each of
them from at every place of the code (`Located`).

**Drafts.**  A text may be submitted in one window while another is still
encrypting the same text.  What keeps that save from offering it again is the
second comparison of the stored value, so the invariant has to say that a value
that was seen before a submission is not stored after it.  `DraftInv` says so: no
stored or remembered value has a token or a request that was not drawn
(`DrawnBy`, `EditorDrawn`), and a save under way that still finds the value it
expects began after every submission (`SaveSeen`): `Mark` and `SaveEnds` put a
token or a request that was never drawn before into the stored value, so the
comparison fails from then on.  Values never return except the empty one, which
only `Discard` brings back; the property speaks of the submissions since then.

**Objectives.**  `ObjectiveInv` is `Shape`, `Objects` (the key results before the
present one are verified, measurements are of own runs, an active agreement covers
what is committed), `Claims` (how a claim lies behind its objective: its agreement
and specification are not ahead of the present ones, a claim of the present
agreement is of the present specification, and a run of it that started is not
ahead of the present key result), `Accepted` (policies and capabilities are of
agreements that were reviewed) and `Accounts`.  The order of runs needs `Claims`
because a run of an old agreement may still start, or be measured, after an
objective was paused, specified and agreed on anew.

**The runner.**  `RunnerInv` adds to `ObjectiveInv`, which every transaction below
the runner keeps because it is a step of the contract: that a transaction and a
ticket were recorded and signed by their device (`Submitted`); that what a device
asked for it signed and it is reserved, and that what it asked of the Coordinator
was claimed and not ahead of the present key result (`Asked`); what a flight holds
at each place (`Fits`); that a flight that may still ask the Coordinator holds the
claim of its run alone, with nothing sent (`Held`); and that a locator is not ahead
of the present key result (`Locators`).  One reservation per ticket comes from
saving the ticket at revision 0 in the transaction that reserves its command, so it
holds although a request of unknown outcome is planned again elsewhere.  `SentOnce` is `Held` at the one step that sends.
`SoloInv` adds, for devices with one window (`Solo`), what the one dialog knows of
its deliveries (`Knows`): a locator, in the dialog, in the store or on its way
there, that says *not attempted* is of a key result that is past or whose run this
device has not asked for.  This is not inductive without the order of key results:
a run scheduled ahead is queued on chain without a mark in the locator, and what
keeps the dialog from sending it once it is the present one is that its locator
names the key result it was read for, which is past by then.

**Onboarding.**  `CreationInv` says that the requests of a stage form one chain in
the journal: a recorded retry is of an attempt that failed on chain and is recorded
as failed (`RetriesOfSpent`), a stage with an attempt has a root (`Rooted`), and of
two attempts one has a recorded successor (`OneTail`).  Of each window it says what
its walk knows (`OnChain`), that a successor it began is of a spent attempt
(`Begun`), and that the request it is about to claim is recorded already, a root,
or the successor of a spent attempt (`Claims`).  That a failure is in the *journal*
before a retry exists is what keeps a pruned receipt from hiding the retry; it
comes from `MayBegin`, which asks for it, through a session, a quote, a second walk
and a claim.

### Only model-checked

`EveryCallReturns`, `SessionNoticed`, `RevokedEnds` and `UnlockingEnds` are
liveness under fairness, which is out of the prover's reach.  So are facts about
recursive definitions for every input; the modules have none.
`UnreadJournalIsUnknown` is the property the run `unread` refutes.  Every other
property of a run is proved.

## 5. Not modelled

`PROJECT.json` lists every part with its reason.  In short: delegation of
capabilities; pairing, recovery codes and invites; the dialog that creates
further organizations, which uses the same manager as onboarding; Host access and
the handover dialog in the App (the contract's side of it, `confirm_okr`, is in
`Objective`); the reservation
files of the older local stores, which only tests still use; the chain queue
consumer and the Coordinator; the bounded process runtime; the independent
contracts (tasks, governance, reviews); FractalBot, DeMail, skills and the other
applications.  Scripts that drive a local network, prototypes and the
documentation site, which are a large part of the repository's lines, have no
protocol of their own.

## 6. Plan

In this order:

1. `RemoteCapability` and `NodeExecution`: delegation of uses and budget to child
   capabilities, and the import of Agents, so that the index and the parent chain
   are checked together.
2. `Identity`: device pairing, changes of grants and recovery, with the App's
   flows for them, as a component with its own invariants (one generation, no
   grant of an older one is used).
3. `Handover`: proposal, review by the Host and approval in the App's dialog,
   composed with `Objective`.
4. `ChainQueue`: the consumer of the command queue with paging, deferral and
   restart, composed with `HostExecutor`; then the Host join journal.
5. `Task`, `Governance`: small state machines with counting invariants;
   FractalBot's bus and heartbeat scheduler, the agent manager's inbound queue.
