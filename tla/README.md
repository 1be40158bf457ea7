# Lívia platform in TLA+

TLA+ modules that model the parts of the Lívia platform whose correctness
depends on the order of things: the transactional outbox and what it delivers,
the idempotency of `/api/chat/`, the turns of a conversation, the knowledge
base's operations, documents and Drive files, and the operational monitoring
with its alerts and notifications. TLC checks them on small instances; TLAPS
proves every safety property that a run checks for every value of the constants.

Run everything from this directory:

    tlc -workers 2 -config MCOutbox_workers.cfg MCOutbox.tla     # one run
    tlapm OutboxProofs.tla                                       # one proof module

`PROJECT.json` lists the components, the runs, a mutant for each property (a
slip in the code that makes TLC find the property violated), the source lines
that each definition models, the hazards and the theorems.

## 1. The system and its parts

Lívia is a multi-tenant chat assistant in Django. A widget on a tenant's site
posts messages to `/api/chat/`; a turn is answered deterministically or with an
AI's wording, collects a lead, may hand the visitor to a human, and leaves
events in an outbox. Management commands, run by hand or by systemd timers,
process the outbox, the RAG operations and the operational monitoring. An
operations portal and the Django admin look at all of it and retry what failed.
There is no broker: every interaction between processes goes through PostgreSQL
rows, so what is hard is which row was read under which lock, and what became
of it before it was written.

| Component | State it keeps | Operations | Interacts with | Modelled |
|---|---|---|---|---|
| Transactional outbox (`integrations/outbox`) | `OutboxEvent`: status, attempts, available_at, locked_by, locked_at | enqueue, recover locks, claim, handle, finalize, portal retry, admin requeue | called by chat turns; calls the handlers | partly |
| Chat request idempotency (`services/chat_idempotency.py`) | `ChatRequest`: status, fingerprint, response_payload, updated_at | reserve, replay, take over, complete, fail | the HTTP view, the turn's transaction | partly |
| Chat turn processing (`chat_processing.py`) | `Conversation`, `Message`, `LeadDraft.qualification_data` | persist a turn, refine the reply | idempotency, lead, handoff, outbox | partly |
| Conversation engine (`assistant_core` policies, discovery, qualification, state) | rules over the visitor's messages | analyse, route, capture, collect, offer | chat turn, lead | partly |
| Lead lifecycle and dispatch (`leads`) | `LeadDraft`: status, dispatch_status, sent_to_crm_at, qualification_data | qualify, capture, operators' retries | turns, handlers, portal | partly |
| Delivery handlers (`outbox/handlers.py`, `webhooks`, `smart360`, `lead_notification`) | `WebhookDeliveryLog`, flags in `qualification_data` | post to Smart360, mail, post to webhooks | outbox, external services | partly |
| Human handoff (`leads/services/handoff*.py`) | `HandoffRequest`: status, dispatch_state, notification fields | create, notify, resolve, cancel | turns, outbox, portal | partly |
| RAG operation requests (`rag/operations.py`) | `TenantRagOperationRequest`: status, lease | create, execute, renew lease, recover stale, finalize | portal, sync, index | modelled |
| RAG synchronisation and indexing (`rag/sync.py`, `indexing.py`, `services/lifecycle.py`) | configuration locks, manifests, documents, chunks, embeddings | inventory, export, chunk build, index, reindex, archive | Drive, OpenAI, the operations | partly |
| RAG retrieval (`retriever.py`, `vector_search.py`) | none | keyword and vector search | documents, chunks, embeddings | partly |
| Operational alerts (`operational_alert_*`, `alert_governance*`, `operational_work_queue*`) | alert rows, assignment, escalation, silences, windows | sync from a diagnosis, acknowledge, resolve, assign, escalate | monitoring, notifications | modelled |
| Operational notifications (`operational_notification_*`) | notification rows with a lock | enqueue after commit, claim, deliver, retry, read, prune | alerts, mail | partly |
| Operational monitoring (`operational_monitoring.py`) | batch and run rows, an advisory lock | run a batch, recover stale ones | alerts | modelled |
| AI replies; spam guard and rate limit; portal; tenants and rollout; widget; audit; configuration; scripts | texts, counters, configuration, logs | | | no: section 7 |

### What is hard in each, and what would make it correct

* **Outbox.** A claim is one transaction, the handler runs outside any, the
  result is recorded in a second one. Between them a worker may crash, outlive
  its lock and be overtaken, or have its row requeued by an operator. Correct:
  a result is recorded by the claim's owner only; attempts stay within the
  budget; every event is settled in the end.
* **Chat idempotency.** The read of an existing row and the write decided on it
  are two transactions, the turn is a third and the rewording a fourth, and any
  of them may be overtaken. Correct: what is replayed is what the conversation
  shows, never another message's answer; without a timeout one turn is processed.
* **Turns.** The dialogue memory is read before the conversation is locked and
  saved under the lock, and the reply's rewording writes a copy back without it.
  Correct: nobody's lead is told of without a request; a ready lead is told of;
  a refusal stands, and so does a request.
* **Leads and deliveries.** Three deliveries share one result and progress is
  kept in one JSON field that turns rewrite whole. Correct: a success covers
  every channel; a delivery is repeated for a known cause only.
* **Handoff.** A notification saves a copy loaded before SMTP over what an
  operator did meanwhile. Correct: a success told somebody; one handoff is
  active; mails repeat for a known cause.
* **RAG operations.** One active operation for each tenant, a lease that one
  kind of operation renews once, configuration locks with a timeout, and rows
  finalized from copies. Correct: pipelines exclude each other while their locks
  last; a success went through each of its pipelines.
* **Documents and Drive files.** Manifest, text, chunks, embeddings and the
  document's row are written by different transactions of operations that cross.
  Correct: what was withdrawn is not found, what is shown as indexed is found
  with its current text, one text of a file is active, a failed rebuild takes
  nothing away.
* **Alerts, notifications, monitoring.** A diagnosis taken before the rows are
  locked, notifications enqueued after the commit, recovery that saves what it
  read without a lock, a session lock that survives an exception. Correct: who
  has to be told is told, once; a verdict means what it says; everything ends.

`PROJECT.json`, "hazards", lists each of these at its line with the properties
that guard it, or the reason why none does.

## 2. Plan, and what became of it

The modules of the plan are written, and every safety property of their runs is
proved. In the order in which they were written:

| Module | Models | Proofs |
|---|---|---|
| `Outbox`, abstract `OutboxLedger` | the outbox and its actors | `OutboxProofs` |
| `ChatIdempotency` | one `request_id` and its calls | `ChatProofs` |
| `LeadDelivery` (extends `Outbox`) | the lead.qualified handler, its three channels, the lead's row, turns and operators | `LeadProofs` |
| `HandoffDelivery` (extends `Outbox`) | a handoff's life, its notification and its event | `HandoffProofs` |
| `RagOperations` | requests, leases, recovery, the configuration's locks | `RagProofs` |
| `MessageSignals`, `LeadQualification`, `ConversationTurn` | what a message says, the policies over a lead, turns that cross | `ChatProofs` |
| `Monitoring` | batches, their lock and recovery | `MonitoringProofs` |
| `NotificationPolicy`, `OperationalAlerts` | who is told; alerts, queue, escalation | `MonitoringProofs` |
| `Notifications` | claim, delivery, reading, pruning, windows | `NotificationProofs` |
| `DriveSync` | a Drive folder's files from listing to chunks | `DriveProofs` |
| `KnowledgeDocuments` | manual documents and what the searches find of them | `RagProofs` |

Compositions: `LeadDelivery` and `HandoffDelivery` run their handler inside
`Outbox`: every step of theirs is one of `Outbox` or leaves it alone, so the
outbox is modelled and proved once (`RunsInOutbox` says so of both).
`OperationalAlerts` takes its recipients and keys from `NotificationPolicy`.
`RagOperations` shows when the pipelines exclude each other, which `DriveSync`
and `KnowledgeDocuments` use. The abstract specification is `OutboxLedger`.

What is left, in the order of what it would say of the system: the widget's retry
loop composed with `ChatIdempotency`; the rate limit's window; backoff and
commercial transitions as small algorithms; an abstract "retrievable content"
that `DriveSync` and `KnowledgeDocuments` would both implement.

## 3. Modules and code

In every module one action is one database transaction, or one external call, of
the code. What happens between two of them is open to every other actor. A row
is a function or a record of the columns that some guard reads; an in-memory
copy of a row that outlives its transaction is a variable of its own (`copy`,
`memory`, `seen`, `form`, `selected`, `stale`, `turn`), because most of what can
go wrong here is such a copy saved back. Time is reduced to the comparisons the
code makes: a lock, a lease or a backoff has passed or it has not. Variables
marked "history" are read by properties only.

### Outbox

`status`, `attempts`, `due`, `locked_by`, `lock_expired` are the columns of
`OutboxEvent`; `pc`, `batch`, `handling` are the loop of `process_outbox_batch`.

| Action | Code |
|---|---|
| `Enqueue` | `service.enqueue_outbox_event` with its unique deduplication key |
| `RecoverAbandonedLocks` | `processor.recover_abandoned_locks`, one UPDATE |
| `Claim` | `claim_outbox_events`; the order and SKIP LOCKED make it any set of eligible events that fits the batch |
| `Handle`, `Finalize`, `FinalizeRejected` | the loop's handler call and `finalize_outbox_event`, whose owner check either records or drops the result |
| `Crash`, `LockTimeoutElapses`, `BackoffElapses` | the process dies; time |
| `PortalRetry` | `crm_retry.execute_portal_crm_retry`, row locked |
| `AdminSelect`, `AdminSave` | `admin.requeue_outbox_events`: a queryset read once, its rows saved one by one |

`OutboxLedger` is the promise without workers, locks or time: an event is
absent, open or closed and has a budget of attempts. `Outbox!Ledger` is the
refinement mapping.

### ChatIdempotency

One `ChatRequest` row and the HTTP calls with its `request_id`. `Reserve`,
`ReadExisting`, `AnswerAtOnce`, `TakeOver`, `RetryFailed` are the branches of
`reserve_chat_request`; `Block`, `Persist`, `KeepDraft`, `Refine` those of
`process_chat_request`; `Fail` is `chat_api`'s `except` with `fail_chat_request`;
`Crash` is the process dying between two transactions. `message[c]` stands for
all the turn of call `c` committed: its two messages, lead, handoff and outbox
rows. Payloads are reduced to whose they are and in which wording.

### MessageSignals, LeadQualification, ConversationTurn

`MessageSignals` has what the code reads in one message: a message is an opaque
value with markers (`Says`), one for each pattern table or test, and the contact
data that can be found in it (`Gives`) or that it answers with (`Fills`); the
operators combine them in the order of the code's returns (`Analyzed` is
`analyze_message`, `TriggerKind` is `detect_collection_trigger`).
`LeadQualification` has the policies over the rows: what is missing, whether the
collection is open, what a capture makes of a message, when the lead is ready,
what the memory keeps. `ConversationTurn` runs turns of one conversation:

| Action | Code |
|---|---|
| `Begin` | `process_chat_request` up to its transaction: `load_dialogue_memory` reads the lead without a lock |
| `Commit` | `_persist_chat_processing_state`: `Generated` is `generate_reply`, its stages (`Settled` to `Finalized`) one after another, then `persist_dialogue_memory` |
| `KeepReply`, `Reword` | `_refine_response_with_ai_if_enabled`, which may write the lead again after the commit |
| `LeadMoves`, `CloseHandoff` | the outbox's worker and the portal |

Whether a reply asks, guides or does neither is any; so is whether the retrieval
found knowledge.

### LeadDelivery

Extends `Outbox`; an event is also its `LeadDraft`. `Load`, `CrmRequest`,
`CrmSave`, `MailHeld`, `MailFails`, `MailSend`, `MailMark`, `HookSkip`,
`HookPost`, `HookSent`, `HookFails`, `Return` are `LeadQualifiedHandler.process`
with the services it calls, cut at every commit and every external call.
`Qualify`, `ReadMemory`, `SaveMemory` are what turns do to the row; `MarkFailed`,
`RetryCheck`, `PortalExecute`, `AdminExecute` what operators do.
`qualification_data` is the set of its keys that matter. `CrmMode`, `MailMode`,
`HookMode` are what the side-effect policy decides, fixed in one instance.
Portal and admin offer a retry for `lead.status = failed` only, and no code that
is called writes that status: `MarkFailed`, a superuser's edit of the row, is the
one way to it. A turn's pair `ReadMemory`, `SaveMemory` also stands for the rewording
of a reply, which saves `qualification_data` as its turn had read it.

### HandoffDelivery

Extends `Outbox`; an event is also its `HandoffRequest`. `CreateHandoff` is
`create_or_update_handoff` when no handoff is active; `Load` to `Return` are
`HandoffCreatedHandler.process` with `HandoffNotificationService.notify` and the
webhook; `PortalLoad`, `PortalSave` are `update_handoff_status` and the
`mark_*` methods it calls; `AdminClose` is the admin's two actions. `settings`
picks one deployment (modes of mail and webhook) at the start.

### RagOperations

One tenant's requests, the two locks of its `TenantRagConfiguration`, and the
processes that use them. `CreateRequest`, `ListStale`, `RecoverRow`,
`PickPending`, `ClaimRequest`, `RenewLease`, `Report` are the transactions of
`operations.py`. `Report` commits before the result's audit event is inserted,
inside the same `try`: `Audited` is that insert, `Stumble` its failure, after
which the handler writes `failed` over what was reported. `Acquire`, `Refused`, `Complete`, `Break`, `MarkFailed` are the
lock's life in `sync.py`, `indexing.py` and the `except` branches of their
callers; `StartCommand` is `sync_tenant_rag` and `index_tenant_rag`;
`StartReindex`, `ReindexStep`, `ReindexFails` are `lifecycle.reindex_document`,
which runs both pipelines without either lock. `holder` and `exposed` record who
entered a pipeline with its lock and whose lock is gone.

### DriveSync

A tenant's files with their manifest rows, staged texts and chunks. `StartPass`,
`Observe`, `Overlook`, `Inventory`, `LeaveUnchanged`, `Fetch`, `Persist`,
`ExportFails`, `ClosePass` are `run_sync_for_inventory`'s loop over the listing;
`StartBuild`, `PassOver`, `BeginRebuild`, `SelectActive`, `LockActive`,
`CommitRebuild`, `CloseBuild` are `run_chunk_build_for_tenant` with
`_process_staging_for_chunks`, cut where PostgreSQL lets another build in: the
rows a statement sees are chosen before it waits for their locks. `Edit` and
`Drop` change Drive; a version stands for a text, its modified time and its hash.
Of the texts of a file some are `TooLong` to cut, which fails the build, and some
are `Blank`, which it skips with success, leaving the chunks there are
(`test_rag_inventory.py:956` asks for that).

### KnowledgeDocuments

The documents a tenant writes, their manifests, chunks and embeddings, and the
two searches: `Searchable` (the vector search) and `Usable` (the keyword search, which
asks `document_state`). `Upsert`, `SetAlone`, `BeginReindex`,
`StartPipeline`, `StartIndex` are the portal, the admin site, imports, the seed
command and the pipelines; `SyncManual`, `Judge`, `SaveJudged`, `MarkIndexing`,
`LoadStaged`, `BuildChunks`, `Decide`, `RunTaken`, `Embed`, `FinishReindex`,
`FinishUnrecorded`, `FailReindex`, `HideChunks` are the steps of one operation,
and `Breaks` is an exception at any of them: an index that is disabled or of
another schema, no provider, a refused statement. A build of chunks is one step,
but `raced` remembers the documents whose staged text another build has cut
since this one read what there is: the second of the two breaks the unique
constraint of the chunks, and its reindex fails. `runId` and `runs` are the
index run's id in the configuration and those recorded, which are unique too; a
reindex takes the configuration's. `clashed` marks the documents that
either constraint has failed. `excused` marks a document over which a status saved alone, or a build of an
older staged text, went: the properties say nothing of it (section 5).

### Monitoring, OperationalAlerts, NotificationPolicy, Notifications

`Monitoring`: `Start`, `RecoverBatch`, `RecoverRuns`, `TryLock`, `SkipActive`,
`OpenBatch`, `BeginTenant`, `TenantDone`, `TenantFails`, `CloseBatch` are
`process_operational_monitoring` in its order; `FailUnguarded` and `FailGuarded`
are exceptions outside and inside its `try`; `Disconnect`, `Crash`,
`LeaseExpires` end sessions and leases.

`OperationalAlerts`: `Look` takes the diagnostic snapshot, `Sync` and
`SyncAndQueue` apply it under the rows' locks, with the queue's escalation;
`Acknowledge` to `MaintenanceStarts` are the operators' services; `Tell` runs an
on_commit callback, `Lose` the process that died before it; `DeadlinePasses`,
`Ages`, `Changes`, `Departs` are the world. Events go to `NotificationPolicy`'s
`Recipients` with its `Key`.

`Notifications`: `LookAtWindow` and `Enqueue` are the callback with its look at
the maintenance windows, which it saves; `Recover`, `Claim`, `Finalize`, `Crash`,
`LockAges` the processor; `Load`, `MarkRead`, `MarkAllRead` the portal; `Prune`,
`Deactivate`, `CancelWindow`, `ClockMoves` the rest.

## 4. Runs

| Run | States | What it asks, and what it shows |
|---|---|---|
| `outbox_workers` | 265 258 | Two workers, two events, a crash, lock timeouts, a portal retry. Only the claimant records a result (`RecordedByClaimant`), the ledger is implemented (`ImplementsLedger`), and every event is settled unless live workers lose their locks for ever (`EventuallySettled`). |
| `chat_calls` | 203 263 | Three calls with one message and a fourth with another under the same `request_id`, two timeouts. A replay is what the conversation holds (`ReplayIsStored`) and never another message's (`NoCrossReplay`); without a timeout there is a single turn (`NoTimeoutNoDuplicate`). |
| `conversation_turns` | 67 142 | Three turns on two workers that cross, nine kinds of message. Nobody is told of a lead without a request for contact (`ToldForCause`), a ready lead is told of (`ReadyIsTold`), a refusal stands (`RefusalStands`), a request stands (`RequestStands`). |
| `lead_delivery` | 2 022 982 | All three channels real, a crash, lock timeouts, two turns, operators. A success covers every channel (`SuccessIsComplete`); a mail or a post is repeated for a recorded cause only (`MailRepeatsForCause`, `PostRepeatsForCause`). |
| `handoff_workers` | 633 554 | Two handoffs of one conversation in three deployments, a crash, an operator, the admin. Somebody was told (`SuccessToldSomeone`), mails repeat for a cause (`MailRepeatsForCause`), one handoff is active (`OneActiveHandoff`). |
| `rag_pipelines` | 1 777 849 | Two workers, a command or a manual reindex, one lease or lock outlived. Pipelines exclude each other while their locks last (`PipelinesExclude`); a success went through each of its pipelines (`SucceededIsWhole`). |
| `rag_requests` | 278 380 | Two workers, a crash, an outlived lease, an audit event refused, dry runs. One execution at a time (`OneExecution`), a finished request changes for two causes (`FinishedForCause`), every request ends (`RequestsSettle`). |
| `drive_builds` | 1 486 754 | Two files edited, dropped and restored, one edit to a blank text and one to a text too long, while passes and chunk builds run and a reindex builds beside them. One text of a file is active (`OneTextActive`), a pass that succeeds has brought in what it listed (`ExportCatchesUp`), a build serves what was exported, blank texts excepted (`BuildServesExport`), a failure takes no text away (`NeverUnserved`). |
| `knowledge_actors` | 619 440 | One document, operations that cross on it, edits, archiving, exceptions, index runs. What was withdrawn is not found (`ArchivedIsSilent`), what is shown as indexed is found with its current text (`UsableIsCurrent`), a reindex fails for a cause that can be named, the two unique constraints among them (`FailsForCause`). |
| `monitoring_batches` | 434 046 | Two processes, two batches of two tenants, a crash, a lease outlived, an exception. The lock is left by a failure only (`LockIdleByFailure`), a success covers every tenant (`SuccessIsEveryTenant`), a closed run is written again for one cause (`RewrittenForCause`), batches end (`BatchesEnd`). |
| `alerts_queue` | 167 184 | A monitor and a synchronisation with snapshots that grow old, an operator, a member who leaves, lost callbacks. Who is due to hear of an escalation hears of it (`EscalationTold`), an alert ends where its condition is (`AlertFollowsCondition`), neglect reaches the administrators (`NeglectReachesAdmin`). |
| `notifications` | 426 300 | Two workers, two readers with stale instances, an enqueuer and a maintenance window. A notice is delivered once (`DeliveredOnce`), a cancelled window stays so (`CancelledStays`), what is settled moves for one cause (`SettledForCause`), notices settle (`NotesSettle`). |

The exceptions that a property names ("unless", "for cause") are states the code
really reaches: section 5 lists them. Each is a history variable that only the
actions which are the cause set, so nothing else can excuse the property.

**Bounds.** Two workers suffice to overtake, to race for a claim and to report
late; a third would be overtaken like the second. Two attempts separate a
failure that is retried from the one that exhausts. One crash at any step, and
one requeue, give each order of "delivered, not recorded, done again".
`MaxOutlived` counts only leases and locks that expire under a live process;
abandoned ones always expire. Delivery counters stop at 2, "more than one", all
that their properties ask. `lead_delivery` has one attempt and one worker,
because all three channels are real in it: its repetitions come from the crash,
the lock timeout and the requeue. `handoff_workers` has one worker, so its lock
timeouts let nobody be overtaken. `alerts_queue` follows one kind of event for
its notices, "escalated" (`Tracked`), the one its properties speak of. In
`knowledge_actors` the constraint `SomeUnexcused` stops at states in which the
document is excused, of which the properties say nothing, and `OneTrouble` lets a
behaviour have one mishap, one clash or one index run (`MaxRuns`), each a cause
that the properties name by itself; a second ends the behaviour. In
`drive_builds`, `FewEdits` allows two edits where there is no mishap and one
where there is: one to show a text overtaken, a second to go on from a blank text
to one too long. `rag_pipelines` requests full reindexes, which pass through every
pipeline, and stops after an audit that failed (`EveryAudit`), which
`rag_requests` follows to the end with exports and their dry runs; an operation
that only indexes is in no run, and the proofs hold for every set of
`Operations`. What these bounds leave
open for safety, the theorems of section 6 close; three turns, for one, are too
few for the stale rewording that `ReadyIsTold` excuses. It needs five, and TLC
found it with five messages and five turns, after the proof had stopped at it.

**Fairness.** It is given to what the deployment repeats and to time, never to
visitors, operators, commands, crashes or the acquisition of a lock.

* `Outbox!Fairness`: time passes; a worker that runs goes on, because each
  external call has a timeout; somebody starts `process_outbox` again and again
  (docs/transactional_outbox.md asks the deployment for it). The claim of each
  event is strongly fair: claims take the earliest `available_at` first, so an
  event that is due again and again is chosen in the end.
* `RagOperations!Fairness`: the same for workers, which the systemd timer of
  deploy/ starts; strong for `PickPending`, since some starts may be
  `--recover-stale-only`; leases expire.
* `Monitoring!FairSpec`: the timer starts a batch again, a process that has begun
  goes on, leases expire.
* `OperationalAlerts!FairAlerts`: monitors and synchronisations look and write
  again and again, and a live process runs its callbacks.
* `Notifications!FairSpec`: the processor goes on and is started again, locks
  age; the claim of each notice is strongly fair (claims are ordered by
  `scheduled_at` and age).

**Stopping.** Deadlock is checked in every run but `conversation_turns`, where
the turns are bounded by `MaxTurns` and the system stops when they are used up.
`ChatIdempotency!Done` is the explicit end when every call has been answered;
elsewhere workers can always look for work again.

## 5. Where the code and its documents differ

No run is there to show a disagreement: the models do what the code does, the
properties hold of it, and where a document promises more, the property names the
exception. What was met while modelling and proving:

**Outbox, leads and handoffs**

* An exception after the turn was committed lets `fail_chat_request` turn
  `completed` into `failed` (`chat_idempotency.py:191`); the retry after the
  timeout commits a second turn with its outbox effects
  (`chat_processing.py:377-408`). docs/chat_idempotency.md:77 says retries do not.
  `NoTimeoutNoDuplicate` says that it takes the timeout.
* A failed request that has aged is taken back by a plain save
  (`chat_idempotency.py:151`), so two calls may both process it.
* An AI fallback adds observability to the reply that the stored payload lacks
  (`chat_processing.py:416`); the comment at :272 wants both identical.
* `persist_dialogue_memory` reads `qualification_data` without the lead's lock
  and saves it whole (`dialogue_memory.py:409`). The flag of a mail sent meanwhile
  is gone and the event's next attempt mails again, which
  `leads/test_lead_notification_dispatch.py:124` excludes: a slip of
  `MailRepeatsForCause`.
* A rejected lead is `failed` in `dispatch_status` and `qualified` in `status`
  (`handlers.py:156`), and both retries look at `status`, though
  docs/integrations/smart360_lead_dispatch.md:21 says that it can be reprocessed
  by hand. Likewise a temporary failure that exhausts the attempts leaves
  `dispatch_status` at `retrying` (`handlers.py:152`).
* Smart360 is posted to at every attempt (`handlers.py:137`), also for a lead
  already sent; docs/integrations/smart360_lead_dispatch.md:42 says it is not.
  Only the idempotency key protects the receiver.
* An event whose lock is outlived at every attempt is recovered without an
  attempt counted (`processor.py:136`) and never settled: the exception of
  `EventuallySettled`.
* The admin's requeue saves rows it selected earlier, whatever workers made of
  them (`integrations/admin.py:107-118`), though docs/transactional_outbox.md:49
  limits it to dead letters and retries: a cause in `OverlapNeedsCause`.
* The handoff's notification saves `sent` from the copy it loaded before SMTP over
  a handoff closed meanwhile (`handoff_notification.py:86-88`), though
  docs/operations_portal.md:128 calls closed states terminal: `reopened`.
* A handoff notified in dry-run keeps the key of a real one: if the deployment
  then turns real, a retry shows "delivered" and no mail has left. `settings` is
  fixed in an instance, so no run shows it.

**Conversation**

* A lead qualified by the consultative flow whose visitor then asks for a quote
  reads "já encaminhei seus dados" (`livia_decision.py:710-714`) although nothing
  was sent; see docs/integrations/smart360_lead_dispatch.md:136.
* After a deferral an explicit request reopens the collection, and
  `persist_dialogue_memory` of the same turn writes the pause back, against the
  comment at `consultative_policy.py:316`: the collection is then active and
  paused at once, which is why the properties ask for `CollectionOpen`.
* A turn that crosses a refusal may erase or repeat its pause from the memory it
  had read. The rewording of a reply writes back the `qualification_data` of its
  own turn and so can reopen, and make ready, a lead that a refusal had paused
  since, of which nobody is told: `reopened` in `ReadyIsTold`.
* "já tenho os dados essenciais" is answered while the need is missing; a name
  is cut ("Ana Souza" gives "za"); "ola" may fill a name asked for.

**RAG, documents, Drive**

* An operation refused a lock is a `TenantRagSyncError` like any other:
  `operations.py:655` marks the configuration failed and so releases the lock of
  whoever holds it. The manual reindex takes neither lock. Other exceptions leave
  the lock running until its timeout.
* A request recovered as stale is overwritten by its late worker
  (`operations.py:398`), and its successor may run at the same time. Requests never
  become pending again, so the limit of attempts is never met. Nothing recovers an
  abandoned `TenantRagIndexRun` (docs/google_drive_rag_inventory.md:202 says the
  timeout does).
* A request's result is committed before its audit event is inserted, in one `try`
  (`operations.py:637-651`): if the insert fails, the handler at 652 rewrites a
  request that had succeeded as failed. The second cause of `FinishedForCause`.
* A staged text that is blank is skipped with success (`sync.py:513`, asserted by
  `test_rag_inventory.py:956`), so an emptied file is answered from as it was
  before, and the build does not say so: the exception of `BuildServesExport`.
* "Alterado: reexporta" (docs/google_drive_rag_inventory.md:239) does not hold
  after `--inventory-only`, a failed export or a crash: the manifest already has
  the new modified time (`sync.py:331`). `ExportCatchesUp` names the cases.
* Two chunk builds that cross leave two texts of a file active, and later builds
  then fail by the unique constraint: `crossed` in `OneTextActive`. Two that insert
  the chunks of one fresh text break it at once, and `reindex_document` then marks
  a document failed, and withdraws it, that the other reindex has just indexed:
  `clashed` in `FailsForCause`.
* A reindex passes no run id, and `run_index_for_tenant` takes the configuration's
  last one (`indexing.py:349`), which `acquire_tenant_index_lock` saved there for
  an index run that has recorded it (`indexing.py:111`). Run ids are unique for a
  tenant (`unique_rag_index_run_per_tenant`, `models.py:431`), so once a tenant has
  been indexed by the command or by a request, every reindex of a document ends
  failed and withdraws its chunks, though docs/google_drive_rag_inventory.md:189
  has a record "por execucao" and docs/multi_site_tenant_rag.md:54 a reindex as the
  cure of `FAILED`. The tests of `reindex_document` run no index before it. `RunTaken`, and `clashed` in `FailsForCause`.
* A build of staged text, by a neighbour's reindex, the command or a Drive
  synchronisation, reactivates an older text of a document reindexed since; a
  status saved alone (the portal's toggle, the admin's archive) leaves chunks as
  they were, against docs/knowledge_base.md. Both excuse a document in
  `KnowledgeDocuments`.
* A failed export hides the version that was kept; `skipped_temporary` stays
  searchable; a failed document's chunks are reactivated by the next build; edits
  in the admin and the seed do not refresh `content_sha`; another document's
  chunking failure fails a healthy reindex; states count embeddings of inactive
  chunks; `enable_document` and `disable_document` are called by tests only.
* Retrieval, read but not modelled: a retry with a lower threshold can displace
  what had been selected; the gate on capabilities does nothing when the context
  is empty; when every sentence is incompatible the whole text is kept
  (`response_quality_gate.py`, `cleaned or text`).

**Monitoring, alerts, notifications**

* An exception inside a tenant leaves its RUNNING row and adds one of its own; a
  batch that closes after its lease had expired writes over the recovery
  (`RewrittenForCause`).
* Deduplication keys lack the run and the window: a second escalation to a level
  within one cycle is not told again, nor is a second window. Automatic
  escalation repeats up to level 3. SLA notices are sent during maintenance.
* `detected_at` and the deadlines stay when an alert reopens; `assign` does not
  ask whether the user is active; the IntegrityError path does not reopen a
  resolved alert.
* A reader's stale save takes a notice back to an old status (`overwritten`); a
  notice delivered with `read_at` is never READ, nor pruned. A cancelled window is
  revived by a look that read it before (the cause in `CancelledStays`); `ENDED` is never
  written. The branch of the retry is unreachable, and
  `cancel_pending_notifications_for_membership` has no caller.

**Onboarding** (not modelled): the recovery from an IntegrityError runs inside the
broken transaction (`onboarding.py:398`), and onboarding again resets
flags.

## 6. Proofs

Every safety property of every run is a theorem, for any number of events,
workers, calls, turns, documents, files and alerts and any value of the bounds. The
assumptions are the named ASSUMEs of the modules (types of the constants and
finiteness, which TLC evaluates in the runs) and the premises that a theorem
states. Each safety theorem is `Init => I`, `I /\ [Next]_vars => I'` and
`I => property`, with the type invariant in `I`; an action property is read off
the same `I`.

| Theorems | Invariant, and why it is needed |
|---|---|
| `OutboxProofs`: `TypeCorrect`, `BudgetHolds` | `RetryBudget` is inductive with the types: only `Finalize` counts, and it closes the event when the count reaches the limit. |
| `Fencing` (premise `UniqueIds`) | `Claimed`: a row that carries the id of a worker with the event in its batch carries it from that worker's own claim. The check `locked_by = worker_id` alone does not say whose claim it was. `Structure`: one handles events of one's batch only. |
| `ClaimsHold`, `OverlapNeedsCause` (premise `UniqueIds`) | `Kept`: the lock of an event that is not overdue has not expired, so recovery does not touch it. |
| `OutboxImplementsLedger` | `RetryBudget`, and `SelectedExist`: rows an admin selected exist. One case for each action: a step of the ledger or a stutter. |
| `ChatProofs`: `TypeCorrect`, `NoCrossing` | `RowsOwn`: the row, each call that processes it and each payload read from it have the row's fingerprint. |
| `ReplaysAreStored`, `AnswersStand` | a call that has not persisted has no message, and what a call read before deciding still stands: a turn is never undone and a wording only moves forward. |
| `TakeoversBounded`, `NoDuplicate` | `TimeoutSpent`: a stale row has an expiry not yet used; `OneGranted`: without an expiry at most one call is processing, has a turn, or is quoted by the row, a read or an answer. |
| `TurnsTypeCorrect`, `ContactHasCause`, `ReadyLeadsAreTold`, `RefusalsStand`, `RequestsStand` | see below. |
| `LeadProofs`, `HandoffProofs`: `RunsInOutbox` | none: step by step, so that all of `OutboxProofs` holds of leads and handoffs (`LeadBudget` is an instance). |
| `SuccessHolds`, `DeliveredHolds`, `SuccessTellsSomeone`, `DeliveredIsTrue` | `Evidence`: what a running handler knows of each channel (its answer, flag, key or log) is backed by what the receivers got, and the flags in the row, in copies and in memories are true. A success is the result of such knowledge. |
| `MailsRepeatForCause` (both), `PostsRepeatForCause` | `Traces`, `Keys`: until its lock is lost an event's handlers come one after the other, and each finds the log, flag or key that the one before has left. |
| `OneIsActive` | `SelectedExist`, and the property itself: inductive once `reopened` takes out what a stale save brought back. |
| `RagProofs`: `PipelinesExcluded`, `NewRequestsAlone` | `HoldersInside`: who holds a lock is inside, unexposed, and the lock is busy; everybody else inside is exposed. `OnlyCreated`: nothing but `CreateRequest` makes a request pending. |
| `ExecutedOnce`, `FinishedStands` | `Execution`: who executes a request alone executes it, and finds it running or recovered, not reported. `Finishing`: who retracts a result has reported it and could not audit it. |
| `SucceededAreWhole` | `Wholeness`: at each place of the execution, which pipelines the request has been through. |
| `DocumentsTypeCorrect`, `ArchivedStaysSilent`, `IndexIsCurrent`, `FailuresHaveCause` | `DocumentsInv`: for each place of an operation what it owns of the document (`OwnOf`) and what that says of the manifest (`ManifestOf`) and of the index (`IndexOf`); `Keeps` and `Carried` say which steps of others leave it alone; all of it is said of a system that is `Calm`, without a mishap or a clash, where it has to be. |
| `MonitoringProofs`: `MonitorTypeCorrect`, `BatchesExcluded`, `LockIsIdleByFailure` | `Alone`: who works on a batch holds the advisory lock; `Hands`: what a process holds is what its place in the program says. |
| `SuccessCoversTenants`, `RunsAreClosed`, `RewrittenForItsLease` | `Verdicts`: what a running batch's list of tenants says of their rows; `Runs`: a row that is running is the tenant's at hand or a failed one's; `Leases`: a batch taken from its owner's hands had its lease expire. |
| `AlertsTypeCorrect`, `EscalationsAreTold` | `Announced`: a raised level has been told, is about to be, or is lost; with the keys of the notices kept equal to `told`, so that a key deduplicates only what has been told. |
| `NotificationProofs`: `NotesTypeCorrect`, `Once`, `AllAreRecoverable`, `SettledStays`, `CancelledWindowStays` | `Straight`: a row is locked exactly while it is processed, and has not been sent before it settles; `Shapes` is the stronger typing. |
| `DriveProofs`: `DriveTypeCorrect`, `OneText`, `ServedUntilInactive` | `Sole`: the active texts that a build selected before it locked them are all there are, unless builds crossed. `Exported`: a build is at a file whose text it has, so what it deactivates it replaces. |
| `ExportsCatchUp`, `BuildsServe` | `Listing`, `Kept`, `Caught`: file by file, what the pass has listed, what a row's version stands for, and what a pass without a failure has brought in. `Undisturbed`: what a build that nothing crossed has rebuilt so far. `Uncut`: no chunks are of a blank text. |

**The turns** (`ChatProofs`, second part). `Generated` is a composition of some
ten stages; a stage lemma each says which of `Entry`, `Carries`, `FullKept`,
`Prompted` and `Worked` the stage keeps, and `Generating` what a whole turn does. The
invariant `TurnsInv` then speaks of the rows and of every copy that a crossing turn
holds. A refusal stands in one of two ways: by its pause, in which case each
memory and each held copy carries the pause, or in quiet, when nothing is open
and no copy could open anything. A request stands since no crossing turn can
pause it but by a refusal. A lead with all its data has been told of, or its
collection was reopened by a stale rewording. Proving `ReadyIsTold` without that
exception failed at `Reword`, and the failing goal was the counterexample of
section 4.

The parts of `DriveProofs`' invariant were run in TLC as invariants before they
were proved.

**Model-checked only**: liveness under fairness (`EventuallySettled`,
`RequestsSettle`, `BatchesEnd`, `NotesSettle`, `AlertFollowsCondition`,
`NeglectReachesAdmin`), which is beyond these provers. **Proved, and in no run of
their own**: the type invariants, `RetryBudget`, `ClaimKeptUntilTimeout`,
`NoOverlapWithoutCause`, `TakeoverNeedsTimeout`, `AnswersAreCommitted`,
`DeliveredWasTaken`, `DeliveredWasTold`, `NewRequestAlone`, `BatchesExclude`,
`RunLeftRunning`, `NoneIsStuck`.

## 7. What is not modelled

* AI replies, prompts, the ranking of the retrieval, the quality gates: they
  decide on texts. The models let a reply or a retrieval be any, where a later
  state depends on it.
* The spam guard and the rate limit: counters in the cache, planned.
* The portal's views and reports (`quality_metrics`, `operational_analytics`,
  `selectors`): read-only. Its actions that change rows modelled here are actions.
* Tenants, onboarding and rollout: configuration written by one operator at a time.
* The widget's retry loop in the browser; settings and their checks; scripts and
  deployment; `vendors.js` and other vendored code.
* Audit rows. The inserts whose failure changes other rows are modelled: a
  request's result (`Stumble`) and a reindex's (`FinishUnrecorded`).
* Of the outbox: the validation of payloads (`aggregate_not_found` and unknown
  events end as permanent failures, an outcome of `Finalize`) and
  `ConversationSummaryReadyHandler`.
* `handoff_state`, `resolved_at` and the lead's `handoff_status`: written with
  columns modelled and read by no code modelled here.
* The deletion of old `ChatRequest` rows (`chat_request_report
  --execute-cleanup`): it forgets answers older than its retention on purpose.
* The Django admin's change forms, which save a row whole as the page had shown
  it. Those of `HandoffRequest` (status, dispatch state and notification columns)
  and of `TenantRagConfiguration` (`last_inventory_status` and `last_index_status`,
  that is, its two locks) can put old values over what workers have written
  meanwhile, and so can the knowledge base's with a document. Of the admin site
  are modelled its actions and a form that sets what it shows (`MarkFailed`,
  `SetAlone`).
* Dry runs of the index in `KnowledgeDocuments`: they change no chunk or embedding,
  but record a run with its id like the others.
* Several tenants: rows and locks are the tenant's own, save the outbox, whose
  events are independent of each other.
* Settings that change while the system runs, and clocks that disagree.
