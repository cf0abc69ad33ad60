# Verification of the @log-company plugins

TLA+ models, TLC runs and TLAPS proofs for the server side of the logistics CRM in this repository. The CRM is an
installation of NocoBase; its own code is the set of plugins under `src/packages/plugins/@log-company/`, about
31 000 lines of TypeScript on the server. NocoBase itself (`src/packages/core`, the other plugins) is upstream code:
what the plugins rely on is part of the models that rely on it, and is not modelled for its own sake.

The models describe one Node.js process in front of one PostgreSQL database. Node runs one piece of code at a time
between two `await`s; what interleaves are requests, queue messages, cron jobs and database transactions at
READ COMMITTED. That is where these plugins are hard to test, and what the models are about.

## 1. Inventory

| Component | State | Operations | Hard behaviour | Correct when |
| --- | --- | --- | --- | --- |
| **Permit documents: numbers and pairs** (`plugin-permit-documents`: `AssignPermitDocumentNumber`, its repository and hooks, the numbering migration) | `internal_number`, `related_document_id`, `category` of the rows; the advisory lock | create with or without a partner, edit, delete, as transactions | concurrent creates, deletes and edits; some edits take no lock; a check and the write it protects are apart | numbers are least free and distinct but for pairs, links are mutual, what was checked holds at the commit |
| **Permit documents: registry synchronisation** (`SynchronizePermitDocument`, `CheckPermitDocumentStatus`, repository, validation hooks, HTTP middleware and controller) | registry fields and `sync_status` of the rows, the maps of active synchronisations and checks, queue messages, waiting requests | create, edit, delete, "check now", full synchronisation, status check, restart | registry answers arrive seconds after the row was read, beside edits that also work on a stale row; callers join a running synchronisation; saves fail half-way; crashes | registry data belong to the title beside them, no row drops out of the daily lists, callers are told what is stored, everybody is answered |
| **Permit documents: schedule, queue, workers** (scheduler, `SchedulePermitDocumentSync`, `RefreshPermitDocumentLifecycle`, NocoBase `event-queue.ts`) | the queue, its file, the workers, the daily limit | cron at 00:00, enqueue, consume with three workers, recovery at start, save and load of the queue | two lists read by two statements, a shared limit, messages lost in a crash | every row the registry has to answer for is asked about again, whatever is lost |
| **Permit documents: technical regulations** (`resolveTechnicalRegulation`, `replaceTechnicalRegulations`) | `technical_regulations`, links, one advisory lock per regulation | find, merge or create a regulation; replace the links of a document | two transactions take the same locks in different orders | one row per regulation and FSA id, no deadlock that loses data |
| **Permit documents: registry clients** (`FsaPermitRegistryClient`, `Eaeu…`, `Swis…`, `FsaAuthTokenProvider`, `CompositePermitRegistryGateway`) | the cached FSA token and the login in progress | search, fetch a card, log in | single flight of the login against forced refreshes | a token that was refused is not used again |
| **Permit documents: `RequestPermitDocumentSync`** | — | mark PENDING and enqueue | — | nothing calls it: no route, no hook |
| **Permit documents: schema and metadata** (collections, migrations) | tables, constraints, interface models | installation | sequential | constraints used by the models are created |
| **Chats: membership and messages** (`plugin-chats`) | chats, members with roles and read positions, messages | create direct and group chats, add, remove, leave, send, delete, mark as read, user deletion | row locks of chats, members and messages taken in different orders; limits under concurrency; unread counters | use cases act as if alone, a direct chat exists once, nothing unseen is read, limits hold |
| **Chats: attachments** | rows and objects in the store, temporary and final | upload: store, insert, promote, commit, clean up; download | objects live outside the transaction; files take long while chat and members change; compensation may fail | an attachment has its object, an object its row, a message a sender who may post |
| **Collection search: index** (`plugin-collection-search`) | a state row (building, ready, failed; signature of the schema), documents, and in memory the indexes in use, the known ones and the running rebuilds | rebuild at a search, hooks of creates, updates and deletes, dependent records, load at start | rebuilds outside a transaction beside writes in transactions that may wait for them; the last writer of a document may have seen less | a ready index has the current document of every record, and every rebuild ends |
| **Collection search: queries and access control** | — | one SQL query under the access control of NocoBase | — | — |
| **Process documents** (`plugin-process-documents`) | file rows, folders, objects, drafts | upload, delete, folder create, update, delete, attach drafts, delete with the shipment | storage beside the transaction; the folder tree checked outside it | rows and objects agree, folders form a tree |
| **Process governance: history, relations, groups** (`plugin-process-governance`) | shipments, history, statuses, relations | hooks before and after writes, deletion of a group of shipments | snapshots, relation changes from both sides | one entry per change, no partial deletion |
| **Process governance: metadata, pages, migrations** | interface models | installation | sequential | — |
| **Organization structure: department moves** (`plugin-organization-structure`) | the department tree | validate a move, then update | the walk up the tree and the update are not one transaction | no cycle |
| **Table personalization** (`plugin-table-personalization`) | settings and filter templates with revisions | save, rename, apply, delete | revisions compared under a lock | no lost update |
| **Process discussion** (`plugin-process-discussion`) | comments, pending attachments | post, discard | single rows | — |
| **File storage** (`plugin-file-storage`) | — | MinIO adapter | pure I/O | — |
| **Clients** | pages | React | no state that outlives a page | — |
| **NocoBase core** | — | repository, hooks, queue | upstream | — |

How they interact: every plugin works through NocoBase collections, so a NocoBase create, update or delete runs the
plugin's hooks inside its own transaction (`beforeValidate`, `afterUpdate`, `beforeBulkDestroy`, …).
The two permit-document components share the rows of `permit_documents`: numbering owns `internal_number` and
`related_document_id`, synchronisation owns the registry fields, and both look at `category`. Process documents and
chats share the object store; process governance calls process documents when shipments are deleted. The search index
follows the writes of every indexed collection.

`PROJECT.json` lists the hazards of the code at the lines where they bite, with the properties that cover them.

## 2. What is modelled now

### `PermitRegister`, `PermitNumbering` — numbers and pairs

| Model | Code |
| --- | --- |
| `live`, `number`, `related`, `category` | the *committed* rows of `permit_documents`: ids, `internal_number`, `related_document_id`, `category` |
| `lock` | `pg_advisory_xact_lock(hashtext('log-company.permit-document-numbers'))` |
| `tx[t].pc` | where the transaction of a request stands: `waiting` for the lock, `loaded` (an edit without the lock), `locked`, `assigned` (a create with its number), `checked` (an edit whose hook has compared number and link) |
| `BeginCreate`, `BeginEdit`, `BeginDelete` | the request up to the lock, with the category hook that runs before it |
| `AcquireLock` | the lock is granted; it is kept to the end of the transaction |
| `AssignNumber` | `AssignPermitDocumentNumber.execute` after the lock |
| `CommitCreate` | `INSERT`, `completePair`, `COMMIT` |
| `CheckEdit`, `CommitEdit` | the numbering hook on a saved row; `UPDATE`, `COMMIT`, the check constraint |
| `CommitDelete` | `DELETE` of one or several rows with `ON DELETE SET NULL`, `COMMIT` |
| `Rollback` | any refusal, a violated constraint, a lost connection, a crash |

What a transaction writes is seen by the others when it commits, so its writes are one action. Only creation,
deletion and saves as `voluntary` take the lock; the other edits run beside everything, and the model lets them. The
number is computed as the SQL of `nextFreeNumber` does: the least unused one among 1 and the successors of the used
numbers; that this is the least unused number at all is not assumed, it is proved (`NextFreeIsLeastUnused`).
`rented` behaves as `ordinary` here. The columns of a deleted row return to their initial values, which merges states
that no transaction can tell apart. Numbers need no bound: the least free number never exceeds the number of documents.

`PermitRegister` is what users are promised, without requests, transactions or the lock: a clerk with one book. Its entries are
the committed rows (`RegisterNow` in the proofs: number, partner, whether voluntary). A document of its own is entered with the
least positive number nobody has (`Enter`); one that names a partner gets the partner's number, and both rows change at once
(`EnterBeside`); the category is amended while there is no partner (`Amend`); documents are struck out together, and who loses a
partner keeps the number (`Strike`). `KeepsTheRegister` says that `PermitNumbering` implements it: a commit is an entry that is
right *when it is written*, although its number and its partner were looked up earlier and edits were loaded without the lock. It
includes what `CreateTakesLeastFree` says, and that no edit moves a number or a link and no create writes to a third row.

### `RegistryMirror`, `PermitSync` — registry synchronisation

| Model | Code |
| --- | --- |
| `row[d].title` | `title` with `document_type`: what the code compares as the identity |
| `row[d].ext`, `.status`, `.regs` | `external_id` with the fields of the card that are written with it; `status` with `external_status`; the linked technical regulations |
| `full`, `check` | `SynchronizePermitDocument.activeSynchronizations`, `CheckPermitDocumentStatus.activeChecks`, with what each job read of the row |
| `due` | documents with a `STATUS_ONLY` message in the queue |
| `req` | HTTP requests: `before` (the middleware has read the identity), `loaded` (`Repository.update` has found the row, the hooks work on it), `saved`, `waiting` for a synchronisation, `told` its result |
| `Create`, `BeginEdit`, `LoadForEdit`, `SaveEdit`, `AfterEdit`, `CheckNow`, `Respond`, `Delete` | the requests, from the middleware through the hooks to the answer |
| `StartFull`, `ReadFull`, `AnswerFull`, `SaveFound`, `SaveAbsent`, `SaveLost`, `SaveFailed`, `SaveFullFails` | `SynchronizePermitDocument`: read, ask, store under `lockIdentity`, and each way of failing |
| `ListCheck`, `StartCheck`, `AnswerCheck`, `SaveCheck`, `SaveCheckFailed`, `SaveCheckFails` | the daily list, the queue and `CheckPermitDocumentStatus` |
| `Crash` | the process stops: jobs and requests are lost, the queue is lost or (graceful stop) saved |

Registry data are represented by *the title of the registry record they come from*, so "the status of another
document" is a value the model can hold. The registry's answers are arbitrary: found, absent or failed, a card of
another title being refused as `validateIdentity` does. `Written` is the heart of the edit: Sequelize writes the columns whose
new value differs from the value *loaded*, into a row that may have changed since.

`torn` is a history variable, no state of the program: the rows in which an edit that meant to reset the registry
fields left some of them, because a synchronisation committed between its load and its `UPDATE`. That is the divergence
`EditClearsRegistryData` below. The properties speak of the rows that are not torn; without the
variable, one known defect would hide everything else the model can say. A row is no longer torn when a full synchronisation
stores an answer, when a later edit resets everything, or when it is deleted.

Abstractions, each with its reason:

- `StartFull` may start at any time on any row. The daily full list, its limit and the recovery at start only
  restrict when; everything that holds here holds with them. `PermitSchedule` models them.
- The daily refresh of `rental_status` and of the status of voluntary documents changes no column the model keeps
  apart, and is a stutter.
- Forms of ordinary and rented documents have no field for regulations, so such edits keep the links or, when they reset,
  delete them; voluntary rows keep theirs or take the form's.
- A new document takes an identifier no job, message or request mentions: identifiers are never reused. In an
  instance with one document `Create` therefore waits until the last request on its predecessor has ended.
- A record that is absent when asked for by external id is `SaveLost`; by title, `SaveAbsent`.

`RegistryMirror` is the abstract specification: one page per document, without jobs, requests or snapshots. `Enter`, `Edit` and
`Remove` are what users do; `Found`, `Absent` and `Failed` are what a reader may see of the registry, each one step for the title
that stands in the page at that moment. A page of the user's own data hears nothing of the registry; that there is no record is said only
where none was known; nothing makes a page `PENDING` again but an edit. `PermitSync` implements it (`MirrorsRegistry`), where the mapping
(`PageOf`) shows of a row its title, its sync status and whether its data are the user's, none or those of the title; torn rows
are a page of their own kind, which `Edit` may leave and a full synchronisation that stores what it found repairs.

### `PermitSchedule` — the daily run, the queue and the workers

| Model | Code |
| --- | --- |
| `row[d].sync`, `.ext`, `.ended` | `sync_status`, whether `external_id` is set, whether `status` is `terminated`; `NOT_REQUIRED` also stands for a deleted document |
| `asked` | the order of `last_checked_at`, nulls left out, with the running synchronisations at the place of the time they began |
| `queue`, `file` | the messages of the channel in `MemoryEventQueueAdapter.queues`; `event-queue.json` |
| `job[s]` | what a worker or a request is synchronising, or whose synchronisation it has joined (`activeSynchronizations`, `activeChecks`) |
| `DailyFull`, `DailyEnqueue`, `DailyFails` | `enqueueDailyDue`: the first list, then the second list and all messages |
| `Take` | a worker takes a message (`read`, `process`) |
| `CheckNow`, `Submit` | HTTP requests that synchronise at once; a submit clears the row and its time |
| `Save`, `Discard` | the answer is stored under `lockIdentity`, or dropped because the row has changed or the database fails |
| `Stop`, `Close`, `Crash`, `Start`, `Recover` | `beforeStop`, the database and the queue closed; a crash; the file read and removed; `recoverPending` |

Abstractions. The row is read when the synchronisation begins (in the code one statement later; an edit in between leads to
the same choices). Which `PENDING` rows `recoverPending` queues first (by `updatedAt`) is left open. Nothing comes between
the second list and the last message, because `publish` is synchronous. `MaxQueue` bounds the queue only where a daily run
starts. The lists are sorted and filtered by operators of the module's own (`InOrder`, `Only`), because those of the community
modules rest on definitions the prover cannot open. The closing queue does not wait for workers: `processing` (event-queue.ts:79-87) hands `Promise.all` arrays of
promises, which it takes as fulfilled. A restart inside the process never closes the queue, which for the channel is the same
as `Crash`.

### `SearchIndex` — the search index of a collection

| Model | Code |
| --- | --- |
| `own`, `title` | the committed records of one collection, and the title of the related record that all of them show |
| `docs`, `status` | `lc_collection_search_documents`, `lc_collection_search_states`; `outdated` is `ready` with another signature than the current schema's |
| `enabled`, `registered`, `build` | `indexedCollections`, `registrations`, `synchronization` and how far `synchronize` has come |
| `tx[t]` | a writing transaction: its uncommitted rows, the documents its hooks wrote, and where its hook stands; `waiting` is `waitForSynchronization` |
| `Search`, `Verified`, `NotVerified` | `ensureSynchronized`, and `synchronize` when the index is ready already or the state row cannot be read or written |
| `BeginDelete`, `DeleteDocuments`, `ReadRecord`, `InsertDocument`, `BuildReady`, `BuildFails` | the rebuild, statement by statement, each committed on its own |
| `SourceHook`, `LoadRecord`, `StoreDocument`, `HooksDone` | `upsertSourceModel` and `removeSourceModel` inside the writing transaction |
| `CollectDependents`, then the same | `collectDependentSourceRecords`, `refreshDependentSourceRecords` |
| `SchemaChanges`, `Restart` | another `schemaSignature`; the process stops and `loadReadyStates` runs |

`BeginDelete` and `DeleteDocuments` are one SQL statement, in two steps because it may wait: it deletes what was
committed when it began, once nobody holds a lock on it. Locks are the rows a transaction has written.

`missed` is a history variable: the records written by transactions whose hook found the index not in use. A rebuild that
reads such a record afterwards takes it off the set; one that read it before the commit is the divergence
`EveryChangeIndexed`, and `IndexUpToDate` says that nothing *else* is ever missed.

Abstractions:

- A chunk is one record instead of 500. Pages are read by separate statements (the core's `cursor-builder.ts` pages by
  key, it opens no cursor), so each sees what is committed by then.
- A record and the titles it shows are read in one step. They are two statements, but only one transaction writes
  in the runs with a related record that pass.
- All records refer to the one related record, which is renamed and not deleted. Bulk operations, many-to-many tables and
  several data sources are left out; so is a schema that changes back to an earlier signature.
- Documents of deleted records may stay behind; no property speaks of them, because the search joins them with the records.
- `Restart` merges stop and start: the listeners of `afterStart` run before the first request.
- Who waits for a rebuild executes no statement, so that neither PostgreSQL nor an error can end its wait.
- Plain SQL, which runs no hooks, is left out. The registry synchronisation writes `permit_documents` that
  way, so a document it has updated is found by its old data until it is written again; `PROJECT.json` lists the hazard.

### `ChatRows`, `ChatsAtomic`, `Chats` — chats, members and messages

`ChatRows` has the committed rows and what each use case writes. `ChatsAtomic` is the specification: each use case checks and
writes in one step. `Chats` takes the same use cases apart into the statements of their transactions, and implements it: `Atomic ==
INSTANCE ChatsAtomic WITH …`, property `WorksAtomically`.

| Model | Code |
| --- | --- |
| `chat`, `member`, `message`, `users` | `chats`, the roles and `left_at` of `chat_members`, `chat_messages`, `users` |
| `read[c][u]` | the messages at or before `last_read_at` |
| `tx[t].pc` | the next statement: the lock of the chat (`findById` with a transaction), of the membership, of a message, of further memberships; the inserts; the commit |
| `LockChat`, `LockMember` | `ChatAccessService.requireActiveMember`, `requireManager`, `requireAvailableSender` |
| `LockReply`, `LockDeleted`, `LockRows` | `findById` of a message, `findActive`, `listByChat`, all `for update` |
| `Write`, `InsertDirect`, `FindDirect` | the inserts with their foreign keys; `on conflict (direct_key) do nothing` |
| `Commit…` | the writes of each use case and its `COMMIT` |
| `EndMemberships`, `AnonymizeMessages`, `AnonymizeChats`, `DeleteRow`, `CommitDeletedUser` | `HandleDeletedUser`, the `DELETE` of the user, `ON DELETE SET NULL` |
| `Rollback` | a refusal, a violated constraint, a deadlock broken by PostgreSQL, a crash |

Abstractions. A request that would be refused at its first lock need not be started, since it reads nothing before.
Statements that lock several rows take them together. The role `admin` exists in the schema and the policy but no use case gives
it, so it is left out. The system messages of one addition are one message. Titles, texts and attachments are left out:
`ChatAttachments` has the upload. `ghosts` is a history variable for the divergence below.

### `ChatAttachments` — messages with files

| Model | Code |
| --- | --- |
| `users`, `live`, `active`, `message`, `attached` | committed rows: users, chats with `deleted_at` null, members with `left_at` null, messages, `chat_message_attachments` |
| `stored` | the objects below `chats/tmp/…` and `chats/<chat>/…`, by message and file |
| `upload[m]` | `UploadChatAttachments.execute` for the message `m`: its place, its files, and the arrays `temporaryKeys` and `finalKeys` |
| `Begin`, `StoreTemporary`, `CheckSender`, `Promote`, `Commit`, `DeleteObject` | the use case in its order: the check without a lock, the objects, the transaction with its locks and inserts, the copies inside it, the `COMMIT`, `deleteObjects` |
| `Refuse`, `StoreFails`, `PromoteFails`, `CommitUnanswered`, `Crash` | every way into the catch, and the one past it |
| `Leave`, `Join`, `Deactivate`, `DeleteMessage`, `DeleteChat` | the other use cases as one step each, waiting for the locks of an upload |

The promotion runs inside the transaction, so that the chat is locked for as long as the storage copies; what others may do
meanwhile, and before the transaction, is the point of the model. A storage call that reports an error may have been carried out.
`left` is a history variable, the objects a failed deletion, a failed call or a restart has left behind; `unsure` another,
the messages whose `COMMIT` was done and reported as failed. The catch of the code deletes the objects of such
a message although it is posted, and `AttachmentHasObject` speaks of the others. Nothing ever deletes
the final objects of a deleted message or chat: they keep their rows, which is the reason `NoStrayObject` gives them.
Abstractions: roles are left out, so that more members may leave or be added than the code lets; the temporary files of the HTTP
parser and the bucket of an earlier version are left out. A download writes nothing and needs no action.

### `ProcessDocuments` — documents and folders of shipments

| Model | Code |
| --- | --- |
| `shipments`, `folder`, `doc` | committed rows: shipments, folders and documents with their scope (`shipment_id` or else `draft_token`; `Nowhere` is a folder with neither), parent and folder |
| `stored` | the object of a document, by the scope in its storage key |
| `request[r]` | a request: its scope, what its transaction has written, the objects it has stored or will delete |
| `InsertFolder`, `StoreObject`, `InsertDocument`, `CommitInserted` | `CreateProcessDocumentFolder`, `UploadProcessDocuments` |
| `RollsBack`, `StoreFails`, `CleanObject` | the compensation of an upload, and what deletions do after their commit |
| `DeleteFile`, `CollectChildren`, `ListDocuments`, `DeleteDocuments`, `DeleteFolders`, `CommitDeletedFolder` | `DeleteProcessDocument`, `DeleteProcessDocumentFolder` |
| `AttachFolders`, `AttachDocuments`, `CommitSaved` | `attachDraftToShipment` in the transaction that creates the shipment |
| `BeginDestroy`, `ListKeys`, `CommitDestroyed` | `DELETE` of a shipment with its cascade; `DeleteProcessDocumentsForProcess` |
| `BeginUpdate` | `process_document_folders:update`: the row is loaded and set to another parent, another shipment or another draft, or to none |
| `CheckUpdate` | `beforeSave` with `ValidateDocumentFolderPlacement`: the scope and the parent of the model that is saved (`CheckedScope`, `CheckedParent`), then the chain of its parents (`MayBelong`) |
| `CommitUpdate` | the `UPDATE` of the columns that were changed (`Updates`), which waits for row locks and obeys the foreign key (`CanUpdate`) |
| `Crash` | the process stops: PostgreSQL rolls back, objects stay |

`left` is a history variable: objects that a failed call or a restart has left behind. `used` keeps identifiers from being given
twice. An update of a folder may change everything its hook admits. The hook walks up from the parent and never looks at what is inside the
folder, so that an update which gives a folder another shipment leaves its documents and subfolders where they were; nothing the
project states says otherwise. What does hold beside such updates is `SaveTakesItsDraft`: a save finds the folders and documents of its
draft with two statements and attaches them at its commit, and no other save or update may have taken one of them elsewhere in between, because
it holds the locks of their rows by then.

Abstractions: an upload brings at most one folder of its own; who may use a draft
(`assertDraftOwner`) and names are left out; a `COMMIT` whose answer is lost, after which the compensation deletes objects of
committed rows, is left out as well. So are writes that go past the use cases through the collections of NocoBase: folder rows created
or deleted directly, and updates of *document* rows. The last would matter, since a document whose `shipment_id` is changed in that way keeps its key,
and the deletion of its old shipment would then take its object (`RowHasObject` is about documents no one updates so). The hook of a deleted shipment runs after the cascade has taken its rows, so that it
finds no documents and deletes the objects below `shipments/<id>/` only: objects of drafts that were attached keep their
draft key and are never deleted (`NoStrayUnderShipment` speaks of the others).

### Findings

Two runs expect a violation: each checks a statement of the documentation that the code does not keep.

1. `EveryBuildEnds` (`build_waits_for_writer`), with two writes in one transaction: *a change of the signature makes the index rebuild
   safely*. The transaction has written one record and its document. A rebuild begins and its `DELETE` waits for that document; the
   hook of the second write waits for the rebuild. PostgreSQL sees one waiter and no cycle, and there is no timeout:
   every search and every write of the collection hangs until the server is restarted.
2. `TreeSound` (`docs_tree`): *folder, file and parent belong to one shipment or one draft, and cycles are forbidden*. An upload that
   commits between the two statements that attach a draft leaves its document in the shipment and its folder in the draft. The
   run has no updates of folders, so that this is the only way it can find beside an upload into a folder that is being deleted. With
   `Updated = {f1, f2}` the same property fails in two more ways: one update that gives a folder another shipment or draft leaves its
   documents and subfolders behind, and two updates checked before either is written make a cycle, on which `calculateFolderDepth` never ends.

Six more divergences have no run of their own. The modules state them, and the instance named here shows each:

- `EditClearsRegistryData` (instance `PermitSync.cfg` without `SYMMETRY`): *when the title changes the old registry fields are cleared*
  (PERMIT_DOCUMENTS_PLUGIN.md:166-167). The edit loads a PENDING row with empty registry fields; a synchronisation stores
  its data; the `UPDATE` writes the new title but not the fields it believes to be null already. The row ends up
  with the new title and the old external id, and every later synchronisation asks for the old card and refuses it. This is
  what `torn` marks.
- `SubmitEndsSettled` (the same instance): *a submit answers with the final registry data* (:166-168). A submit that changes the title while
  the old title is being synchronised joins that synchronisation, which ends STALE; the answer shows the row PENDING.
- `EveryChangeIndexed` (one record, two values, one title, one transaction of one write): *the subscriber updates the document after
  every change* (COLLECTION_SEARCH_PLUGIN.md:71-72). The hook finds the index not in use; the first rebuild reads the record as it
  was; the transaction commits. The index is ready with the old document. This is what `missed` marks.
- `IndexUpToDate` with one record, two titles and two transactions of one write: *affected records are read again* (:72-74). One transaction
  changes the record, the other the title it shows. Each makes the whole document from what it sees; the second upsert waits for the
  first commit and then replaces it.
- `DeletedUserHasLeft` (two users, one chat, one message, two transactions, `MaxMembers = 2`, `MaxDeletions = 1`). `deactivateUser` finds its
  rows when it starts; a membership committed after that is reached by the foreign key only, and keeps `left_at` null with a
  null user.
- `ObjectsGoWithShipment` (instance `ProcessDocuments.cfg`): `DeleteProcessDocumentsForProcess.test.ts:62-90` expects objects with a draft key
  to be deleted with the shipment their documents were attached to. The use case would do it if it found the documents; but its hook
  runs after the cascade has deleted their rows, so that it finds none and lists the prefix of the shipment only. A document uploaded
  to a draft, saved and deleted with its shipment leaves its object behind for ever. The test passes because its list of documents is a stub.

## 3. Runs

| Run | Instance | Question |
| --- | --- | --- |
| `numbering` | 3 documents, 2 requests, 380 243 states | Do the rows change as the register of one clerk does (`KeepsTheRegister`), are numbers and pairs consistent, does what was established under the lock hold until the commit, and does every request end? |
| `permit_sync` | 1 document, 2 titles, 2 requests, 2 102 585 states | Do registry data fit the title, does no row drop out of the daily lists, are callers told what is stored? |
| `permit_sync_categories` | 1 document, 2 titles, 3 categories, 1 request, no symmetry, 439 728 states | Across changes of the category, does a reader see only what `RegistryMirror` allows (so that `RegistryDataFit` need not be asked again); is everybody who waits for a synchronisation answered? |
| `permit_schedule` | 2 documents, limit 1, 1 worker, 1 request, 1 fault, 134 181 states | Is every row that needs the registry asked about again, whatever is lost and whoever fills the limit, and is what one search has found kept from another? |
| `search_index` | 2 records, 1 value, 2 transactions of one write, no symmetry, 140 832 states | Is a ready index up to date and in use, whatever rebuilds, failures and restarts overlap, and does every rebuild end? |
| `search_index_related` | 2 records, 2 values and titles, 1 transaction of two writes, 951 540 states | The same for records that show a related record. |
| `build_waits_for_writer` | 1 record, 1 transaction of two writes | Finding 1. |
| `chats_group` | 4 users, 2 of them active, limit 3, 1 chat, 2 messages, 2 requests, 237 871 states | Do the use cases act as atomic ones, does the limit hold, is nothing unseen read, who can be in a deadlock? |
| `chats_direct` | 2 users, 1 of them may be deleted, 2 chats, 1 message, 2 requests, 606 445 states | Has a pair one direct chat, and are the use cases atomic beside the deletion of a user? |
| `chat_attachments` | 2 users, a group and a direct chat, 2 uploads of up to 2 files, 1 fault, 1 046 060 states | Has every attachment its object, every object its reason, every message a sender who may post? |
| `process_documents` | 2 shipments, 1 draft, 1 folder that is updated, 2 documents, 2 requests, 1 fault, 1 803 585 states | Can everything that is listed be downloaded, is no object left without a reason, and does a save take only what is in its draft? |
| `docs_tree` | 1 shipment, 1 draft, 2 folders that are not updated, 2 documents, 2 requests, 1 fault | Finding 2. |

Why the bounds are enough. *Numbering*: a pair and a third document are needed for "no third document joins a pair";
two requests meet in every pair of steps, a third could only wait for the same lock. *Synchronisation*: jobs, rows
and requests of different documents touch each other only in the unique indexes, and a refusal there is one of the
failures that `SaveFullFails` and `Respond` allow at any time, so one document shows everything the properties say of
a document. Two titles are an old and a new one. Two requests are the one that edits and the one that joins
or edits in between, beside a full synchronisation, a status check, `Delete` and `Crash`. *Search index*: two transactions
are who wrote before a rebuild and who writes beside it; two records are one before and one behind the cursor. In
`search_index` a value and no record at all are the old and the new state, in `search_index_related` two values are (both are
proved for any number). `MaxWrites` bounds the rows of a transaction: one is enough for what a hook does, two let one hook
wait while the transaction holds the document of another. *Schedule*: with two documents and a limit of one, each can keep the
other out of the list (`FoundIsKept` needs one document: a worker and a request search for it at once); one worker and one request are who synchronises and who joins or changes the row; one fault is a lost queue, or a
daily run or a save that fails, at any place. *Chats*: two requests meet in every pair of statements; four users are needed to exceed a limit of three,
two chats for two direct chats of one pair. *Attachments*: two uploads meet in one chat and in
two; two files are one that is done and one that fails; one fault stands at every place. *Process documents*: two requests meet in every pair of statements; two shipments
are two saves of one draft, or a folder given from one to the other; two documents are one that is stored and one that fails. `Updated` names the folders
that are updated. One folder is the one all compete for. Folders in folders are in `docs_tree`; beside
the runs, the properties of `process_documents` were also checked with two folders of which one is updated, one shipment and one document (1 784 277
states), and with two folders, two documents and no updates (807 605 states). The proofs have none of these bounds.

Symmetry is used in the runs without liveness properties: the members of the sets a configuration permutes are interchangeable (in
`Chats` the active users and the others apart; `PermitSchedule`, which orders documents, uses none). `CHECK_DEADLOCK FALSE` stands in the
configurations of `PermitSync`, `Chats`, `ChatAttachments` and `ProcessDocuments` only because the system may rest: when all identifiers of an instance are used
and no request is open there may be nothing to do.

Fairness. `numbering`: a transaction that can go on or must fail does so (`WF` of `Progress`), and a waiter for the
advisory lock is not overtaken for ever (`SF` of `AcquireLock`), since PostgreSQL queues waiters. `permit_sync_categories`:
weak fairness of the steps of a running synchronisation, because registry requests have a timeout and bounded retries
and the database answers or refuses. `search_index`: weak fairness of the steps of a rebuild and of the hooks, and of the end of a
transaction; strong fairness of `DeleteDocuments` and `InsertDocument`, the two statements of a rebuild that wait for
row locks, since PostgreSQL queues waiters. Hooks that wait for each other's rows in a cycle are ended by its deadlock
detection, which is `Rollback`. `permit_schedule`: midnight comes again and again (`DailyFull`, `DailyEnqueue`), workers take messages, a
registry request ends because it has a timeout, and a server that is down is started again. `EveryStatusIsChecked` assumes in its
hypothesis that `PENDING` and `ERROR` rows do not fill the limit for ever, because the code gives those precedence. Nothing is assumed of users.

Every property of a passing run has a mutant, a plausible bug in a mapped definition written next to it as a "(fault)"
definition; with it TLC finds the property violated.

## 4. Proofs

TLAPS checks `PermitNumbering_proofs`, `PermitSync_proofs`, `SearchIndex_proofs`, `Chats_proofs`, `ChatAttachments_proofs`,
`ProcessDocuments_proofs` and `PermitSchedule_proofs` for arbitrary sets of documents, requests, workers, titles, categories, records, values, transactions, chats, messages,
files, shipments, drafts and folders, any finite set of users and, in `PermitSchedule`, any finite set of numbered documents and any limit. The assumptions are that the null
values lie outside these sets (`NoDocAssumption`, `NoTxAssumption`, `NullAssumption`, `NoneAssumption`, `NowhereAssumption`), that what is updated is a folder (`UpdatedAssumption`), that a transaction may write at least one row
(`MaxWritesAssumption`), that users are finitely many (`UsersAssumption`, for the limit of participants), that direct chats are chats (`DirectAssumption`), that no draft is a
shipment (`ScopesAssumption`: the two have tables of their own), that identifiers of documents are natural numbers and no workers or
requests (`DocsAssumption`, `SlotsAssumption`), that the limit is positive (`LimitAssumption`), as `MAXIMUM_SCHEDULED_DOCUMENTS` is, and that the bounds on requests and failures
are numbers (`MaxFaultsAssumption`, `BoundsAssumption`).

**`PermitNumbering`.** The inductive invariant adds two things to the properties. `RowsInv`: pairs are mutual, numbers are shared
only by pairs, voluntary documents have no partner. `TxInv`: who is past the lock holds it, so at most one transaction is; what it
was assigned is still right; and no transaction without the lock carries anything that a commit could use against the holder. The
second part is why the theorem is not obvious: edits write rows without the lock, and the proof shows that nothing they
may write touches what the holder has checked. The rows are preserved action by action (`CreateRows`, `EditRows`,
`DeleteRows`), the transactions by `BeginTx`, `AcquireTx`, …. Theorems: `TypeCorrect`, `PairsAlwaysMutual`,
`NumbersAlwaysDistinct`, `VoluntaryNeverPaired`, `AssignmentsStable`, `VoluntarySavesStillAllowed`, `CreatesTakeLeastFree`.

The refinement `RegisterKept` (`Spec => KeepsTheRegister`) goes commit by commit: `CreateRegistered`, `EditRegistered` and
`DeleteRegistered` map the three commits to an entry, an amendment or nothing, and a strike; every other step leaves the rows
alone. A create uses `AssignmentStillHolds` for its number or its partner, a deletion `PairsMutual` for who loses a partner. An
edit needs one fact more, that it is about one document (`OneEdited`, inductive by itself). That the number is the least of all
unused ones is arithmetic: below it, the least unused number would be 1 or follow a used one, and so be a candidate itself
(`NextFreeIsLeastUnused`, by the well-foundedness of the natural numbers).

**`PermitSync`.** `IInv == TypeOK /\ RowsInv /\ JobsInv`. `RowsInv` says of every row what the check constraint on the
category guarantees, torn or not, and of every other row all that `RegistryDataFit` and `NoRowIsForgotten` say: the two need each
other, since an edit that keeps the title relies on the status being empty in a PENDING row. `JobsInv` says that the card a job
carries is the card of the title it has read: with `lockIdentity` this gives the title of the row it writes. Theorems: `TypeCorrect`,
`RegistryDataAlwaysFit`, `NoRowForgotten` and, as an action property from the same invariant, `ToldAlwaysStored`. The refinement
`RegistryMirrored` needs one thing more (`AbsenceInv`): while a job that asks without an external id is running, its row has none,
because an edit only drops it and only the `SaveFound` of that one job gives one; without it `SaveAbsent` could delete a card. Every
step on a document changes one page (`OnePage`), which `PageOfRow` and `NextPageOfRow` compute from the row before and after.
`NobodyWaitsInVain` is the safety part of `EveryCallerAnswered`: who waits is on the list of a synchronisation or a check that runs, because the
end of one answers everybody on its list (`FinishLeavesNobody`) and a new caller finds the entry it joins (`ExecuteFindsJob`).

**`SearchIndex`.** `ReadyInv` (a state row becomes ready only at the end of a rebuild, which knows the index) gives
`ReadyAlwaysKept`, for records with and without related ones. `IndexAlwaysUpToDate` is proved for records without related
ones and any number of transactions, and for records with related ones and one transaction at a time; two are a counterexample (section 2). Its invariant
`IInv == TypeInv /\ ReadyInv /\ TxInv /\ IndexInv` says where every uncommitted write is: in hand of a hook, waiting in its list of dependent records, skipped, or in the
document the transaction wrote. A document fits when it is made of what *its* transaction sees, its own writes over the committed ones (`SeenOf`, `TitleOf`); with one
transaction nobody changes the committed part before it ends (`TxInv`, kept by each step of a hook: `CheckedFits`, `WriteFits`, `RetitleFits`, `CollectFits`, `LoadFits`, `StoreFits`);
and that a rebuild is fresh behind its cursor up to the record it holds (`IndexInv`). A commit during the rebuild then either
brings the document with it or is `missed` (`IndexCommit`); and an insertion that could overwrite it fails instead.
`OnlySecondWritesBlock` is the safety part of `EveryBuildEnds` and the other side of finding 1: who waits for a rebuild while it holds a document has written more than one
row, so that a transaction of one write is never part of that deadlock.

**`Chats`.** The refinement mapping is the identity on the rows; what has to be shown is that the guard each use case checked while it
took its locks holds when it commits. The invariant says of every transaction what it has locked (`Shape`, exclusive locks), and that
what was checked under those locks is still so: nobody else writes a chat, a membership or a message that somebody holds. The
foreign keys are the exception, since the deletion of a user writes rows the use case did not look up; there the
key-share locks and the wait of the `DELETE` do the work. `UseCasesAtomic` is `Spec => Atomic!Spec`; `LimitAlwaysKept` and
`OneChatPerPairAlways` follow with invariants on the rows; `OnlyPostedAlwaysRead` needs that the times of messages are taken under the lock of
the chat; `DeadlockAlwaysNeedsDeletion` takes a set of waiting transactions apart by the order chat, membership, message.

**`ChatAttachments`.** `IInv == TypeOK /\ NoStrayObject /\ \A m : Phase(m)`. `Phase` is what a step of an upload relies on: as long as it may be
rolled back nobody sees its rows; while it is in its transaction its sender is an active member, since the others wait for
its locks (`SenderStays`), and what it has promoted is stored; and what it has committed is not among the keys it deletes, unless
the `COMMIT` was not answered. Steps of one upload leave the others alone because their keys are apart (`KeysApart`, `StepFrame`).
Theorems: `TypeCorrect`, `AttachmentsHaveObjects`, `ObjectsHaveReasons` and, as an action property, `MessagesByMembers`.

**`ProcessDocuments`.** None of the properties is inductive: that a document keeps its object depends on what every request still has
in hand. `Own` says what one request may rely on: an upload's documents are unsaved and, as long as its scope is there, stored under
it; the deletion of a shipment has listed all the objects of its documents; what is being cleaned has no row. `Pair` says what two
requests never do to each other: the documents in hand are disjoint, no two write the same row, nothing refers to a shipment that
another deletes. Its last two parts are the reason the prefix listing is safe although it also finds objects of uploads that are
still running: these belong to the shipment that goes, so that their insertion is refused by the foreign key and their object
is not needed. `RowsInv` has the reason why documents attached from a draft survive the listing: an object with the prefix of a shipment
belongs to a document uploaded to it. A step of one request goes through `FrameStep` (`ReadStep`, `StoredStep`, `RemovedStep` and `CommitStep` for
the four kinds of steps). Theorems: `TypeCorrect`, `RowsHaveObjects`, `StrayObjectsExplained` and, as an action property, `SavesTakeTheirDraft`. For the last one
`Own` says that what a save has found is still in its draft: it found it there, and whoever else would give it another scope, a save or the
update of a folder, waits for the locks of the rows (`Unlocked`). Updates of folders are proved about in full, with any columns they may change;
the tree of folders is not sound (finding 2), so there is nothing to prove about it.

**`PermitSchedule`.** The lists need a fact about numbers first: the members of a finite set of numbers, each put at the place given by how many
members are not above it, are a sequence of all of them, each once (`InOrderLists`). It follows without induction: the place is an injection
into as many numbers as the set has members (`PlaceIsInjective`), and such an injection is onto. From it `OnlyKeeps`, `WithoutKeeps`,
`OrderedLists` and `ListedTakes` say what filtering, removing, sorting and cutting yield. The invariant
`IInv == TypeOK /\ OrderSound /\ DailyFits /\ OneEach /\ JoinedRun /\ SearchFits /\ FreshRuns` has the reason why a search never hides what
another one has found: only one synchronisation of a kind runs for a document (`OneEach`), and a search that still is about its row knows the external id the row
has (`SearchFits`), because the only other synchronisation that may store something meanwhile, a status check, leaves the external id alone
(`AnswersFit`). A synchronisation is joined or begun (`SynchronisesFits`), loses its row (`SameFlightsFit`), ends (`EndsFits`) or is forgotten (`ForgetFits`);
the actions are made of these. Theorems: `TypeCorrect`, `OneSynchronisationAtATime`, `OrderOfChecksSound` and, as action properties, `FoundStaysFound` and
`DailyRunSound`.

Only model-checked: the liveness properties, which need fairness and `ENABLED`, and the findings, which are counterexamples.

## 5. Plan

What is left, in this order; each module with its runs, its mutants and, where noted, its proofs.

1. **`SearchIndex`**, continued — deletion of related records, bulk operations and many-to-many tables.
2. **`Regulations`** — the advisory locks per regulation and their order. **`FsaAuthToken`** — a forced refresh that joins a login begun
   before the old token was refused. **`DepartmentMoves`** — a walk up a tree that others are changing, of the kind `CheckUpdate` and `CommitUpdate` already show.
3. **`ShipmentHistory`** — snapshots and relation changes, deletion of a group. **`Templates`** — revisions under a lock.

## 6. Not modelled

Clients (no state that outlives a page), file storage (a MinIO adapter), process discussion (single-row
operations), metadata and migrations (sequential installation code), registry parsers (pure conversions of external
formats), `RequestPermitDocumentSync` (not called), and NocoBase itself but for what the plugins rely on: the repository is an installation of
that framework, and nearly all of its files are upstream code, which is why the modelled lines are a small share of it.
