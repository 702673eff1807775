# Lexos: TLA+ models and proofs

Lexos is a document and audio pipeline: a browser frontend and a Go gateway take
uploads, Redis holds task state, queues, cache entries, locks and the channels of
answer streams, an S3-compatible store holds raw inputs and derived objects, and
Python workers run the models. This directory specifies the parts that are hard to
test, model-checks them with TLC and proves the safety properties of nearly all of
them with TLAPS:

* the content-addressed deduplication of expensive work across concurrent
  requests, workers and failures;
* the pages of the frontend: submissions, polling, results, reset and navigation
  against that system;
* a conversation about an indexed document, from the question to the streamed
  answer, with the faults that may cut it short;
* the text of an answer: the chunks of the index, context, the filter of the model's
  thinking and the framing of the stream;
* the lifetimes of records and objects.

## 1. The system

| Component | State it keeps | Operations | Interacts with |
|---|---|---|---|
| Ingestion handlers (`gateway/internal/handlers/scriber.go`, `distiller.go`, `gleaner.go`) | none between requests; a task id, a raw object and a fingerprint per request | upload while hashing, resolve or register, push, answer | Redis, storage; one goroutine per request |
| Deduplication (`processing_cache.go`) | `lexos:cache:*` hashes, `lexos:lock:*` keys, `task:*` hashes | lookup, artifact check, alias, attach, stale recovery, `SET NX` election, registration, rollback | every other handler and every worker, through the same keys |
| Worker loop (`worker/src/broker/consumer.py`) | the job in hand, temporary files | BLPOP, cache recheck, status updates, download, service, upload, completion, failure | Redis, storage; several processes may run, each sequential |
| Ownership scripts (`worker/src/utils/cache.py`) | none | compare-and-delete of lock and entry | the gateway's unconditional deletions |
| Storage access (`storage/minio.go`, `utils/s3.py`) | `raw/<task>/…`, `cache/<operation>/<fingerprint>/…` | put, stat, get, remove | bucket retention (`infra/lifecycle.json`) |
| Task API (`task.go`) | none | read a task, proxy its result | the polling client |
| QA stream (`gleaner.go` StreamQA, `consumer.py`, `gleaner_qa_service.py`) | a Pub/Sub channel per question | subscribe, push, relay, sentinel, failure message | worker, client |
| Services (`distiller_service.py`, `gleaner_indexer_service.py`, `scriber_service.py`) | an index cache, model singletons | chunking, inference, embedding | model libraries |
| Frontend (`frontend/app`, `frontend/lib/api.ts`) | per page: form, task followed, document, messages, controller; shared: the query cache | submit, poll, show, announce, reset, navigate, ask, stop | task API, QA stream |

What makes each component correct, and what makes it hard:

* *Deduplication.* One owner per fingerprint; a duplicate is sent to live work
  or to a stored result; nothing is left behind. Hard, because every decision is
  taken on a value read one or more Redis commands earlier, while other
  handlers and workers go on, and because part of the deletions check
  ownership (worker) and part do not (gateway).
* *Worker loop.* A job popped is a job done or failed; status and cache are
  published after the objects. Hard, because a popped job exists nowhere else,
  because the except clause runs over whatever the try clause had reached, and
  because two jobs of one fingerprint can be on two workers.
* *Storage.* An upload is deleted by three different parties for three
  different reasons; a queued job must still find its own.
* *Task life cycle.* A client must never see a terminal status change or a
  completion with nothing to fetch.
* *Frontend.* A page follows the newest submission the user has not given up,
  shows what the system says of it and says so once. Hard, because answers of
  uploads and polls arrive when the page has moved on, and because query cache and
  requests outlive the page.
* *QA stream.* The message shows the answer to its own question, in order, and a
  page does not wait for nothing. Hard, because Pub/Sub delivers only to who
  listens, and five parties may end the stream: worker, relay, network, user, page.
* *Text of an answer.* The index lacks nothing of the document, and what is shown does
  not depend on where deltas and network chunks are cut. Hard, because chunks are made
  of token windows by way of character offsets, and tags and frames are cut anywhere.
* *Retention.* A record that promises a result does not outlive it. Hard, because
  each key and object counts its own time from its own moment, because the time to
  live of a key is a command of its own, and because requests and workers delete and
  write the same entry.

`PROJECT.json` lists all components and every hazard with its line.

## 2. Modules

```
SharedState ──┬── Gateway ──┐
              └── Consumer ─┴── Dedup ──┬── MCDedup                                          (TLC)
                                        └── DedupProofs ──┬── LeaseProofs                    (TLAPS)
                     refined by Dedup                     ├── PromiseProofs
                                                          └── ElectionProofs
TaskLifecycle ── Browser ──┬── ScriberPage ───┐
                           ├── DistillerPage ─┼── Frontend ──┬── MCFrontend                  (TLC)
                           └── GleanerPage ───┘              └── FrontendProofs              (TLAPS)
AnswerStream                                                                                 (TLC)
   └── StreamProofs                                                                          (TLAPS)
Chunking ── QaAnswer ──┬── MCQaAnswer                                                        (TLC)
                       └── AnswerProofs                                                      (TLAPS)
Retention ──┬── MCRetention                                                                  (TLC)
            └── RetentionProofs                                                              (TLAPS)
```

* **SharedState** declares the constants, the variables and the vocabulary of
  both sides, and the two environment steps: a lock reaching its time to live
  (`LeaseExpires`) and storage losing a derived object (`ArtifactLost`).
* **Gateway** is the three ingestion handlers with `resolveOrRegisterProcessing`.
  Handlers differ only in the list they push to, in the objects their
  fingerprint needs, and in whether the input is an upload or text in the
  request (`DirectText`).
* **Consumer** is `start_worker` for the three fingerprinted queues.
* **TaskLifecycle** is the abstract specification: what a client that polls a
  task is promised. It is used from both sides: *Dedup* refines it, and *Browser*
  takes it for the system behind the gateway.
* **Dedup** composes SharedState, Gateway and Consumer and states their properties.
* **MCDedup** gives TLC its small instances.
* **DedupProofs** holds the theorems about types, stored results, delivery of jobs
  and their inputs, and the lemmas the next three cite: **LeaseProofs** (nothing is
  left behind), **PromiseProofs** (the refinement of TaskLifecycle, and redundant
  uploads) and **ElectionProofs** (the election between two requests).
* **Browser** is what the service pages share: mutations, the query cache with its
  polls and results, navigation. **ScriberPage**, **DistillerPage** and
  **GleanerPage** (its phase 1) are the pages, and **Frontend** composes them;
  **FrontendProofs** its theorems.
* **AnswerStream** is phase 2 of the Gleaner page, StreamQA, Pub/Sub and the
  worker's branch for questions; **StreamProofs** its theorems.
* **Chunking** is the token windows of a document and the chunks of the index made of
  them, and **QaAnswer** the algorithms an answer passes through from the document to
  the screen. **MCQaAnswer** gives TLC its documents and texts; **AnswerProofs** is about
  documents, texts and cuts of every length.
* **Retention** is one clock over cache entry, task records and objects of one
  fingerprint, with any number of requests and workers; **MCRetention** gives TLC three
  interchangeable tasks, **RetentionProofs** holds its theorems.

### Correspondence: deduplication

| Variable | Code |
|---|---|
| `cache[f]` | hash `lexos:cache:<op>:<fingerprint>`: `status` and `owner_task_id` |
| `lock[f]` | key `lexos:lock:<op>:<fingerprint>`: the owner's task id |
| `task[t]` | hash `task:<id>`: `status` |
| `queue[o]` | list `lexos:queue:…` of an operation, of task ids |
| `raw` | tasks whose object under `raw/<id>/` exists |
| `objects[f]` | which of `result.json`, `index.faiss`, `meta.json` exist under `cache/<op>/<fingerprint>/` |
| `pc[t]` | the next Redis or storage command of the request's handler, or its answer |
| `owner[t]` | `lockOwner` / `ownerTaskID`, the local variable of the handler |
| `wpc[w]`, `job[w]` | the worker's next command and the payload it popped |

The grain is one action per Redis command or storage call, with the local
computation up to the next command, because Redis executes commands (and Lua
scripts) atomically and nothing else is. Three places deviate:

* `HSET` and the `EXPIRE` after it are one action when both succeed; a failing
  `EXPIRE` is a step of its own (`ExpireFails`, `ExpireRaises`).
* `cacheArtifactsAvailable` stats up to three objects in one step. Objects are
  only added, save for `ArtifactLost`, and one lost between two stats is as good
  as lost after the last.
* `DEL` of the cache entry and of the lock is one command with two keys, and
  one action.

Error returns are translated too: `AfterRedisError` and `AfterStorageError` give
the next command of a handler whose command failed, for every command.
Handlers ignore errors of the rollback and of raw removals, as the code does.
A cancelled request context makes every later command fail, rollback and
removal included, which is why `Abort` ends the handler where it stands.
Redis-py retries and a BLPOP whose reply is lost add no behaviour: the worker's
other commands are idempotent, and the lost job is that of a worker that
crashes right after `Pop`.

### Correspondence: frontend

| Variable | Code |
|---|---|
| `page` | the route: `ScriberPage`, `DistillerPage` or `GleanerPage` is mounted |
| `form` | `audio`; `document` or `documentText` by `mode`, and `style`; `document` |
| `taskId`, `documentId`, `lastNotified` | the states and the ref of these names |
| `uploads` | calls of `useMutation` that have not settled; `live` while their page is mounted |
| `seen`, `failing`, `result` | the query cache: `data` and `isError` of `["task", id]`, and the result queries |
| `poll` | the fetch of each task query: one at a time |
| `elected` | tasks whose request was elected owner of its fingerprint's lock: the only ones another request is attached to (`processing_cache.go`) |
| `followed`, `cutoff` | history variables: the newest submission that was answered, and the newest the user has given up |
| `told` | history variable: how often the outcome of the task followed was announced since it came to be followed |

A content stands for a file or a text, whichever input the Distiller's mode selects; a
submission's request is the content with the style. The tab stays on one service:
`Remount` is leaving the page and coming back, merged into one step, because between
the two nothing happens that could not happen while the page just mounted is left
alone. A poll is answered by the last of its two attempts (`retry: 1`); one whose
record has expired is one that fails. An upload may be answered with a task that has
ended meanwhile, attached to a task that runs or has just been completed, or never
answered although it was registered. The pages ask for `result_url` beside a completed
status; both are written in one `HSET`, so the model asks for the status only.

`OutcomeAnnounced` has one exception, `AcceptedUnannounced`. A document attached to a
task that has just been completed is accepted as "completed" with `cache_hit` false
(`processing_cache.go:227`). The Gleaner page then says "Indexing started"
(`gleaner/page.tsx:163`) but opens phase 2 at once, and as `lastNotifiedTask` is set
already (`:160`), "Document indexed" never follows.

### Correspondence: conversation

| Variable | Code |
|---|---|
| `ready` | `readyDocumentId` is set: phase 2 |
| `isStreaming`, `controller`, `messages`, `listed` | `isStreaming`, `abortControllerRef`, the assistant messages and which are in the list |
| `call` | each `streamGleanAnswer`: open, or how its promise settled |
| `aborted`, `left` | open calls whose signal is aborted; whose page is unmounted |
| `wire` | response body sent by the relay and not read yet |
| `relay` | the point reached in StreamQA: lookup, subscribe, push, relay, closed |
| `subscribed`, `inbox` | the SUBSCRIBE of each channel; messages received and not relayed |
| `queue`, `ingestion` | `lexos:queue:gleaner:ask`; how many jobs wait on the other three lists |
| `job`, `wstep`, `produced` | the worker: the question popped and where it stands, up to `failureDone` |
| `published`, `missed`, `lost` | history variables |

Of an answer only the order of tokens is kept; the text of a failed task is a token
like the others, as it is for the tab. The list of messages is emptied together with
the history, so that what was streamed to a forgotten message is not remembered.
Jobs of other queues take one step: here they only delay. A subscription that is lost
in the middle of a stream, which the Redis client renews by itself, is not modelled, and
so the relay's `!ok` (`gleaner.go:256`) does not occur here; QaAnswer has the body that
ends without `[DONE]`.

A document of QaAnswer is its encoding: the tokens with the offsets the tokenizer reports
and the positions of the characters that are not blank. A tokenizer may add a token of
its own at the end, whose offsets (0, 0) are no part of the text (`NoText`); whether the
deployed one does depends on its file, which is not in the repository. A chunk is named
by its window, where the code numbers the chunks anew in the same order.

QaAnswer spells text out, character by character; the tags are any two texts of which
the opening one does not begin with a blank. A loop of the code takes one action per
iteration: `AssembleContext` per retrieved item, `CrossTag` per tag in the filter's
buffer until `PublishDelta` leaves the loop and publishes, `ParseBlock` per block in
the tab's buffer until `Loop` sends it back to `ReadChunk`. MCQaAnswer abridges
`<think>` and `</think>` to `<t>` and `</t>`, which keep a proper prefix in common.
The stages follow each other although in reality the tab reads while the worker
generates: what the tab reads depends on the bytes and where they are cut, not on when
they were sent. `ChannelCloses` is the relay's `!ok`.

`PublishedIsVisible` and `AnswerIsVisible` compare the filter with a reader of the
whole text (`Reading`), which looks at each character once and knows neither deltas
nor a buffer.

### Correspondence: retention

| Variable | Code |
|---|---|
| `object[p]` | when the store removes each object under `cache/<operation>/<fingerprint>/` |
| `entry`, `record[t]` | the hashes: status, owner of the entry, and when the time to live runs out (`Forever` without one) |
| `role[t]`, `pc[t]` | the request that registers the task, then the worker that has popped its job, and its next command |
| `since[t]`, `stored[t]` | when it read or marked the entry or began to upload; what it has uploaded |
| `lost` | history variable: an `EXPIRE` of the entry was not executed |

A task is a process, first as a request and then as a job, so that as many workers are
at work as there are jobs. On the entry, which all share, each command is a step of its
own: a lookup, `DEL`, `HSET` and `EXPIRE` of one process interleave with those of all
others, and `HSET` gives no time to live to a key it creates. Nobody but the process
writes its record, so `HSET` and `EXPIRE` of a record are one step, with the death in
between another (`DieBeforeExpiry`). Locks are left out: who cannot reuse the entry may
always come to own the work, as after the lease of another owner has run out; a request
that is attached to another's work does nothing more and is one that dies. With that,
`Retention` allows every order of commands that the locks allow, and more.

Time passes between any two steps, but a process takes at most `Delay` from the lookup
of an entry to the record it leads to and from an `HSET` of the entry to its `EXPIRE`,
and at most `Lag` from its first upload to the `EXPIRE` of the completed entry. Jobs may
wait and compute for as long as they like.

### Faults of the deduplication

The constant `Faults` chooses which faults a run allows; each is documented in
`SharedState`. No fault is ever bound to happen. `boolRejected` is a property of
the installed Redis client: `cached_task_mapping` (`cache.py:88`) passes Python
bools as hash values, which redis-py refuses with a `DataError` unless an
encoder for them is registered; the unit tests use a mock. With the fault the
worker's cached completion fails before it sends anything; without it, it works.

## 3. What the runs check

The first seven runs are instances of `MCDedup`. Their bounds are the sets of
requests, fingerprints and workers; nothing else is bounded, and every state space
is explored completely. Deadlock is checked in them: the only state without a
successor but `AllDone` would be a request or a job that nobody can move. The others
switch it off: a user may stop asking, the clock and the text end.

| Run | Instance | Faults | Checks |
|---|---|---|---|
| `live_owners` | 3 duplicate transcriptions, 2 workers, symmetric | taskFailure, leaseExpiry | `LeaseHasLiveOwner`, `EntryHasLiveOwner`, `NoStuckTask`, `DeliveredOnce`, `JobKeepsItsInput`, `RedundantRawRemoved`, `AttachesToLiveOwner`, `KeepsPromise` |
| `two_duplicates` | 2 duplicate indexings, 2 workers, symmetric | taskFailure, artifactLoss, workerCrash | `OneOwner`, `DuplicateNotRejected` |
| `any_fault` | 2 duplicate indexings, 1 worker, symmetric | all but artifactLoss | `TypeOK`, `CompletedMeansStored` |
| `liveness` | 2 duplicate transcriptions and 1 direct text, 1 worker | taskFailure, leaseExpiry, artifactLoss | `EnqueuedFinishes`, `AttachedFinishes`, `LeaseReleased` |
| `three_duplicates` | 3 duplicates, 2 workers | none | violates `OneOwner` |
| `repeated_work` | 2 duplicates, 1 worker | none | violates `NoRepeatedWork` |
| `disconnect` | 2 duplicates, 1 worker | abort | violates `AttachesToLiveOwner` |
| `frontend` | each page, 2 submissions of one content, 2 tasks | polls, uploads and downloads fail | `TypeOK`, `NewestSubmissionFollowed`, `AnnouncedOnce`, `OutcomeAnnounced`, `AskOnlyIndexed`, `ShownAdvances`, `DocumentStays`, `OutcomeShown`, `SkeletonEnds` |
| `answer_stream` | 2 questions of 1 token, 1 other job | one of seven kinds | `TypeOK`, `ShowsOwnAnswer`, `AnsweredAsHeard`, `ControllerOfOpenCall`, `MessageOnlyGrows`, `StreamEnds`, `RelayEnds` |
| `late_subscription` | 1 question of 1 token | lateSubscription | violates `AnsweredIsWhole` |
| `qa_answer` | the deployed windows, 40 documents, all texts of 3 pieces and 27 with a thought | early end of the body | `TypeOK`, `OnlyTheEndIsDropped`, `ContextInOrder`, `PublishedIsVisible`, `AnswerIsVisible`, `MessageIsAnswer` |
| `retention` | 3 tasks, symmetric, 1 object, lifetimes 1 (entry), 2 (task), 3 (objects), Delay 0, Lag 1, clock up to 7 | failing and dying processes, any number | `TypeOK`, `CompletedTaskServed`, `CompletedEntryExpires` |

Three duplicates are the bound that matters: the interesting interleavings need
a request that holds a lock, one that has read it and acts on it later, and one
elected in between. Two workers let both jobs of a doubly owned fingerprint run
at once. Indexing is the operation with three objects, so it is used where the
order of uploads matters; the liveness run has two operations and a request
without upload.

In `frontend` two submissions of one content suffice for everything the pages
distinguish: an upload overtaken by a later one, attached to its task, answered from
the cache, answered after a reset or a departure; a second content or style would
only make two tasks more different. That two are enough is no guess for its safety
properties, which are proved for any number of submissions (section 4). In `answer_stream` the second question is there
to meet what the first has left: its finally clause, its tokens, its job. One fault
at a time leaves the counterexamples readable; the failed task may be followed by a
failing except clause (`FailureHandlingRaises`). One job on the other queues shows that it delays a question, not that BLPOP would starve
it under endless arrivals. The documents of `qa_answer` lie on either side of one, two and
four windows' ends, with tokens of one and four characters, each with and without a token
of the tokenizer's own at both ends; one has a stretch of blank tokens longer than a
window, others are blank or empty. Three pieces allow each tag to
be split, repeated, left open or closed without having been opened, at any place,
and every way of cutting them into deltas and network chunks is explored. The lifetimes
of `retention` stand in the relation of the deployed ones (objects = entry + task), and
its clock runs for longer than a whole life of the objects and a second upload. Three
tasks are what the races need: a worker that completes the entry, a process that deletes
or overwrites it meanwhile, and a request that reuses what is left.

Which property survives which fault (two or three duplicates, one fault at a
time, found with TLC; "no" means a counterexample):

| Fault | Lease / Entry / NoStuck | CompletedMeansStored | JobKeepsItsInput | RedundantRawRemoved |
|---|---|---|---|---|
| taskFailure, boolRejected, leaseExpiry | yes | yes | yes | yes |
| artifactLoss | yes | no | yes | yes |
| storageError | yes | yes | yes | no |
| redisError, workerError, workerCrash, abort | no | yes | yes | yes |
| lostReply | no / yes / yes | yes | no | yes |

A passing run enables the faults under which its properties are meant to hold;
the table says what the code gives up under the others. `KeepsPromise` is broken
by lostReply, workerError and artifactLoss, each alone, and by no other. `OneOwner`
and `DuplicateNotRejected` hold for two requests of a fingerprint only: with three,
even without a fault, two of them can be elected, and one can be answered 500.
With two, lostReply and leaseExpiry each break `OneOwner`; redisError, storageError
and lostReply each break `DuplicateNotRejected`, by an error that is the request's own.
The theorems of section 4 leave out exactly the faults that break their property.

### Disagreements with the documentation

1. `three_duplicates`: "SET NX elects exactly one owner for concurrent requests
   with the same fingerprint" (`processing_cache.go:308`). The recovery path
   deletes the lock after a read two commands old (`:314`, `:326`); a third
   request elected in between loses it.
2. `repeated_work`: "Content fingerprints prevent repeated … work for identical
   inputs" (`README.md:90`). A handler that found no entry is elected after a
   duplicate has completed, writes "processing" over the completed entry
   (`:378`), and the worker's recheck (`consumer.py:249`) finds nothing to reuse.
3. `disconnect`: "Active cache entries are reusable only while the fingerprint
   lease has a live owner" (`processing_cache.go:281`). The lock of a request
   whose client went away is not undone, because the rollback uses the same
   cancelled context (`:356`); a duplicate is sent to a task nobody works on.
4. `late_subscription`: "Subscription is established before queue dispatch so early
   worker tokens cannot be lost" (`gleaner.go:223`). `Subscribe` of the Redis client
   sends SUBSCRIBE on a connection of its own and does not wait for the reply, and the
   job is pushed on another: the worker's first tokens may find no subscriber. The
   stream still ends with `[DONE]`, and the tab takes what it got for the whole answer.
   `AnsweredAsHeard` says what remains true under this fault, and theorem `AnswersWhole`
   that no other takes anything from an answer that ends normally.
5. "Merge physically adjacent chunks to recover local narrative continuity"
   (`gleaner_qa_service.py:74`). Chunks are merged when less than 20 characters lie
   between the end of one and the start of the next; those of the index overlap by 52
   tokens, so neighbours stay apart and their common text is given to the model twice.
   The test (`test_gleaner_qa.py:7`) uses offsets without overlap. Theorem
   `OverlapIsNotAdjacent` shows it for every document; no run repeats it.

Three things the passing runs show contradict no document, but a reader should know them:

* *The end of a document.* If the tokenizer appends a token of its own, the last window
  ends at character 0, has an empty text and is dropped: what only that window holds is
  not in the index, and a document of one window is refused.
  `OnlyTheEndIsDropped` says that nothing else can be missing.
* *An outcome without announcement*, described with the frontend above.
* *The grace day.* The README (`README.md:161`) counts the eighth day of the objects as a
  grace period for aliases created near cache expiry. The lifetimes start at different
  moments, the objects' at their upload and the entry's at the completion after it, so
  that a task aliased at the last moment of the entry outlives the objects by the time
  between the two: `Lag + 2 * Delay` with the deployed lifetimes, a second `Delay` because
  a mark as "processing" may have its late `EXPIRE` after the completion. If an `EXPIRE`
  of the entry is lost, the entry lasts, aliases can be made as long as the objects are
  there, and a completed task may outlive them by up to `TaskTTL + Delay`. `Grace` in
  `CompletedTaskServed` is this bound. A task record whose own process died before its
  `EXPIRE` is exempt: it stays for ever. `CompletedEntryExpires` says when an entry can be
  without time to live, also when a `DEL` came between its mark and its completion.

### Fairness

In Dedup, `Fairness` is weak fairness of each handler's own steps and of each worker's own
steps. The Go runtime schedules every goroutine, and a worker is one sequential
loop restarted by the container runtime (`docker-compose.prod.yml:86`); a step of
either stays enabled until it is taken, except `Pop`, which another worker or an
earlier list may disable. With one worker and finitely many requests weak
fairness is enough for `Pop`; starvation of the later lists under endless
arrivals remains a hazard (`consumer.py:215`). Faults carry no fairness.

In Frontend, the tasks the system accepted come to an end, which is what
`liveness` checks of Dedup (`EnqueuedFinishes`, `AttachedFinishes`) without the faults
that lose a job; the browser's timers and effects run (weak fairness of `SendPoll`,
`TaskSeen`, `FetchResult`, `ResultArrives`); and a poll that is repeated for ever is
not refused for ever (strong fairness of `AnswerPoll`). The user has none: uploads,
resets and departures may happen or not.

In AnswerStream a single weak fairness of tab, gateway and worker together is
enough: each has only finitely much to do for the questions asked, so while one of
them can go on, one does, and in the end all have. That the generation of an
answer ends is the model's token budget (`max_tokens=1024`). No fairness for the late
subscription, the other queues' arrivals, faults or the user.

## 4. What is proved

Every theorem is about all values of the constants that the assumptions of their
modules admit; no set of requests, tasks, questions or workers is assumed finite.

* `ConstantsAssumption` (SharedState): `FpOf` and `OpOf` are functions, text in the
  request occurs only in summarizations, `NoTask` is not a task, `Faults` are known
  faults.
* `BrowserAssumption`: requests are what forms can hold, `Nothing` is neither a
  content nor a task, and submissions have a bound, of any height.
* `StreamAssumption`: questions, tokens of an answer, jobs on the other queues and
  faults have bounds, of any height; `Nobody` is not a question.
* `ChunkAssumption`: an overlap is shorter than a window.
* `DocumentAssumption` (QaAnswer): the offsets a tokenizer reports do not decrease, but
  for a last token that is no text. Documents are of any length.
* `QaAnswerAssumption`: the tags and the fallback are texts that are not empty, the
  opening tag does not begin with a blank and the fallback is not blank. Tags and texts
  are of any length.
* `RetentionAssumption`: from the first upload to the `EXPIRE` of the entry it takes less
  than the objects live (`Lag < ObjectTTL`); there is an object; the clock has a horizon,
  of any height, and `Forever` lies beyond it and every time to live.

| Theorem | States | Assumes besides |
|---|---|---|
| *DedupProofs* | | |
| `TypeCorrect` | `TypeOK` | nothing: every fault |
| `CompletedIsStored` | `CompletedMeansStored` | storage keeps its objects |
| `JobDeliveredOnce` | `DeliveredOnce` | no command executed twice or executed and reported failed |
| `JobInputKept` | `JobKeepsItsInput` | the same |
| *LeaseProofs* | | |
| `EntryOwnerLives` | `EntryHasLiveOwner` | `Uncut`: no handler or worker is cut off between two commands |
| `NoTaskForgotten` | `NoStuckTask` | `Uncut` |
| `LeaseOwnerLives` | `LeaseHasLiveOwner` | `Calm`: `Uncut`, and no reply is lost |
| `AttachedToLiveOwner` | the action property `AttachesToLiveOwner` | `Calm` |
| *PromiseProofs* | | |
| `PromiseKept` | the refinement `KeepsPromise` | `Faithful`: no lost reply, no lost object, no exception in a worker's Redis or storage call |
| `NoUploadLeft` | `RedundantRawRemoved` | storage refuses no call |
| *ElectionProofs* | | |
| `OneOfTwoComputed` | `OneOwner` | `AtMostTwo` requests of a fingerprint; no lost reply, no expired lock |
| `SecondElectionWon` | `DuplicateNotRejected` | `AtMostTwo`; no handler's command fails or loses its reply |
| *FrontendProofs* | | |
| `TypeCorrect` | `TypeOK` | |
| `NewestFollowed` | `NewestSubmissionFollowed` | |
| `OutcomeToldOnce`, `ShownIsTold` | `AnnouncedOnce`, `OutcomeAnnounced` | |
| `AskedIsIndexed` | `AskOnlyIndexed` | |
| `ShownOnlyAdvances`, `DocumentOnlyReset` | the action properties `ShownAdvances`, `DocumentStays` | |
| *StreamProofs* | | |
| `TypeCorrect` | `TypeOK` | |
| `StopReachesCall` | `ControllerOfOpenCall` | |
| `MessagesGrow` | the action property `MessageOnlyGrows` | |
| `OwnAnswerShown`, `AnswersAsHeard` | `ShowsOwnAnswer`, `AnsweredAsHeard` | nothing: every fault |
| `AnswersWhole` | `AnsweredIsWhole` | no late subscription |
| *AnswerProofs* | | |
| `AnswerTypes` | `TypeOK` | |
| `WindowsCoverDocument`, `IndexCovers` | `WindowsCover(n)` for every length `n`, `OnlyTheEndIsDropped` | |
| `ContextOrder` | `ContextInOrder` | |
| `PublishedVisible`, `AnswerVisible` | `PublishedIsVisible`, `AnswerIsVisible` | |
| `MessageAnswer` | `MessageIsAnswer` | |
| `OverlapIsNotAdjacent` | no chunk is `Adjacent` to the next | an overlap of at least `Near` tokens, as here; each token that is text has a character of its own (`OwnCharacters`) |
| *RetentionProofs* | | |
| `RetentionTypes` | `TypeOK` | |
| `TasksServed` | `CompletedTaskServed` | |
| `EntriesExpire` | `CompletedEntryExpires` | |

The arguments:

* *Completed means stored* is not inductive: somebody sees or uploads the
  objects and publishes them commands later. `StoredInv` adds what a handler at
  `reuse` or `alias` has seen and what a worker at each point has uploaded.
  `ObjectsGrow` shows that what was seen stays true.
* *Delivery.* `OnceInv` adds that a job anywhere was pushed by a handler that has
  finished, and that each job is in its own operation's list. The two lemmas
  `EnqueueOne` and `PopOne` say all that is needed of RPUSH and BLPOP about
  sequences; `HandlerSteps` and `WorkerSteps` say who touches a list.
* *Input.* `InputInv`: a handler that may still push keeps its upload. A worker
  deletes only the upload of the job it holds, which is in no list by
  `NoCopyOnWorker`.
* *Nothing left behind.* That a task is in flight is not inductive: a worker that is
  about to let go of it will do nothing more for it. `StatusAttended` therefore asks,
  for a task shown queued or processing, for a handler before its push or about to undo
  it, a waiting job, or a worker that has not yet published an outcome (`Settled`);
  `EntryAttended` the same of the name in a "processing" entry, for a worker that has
  not yet found the entry another's (`GivenUp`). Neither needs a job to be delivered
  once, so both survive a repeated push, where a second worker may set a finished task
  back to "processing" while the first lets go, and a push that is undone although its
  job waits. `WorkerAttention` lists the ways a worker moves a status and an entry;
  entries may be overwritten by other tasks' handlers and workers at any time, as lock
  expiry and double election are allowed.
* *Locks.* A lock is the only trace of its owner, so here a job must be on one worker
  only (`OnceInv`) and a request that holds a lock must know it. `LiveInv` adds that a
  worker about to let go has given its task an outcome (`StatusSettled`);
  `HandlerKeepsInFlight` and `WorkerKeepsInFlight` show that work in flight stays so
  until that point.
* *Attachment.* `OwnerFollowed` carries what was true of the owner when its id
  was read to the moment of the answer, by `StaysAccountedFor`.
* *Promise.* `StatusInv` is what the refinement needs and no run asks for: the status
  of a task by where its handler stands (`HandlerStatus`), while its job waits
  (`QueuedStatus`) and by where its worker stands (`WorkerStatus`). `QueuedStatus` is
  where a repeated push would hurt, hence `OnceInv` beside it; that a completed
  status finds its objects is `StoredInv`. `HandlerMoves` and `WorkerMoves` then list
  the ways a status changes, and `MoveIsLifecycle` maps each to a step of
  TaskLifecycle or to a stutter. The three faults `Faithful` leaves out are those
  that break the promise.
* *Redundant uploads.* A request answered without work passes through `alias`,
  `attached`, `cached` or `rejected` only after its upload is gone (`UploadGone`).
* *Election.* `OneOwner` is not inductive: it does not say who holds the lock nor
  what a handler knew when it decided to delete it. `ElectionInv` adds that a handler
  about to delete a lock by its key knows its only rival to be over (`RivalOver`, with
  `OwnerIsRival` for what it has read), that an entry whose owner is over stays so
  (`EntrySettled`), and that a pending request has the lock or no pending rival
  (`PendingHolds`). With a third request "its only rival" fails, and with it the
  theorem: that is `three_duplicates`.
* *Frontend.* What is known of a task is ordered: the cache is behind the answer of
  the poll under way, which is behind the record. One submission at most belongs to
  the page, the newest. Its answer names either an elected task, which may have been
  followed, or one made for it alone, which cannot have been: without that
  distinction `AnnouncedOnce` fails with three submissions. What is shown as ended was
  announced, or it is a document accepted as completed by the task of another request
  (`AcceptedUnannounced`), whose id is in `lastNotified` all the same.
* *Conversation.* Of what the worker published for a question that is still listed, what
  preceded the subscription is missed; the rest is, in order and without a gap, what
  the message shows, then what is on the wire, then what waits for the relay.
  `StreamInv` says so by position in the published sequence; each step takes the first
  element of one place and puts it at the end of the next. `Prompt` is the one fact
  `AnswersWhole` adds: without a late subscription nothing is ever missed.
* *Windows and chunks.* Each claim about windows is one about multiples of the stride
  (`Multiples`); `LastIsFirstToReach` shows the last window to be that of the first
  number that reaches the end. For the chunks, `OffsetsInOrder` carries the order of
  neighbouring offsets to any two tokens; `WindowOfToken` finds, for a token that is not
  dropped, a window that holds it and does not end in a token without text, and
  `WindowHolds` shows that the slice of such a window has the token's characters, so that
  it is no blank one if one of them is not.
* *Context.* That the chunks grouped so far are in order is not inductive: `Document`
  adds that each of them precedes all that remain. `EntriesAfterAssembly` treats both
  branches, a new group or the last one, as one more entry at the end.
* *Filter.* `PublishedIsVisible` says nothing of the buffer. `Filtering` adds that the
  filter follows the reader (`Follows`): the buffer is the last characters that were
  handed over, and the reader of those before it is in the filter's mode, in the middle
  of no tag, and has shown what was published, but for blanks before it. A delta moves
  neither; text at which no tag begins is let through (`FollowsText`), and that none
  begins before what is held back, whatever comes next, is `NoTagBeforeHeldBack`; a tag
  is crossed by both (`FollowsTag`). The blanks that are dropped before the answer are
  why the properties compare the stripped texts.
* *Framing.* `MessageIsAnswer` says nothing of what is under way. `Framing` adds that
  buffer and wire together are whole frames that take the message, by way of beginnings
  of the answer, to some text, and that a message which meets [DONE] is the answer
  (`Carries`). A chunk moves symbols from one to the other; a block is complete when
  the buffer has five symbols and not before (`BlockEnds`), so the tab parses frames
  only, and a body that ends after a whole frame leaves nothing in the buffer.
* *Induction* over a text, a stream or a number of windows is done by hand: a set of
  numbers that has 0 and every successor is all of them, as otherwise one that is missing
  would be the least (`Induction`, from the library's `WFMin`). The library's induction
  theorems take an operator and cannot be used; a set can be given. `ReadingByCharacter`
  shows in this way that the recursive function `Reading` is what its definition says.
* *Retention.* Neither property is inductive: a record says nothing of the entry it
  was copied from, nor an entry of the mark it has its time to live from. `IInv` follows
  the times back to an upload. Nobody takes longer than it may (`Timely`), times to live
  are counted from the past (`Fresh`), and what a process uploaded is there for a whole
  life, whoever uploads it again (`UploadsLast`). A mark whose `EXPIRE` is still to come
  was made before the completion it may fall behind (`MarkedBefore`: a mark made later has
  overwritten the entry). Hence a completed entry has a date that depends on the objects
  only, or its owner is about to give it one (`EntryDated`), and so has whoever read it
  (`ReaderDated`). Deletions need no argument: an entry made anew after one is `Forever`
  until its process, or none, comes to the `EXPIRE`.

Model-checked only:

* All liveness properties: `EnqueuedFinishes`, `AttachedFinishes`, `LeaseReleased`,
  `OutcomeShown`, `SkeletonEnds`, `StreamEnds`, `RelayEnds`. They rest on
  fairness, hence on ENABLED, for which there are no rules here.

## 5. Not modelled, and the plan

Left out for good: HTTP parsing and 4xx answers, wiring, health checks,
logging, model libraries, object contents, the fingerprint's hash (collisions
are assumed away: `FpOf` is any function), the time-of-day task ids, and the
presentation of the frontend (landing page, styled elements, wording).
Graceful shutdown finishes the current job and adds no behaviour to a worker
that stops being scheduled between jobs.

Left out so far:

* The worker's local files: `_get_index_and_meta` with its twenty entries and
  the files under `/tmp` it shares with the indexer, and temporary downloads. Of
  interest is that the indexer writes the FAISS file in place, under the name the
  QA service trusts.
* The lifetime of raw uploads, and that of the lock in the same clock as the rest.
* Endless arrivals: StreamEnds is checked with finitely many jobs on the other
  queues. Without that bound it is false, as BLPOP serves the lists in order.
* GetTaskResult for a task that is not completed. No page asks for one.
* The buffer of a hundred messages in the relay's Redis client, which drops
  messages when a slow client holds the relay up for long enough.
* A subscription of the relay that is lost and renewed in the middle of a stream: the
  messages in between, `[DONE]` among them, would be missed as under lateSubscription.
* Names and badges a page shows beside its data, which are read from the form as it
  is now (`gleaner/page.tsx:379`, `distiller/page.tsx:250`), and the toast of a poll
  that fails (`gleaner/page.tsx:93`).

Theorems left to prove: none of the safety properties; the liveness properties, when
the prover has rules for ENABLED.
