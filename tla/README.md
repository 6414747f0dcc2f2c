# A verification project for Telang

Telang is a daemon that speaks S3 on one side and keeps the objects, encrypted,
as messages of a Telegram channel on the other. This directory holds TLA+ modules
that model it, TLC configurations that check them on small instances, and proofs
checked by TLAPS. Paths below are relative to the repository.

## The system

| Component | State | Operations | What makes it correct |
|---|---|---|---|
| service (`internal/s3api/service.go`) | cipher cache (map under a mutex) | PutObject, GetObject, GetObjectRange, HeadObject, DeleteObject, CreateBucket, DeleteBucket, ListBuckets, cipherFor, stageTemp | a stored object stays readable; an answer was true during the request; stores agree once requests are done |
| handlers, router, errors (`handlers.go`, `router.go`, `errors.go`) | none; a goroutine per request, its context cancelled when the client leaves | dispatch, one answer per request | headers and body of one answer belong to one version |
| multipart (`multipart.go`) | part files in a staging directory, rows in SQLite | Create, UploadPart, Complete, Abort | the completed object is the listed parts; nothing of an aborted upload remains |
| listing (`list.go`) | none | ListObjectsV2 with prefix, delimiter, continuation | every key that was there all along is listed, none twice; paging ends |
| metadata (`internal/metadata`) | SQLite tables buckets, objects, multipart_uploads, multipart_parts; one connection | one statement or one transaction per call | a row's message exists |
| keys (`internal/keys`) | a map and `keys.toml`, replaced by an atomic rename | Load, Get, Create, Remove | a bucket's key outlives its objects and is never replaced under them |
| disk cache (`internal/cache`, imported, not in this tree) | ciphertext files by message id, evicted by size | OpenStreaming, OpenAt, Evict | never serves one message for another |
| crypto (`internal/crypto`) | none | frame-wise encryption, streaming and ranged decryption | no nonce is used twice; truncation is noticed |
| storage and backends (`internal/storage`, `bot`, `mtproto`) | the Telegram channel | Put, Get, Delete, Exists, with retries; Open and Close for MTProto | a retry repeats the request; start-up reports failure |
| sigv4 (`internal/sigv4`) | per request the reader of its body | verification of headers, presigned URLs and bodies | what is stored is what was signed |
| config, browser UI | none but a map of session tokens | parsing; a front end whose uploads, downloads and deletions are calls of the service | - |
| command (`cmd/telang`) | the files above | serve, fsck, export, import, init, reauth | a restart, a repair and a restore lose nothing; a signal ends the process in order |

Requests interact only through the stores. Nothing locks a bucket or an object
across the calls of one request, so the hard behaviours are: two requests between
whose steps a third one runs; a context cancelled between two calls, which makes
the clean-up fail as well; a failure of one of two stores that must agree; a
restart between two writes; a bucket deleted and created again under a new key;
a reader on its way to a message that a deletion is about to remove.
`PROJECT.json` lists them, each at its line.

## Modules

**`ObjectService`**: the core. Its variables are the stores and the requests:

| variable | code |
|---|---|
| `buckets`, `objects` | the tables `buckets` and `objects`, a row being its `message_id` |
| `keyOf` | `keys.Store`, in memory and in `keys.toml`: the two never differ after a call |
| `cipherCache` | `Service.cipherCache` |
| `cached` | the messages whose ciphertext the disk cache holds |
| `channel`, `sealedWith`, `nextMessage` | the Telegram channel; the data key a message's content was encrypted under stands for its bytes |
| `nextKey` | the generator of data keys: a key never repeats |
| `req` | per goroutine: the step it is at, its arguments, the cipher and the message reference its locals hold, whether its context is live, its answer |
| `seen` | history, for the properties only: the rows a GET's object has had since the GET began |

A step is one call of the service on one store, with every outcome that the call
and the code after it distinguish: `CreateKey`, `CreateRow`, `CreateUndo`
(CreateBucket); `DropRow`, `DropKey`, `DropCipher` (DeleteBucket); `PutCheck`,
`PutCipher`, `PutTooLarge`, `Upload`, `Commit`, `Rollback` (PutObject); `GetRow`,
`GetCipher`, `Fetch` (GetObject); `DeleteRow`, `Evict`, `DeleteMessage`
(DeleteObject). Around them are `Begin*`, `Finish`, `Cancel` (the client leaves),
`LruEvict` (the disk cache makes room) and `Crash` (the process dies and `serve`
starts again over the same files).

What is taken to be atomic, and why:

- a metadata call: the pool has one connection (`SetMaxOpenConns(1)`), and a call
  is one statement or one transaction. A single statement that is cancelled
  while it runs may have been applied although the call reports an error
  (`CreateRow`, `Commit`); a transaction is committed or not;
- a call of `keys.Store`: its mutex, and a rename as the last step of a write;
- `cipherFor`: `Service.mu` is held throughout;
- a backend call, as seen from the channel. An upload whose call fails may have
  been sent all the same; a call with a cancelled context has no effect.

Data is abstracted to what the properties tell apart. All 5xx answers are one
answer `error`; `broken` is a 200 whose body stops at a frame that does not
authenticate. Size ceilings are nondeterministic choices.

**`S3Store`**: the abstract specification, a store whose buckets and objects
change in one indivisible step of a request between its arrival and its answer.
A PUT answered `ok` took effect once, one answered with an error at most once, a
GET returns a version the object had meanwhile, and a version, once stored, is
there until its object is overwritten or deleted. `BucketAlreadyOwnedByYou` is
allowed at any time: a restart between `Keys.Create` and `Meta.CreateBucket`
(service.go:201-204) leaves a key without a bucket, and nothing reconciles the two.

**`ObjectServiceRefinement`**: the mapping. A version is the message that holds
its content. An object whose message is gone or sealed under another key than
its bucket's maps to a value that is no version, so losing content has no
abstract step. `KeepsPromise` says that `ObjectService` implements `S3Store`.

**`MCObjectService`** instantiates this for TLC. **`ObjectServiceProofs`** and
**`ObjectServiceRefinementProofs`** hold the theorems. The theorems about another module `M`
are in `MProofs`; those about `ObjectReads` are in `ObjectWritesProofs`.

**`Multipart`** (and `MCMultipart`): multipart uploads, apart from the core because
their hazards lie between the staging directory and SQLite.

| variable | code |
|---|---|
| `uploads`, `parts` | the tables `multipart_uploads` and `multipart_parts`, a row (size and ETag) being the body it was made for |
| `dirs`, `files`, `temps` | per upload its staging directory, the files `<part>.bin` and the temporary files of the UploadParts that run |
| `objects`, `channel`, `content`, `nextMessage` | the table `objects` and the channel, with the bytes of each message |
| `req` | per goroutine: its step, arguments and locals |
| `status`, `acked` | history: what clients know of an upload and which part bodies were acknowledged last |

A body is a sequence of blocks and stands for its own ETag. Steps are the metadata
calls, the system calls on the directory and the backend calls: `CreateCheck`,
`MakeDir`, `InsertUpload`, `DropDir` (CreateMultipart); `PartRow`, `CreateTemp`,
`Receive`, `Rename`, `Upsert` with `DropTemp` (UploadPart); `CompleteRow`, `ListParts`,
`OpenPart` per part, `Store`, `Commit`, `Rollback` (CompleteMultipart); `AbortRow`
(AbortMultipart); and `RemoveFiles`, `RemoveDir`, `DeleteUpload`, which the last two
share. `os.RemoveAll` is two steps, since it fails when a file appears in between.
`CarefulClients` is an assumption about clients that the code does not enforce: no
request overlaps one it could disturb, and a Complete lists what was acknowledged last.

**`Listing`** (and `MCListing`): a client that follows the tokens of ListObjectsV2 to
the end. `keys` are the bucket's rows; `cursor`, `contents` and `prefixes` are the
handler's locals; `token` is what the client sends; `listed` and `reported` are what it
has received, `stable` (history) the keys that were there all along. `Batch` is a turn
of the loop, with the read of `ListObjects`; `KeyHasMoreAfter`, `NextPage`, `EndListing`
and `Fail` are what may follow; `PutKey` and `DeleteKey` come from other requests. Keys
are numbered in byte order; names are sequences of characters with a width in bytes, so
that the difference between SQLite's `substr` and Go's `len` is in `Matches`.

**`ObjectReads`**: from a GET, whole or of a range, to its bytes.

| variable | code |
|---|---|
| `row`, `size` | the object's row: the version it is of, and the size of each version |
| `content` | the bytes stored for each version, as `Blob` (the encrypter) made them |
| `get` | the goroutine of the request: its step, the version its headers are of (`head`) and the one it reads (`ver`), the range, the frame it is at, the bytes sent (`out`), the Content-Length (`declared`) |
| `damaged` | history: the versions whose message was changed |

A byte of version `v` at position `x` is `<<v, x>>`; a stored byte names the version, frame
and length it was sealed with, and `Opens` lets a frame open as a whole at its own index
or not at all: that is what is assumed of AES-GCM and of nonces drawn at random. Steps
are the metadata reads (`HeadObject` and `ReadRow`: a range reads the row twice), the
opening (`Open`) and one frame (`StreamFrame` of the decrypter, `RangeFrame` of
DecryptRange). `End` is the end of the handler, which never sees that a stream was too
short: that an answer with fewer bytes than its Content-Length does not reach the client
as a complete one is the doing of net/http. `Store` overwrites the object, `Damage` cuts a
message or exchanges frames. That the message is found at all is the matter of
`ObjectService`, where a deletion may come in between. The headers of a range may be of
an older version than its bytes, when an overwrite comes between the two metadata reads;
`RangeAnswersRight` claims one version for the bytes only.

**`ObjectWrites`** (and `MCObjectWrites`) extends it by the other direction: from the body
of a PUT, of an object or of a part, to what is stored.

| variable | code |
|---|---|
| `put` | the goroutine of the request: its step, how its body is signed (`mode`) and its size declared (`header`), what the body's reader may hand out (`left`, `chunks`), the bytes staged (`file`) and passed on (`plain`) |
| `temp` | the file `put-*.tmp` of the staging directory exists |

A step is one Read of the reader the handler was given. `BodyReads` says what it may
return: `PlainReads` for a body as it is, compared with its hash at its end or not,
`ChunkReads` for the two readers of aws-chunked bodies, which verify a chunk before its
first byte is handed out, and which hand on as the end of the body the io.EOF they meet
between two chunks (sigv4.go:640-643, 663-669): in a body that is `short` the wire ends
before the empty last chunk. `Stage` is a turn of the io.Copy in stageTemp, `SealFrame` one
io.ReadFull of the encrypter, `ReceivePart` a turn of the io.Copy in UploadPart; `Check`
is PutObject's comparison of the limit, `CommitPut` the row (`Store` of `ObjectReads`), and
`FinishPut` the handler's return with its deferred removal of the file. `altered` is a
byte that was changed on its way; hashes and signatures are perfect.

**`BotBackend`** (and `MCBotBackend`): the calls of the bot backend over HTTP, which
`ObjectService` and `Multipart` see as one step each. A call is sent (`Send`), handled
by Telegram (`Serve`), answered (`Receive`) or given up (`Lose`), whereupon its request
may still arrive (`StrayPut`, `StrayDelete`); `Backoff` is the wait between attempts;
`Stream`, `SourceFails`, `BreakOff`, `ProducerStops` and `Join` are Put's producer
goroutine and its pipe; `Download` is the second half of Get. `body` says whether the
reader that all attempts share still holds the form. Of Telegram it is assumed that a
file id resolves while its message is in the channel, and that a request with an empty
form is refused with a 400 whose words are not those of an absent message.

**`AdminCommands`** (and `MCAdminCommands`) extends `ObjectService`, whose daemon runs
beside the commands: `fsck --fix`, `metadata export` and `metadata import`.

| variable | code |
|---|---|
| `cmd` | the command that runs: the rows it has still to ask about or to write (`todo`), the orphans it has found, its answer; `gone`, `absent` and `skipped` are history |
| `dump` | the export file: bucket names and object rows |
| `replaced` | history: the index was lost or imported into, and no longer fits keys.toml |

fsck reads all rows first (`StartFsck`), asks the backend about one message at a time
(`FsckCheck`) and then deletes one row at a time by bucket and key (`FsckFix`). Export is
one snapshot per section (`ExportBuckets`, `ExportObjects`), import one statement per
record (`ImportBucket`, `ImportObject`) after its test for an empty database. Any of them
may meet a failing backend or database. `LoseMessage` is a message deleted in Telegram,
`LoseIndex` the loss of `telang.db`, after which the daemon is not followed.

**`ServeMTProto`** (and `MCServeMTProto`): the life of `telang serve` in MTProto mode. The
goroutine of the client's Run (`Connect`, `StatusFails`, `SetUp`, `Announce`,
`Disconnect`, `RunReturns`, `CloseReady`) runs beside serve() (`OpenReturns`,
`OpenInterrupted`, `Start`, `ShutDown`, `ListenerEnded`, `Drained`, `Expire`,
`JoinClient`), the listener (`Listen`, `StopListening`), the signal, and handlers that
call Put, Get with its streaming goroutine (`StreamBlock`, `StreamReturns`,
`StreamStops`), and Delete.

| variable | code |
|---|---|
| `serve`, `signalled`, `expired`, `listener`, `errCh` | where serve() is; its signal context; the 30 s of the shutdown; the goroutine of ListenAndServe and the channel it ends into |
| `client`, `cancelled`, `ready`, `readyClosed`, `runDone`, `api` | where Run is; its context; the two channels of Open; what the callback sets up |
| `handler`, `stream` | the request goroutines, and the goroutine behind a Get with its pipe |
| `posted`, `nextMessage` | the Telegram channel |

Operators commented "Mutant" (`DropRowUncounted`, `CommitReclaiming`,
`ReceiveInPlace`, `BatchOnce`, `BackoffUncounted`, ...) are not used by the
specification: each is a plausible
mistake in the definition that follows it, and substituting it for that
definition makes the run named in `PROJECT.json` report a violation.

## What the runs check

| run | instance | shows |
|---|---|---|
| `alone` | 2 requests, all operations, all faults, disk cache; 2 messages, 2 keys; bucket creation and deletion do not overlap other requests on the bucket | `TypeOK`; `NoDanglingRow`: no row loses its message; `GetAnswersTruly`: bytes and NoSuchKey were true of the object during the GET; `RowsReadable`: a row's bucket exists and its content opens with the key of `keys.toml`; `CipherCoherent`: the cipher cache follows `keys.toml`; `KeepsPromise` |
| `deleted_under_put` | 2 requests, no fault | finding: a PUT commits into a bucket that was deleted during its upload |
| `multipart_careful` | 2 requests, 1 upload of 2 parts, careful clients; disk, database and backend fail, restarts | `TypeOK`; `CompletedAsListed`: the completed object is the parts the request listed; `AbortLeavesNothing`: after an abort there is no row, no file and no directory |
| `multipart_overlap` | 2 requests on 1 upload of 1 part that overlap anything and disconnect, bodies of one size; statements and removals fail, restarts | `WholeBodies`: an object is made of whole part bodies |
| `torn_part` | 1 request, 1 part uploaded again with a longer body | finding: row and file of a part disagree after a disconnection, and Complete stores the beginning of a body |
| `daemon` | a listing: 6 keys with and without delimiter, any start-after, pages of 2, one failure | `TypeOK`; `StableKeysListed`: no key that was there all along is missed; `KeysOnce`: none is listed twice; `ListingEnds` |
| | serve in MTProto mode: 2 handlers, 1 message of 2 blocks, failures at every stage of start-up, of calls and of the port | `ServeTypeOK`; `ClosedInOrder`: nothing is closed under a request before its time, and the client's goroutine is waited for; `StreamsWhole`: a stream is whole or ends with an error; `SignalEnds`; `StreamsEnd` |
| `non_ascii_prefix` | the same listing, the prefix a character of two bytes | finding: objects under a prefix outside ASCII are not listed |
| `bodies_commands` | 1 PUT and 1 GET, 2 versions, bodies of 0 to 10 bytes in frames of 2 and chunks of 1 or 3, a limit of 9, numbers up to 5, each message changed once | `WritesTypeOK`; `StoredAsSent`: what is stored is what arrived, in order and, where its end can be told, whole; `AlterationsFound`: an altered body is refused where a reader compares; `LimitsExact`; `WholeAnswersRight`: a complete answer is the object of its headers; `RangeAnswersRight`: exactly the bytes asked for, of one version; `UndamagedReadsComplete`: only a changed message is cut short |
| | one command at a time beside 2 requests that create, fill and delete one bucket; database and Telegram fail; messages and the index are lost | `FsckRepairs`, `FsckSparesTheLiving`: a repair leaves no orphan and deletes nothing else; `ImportRestoresAll`, `ImportOverwritesNothing`, `RestoredInBuckets`; `KeysMatchIndex`: key and row of a bucket agree whenever no request is between the two |
| `unverified_hash` | 1 PUT of a body of 1 byte, which may be altered | finding: a PutObject of known size with a SHA-256 is stored although the hash does not match |
| `bot` | 2 callers, 1 upload, 1 retry, every loss and failure | `TypeOK`; `AnswersTrue`: no answer is false about the message, whatever was lost or retried; `OneMessagePerPut`; `CallsEnd` |
| `flood_wait` | 1 caller, 1 upload, 1 retry | finding: after a 429 the retry sends an empty form and the answer is 500 |
| `open_unready` | 1 handler; Run gives up before it calls back, and nothing else fails | finding: Open returns a backend that has no session |

Bounds. `MaxMessages` limits the messages ever sent and `MaxDataKeys` the keys ever
generated; when one is used up, an upload or a creation can only fail, which it can
do anyway. Two messages are an overwritten and an overwriting version; two keys are
a bucket's two lives. One bucket and one key are enough for these interleavings because
no statement, message or cache entry is shared between objects. A writer, a deleter and
a reader of one object need three requests: for these, and for any number, the proofs of
`NoDanglingRow` and `GetAnswersTruly` stand, which rest on none of these bounds. Requests
and names are interchangeable, hence the symmetry. Goroutines are served again after
`Finish`, so the length of a run is bounded by messages and keys only. Only the runs with
`ServeMTProto` (`daemon` and `open_unready`) turn off the deadlock check: a process that
has exited takes no step. Elsewhere an idle goroutine can always start a request; that a
listing does not stop half way is `ListingEnds`.

Two runs hold two instances each, `daemon` (`MCDaemon`: `Listing` and `ServeMTProto`) and
`bodies_commands` (`MCBodiesCommands`: `ObjectWrites` and `AdminCommands`). Two instances in
a run share no variable, and a behaviour follows one of them while the other stays where it
started (`followed`): the run checks of each what a run of its own would, and nothing about
the two together. No fairness asks for a step of the one that stays.

`BucketOpsAlone` is an assumption about clients that the code does not enforce;
`deleted_under_put` is what happens without it. It is set in the run `alone` only, so
that what else could break those properties is looked for.

In the instances of `Multipart`, one upload is enough since no state is shared between
uploads but the key they write, whose overwriting is the matter of `ObjectService`; two parts make the
order in which files are opened matter; a body has one or two blocks, so that a size can
be right or too small. In `multipart_overlap` bodies of a part have one size, as when a
client sends a file again: with two sizes `torn_part` is what happens. Clients that are
careful and disconnect are excluded from `multipart_careful`: an UploadPart that its
client has given up may rename its file after the repeated one was answered, and the
invariant fails. In a listing, six keys give a group that spans a page boundary, one that
ends there, and a key past the prefix; pages of two need several batches as soon as two
keys share a prefix; one failure (`MaxFailures`) may hit any call. A common prefix may be
reported on two pages (the token is a key): nothing in the repository says otherwise, and
no property forbids it. In `bot`, one retry is an attempt that is not the last and one that
is; two callers are a reader or a deleter beside another, or beside a request that was
given up. In `bodies_commands`, the sizes are those of an empty object, of one that ends
inside its first frame, at the end of the second and inside the third, of the largest plaintext whose
ciphertext is within the limit, of one whose plaintext alone is within it, and of one
that is over it either way; header and tag of one byte are shorter than a frame, as in
the code; chunks are shorter and longer than a frame; numbers up to 5 reach past the end
of the stored bodies. A body is received while no GET runs and no message has been
changed (`Quiet`), since the two share nothing until the row is written; that may
happen at any moment of a GET. Clients declare the size of what they send.

In `bodies_commands`, for the commands, two messages are two objects' worth or an
overwritten and an overwriting one. There is one export, messages are lost and fsck runs before it, and the daemon is not
followed once the index was replaced, which bounds the run by what follows from
one file; commands do not overlap each other; an import has the database to itself, as
it opens the file of a daemon that is down. In `serve`, two blocks make a stream that is
cut half way; two handlers are one to wait for and one to be started meanwhile.

Fairness is assumed in three modules. `Listing`: the handler's loop goes on (`ListStep`: it has
no wait but that for SQLite), and the client asks for the next page. Additions of keys are
unrestricted: paging ends because every page moves the token. `BotBackend`: each call
goes on (`Step(c)`), that is, timers expire, Telegram answers or the connection breaks, and
the source of an upload yields or fails. The code sets no time limit on a call
(`http.Client{Timeout: 0}`, "rely on ctx"), so the second of these is an assumption about
the network and the third about the client, who sends or disconnects. The bounds
`MaxRetry` and the single attempt of an upload are what `CallsEnd` rests on. The handlers
of `ObjectService` and `Multipart` have no loop or wait of their own and no liveness is
claimed of them. `ServeMTProto`: serve() and the goroutine of the listener go on when they
can (`Expire`, the 30 s limit, is a step of serve()); a client whose context is done comes
to its end; and a streaming goroutine whose reader has been closed ends, because its next
Write fails and net/http has cancelled the context of its calls. Nothing is assumed of
Telegram or of how long handlers take, which is what makes `SignalEnds` worth saying.

## What is proved

`ObjectServiceProofs`, for all sets of buckets, keys and requests, every workload
`Ops`, every set of `Faults`, with or without `BucketOpsAlone` and the cache, from the
assumptions on constants that `ObjectService` names (the switches are Booleans, the
bounds are natural numbers, `Ops` and `Faults` are subsets of what is defined):

- `TypeCorrect == Spec => []TypeOK`. The invariant is split into a part about the
  stores and a part about each request; there is a lemma per group of actions.
- `RowsKeepTheirMessage == Spec => []NoDanglingRow` and
  `GetsAnswerTruly == Spec => []GetAnswersTruly`.

Neither of the last two is inductive alone. `MessageInv` adds who may refer to a
message and who may still delete it: every message anyone refers to has been sent
(`MessagesSent`), so a fresh one is unknown to all; no two rows share a message
(`RowsOwnMessages`); an upload that a rollback could still delete is known to its
handler only and is in no row (`UploadPrivate`) - a rollback whose context is cancelled
is not among these, and it is exactly the one whose row may have been applied; a
message that a deletion has taken over is in no row (`DeletingUnreferenced`); and a GET
that has read a row either still finds the message in the channel or has seen its
object absent (`ReadersSee`, `ReadersHold`).

Most steps do not touch rows or give a handler a message it did not have; they are
dealt with once in `QuietStep`. The others (upload, commit, found row, unlinked row,
removed message, start of a request) have a lemma each.

The second half of the module, from the same assumptions and `BucketOpsAlone`:

- `RowsStayReadable == Spec => []RowsReadable`, `CacheFollowsKeys == Spec =>
  []CipherCoherent` and `ReadsAreWhole == Spec => []NoBrokenRead` (no GET ends at a frame
  that does not authenticate).

Their invariant `KeyInv` extends `MessageInv` by: whoever creates or deletes a bucket is
alone with it (`Alone`); the cache holds the bucket's key, except between `Keys.Remove` and
the deletion from the cache (`CacheCurrent`); and what a handler knows at each step
(`Knows`): that the bucket it is about to remove is empty, that the bucket it writes to
exists, that the cipher it holds is the bucket's, that what it has uploaded or is about to
fetch was sealed under that key. `Alone` is where the assumption enters: run
`deleted_under_put` shows that the theorems fail without it. The key invariant survives a
crash because only what is on disk, where `RowsReadable` ties rows to keys, survives it.

`ObjectServiceRefinementProofs`, from the same assumptions and `BucketOpsAlone`:

- `ImplementsStore == Spec => KeepsPromise`: the service implements `S3Store`.

A version maps to its message, and under `KeyInv` every row's message opens, so the
abstract store is `objects` itself. Each action is shown to map to one named action of
`S3Store` or to a step that no client sees: a PUT takes effect in `Commit`, a deletion of
an object in `DeleteRow`, a bucket appears in `CreateRow` (or when taking its key back
fails, so that its creator may have been answered an error) and disappears in `DropRow`;
a crash forgets the requests and leaves a half-made bucket as one that exists. `Justified`
collects what makes a refusal true of the state the handler has read. A GET may show any
version in `seen`, hence the invariant that what it holds is one of these.

`ListingProofs`, for buckets and pages of any size:

- `TypeCorrect`, `ListedOnce == Spec => []KeysOnce`, and `StableListed == Spec =>
  []StableKeysListed`, the last for prefixes whose characters have one byte: run
  `non_ascii_prefix` shows that it fails for others.

`ListInv` says that what is listed lies behind the token and what is collected between
token and cursor (`Behind`), that stable keys up to either place are accounted for
(`Covered`), that a page is full before the last query (`Filled`), and that an empty
batch means that the cursor is past all keys (`Exhausted`). That a batch takes the first
rows without a gap needs the least element of a set of numbers and the growth of its
cardinality; the former is derived from the well-foundedness of finite sets.

`BotBackendProofs`, for any number of calls, from assumptions on the bounds only:

- `TypeCorrect`; `OneMessage == Spec => []OneMessagePerPut`, by counting: messages sent,
  uploads astray and uploads under way never exceed the Puts begun (`Counted`);
- `Truthful == Spec => []AnswersTrue`. `Told` is what a call has learnt at each step, and
  stays true because a message never comes back; the message of a Put that has not
  answered is known to nobody else, and no two Puts hold one (`Apart`), so that a delayed
  request to delete cannot hit it.

`ServeMTProtoProofs`, for any number of handlers and documents of any length:

- `TypeCorrect`, `ShutdownOrdered == ServeSpec => []ClosedInOrder` and `DocumentsWhole ==
  ServeSpec => []StreamsWhole`;
- `OpenHandsOutReady`: if Run does not give up before it calls back (`"connect" \notin
  Faults`), then `ServeSpec => [](OpenWaits \/ signalled)`. `OpenWaits` itself is what
  mtproto.go:8-9 says, and run `open_unready` shows that it does not hold without the
  assumption. A signal makes Run give up too, and Open may then take the closed channel
  before it looks at its context; serve goes on to its shutdown.

Their one invariant ties the channels to what they announce (`ClientHonest`: before
`ready` is nil or the callback goes on, `api` is set; `CalledBack`: without the fault and
without a signal Run does not return before that), the stages of serve() to the
listener and its requests (`Ordered`), and a stream that has ended without an error to
all blocks of the document (`Served`).

`AdminCommandsProofs`, for any workload beside the commands:

- `RepairsWhatWasLost`, `SparesTheLiving` (fsck), `RestoresAll`, `OverwritesNothing`,
  `RestoredHaveBuckets` (export and import), from `AdminInv`: while fsck walks, a lost
  message stays lost and no handler is about to write a row of one (`Uploads`, `FsckInv`);
  the rows of a file have one row per object, whose bucket is in the file unless it was
  made between the two sections (`DumpInv`); an import has restored what it has not left
  to do, and a bucket that was there stays ahead of it, where it will stop (`ImportInv`);
- `KeysStayMatched == Uncut => AdminSpec => []KeysMatchIndex`: at most one request is half
  way through creating or deleting a bucket (`PairInv`). `Uncut` excludes cancellation,
  failed writes of `keys.toml` and crashes, each of which does part the two.

`AdminCommands` names one more assumption, `KindsAssumption`: a bucket's name is not an
object's row, which is how a record of the file is told from the other kind.

`MultipartProofs`, for any number of requests, uploads and parts:

- `TypeCorrect`, without an assumption about clients;
- `BodiesWhole`: `[]WholeBodies` if all bodies of a part have one size (`SameSizes`), with
  any overlap and any fault. What a Complete has gathered is `Join` of whole bodies, and
  the sum of the sizes is its length (`Gathered`): `torn_part` shows both parting when
  sizes differ;
- `CompletedRight`: `[]CompletedAsListed` under `Careful`, that is `CarefulClients` and no
  cancellation (a client that disconnects does not wait for its answer). Requests on one
  upload are one, or uploads of different parts (`Alone`); the file of an acknowledged
  part holds what was acknowledged (`AckedAreFiled`), and a part under way is not
  acknowledged (`PartsPending`), so that a Complete, whose list is the acknowledged parts
  (`Listing`), gathers and sends these (`SentAsListed`);
- `AbortsClean`: `[]AbortLeavesNothing` under `Careful` and without failures of
  `os.RemoveAll`, which the code ignores. Before the rows are deleted the directory is
  empty and then gone (`Emptying`); an upload being created is not known yet, so nobody
  aborts it (`Introduced`); and a request that finds an aborted upload still has its row to
  look for (`AbortedInv`). `KeyAssumption`, that a missing row is no key, enters here.

`Join` is a recursive function, and its recursion equations (`JoinIs`) are proved from its
definition: that the function exists follows from the least part at which it would not.
That bytes are appended in the order of the parts (`JoinNext`) rests on them.

`ObjectWritesProofs`, for headers, tags and frames of any positive size, bodies and chunks of
any size, any limit of the backend, any range and any number of versions:

- `WholeAnswersAreRight == WritesSpec => []WholeAnswersRight`, `RangeAnswersAreRight` and
  `UndamagedReadsAreComplete`, the last about every size and not only those near a frame
  boundary that the run tries;
- `BodiesStoredAsSent == WritesSpec => []StoredAsSent`, `AlterationsAreFound ==
  WritesSpec => []AlterationsFound`, `LimitsAreExact` and `WritesTypes`.

They rest on one invariant in two parts. `ReadInv` is about messages and a GET. Every
stored byte of a frame was sealed with the size in the row of its version (`Made`), which a
cut or an exchange of frames leaves true, and a message that was not changed is the
encrypter's whole output (`MessageOf`); so a frame that opens as the i-th of a version is the
i-th of that version (`OpenedFrame`), however it came there. The answer so far is a run of
adjacent bytes (`RunOf`) as long as the frames that were opened (`Reached`), and a range stays
the one that was resolved against the row of the headers (`Resolved`). Under it lies the
arithmetic of the frames: the frames of n bytes cover them (`FramesCover`, `FrameExtent`),
the last one ends where `CiphertextSize` says (`LastFrameEnds`), a position lies in one frame
(`PositionInFrame`), and `CiphertextSize` grows with the size (`SizesOrdered`). The provers
know little of quotients by a number that is not known, so these follow from the lemma
`Division`.

`WriteInv` is about a PUT. `Ahead` says that the bytes taken, those the reader holds and the
chunks still on the wire make up the body as it arrived; so what has been taken is its
beginning (`Begins`). With it goes what is known of a body that was staged to its end
(`Kept`): it is whole, unless its wire ended early, and unaltered where signatures or a hash
say so; and that the size which PutObject or UploadPart goes by is the body's or more.
`BodyReadIs` shows that every Read, whatever it returns, keeps `Ahead`, and that the end of
the body is told only when all of it was handed out or its wire has ended early; the chunk
readers need that no chunk but the last is empty and that chunks follow one another without
a gap (`NextChunk`). Each step of a PUT then has a lemma. That PutObject reads no further
than the declared size is enough because a body never yields more bytes than it has
(`AheadIs`): a size that counts the framing of chunks is never reached, and of a body whose
size is declared no early end is accepted. `AlterationsFound` leaves out the PutObject of
known size with a hash: `unverified_hash` shows that it has to.

Only model-checked: liveness under fairness (`ListingEnds`, `CallsEnd`, `SignalEnds`,
`StreamsEnd`), which is out of the prover's reach. Every other property of a passing run is
the statement of a theorem, under the assumptions named above.

## What the models show besides

Behaviours that the properties except, or that no property judges because nothing in the
repository says what should happen:

- the rollback of an upload (service.go:107) is given the context whose cancellation made
  the metadata write fail, so the message stays in the channel (`Rollback`);
- a body in chunks that ends between two of them, before the empty last one, is taken as
  ended: nextChunk passes on the io.EOF (sigv4.go:640-643, 663-669, 733-735). Where its size
  is declared the upload fails; where nothing declares it, the beginning that came is stored
  and answered 200. `StoredAsSent` allows this, as no line of the repository says that the
  last chunk is asked for;
- stageTemp turns ENOSPC into InsufficientStorage and its callers answer InternalError
  (handlers.go:87-94); a staged file that a crash leaves is never removed;
- a signal cancels the context the MTProto client was given (mtproto.go:79, main.go:108),
  so calls in flight fail although their requests are drained (docs/setup.md:130-131);
- a session that is lost after Open is not noticed before Close (`Disconnect`), and a signal
  while the client connects may let Open hand out a backend that was never connected, on the
  way to the shutdown;
- fsck deletes rows by bucket and key: an object overwritten between the query and the
  deletion loses its new row. It exits with 0 when a deletion was refused;
- a file cut off between two lines imports with success; after an import that failed half
  way the next one is refused until telang.db is removed; the error of the test for an
  empty database is dropped, and the test looks at buckets only;
- the headers of a ranged answer may be of an older version than its bytes.

## Not modelled

Not modelled because there is no state to check or it is byte-level formatting:
configuration, the browser UI, `init` and `reauth`, canonicalisation and the headers'
signature in sigv4, XML. ListBuckets is a single read. Of export and import the records of
multipart uploads are left out, and an import beside a running daemon. Errors of the
connection in the bot backend and all errors of the MTProto one carry no sentinel, so they
are answered 500 where storage.go:31 speaks of ErrUnavailable: answers of 5xx are one
in the models. What a chunk signature covers besides the bytes of its chunk is not modelled.
Of the bot backend's Exists two branches are left out, both of which answer false: a reference
without a file id (bot.go:242-244), which no Put of it returns, and a reply ok without a file
path (bot.go:250), which is not given for a file that resolves.
