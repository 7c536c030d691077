# Verification of workers-rs-util

TLA+ models of the programs in this repository, TLC configurations that check
them on small instances, and TLAPS proofs of what holds for every instance.
Paths below are relative to the repository's `crates/`.

## 1. Inventory

| Component | State it keeps | Operations | Interacts with |
|---|---|---|---|
| `cloudflare-shell` path utilities | none | `normalize`, `resolve_path`, `parent_path`, `path_name` | called by everything below |
| `cloudflare-shell` trait, errors, conformance suite | none | the `FileSystem` trait | implemented by `Workspace` |
| `cloudflare-shell-workspace`: files | one SQL row per path, one R2 object per spilled file, `on_change` listeners | `write_file(_bytes)`, `append_file`, `read_file(_bytes)`, `delete_file`, `cp`, `mv` | SQLite (synchronous), R2 (awaited) |
| `cloudflare-shell-workspace`: tree | rows of directories, files and symlinks | `mkdir`, `rm`, `cp`, `mv`, `symlink`, `readlink`, `list`, `stat`, `lstat`, `exists` | as above |
| `cloudflare-shell-workspace`: streams, glob, info | none of their own | `read_file_stream`, `write_file_stream`, `glob`, `get_workspace_info` | the rows |
| `cloudflare-shell-workspace`: conformance runner | none | a test harness | |
| `cloudflare-shell-rpc`: server | per Durable Object: its SQLite and a `RefCell<HashMap>` of opened Workspaces; one bucket for all objects | one handler per wire request, over service-binding RPC and HTTP | Workspace, callers |
| `cloudflare-shell-rpc`: types and client | none | encode, call, decode | the server |
| `cloudflare-shell-rpc`: build script, demos, smoke tests, benchmark | | | |
| `cf_email_worker`: `POST /send` | none | `handle_send` | email service, plugin |
| `cf_email_worker`: inbound | none | the `email` event: read, sign, POST to a webhook | webhook, the recipients of what was sent |
| `nu_plugin_email` | position in the batch | `email send`, `email config show` | the worker, over HTTP |
| `nu_plugin_cedar` | two caches, of parsed schemas and of parsed policy sets, each behind a mutex | `cedar authorize` | the cedar-policy library |

**What is hard here.** A file is in two stores that are not updated together: a
row of the object's SQLite, and above 1.5 MB an object in R2. A Durable Object
runs one task at a time, SQL calls return at once, and every `.await` of an R2
call lets another request in. R2 calls fail, sometimes after having taken
effect. The object can be evicted between any two steps. The recursive
operations (`cp -r`, `rm -r`, `mv`) await R2 once per spilled file. All Durable
Objects share one bucket. On the email side, a timeout at the plugin does not
stop the worker or the service, and the inbound handler answers `Ok(())` whatever
happens. The calls of `cedar authorize` share their caches between threads.
`PROJECT.json` lists each of these hazards at
its line.

**What makes each part correct.**

- Files: a row and an object tell the same story once nobody is at work on the
  path; a call takes effect once, between its arrival and its answer; a
  listener's view is the table's.
- Tree: recursive operations do all of their subtree and nothing else, leave no
  objects behind, and lose nothing when they fail half-way; every call ends.
- Server: namespaces are isolated although they share a bucket; acknowledged
  calls survive evictions, as far as R2 calls that outlive their object let them;
  a Workspace is bootstrapped once per lifetime.
- Email: what a reported outcome says about the message is true, also later;
  no message is sent twice; a batch ends. An inbound mail that was not forwarded
  is in the log.
- Cedar: the caches change no answer, however calls interleave, and no mutex
  stays locked.

## 2. Modules

`FileStore` ← (refined by) `WorkspaceStore`; `PathUtils` ← (used by)
`WorkspaceTree`; `EmailSend` ← (extended by, composed with the inbound handler)
`EmailFlow`; `ShellFs` and `CedarAuthorize` stand alone. Each `MC…` module adds
the constants of TLC's instances. An operator whose comment starts with
"Mutant of X" is a wrong variant of X. No specification uses it; with X replaced
by it TLC finds the property of its row in `PROJECT.json` violated, which shows
that the property depends on that piece of code.

### FileStore: what callers are promised

A map from paths to contents, and calls that are open for a while, take effect
at one instant, and answer. It is weaker than a transaction in three documented
places, all of them visible to callers: a failed or cut-off call may have taken
effect; a removal passes through "listed, without its bytes"; `mv` can be seen
half done.

### WorkspaceStore: files as rows and objects

`filesystem.rs` at the granularity of awaits. A request is a chain of segments,
and each action is the code between two R2 awaits, whole: `BeginWrite` is
`write_inner` up to the put or the late delete, `ResumePut` the upsert after the
put with its `emit`, and so on. R2's side of a call is an action of its own
(`R2Get`, `R2Put`, `R2Delete`, `R2Fails`, `R2DeleteFails`). `rows` is the table, `objects` the
bucket, `existed` the local variable that `write_inner` reads before its await
and uses after it, `mirror` the view of an `on_change` listener that adds what is
created and drops what is deleted. `Crash` is an eviction. With `LateCalls` the R2 puts and
deletes that were under way at an eviction stay in `late`, and each may take effect at
any later time (`LateLands`), also between the steps of the next life's calls. `suspect`
is a history variable: the paths on whose key an R2 call has failed, was cut off or has
landed late, since the last one that succeeded; what the code promises of the two stores
it promises of the others. `landed` (history) tells that an R2 call has landed late. `Serialize` restricts
the callers, not the code: with it no two calls on one path are in progress. `TypeOK`
ties the storage of each row to its size, on both sides of the threshold.
`PromiseKept` is `FileStore`'s specification under the refinement mapping at the
module's end, up to the first R2 call that lands after the eviction of its caller: no file
map explains a content that comes or goes with no call in progress. What is still true then,
the invariants say.

### WorkspaceTree: directories

The same code on trees, one level up from single files. Nothing is evicted in
this model: `NothingLeaks`, `ListenerKnowsTree` and `MvLosesNothing` are stated of every
instant, not of the end of calls, and both stores outlive an eviction as they are, so
they say what one would leave behind. `faulted` (history) are the paths on whose objects
an R2 put or delete has failed. `TreeStaysRooted` and `WriteThenRead` say exactly which
calls may put an entry below something that is no directory, and that a write onto a
directory or a link leaves it one (`ON CONFLICT` does not set `type`); `WriteIsRead` is
what the conformance suite says of every write, without that exception. A copy of a
directory into itself is among those calls (`Clashes`), and not only because of the limit:
`cp -r /a /a/a` with files `/a/a/a/b` and `/a/b/b` makes the file `/a/a/b` out of the first
and then, from the entry list it has taken before, an entry below it out of the second.
`OnlyItsOwn` is about each step: a call changes entries at or below the paths it names
(`Owns`), and above its destination only turns free places into directories
(`OnTheWay`). A call is a stack of jobs, one for each async function
that runs or is still to run, so `cp` of a directory pushes a job for its
entries, and `mv` a `cp` and a removal. `turn` is the request that has the
thread; it gives it up only at an R2 await. Symlinks are resolved as
`resolve_symlinks` does (last component only, hop limit, targets relative to the
link). `IsLike` is SQL's `LIKE` without `ESCAPE`, which is what `rm` uses. It compares name
by name, with `LikeAlso` the pairs of names of which one matches the other as a
pattern; that `%` can also match across a `/` is left out, so `tree_like` shows
the smaller part of what `rm` may remove. The
bucket may be unbound, also with r2 rows from the time when it was bound: reading one is
then an error, and removing one leaves its object behind, so `NothingLeaks` lets objects
without a row be there when nothing is bound. `LinksResolve` tells where a link leads in
terms of chains of links, and is what `Resolve`'s hop count is compared with. Contents are
sets of chunks, so that appending is union; `WorkspaceStore` has contents as sequences.

### ShellFs: many Durable Objects, one bucket

Callers over RPC and HTTP, token check, routing by namespace, `open_workspace`
with its cache and bootstrap, file calls with their R2 awaits, evictions of single
objects. `known` is a history variable: the contents a file may have, given the
answers its callers have had. An R2 put or delete that was under way when its object was
evicted stays in `late`, and R2 may carry it out at any later time (`LateLands`), or never:
nothing in the code waits for it or cancels it, and the next lifetime knows nothing of it. It can
therefore undo a spilled write that was acknowledged since: write a small content, evict
while its late delete is under way, write a large one, and the delete lands. `adrift` (history)
is what such calls have made of a file's object since R2 last answered a put or delete of it,
and `May` is what a file may hold: `known`, and for an r2 row `adrift`. So `FilesAreOwn`
and `AnswersAreOwn` say exactly how far an acknowledged call survives: one that leaves an
inline row or none is safe from late calls, and one that spilled is safe from all but those of
its own file. In no case does another namespace's call have a part in it.

### EmailSend: the plugin and the worker

The batch loop of `email send` and `handle_send`. Each post is an exchange of
its own, since the plugin may give up on one and start the next while the first
is still at the worker. `accepted` is the order in which the service took
messages.

`handle_send` also answers a body that is no JSON (`E_BAD_REQUEST`), and any of its
errors may go out as plain text, `err_response`'s fallback.

### EmailFlow: the replies

`EmailSend` with the `email` event handler. A recipient may answer each message the
service has accepted, also before the plugin has its result. `mail` has one record per
message id: where its handler is, whether it has logged an error, how often the webhook
took the mail in, how often the worker was killed over it (then the sender's mail server
tries again, or the mail is lost). The handler's secrets, `raw_bytes`, request and fetch
can each fail; HMAC and payload are reduced to whether both ends have the same key.

### CedarAuthorize: two caches behind mutexes

`cedar authorize` as Nushell runs it, a thread per call. Each call passes the schema
cache, if it has a schema, and then the policy cache; `Lock`, `Look`, `Insert` and
`ParseFails` are the steps of `get_or_parse_schema` and `get_or_parse_policies`, which
hold the mutex from look-up to insertion. What cedar-policy parses and accepts is a
constant, and a decision is the triple it was computed from, so that a wrong cache entry
shows in the answer. `Hash` may map two texts to one key.

## 3. Runs

| Run | Asks | Bounds, and why they suffice |
|---|---|---|
| `store_serial` | Does the row-and-object pair behave like the one-step file map, with every R2 call able to fail, an eviction, and R2 calls that land after it? Does a listener know the table? At rest, do the two stores agree, sizes included, and is every listed file readable, but for suspect paths? | 2 requests, 2 paths, contents of size 1 and 2 around a threshold of 1, 1 eviction: every pair (inline, r2) × (create, overwrite, shrink, grow, remove, move), each cut at each step, and the R2 call of one that is cut off lands at each step of one on the same path. No append to a readable spilled file is sent (`MaxSize` 2); one to a file that has lost its object is, and a copy takes the same way through `get` and `put` |
| `store_inline` | Is the await of the late delete harmless if nothing spills? | any overlap of 2 requests, also on one path; contents of sizes 0 to 2, all below the threshold |
| `store_race` | *violation* of `ReadableAtRest`: see findings | any overlap, both sides of the threshold, no fault |
| `tree_seq` | Every mutating call with every argument on every tree, each R2 call able to fail: what each call adds up to, that no step of it touches what is not its own, that it ends, where links lead | 2 names, 2 levels, up to 3 entries of every kind besides the root with a bucket and up to 2 without, links relative, through `..` and with a target that is too long; `MaxSymlinkDepth` 2 reaches a chain at the limit and one above it; paths of 2 names, so that `cp -r` into itself hits the limit. One call: a fault in it is followed by nothing |
| `tree_overlap` | Which of these do two recursive calls on disjoint subtrees leave each other (not what compares with the whole tree: `RmExact`, `TreeStaysRooted`), interleaved at each await, each R2 call able to fail | 2 requests, 3 names: the directory `a` with one or two spilled files or with an empty directory beside one, the free place `b`, and `c` free, a spilled file or a directory with one. So `a` is copied or moved whole to `b`, with success or a failure half-way, while the other call writes, copies, moves or removes at or below `c`; with 2 names a `cp` or `mv` of a directory would take both, and the callers' rule keeps other calls out |
| `tree_like` | *violation* of `RmExact`: see findings | a fresh Workspace, 3 calls |
| `tree_mv` | *violation* of `MvArrives`: see findings | a fresh Workspace, 2 calls |
| `tree_write` | *violation* of `WriteIsRead`: see findings | a fresh Workspace, 2 calls |
| `shellfs` | Isolation of namespaces, across evictions, late R2 calls, R2 faults and both transports | 2 clients, 3 namespaces (empty, valid, invalid), one path, a small and a large content, 1 eviction: a call of each kind is cut off at each step, and its R2 call lands at each step of the calls after it |
| `shellfs_default` | *violation* of `FilesAreOwn`: see findings | the namespaces `""` and `"default"`, no faults |
| `email` | What reported outcomes say; whether the log tells what was lost; the batch ends | 2 records, any of them malformed, every configuration of both ends and the webhook, each mail may kill the worker once; 2 records are needed for a late answer to meet the next post, 1 death for a mail to be taken in twice |
| `cedar` | Do the caches change an answer? Is a text parsed twice, does a mutex stay locked? | 2 threads, 3 texts of which 1 does not parse and shares its hash with one that does, any sequence of records and restarts of the plugin: the state space is finite without a bound |

Bounds in the models: `MaxSize` (no append is sent that would grow a file
further), `MaxCrashes`, `MaxEvictions`, `MaxDeaths` (per mail), `MaxCalls` (calls that arrive), `MaxDepth`
(stands for `MAX_PATH_LENGTH`). Permutations of requests, paths, chunks, clients
or names are symmetries where the configuration says `SYMMETRY`; no run that
checks a liveness property uses one. `PromiseKept` is a safety property, so
symmetry is sound for it. Deadlock is checked in every run. `Finished` and
`Ended` are the only steps that stand for a system at rest: all of the run's
calls have been made, or the command has ended.

**Fairness.** `tree_seq` (`FairSpec`): the isolate runs a task that can go on,
and an R2 call is answered, perhaps with an error. That is what the Workers
runtime and the R2 binding do; arrivals are not fair. `email`: only the plugin is
fair, because every HTTP call it makes has a timeout (`send.rs`); network, worker,
service and webhook may do nothing at all. `cedar`: a call that holds a mutex goes on, since
parsing ends; nothing is assumed of who gets a mutex, for `std::sync::Mutex` promises
nothing.

## 4. Findings

Each is a `violation` run, with the quoted line in `PROJECT.json`.

1. **A late delete removes the object of a later write** (`store_race`,
   `filesystem.rs:634`). `write_inner` deletes the path's R2 key after every
   inline write and awaits that. A large write of the same path that completes
   while the delete is under way loses its object: both calls succeed, the file
   is listed, and reading it gives nothing.
2. **`rm` of a directory removes entries of other directories** (`tree_like`,
   `filesystem.rs:804`). The `LIKE` pattern is not escaped and ignores case.
3. **`mv` of a path onto itself deletes it** (`tree_mv`, `filesystem.rs:951`),
   and so does `mv` of a directory into its own subtree; both report success.
4. **A write onto a directory is acknowledged and cannot be read** (`tree_write`,
   `filesystem.rs:609`). The upsert keeps the row's `type`, so the bytes go into the
   directory's row and `read_file` refuses it; a write onto a symlink stores them in
   the link's row, and `read_file` follows the link.
5. **The namespaces `""` and `"default"` share R2 keys** (`shellfs_default`,
   `do_obj.rs:123`). They are two Durable Objects with two tables, and the
   Workspace in both is named `default`.

Seen while modelling, and not a run that expects a violation: `mkdir` on an existing
file succeeds and changes nothing; a file is accepted as a parent directory by
`ensure_parent_dirs` (`TreeStaysRooted` says which calls do this and that no other does).
Without a bucket the removal of an r2 row leaves its object behind for good, should the
bucket be bound again. An R2 call that outlives its evicted object can undo a spilled write
acknowledged since (`May` in `ShellFs`). `rm -r /` removes the root's own row until the
next bootstrap. Two comments in `cf_email_worker/src/lib.rs` (217-219 and 280) differ on whether
the sender's SMTP transaction is held up by the handler; the model needs neither.

## 5. Proofs

For any sets of requests, paths, contents, clients, namespaces, threads and texts, any
threshold and batch size, any number of evictions and deaths. The constants are assumed
to be what the modules' `ASSUME`s say: payloads are sequences of chunks, special values
differ from what they are told apart from.

| Module | Theorem | Says | Under |
|---|---|---|---|
| `WorkspaceStoreProofs` | `TypeCorrect` | `[]TypeOK` | nothing more: any overlap, faults, evictions |
| | `ListenerAgrees` | `[]ListenerAgreesAtRest` | `Serialize` |
| | `StoresAgree` | `[]StoresAgreeAtRest` | `Serialize` |
| | `FilesReadable` | `[]ReadableAtRest` | `Serialize` |
| | `ImplementsFileStore` | `PromiseKept` | `Serialize` |
| `WorkspaceTreeProofs` | `TreeTypeCorrect` | `[]TypeOK` | nothing more |
| | `TreeNothingLeaks`, `TreeListenerKnows` | `[]NothingLeaks`, `[]ListenerKnowsTree` | `Serialize`, `LikeAlso = {}` |
| `WorkspaceTreeSteps` | `TreeOnlyItsOwn` | `OnlyItsOwn` | `LikeAlso = {}`: any overlap |
| | `TreeWriteThenRead` | `[]WriteThenRead` | `Serialize`, `LikeAlso = {}` |
| | `TreeRmExact` | `[]RmExact` | one caller, `LikeAlso = {}` |
| `WorkspaceTreeCopies` | `TreeCopyExact`, `TreeMvLosesNothing` | `[]CopyExact`, `[]MvLosesNothing` | `Serialize`, `LikeAlso = {}` |
| `WorkspaceTreeRoots` | `TreeRootsKept` | `[]TreeStaysRooted` | one caller, `LikeAlso = {}` |
| `ShellFsProofs` | `NamespacesAreIsolated`, `AnswersAreIsolated` | `[]FilesAreOwn`, `[]AnswersAreOwn` | `Separate`: not both `""` and `"default"` are used |
| | `ShellTypeCorrect`, `OneBootstrap` | `[]TypeOK`, `[]CacheIsSound` | `Separate` |
| `EmailProofs` | `EmailTypeCorrect`, `DeliveriesAreAccepted`, `RefusalsAreFinal`, `AcceptedAtMostOnce` | the four invariants of `EmailSend`, in `FlowSpec` | nothing more |
| | `LossesAreLogged`, `DuplicatesAreDeaths` | the two of `EmailFlow` | nothing more |
| `CedarProofs` | `TypeCorrect`, `CachesInvisible`, `TextsParsedOnce` | the three invariants of `CedarAuthorize` | nothing more |

### WorkspaceStore

`TypeOK` is inductive as it is: a row's storage goes with its size (`Row`), a busy request
has a call, and what a request holds while it puts is above the threshold.

"At rest" properties are not inductive: they say nothing of a path that is in
use. `ListenerInv` adds, to agreement at rest, `Exclusive` (two busy requests
name no common path, which `Serialize` gives) and, for each step of a request,
what is known of the path in its hands (`ListenerLocal`: `existed` is still
right after the await, a row that is to be removed is still listed). `StoresInv` is
built the same way with `StoresLocal`. The frame lemmas (`ListenerFrame`,
`StoresFrame`) say that a step of one request which touches only its own paths
keeps the invariants of the others; the lemmas named after operators
(`WriteInner…`, `RmSingle…`, `Written…`, `Fetched…`) say what a segment leaves
behind, once for all actions that end in it. The theorems then have one step per
action. An eviction and a late R2 call only add suspects, so they cost no assumption.
`Serialize` is needed: `store_race` is a counterexample without it.

The refinement rests on `RefineInv`: the bytes a request has read are still those of its
source when it puts or stores them, and those it has put are in the object when it sets the
row. `Alone` says that a step of one request does not move the others for `FileStore`; one
lemma per step of `FileStore` (`StoreStep`, `RemoveStep`, `RenameStep`, …) says from what
change of one file, phase and answer it follows; and `Kept` (the invariant again, and a
step of `FileStore` or none) is proved segment by segment. A late R2 call can bring back an
older content of an acknowledged file, so `PromiseKept` ends with the first one, and what is
inductive is `Faithful`: `RefineInv`, or one has landed. What still holds then is in
`StoresAgree` and `FilesReadable`, which need no such exception.

### WorkspaceTree

`TypeInv` says of each job on a stack that it is one of its call's own (`Own`): what it
changes lies at or below a path the call names, so long as `LIKE` matches equal names
only. Paths get longer while `cp` goes down, so jobs name sequences of names and `TooLong`
is the way out. `TreeInv` has, for every path, that its row, object and listener
agree or that the request which changes it is waiting for R2, and what is then known of
it (`AwaitLocal`): the row to be removed is listed and has no object left, `existed` is
still right. A call also makes rows above its paths, where other calls may have rows;
`KeysApart` says why it still meets no path another one waits for: of two paths above a
third one is above the other (`AboveLinear`). `StepKeepsTree` is the frame, with one lemma
per way a segment ends and `DirsSettled` for the directories made on the way. The tables
to start from are assumed to agree with the bucket (`SeedAssumption`). What the two
theorems assume is what the proof turns on: a `LIKE` with a wildcard in the name takes `rm`
to rows outside its own subtree (`tree_like`), where another call may be waiting, and two
calls on one path disturb each other as in `store_race`.

`WorkspaceTreeSteps` is about what the steps of a call add up to. `ShapeInv` says which
jobs a stack can hold: the stack of a call of each kind is a chain of entries to copy and
at most one job above them (`Stacks`), copies stay below the call's source and destination
(`Bases`), and `rows` holds paths at or below the call's own. `StepCases` takes a step of
any request apart into the request, the job it does and the jobs that are left, and
`Touches` says which rows that job may change; `TreeOnlyItsOwn` follows from the two, with
overlapping calls and failures. From it, `OthersKept`: while a call runs, no other
serialized call changes an entry at or below its paths. `CallInv` ties a running call to
the tree it found (`before`).

`WriteInv` says, for each job of a write or an append, that the row is still the one it
found, and that an R2 put or delete it waits for leaves the object it needs. `RmInv` says
that the rows of the subtree which are not on the list `rm` took (`ToRemove`) are gone,
and that everything else is as it was; the induction over the subtree's entries is the
induction over steps, since each takes one row off the list. It needs that no one else
makes a row in the subtree after the list was taken, and `RmExact` compares with the whole
tree `rm` found, so it is proved for one caller (`OneCaller`): another call's rows would
count as its own.

`WorkspaceTreeCopies` is about a whole `cp` or `mv` of a subtree of any size. `Reached` are
the entries the copy gets to (those in directories all the way from the source), and
`To(r, q)` is where the entry `q` goes. `CopyInv` says of a running copy to a free place
(`Fresh`): each reached entry is at its place as it was, or a job on the stack `Covers` that
place (a `cp` of the entry or of one above it, an entry list with one of its names still to
do, the write or link of that entry); what a job holds in hand is a reached entry as it was
(`JobOk`); what lies at a place already is of the right kind (`Typed`: a directory is made
before its entries, and `ensure_parent_dirs` may have made it first); an R2 call it waits for
has the bytes of that entry (`WaitOk`). So when the stack is empty all entries are there, and
no induction over the tree is needed. `SourceKept`, the source is as it was, holds up to the
removal that ends a `mv`, and then each row it still has to remove is already at its place
(`CopyRemoving`); a `mv` that fails before has `SourceKept` still, which is
`MvLosesNothing`. Both survive calls elsewhere by `OthersKept`. That two entries never meet at
one place, and that places are ordered as the entries are, are facts about sequences
(`RebasedOrder`, `PlacesApart`).

`WorkspaceTreeRoots` shows that a tree whose entries are in directories stays one. While a
call makes entries the tree is rooted at every instant (`RootedBut({})`), and `RootInv`
gives the reasons: no place of the call is below a file or a link (`Open`), what a copy is
of keeps its kind (`SourceTypes`), every job on the stack makes an entry at one of the
call's `Places`, of the kind that goes there (`JobFits`), and a row that waits for its
object has its directories already (`PutReady`). To make an entry (`Puts`) keeps all that
(`PutKeeps`, `PutKeepsSource`). While a call removes rows, which it does in no particular
order, an entry may have lost its directory, but only one that is on the list of those to
go: the tree is rooted but for the list (`RootedBut(paths)`), and when the list is empty it is
rooted. It is proved for one caller: the property excuses what a call itself asks for, found
in its own `before`, and another call may ask for an entry below a file in the meantime.

An entry list is a sequence made from a set of names, and a resolved link the end of a
recursive function; both are defined with `CHOOSE` or by recursion over a number. The
prover has no induction over data, but the library's well-founded minimum can be cited
for a set, and `LeastNumber` turns it into "a set of numbers that is not empty has a
least one"; `ResolveNoLink` (a path that is no link resolves to itself) is proved with it.

### ShellFs

`ShellInv` says of each file that nobody is at work on that a read of it gives a member
of `known`, or of `adrift` if it has spilled (`Holds`, `Loose`), and of each call in
progress what is known of its file by the step it is at (`Fits`, a predicate of row, object,
`known` and `adrift` alone): a put that has landed may already show through the old row, a
removal may have lost the object of a row it has not removed yet. `Moves` is the frame: a
step of a call changes its own file's row and object only. That is where `Separate` enters
(`KeysDiffer`): with both `""` and `"default"` two files have one key. `CutOff` says that
every step inside an object may be the last one; `LateFits` that what is known of a file
survives a late call on its object, which is then one more value in `adrift`; and `AnswerStep`
that the answer restores `Holds`.

### EmailSend and EmailFlow

`EmailInv` adds to the properties that posts are made in the order of the items
(`InOrder`), one for each item, and what each exchange's stage implies (`Sound`): before
the service has decided the item is not among the accepted ones, and an answer on its
way is `Honest`. An honest answer makes a truthful result (`ResultTold`), because the
codes that `from_error_code` maps to a refusal are exactly those of errors after which
nothing was sent (`OutcomesOfCodes`). `FlowInv` adds the counts of each mail (`Counted`).

### CedarAuthorize

The invariant says that an entry under a key is a parsed text with that key, that a
thread between `lock()` and the drop of its guard has the mutex, and that what the others
hold has the hash of their own text.

**Only model-checked:** liveness (`CallsEnd`, `BatchEnds`, `LocksAreReleased`), which the
prover does not cover. `RmExact` and `TreeStaysRooted` are neither checked nor proved for
more than one caller: they compare with the whole tree a call found. `LinksResolve` is a
comparison of a recursive function with chains of any length, an induction over data. What then still holds
is in `OnlyItsOwn`, `NothingLeaks` and `CopyExact`.

## 6. Not modelled, and why

- Streams, glob, workspace info: no state of their own. The streams buffer whole files
  into the modelled read and write; `glob` and `get_workspace_info` are single queries.
- Contents of errors, MIME types, timestamps, encodings, base64, logging: no
  property depends on them. SQL and JSON text likewise, the `LIKE` pattern
  excepted.
- `--dry-run`, `email config show`: nothing is sent.
- Build script, demos, smoke tests, benchmark, conformance runner: tooling.

## 7. Plan

Done: `FileStore`, `WorkspaceStore` with late R2 calls, its type and safety proofs and the
proof of the refinement;
`PathUtils`, `WorkspaceTree` and the proofs of what holds at every instant of a recursive
call, at each of its steps, and after a write, an `rm`, a `cp` or a `mv`, and that entries
stay in directories; `ShellFs` and the proof of isolation; `EmailSend`, `EmailFlow` and
their proofs; `CedarAuthorize` and its proofs.

Left, in this order:

1. What an overlap on one path still guarantees when contents spill.
2. `list`, `glob` and `stat` on the rows of `WorkspaceTree`; an abstract tree (a map from
   paths to entries) that it implements when no R2 call fails.
