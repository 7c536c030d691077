---------------------------- MODULE WorkspaceTree ----------------------------
(***************************************************************************)
(* The directory tree of one Workspace (crates/cloudflare-shell-workspace/ *)
(* src/filesystem.rs): mkdir, write, append, rm, delete_file, cp, mv and   *)
(* symlink on rows that are directories, files or symlinks, with spilled   *)
(* files in R2.                                                            *)
(*                                                                         *)
(* A call is a stack of jobs, one for each async function that is running  *)
(* or still to run: cp of a directory leaves a job for its entries, mv a   *)
(* cp and a removal. The object's thread is with one request (`turn`) from *)
(* one R2 await to the next, so the jobs in between run without another    *)
(* request seeing them. A path is the sequence of its names; a content is  *)
(* the set of the chunks in it, so that appending is union; a path longer  *)
(* than MaxDepth stands for one that is longer than MAX_PATH_LENGTH.       *)
(***************************************************************************)
EXTENDS Naturals, Sequences, FiniteSets, PathUtils

CONSTANTS
  Request,          \* the requests the object can be serving at the same time
  Name,             \* the names in paths
  MaxDepth,         \* the longest path normalize_path accepts, in names
  Chunk,            \* units of content
  Large,            \* the chunks that put a content above the spill threshold
  Target,           \* symlink targets: [abs : BOOLEAN, segs : Seq(Name \cup {Up})]
  MaxSymlinkDepth,  \* MAX_SYMLINK_DEPTH
  LikeAlso,         \* <<n, m>>: the name n, in a LIKE pattern, also matches m
  Seed,             \* what the object may find when it starts: rows, objects, and a bucket or none
  Asked,            \* the calls that arrive
  R2Faults,         \* R2 calls may fail
  Serialize,        \* callers never have calls on the same subtree in progress
  MaxCalls,         \* bound: how many calls arrive
  Absent, NoRow, NoTarget, NoCall, NoAwait, Nobody, None, Loop, Illegal

Path == UNION {[1..n -> Name] : n \in 0..MaxDepth}
Content == SUBSET Chunk

ASSUME TreeAssumption ==
  /\ MaxDepth \in Nat /\ MaxSymlinkDepth \in Nat /\ MaxCalls \in Nat
  /\ R2Faults \in BOOLEAN /\ Serialize \in BOOLEAN
  /\ Large \subseteq Chunk /\ LikeAlso \subseteq Name \X Name

VARIABLES
  bucket,   \* whether an R2 bucket is bound
  rows,     \* the SQL table
  objects,  \* the R2 bucket
  mirror,   \* the paths an on_change listener believes to exist
  turn,     \* the request that has the thread
  status,   \* of each request: idle | running | ok | failed
  call,     \* the call it serves
  jobs,     \* what it still has to do
  await,    \* the R2 call it waits for
  before,   \* history: the tree when the call arrived
  faulted,  \* history: the paths on whose objects an R2 put or delete has failed
  calls     \* how many calls have arrived

vars ==
  <<bucket, rows, objects, mirror, turn, status, call, jobs, await, before, faulted, calls>>

----------------------------------------------------------------------------
(* Paths. *)

IsAbove(p, q) == Len(p) < Len(q) /\ SubSeq(q, 1, Len(p)) = p
AtOrAbove(p, q) == p = q \/ IsAbove(p, q)
Apart(p, q) == ~AtOrAbove(p, q) /\ ~AtOrAbove(q, p)

\* The directories ensure_parent_dirs makes for p: those above it, without the root.
DirsAbove(p) == {SubSeq(p, 1, n) : n \in 1..(Len(p) - 1)}

\* dst with the names of q below src.
Rebased(q, src, dst) == dst \o SubSeq(q, Len(src) + 1, Len(q))

----------------------------------------------------------------------------
(* Rows. *)

Row == [type : {"directory", "file", "symlink"}, storage : {"inline", "r2"},
        content : Content, target : Target \cup {NoTarget}]

DirRow == [type |-> "directory", storage |-> "inline", content |-> {}, target |-> NoTarget]
FileRow(store, c) == [type |-> "file", storage |-> store, content |-> c, target |-> NoTarget]
LinkRow(tgt) == [type |-> "symlink", storage |-> "inline", content |-> {}, target |-> tgt]

Spills(c) == c \cap Large # {}
Has(t, p) == p \in Path /\ t[p] # NoRow
TypeOf(t, p) == IF Has(t, p) THEN t[p].type ELSE "none"
InR2(t, p) == Has(t, p) /\ t[p].storage = "r2"

\* The object starts with tables of rows whose objects are in the bucket, and with nothing
\* else there. The bucket may be unbound, also when there are r2 rows from earlier.
ASSUME SeedAssumption ==
  /\ NoRow \notin Row /\ Nobody \notin Request /\ \A c \in Content : c # Absent
  /\ \A s \in Seed :
       /\ s.bucket \in BOOLEAN
       /\ s.rows \in [Path -> Row \cup {NoRow}] /\ s.objects \in [Path -> Content \cup {Absent}]
       /\ \A p \in Path : s.objects[p] # Absent <=> InR2(s.rows, p)

\* The rows with this parent_path; the root's own is ''.
Children(t, p) == {q \in Path : Has(t, q) /\ q # Root /\ ParentPath(q) = p}

\* Mutant of IsLike: the entries of p only, not those further down.
IsLikeChild(p, q) == Len(q) = Len(p) + 1 /\ IsAbove(p, q)

\* path LIKE '<p>/%', without ESCAPE and as case-blind as SQLite's LIKE.
IsLike(p, q) ==
  /\ Len(p) < Len(q)
  /\ \A i \in 1..Len(p) : p[i] = q[i] \/ <<p[i], q[i]>> \in LikeAlso

\* insert_dir for each path of S: ON CONFLICT DO NOTHING.
WithDirs(t, S) == [q \in Path |-> IF q \in S /\ t[q] = NoRow THEN DirRow ELSE t[q]]

\* Mutant of Upsert: ON CONFLICT does not set storage_backend either.
UpsertKeepsBackend(t, p, store, c) ==
  [t EXCEPT ![p] = IF Has(t, p) THEN [t[p] EXCEPT !.content = c] ELSE FileRow(store, c)]

\* Mutant of Upsert: ON CONFLICT sets the type as well.
UpsertSetsType(t, p, store, c) ==
  [t EXCEPT ![p] = FileRow(store, c)]

\* write_inner's upserts: ON CONFLICT sets neither type nor target.
Upsert(t, p, store, c) ==
  [t EXCEPT ![p] = IF Has(t, p) THEN [t[p] EXCEPT !.storage = store, !.content = c]
                                ELSE FileRow(store, c)]

\* symlink's upsert: ON CONFLICT sets type and target only.
UpsertLink(t, p, tgt) ==
  [t EXCEPT ![p] = IF Has(t, p) THEN [t[p] EXCEPT !.type = "symlink", !.target = tgt]
                                ELSE LinkRow(tgt)]

\* Mutant of Resolve: the depth is compared with `>=`, so that a chain of MaxSymlinkDepth links
\* is too long.
ResolveOneFewer(t, p) ==
  LET IsLink(q) == TypeOf(t, q) = "symlink" /\ t[q].target # NoTarget
      Follow(q) == ResolvePath(ParentPath(q), t[q].target)
      hop[n \in 0..MaxSymlinkDepth] ==
        IF n = 0 THEN p
        ELSE IF IsLink(hop[n - 1]) THEN Follow(hop[n - 1]) ELSE hop[n - 1]
      last == hop[MaxSymlinkDepth]
  IN IF IsLink(hop[MaxSymlinkDepth - 1]) THEN Loop ELSE IF Has(t, last) THEN last ELSE None

\* resolve_symlinks(p, 0): the last component only, None when a row is missing.
Resolve(t, p) ==
  LET IsLink(q) == TypeOf(t, q) = "symlink" /\ t[q].target # NoTarget
      Follow(q) == ResolvePath(ParentPath(q), t[q].target)
      hop[n \in 0..MaxSymlinkDepth] ==
        IF n = 0 THEN p
        ELSE IF IsLink(hop[n - 1]) THEN Follow(hop[n - 1]) ELSE hop[n - 1]
      last == hop[MaxSymlinkDepth]
  IN IF IsLink(last) THEN Loop ELSE IF Has(t, last) THEN last ELSE None

\* What read_file_bytes(p) returns with a bucket, R2 willing; Illegal stands for its errors.
ReadOf(t, objs, p) ==
  LET q == Resolve(t, p) IN
  CASE q = None -> Absent
    [] q = Loop -> Illegal
    [] q \notin {None, Loop} /\ TypeOf(t, q) # "file" -> Illegal
    [] q \notin {None, Loop} /\ TypeOf(t, q) = "file" ->
         IF InR2(t, q) THEN objs[q] ELSE t[q].content

OrEmpty(v) == IF v = Absent THEN {} ELSE v

\* An entry as a caller knows it: what it is, where it points, what it holds.
Entry(t, objs, p) ==
  IF ~Has(t, p) THEN NoRow
  ELSE [type   |-> t[p].type,
        target |-> IF t[p].type = "symlink" THEN t[p].target ELSE NoTarget,
        bytes  |-> IF t[p].type # "file" THEN {}
                   ELSE IF InR2(t, p) THEN objs[p] ELSE t[p].content]

Tree(t, objs) == [p \in Path |-> Entry(t, objs, p)]

ASSUME EntryAssumption ==
  /\ None \notin Path /\ Loop \notin Path /\ None # Loop
  /\ NoRow \notin [type : {"directory", "file", "symlink"}, target : Target \cup {NoTarget},
                    bytes : Content \cup {Absent}]
----------------------------------------------------------------------------
(* Calls. cp and rm take their options; the other options are in `op`. *)

Call ==
  [do : {"write"}, dst : Path, data : Content]
    \cup [do : {"append"}, dst : Path, data : Content]
    \cup [do : {"mkdir", "mkdir_p"}, dst : Path]
    \cup [do : {"symlink"}, dst : Path, target : Target]
    \cup [do : {"delete_file"}, src : Path]
    \cup [do : {"rm"}, src : Path, recursive : BOOLEAN, force : BOOLEAN]
    \cup [do : {"cp"}, src : Path, dst : Path, recursive : BOOLEAN]
    \cup [do : {"mv"}, src : Path, dst : Path]

\* The paths a call names.
PathsOf(c) ==
  CASE c.do \in {"cp", "mv"}          -> {c.src, c.dst}
    [] c.do \in {"rm", "delete_file"} -> {c.src}
    [] OTHER                          -> {c.dst}

ASSUME CallAssumption == Asked \subseteq Call

\* What is left of a call besides calls.
FetchJob(src, dst, data) == [do |-> "fetch", src |-> src, dst |-> dst, data |-> data]
EntriesJob(src, dst, names) == [do |-> "entries", src |-> src, dst |-> dst, names |-> names]
RowsJob(paths) == [do |-> "rows", paths |-> paths]
CpJob(src, dst, rec) == [do |-> "cp", src |-> src, dst |-> dst, recursive |-> rec]
RmJob(src) == [do |-> "rm", src |-> src, recursive |-> TRUE, force |-> TRUE]
WriteJob(dst, c) == [do |-> "write", dst |-> dst, data |-> c]

\* An R2 call on the object of path `key`: its bytes, and write_inner's `existed`.
AwaitOf(r2op, key, data, existed) ==
  [op |-> r2op, key |-> key, data |-> data, existed |-> existed, landed |-> FALSE]

\* What a request can be waiting for.
Await ==
  [op : {"get", "put", "drop", "rmobj"}, key : Path, data : Content \cup {Absent},
   existed : BOOLEAN, landed : BOOLEAN]

ASSUME AwaitAssumption == NoAwait \notin Await

Init ==
  /\ \E s \in Seed :
       /\ bucket = s.bucket /\ rows = s.rows /\ objects = s.objects
       /\ mirror = {p \in Path : Has(s.rows, p)}
  /\ turn = Nobody
  /\ status = [r \in Request |-> "idle"]
  /\ call = [r \in Request |-> NoCall]
  /\ jobs = [r \in Request |-> <<>>]
  /\ await = [r \in Request |-> NoAwait]
  /\ before = [r \in Request |-> NoCall]
  /\ faulted = {}
  /\ calls = 0

\* The request goes on with the jobs js; with none left its call has succeeded.
Continue(r, js) ==
  /\ jobs' = [jobs EXCEPT ![r] = js]
  /\ status' = [status EXCEPT ![r] = IF js = <<>> THEN "ok" ELSE "running"]
  /\ turn' = IF js = <<>> THEN Nobody ELSE r
  /\ await' = [await EXCEPT ![r] = NoAwait]
  /\ UNCHANGED <<bucket, call, before, calls>>

\* Mutant of Stop: what was left to do is not dropped.
StopKeepsJobs(r) ==
  /\ status' = [status EXCEPT ![r] = "failed"]
  /\ turn' = Nobody
  /\ await' = [await EXCEPT ![r] = NoAwait]
  /\ UNCHANGED <<bucket, call, jobs, before, calls>>

\* An error, passed up by every `?` of the call.
Stop(r) ==
  /\ jobs' = [jobs EXCEPT ![r] = <<>>]
  /\ status' = [status EXCEPT ![r] = "failed"]
  /\ turn' = Nobody
  /\ await' = [await EXCEPT ![r] = NoAwait]
  /\ UNCHANGED <<bucket, call, before, calls>>

\* The request awaits the R2 call w and gives up the thread.
Wait(r, w) ==
  /\ await' = [await EXCEPT ![r] = w]
  /\ turn' = Nobody
  /\ UNCHANGED <<bucket, status, call, jobs, before, calls>>

\* Mutant of New: directories made on the way are not reported.
NewUnreported(S) == {}

\* insert_dir emits Create for what had no row.
New(S) == {q \in S : rows[q] = NoRow}

NoChange == UNCHANGED <<rows, objects, mirror>>

\* The request has the thread, and its next job is to do `what`.
Runs(r, what) == turn = r /\ Head(jobs[r]).do = what

Rest(r) == Tail(jobs[r])

----------------------------------------------------------------------------
(* Jobs. *)

\* normalize_path of a path that grew too long.
TooLong(r) ==
  /\ Runs(r, "cp") /\ Head(jobs[r]).dst \notin Path
  /\ Stop(r) /\ NoChange

\* write_inner up to its first await.
Write(r) ==
  LET j == Head(jobs[r])
      p == j.dst
      t == WithDirs(rows, DirsAbove(p))
      m == mirror \cup New(DirsAbove(p))
  IN
  /\ Runs(r, "write")
  /\ \/ p = Root /\ Stop(r) /\ NoChange
     \/ /\ p # Root /\ Spills(j.data) /\ ~bucket
        /\ rows' = t /\ mirror' = m /\ UNCHANGED objects
        /\ Stop(r)
     \/ /\ p # Root /\ Spills(j.data) /\ bucket
        /\ rows' = t /\ mirror' = m /\ UNCHANGED objects
        /\ Wait(r, AwaitOf("put", p, j.data, Has(t, p)))
     \/ /\ p # Root /\ ~Spills(j.data)
        /\ rows' = Upsert(t, p, "inline", j.data) /\ UNCHANGED objects
        /\ \/ bucket /\ mirror' = m /\ Wait(r, AwaitOf("drop", p, {}, Has(t, p)))
           \/ ~bucket /\ mirror' = m \cup New({p}) /\ Continue(r, Rest(r))

\* Mutant of AppendFile: the file that the path leads to is written, too.
AppendFollowsLink(r) ==
  LET j == Head(jobs[r])
      q == Resolve(rows, j.dst)
  IN
  /\ Runs(r, "append")
  /\ Continue(r, <<FetchJob(j.dst, IF q \in Path THEN q ELSE j.dst, j.data)>> \o Rest(r))
  /\ NoChange

\* append_file: read the file that the path leads to, write the path.
AppendFile(r) ==
  LET j == Head(jobs[r]) IN
  /\ Runs(r, "append")
  /\ Continue(r, <<FetchJob(j.dst, j.dst, j.data)>> \o Rest(r)) /\ NoChange

\* read_file_bytes for append and cp, and the write that follows in the same segment.
Fetch(r) ==
  LET j == Head(jobs[r])
      v == ReadOf(rows, objects, j.src)
      q == Resolve(rows, j.src)
  IN
  /\ Runs(r, "fetch")
  /\ \/ v = Illegal /\ Stop(r)
     \/ v # Illegal /\ InR2(rows, q) /\ ~bucket /\ Stop(r)
     \/ v # Illegal /\ InR2(rows, q) /\ bucket /\ Wait(r, AwaitOf("get", q, {}, FALSE))
     \/ /\ v # Illegal /\ ~InR2(rows, q)
        /\ Continue(r, <<WriteJob(j.dst, OrEmpty(v) \cup j.data)>> \o Rest(r))
  /\ NoChange

\* mkdir: the parent has to be a directory; mkdir -p makes what is missing.
Mkdir(r) ==
  LET j == Head(jobs[r])
      p == j.dst
      S == IF j.do = "mkdir_p" THEN DirsAbove(p) \cup {p} ELSE {p}
  IN
  /\ (Runs(r, "mkdir") \/ Runs(r, "mkdir_p"))
  /\ \/ p = Root /\ Continue(r, Rest(r)) /\ NoChange
     \/ /\ p # Root /\ j.do = "mkdir" /\ ParentPath(p) # Root
        /\ TypeOf(rows, ParentPath(p)) # "directory"
        /\ Stop(r) /\ NoChange
     \/ /\ p # Root
        /\ j.do = "mkdir_p" \/ ParentPath(p) = Root \/ TypeOf(rows, ParentPath(p)) = "directory"
        /\ rows' = WithDirs(rows, S) /\ mirror' = mirror \cup New(S) /\ UNCHANGED objects
        /\ Continue(r, Rest(r))

\* A target longer than MAX_PATH_LENGTH.
LongTarget(tgt) == tgt # NoTarget /\ Len(tgt.segs) > MaxDepth

Symlink(r) ==
  LET j == Head(jobs[r])
      p == j.dst
  IN
  /\ Runs(r, "symlink")
  /\ \/ LongTarget(j.target) /\ Stop(r) /\ NoChange
     \/ /\ ~LongTarget(j.target)
        /\ rows' = UpsertLink(WithDirs(rows, DirsAbove(p)), p, j.target)
        /\ mirror' = mirror \cup New(DirsAbove(p)) \cup {p}
        /\ UNCHANGED objects
        /\ Continue(r, Rest(r))

DeleteFile(r) ==
  LET j == Head(jobs[r]) IN
  /\ Runs(r, "delete_file")
  /\ \/ TypeOf(rows, j.src) = "none" /\ Continue(r, Rest(r))
     \/ TypeOf(rows, j.src) = "directory" /\ Stop(r)
     \/ /\ TypeOf(rows, j.src) \in {"file", "symlink"}
        /\ Continue(r, <<RowsJob({j.src})>> \o Rest(r))
  /\ NoChange

\* rm: a directory goes with all the rows its LIKE pattern matches, as they are now.
Rm(r) ==
  LET j == Head(jobs[r])
      p == j.src
      matched == {q \in Path : Has(rows, q) /\ (q = p \/ IsLike(p, q))}
  IN
  /\ Runs(r, "rm")
  /\ \/ ~Has(rows, p) /\ j.force /\ Continue(r, Rest(r))
     \/ ~Has(rows, p) /\ ~j.force /\ Stop(r)
     \/ TypeOf(rows, p) \in {"file", "symlink"} /\ Continue(r, <<RowsJob({p})>> \o Rest(r))
     \/ /\ TypeOf(rows, p) = "directory" /\ ~j.recursive /\ Children(rows, p) # {}
        /\ Stop(r)
     \/ /\ TypeOf(rows, p) = "directory" /\ (j.recursive \/ Children(rows, p) = {})
        /\ Continue(r, <<RowsJob(matched)>> \o Rest(r))
  /\ NoChange

\* The rm_single of p is done: the row goes, and the rows job has the others left.
RowGone(r, p, left) ==
  /\ rows' = [rows EXCEPT ![p] = NoRow]
  /\ mirror' = mirror \ {p}
  /\ UNCHANGED objects
  /\ Continue(r, (IF left = {} THEN <<>> ELSE <<RowsJob(left)>>) \o Rest(r))

\* Mutant of RmSingle: the row goes, its object stays.
RmSingleKeepsObject(r) ==
  /\ Runs(r, "rows")
  /\ \E p \in Head(jobs[r]).paths : RowGone(r, p, Head(jobs[r]).paths \ {p})

\* rm_single of the next row, in any order: the SELECT of rm has no ORDER BY.
RmSingle(r) ==
  LET j == Head(jobs[r]) IN
  /\ Runs(r, "rows")
  /\ \E p \in j.paths :
       \/ bucket /\ InR2(rows, p) /\ Wait(r, AwaitOf("rmobj", p, {}, FALSE)) /\ NoChange
       \/ ~(bucket /\ InR2(rows, p)) /\ RowGone(r, p, j.paths \ {p})

\* cp of what lstat finds at src. A directory is listed after its copy has been made.
Cp(r) ==
  LET j == Head(jobs[r])
      src == j.src
      dst == j.dst
      S   == DirsAbove(dst) \cup ({dst} \ {Root})
      t   == WithDirs(rows, S)
      kids == {PathName(q) : q \in Children(t, src)}
  IN
  /\ Runs(r, "cp") /\ dst \in Path
  /\ \/ ~Has(rows, src) /\ Stop(r) /\ NoChange
     \/ /\ TypeOf(rows, src) = "file"
        /\ Continue(r, <<FetchJob(src, dst, {})>> \o Rest(r)) /\ NoChange
     \/ /\ TypeOf(rows, src) = "symlink"
        /\ Continue(r, <<[do |-> "symlink", dst |-> dst, target |-> rows[src].target]>> \o Rest(r))
        /\ NoChange
     \/ /\ TypeOf(rows, src) = "directory" /\ ~j.recursive
        /\ Stop(r) /\ NoChange
     \/ /\ TypeOf(rows, src) = "directory" /\ j.recursive
        /\ rows' = t /\ mirror' = mirror \cup New(S) /\ UNCHANGED objects
        /\ Continue(r, (IF kids = {} THEN <<>> ELSE <<EntriesJob(src, dst, kids)>>) \o Rest(r))

\* Mutant of CpEntry: the copy ends with the first entry.
CpEntryOnlyOne(r) ==
  LET j == Head(jobs[r]) IN
  /\ Runs(r, "entries")
  /\ \E n \in j.names :
       Continue(r, <<CpJob(Append(j.src, n), Append(j.dst, n), TRUE)>> \o Rest(r))
  /\ NoChange

\* Mutant of CpEntry: the entries go beside the copy of their directory.
CpEntryBesideCopy(r) ==
  LET j == Head(jobs[r]) IN
  /\ Runs(r, "entries")
  /\ \E n \in j.names :
       LET left == j.names \ {n} IN
       Continue(r, <<CpJob(Append(j.src, n), Append(ParentPath(j.dst), n), TRUE)>>
                   \o (IF left = {} THEN <<>> ELSE <<EntriesJob(j.src, j.dst, left)>>)
                   \o Rest(r))
  /\ NoChange

\* The next entry of a directory that is copied, in any order (the code's is by name).
CpEntry(r) ==
  LET j == Head(jobs[r]) IN
  /\ Runs(r, "entries")
  /\ \E n \in j.names :
       LET left == j.names \ {n} IN
       Continue(r, <<CpJob(Append(j.src, n), Append(j.dst, n), TRUE)>>
                   \o (IF left = {} THEN <<>> ELSE <<EntriesJob(j.src, j.dst, left)>>)
                   \o Rest(r))
  /\ NoChange

\* Mutant of Mv: the source is removed before it is copied.
MvRemovesFirst(r) ==
  LET j == Head(jobs[r]) IN
  /\ Runs(r, "mv")
  /\ \/ ~Has(rows, j.src) /\ Stop(r)
     \/ Has(rows, j.src) /\ Continue(r, <<RmJob(j.src), CpJob(j.src, j.dst, TRUE)>> \o Rest(r))
  /\ NoChange

\* mv is cp and then rm -r -f of a directory, or rm_single of anything else.
Mv(r) ==
  LET j == Head(jobs[r]) IN
  /\ Runs(r, "mv")
  /\ \/ ~Has(rows, j.src) /\ Stop(r)
     \/ /\ TypeOf(rows, j.src) = "directory"
        /\ Continue(r, <<CpJob(j.src, j.dst, TRUE), RmJob(j.src)>> \o Rest(r))
     \/ /\ TypeOf(rows, j.src) \in {"file", "symlink"}
        /\ Continue(r, <<CpJob(j.src, j.dst, FALSE), RowsJob({j.src})>> \o Rest(r))
  /\ NoChange

Work(r) ==
  /\ \/ TooLong(r) \/ Write(r) \/ AppendFile(r) \/ Fetch(r) \/ Mkdir(r) \/ Symlink(r)
     \/ DeleteFile(r) \/ Rm(r) \/ RmSingle(r) \/ Cp(r) \/ CpEntry(r) \/ Mv(r)
  /\ UNCHANGED faulted

----------------------------------------------------------------------------
(* R2, and what runs when its answer is there. *)

R2Lands(r) ==
  /\ await[r] # NoAwait /\ ~await[r].landed
  /\ LET w == await[r] IN
     /\ await' = [await EXCEPT ![r].landed = TRUE,
                               ![r].data = IF w.op = "get" THEN objects[w.key] ELSE w.data]
     /\ objects' = [objects EXCEPT ![w.key] =
                      CASE w.op = "get" -> @ [] w.op = "put" -> w.data [] OTHER -> Absent]
  /\ UNCHANGED <<bucket, rows, mirror, turn, status, call, jobs, before, faulted, calls>>

\* Mutant of R2Fails: the call starts the job again whose get or put has failed.
R2FailsRetries(r) ==
  /\ R2Faults /\ turn = Nobody
  /\ await[r] # NoAwait /\ ~await[r].landed /\ await[r].op \in {"get", "put"}
  /\ Continue(r, jobs[r])
  /\ UNCHANGED <<rows, objects, mirror, faulted>>

\* A get or put that fails ends the call; the put may have stored its bytes.
R2Fails(r) ==
  /\ R2Faults /\ turn = Nobody
  /\ await[r] # NoAwait /\ ~await[r].landed
  /\ LET w == await[r] IN
     \/ w.op = "get" /\ UNCHANGED <<objects, faulted>>
     \/ /\ w.op = "put" /\ objects' \in {objects, [objects EXCEPT ![w.key] = w.data]}
        /\ faulted' = faulted \cup {w.key}
  /\ Stop(r)
  /\ UNCHANGED <<rows, mirror>>

\* A delete that fails is ignored.
R2DeleteFails(r) ==
  /\ R2Faults
  /\ await[r] # NoAwait /\ ~await[r].landed /\ await[r].op \in {"drop", "rmobj"}
  /\ await' = [await EXCEPT ![r].landed = TRUE]
  /\ faulted' = faulted \cup {await[r].key}
  /\ UNCHANGED <<bucket, rows, objects, mirror, turn, status, call, jobs, before, calls>>

\* The thread takes up a request whose R2 call has answered.
Resume(r) ==
  /\ turn = Nobody /\ await[r] # NoAwait /\ await[r].landed
  /\ LET w == await[r]
         j == Head(jobs[r])
         p == w.key
         m == mirror \cup {p}
     IN
     \/ /\ w.op = "get"
        /\ Continue(r, <<WriteJob(j.dst, OrEmpty(w.data) \cup j.data)>> \o Rest(r))
        /\ NoChange
     \/ /\ w.op = "put"
        /\ rows' = Upsert(rows, p, "r2", {})
        /\ mirror' = IF w.existed THEN mirror ELSE m
        /\ UNCHANGED objects
        /\ Continue(r, Rest(r))
     \/ /\ w.op = "drop"
        /\ mirror' = IF w.existed THEN mirror ELSE m
        /\ UNCHANGED <<rows, objects>>
        /\ Continue(r, Rest(r))
     \/ w.op = "rmobj" /\ RowGone(r, p, j.paths \ {p})
  /\ UNCHANGED faulted

----------------------------------------------------------------------------
\* The thread takes up a new call. With Serialize, its caller waits for the calls on the
\* subtrees it names.
Arrive(r, c) ==
  /\ turn = Nobody /\ status[r] = "idle" /\ calls < MaxCalls
  /\ Serialize => \A s \in Request : status[s] # "idle" =>
       \A p \in PathsOf(c), q \in PathsOf(call[s]) : Apart(p, q)
  /\ turn' = r
  /\ status' = [status EXCEPT ![r] = "running"]
  /\ call' = [call EXCEPT ![r] = c]
  /\ jobs' = [jobs EXCEPT ![r] = <<c>>]
  /\ before' = [before EXCEPT ![r] = Tree(rows, objects)]
  /\ calls' = calls + 1
  /\ UNCHANGED <<bucket, rows, objects, mirror, await, faulted>>

Reply(r) ==
  /\ status[r] \in {"ok", "failed"}
  /\ status' = [status EXCEPT ![r] = "idle"]
  /\ call' = [call EXCEPT ![r] = NoCall]
  /\ before' = [before EXCEPT ![r] = NoCall]
  /\ UNCHANGED <<bucket, rows, objects, mirror, turn, jobs, await, faulted, calls>>

\* No call is left to arrive (MaxCalls) and none is in progress.
Finished ==
  /\ calls = MaxCalls /\ \A r \in Request : status[r] = "idle"
  /\ UNCHANGED vars

Next ==
  \/ \E r \in Request :
       \/ \E c \in Asked : Arrive(r, c)
       \/ Work(r) \/ R2Lands(r) \/ R2Fails(r) \/ R2DeleteFails(r) \/ Resume(r) \/ Reply(r)
  \/ Finished

Spec == Init /\ [][Next]_vars

\* The isolate runs a task that can go on, and R2 answers, with a failure if need be. (At
\* any time at most one of the two can be due for a request.)
FairSpec ==
  Spec /\ \A r \in Request :
            WF_vars(Work(r) \/ Resume(r) \/ R2Lands(r) \/ R2Fails(r) \/ R2DeleteFails(r))
----------------------------------------------------------------------------
(* Properties. `ok` and `failed` are the instants between the end of a     *)
(* call and the arrival of its answer.                                     *)

\* TypeOK: rows are rows; a request runs as long as it has jobs, and one that awaits R2
\* has given up the thread.
TypeOK ==
  /\ bucket \in BOOLEAN
  /\ rows \in [Path -> Row \cup {NoRow}]
  /\ objects \in [Path -> Content \cup {Absent}]
  /\ mirror \subseteq Path
  /\ turn \in Request \cup {Nobody}
  /\ status \in [Request -> {"idle", "running", "ok", "failed"}]
  /\ call \in [Request -> Call \cup {NoCall}]
  /\ calls \in 0..MaxCalls
  /\ faulted \subseteq Path
  /\ \A r \in Request : status[r] = "running" <=> jobs[r] # <<>>
  /\ \A r \in Request : await[r] # NoAwait => status[r] = "running" /\ turn # r

Ended(r) == status[r] \in {"ok", "failed"}
Succeeded(r, what) == status[r] = "ok" /\ call[r].do \in what

\* An R2 call on the object of p is in flight.
Awaited(p) == \E r \in Request : await[r] # NoAwait /\ await[r].key = p

\* At every instant, hence also where an eviction may end it, the bucket holds the objects
\* of the r2 rows and nothing else, but for the one object an R2 call in flight is about and
\* those whose put or delete has failed: no bytes stay of a file that was overwritten,
\* shrunk, removed or moved. No failure leaves an r2 row without its object. (A file that
\* symlink() turned into a link is an r2 row still: its object goes with the link. Without
\* a binding the code cannot reach the objects of the r2 rows it finds, so those it shrinks
\* or removes leave theirs.)
NothingLeaks ==
  \A p \in Path : ~Awaited(p) =>
    /\ InR2(rows, p) => objects[p] # Absent
    /\ objects[p] # Absent => InR2(rows, p) \/ p \in faulted \/ ~bucket

\* At every instant an on_change listener that adds the created and drops the deleted paths
\* knows the tree, but for a path whose write waits for R2: every directory made on the way,
\* also by a call that then fails, every row of an rm -r.
ListenerKnowsTree ==
  \A p \in Path : ~Awaited(p) => ((p \in mirror) <=> Has(rows, p))

\* The entries the call c is for: those it names, and those below them where it takes a
\* whole subtree.
Owns(c, p) ==
  CASE c.do = "cp" -> AtOrAbove(c.dst, p)
    [] c.do = "mv" -> AtOrAbove(c.src, p) \/ AtOrAbove(c.dst, p)
    [] c.do = "rm" -> AtOrAbove(c.src, p)
    [] c.do = "delete_file" -> p = c.src
    [] OTHER -> p = c.dst

\* The directories it makes on its way there.
OnTheWay(c, p) == c.do \notin {"mkdir", "rm", "delete_file"} /\ p \in DirsAbove(c.dst)

\* A call changes nothing but the entries it is for, and free places on its way become
\* directories: however deep its stack of jobs, wherever its R2 calls land or fail, and
\* whatever else is in progress. A path of a sibling or of a link's target stays as it is.
OnlyItsOwn ==
  [][\A p \in Path :
       Entry(rows, objects, p)' # Entry(rows, objects, p) =>
         \E r \in Request :
           /\ status[r] = "running"
           /\ \/ Owns(call[r], p)
              \/ OnTheWay(call[r], p) /\ ~Has(rows, p) /\ rows'[p] = DirRow]_vars

\* An rm of a directory that succeeds has removed it with all that was below it, and
\* nothing else: rm -r /d leaves the siblings of /d alone.
RmExact ==
  \A r \in Request :
    Succeeded(r, {"rm"}) /\ before[r][call[r].src] # NoRow =>
      LET src == call[r].src
          isDir == before[r][src].type = "directory"
          gone == {q \in Path : q = src \/ (isDir /\ IsAbove(src, q))}
      IN \A q \in Path :
           Entry(rows, objects, q) = IF q \in gone THEN NoRow ELSE before[r][q]

\* The entries a recursive cp of src reaches: those below it through directories.
ReachedFrom(tree, src) ==
  {q \in Path : /\ AtOrAbove(src, q) /\ tree[q] # NoRow
                /\ \A a \in Path : AtOrAbove(src, a) /\ IsAbove(a, q) =>
                     tree[a] # NoRow /\ tree[a].type = "directory"}

\* A cp or mv to a new place that succeeds has there every entry of the source with its
\* type, target and bytes; after cp the source is as it was, after mv it is gone.
CopyExact ==
  \A r \in Request :
    /\ Succeeded(r, {"cp", "mv"})
    /\ Apart(call[r].src, call[r].dst)
    /\ \A q \in Path : AtOrAbove(call[r].dst, q) => before[r][q] = NoRow
    => LET src == call[r].src
           dst == call[r].dst
       IN \A q \in ReachedFrom(before[r], src) :
            /\ Entry(rows, objects, Rebased(q, src, dst)) = before[r][q]
            /\ Entry(rows, objects, q) = IF call[r].do = "mv" THEN NoRow ELSE before[r][q]

\* The place a mv goes to is free, and the entry q of its source is one that cp reaches.
MovesAway(r, q) ==
  /\ Apart(call[r].src, call[r].dst)
  /\ \A p \in Path : AtOrAbove(call[r].dst, p) => before[r][p] = NoRow
  /\ q \in ReachedFrom(before[r], call[r].src)

\* mv loses nothing, wherever it stands and whichever R2 call of it fails: each entry of the
\* source is as it was, until it is at its destination as it was. A mv that has failed has
\* not touched the source at all. (What its copy left behind may be there as well.)
MvLosesNothing ==
  \A r \in Request :
    status[r] # "idle" /\ call[r].do = "mv" =>
      LET src == call[r].src
          dst == call[r].dst
      IN \A q \in Path :
           /\ AtOrAbove(src, q) /\ ~AtOrAbove(dst, q) /\ before[r][q] # NoRow
           /\ status[r] = "failed" \/ MovesAway(r, q)
           => \/ Entry(rows, objects, q) = before[r][q]
              \/ /\ status[r] # "failed"
                 /\ Entry(rows, objects, Rebased(q, src, dst)) = before[r][q]

\* Every call ends, in success or failure: cp -r of a directory into its own subtree, which
\* makes a new entry to copy with every one it copies, ends at the length of paths.
CallsEnd ==
  \A r \in Request : status[r] = "running" ~> status[r] # "running"

\* For a path that was free or a file's, read_file(p) returns x after write_file(p, x), and
\* append_file adds to what was there: the parents made on the way, the move between row and
\* R2 and the late delete of the old object lose nothing. A write that is acknowledged for a
\* directory or a symlink leaves it what it was: there the read does not return x, which
\* WriteIsRead says of every path.
WriteThenRead ==
  \A r \in Request :
    Succeeded(r, {"write", "append"}) =>
      LET dst == call[r].dst
          was == before[r][dst]
          old == IF call[r].do = "append" /\ was # NoRow THEN OrEmpty(was.bytes) ELSE {}
      IN IF was = NoRow \/ was.type = "file"
         THEN ReadOf(rows, objects, dst) = old \cup call[r].data
         ELSE Entry(rows, objects, dst) = was

\* After write_file(p, x), read_file(p) returns Some(x), whatever was at p: conformance.rs
\* has it among what a caller may assume. The upsert that is acknowledged for a directory or
\* a symlink leaves it one.
WriteIsRead ==
  \A r \in Request :
    Succeeded(r, {"write"}) => ReadOf(rows, objects, call[r].dst) = call[r].data

\* A link resolves to where the chain of links from it ends, and is an ELOOP just when that
\* chain has more than MaxSymlinkDepth links (error.rs: "symlink chain exceeds
\* `MAX_SYMLINK_DEPTH`"), a circle of links among them.
LinksResolve ==
  LET Links == {q \in Path : TypeOf(rows, q) = "symlink"}
      leads == {<<q, ResolvePath(ParentPath(q), rows[q].target)>> : q \in Links}
      Chains(p, n) ==
        {ch \in [1..n -> Links] : ch[1] = p /\ \A i \in 2..n : <<ch[i - 1], ch[i]>> \in leads}
  IN \A p \in Links :
       LET q == Resolve(rows, p) IN
       /\ q = Loop <=> Chains(p, MaxSymlinkDepth + 1) # {}
       /\ q # Loop => \E n \in 1..MaxSymlinkDepth : \E ch \in Chains(p, n), l \in leads :
            /\ l[1] = ch[n] /\ l[2] \notin Links
            /\ q = IF Has(rows, l[2]) THEN l[2] ELSE None

\* Every entry but the root and what is in it is in a directory.
Rooted(tree) ==
  \A q \in Path : tree[q] # NoRow /\ Len(q) > 1 =>
    tree[ParentPath(q)] # NoRow /\ tree[ParentPath(q)].type = "directory"

\* The places where the call c makes entries, and whether the entry is a link.
Makes(c, tree) ==
  CASE c.do \in {"write", "append", "mkdir_p"} -> {<<c.dst, FALSE>>}
    [] c.do = "symlink" -> {<<c.dst, TRUE>>}
    [] c.do \in {"cp", "mv"} -> {<<Rebased(q, c.src, c.dst), tree[q].type = "symlink">> :
                                  q \in ReachedFrom(tree, c.src)}
    [] OTHER -> {}

\* The call makes an entry below something that is no directory (ensure_parent_dirs takes
\* it for one), turns a directory into a link, or copies a directory into itself or over
\* one it is in, where what it has made is copied once more.
Clashes(c, tree) ==
  \/ \E e \in Makes(c, tree) :
       \/ \E p \in Path : IsAbove(p, e[1]) /\ tree[p] # NoRow /\ tree[p].type # "directory"
       \/ e[2] /\ e[1] \in Path /\ tree[e[1]] # NoRow /\ tree[e[1]].type = "directory"
  \/ /\ c.do \in {"cp", "mv"} /\ ~Apart(c.src, c.dst)
     /\ tree[c.src] # NoRow /\ tree[c.src].type = "directory"

\* A call on a tree whose entries are in directories leaves such a tree, done or failed,
\* unless it asks for an entry below a file or a link, for a link in place of a directory,
\* or for a directory within itself. No other call can make an entry that rm -r and cp -r
\* of its parents miss.
TreeStaysRooted ==
  \A r \in Request :
    Ended(r) /\ Rooted(before[r]) /\ ~Clashes(call[r], before[r]) => Rooted(Tree(rows, objects))

\* mv always behaves like rename (types/src/lib.rs): what it moved is at its destination.
MvArrives ==
  \A r \in Request :
    Succeeded(r, {"mv"}) /\ call[r].src # Root => Has(rows, call[r].dst)
============================================================================
