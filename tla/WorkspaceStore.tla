--------------------------- MODULE WorkspaceStore ---------------------------
(***************************************************************************)
(* The files of one Workspace (crates/cloudflare-shell-workspace/src/      *)
(* filesystem.rs) served to several requests of one Durable Object.        *)
(*                                                                         *)
(* A file is a row of the SQL table and, above the spill threshold, an R2  *)
(* object under a key that is a function of the path: the two stores are   *)
(* not updated together. The object runs one task at a time, SQL calls     *)
(* return at once, and the only points where another request can run are   *)
(* the `.await`s of R2 calls. So a request is a chain of segments, each an *)
(* action: it runs from one R2 await to the next. An R2 call takes effect  *)
(* in an action of its own between the segment that issues it and the one  *)
(* that resumes.                                                           *)
(*                                                                         *)
(* The paths are files directly under "/", so that ensure_parent_dirs has  *)
(* nothing to do; the directory tree is the matter of WorkspaceTree. A     *)
(* bucket is bound (without one no request ever yields).                   *)
(***************************************************************************)
EXTENDS Naturals, Sequences

CONSTANTS
  Request,         \* the requests the object can be serving at the same time
  Path,            \* file paths
  Chunk,           \* units of content; a size is a number of chunks
  Payload,         \* the contents that callers write and append
  SpillThreshold,  \* R2_SPILL_THRESHOLD, in chunks
  MaxSize,         \* bound: no append is sent that would make some file larger
  R2Faults,        \* R2 calls may fail
  MaxCrashes,      \* bound: how often the object is evicted
  LateCalls,       \* an R2 call in flight at an eviction may take effect after it
  Serialize,       \* callers never have two calls on one path in progress
  Absent,          \* no object; nothing was read
  Broken,          \* a listed file without its bytes
  NoRow,           \* no row with this path
  NoCall           \* the call of an idle request

Content == Seq(Chunk)

ASSUME StoreAssumption ==
  /\ Payload \subseteq Content
  /\ SpillThreshold \in Nat /\ MaxSize \in Nat /\ MaxCrashes \in Nat
  /\ R2Faults \in BOOLEAN /\ Serialize \in BOOLEAN /\ LateCalls \in BOOLEAN
  /\ Absent \notin Content /\ Broken \notin Content /\ Absent # Broken

VARIABLES
  rows,     \* the SQL table
  objects,  \* the R2 bucket
  mirror,   \* the paths an on_change listener believes to exist
  pc,       \* where each request is
  call,     \* the call each request serves
  buf,      \* the bytes in its hands: to be put, or got
  existed,  \* write_inner's `existed`, read before the await
  status,   \* how it ends
  crashes,  \* evictions so far
  late,     \* R2 puts and deletes whose caller is gone and that may still take effect
  suspect,  \* history: the paths whose object R2 has touched since the code last saw it do so
  landed    \* history: an R2 call has taken effect after the eviction of its caller

reqVars == <<pc, call, buf, existed, status>>
faultVars == <<crashes, late, suspect, landed>>
vars == <<rows, objects, mirror, reqVars, faultVars>>

\* A file row: an inline row has its bytes and their number, an r2 row content NULL, written
\* <<>>, and the size of its object, which is above the threshold. Its r2_key is the path's own.
Row ==
  {row \in [storage : {"inline", "r2"}, size : Nat, content : Content] :
     \/ row.storage = "inline" /\ row.size = Len(row.content) /\ row.size <= SpillThreshold
     \/ row.storage = "r2" /\ row.content = <<>> /\ row.size > SpillThreshold}

ASSUME RowAssumption == NoRow \notin [storage : {"inline", "r2"}, size : Nat, content : Content]

Call ==
  [op : {"write", "append"}, src : Path, dst : Path, data : Payload]
    \cup [op : {"read", "delete", "cp", "mv"}, src : Path, dst : Path, data : {<<>>}]

\* write and append name one path, read and delete use src only.
OnePath(c) == c.op \in {"write", "append", "read", "delete"} => c.src = c.dst

Steps == {"idle", "start", "get", "got", "put", "stored", "drop", "dropped",
          "rmobj", "rmrow", "reply"}

\* Mutant of InlineRow: ON CONFLICT does not set storage_backend back.
InlineRowKeepsBackend(c) == [storage |-> "r2", size |-> Len(c), content |-> <<>>]

InlineRow(c) == [storage |-> "inline", size |-> Len(c), content |-> c]
SpilledRow(c) == [storage |-> "r2", size |-> Len(c), content |-> <<>>]

\* Mutant of Spills: a content of exactly the threshold spills.
SpillsAtThreshold(c) == Len(c) >= SpillThreshold

Spills(c) == Len(c) > SpillThreshold
InR2(t, p) == t[p] # NoRow /\ t[p].storage = "r2"

OrEmpty(v) == IF v = Absent THEN <<>> ELSE v

\* The bytes a read of p gives.
View(p) ==
  IF rows[p] = NoRow THEN Absent
  ELSE IF rows[p].storage = "inline" THEN rows[p].content
  ELSE IF objects[p] = Absent THEN Broken ELSE objects[p]

SizeOf(p) == IF View(p) \in {Absent, Broken} THEN 0 ELSE Len(View(p))

Busy(r) == pc[r] # "idle"
PathsOf(c) == {c.src, c.dst}
InFlight(p) == \E r \in Request : Busy(r) /\ p \in PathsOf(call[r])

Init ==
  /\ rows = [p \in Path |-> NoRow]
  /\ objects = [p \in Path |-> Absent]
  /\ mirror = {}
  /\ pc = [r \in Request |-> "idle"]
  /\ call = [r \in Request |-> NoCall]
  /\ buf = [r \in Request |-> Absent]
  /\ existed = [r \in Request |-> FALSE]
  /\ status = [r \in Request |-> "none"]
  /\ crashes = 0
  /\ late = {}
  /\ suspect = {}
  /\ landed = FALSE

----------------------------------------------------------------------------
(* Segments. Each is an operator of the rest of an action: it says what    *)
(* happens from here to the next await or the answer. `t` and `m` are the  *)
(* table and the listener's view at this point of the segment.             *)

Goto(r, step) == pc' = [pc EXCEPT ![r] = step]

Answer(r, s) == Goto(r, "reply") /\ status' = [status EXCEPT ![r] = s]

\* Mutant of Emit: Create and Update are swapped.
EmitSwapped(m, p, wasThere) == IF wasThere THEN m \cup {p} ELSE m

\* emit(Create | Update, p): the listener adds what is created, and knows what is updated.
Emit(m, p, wasThere) == IF wasThere THEN m ELSE m \cup {p}

\* Mutant of WriteInner: a spilling write sets the row before its put.
WriteInnerRowFirst(r, c) ==
  /\ existed' = [existed EXCEPT ![r] = rows[call[r].dst] # NoRow]
  /\ buf' = [buf EXCEPT ![r] = c]
  /\ Goto(r, IF Spills(c) THEN "put" ELSE "drop")
  /\ rows' = [rows EXCEPT ![call[r].dst] = IF Spills(c) THEN SpilledRow(c) ELSE InlineRow(c)]
  /\ UNCHANGED <<objects, mirror, call, status>>

\* write_inner up to its first await, with the content c for the path call[r].dst.
WriteInner(r, c) ==
  LET p == call[r].dst IN
  /\ existed' = [existed EXCEPT ![r] = rows[p] # NoRow]
  /\ buf' = [buf EXCEPT ![r] = c]
  /\ \/ Spills(c) /\ Goto(r, "put") /\ UNCHANGED rows
     \/ ~Spills(c) /\ Goto(r, "drop") /\ rows' = [rows EXCEPT ![p] = InlineRow(c)]
  /\ UNCHANGED <<objects, mirror, call, status>>

\* Mutant of RmSingle: the object of an r2 row is left alone.
RmSingleKeepsObject(r, p, t, m) ==
  /\ rows' = [t EXCEPT ![p] = NoRow] /\ mirror' = m \ {p} /\ Answer(r, "ok")
  /\ UNCHANGED <<objects, call, buf, existed>>

\* rm_single: an r2 row has its object deleted first.
RmSingle(r, p, t, m) ==
  /\ \/ /\ InR2(t, p)
        /\ Goto(r, "rmobj") /\ rows' = t /\ mirror' = m /\ UNCHANGED status
     \/ /\ ~InR2(t, p)
        /\ rows' = [t EXCEPT ![p] = NoRow] /\ mirror' = m \ {p} /\ Answer(r, "ok")
  /\ UNCHANGED <<objects, call, buf, existed>>

\* write_inner after its await: emit, and back to the caller; mv goes on to rm_single.
Written(r, t) ==
  LET m == Emit(mirror, call[r].dst, existed[r]) IN
  \/ call[r].op = "mv" /\ RmSingle(r, call[r].src, t, m)
  \/ /\ call[r].op # "mv"
     /\ rows' = t /\ mirror' = m /\ Answer(r, "ok")
     /\ UNCHANGED <<objects, call, buf, existed>>

\* read_file_bytes has come to v: what its caller does with it.
Fetched(r, v) ==
  \/ /\ call[r].op = "read"
     /\ buf' = [buf EXCEPT ![r] = v] /\ Answer(r, "ok")
     /\ UNCHANGED <<rows, objects, mirror, call, existed>>
  \/ call[r].op = "append" /\ WriteInner(r, OrEmpty(v) \o call[r].data)
  \/ call[r].op \in {"cp", "mv"} /\ WriteInner(r, OrEmpty(v))

----------------------------------------------------------------------------
(* Requests. *)

\* A request arrives. With Serialize, its caller waits for the calls on its paths.
Arrive(r, c) ==
  /\ pc[r] = "idle" /\ OnePath(c)
  /\ c.op = "append" => \A p \in Path : SizeOf(p) + Len(c.data) <= MaxSize
  /\ Serialize => \A p \in PathsOf(c) : ~InFlight(p)
  /\ call' = [call EXCEPT ![r] = c]
  /\ Goto(r, "start")
  /\ UNCHANGED <<rows, objects, mirror, buf, existed, status, faultVars>>

\* write_file, write_file_bytes
BeginWrite(r) ==
  /\ pc[r] = "start" /\ call[r].op = "write"
  /\ WriteInner(r, call[r].data)
  /\ UNCHANGED faultVars

\* cp and mv refuse a missing source.
BeginMissing(r) ==
  /\ pc[r] = "start" /\ call[r].op \in {"cp", "mv"} /\ rows[call[r].src] = NoRow
  /\ Answer(r, "failed")
  /\ UNCHANGED <<rows, objects, mirror, call, buf, existed, faultVars>>

\* read_file_bytes, for a caller that reads, appends, copies or moves: no await unless the row is in R2.
BeginRead(r) ==
  LET p == call[r].src IN
  /\ pc[r] = "start" /\ call[r].op \in {"read", "append", "cp", "mv"}
  /\ \/ rows[p] = NoRow /\ call[r].op \in {"read", "append"} /\ Fetched(r, Absent)
     \/ rows[p] # NoRow /\ ~InR2(rows, p) /\ Fetched(r, rows[p].content)
     \/ /\ InR2(rows, p) /\ Goto(r, "get")
        /\ UNCHANGED <<rows, objects, mirror, call, buf, existed, status>>
  /\ UNCHANGED faultVars

\* delete_file
BeginDelete(r) ==
  LET p == call[r].src IN
  /\ pc[r] = "start" /\ call[r].op = "delete"
  /\ \/ /\ rows[p] = NoRow /\ Answer(r, "ok")
        /\ UNCHANGED <<rows, objects, mirror, call, buf, existed>>
     \/ rows[p] # NoRow /\ RmSingle(r, p, rows, mirror)
  /\ UNCHANGED faultVars

ResumeGet(r) == pc[r] = "got" /\ Fetched(r, buf[r]) /\ UNCHANGED faultVars

\* The put has succeeded: the row is set to the object.
ResumePut(r) ==
  /\ pc[r] = "stored"
  /\ Written(r, [rows EXCEPT ![call[r].dst] = SpilledRow(buf[r])])
  /\ UNCHANGED faultVars

\* Mutant of ResumeDrop: the row is set after the await, from what was known before it.
ResumeDropSetsRow(r) ==
  /\ pc[r] = "dropped"
  /\ Written(r, [rows EXCEPT ![call[r].dst] = InlineRow(buf[r])])
  /\ UNCHANGED faultVars

ResumeDrop(r) == pc[r] = "dropped" /\ Written(r, rows) /\ UNCHANGED faultVars

\* The object is gone, or its deletion failed, which rm_single ignores: the row goes.
ResumeRm(r) ==
  /\ pc[r] = "rmrow"
  /\ rows' = [rows EXCEPT ![call[r].src] = NoRow]
  /\ mirror' = mirror \ {call[r].src}
  /\ Answer(r, "ok")
  /\ UNCHANGED <<objects, call, buf, existed, faultVars>>

\* The answer leaves the object.
Reply(r) ==
  /\ pc[r] = "reply"
  /\ Goto(r, "idle")
  /\ call' = [call EXCEPT ![r] = NoCall]
  /\ buf' = [buf EXCEPT ![r] = Absent]
  /\ existed' = [existed EXCEPT ![r] = FALSE]
  /\ status' = [status EXCEPT ![r] = "none"]
  /\ UNCHANGED <<rows, objects, mirror, faultVars>>

----------------------------------------------------------------------------
(* R2, as the code uses it: a call takes effect at one instant, and a call *)
(* that fails has either taken effect by then or never does.               *)

R2Get(r) ==
  /\ pc[r] = "get"
  /\ buf' = [buf EXCEPT ![r] = objects[call[r].src]]
  /\ Goto(r, "got")
  /\ UNCHANGED <<rows, objects, mirror, call, existed, status, faultVars>>

R2Put(r) ==
  /\ pc[r] = "put"
  /\ objects' = [objects EXCEPT ![call[r].dst] = buf[r]]
  /\ suspect' = suspect \ {call[r].dst}
  /\ Goto(r, "stored")
  /\ UNCHANGED <<rows, mirror, call, buf, existed, status, crashes, late, landed>>

\* The path whose object an R2 delete of r is about, and where r goes on.
Deletes(r, p, step) ==
  \/ pc[r] = "drop" /\ p = call[r].dst /\ step = "dropped"
  \/ pc[r] = "rmobj" /\ p = call[r].src /\ step = "rmrow"

\* The delete that follows an inline write, and the one of rm_single.
R2Delete(r) ==
  \E p \in Path, step \in Steps :
    /\ Deletes(r, p, step)
    /\ Goto(r, step)
    /\ objects' = [objects EXCEPT ![p] = Absent]
    /\ suspect' = suspect \ {p}
    /\ UNCHANGED <<rows, mirror, call, buf, existed, status, crashes, late, landed>>

\* A failed get or put ends the request (`?`); a failed put may have stored its bytes.
R2Fails(r) ==
  /\ R2Faults
  /\ \/ pc[r] = "get" /\ UNCHANGED <<objects, suspect>>
     \/ /\ pc[r] = "put"
        /\ objects' \in {objects, [objects EXCEPT ![call[r].dst] = buf[r]]}
        /\ suspect' = suspect \cup {call[r].dst}
  /\ Answer(r, "failed")
  /\ UNCHANGED <<rows, mirror, call, buf, existed, crashes, late, landed>>

\* A failed delete is ignored (`let _ =`).
R2DeleteFails(r) ==
  /\ R2Faults
  /\ \E p \in Path, step \in Steps :
       /\ Deletes(r, p, step)
       /\ Goto(r, step)
       /\ suspect' = suspect \cup {p}
  /\ UNCHANGED <<rows, objects, mirror, call, buf, existed, status, crashes, late, landed>>

\* What r has asked R2 to do and not heard of yet.
Orphans(r) ==
  {c \in [of : {r}, life : {crashes}, path : Path, value : {buf[r], Absent}] :
     \/ pc[r] = "put" /\ c.path = call[r].dst /\ c.value = buf[r]
     \/ c.value = Absent /\ \E step \in Steps : Deletes(r, c.path, step)}

\* The paths that an eviction leaves between the two stores: an object without its row, a
\* row without its object, an object that an inline write has replaced.
CutShort(r) ==
  {p \in Path : \/ pc[r] \in {"stored", "drop"} /\ p = call[r].dst
                \/ pc[r] = "rmrow" /\ p = call[r].src}

\* The object is evicted or reset: its requests vanish between two segments, both
\* stores stay as they are, and a new listener lists what there is.
Crash ==
  /\ crashes < MaxCrashes
  /\ crashes' = crashes + 1
  /\ late' = IF LateCalls THEN late \cup UNION {Orphans(r) : r \in Request} ELSE late
  /\ suspect' = suspect \cup UNION {CutShort(r) : r \in Request}
  /\ pc' = [r \in Request |-> "idle"]
  /\ call' = [r \in Request |-> NoCall]
  /\ buf' = [r \in Request |-> Absent]
  /\ existed' = [r \in Request |-> FALSE]
  /\ status' = [r \in Request |-> "none"]
  /\ mirror' = {p \in Path : rows[p] # NoRow}
  /\ UNCHANGED <<rows, objects, landed>>

\* An R2 call outlives the object that issued it.
LateLands ==
  \E c \in late :
    /\ objects' = [objects EXCEPT ![c.path] = c.value]
    /\ late' = late \ {c}
    /\ suspect' = suspect \cup {c.path}
    /\ landed' = TRUE
    /\ UNCHANGED <<rows, mirror, reqVars, crashes>>

Serve(r) ==
  \/ BeginWrite(r) \/ BeginMissing(r) \/ BeginRead(r) \/ BeginDelete(r)
  \/ ResumeGet(r) \/ ResumePut(r) \/ ResumeDrop(r) \/ ResumeRm(r) \/ Reply(r)

R2Step(r) ==
  R2Get(r) \/ R2Put(r) \/ R2Delete(r) \/ R2Fails(r) \/ R2DeleteFails(r)

Next ==
  \/ \E r \in Request : (\E c \in Call : Arrive(r, c)) \/ Serve(r) \/ R2Step(r)
  \/ Crash \/ LateLands

Spec == Init /\ [][Next]_vars
----------------------------------------------------------------------------
(* Properties. *)

\* TypeOK: the size of a row is that of its content, an r2 row keeps no content, and the
\* threshold (`content.len() > R2_SPILL_THRESHOLD`) parts them exactly: an inline row is never
\* above it, a put and an r2 row never at or below it, whether a write, an append or a copy
\* came to that size. A request that serves a call has one.
TypeOK ==
  /\ rows \in [Path -> Row \cup {NoRow}]
  /\ objects \in [Path -> Content \cup {Absent}]
  /\ mirror \subseteq Path
  /\ pc \in [Request -> Steps]
  /\ call \in [Request -> Call \cup {NoCall}]
  /\ buf \in [Request -> Content \cup {Absent}]
  /\ existed \in [Request -> BOOLEAN]
  /\ status \in [Request -> {"none", "ok", "failed"}]
  /\ crashes \in 0..MaxCrashes
  /\ late \subseteq [of : Request, life : Nat, path : Path, value : Content \cup {Absent}]
  /\ suspect \subseteq Path
  /\ landed \in BOOLEAN
  /\ \A r \in Request : Busy(r) => call[r] \in Call
  /\ \A r \in Request : pc[r] \in {"put", "stored"} => buf[r] \in Content /\ Len(buf[r]) > SpillThreshold

\* A path with a row can be read: read_file_bytes finds the row's object.
Readable(p) == View(p) # Broken

\* No call on p is in progress, and R2 has done nothing to its object that the code does not know.
Settled(p) == ~InFlight(p) /\ p \notin suspect

\* After write_file(p, x) read_file(p) does not come back empty: a file whose last request
\* has ended can be read, whatever requests ran before and with each other, unless an R2 call
\* on its key has failed, was cut off or landed late since the last one that succeeded.
ReadableAtRest == \A p \in Path : Settled(p) => Readable(p)

\* Between requests the two stores agree on a path: an object exists just when the row is
\* an r2 row, and has the row's size. Nothing leaks, nothing dangles, stat tells the truth;
\* what a fault has left behind, the next R2 call on the key that succeeds repairs.
StoresAgreeAtRest ==
  \A p \in Path : Settled(p) =>
    /\ (objects[p] # Absent) <=> InR2(rows, p)
    /\ InR2(rows, p) => Len(objects[p]) = rows[p].size

\* Between requests an on_change listener that adds what is created and drops what is
\* deleted believes exactly in the paths that have a row.
ListenerAgreesAtRest ==
  \A p \in Path : ~InFlight(p) => ((p \in mirror) <=> (rows[p] # NoRow))

----------------------------------------------------------------------------
(* The refinement of FileStore. A call has taken effect once the row shows *)
(* it, or already when its put replaces the object of an r2 row.           *)

\* The phase of a request whose store shows: mv still has its source to remove.
AfterStorePhase(r) == IF call[r].op = "mv" THEN "half" ELSE "done"

Phase(r) ==
  CASE pc[r] = "idle"                -> "idle"
    [] pc[r] \in {"start", "get", "put"} -> "open"
    [] pc[r] = "got"                 -> IF call[r].op = "read" THEN "done" ELSE "open"
    [] pc[r] = "stored"              -> IF InR2(rows, call[r].dst) THEN AfterStorePhase(r) ELSE "open"
    [] pc[r] \in {"drop", "dropped"} -> AfterStorePhase(r)
    [] pc[r] \in {"rmobj", "rmrow"}  -> IF call[r].op = "mv" THEN "half" ELSE "open"
    [] pc[r] = "reply"               -> IF status[r] = "ok" THEN "done" ELSE "failed"

Observed(r) ==
  IF pc[r] \in {"got", "reply"} /\ call[r].op = "read" /\ status[r] # "failed" THEN buf[r] ELSE Absent

Promise == INSTANCE FileStore WITH
  files  <- [p \in Path |-> View(p)],
  phase  <- [r \in Request |-> Phase(r)],
  answer <- [r \in Request |-> Observed(r)]

\* Every step is a step of FileStore or none of its business: each call takes effect once,
\* at one instant between its arrival and its answer (mv: two), a failed or cut-off call at
\* most so, and what an interrupted request leaves behind in R2 never comes back. It holds
\* as long as no R2 call of an evicted object lands late: after that nothing is promised here.
PromiseKept == Promise!Init /\ [][landed' \/ Promise!Next]_Promise!absVars
============================================================================
