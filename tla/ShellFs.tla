------------------------------- MODULE ShellFs -------------------------------
(***************************************************************************)
(* The RPC server (crates/cloudflare-shell-rpc/server): callers reach the  *)
(* Durable Object of a namespace through service-binding RPC (rpc.rs) or   *)
(* HTTP (http.rs). Every namespace string has an object of its own         *)
(* (id_from_name) with its own SQLite, and a cached Workspace once it has  *)
(* opened one (do_obj.rs). All objects share ONE R2 bucket, in which a     *)
(* file's key is made of the Workspace's namespace and the path.           *)
(*                                                                         *)
(* The objects run beside each other and are evicted one by one; what the  *)
(* Workspace does with overlapping calls in one object is the matter of    *)
(* WorkspaceStore, and its directories and root row that of WorkspaceTree. *)
(***************************************************************************)
EXTENDS Naturals

CONSTANTS
  Client,        \* callers, each with one call in progress at most
  Namespace,     \* the namespace strings that callers send
  Named,         \* those that is_valid_namespace accepts
  Unnamed,       \* the empty string
  Default,       \* schema::DEFAULT_NAMESPACE
  Path,          \* file paths
  Data,          \* contents
  Large,         \* those above R2_SPILL_THRESHOLD
  Guarded,       \* SHELL_FS_TOKEN is set
  R2Faults,      \* R2 calls may fail
  MaxEvictions,  \* bound: evictions of all objects together
  Absent, Listed, NoRow, NoCall

ASSUME ShellFsAssumption ==
  /\ Named \subseteq Namespace /\ Unnamed \notin Named
  /\ Large \subseteq Data /\ Absent \notin Data /\ Listed \notin Data /\ Listed # Absent
  /\ NoRow \notin [storage : {"inline", "r2"}, content : Data \cup {Absent}]
  /\ Guarded \in BOOLEAN /\ R2Faults \in BOOLEAN /\ MaxEvictions \in Nat

VARIABLES
  disk,       \* of each object: its SQLite, whether it has the table, and the file rows
  open,       \* of each object: whether `workspaces` holds its Workspace
  objects,    \* the R2 bucket
  late,       \* R2 puts and deletes of objects evicted since, still on their way
  pc,         \* where each client's call is
  call,       \* the call
  got,        \* the bytes an R2 get gave it
  boots,      \* history: the bootstraps in the object's present lifetime
  known,      \* history: what each file may hold, by the calls made on it
  adrift,     \* history: what late calls made of its R2 object since R2 last answered for it
  evictions   \* evictions so far

vars == <<disk, open, objects, late, pc, call, got, boots, known, adrift, evictions>>

File == Namespace \X Path

Row == [storage : {"inline"}, content : Data] \cup [storage : {"r2"}, content : {Absent}]

\* The wire's requests. A look is one that asks what is listed: stat, lstat, list, exists,
\* file_exists, glob and workspace_info.
WriteReq == [ns : Namespace, path : Path, op : {"write"}, data : Data]
ReadReq == [ns : Namespace, path : Path, op : {"read"}, data : {Absent}]
LookReq == [ns : Namespace, path : Path, op : {"look"}, data : {Absent}]
DeleteReq == [ns : Namespace, path : Path, op : {"delete"}, data : {Absent}]

Call == WriteReq \cup ReadReq \cup LookReq \cup DeleteReq

FileOf(c) == <<c.ns, c.path>>

\* Mutant of Key: the namespace is left out.
KeyWithoutNamespace(f) == <<Default, f[2]>>

\* The namespace of the Workspace that an object opens, and the R2 key of one of its files.
WorkspaceName(ns) == IF ns = Unnamed THEN Default ELSE ns
Key(f) == <<WorkspaceName(f[1]), f[2]>>
Keys == {Key(f) : f \in File} \cup {<<Default, p>> : p \in Path}

RowOf(f) == disk[f[1]].rows[f[2]]
InR2(f) == IF RowOf(f) = NoRow THEN FALSE ELSE RowOf(f).storage = "r2"

\* What a read of f gives: a row whose object is missing reads like no file.
View(f) ==
  IF RowOf(f) = NoRow THEN Absent
  ELSE IF InR2(f) THEN objects[Key(f)] ELSE RowOf(f).content

InProgress(f) == \E k \in Client : pc[k] # "idle" /\ FileOf(call[k]) = f

Init ==
  /\ disk = [ns \in Namespace |-> [table |-> FALSE, rows |-> [p \in Path |-> NoRow]]]
  /\ open = [ns \in Namespace |-> FALSE]
  /\ objects = [key \in Keys |-> Absent]
  /\ late = {}
  /\ pc = [k \in Client |-> "idle"]
  /\ call = [k \in Client |-> NoCall]
  /\ got = [k \in Client |-> Absent]
  /\ boots = [ns \in Namespace |-> 0]
  /\ known = [f \in File |-> {Absent}]
  /\ adrift = [f \in File |-> {}]
  /\ evictions = 0

Goto(k, step) == pc' = [pc EXCEPT ![k] = step]
SetRow(f, row) == disk' = [disk EXCEPT ![f[1]].rows[f[2]] = row]
SetObject(f, v) == objects' = [objects EXCEPT ![Key(f)] = v]

----------------------------------------------------------------------------
(* The entrypoint. *)

\* A client calls, and nobody else uses its file in the meantime. A call that is let in
\* goes to the stub of its namespace's object, another one no further.
Invoke(k, c, admitted) ==
  /\ pc[k] = "idle" /\ ~InProgress(FileOf(c))
  /\ Goto(k, IF admitted THEN "sent" ELSE "refused")
  /\ call' = [call EXCEPT ![k] = c]
  /\ UNCHANGED <<disk, open, objects, late, got, boots, known, adrift, evictions>>

\* check_auth, and dispatch's check: with SHELL_FS_TOKEN set, a request has to carry it.
Admitted(token) == Guarded => token

\* dispatch: any namespace will do.
InvokeRpc(k, c) ==
  \E token \in BOOLEAN : Invoke(k, c, Admitted(token))

\* parse, parse_ns: no route has an empty namespace.
Routed(c) == c.ns # Unnamed

\* http::handle
InvokeHttp(k, c) ==
  \E token \in BOOLEAN : Invoke(k, c, Admitted(token) /\ Routed(c))

----------------------------------------------------------------------------
(* The object. *)

\* open_workspace succeeds for the empty name, which means Default, and for a valid one.
Opens(ns) == ns = Unnamed \/ ns \in Named

\* Mutant of OpenWorkspace: the handle is not found again.
OpenWorkspaceAnew(ns) ==
  /\ open' = [open EXCEPT ![ns] = TRUE]
  /\ boots' = [boots EXCEPT ![ns] = @ + 1]

\* open_workspace: the cached handle, or a new one whose bootstrap finds or makes the table.
OpenWorkspace(ns) ==
  /\ open' = [open EXCEPT ![ns] = TRUE]
  /\ boots' = [boots EXCEPT ![ns] = IF open[ns] THEN @ ELSE @ + 1]

Tabled(ns) == [disk EXCEPT ![ns].table = TRUE]

\* Mutant of HandleBadNamespace: the handle is cached before the name is checked.
HandleBadNamespaceCached(k) ==
  /\ pc[k] = "sent" /\ ~Opens(call[k].ns)
  /\ open' = [open EXCEPT ![call[k].ns] = TRUE]
  /\ Goto(k, "refused")
  /\ UNCHANGED <<disk, objects, late, call, got, boots, known, adrift, evictions>>

\* A bad namespace is an error for its caller, and nothing is cached.
HandleBadNamespace(k) ==
  /\ pc[k] = "sent" /\ ~Opens(call[k].ns)
  /\ Goto(k, "refused")
  /\ UNCHANGED <<disk, open, objects, late, call, got, boots, known, adrift, evictions>>

\* Mutant of HandleWrite: the row of a spilling write is set before its put.
HandleWriteRowFirst(k) ==
  LET c == call[k]
      row == IF c.data \in Large THEN [storage |-> "r2", content |-> Absent]
             ELSE [storage |-> "inline", content |-> c.data]
  IN
  /\ pc[k] = "sent" /\ c.op = "write" /\ Opens(c.ns)
  /\ OpenWorkspace(c.ns)
  /\ Goto(k, IF c.data \in Large THEN "put" ELSE "drop")
  /\ disk' = [Tabled(c.ns) EXCEPT ![c.ns].rows[c.path] = row]
  /\ UNCHANGED <<objects, late, call, got, known, adrift, evictions>>

\* handle_write_file up to the first await of write_inner: the put, or the delete that
\* follows an inline write.
HandleWrite(k) ==
  LET c == call[k] IN
  /\ pc[k] = "sent" /\ c.op = "write" /\ Opens(c.ns)
  /\ OpenWorkspace(c.ns)
  /\ \/ c.data \in Large /\ Goto(k, "put") /\ disk' = Tabled(c.ns)
     \/ /\ c.data \notin Large /\ Goto(k, "drop")
        /\ disk' = [Tabled(c.ns) EXCEPT
                      ![c.ns].rows[c.path] = [storage |-> "inline", content |-> c.data]]
  /\ UNCHANGED <<objects, late, call, got, known, adrift, evictions>>

\* handle_read_file
HandleRead(k) ==
  LET c == call[k]
      f == FileOf(c)
  IN
  /\ pc[k] = "sent" /\ c.op = "read" /\ Opens(c.ns)
  /\ OpenWorkspace(c.ns) /\ disk' = Tabled(c.ns)
  /\ \/ InR2(f) /\ Goto(k, "get") /\ UNCHANGED got
     \/ /\ ~InR2(f) /\ Goto(k, "ok") /\ got' = [got EXCEPT ![k] = View(f)]
  /\ UNCHANGED <<objects, late, call, known, adrift, evictions>>

\* handle_stat, handle_lstat, handle_exists and the like: one look at the rows.
HandleLook(k) ==
  LET c == call[k] IN
  /\ pc[k] = "sent" /\ c.op = "look" /\ Opens(c.ns)
  /\ OpenWorkspace(c.ns) /\ disk' = Tabled(c.ns)
  /\ got' = [got EXCEPT ![k] = IF RowOf(FileOf(c)) = NoRow THEN Absent ELSE Listed]
  /\ Goto(k, "ok")
  /\ UNCHANGED <<objects, late, call, known, adrift, evictions>>

\* handle_delete_file: the object of an r2 row first, then the row.
HandleDelete(k) ==
  LET c == call[k]
      f == FileOf(c)
  IN
  /\ pc[k] = "sent" /\ c.op = "delete" /\ Opens(c.ns)
  /\ OpenWorkspace(c.ns)
  /\ \/ InR2(f) /\ Goto(k, "rmobj") /\ disk' = Tabled(c.ns)
     \/ /\ ~InR2(f) /\ Goto(k, "ok") /\ disk' = [Tabled(c.ns) EXCEPT ![c.ns].rows[c.path] = NoRow]
  /\ UNCHANGED <<objects, late, call, got, known, adrift, evictions>>

\* The call goes on after its R2 call: the row follows the object.
Resume(k) ==
  LET f == FileOf(call[k]) IN
  /\ \/ pc[k] = "stored" /\ SetRow(f, [storage |-> "r2", content |-> Absent])
     \/ pc[k] = "rmrow" /\ SetRow(f, NoRow)
     \/ pc[k] \in {"dropped", "got"} /\ UNCHANGED disk
  /\ Goto(k, "ok")
  /\ UNCHANGED <<open, objects, late, call, got, boots, known, adrift, evictions>>

----------------------------------------------------------------------------
(* R2. *)

\* What the put or delete of client k makes of its object.
Brings(k) == IF pc[k] = "put" THEN call[k].data ELSE Absent

R2Lands(k) ==
  LET f == FileOf(call[k]) IN
  /\ \/ /\ \/ pc[k] = "put" /\ Goto(k, "stored")
           \/ pc[k] = "drop" /\ Goto(k, "dropped")
           \/ pc[k] = "rmobj" /\ Goto(k, "rmrow")
        /\ SetObject(f, Brings(k)) /\ adrift' = [adrift EXCEPT ![f] = {}]
        /\ UNCHANGED got
     \/ /\ pc[k] = "get" /\ Goto(k, "got")
        /\ got' = [got EXCEPT ![k] = objects[Key(f)]]
        /\ UNCHANGED <<objects, adrift>>
  /\ UNCHANGED <<disk, open, late, call, boots, known, evictions>>

\* A failed get or put fails the call, the put perhaps after it took effect; a failed
\* delete is ignored.
R2Fails(k) ==
  LET f == FileOf(call[k]) IN
  /\ R2Faults
  /\ \/ pc[k] = "get" /\ Goto(k, "failed") /\ UNCHANGED objects
     \/ /\ pc[k] = "put" /\ Goto(k, "failed")
        /\ (UNCHANGED objects \/ SetObject(f, call[k].data))
     \/ pc[k] = "drop" /\ Goto(k, "dropped") /\ UNCHANGED objects
     \/ pc[k] = "rmobj" /\ Goto(k, "rmrow") /\ UNCHANGED objects
  /\ UNCHANGED <<disk, open, late, call, got, boots, known, adrift, evictions>>

----------------------------------------------------------------------------
\* What the call c makes of its file.
Effect(c) == IF c.op = "write" THEN c.data ELSE Absent

\* The answer: an acknowledged call has had its effect, one that failed may have had it,
\* one that was refused has not.
Answer(k) ==
  LET f == FileOf(call[k]) IN
  /\ pc[k] \in {"ok", "failed", "refused"}
  /\ known' = [known EXCEPT ![f] =
       IF call[k].op \in {"read", "look"} \/ pc[k] = "refused" THEN @
       ELSE IF pc[k] = "ok" THEN {Effect(call[k])} ELSE @ \cup {Effect(call[k])}]
  /\ Goto(k, "idle")
  /\ call' = [call EXCEPT ![k] = NoCall]
  /\ got' = [got EXCEPT ![k] = Absent]
  /\ UNCHANGED <<disk, open, objects, late, boots, adrift, evictions>>

\* Steps in the object, whose calls an eviction cuts off.
InObject == {"sent", "put", "stored", "drop", "dropped", "get", "got", "rmobj", "rmrow"}

\* The object is evicted or redeployed: its SQLite stays, its cache goes, and the callers
\* of the calls it was serving get an error. Its R2 puts and deletes may be on their way.
Evict(ns) ==
  /\ evictions < MaxEvictions
  /\ evictions' = evictions + 1
  /\ open' = [open EXCEPT ![ns] = FALSE]
  /\ boots' = [boots EXCEPT ![ns] = 0]
  /\ pc' = [k \in Client |->
       IF pc[k] \in InObject /\ call[k].ns = ns THEN "failed" ELSE pc[k]]
  /\ late' = late \cup
       {[file |-> FileOf(call[k]), life |-> evictions, value |-> Brings(k)] :
          k \in {j \in Client : pc[j] \in {"put", "drop", "rmobj"} /\ call[j].ns = ns}}
  /\ UNCHANGED <<disk, objects, call, got, known, adrift>>

\* R2 carries out a put or delete whose object has been evicted since. (One that it never
\* carries out stays.)
LateLands ==
  \E l \in late :
    /\ late' = late \ {l}
    /\ SetObject(l.file, l.value)
    /\ adrift' = [adrift EXCEPT ![l.file] = @ \cup {l.value}]
    /\ UNCHANGED <<disk, open, pc, call, got, boots, known, evictions>>

Next ==
  \/ \E k \in Client :
       \/ \E c \in Call : InvokeRpc(k, c) \/ InvokeHttp(k, c)
       \/ HandleBadNamespace(k) \/ HandleWrite(k) \/ HandleRead(k) \/ HandleLook(k)
       \/ HandleDelete(k)
       \/ Resume(k) \/ R2Lands(k) \/ R2Fails(k) \/ Answer(k)
  \/ \E ns \in Namespace : Evict(ns)
  \/ LateLands

Spec == Init /\ [][Next]_vars
----------------------------------------------------------------------------
(* Properties. *)

Steps == InObject \cup {"idle", "refused", "ok", "failed"}

\* TypeOK: a row exists only in a table, and a Workspace is cached only where one can open.
TypeOK ==
  /\ disk \in [Namespace -> [table : BOOLEAN, rows : [Path -> Row \cup {NoRow}]]]
  /\ open \in [Namespace -> BOOLEAN]
  /\ objects \in [Keys -> Data \cup {Absent}]
  /\ pc \in [Client -> Steps]
  /\ call \in [Client -> Call \cup {NoCall}]
  /\ got \in [Client -> Data \cup {Absent, Listed}]
  /\ boots \in [Namespace -> Nat]
  /\ late \subseteq [file : File, life : Nat, value : Data \cup {Absent}]
  /\ known \in [File -> SUBSET (Data \cup {Absent})]
  /\ adrift \in [File -> SUBSET (Data \cup {Absent})]
  /\ evictions \in 0..MaxEvictions
  /\ \A ns \in Namespace :
       /\ open[ns] => Opens(ns)
       /\ (\E p \in Path : disk[ns].rows[p] # NoRow) => disk[ns].table

\* What f may hold: what its namespace's callers last stored, or, if it has spilled, what a
\* put or delete of an evicted object has made of its R2 object since.
May(f) == known[f] \cup (IF InR2(f) THEN adrift[f] ELSE {})

\* A file holds what its own namespace's callers last stored there, whatever other
\* namespaces' objects do to the shared bucket, and across evictions: each namespace is
\* isolated, and an acknowledged write or delete outlives the object that served it. Only a
\* put or delete of the same file, by an object evicted before it was done, can undo an
\* acknowledged write that spilled: no write or delete of a small file, no delete.
FilesAreOwn ==
  \A f \in File : ~InProgress(f) => View(f) \in May(f)

\* A read that is answered gives what its own namespace's callers last stored there, with
\* the same exception, and a look lists the file just when they may have stored one.
AnswersAreOwn ==
  \A k \in Client : pc[k] = "ok" =>
    LET f == FileOf(call[k]) IN
    /\ call[k].op = "read" => got[k] \in May(f)
    /\ call[k].op = "look" => IF got[k] = Listed THEN known[f] # {Absent} ELSE Absent \in known[f]

\* An object bootstraps at most once in a lifetime (do_obj.rs: "exactly one per (DO
\* instance, namespace) lifetime"), and a cached Workspace has its table.
CacheIsSound ==
  \A ns \in Namespace :
    /\ boots[ns] <= 1
    /\ open[ns] <=> boots[ns] = 1
    /\ open[ns] => disk[ns].table
============================================================================
