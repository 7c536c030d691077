---------------------------- MODULE ShellFsProofs ----------------------------
(***************************************************************************)
(* Theorems about ShellFs, for any callers, namespaces, paths and contents,*)
(* with R2 faults and any number of evictions: the objects share a bucket  *)
(* and yet each namespace has its files to itself, unless "" and           *)
(* "default" are both in use. What an eviction can cost is stated, not     *)
(* assumed away: R2 may still carry out what an evicted object had sent.   *)
(***************************************************************************)
EXTENDS ShellFs, TLAPS

USE ShellFsAssumption

\* The empty name and "default" are not both used: they would be one Workspace in two objects.
Separate == ~(Unnamed \in Namespace /\ Default \in Namespace)

----------------------------------------------------------------------------
(* The inductive invariant. *)

Disk == [Namespace -> [table : BOOLEAN, rows : [Path -> Row \cup {NoRow}]]]

\* What a read gives of a file with this row and this object.
Seen(row, object) ==
  IF row = NoRow THEN Absent ELSE IF row.storage = "r2" THEN object ELSE row.content

\* A file is listed only where one of the calls made on it may have stored something.
Lists(may) == \E v \in may : v # Absent

\* What late R2 calls may have brought to a file with this row, when `drift` is what they made
\* of its object since R2 last answered for it.
Loose(row, drift) == IF row # NoRow /\ row.storage = "r2" THEN drift ELSE {}

\* The file holds what it may, and is listed only if it may be.
Holds(row, object, may, drift) ==
  Seen(row, object) \in may \cup Loose(row, drift) /\ (row # NoRow => Lists(may))

\* What is known of the file of call c while the call is at `step` and has read `bytes`.
Fits(c, step, bytes, row, object, may, drift) ==
  /\ step \in {"sent", "refused", "put", "get", "got", "rmobj"} => Holds(row, object, may, drift)
  /\ step \in {"put", "stored", "drop", "dropped"} => c.op = "write"
  /\ step \in {"get", "got"} => c.op = "read"
  /\ step \in {"rmobj", "rmrow"} => c.op = "delete"
  /\ step \in {"get", "rmobj"} => row # NoRow /\ row.storage = "r2"
  /\ step = "stored" => object \in {c.data} \cup drift
  /\ step \in {"stored", "failed"} =>
       /\ Seen(row, object) \in may \cup {Effect(c)} \cup Loose(row, drift)
       /\ row # NoRow => Lists(may) \/ c.op = "write"
  /\ step = "failed" /\ c.op \in {"read", "look"} => Holds(row, object, may, drift)
  /\ step \in {"drop", "dropped"} => row = [storage |-> "inline", content |-> c.data]
  /\ step = "rmrow" => Seen(row, object) \in may \cup {Absent} \cup Loose(row, drift) /\ Lists(may)
  /\ step = "got" => bytes \in may \cup Loose(row, drift)
  /\ step = "ok" =>
       /\ c.op = "write" => Seen(row, object) \in {c.data} \cup Loose(row, drift)
       /\ c.op = "delete" => row = NoRow
       /\ c.op \in {"read", "look"} => Holds(row, object, may, drift)
       /\ c.op = "read" => bytes \in may \cup Loose(row, drift)
       /\ c.op = "look" => IF bytes = Listed THEN Lists(may) ELSE Absent \in may

FitsAt(k) ==
  LET f == FileOf(call[k]) IN
  Fits(call[k], pc[k], got[k], RowOf(f), objects[Key(f)], known[f], adrift[f])

Busy(k) == pc[k] # "idle"

ShellInv ==
  /\ TypeOK /\ CacheIsSound
  /\ \A k \in Client : Busy(k) => call[k] \in Call /\ FitsAt(k)
  /\ \A k \in Client : pc[k] \in {"put", "stored"} => disk[call[k].ns].table
  /\ \A j, k \in Client : j # k /\ Busy(j) /\ Busy(k) => FileOf(call[j]) # FileOf(call[k])
  /\ \A f \in File : ~InProgress(f) => Holds(RowOf(f), objects[Key(f)], known[f], adrift[f])

----------------------------------------------------------------------------
(* Files, keys and rows. *)

\* Calls are about files.
LEMMA CallsHaveFiles ==
  ASSUME NEW c \in Call
  PROVE  /\ FileOf(c) \in File /\ FileOf(c)[1] = c.ns /\ FileOf(c)[2] = c.path
         /\ c.ns \in Namespace /\ c.path \in Path
         /\ c.op \in {"write", "read", "look", "delete"}
         /\ c.op = "write" => c.data \in Data
         /\ Effect(c) \in Data \cup {Absent}
BY DEF Call, WriteReq, ReadReq, LookReq, DeleteReq, FileOf, File, Effect

\* Two files have two keys.
LEMMA KeysDiffer ==
  ASSUME Separate, NEW f \in File, NEW g \in File, f # g
  PROVE  Key(f) # Key(g)
<1>1. f = <<f[1], f[2]>> /\ g = <<g[1], g[2]>> /\ f[1] \in Namespace /\ g[1] \in Namespace
  BY DEF File
<1>2. f[1] # g[1] \/ f[2] # g[2]
  BY <1>1
<1>3. f[1] # g[1] => WorkspaceName(f[1]) # WorkspaceName(g[1])
  BY <1>1 DEF WorkspaceName, Separate
<1>4. QED BY <1>2, <1>3 DEF Key

\* Every key is one of the bucket's.
LEMMA KeysAreKeys ==
  ASSUME NEW f \in File
  PROVE  Key(f) \in Keys
BY DEF Keys

\* The rows are as f has `row` and all others stay.
Rowed(f, row) ==
  /\ disk' \in Disk /\ disk'[f[1]].rows[f[2]] = row
  /\ \A g \in File : g # f => disk'[g[1]].rows[g[2]] = disk[g[1]].rows[g[2]]
  /\ \A ns \in Namespace : disk[ns].table => disk'[ns].table
  /\ \A ns \in Namespace : (\E p \in Path : disk'[ns].rows[p] # NoRow) => disk'[ns].table

\* A statement that makes the table first, or finds it.
LEMMA TabledRow ==
  ASSUME TypeOK, NEW f \in File, NEW row \in Row \cup {NoRow},
         disk' = [Tabled(f[1]) EXCEPT ![f[1]].rows[f[2]] = row]
  PROVE  Rowed(f, row) /\ disk'[f[1]].table
<1> DEFINE ns == f[1]
           p == f[2]
<1>1. f = <<ns, p>> /\ ns \in Namespace /\ p \in Path /\ disk \in Disk
  BY DEF File, TypeOK, Disk
<1>2. disk[ns] \in [table : BOOLEAN, rows : [Path -> Row \cup {NoRow}]]
  BY <1>1 DEF Disk
<1>3. disk' \in Disk
  BY <1>1, <1>2 DEF Tabled, Disk
<1>4. /\ disk'[ns].table /\ disk'[ns].rows = [disk[ns].rows EXCEPT ![p] = row]
      /\ \A m \in Namespace : m # ns => disk'[m] = disk[m]
  BY <1>1, <1>2 DEF Tabled, Disk
<1>5. disk'[ns].rows[p] = row /\ \A q \in Path : q # p => disk'[ns].rows[q] = disk[ns].rows[q]
  BY <1>1, <1>2, <1>4
<1>6. ASSUME NEW g \in File, g # f PROVE disk'[g[1]].rows[g[2]] = disk[g[1]].rows[g[2]]
  <2>1. g = <<g[1], g[2]>> /\ g[1] \in Namespace /\ g[2] \in Path
    BY DEF File
  <2>2. g[1] # ns \/ g[2] # p
    BY <1>1, <1>6, <2>1
  <2>3. QED BY <1>4, <1>5, <2>1, <2>2
<1>7. \A m \in Namespace : disk[m].table => disk'[m].table
  BY <1>4
<1>8. \A m \in Namespace : (\E q \in Path : disk'[m].rows[q] # NoRow) => disk'[m].table
  BY <1>4 DEF TypeOK
<1>9. QED BY <1>3, <1>4, <1>5, <1>6, <1>7, <1>8 DEF Rowed

\* A statement that needs the table.
LEMMA PlainRow ==
  ASSUME TypeOK, NEW f \in File, NEW row \in Row \cup {NoRow}, SetRow(f, row),
         row = NoRow \/ disk[f[1]].table
  PROVE  Rowed(f, row)
<1> DEFINE ns == f[1]
           p == f[2]
<1>1. f = <<ns, p>> /\ ns \in Namespace /\ p \in Path /\ disk \in Disk
  BY DEF File, TypeOK, Disk
<1>2. disk[ns] \in [table : BOOLEAN, rows : [Path -> Row \cup {NoRow}]]
  BY <1>1 DEF Disk
<1>3. disk' = [disk EXCEPT ![ns].rows[p] = row]
  BY DEF SetRow
<1>4. disk' \in Disk
  BY <1>1, <1>2, <1>3 DEF Disk
<1>5. /\ disk'[ns].table = disk[ns].table /\ disk'[ns].rows = [disk[ns].rows EXCEPT ![p] = row]
      /\ \A m \in Namespace : m # ns => disk'[m] = disk[m]
  BY <1>1, <1>2, <1>3 DEF Disk
<1>6. disk'[ns].rows[p] = row /\ \A q \in Path : q # p => disk'[ns].rows[q] = disk[ns].rows[q]
  BY <1>1, <1>2, <1>5
<1>7. ASSUME NEW g \in File, g # f PROVE disk'[g[1]].rows[g[2]] = disk[g[1]].rows[g[2]]
  <2>1. g = <<g[1], g[2]>> /\ g[1] \in Namespace /\ g[2] \in Path
    BY DEF File
  <2>2. g[1] # ns \/ g[2] # p
    BY <1>1, <1>7, <2>1
  <2>3. QED BY <1>5, <1>6, <2>1, <2>2
<1>8. \A m \in Namespace : disk[m].table => disk'[m].table
  BY <1>5
<1>9. ASSUME NEW m \in Namespace, NEW q \in Path, disk'[m].rows[q] # NoRow PROVE disk'[m].table
  <2>1. CASE m # ns
    BY <1>5, <1>9, <2>1 DEF TypeOK
  <2>2. CASE m = ns /\ disk[ns].table
    BY <1>5, <2>2
  <2>3. CASE m = ns /\ row = NoRow
    <3>1. q # p /\ disk[ns].rows[q] # NoRow
      BY <1>6, <1>9, <2>3
    <3>2. QED BY <1>1, <1>5, <2>3, <3>1 DEF TypeOK
  <2>4. QED BY <2>1, <2>2, <2>3
<1>10. QED BY <1>4, <1>6, <1>7, <1>8, <1>9 DEF Rowed

\* A statement that changes no row, but makes the table.
LEMMA SameRow ==
  ASSUME TypeOK, NEW f \in File, disk' = Tabled(f[1]) \/ UNCHANGED disk
  PROVE  /\ Rowed(f, RowOf(f)) /\ RowOf(f) \in Row \cup {NoRow}
         /\ disk' = Tabled(f[1]) => disk'[f[1]].table
<1> DEFINE ns == f[1]
<1>1. f = <<ns, f[2]>> /\ ns \in Namespace /\ f[2] \in Path /\ disk \in Disk
  BY DEF File, TypeOK, Disk
<1>2. disk[ns] \in [table : BOOLEAN, rows : [Path -> Row \cup {NoRow}]]
  BY <1>1 DEF Disk
<1>3. RowOf(f) \in Row \cup {NoRow}
  BY <1>1, <1>2 DEF RowOf
<1>4. CASE UNCHANGED disk
  <2>1. disk' \in Disk /\ disk'[f[1]].rows[f[2]] = RowOf(f)
    BY <1>1, <1>4 DEF RowOf
  <2>2. \A m \in Namespace : (\E q \in Path : disk'[m].rows[q] # NoRow) => disk'[m].table
    BY <1>4 DEF TypeOK
  <2>3. disk' = Tabled(ns) => disk'[ns].table
    BY <1>1, <1>2 DEF Tabled, Disk
  <2>4. QED BY <1>3, <1>4, <2>1, <2>2, <2>3 DEF Rowed
<1>5. CASE disk' = Tabled(ns)
  <2>1. disk' \in Disk
    BY <1>1, <1>2, <1>5 DEF Tabled, Disk
  <2>2. /\ disk'[ns].table /\ disk'[ns].rows = disk[ns].rows
        /\ \A m \in Namespace : m # ns => disk'[m] = disk[m]
    BY <1>1, <1>2, <1>5 DEF Tabled, Disk
  <2>3. ASSUME NEW g \in File PROVE disk'[g[1]].rows[g[2]] = disk[g[1]].rows[g[2]]
    <3>1. g[1] \in Namespace
      BY DEF File
    <3>2. QED BY <2>2, <3>1
  <2>4. \A m \in Namespace : disk[m].table => disk'[m].table
    BY <2>2
  <2>5. \A m \in Namespace : (\E q \in Path : disk'[m].rows[q] # NoRow) => disk'[m].table
    BY <2>2 DEF TypeOK
  <2>6. disk'[f[1]].rows[f[2]] = RowOf(f)
    BY <2>3 DEF RowOf
  <2>7. QED BY <1>3, <2>1, <2>2, <2>3, <2>4, <2>5, <2>6 DEF Rowed
<1>6. QED BY <1>4, <1>5

\* The bucket is as f has the object v and all other files have theirs.
LEMMA ObjectSet ==
  ASSUME Separate, TypeOK, NEW f \in File, NEW v \in Data \cup {Absent}, SetObject(f, v)
  PROVE  /\ objects' \in [Keys -> Data \cup {Absent}] /\ objects'[Key(f)] = v
         /\ \A g \in File : g # f => objects'[Key(g)] = objects[Key(g)]
<1>1. objects \in [Keys -> Data \cup {Absent}] /\ Key(f) \in Keys
  BY KeysAreKeys DEF TypeOK
<1>2. objects' = [objects EXCEPT ![Key(f)] = v]
  BY DEF SetObject
<1>3. \A g \in File : g # f => Key(g) # Key(f) /\ Key(g) \in Keys
  BY KeysDiffer, KeysAreKeys
<1> HIDE DEF Key
<1>4. QED BY <1>1, <1>2, <1>3

----------------------------------------------------------------------------
(* A step of the call c of client k: what it may change is the file of c. *)

Moves(k, c) ==
  LET f == FileOf(c) IN
  /\ pc[k] # "idle" /\ call[k] = c /\ UNCHANGED <<late, call, known, evictions>>
  /\ pc' \in [Client -> Steps] /\ pc'[k] # "idle"
  /\ \A j \in Client : j # k => pc'[j] = pc[j] /\ got'[j] = got[j]
  /\ got' \in [Client -> Data \cup {Absent, Listed}]
  /\ objects' \in [Keys -> Data \cup {Absent}]
  /\ adrift' \in [File -> SUBSET (Data \cup {Absent})]
  /\ \A g \in File : g # f => objects'[Key(g)] = objects[Key(g)] /\ adrift'[g] = adrift[g]
  /\ \E row \in Row \cup {NoRow} :
       /\ Rowed(f, row)
       /\ Fits(c, pc'[k], got'[k], row, objects'[Key(f)], known[f], adrift'[f])
  /\ pc'[k] \in {"put", "stored"} => disk'[c.ns].table

\* The caches stay sound.
Cached ==
  /\ open' \in [Namespace -> BOOLEAN] /\ boots' \in [Namespace -> Nat]
  /\ \A ns \in Namespace : open'[ns] => Opens(ns)
  /\ CacheIsSound'

\* Such a step keeps the invariant.
LEMMA MovesKeepInv ==
  ASSUME ShellInv, NEW k \in Client, NEW c \in Call, Moves(k, c), Cached
  PROVE  ShellInv'
<1> DEFINE f == FileOf(c)
<1>1. f \in File
  BY CallsHaveFiles
<1>2. PICK row \in Row \cup {NoRow} :
        Rowed(f, row) /\ Fits(c, pc'[k], got'[k], row, objects'[Key(f)], known[f], adrift'[f])
  BY DEF Moves
<1>3. \A g \in File : g # f => /\ disk'[g[1]].rows[g[2]] = disk[g[1]].rows[g[2]]
                               /\ objects'[Key(g)] = objects[Key(g)] /\ adrift'[g] = adrift[g]
  BY <1>2 DEF Rowed, Moves
<1>4. /\ call' = call /\ known' = known /\ call[k] = c /\ pc[k] # "idle" /\ pc'[k] # "idle"
      /\ \A j \in Client : j # k => pc'[j] = pc[j] /\ got'[j] = got[j]
  BY DEF Moves
<1>5. TypeOK'
  BY <1>2 DEF ShellInv, TypeOK, Moves, Rowed, Disk, Cached
<1>6. \A j \in Client : j # k /\ pc[j] # "idle" => FileOf(call[j]) # f /\ call[j] \in Call
  BY <1>4 DEF ShellInv, Busy
<1>7. ASSUME NEW j \in Client, pc'[j] # "idle" PROVE call'[j] \in Call /\ FitsAt(j)'
  <2>1. CASE j = k
    BY <1>2, <1>4, <2>1 DEF FitsAt, Rowed, RowOf
  <2>2. CASE j # k
    <3>1. pc[j] # "idle" /\ call[j] \in Call /\ FitsAt(j) /\ FileOf(call[j]) # f
      BY <1>4, <1>6, <1>7, <2>2 DEF ShellInv, Busy
    <3>2. FileOf(call[j]) \in File
      BY <3>1, CallsHaveFiles
    <3>3. QED BY <1>3, <1>4, <2>2, <3>1, <3>2 DEF FitsAt, RowOf
  <2>3. QED BY <2>1, <2>2
<1>8. ASSUME NEW j \in Client, pc'[j] \in {"put", "stored"} PROVE disk'[call'[j].ns].table
  <2>1. CASE j = k
    BY <1>4, <1>8, <2>1 DEF Moves
  <2>2. CASE j # k
    <3>1. pc[j] \in {"put", "stored"} /\ call[j] \in Call /\ disk[call[j].ns].table
      BY <1>4, <1>6, <1>8, <2>2 DEF ShellInv
    <3>2. call[j].ns \in Namespace
      BY <3>1, CallsHaveFiles
    <3>3. QED BY <1>2, <1>4, <3>1, <3>2 DEF Rowed
  <2>3. QED BY <2>1, <2>2
<1>9. \A i, j \in Client : i # j /\ pc'[i] # "idle" /\ pc'[j] # "idle" =>
                             FileOf(call'[i]) # FileOf(call'[j])
  BY <1>4 DEF ShellInv, Busy
<1>10. ASSUME NEW g \in File, ~InProgress(g)'
       PROVE  Holds(RowOf(g)', objects'[Key(g)], known'[g], adrift'[g])
  <2>1. g # f
    BY <1>4, <1>10 DEF InProgress
  <2>2. ~InProgress(g)
    BY <1>4, <1>10 DEF InProgress
  <2>3. QED BY <1>3, <1>4, <2>1, <2>2 DEF ShellInv, RowOf
<1>11. QED BY <1>5, <1>7, <1>8, <1>9, <1>10 DEF ShellInv, Busy, Cached

\* open_workspace, on a file's table that is there by now.
LEMMA OpenCaches ==
  ASSUME ShellInv, NEW f \in File, Opens(f[1]), OpenWorkspace(f[1]), NEW row, Rowed(f, row),
         disk'[f[1]].table
  PROVE  Cached
<1> DEFINE ns == f[1]
<1>1. /\ ns \in Namespace /\ open \in [Namespace -> BOOLEAN] /\ boots \in [Namespace -> Nat]
      /\ \A m \in Namespace : open[m] => Opens(m) /\ disk'[m].table
      /\ \A m \in Namespace : boots[m] <= 1 /\ (open[m] <=> boots[m] = 1)
  BY DEF ShellInv, TypeOK, File, Rowed, CacheIsSound
<1>2. /\ open' = [open EXCEPT ![ns] = TRUE]
      /\ boots' = [boots EXCEPT ![ns] = IF open[ns] THEN boots[ns] ELSE boots[ns] + 1]
  BY DEF OpenWorkspace
<1>3. open' \in [Namespace -> BOOLEAN] /\ boots' \in [Namespace -> Nat]
  BY <1>1, <1>2
<1>4. ASSUME NEW m \in Namespace
      PROVE  /\ boots'[m] <= 1 /\ (open'[m] <=> boots'[m] = 1)
             /\ open'[m] => Opens(m) /\ disk'[m].table
  <2>1. CASE m # ns
    BY <1>1, <1>2, <2>1
  <2>2. CASE m = ns /\ open[ns]
    BY <1>1, <1>2, <2>2
  <2>3. CASE m = ns /\ ~open[ns]
    <3>1. boots[ns] = 0
      BY <1>1, <2>3
    <3>2. boots'[m] = 1 /\ open'[m]
      BY <1>1, <1>2, <2>3, <3>1
    <3>3. QED BY <2>3, <3>2
  <2>4. QED BY <2>1, <2>2, <2>3
<1>5. QED BY <1>3, <1>4 DEF Cached, CacheIsSound

\* No open_workspace.
LEMMA SameCaches ==
  ASSUME ShellInv, UNCHANGED <<open, boots>>,
         \A ns \in Namespace : disk[ns].table => disk'[ns].table
  PROVE  Cached
BY DEF ShellInv, TypeOK, CacheIsSound, Cached

\* The call of a client that is not idle.
LEMMA CallOf ==
  ASSUME ShellInv, NEW k \in Client, pc[k] # "idle"
  PROVE  LET c == call[k] IN
         /\ c \in Call
         /\ Fits(c, pc[k], got[k], RowOf(FileOf(c)), objects[Key(FileOf(c))],
                 known[FileOf(c)], adrift[FileOf(c)])
BY DEF ShellInv, Busy, FitsAt

\* The types of the parts that a step of the object changes.
LEMMA Typing ==
  ASSUME ShellInv, NEW f \in File
  PROVE  /\ objects[Key(f)] \in Data \cup {Absent} /\ RowOf(f) \in Row \cup {NoRow}
         /\ Seen(RowOf(f), objects[Key(f)]) \in Data \cup {Absent}
         /\ View(f) = Seen(RowOf(f), objects[Key(f)])
         /\ InR2(f) <=> RowOf(f) # NoRow /\ RowOf(f).storage = "r2"
<1>1. objects[Key(f)] \in Data \cup {Absent}
  BY KeysAreKeys DEF ShellInv, TypeOK
<1>2. RowOf(f) \in Row \cup {NoRow}
  BY DEF ShellInv, TypeOK, RowOf, File
<1>3. Seen(RowOf(f), objects[Key(f)]) \in Data \cup {Absent}
  BY <1>1, <1>2 DEF Seen, Row
<1>4. QED BY <1>1, <1>2, <1>3 DEF View, InR2, Seen

\* The types of pc and got after a step of client k.
LEMMA Stepped ==
  ASSUME ShellInv, NEW k \in Client, NEW step \in Steps, Goto(k, step),
         NEW bytes \in Data \cup {Absent, Listed}, got' = [got EXCEPT ![k] = bytes]
  PROVE  /\ pc' \in [Client -> Steps] /\ got' \in [Client -> Data \cup {Absent, Listed}]
         /\ pc'[k] = step /\ got'[k] = bytes
         /\ \A j \in Client : j # k => pc'[j] = pc[j] /\ got'[j] = got[j]
BY DEF ShellInv, TypeOK, Goto

\* The same for a step that leaves `got` alone.
LEMMA Went ==
  ASSUME ShellInv, NEW k \in Client, NEW step \in Steps, Goto(k, step), UNCHANGED got
  PROVE  /\ pc' \in [Client -> Steps] /\ got' \in [Client -> Data \cup {Absent, Listed}]
         /\ pc'[k] = step /\ \A j \in Client : j # k => pc'[j] = pc[j] /\ got'[j] = got[j]
BY DEF ShellInv, TypeOK, Goto

\* What Moves asks of a step of the object that leaves the bucket alone.
LEMMA RowMoves ==
  ASSUME ShellInv, NEW k \in Client, NEW c \in Call, pc[k] # "idle", call[k] = c,
         UNCHANGED <<late, call, known, adrift, evictions, objects>>,
         pc' \in [Client -> Steps], got' \in [Client -> Data \cup {Absent, Listed}],
         \A j \in Client : j # k => pc'[j] = pc[j] /\ got'[j] = got[j], pc'[k] # "idle",
         NEW row \in Row \cup {NoRow}, Rowed(FileOf(c), row),
         pc'[k] \in {"put", "stored"} => disk'[c.ns].table,
         Fits(c, pc'[k], got'[k], row, objects[Key(FileOf(c))],
              known[FileOf(c)], adrift[FileOf(c)])
  PROVE  Moves(k, c)
BY DEF Moves, ShellInv, TypeOK

\* handle_write_file
LEMMA WriteStep ==
  ASSUME ShellInv, NEW k \in Client, HandleWrite(k)
  PROVE  ShellInv'
<1>1. PICK c \in Call : c = call[k]
  BY CallOf DEF HandleWrite
<1> DEFINE f == FileOf(c)
           object == objects[Key(f)]
           row == [storage |-> "inline", content |-> c.data]
<1>2. /\ pc[k] = "sent" /\ c.op = "write" /\ Opens(c.ns) /\ OpenWorkspace(c.ns)
      /\ UNCHANGED <<objects, late, call, got, known, adrift, evictions>>
      /\ \/ Goto(k, "put") /\ disk' = Tabled(c.ns)
         \/ Goto(k, "drop") /\ disk' = [Tabled(c.ns) EXCEPT ![c.ns].rows[c.path] = row]
  BY <1>1 DEF HandleWrite
<1>3. f \in File /\ f[1] = c.ns /\ f[2] = c.path /\ c.data \in Data
  BY <1>2, CallsHaveFiles
<1>4. Fits(c, "sent", got[k], RowOf(f), object, known[f], adrift[f]) /\ TypeOK
  BY <1>1, <1>2, CallOf DEF ShellInv
<1>5. CASE Goto(k, "put") /\ disk' = Tabled(c.ns)
  <2>1. Rowed(f, RowOf(f)) /\ RowOf(f) \in Row \cup {NoRow} /\ disk'[f[1]].table
    BY <1>3, <1>4, <1>5, SameRow
  <2>2. "put" \in Steps
    BY DEF Steps, InObject
  <2>3. Fits(c, "put", got[k], RowOf(f), object, known[f], adrift[f])
    BY <1>2, <1>4 DEF Fits
  <2>4. /\ pc' \in [Client -> Steps] /\ got' \in [Client -> Data \cup {Absent, Listed}]
        /\ pc'[k] = "put" /\ got'[k] = got[k]
        /\ \A j \in Client : j # k => pc'[j] = pc[j] /\ got'[j] = got[j]
    BY <1>2, <1>5, <2>2, Went
  <2>5. Moves(k, c)
    BY <1>1, <1>2, <1>3, <2>1, <2>3, <2>4, RowMoves, SMTT(30)
  <2>6. Cached
    BY <1>2, <1>3, <2>1, OpenCaches
  <2>7. QED BY <2>5, <2>6, MovesKeepInv
<1>6. CASE Goto(k, "drop") /\ disk' = [Tabled(c.ns) EXCEPT ![c.ns].rows[c.path] = row]
  <2>1. row \in Row \cup {NoRow}
    BY <1>3 DEF Row
  <2>2. Rowed(f, row) /\ disk'[f[1]].table
    BY <1>3, <1>4, <1>6, <2>1, TabledRow
  <2>3. "drop" \in Steps
    BY DEF Steps, InObject
  <2>4. Fits(c, "drop", got[k], row, object, known[f], adrift[f])
    BY <1>2 DEF Fits
  <2>5. /\ pc' \in [Client -> Steps] /\ got' \in [Client -> Data \cup {Absent, Listed}]
        /\ pc'[k] = "drop" /\ got'[k] = got[k]
        /\ \A j \in Client : j # k => pc'[j] = pc[j] /\ got'[j] = got[j]
    BY <1>2, <1>6, <2>3, Went
  <2>6. Moves(k, c)
    BY <1>1, <1>2, <1>3, <2>1, <2>2, <2>4, <2>5, RowMoves
  <2>7. Cached
    BY <1>2, <1>3, <2>2, OpenCaches
  <2>8. QED BY <2>6, <2>7, MovesKeepInv
<1>7. QED BY <1>2, <1>5, <1>6

\* handle_read_file
LEMMA ReadStep ==
  ASSUME ShellInv, NEW k \in Client, HandleRead(k)
  PROVE  ShellInv'
<1>1. PICK c \in Call : c = call[k]
  BY CallOf DEF HandleRead
<1> DEFINE f == FileOf(c)
           object == objects[Key(f)]
<1>2. /\ pc[k] = "sent" /\ c.op = "read" /\ Opens(c.ns) /\ OpenWorkspace(c.ns)
      /\ disk' = Tabled(c.ns) /\ UNCHANGED <<objects, late, call, known, adrift, evictions>>
      /\ \/ InR2(f) /\ Goto(k, "get") /\ UNCHANGED got
         \/ ~InR2(f) /\ Goto(k, "ok") /\ got' = [got EXCEPT ![k] = View(f)]
  BY <1>1 DEF HandleRead
<1>3. f \in File /\ f[1] = c.ns /\ f[2] = c.path
  BY CallsHaveFiles
<1>4. Fits(c, "sent", got[k], RowOf(f), object, known[f], adrift[f]) /\ TypeOK
  BY <1>1, <1>2, CallOf DEF ShellInv
<1>5. Rowed(f, RowOf(f)) /\ RowOf(f) \in Row \cup {NoRow} /\ disk'[f[1]].table
  BY <1>2, <1>3, <1>4, SameRow
<1>6. Cached
  BY <1>2, <1>3, <1>5, OpenCaches
<1>7. "get" \in Steps /\ "ok" \in Steps
  BY DEF Steps, InObject
<1>8. CASE InR2(f) /\ Goto(k, "get") /\ UNCHANGED got
  <2>1. Fits(c, "get", got[k], RowOf(f), object, known[f], adrift[f])
    BY <1>2, <1>3, <1>4, <1>8, Typing DEF Fits
  <2>2. /\ pc' \in [Client -> Steps] /\ got' \in [Client -> Data \cup {Absent, Listed}]
        /\ pc'[k] = "get" /\ got'[k] = got[k]
        /\ \A j \in Client : j # k => pc'[j] = pc[j] /\ got'[j] = got[j]
    BY <1>7, <1>8, Went
  <2>3. Moves(k, c)
    BY <1>1, <1>2, <1>5, <2>1, <2>2, RowMoves
  <2>4. QED BY <1>6, <2>3, MovesKeepInv
<1>9. CASE ~InR2(f) /\ Goto(k, "ok") /\ got' = [got EXCEPT ![k] = View(f)]
  <2>1. View(f) = Seen(RowOf(f), object) /\ View(f) \in Data \cup {Absent}
    BY <1>3, Typing
  <2>2. Fits(c, "ok", View(f), RowOf(f), object, known[f], adrift[f])
    BY <1>2, <1>4, <2>1 DEF Fits, Holds
  <2>3. /\ pc' \in [Client -> Steps] /\ got' \in [Client -> Data \cup {Absent, Listed}]
        /\ pc'[k] = "ok" /\ got'[k] = View(f)
        /\ \A j \in Client : j # k => pc'[j] = pc[j] /\ got'[j] = got[j]
    BY <1>7, <1>9, <2>1, Stepped
  <2>4. Moves(k, c)
    BY <1>1, <1>2, <1>5, <2>2, <2>3, RowMoves
  <2>5. QED BY <1>6, <2>4, MovesKeepInv
<1>10. QED BY <1>2, <1>8, <1>9

\* handle_stat and the like
LEMMA LookStep ==
  ASSUME ShellInv, NEW k \in Client, HandleLook(k)
  PROVE  ShellInv'
<1>1. PICK c \in Call : c = call[k]
  BY CallOf DEF HandleLook
<1> DEFINE f == FileOf(c)
           object == objects[Key(f)]
           seen == IF RowOf(f) = NoRow THEN Absent ELSE Listed
<1>2. /\ pc[k] = "sent" /\ c.op = "look" /\ Opens(c.ns) /\ OpenWorkspace(c.ns)
      /\ disk' = Tabled(c.ns) /\ UNCHANGED <<objects, late, call, known, adrift, evictions>>
      /\ got' = [got EXCEPT ![k] = seen] /\ Goto(k, "ok")
  BY <1>1 DEF HandleLook
<1>3. f \in File /\ f[1] = c.ns /\ f[2] = c.path
  BY CallsHaveFiles
<1>4. Fits(c, "sent", got[k], RowOf(f), object, known[f], adrift[f]) /\ TypeOK
  BY <1>1, <1>2, CallOf DEF ShellInv
<1>5. Rowed(f, RowOf(f)) /\ RowOf(f) \in Row \cup {NoRow} /\ disk'[f[1]].table
  BY <1>2, <1>3, <1>4, SameRow
<1>6. Cached
  BY <1>2, <1>3, <1>5, OpenCaches
<1>7. "ok" \in Steps /\ seen \in Data \cup {Absent, Listed}
  BY DEF Steps
<1>8. Fits(c, "ok", seen, RowOf(f), object, known[f], adrift[f])
  BY <1>2, <1>4 DEF Fits, Holds, Seen, Loose
<1> HIDE DEF seen
<1>9. /\ pc' \in [Client -> Steps] /\ got' \in [Client -> Data \cup {Absent, Listed}]
      /\ pc'[k] = "ok" /\ got'[k] = seen
      /\ \A j \in Client : j # k => pc'[j] = pc[j] /\ got'[j] = got[j]
  BY <1>2, <1>7, Stepped
<1>10. Moves(k, c)
  BY <1>1, <1>2, <1>5, <1>8, <1>9, RowMoves
<1>11. QED BY <1>6, <1>10, MovesKeepInv

\* handle_delete_file
LEMMA DeleteStep ==
  ASSUME ShellInv, NEW k \in Client, HandleDelete(k)
  PROVE  ShellInv'
<1>1. PICK c \in Call : c = call[k]
  BY CallOf DEF HandleDelete
<1> DEFINE f == FileOf(c)
           object == objects[Key(f)]
<1>2. /\ pc[k] = "sent" /\ c.op = "delete" /\ Opens(c.ns) /\ OpenWorkspace(c.ns)
      /\ UNCHANGED <<objects, late, call, got, known, adrift, evictions>>
      /\ \/ InR2(f) /\ Goto(k, "rmobj") /\ disk' = Tabled(c.ns)
         \/ Goto(k, "ok") /\ disk' = [Tabled(c.ns) EXCEPT ![c.ns].rows[c.path] = NoRow]
  BY <1>1 DEF HandleDelete
<1>3. f \in File /\ f[1] = c.ns /\ f[2] = c.path
  BY CallsHaveFiles
<1>4. Fits(c, "sent", got[k], RowOf(f), object, known[f], adrift[f]) /\ TypeOK
  BY <1>1, <1>2, CallOf DEF ShellInv
<1>5. "rmobj" \in Steps /\ "ok" \in Steps
  BY DEF Steps, InObject
<1>6. CASE InR2(f) /\ Goto(k, "rmobj") /\ disk' = Tabled(c.ns)
  <2>1. Rowed(f, RowOf(f)) /\ RowOf(f) \in Row \cup {NoRow} /\ disk'[f[1]].table
    BY <1>3, <1>4, <1>6, SameRow
  <2>2. Fits(c, "rmobj", got[k], RowOf(f), object, known[f], adrift[f])
    BY <1>2, <1>3, <1>4, <1>6, Typing DEF Fits
  <2>3. /\ pc' \in [Client -> Steps] /\ got' \in [Client -> Data \cup {Absent, Listed}]
        /\ pc'[k] = "rmobj" /\ got'[k] = got[k]
        /\ \A j \in Client : j # k => pc'[j] = pc[j] /\ got'[j] = got[j]
    BY <1>2, <1>5, <1>6, Went
  <2>4. Moves(k, c)
    BY <1>1, <1>2, <2>1, <2>2, <2>3, RowMoves
  <2>5. Cached
    BY <1>2, <1>3, <2>1, OpenCaches
  <2>6. QED BY <2>4, <2>5, MovesKeepInv
<1>7. CASE Goto(k, "ok") /\ disk' = [Tabled(c.ns) EXCEPT ![c.ns].rows[c.path] = NoRow]
  <2>1. Rowed(f, NoRow) /\ disk'[f[1]].table
    BY <1>3, <1>4, <1>7, TabledRow
  <2>2. Fits(c, "ok", got[k], NoRow, object, known[f], adrift[f])
    BY <1>2 DEF Fits
  <2>3. /\ pc' \in [Client -> Steps] /\ got' \in [Client -> Data \cup {Absent, Listed}]
        /\ pc'[k] = "ok" /\ got'[k] = got[k]
        /\ \A j \in Client : j # k => pc'[j] = pc[j] /\ got'[j] = got[j]
    BY <1>2, <1>5, <1>7, Went
  <2>4. Moves(k, c)
    BY <1>1, <1>2, <2>1, <2>2, <2>3, RowMoves
  <2>5. Cached
    BY <1>2, <1>3, <2>1, OpenCaches
  <2>6. QED BY <2>4, <2>5, MovesKeepInv
<1>8. QED BY <1>2, <1>6, <1>7

\* A bad namespace.
LEMMA BadNamespaceStep ==
  ASSUME ShellInv, NEW k \in Client, HandleBadNamespace(k)
  PROVE  ShellInv'
<1>1. PICK c \in Call : c = call[k]
  BY CallOf DEF HandleBadNamespace
<1> DEFINE f == FileOf(c)
<1>2. /\ pc[k] = "sent" /\ Goto(k, "refused")
      /\ UNCHANGED <<disk, open, objects, late, call, got, boots, known, adrift, evictions>>
  BY DEF HandleBadNamespace
<1>3. Fits(c, "sent", got[k], RowOf(f), objects[Key(f)], known[f], adrift[f]) /\ TypeOK /\ f \in File
  BY <1>1, <1>2, CallOf, CallsHaveFiles DEF ShellInv
<1>4. Fits(c, "refused", got[k], RowOf(f), objects[Key(f)], known[f], adrift[f])
  BY <1>3 DEF Fits
<1>5. Rowed(f, RowOf(f)) /\ RowOf(f) \in Row \cup {NoRow} /\ Cached
  BY <1>2, <1>3, SameRow, SameCaches
<1>6. /\ pc' \in [Client -> Steps] /\ got' \in [Client -> Data \cup {Absent, Listed}]
      /\ pc'[k] = "refused" /\ got'[k] = got[k]
      /\ \A j \in Client : j # k => pc'[j] = pc[j] /\ got'[j] = got[j]
  <2>1. "refused" \in Steps
    BY DEF Steps
  <2>2. QED BY <1>2, <2>1, Went
<1>7. Moves(k, c)
  BY <1>1, <1>2, <1>4, <1>5, <1>6, RowMoves
<1>8. QED BY <1>5, <1>7, MovesKeepInv

\* The row follows the object.
LEMMA ResumeStep ==
  ASSUME ShellInv, NEW k \in Client, Resume(k)
  PROVE  ShellInv'
<1>1. PICK c \in Call : c = call[k]
  BY CallOf DEF Resume
<1> DEFINE f == FileOf(c)
           object == objects[Key(f)]
           spilled == [storage |-> "r2", content |-> Absent]
<1>2. /\ pc[k] \in {"stored", "rmrow", "dropped", "got"} /\ Goto(k, "ok")
      /\ UNCHANGED <<open, objects, late, call, got, boots, known, adrift, evictions>>
      /\ pc[k] = "stored" => SetRow(f, spilled)
      /\ pc[k] = "rmrow" => SetRow(f, NoRow)
      /\ pc[k] \in {"dropped", "got"} => UNCHANGED disk
  BY <1>1 DEF Resume
<1>3. /\ Fits(c, pc[k], got[k], RowOf(f), object, known[f], adrift[f])
      /\ TypeOK /\ f \in File /\ f[1] = c.ns
  BY <1>1, <1>2, CallOf, CallsHaveFiles DEF ShellInv
<1>4. /\ pc' \in [Client -> Steps] /\ got' \in [Client -> Data \cup {Absent, Listed}]
      /\ pc'[k] = "ok" /\ got'[k] = got[k]
      /\ \A j \in Client : j # k => pc'[j] = pc[j] /\ got'[j] = got[j]
  <2>1. "ok" \in Steps
    BY DEF Steps
  <2>2. QED BY <1>2, <2>1, Went
<1>5. PICK row \in Row \cup {NoRow} :
        Rowed(f, row) /\ Fits(c, "ok", got[k], row, object, known[f], adrift[f])
  <2>1. CASE pc[k] = "stored"
    <3>1. disk[f[1]].table
      BY <1>1, <1>3, <2>1 DEF ShellInv
    <3>2. spilled \in Row /\ Rowed(f, spilled)
      BY <1>2, <1>3, <2>1, <3>1, PlainRow DEF Row
    <3>3. spilled # NoRow
      BY <3>2 DEF Row
    <3>4. Fits(c, "ok", got[k], spilled, object, known[f], adrift[f])
      BY <1>3, <2>1, <3>3 DEF Fits, Seen, Loose
    <3>5. QED BY <3>2, <3>4
  <2>2. CASE pc[k] = "rmrow"
    <3>1. Rowed(f, NoRow)
      BY <1>2, <1>3, <2>2, PlainRow
    <3>2. Fits(c, "ok", got[k], NoRow, object, known[f], adrift[f])
      BY <1>3, <2>2 DEF Fits
    <3>3. QED BY <3>1, <3>2
  <2>3. CASE pc[k] = "dropped"
    <3>1. Rowed(f, RowOf(f)) /\ RowOf(f) \in Row \cup {NoRow}
      BY <1>2, <1>3, <2>3, SameRow
    <3>2. RowOf(f) = [storage |-> "inline", content |-> c.data] /\ c.op = "write" /\ c.data \in Data
      BY <1>3, <2>3, CallsHaveFiles DEF Fits
    <3>3. Seen(RowOf(f), object) = c.data
      BY <3>2 DEF Seen
    <3>4. QED BY <3>1, <3>2, <3>3 DEF Fits
  <2>4. CASE pc[k] = "got"
    <3>1. Rowed(f, RowOf(f)) /\ RowOf(f) \in Row \cup {NoRow}
      BY <1>2, <1>3, <2>4, SameRow
    <3>2. Fits(c, "ok", got[k], RowOf(f), object, known[f], adrift[f])
      BY <1>3, <2>4 DEF Fits
    <3>3. QED BY <3>1, <3>2
  <2>5. QED BY <1>2, <2>1, <2>2, <2>3, <2>4
<1>6. Moves(k, c)
  BY <1>1, <1>2, <1>4, <1>5, RowMoves
<1>7. Cached
  BY <1>2, <1>5, SameCaches DEF Rowed
<1>8. QED BY <1>6, <1>7, MovesKeepInv

\* What Moves asks of an answer of R2, successful or not, which leaves the rows alone.
LEMMA ObjectMoves ==
  ASSUME Separate, ShellInv, NEW k \in Client, NEW c \in Call, call[k] = c,
         pc[k] \in {"put", "drop", "rmobj", "get"},
         UNCHANGED <<disk, open, late, call, boots, known, evictions>>,
         NEW step \in Steps, Goto(k, step), step # "idle", NEW bytes \in Data \cup {Absent, Listed},
         got' = [got EXCEPT ![k] = bytes],
         NEW object \in Data \cup {Absent}, step = "stored" => pc[k] = "put", step # "put",
         \/ SetObject(FileOf(c), object)
         \/ UNCHANGED objects /\ object = objects[Key(FileOf(c))],
         adrift' = [adrift EXCEPT ![FileOf(c)] = {}] \/ UNCHANGED adrift,
         Fits(c, step, bytes, RowOf(FileOf(c)), object, known[FileOf(c)], adrift'[FileOf(c)])
  PROVE  ShellInv'
<1> DEFINE f == FileOf(c)
<1>1. f \in File /\ f[1] = c.ns /\ TypeOK
  BY CallsHaveFiles DEF ShellInv
<1>2. Rowed(f, RowOf(f)) /\ RowOf(f) \in Row \cup {NoRow} /\ Cached
  BY <1>1, SameRow, SameCaches
<1>3. /\ objects' \in [Keys -> Data \cup {Absent}] /\ objects'[Key(f)] = object
      /\ \A g \in File : g # f => objects'[Key(g)] = objects[Key(g)]
  <2>1. CASE SetObject(f, object)
    BY <1>1, <2>1, ObjectSet
  <2>2. CASE UNCHANGED objects /\ object = objects[Key(f)]
    BY <1>1, <2>2 DEF TypeOK
  <2>3. QED BY <2>1, <2>2
<1>4. /\ pc' \in [Client -> Steps] /\ got' \in [Client -> Data \cup {Absent, Listed}]
      /\ pc'[k] = step /\ got'[k] = bytes
      /\ \A j \in Client : j # k => pc'[j] = pc[j] /\ got'[j] = got[j]
  BY Stepped
<1>5. pc'[k] \in {"put", "stored"} => disk'[c.ns].table
  BY <1>4 DEF ShellInv
<1>6. /\ adrift' \in [File -> SUBSET (Data \cup {Absent})]
      /\ \A g \in File : g # f => adrift'[g] = adrift[g]
  BY <1>1 DEF TypeOK
<1> HIDE DEF f
<1>7. Moves(k, c)
  BY <1>2, <1>3, <1>4, <1>5, <1>6 DEF Moves, f
<1>8. QED BY <1>2, <1>7, MovesKeepInv

\* An answer after which the bucket is as before.
LEMMA QuietAnswer ==
  ASSUME Separate, ShellInv, NEW k \in Client, NEW c \in Call, call[k] = c,
         pc[k] \in {"put", "drop", "rmobj", "get"},
         UNCHANGED <<disk, open, late, call, boots, known, adrift, evictions, objects>>,
         NEW step \in {"failed", "dropped", "rmrow", "got"}, Goto(k, step),
         NEW bytes \in Data \cup {Absent, Listed}, got' = [got EXCEPT ![k] = bytes],
         Fits(c, step, bytes, RowOf(FileOf(c)), objects[Key(FileOf(c))],
              known[FileOf(c)], adrift[FileOf(c)])
  PROVE  ShellInv'
<1> DEFINE object == objects[Key(FileOf(c))]
<1>1. object \in Data \cup {Absent} /\ UNCHANGED <<objects, adrift>>
  BY CallsHaveFiles, Typing
<1>2. step \in Steps /\ step # "idle" /\ step # "stored" /\ step # "put"
  BY DEF Steps, InObject
<1>3. QED BY <1>1, <1>2, ObjectMoves

\* R2 answers.
LEMMA LandsStep ==
  ASSUME Separate, ShellInv, NEW k \in Client, R2Lands(k)
  PROVE  ShellInv'
<1>1. PICK c \in Call : c = call[k]
  BY CallOf DEF R2Lands
<1> DEFINE f == FileOf(c)
           object == objects[Key(f)]
<1>2. /\ pc[k] \in {"put", "drop", "rmobj", "get"} /\ c = call[k]
      /\ UNCHANGED <<disk, open, late, call, boots, known, evictions>>
      /\ \/ /\ \/ pc[k] = "put" /\ Goto(k, "stored") /\ SetObject(f, c.data)
               \/ pc[k] = "drop" /\ Goto(k, "dropped") /\ SetObject(f, Absent)
               \/ pc[k] = "rmobj" /\ Goto(k, "rmrow") /\ SetObject(f, Absent)
            /\ adrift' = [adrift EXCEPT ![f] = {}] /\ UNCHANGED got
         \/ /\ pc[k] = "get" /\ Goto(k, "got") /\ UNCHANGED <<objects, adrift>>
            /\ got' = [got EXCEPT ![k] = object]
  BY <1>1 DEF R2Lands, Brings
<1>3. /\ Fits(c, pc[k], got[k], RowOf(f), object, known[f], adrift[f]) /\ f \in File
      /\ got \in [Client -> Data \cup {Absent, Listed}]
  BY <1>1, <1>2, CallOf, CallsHaveFiles DEF ShellInv, TypeOK
<1>4. UNCHANGED got => got' = [got EXCEPT ![k] = got[k]]
  BY <1>3
<1>5. /\ got[k] \in Data \cup {Absent, Listed} /\ object \in Data \cup {Absent}
      /\ {"stored", "dropped", "rmrow", "got"} \subseteq Steps
      /\ adrift' = [adrift EXCEPT ![f] = {}] => adrift'[f] = {}
  BY <1>3, Typing DEF Steps, InObject, ShellInv, TypeOK
<1>6. CASE /\ pc[k] = "put" /\ Goto(k, "stored") /\ SetObject(f, c.data)
           /\ adrift' = [adrift EXCEPT ![f] = {}] /\ UNCHANGED got
  <2>1. c.op = "write" /\ Holds(RowOf(f), object, known[f], adrift[f])
    BY <1>3, <1>6 DEF Fits
  <2>2. c.data \in Data /\ Effect(c) = c.data
    BY <2>1, CallsHaveFiles DEF Effect
  <2>3. Seen(RowOf(f), c.data) \in known[f] \cup {c.data}
    BY <2>1 DEF Holds, Seen, Loose
  <2>4. Fits(c, "stored", got[k], RowOf(f), c.data, known[f], adrift'[f])
    BY <1>5, <1>6, <2>1, <2>2, <2>3 DEF Fits
  <2>5. QED BY <1>2, <1>4, <1>5, <1>6, <2>2, <2>4, ObjectMoves
<1>7. CASE /\ pc[k] = "drop" /\ Goto(k, "dropped") /\ SetObject(f, Absent)
           /\ adrift' = [adrift EXCEPT ![f] = {}] /\ UNCHANGED got
  <2>1. Fits(c, "dropped", got[k], RowOf(f), Absent, known[f], adrift'[f])
    BY <1>3, <1>7 DEF Fits
  <2>2. Absent \in Data \cup {Absent} /\ "dropped" \notin {"idle", "stored", "put"}
    OBVIOUS
  <2>3. QED BY <1>2, <1>4, <1>5, <1>7, <2>1, <2>2, ObjectMoves
<1>8. CASE /\ pc[k] = "rmobj" /\ Goto(k, "rmrow") /\ SetObject(f, Absent)
           /\ adrift' = [adrift EXCEPT ![f] = {}] /\ UNCHANGED got
  <2>1. /\ c.op = "delete" /\ RowOf(f) # NoRow /\ RowOf(f).storage = "r2"
        /\ Holds(RowOf(f), object, known[f], adrift[f])
    BY <1>3, <1>8 DEF Fits
  <2>2. Fits(c, "rmrow", got[k], RowOf(f), Absent, known[f], adrift'[f])
    BY <2>1 DEF Fits, Seen, Holds
  <2>3. Absent \in Data \cup {Absent} /\ "rmrow" \notin {"idle", "stored", "put"}
    OBVIOUS
  <2>4. QED BY <1>2, <1>4, <1>5, <1>8, <2>2, <2>3, ObjectMoves
<1>9. CASE /\ pc[k] = "get" /\ Goto(k, "got") /\ UNCHANGED <<objects, adrift>>
           /\ got' = [got EXCEPT ![k] = object]
  <2>1. /\ c.op = "read" /\ RowOf(f) # NoRow /\ RowOf(f).storage = "r2"
        /\ Holds(RowOf(f), object, known[f], adrift[f])
    BY <1>3, <1>9 DEF Fits
  <2>2. Fits(c, "got", object, RowOf(f), object, known[f], adrift[f])
    BY <2>1 DEF Fits, Seen, Holds
  <2>3. QED BY <1>2, <1>5, <1>9, <2>2, QuietAnswer
<1>10. QED BY <1>2, <1>6, <1>7, <1>8, <1>9

\* R2 fails.
LEMMA FailsStep ==
  ASSUME Separate, ShellInv, NEW k \in Client, R2Fails(k)
  PROVE  ShellInv'
<1>1. PICK c \in Call : c = call[k]
  BY CallOf DEF R2Fails
<1> DEFINE f == FileOf(c)
           object == objects[Key(f)]
<1>2. /\ pc[k] \in {"put", "drop", "rmobj", "get"} /\ c = call[k]
      /\ UNCHANGED <<disk, open, late, call, got, boots, known, adrift, evictions>>
      /\ \/ pc[k] = "get" /\ Goto(k, "failed") /\ UNCHANGED objects
         \/ /\ pc[k] = "put" /\ Goto(k, "failed")
            /\ (UNCHANGED objects \/ SetObject(f, c.data))
         \/ pc[k] = "drop" /\ Goto(k, "dropped") /\ UNCHANGED objects
         \/ pc[k] = "rmobj" /\ Goto(k, "rmrow") /\ UNCHANGED objects
  BY <1>1 DEF R2Fails
<1>3. /\ Fits(c, pc[k], got[k], RowOf(f), object, known[f], adrift[f]) /\ f \in File
      /\ got \in [Client -> Data \cup {Absent, Listed}]
  BY <1>1, <1>2, CallOf, CallsHaveFiles DEF ShellInv, TypeOK
<1>4. got' = [got EXCEPT ![k] = got[k]]
  BY <1>2, <1>3
<1>5. /\ got[k] \in Data \cup {Absent, Listed} /\ object \in Data \cup {Absent}
      /\ {"failed", "dropped", "rmrow"} \subseteq Steps
  BY <1>3, Typing DEF Steps, InObject
<1>6. CASE pc[k] = "get" /\ Goto(k, "failed") /\ UNCHANGED objects
  <2>1. Fits(c, "failed", got[k], RowOf(f), object, known[f], adrift[f])
    BY <1>3, <1>6 DEF Fits, Holds
  <2>2. QED BY <1>2, <1>4, <1>5, <1>6, <2>1, QuietAnswer
<1>7. CASE pc[k] = "put" /\ Goto(k, "failed") /\ (UNCHANGED objects \/ SetObject(f, c.data))
  <2>1. c.op = "write" /\ Holds(RowOf(f), object, known[f], adrift[f])
    BY <1>3, <1>7 DEF Fits
  <2>2. c.data \in Data /\ Effect(c) = c.data
    BY <2>1, CallsHaveFiles DEF Effect
  <2>3. ASSUME NEW v \in {object, c.data}
        PROVE  Fits(c, "failed", got[k], RowOf(f), v, known[f], adrift[f])
    <3>1. Seen(RowOf(f), v) \in known[f] \cup {c.data} \cup Loose(RowOf(f), adrift[f])
      BY <2>1, <2>3 DEF Holds, Seen
    <3>2. QED BY <2>1, <2>2, <3>1 DEF Fits
  <2>4. CASE UNCHANGED objects
    BY <1>2, <1>4, <1>5, <1>7, <2>3, <2>4, ObjectMoves
  <2>5. CASE SetObject(f, c.data)
    BY <1>2, <1>4, <1>5, <1>7, <2>2, <2>3, <2>5, ObjectMoves
  <2>6. QED BY <1>7, <2>4, <2>5
<1>8. CASE pc[k] = "drop" /\ Goto(k, "dropped") /\ UNCHANGED objects
  <2>1. Fits(c, "dropped", got[k], RowOf(f), object, known[f], adrift[f])
    BY <1>3, <1>8 DEF Fits
  <2>2. QED BY <1>2, <1>4, <1>5, <1>8, <2>1, QuietAnswer
<1>9. CASE pc[k] = "rmobj" /\ Goto(k, "rmrow") /\ UNCHANGED objects
  <2>1. Fits(c, "rmrow", got[k], RowOf(f), object, known[f], adrift[f])
    BY <1>3, <1>9 DEF Fits, Holds
  <2>2. QED BY <1>2, <1>4, <1>5, <1>9, <2>1, QuietAnswer
<1>10. QED BY <1>2, <1>6, <1>7, <1>8, <1>9

----------------------------------------------------------------------------
(* Calls, answers and evictions. *)

\* A new call.
LEMMA InvokeStep ==
  ASSUME ShellInv, NEW k \in Client, NEW c \in Call, NEW admitted \in BOOLEAN,
         Invoke(k, c, admitted)
  PROVE  ShellInv'
<1> DEFINE f == FileOf(c)
           step == IF admitted THEN "sent" ELSE "refused"
<1>1. /\ pc[k] = "idle" /\ ~InProgress(f) /\ Goto(k, step)
      /\ call' = [call EXCEPT ![k] = c]
      /\ UNCHANGED <<disk, open, objects, late, got, boots, known, adrift, evictions>>
  BY DEF Invoke
<1>2. /\ step \in {"sent", "refused"} /\ {"sent", "refused"} \subseteq Steps
      /\ pc \in [Client -> Steps] /\ call \in [Client -> Call \cup {NoCall}]
  BY DEF Steps, InObject, ShellInv, TypeOK
<1> HIDE DEF step
<1>3. /\ pc' \in [Client -> Steps] /\ pc'[k] = step /\ call'[k] = c
      /\ call' \in [Client -> Call \cup {NoCall}]
      /\ \A j \in Client : j # k => pc'[j] = pc[j] /\ call'[j] = call[j]
  BY <1>1, <1>2 DEF Goto
<1>4. TypeOK' /\ CacheIsSound'
  BY <1>1, <1>3 DEF ShellInv, TypeOK, CacheIsSound
<1>5. f \in File /\ Holds(RowOf(f), objects[Key(f)], known[f], adrift[f])
  BY <1>1, CallsHaveFiles DEF ShellInv
<1>6. Fits(c, step, got[k], RowOf(f), objects[Key(f)], known[f], adrift[f])
  BY <1>2, <1>5 DEF Fits
<1>7. ASSUME NEW j \in Client, pc'[j] # "idle" PROVE call'[j] \in Call /\ FitsAt(j)'
  <2>1. CASE j = k
    BY <1>1, <1>3, <1>6, <2>1 DEF FitsAt, RowOf
  <2>2. CASE j # k
    BY <1>1, <1>3, <1>7, <2>2 DEF ShellInv, Busy, FitsAt, RowOf
  <2>3. QED BY <2>1, <2>2
<1>8. ASSUME NEW j \in Client, pc'[j] \in {"put", "stored"} PROVE disk'[call'[j].ns].table
  BY <1>1, <1>2, <1>3, <1>8 DEF ShellInv
<1>9. ASSUME NEW i \in Client, NEW j \in Client, i # j, pc'[i] # "idle", pc'[j] # "idle"
      PROVE  FileOf(call'[i]) # FileOf(call'[j])
  <2>1. \A m \in Client : m # k /\ pc[m] # "idle" => FileOf(call[m]) # f
    BY <1>1 DEF InProgress
  <2>2. QED BY <1>3, <1>9, <2>1 DEF ShellInv, Busy
<1>10. ASSUME NEW g \in File, ~InProgress(g)'
       PROVE  Holds(RowOf(g)', objects'[Key(g)], known'[g], adrift'[g])
  <2>1. ~InProgress(g)
    BY <1>1, <1>3, <1>10 DEF InProgress
  <2>2. QED BY <1>1, <2>1 DEF ShellInv, RowOf
<1>11. QED BY <1>4, <1>7, <1>8, <1>9, <1>10 DEF ShellInv, Busy

\* An answer: the file holds what is known of it from now on.
LEMMA AnswerStep ==
  ASSUME ShellInv, NEW k \in Client, Answer(k)
  PROVE  ShellInv'
<1>1. PICK c \in Call : c = call[k]
  BY CallOf DEF Answer
<1> DEFINE f == FileOf(c)
           object == objects[Key(f)]
           may == IF c.op \in {"read", "look"} \/ pc[k] = "refused" THEN known[f]
                  ELSE IF pc[k] = "ok" THEN {Effect(c)} ELSE known[f] \cup {Effect(c)}
<1>2. /\ pc[k] \in {"ok", "failed", "refused"} /\ known' = [known EXCEPT ![f] = may]
      /\ Goto(k, "idle") /\ call' = [call EXCEPT ![k] = NoCall]
      /\ got' = [got EXCEPT ![k] = Absent]
      /\ UNCHANGED <<disk, open, objects, late, boots, adrift, evictions>>
  BY <1>1 DEF Answer
<1>3. /\ Fits(c, pc[k], got[k], RowOf(f), object, known[f], adrift[f]) /\ f \in File
      /\ c.op \in {"write", "read", "look", "delete"} /\ (c.op = "write" => c.data \in Data)
      /\ Effect(c) \in Data \cup {Absent}
      /\ known \in [File -> SUBSET (Data \cup {Absent})] /\ TypeOK
  BY <1>1, <1>2, CallOf, CallsHaveFiles DEF ShellInv, TypeOK
<1>4. Holds(RowOf(f), object, may, adrift[f])
  <2>1. CASE c.op \in {"read", "look"} \/ pc[k] = "refused"
    <3>1. may = known[f]
      BY <2>1
    <3>2. QED BY <1>2, <1>3, <2>1, <3>1 DEF Fits
  <2>2. CASE c.op = "write" /\ pc[k] = "ok"
    <3>1. may = {c.data} /\ c.data # Absent
      BY <1>3, <2>2 DEF Effect
    <3>2. Seen(RowOf(f), object) \in {c.data} \cup Loose(RowOf(f), adrift[f])
      BY <1>3, <2>2 DEF Fits
    <3>3. QED BY <3>1, <3>2 DEF Holds, Lists
  <2>3. CASE c.op = "delete" /\ pc[k] = "ok"
    <3>1. may = {Absent}
      BY <2>3 DEF Effect
    <3>2. RowOf(f) = NoRow
      BY <1>3, <2>3 DEF Fits
    <3>3. QED BY <3>1, <3>2 DEF Holds, Seen
  <2>4. CASE c.op \in {"write", "delete"} /\ pc[k] = "failed"
    <3>1. may = known[f] \cup {Effect(c)}
      BY <2>4
    <3>2. /\ Seen(RowOf(f), object) \in may \cup Loose(RowOf(f), adrift[f])
          /\ RowOf(f) # NoRow => Lists(known[f]) \/ c.op = "write"
      BY <1>3, <2>4, <3>1 DEF Fits
    <3>3. Lists(known[f]) => Lists(may)
      BY <3>1 DEF Lists
    <3>4. c.op = "write" => Lists(may)
      BY <1>3, <3>1 DEF Lists, Effect
    <3>5. QED BY <3>2, <3>3, <3>4 DEF Holds
  <2>5. QED BY <1>2, <1>3, <2>1, <2>2, <2>3, <2>4
<1>5. may \in SUBSET (Data \cup {Absent})
  BY <1>3
<1> HIDE DEF may
<1>6. /\ pc' \in [Client -> Steps] /\ pc'[k] = "idle"
      /\ call' \in [Client -> Call \cup {NoCall}] /\ got' \in [Client -> Data \cup {Absent, Listed}]
      /\ \A j \in Client : j # k => pc'[j] = pc[j] /\ call'[j] = call[j] /\ got'[j] = got[j]
      /\ known' \in [File -> SUBSET (Data \cup {Absent})] /\ known'[f] = may
      /\ \A g \in File : g # f => known'[g] = known[g]
  <2>1. "idle" \in Steps
    BY DEF Steps
  <2>2. QED BY <1>2, <1>3, <1>5, <2>1 DEF Goto, TypeOK
<1>7. TypeOK' /\ CacheIsSound'
  BY <1>2, <1>6 DEF ShellInv, TypeOK, CacheIsSound
<1>8. \A j \in Client : pc'[j] # "idle" =>
        /\ j # k /\ pc[j] # "idle" /\ call[j] \in Call
        /\ FileOf(call[j]) \in File /\ FileOf(call[j]) # f
  BY <1>1, <1>2, <1>6, CallsHaveFiles DEF ShellInv, Busy
<1>9. ASSUME NEW j \in Client, pc'[j] # "idle" PROVE call'[j] \in Call /\ FitsAt(j)'
  BY <1>2, <1>6, <1>8, <1>9 DEF ShellInv, Busy, FitsAt, RowOf
<1>10. ASSUME NEW j \in Client, pc'[j] \in {"put", "stored"} PROVE disk'[call'[j].ns].table
  BY <1>2, <1>6, <1>8, <1>10 DEF ShellInv
<1>11. ASSUME NEW i \in Client, NEW j \in Client, i # j, pc'[i] # "idle", pc'[j] # "idle"
       PROVE  FileOf(call'[i]) # FileOf(call'[j])
  BY <1>6, <1>8, <1>11 DEF ShellInv, Busy
<1>12. ASSUME NEW g \in File, ~InProgress(g)'
       PROVE  Holds(RowOf(g)', objects'[Key(g)], known'[g], adrift'[g])
  <2>1. CASE g = f
    BY <1>2, <1>4, <1>6, <2>1 DEF RowOf
  <2>2. CASE g # f
    <3>1. ~InProgress(g)
      BY <1>1, <1>6, <1>12, <2>2 DEF InProgress
    <3>2. QED BY <1>2, <1>6, <2>2, <3>1 DEF ShellInv, RowOf
  <2>3. QED BY <2>1, <2>2
<1>13. QED BY <1>7, <1>9, <1>10, <1>11, <1>12 DEF ShellInv, Busy

\* A call that is cut off in its object may or may not have had its effect.
LEMMA CutOff ==
  ASSUME NEW c \in Call, NEW step \in InObject, NEW bytes, NEW row \in Row \cup {NoRow},
         NEW object, NEW may, NEW drift, Fits(c, step, bytes, row, object, may, drift)
  PROVE  Fits(c, "failed", bytes, row, object, may, drift)
<1>1. c.op \in {"write", "read", "look", "delete"}
  BY CallsHaveFiles
<1>2. CASE step \in {"sent", "put", "get", "got", "rmobj"}
  BY <1>2 DEF Fits, Holds
<1>3. CASE step = "stored"
  BY <1>1, <1>3 DEF Fits
<1>4. CASE step \in {"drop", "dropped"}
  <2>1. row = [storage |-> "inline", content |-> c.data] /\ c.op = "write" /\ c.data \in Data
    BY <1>4, CallsHaveFiles DEF Fits
  <2>2. Seen(row, object) = Effect(c)
    <3>1. row # NoRow
      BY <2>1
    <3>2. QED BY <2>1, <3>1 DEF Seen, Effect
  <2>3. QED BY <2>1, <2>2 DEF Fits
<1>5. CASE step = "rmrow"
  BY <1>5 DEF Fits, Effect
<1>6. QED BY <1>2, <1>3, <1>4, <1>5 DEF InObject

\* An eviction.
LEMMA EvictStep ==
  ASSUME ShellInv, NEW ns \in Namespace, Evict(ns)
  PROVE  ShellInv'
<1>1. /\ evictions' = evictions + 1 /\ evictions < MaxEvictions
      /\ open' = [open EXCEPT ![ns] = FALSE] /\ boots' = [boots EXCEPT ![ns] = 0]
      /\ pc' = [k \in Client |->
                  IF pc[k] \in InObject /\ call[k].ns = ns THEN "failed" ELSE pc[k]]
      /\ UNCHANGED <<disk, objects, call, got, known, adrift>>
      /\ late' = late \cup
           {[file |-> FileOf(call[k]), life |-> evictions, value |-> Brings(k)] :
              k \in {j \in Client : pc[j] \in {"put", "drop", "rmobj"} /\ call[j].ns = ns}}
  BY DEF Evict
<1>2. /\ pc \in [Client -> Steps] /\ evictions \in 0..MaxEvictions
      /\ open \in [Namespace -> BOOLEAN] /\ boots \in [Namespace -> Nat]
  BY DEF ShellInv, TypeOK
<1>3. evictions' \in 0..MaxEvictions
  BY <1>1, <1>2
<1>4. /\ "failed" \in Steps /\ pc' \in [Client -> Steps]
      /\ \A k \in Client : /\ pc'[k] # "idle" <=> pc[k] # "idle"
                           /\ \/ pc'[k] = pc[k]
                              \/ pc[k] \in InObject /\ pc'[k] = "failed"
  <2>1. "failed" \in Steps /\ "idle" \notin InObject
    BY DEF Steps, InObject
  <2>2. QED BY <1>1, <1>2, <2>1
<1>5. /\ open' \in [Namespace -> BOOLEAN] /\ boots' \in [Namespace -> Nat]
      /\ ~open'[ns] /\ boots'[ns] = 0
      /\ \A m \in Namespace : m # ns => open'[m] = open[m] /\ boots'[m] = boots[m]
  BY <1>1, <1>2
<1>6. CacheIsSound'
  <2>1. ASSUME NEW m \in Namespace
        PROVE  boots'[m] <= 1 /\ (open'[m] <=> boots'[m] = 1) /\ (open'[m] => disk'[m].table)
    BY <1>1, <1>5 DEF ShellInv, CacheIsSound
  <2>2. QED BY <2>1 DEF CacheIsSound
<1>7. TypeOK'
  <2>1. ASSUME NEW k \in Client, pc[k] \in {"put", "drop", "rmobj"}
        PROVE  FileOf(call[k]) \in File /\ Brings(k) \in Data \cup {Absent}
    <3>1. call[k] \in Call /\ (pc[k] = "put" => call[k].op = "write")
      BY <2>1, CallOf DEF Fits
    <3>2. QED BY <3>1, CallsHaveFiles DEF Brings
  <2>2. evictions \in Nat /\ late \subseteq [file : File, life : Nat, value : Data \cup {Absent}]
    BY <1>2 DEF ShellInv, TypeOK
  <2>3. late' \subseteq [file : File, life : Nat, value : Data \cup {Absent}]
    BY <1>1, <2>1, <2>2
  <2>4. QED BY <1>1, <1>3, <1>4, <1>5, <2>3 DEF ShellInv, TypeOK
<1>8. ASSUME NEW k \in Client, pc'[k] # "idle" PROVE call'[k] \in Call /\ FitsAt(k)'
  <2>1. call[k] \in Call /\ FitsAt(k)
    BY <1>4, <1>8 DEF ShellInv, Busy
  <2>2. CASE pc'[k] = pc[k]
    BY <1>1, <2>1, <2>2 DEF FitsAt, RowOf
  <2>3. CASE pc[k] \in InObject /\ pc'[k] = "failed"
    <3>1. PICK c \in Call : c = call[k]
      BY <2>1
    <3>2. RowOf(FileOf(c)) \in Row \cup {NoRow}
      BY CallsHaveFiles, Typing
    <3>3. Fits(c, "failed", got[k], RowOf(FileOf(c)), objects[Key(FileOf(c))],
              known[FileOf(c)], adrift[FileOf(c)])
      BY <2>1, <2>3, <3>1, <3>2, CutOff DEF FitsAt
    <3>4. QED BY <1>1, <2>3, <3>1, <3>3 DEF FitsAt, RowOf
  <2>4. QED BY <1>4, <2>2, <2>3
<1>9. ASSUME NEW k \in Client, pc'[k] \in {"put", "stored"} PROVE disk'[call'[k].ns].table
  BY <1>1, <1>4, <1>9 DEF ShellInv
<1>10. \A j, k \in Client : j # k /\ pc'[j] # "idle" /\ pc'[k] # "idle" =>
                              FileOf(call'[j]) # FileOf(call'[k])
  BY <1>1, <1>4 DEF ShellInv, Busy
<1>11. ASSUME NEW f \in File, ~InProgress(f)'
       PROVE  Holds(RowOf(f)', objects'[Key(f)], known'[f], adrift'[f])
  <2>1. ~InProgress(f)
    BY <1>1, <1>4, <1>11 DEF InProgress
  <2>2. QED BY <1>1, <2>1 DEF ShellInv, RowOf
<1>12. QED BY <1>6, <1>7, <1>8, <1>9, <1>10, <1>11 DEF ShellInv, Busy

\* What a late R2 call makes of the object of a file is one more thing that the file may hold.
LEMMA LateSeen ==
  ASSUME NEW row, NEW object, NEW drift, NEW v
  PROVE  /\ Loose(row, drift) \subseteq Loose(row, drift \cup {v})
         /\ Seen(row, v) = Seen(row, object) \/ Seen(row, v) \in Loose(row, drift \cup {v})
BY DEF Seen, Loose

LEMMA LateHolds ==
  ASSUME NEW row, NEW object, NEW may, NEW drift, NEW v, Holds(row, object, may, drift)
  PROVE  Holds(row, v, may, drift \cup {v})
BY LateSeen DEF Holds

LEMMA LateFits ==
  ASSUME NEW c, NEW step, NEW bytes, NEW row, NEW object, NEW may, NEW drift, NEW v,
         Fits(c, step, bytes, row, object, may, drift)
  PROVE  Fits(c, step, bytes, row, v, may, drift \cup {v})
<1>1. /\ Loose(row, drift) \subseteq Loose(row, drift \cup {v})
      /\ Seen(row, v) = Seen(row, object) \/ Seen(row, v) \in Loose(row, drift \cup {v})
  BY LateSeen
<1>2. Holds(row, object, may, drift) => Holds(row, v, may, drift \cup {v})
  BY LateHolds
<1>3. QED BY <1>1, <1>2 DEF Fits

\* R2 carries out a put or delete of an object that was evicted.
LEMMA LateStep ==
  ASSUME Separate, ShellInv, LateLands
  PROVE  ShellInv'
<1>1. PICK l \in late :
        /\ late' = late \ {l} /\ SetObject(l.file, l.value)
        /\ adrift' = [adrift EXCEPT ![l.file] = @ \cup {l.value}]
        /\ UNCHANGED <<disk, open, pc, call, got, boots, known, evictions>>
  BY DEF LateLands
<1> DEFINE f == l.file
           v == l.value
<1>2. /\ f \in File /\ v \in Data \cup {Absent} /\ TypeOK
      /\ adrift \in [File -> SUBSET (Data \cup {Absent})]
  BY DEF ShellInv, TypeOK
<1>3. /\ objects' \in [Keys -> Data \cup {Absent}] /\ objects'[Key(f)] = v
      /\ \A g \in File : g # f => objects'[Key(g)] = objects[Key(g)]
  BY <1>1, <1>2, ObjectSet
<1>4. /\ adrift' \in [File -> SUBSET (Data \cup {Absent})] /\ adrift'[f] = adrift[f] \cup {v}
      /\ \A g \in File : g # f => adrift'[g] = adrift[g]
  BY <1>1, <1>2
<1> HIDE DEF f, v
<1>5. TypeOK' /\ CacheIsSound'
  BY <1>1, <1>3, <1>4 DEF ShellInv, TypeOK, CacheIsSound
<1>6. ASSUME NEW k \in Client, pc'[k] # "idle" PROVE call'[k] \in Call /\ FitsAt(k)'
  <2>1. call[k] \in Call /\ FitsAt(k) /\ FileOf(call[k]) \in File
    BY <1>1, <1>6, CallsHaveFiles DEF ShellInv, Busy
  <2>2. CASE FileOf(call[k]) = f
    <3>1. Fits(call[k], pc[k], got[k], RowOf(f), v, known[f], adrift[f] \cup {v})
      BY <2>1, <2>2, LateFits DEF FitsAt
    <3>2. QED BY <1>1, <1>3, <1>4, <2>1, <2>2, <3>1 DEF FitsAt, RowOf
  <2>3. CASE FileOf(call[k]) # f
    BY <1>1, <1>3, <1>4, <2>1, <2>3 DEF FitsAt, RowOf
  <2>4. QED BY <2>2, <2>3
<1>7. ASSUME NEW g \in File, ~InProgress(g)'
      PROVE  Holds(RowOf(g)', objects'[Key(g)], known'[g], adrift'[g])
  <2>1. ~InProgress(g)
    BY <1>1, <1>7 DEF InProgress
  <2>2. Holds(RowOf(g), objects[Key(g)], known[g], adrift[g]) /\ RowOf(g)' = RowOf(g)
    BY <1>1, <2>1 DEF ShellInv, RowOf
  <2>3. CASE g = f
    BY <1>1, <1>3, <1>4, <2>2, <2>3, LateHolds
  <2>4. CASE g # f
    BY <1>1, <1>3, <1>4, <2>2, <2>4
  <2>5. QED BY <2>3, <2>4
<1>8. QED BY <1>1, <1>5, <1>6, <1>7 DEF ShellInv, Busy

----------------------------------------------------------------------------
(* The invariant, and what follows from it. *)

\* ShellInv holds at first.
LEMMA ShellStarts == Init => ShellInv
<1> SUFFICES ASSUME Init PROVE ShellInv
  OBVIOUS
<1>1. "idle" \in Steps
  BY DEF Steps
<1>2. TypeOK /\ CacheIsSound
  BY <1>1 DEF Init, TypeOK, CacheIsSound
<1>3. \A k \in Client : pc[k] = "idle"
  BY DEF Init
<1>4. ASSUME NEW f \in File PROVE Holds(RowOf(f), objects[Key(f)], known[f], adrift[f])
  <2>1. RowOf(f) = NoRow /\ known[f] = {Absent}
    BY DEF Init, RowOf, File
  <2>2. QED BY <2>1 DEF Holds, Seen
<1>5. QED BY <1>2, <1>3, <1>4 DEF ShellInv, Busy

\* ShellInv is inductive, if no two namespaces have the same keys.
LEMMA ShellInductive ==
  ASSUME Separate, ShellInv, [Next]_vars
  PROVE  ShellInv'
<1>1. ASSUME NEW k \in Client, NEW c \in Call, InvokeRpc(k, c) \/ InvokeHttp(k, c)
      PROVE  ShellInv'
  <2>1. PICK token \in BOOLEAN :
          Invoke(k, c, Admitted(token)) \/ Invoke(k, c, Admitted(token) /\ Routed(c))
    BY <1>1 DEF InvokeRpc, InvokeHttp
  <2>2. Admitted(token) \in BOOLEAN /\ (Admitted(token) /\ Routed(c)) \in BOOLEAN
    BY DEF Admitted
  <2>3. QED BY <2>1, <2>2, InvokeStep
<1>2. ASSUME NEW k \in Client,
             \/ HandleBadNamespace(k) \/ HandleWrite(k) \/ HandleRead(k) \/ HandleLook(k)
             \/ HandleDelete(k)
             \/ Resume(k) \/ R2Lands(k) \/ R2Fails(k) \/ Answer(k)
      PROVE  ShellInv'
  BY <1>2, BadNamespaceStep, WriteStep, ReadStep, LookStep, DeleteStep, ResumeStep, LandsStep,
     FailsStep, AnswerStep
<1>3. CASE UNCHANGED vars
  <2>1. UNCHANGED <<disk, open, objects, late, pc, call, got, boots, known, adrift, evictions>>
    BY <1>3 DEF vars
  <2>2. TypeOK' /\ CacheIsSound'
    BY <2>1 DEF ShellInv, TypeOK, CacheIsSound
  <2>3. QED BY <2>1, <2>2 DEF ShellInv, Busy, FitsAt, RowOf, InProgress
<1>4. QED BY <1>1, <1>2, <1>3, EvictStep, LateStep DEF Next

\* ShellInv holds always.
LEMMA ShellInvariant ==
  ASSUME Separate
  PROVE  Spec => []ShellInv
<1>1. ShellInv /\ [Next]_vars => ShellInv'
  BY ShellInductive
<1>2. QED BY <1>1, ShellStarts, PTL DEF Spec

\* Each namespace is isolated in the shared bucket: a file at rest holds what its own
\* namespace's callers last stored in it, whatever R2 does and whichever objects are evicted,
\* or, if it has spilled, what a put or delete of the same file has made of its R2 object that
\* R2 carried out after the eviction of the object which sent it.
THEOREM NamespacesAreIsolated ==
  ASSUME Separate
  PROVE  Spec => []FilesAreOwn
<1>1. ASSUME ShellInv, NEW f \in File, ~InProgress(f) PROVE View(f) \in May(f)
  <2>1. View(f) \in known[f] \cup Loose(RowOf(f), adrift[f])
    BY <1>1, Typing DEF ShellInv, Holds
  <2>2. QED BY <1>1, <2>1, Typing DEF May, Loose
<1>2. ShellInv => FilesAreOwn
  BY <1>1 DEF FilesAreOwn
<1>3. QED BY <1>2, ShellInvariant, PTL

\* A read is answered with what the namespace's own callers stored, with the same exception,
\* and a look with what they may have stored.
THEOREM AnswersAreIsolated ==
  ASSUME Separate
  PROVE  Spec => []AnswersAreOwn
<1>1. ASSUME ShellInv, NEW k \in Client, pc[k] = "ok"
      PROVE  LET f == FileOf(call[k]) IN
             /\ call[k].op = "read" => got[k] \in May(f)
             /\ call[k].op = "look" =>
                  IF got[k] = Listed THEN known[f] # {Absent} ELSE Absent \in known[f]
  <2> DEFINE f == FileOf(call[k])
  <2>1. /\ f \in File
        /\ Fits(call[k], "ok", got[k], RowOf(f), objects[Key(f)], known[f], adrift[f])
    BY <1>1, CallOf, CallsHaveFiles
  <2>2. Loose(RowOf(f), adrift[f]) = IF InR2(f) THEN adrift[f] ELSE {}
    BY <1>1, <2>1, Typing DEF Loose
  <2>3. QED BY <2>1, <2>2 DEF Fits, Lists, May
<1>2. ShellInv => AnswersAreOwn
  BY <1>1 DEF AnswersAreOwn
<1>3. QED BY <1>2, ShellInvariant, PTL

\* Type correctness: rows are in tables, and only valid namespaces have a Workspace.
THEOREM ShellTypeCorrect ==
  ASSUME Separate
  PROVE  Spec => []TypeOK
<1>1. ShellInv => TypeOK
  BY DEF ShellInv
<1>2. QED BY <1>1, ShellInvariant, PTL

\* A Workspace is opened once in a lifetime of its object (do_obj.rs), and then has its table.
THEOREM OneBootstrap ==
  ASSUME Separate
  PROVE  Spec => []CacheIsSound
<1>1. ShellInv => CacheIsSound
  BY DEF ShellInv
<1>2. QED BY <1>1, ShellInvariant, PTL
=============================================================================
