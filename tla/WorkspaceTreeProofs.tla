------------------------- MODULE WorkspaceTreeProofs -------------------------
(***************************************************************************)
(* Theorems about WorkspaceTree, for every set of names, contents, links   *)
(* and tables to start from, paths of any length and any number of calls.  *)
(***************************************************************************)
EXTENDS WorkspaceTree, SequenceTheorems, TLAPS

----------------------------------------------------------------------------
(* Paths. *)

Names == Seq(Name)

LEMMA PathIsNames ==
  ASSUME NEW p \in Path
  PROVE  p \in Names /\ Len(p) \in Nat /\ Len(p) <= MaxDepth /\ DOMAIN p = 1..Len(p)
<1>1. PICK n \in 0..MaxDepth : p \in [1..n -> Name]
  BY DEF Path
<1>2. n \in Nat
  BY <1>1, TreeAssumption
<1>3. p \in Seq(Name) /\ Len(p) = n
  BY <1>1, <1>2, SeqDef
<1>4. QED BY <1>1, <1>2, <1>3, TreeAssumption DEF Names

LEMMA NamesAsPath ==
  ASSUME NEW p \in Names, Len(p) <= MaxDepth
  PROVE  p \in Path
<1>1. p \in [1..Len(p) -> Name] /\ Len(p) \in Nat
  BY DEF Names
<1>2. Len(p) \in 0..MaxDepth
  BY <1>1, TreeAssumption
<1>3. QED BY <1>1, <1>2 DEF Path

\* One path is at or above another when its names are the first ones of the other.
LEMMA AboveByNames ==
  ASSUME NEW p \in Names, NEW q \in Names
  PROVE  AtOrAbove(p, q) <=> Len(p) <= Len(q) /\ \A i \in 1..Len(p) : p[i] = q[i]
<1> DEFINE s == SubSeq(q, 1, Len(p))
<1>1. Len(p) \in Nat /\ Len(q) \in Nat /\ p = [i \in 1..Len(p) |-> p[i]]
  BY DEF Names
<1>2. ASSUME Len(p) <= Len(q) PROVE s \in Names /\ Len(s) = Len(p) /\ \A i \in 1..Len(p) : s[i] = q[i]
  BY <1>1, <1>2, SubSeqProperties DEF Names
<1>3. ASSUME AtOrAbove(p, q) PROVE Len(p) <= Len(q) /\ \A i \in 1..Len(p) : p[i] = q[i]
  <2>1. CASE p = q
    BY <1>1, <2>1
  <2>2. CASE Len(p) < Len(q) /\ s = p
    BY <1>1, <1>2, <2>2
  <2>3. QED BY <1>3, <2>1, <2>2 DEF AtOrAbove, IsAbove
<1>4. ASSUME Len(p) <= Len(q), \A i \in 1..Len(p) : p[i] = q[i] PROVE AtOrAbove(p, q)
  <2>1. CASE Len(p) = Len(q)
    <3>1. p = q
      BY <1>1, <1>4, <2>1, SeqEqual DEF Names
    <3>2. QED BY <3>1 DEF AtOrAbove
  <2>2. CASE Len(p) < Len(q)
    <3>1. s = p
      BY <1>1, <1>2, <1>4, SeqEqual DEF Names
    <3>2. QED BY <2>2, <3>1 DEF AtOrAbove, IsAbove
  <2>3. QED BY <1>1, <1>4, <2>1, <2>2
<1>5. QED BY <1>3, <1>4

LEMMA AboveTransitive ==
  ASSUME NEW p \in Names, NEW q \in Names, NEW s \in Names, AtOrAbove(p, q), AtOrAbove(q, s)
  PROVE  AtOrAbove(p, s)
<1>1. Len(p) \in Nat /\ Len(q) \in Nat /\ Len(s) \in Nat
  BY DEF Names
<1>2. QED BY <1>1, AboveByNames

\* Of two paths above a third one is at or above the other.
LEMMA AboveLinear ==
  ASSUME NEW p \in Names, NEW q \in Names, NEW s \in Names, AtOrAbove(p, s), AtOrAbove(q, s)
  PROVE  AtOrAbove(p, q) \/ AtOrAbove(q, p)
<1>1. Len(p) \in Nat /\ Len(q) \in Nat /\ Len(s) \in Nat
  BY DEF Names
<1>2. QED BY <1>1, AboveByNames

LEMMA DirsArePaths ==
  ASSUME NEW p \in Path, NEW d \in DirsAbove(p)
  PROVE  d \in Path /\ AtOrAbove(d, p) /\ d # p
<1>1. p \in Names /\ Len(p) \in Nat /\ Len(p) <= MaxDepth
  BY PathIsNames
<1>2. PICK n \in 1..(Len(p) - 1) : d = SubSeq(p, 1, n)
  BY DEF DirsAbove
<1>3. d \in Names /\ Len(d) = n /\ \A i \in 1..Len(d) : d[i] = p[i]
  BY <1>1, <1>2, SubSeqProperties DEF Names
<1>. n \in Nat /\ n <= Len(p)
  BY <1>1, <1>2
<1>4. d \in Path
  <2>1. Len(d) <= MaxDepth
    BY <1>1, <1>3, TreeAssumption
  <2>2. QED BY <1>3, <2>1, NamesAsPath
<1>5. AtOrAbove(d, p)
  <2>1. Len(d) <= Len(p)
    BY <1>3
  <2>2. QED BY <1>1, <1>3, <2>1, AboveByNames
<1>6. d # p
  BY <1>1, <1>2, <1>3
<1>7. QED BY <1>4, <1>5, <1>6

\* The entry n of a directory.
LEMMA EntryBelow ==
  ASSUME NEW p \in Names, NEW n \in Name
  PROVE  Append(p, n) \in Names /\ AtOrAbove(p, Append(p, n))
<1>0. Append(p, n) \in Names
  BY AppendProperties DEF Names
<1>1. PICK s \in Names : s = Append(p, n)
  BY <1>0
<1>2. Len(s) = Len(p) + 1 /\ Len(p) \in Nat /\ \A i \in 1..Len(p) : s[i] = p[i]
  BY <1>1, AppendProperties DEF Names
<1>3. Len(p) <= Len(s)
  BY <1>2
<1>4. AtOrAbove(p, s)
  BY <1>2, <1>3, AboveByNames
<1>5. QED BY <1>1, <1>4

\* The name of a path that is not the root.
LEMMA NameOfPath ==
  ASSUME NEW p \in Path, p # Root
  PROVE  PathName(p) \in Name
<1>1. p \in Seq(Name) /\ Len(p) \in Nat
  BY PathIsNames DEF Names
<1>2. Len(p) # 0
  BY <1>1, EmptySeq DEF Root
<1>3. QED BY <1>1, <1>2 DEF PathName

----------------------------------------------------------------------------
(* Jobs. *)

Job ==
  Call
    \cup [do : {"fetch"}, src : Names, dst : Path, data : Content]
    \cup [do : {"entries"}, src : Names, dst : Names, names : SUBSET Name]
    \cup [do : {"rows"}, paths : SUBSET Path]
    \cup [do : {"cp"}, src : Names, dst : Names, recursive : BOOLEAN]
    \cup [do : {"symlink"}, dst : Path, target : Target \cup {NoTarget}]

\* The path q is named by c or below one that is.
Under(c, q) == \E p \in PathsOf(c) : AtOrAbove(p, q)

\* What the job j changes is under the paths of the call c it is done for.
Stays(c, j) ==
  /\ j.do \in {"write", "append", "mkdir", "mkdir_p", "symlink", "fetch", "entries", "cp", "mv"} =>
       Under(c, j.dst)
  /\ j.do \in {"rm", "delete_file", "mv"} => Under(c, j.src)
  /\ j.do = "rows" => \A q \in j.paths : Under(c, q)

\* The jobs that c may come to, if LIKE matches no names but equal ones.
Own(c) == {j \in Job : LikeAlso = {} => Stays(c, j)}

LEMMA CallsAreJobs ==
  ASSUME NEW c \in Call
  PROVE  c \in Job /\ c \in Own(c) /\ PathsOf(c) \subseteq Path
<1>1. c \in Job
  BY DEF Job
<1>2. /\ c.do \in {"write", "append", "mkdir", "mkdir_p", "symlink"} =>
           c.dst \in Path /\ PathsOf(c) = {c.dst}
      /\ c.do \in {"rm", "delete_file"} => c.src \in Path /\ PathsOf(c) = {c.src}
      /\ c.do \in {"cp", "mv"} => c.src \in Path /\ c.dst \in Path /\ PathsOf(c) = {c.src, c.dst}
      /\ c.do \in {"write", "append", "mkdir", "mkdir_p", "symlink", "rm", "delete_file", "cp", "mv"}
  BY DEF Call, PathsOf
<1>3. \A p \in PathsOf(c) : Under(c, p)
  BY DEF Under, AtOrAbove
<1>4. Stays(c, c)
  BY <1>2, <1>3 DEF Stays
<1>5. QED BY <1>1, <1>2, <1>4 DEF Own

\* What a job of each kind is about.
LEMMA JobData ==
  ASSUME NEW j \in Job
  PROVE  /\ j.do \in {"write", "append", "fetch"} => j.dst \in Path /\ j.data \in Content
         /\ j.do \in {"mkdir", "mkdir_p"} => j.dst \in Path
         /\ j.do = "symlink" => j.dst \in Path /\ j.target \in Target \cup {NoTarget}
         /\ j.do = "rows" => j.paths \subseteq Path
         /\ j.do = "entries" => j.src \in Names /\ j.dst \in Names /\ j.names \subseteq Name
         /\ j.do = "cp" => j.src \in Names /\ j.dst \in Names
         /\ j.do \in {"rm", "delete_file"} => j.src \in Path
         /\ j.do = "mv" => j.src \in Path /\ j.dst \in Path
<1>1. \A p \in Path : p \in Names
  BY PathIsNames
<1>2. CASE j \in Call
  BY <1>1, <1>2 DEF Call
<1>3. CASE j \notin Call
  BY <1>3 DEF Job
<1>4. QED BY <1>2, <1>3

LEMMA OwnJobs ==
  ASSUME NEW c \in Call, NEW p \in Path, LikeAlso = {} => Under(c, p)
  PROVE  /\ \A d \in Content : WriteJob(p, d) \in Own(c)
         /\ \A d \in Content, q \in Names : FetchJob(q, p, d) \in Own(c)
         /\ \A tgt \in Target \cup {NoTarget} :
              [do |-> "symlink", dst |-> p, target |-> tgt] \in Own(c)
         /\ RmJob(p) \in Own(c)
<1>1. \A d \in Content : WriteJob(p, d) \in Job
  BY DEF Job, Call, WriteJob
<1>2. \A d \in Content, q \in Names : FetchJob(q, p, d) \in Job
  BY DEF Job, FetchJob
<1>3. \A tgt \in Target \cup {NoTarget} : [do |-> "symlink", dst |-> p, target |-> tgt] \in Job
  BY DEF Job
<1>4. RmJob(p) \in Job
  BY DEF Job, Call, RmJob
<1>5. QED BY <1>1, <1>2, <1>3, <1>4 DEF Own, Stays, WriteJob, FetchJob, RmJob

LEMMA OwnRows ==
  ASSUME NEW c \in Call, NEW S \in SUBSET Path, LikeAlso = {} => \A q \in S : Under(c, q)
  PROVE  RowsJob(S) \in Own(c)
BY DEF Own, Stays, RowsJob, Job

LEMMA OwnCopies ==
  ASSUME NEW c \in Call, NEW p \in Names, NEW q \in Names, LikeAlso = {} => Under(c, q)
  PROVE  /\ \A rec \in BOOLEAN : CpJob(p, q, rec) \in Own(c)
         /\ \A S \in SUBSET Name : EntriesJob(p, q, S) \in Own(c)
<1>1. \A rec \in BOOLEAN : CpJob(p, q, rec) \in Job
  BY DEF Job, CpJob
<1>2. \A S \in SUBSET Name : EntriesJob(p, q, S) \in Job
  BY DEF Job, EntriesJob
<1>3. QED BY <1>1, <1>2 DEF Own, Stays, CpJob, EntriesJob

\* Under goes down.
LEMMA UnderBelow ==
  ASSUME NEW c \in Call, NEW p \in Names, NEW q \in Names, Under(c, p), AtOrAbove(p, q)
  PROVE  Under(c, q)
<1>1. PICK k \in PathsOf(c) : AtOrAbove(k, p)
  BY DEF Under
<1>2. k \in Names
  BY <1>1, CallsAreJobs, PathIsNames
<1>3. AtOrAbove(k, q)
  BY <1>1, <1>2, AboveTransitive
<1>4. QED BY <1>1, <1>3 DEF Under

----------------------------------------------------------------------------
(* Types. *)

\* Who has the thread runs and waits for nothing; a call that runs has jobs of its own left,
\* and one that waits for R2 is in the job that asked.
TypeInv ==
  /\ TypeOK
  /\ turn \in Request => status[turn] = "running"
  /\ await \in [Request -> Await \cup {NoAwait}]
  /\ jobs \in [Request -> Seq(Job)]
  /\ \A r \in Request : status[r] = "running" => call[r] \in Call /\ jobs[r] \in Seq(Own(call[r]))
  /\ \A r \in Request : await[r] # NoAwait =>
       /\ await[r].op = "get" => Head(jobs[r]).do = "fetch"
       /\ await[r].op = "rmobj" => Head(jobs[r]).do = "rows"

StoresTyped ==
  /\ rows \in [Path -> Row \cup {NoRow}]
  /\ objects \in [Path -> Content \cup {Absent}]
  /\ mirror \subseteq Path /\ faulted \subseteq Path

LEMMA Sequences1 ==
  ASSUME NEW S, NEW js \in Seq(S)
  PROVE  /\ js # <<>> => Head(js) \in S /\ Tail(js) \in Seq(S)
         /\ \A x \in S : <<x>> \o js \in Seq(S) /\ <<x>> \o js # <<>>
         /\ \A x, y \in S : <<x, y>> \o js \in Seq(S)
         /\ <<>> \o js = js
OBVIOUS

LEMMA OwnIsJob ==
  ASSUME NEW c, NEW js \in Seq(Own(c))
  PROVE  js \in Seq(Job)
<1>1. Own(c) \subseteq Job
  BY DEF Own
<1>2. QED BY <1>1, SeqMonotonic

\* What a request runs is one of its own jobs.
LEMMA RunningJob ==
  ASSUME TypeInv, NEW r \in Request, status[r] = "running"
  PROVE  /\ call[r] \in Call /\ jobs[r] # <<>>
         /\ Head(jobs[r]) \in Own(call[r]) /\ Head(jobs[r]) \in Job
         /\ Rest(r) \in Seq(Own(call[r]))
<1>1. call[r] \in Call /\ jobs[r] # <<>> /\ jobs[r] \in Seq(Own(call[r]))
  BY DEF TypeInv, TypeOK
<1>2. Head(jobs[r]) \in Own(call[r]) /\ Tail(jobs[r]) \in Seq(Own(call[r]))
  BY <1>1, Sequences1
<1>3. QED BY <1>1, <1>2 DEF Rest, Own

\* The three ways a segment ends.
LEMMA ContinueTyped ==
  ASSUME TypeInv, NEW r \in Request, status[r] = "running", turn \in {r, Nobody},
         NEW js \in Seq(Own(call[r])), Continue(r, js), StoresTyped'
  PROVE  TypeInv'
<1>1. js \in Seq(Job)
  BY OwnIsJob
<1>2. /\ jobs'[r] = js /\ await'[r] = NoAwait /\ status'[r] = IF js = <<>> THEN "ok" ELSE "running"
      /\ turn' = IF js = <<>> THEN Nobody ELSE r
      /\ \A q \in Request \ {r} : jobs'[q] = jobs[q] /\ await'[q] = await[q] /\ status'[q] = status[q]
      /\ UNCHANGED <<bucket, call, calls>>
  BY DEF Continue, TypeInv, TypeOK
<1>3. jobs' \in [Request -> Seq(Job)]
  BY <1>1 DEF Continue, TypeInv
<1>4. /\ await' \in [Request -> Await \cup {NoAwait}]
      /\ status' \in [Request -> {"idle", "running", "ok", "failed"}]
  BY DEF Continue, TypeInv, TypeOK
<1>5. TypeOK'
  <2>1. \A q \in Request : status'[q] = "running" <=> jobs'[q] # <<>>
    BY <1>2 DEF TypeInv, TypeOK
  <2>2. \A q \in Request : await'[q] # NoAwait => status'[q] = "running" /\ turn' # q
    BY <1>2, SeedAssumption DEF TypeInv, TypeOK
  <2>3. turn' \in Request \cup {Nobody}
    BY <1>2
  <2>4. QED BY <1>2, <1>4, <2>1, <2>2, <2>3 DEF TypeInv, TypeOK, StoresTyped
<1>6. turn' \in Request => status'[turn'] = "running"
  BY <1>2, SeedAssumption
<1>7. \A q \in Request : status'[q] = "running" =>
        call'[q] \in Call /\ jobs'[q] \in Seq(Own(call'[q]))
  BY <1>2 DEF TypeInv
<1>8. \A q \in Request : await'[q] # NoAwait =>
        /\ await'[q].op = "get" => Head(jobs'[q]).do = "fetch"
        /\ await'[q].op = "rmobj" => Head(jobs'[q]).do = "rows"
  BY <1>2 DEF TypeInv
<1>9. QED BY <1>3, <1>4, <1>5, <1>6, <1>7, <1>8 DEF TypeInv

LEMMA StopTyped ==
  ASSUME TypeInv, NEW r \in Request, Stop(r), StoresTyped'
  PROVE  TypeInv'
<1>1. /\ jobs'[r] = <<>> /\ await'[r] = NoAwait /\ status'[r] = "failed" /\ turn' = Nobody
      /\ \A q \in Request \ {r} : jobs'[q] = jobs[q] /\ await'[q] = await[q] /\ status'[q] = status[q]
      /\ UNCHANGED <<bucket, call, calls>>
  BY DEF Stop, TypeInv, TypeOK
<1>2. <<>> \in Seq(Job)
  OBVIOUS
<1>3. /\ jobs' \in [Request -> Seq(Job)] /\ await' \in [Request -> Await \cup {NoAwait}]
      /\ status' \in [Request -> {"idle", "running", "ok", "failed"}]
  BY <1>2 DEF Stop, TypeInv, TypeOK
<1>4. TypeOK'
  <2>1. \A q \in Request : status'[q] = "running" <=> jobs'[q] # <<>>
    BY <1>1 DEF TypeInv, TypeOK
  <2>2. \A q \in Request : await'[q] # NoAwait => status'[q] = "running" /\ turn' # q
    BY <1>1, SeedAssumption DEF TypeInv, TypeOK
  <2>3. QED BY <1>1, <1>3, <2>1, <2>2 DEF TypeInv, TypeOK, StoresTyped
<1>5. \A q \in Request : status'[q] = "running" =>
        call'[q] \in Call /\ jobs'[q] \in Seq(Own(call'[q]))
  BY <1>1 DEF TypeInv
<1>6. \A q \in Request : await'[q] # NoAwait =>
        /\ await'[q].op = "get" => Head(jobs'[q]).do = "fetch"
        /\ await'[q].op = "rmobj" => Head(jobs'[q]).do = "rows"
  BY <1>1 DEF TypeInv
<1>7. QED BY <1>1, <1>3, <1>4, <1>5, <1>6, SeedAssumption DEF TypeInv

LEMMA WaitTyped ==
  ASSUME TypeInv, NEW r \in Request, status[r] = "running",
         NEW w \in Await, Wait(r, w), StoresTyped',
         w.op = "get" => Head(jobs[r]).do = "fetch",
         w.op = "rmobj" => Head(jobs[r]).do = "rows"
  PROVE  TypeInv'
<1>1. /\ await'[r] = w /\ turn' = Nobody
      /\ \A q \in Request \ {r} : await'[q] = await[q]
      /\ UNCHANGED <<bucket, call, calls, jobs, status>>
  BY DEF Wait, TypeInv, TypeOK
<1>2. await' \in [Request -> Await \cup {NoAwait}]
  BY DEF Wait, TypeInv
<1>3. TypeOK'
  BY <1>1, SeedAssumption DEF TypeInv, TypeOK, StoresTyped
<1>4. QED BY <1>1, <1>2, <1>3, SeedAssumption DEF TypeInv

----------------------------------------------------------------------------
(* Tables. *)

Table == [Path -> Row \cup {NoRow}]

LEMMA RowsAreRows ==
  /\ DirRow \in Row
  /\ \A store \in {"inline", "r2"}, c \in Content : FileRow(store, c) \in Row
  /\ \A tgt \in Target \cup {NoTarget} : LinkRow(tgt) \in Row
BY DEF Row, DirRow, FileRow, LinkRow, Content

LEMMA WithDirsTyped ==
  ASSUME NEW t \in Table, NEW S
  PROVE  /\ WithDirs(t, S) \in Table
         /\ \A q \in Path : WithDirs(t, S)[q] = IF q \in S /\ t[q] = NoRow THEN DirRow ELSE t[q]
BY RowsAreRows DEF WithDirs, Table

LEMMA UpsertTyped ==
  ASSUME NEW t \in Table, NEW p \in Path, NEW store \in {"inline", "r2"}, NEW c \in Content
  PROVE  /\ Upsert(t, p, store, c) \in Table
         /\ \A q \in Path \ {p} : Upsert(t, p, store, c)[q] = t[q]
         /\ Upsert(t, p, store, c)[p] \in Row
         /\ Upsert(t, p, store, c)[p].storage = store
<1> DEFINE new == IF Has(t, p) THEN [t[p] EXCEPT !.storage = store, !.content = c]
                               ELSE FileRow(store, c)
<1>1. CASE Has(t, p)
  <2>1. t[p] \in Row
    BY <1>1 DEF Has, Table
  <2>2. new \in Row /\ new.storage = store
    BY <1>1, <2>1 DEF Row
  <2> HIDE DEF new
  <2>3. [t EXCEPT ![p] = new] = Upsert(t, p, store, c)
    BY DEF Upsert, new
  <2>4. QED BY <2>2, <2>3 DEF Table
<1>2. CASE ~Has(t, p)
  <2>1. new \in Row /\ new.storage = store
    BY <1>2, RowsAreRows DEF FileRow
  <2> HIDE DEF new
  <2>2. [t EXCEPT ![p] = new] = Upsert(t, p, store, c)
    BY DEF Upsert, new
  <2>3. QED BY <2>1, <2>2 DEF Table
<1>3. QED BY <1>1, <1>2

LEMMA UpsertLinkTyped ==
  ASSUME NEW t \in Table, NEW p \in Path, NEW tgt \in Target \cup {NoTarget}
  PROVE  /\ UpsertLink(t, p, tgt) \in Table
         /\ \A q \in Path \ {p} : UpsertLink(t, p, tgt)[q] = t[q]
         /\ UpsertLink(t, p, tgt)[p] \in Row
         /\ UpsertLink(t, p, tgt)[p].storage = IF Has(t, p) THEN t[p].storage ELSE "inline"
<1> DEFINE new == IF Has(t, p) THEN [t[p] EXCEPT !.type = "symlink", !.target = tgt]
                               ELSE LinkRow(tgt)
<1>1. new \in Row /\ new.storage = IF Has(t, p) THEN t[p].storage ELSE "inline"
  <2>1. CASE Has(t, p)
    <3>1. t[p] \in Row
      BY <2>1 DEF Has, Table
    <3>2. QED BY <2>1, <3>1 DEF Row
  <2>2. CASE ~Has(t, p)
    BY <2>2, RowsAreRows DEF LinkRow
  <2>3. QED BY <2>1, <2>2
<1> HIDE DEF new
<1>2. [t EXCEPT ![p] = new] = UpsertLink(t, p, tgt)
  BY DEF UpsertLink, new
<1>3. QED BY <1>1, <1>2 DEF Table

\* What read_file_bytes finds is a content, or nothing.
LEMMA ReadIsContent ==
  ASSUME TypeOK, NEW p, ReadOf(rows, objects, p) # Illegal
  PROVE  OrEmpty(ReadOf(rows, objects, p)) \in Content
<1> DEFINE q == Resolve(rows, p)
           v == ReadOf(rows, objects, p)
<1>1. v \in Content \cup {Absent}
  <2>1. CASE q = None
    BY <2>1 DEF ReadOf
  <2>2. CASE q # None
    <3>1. \/ q \notin {None, Loop} /\ TypeOf(rows, q) = "file"
          \/ v = Illegal
      BY <2>2 DEF ReadOf
    <3>2. q \notin {None, Loop} /\ TypeOf(rows, q) = "file"
      BY <3>1
    <3>3. q \in Path /\ rows[q] # NoRow
      BY <3>2 DEF TypeOf, Has
    <3>4. v = IF InR2(rows, q) THEN objects[q] ELSE rows[q].content
      BY <3>2 DEF ReadOf
    <3>5. objects[q] \in Content \cup {Absent} /\ rows[q].content \in Content
      BY <3>3 DEF TypeOK, Row
    <3> HIDE DEF q
    <3>6. QED BY <3>4, <3>5
  <2>3. QED BY <2>1, <2>2
<1> HIDE DEF v, q
<1>2. {} \in Content
  BY DEF Content
<1>3. QED BY <1>1, <1>2 DEF OrEmpty, v

----------------------------------------------------------------------------
(* Each action keeps the types. *)

LEMMA StoresStay ==
  ASSUME TypeInv, NoChange, UNCHANGED faulted
  PROVE  StoresTyped'
BY DEF TypeInv, TypeOK, NoChange, StoresTyped

\* A request that runs a job is awaiting nothing, and the job is its own.
LEMMA Running ==
  ASSUME TypeInv, NEW r \in Request, NEW what, Runs(r, what)
  PROVE  /\ turn = r /\ status[r] = "running" /\ await[r] = NoAwait
         /\ call[r] \in Call /\ jobs[r] # <<>> /\ Rest(r) \in Seq(Own(call[r]))
         /\ Head(jobs[r]) \in Own(call[r]) /\ Head(jobs[r]) \in Job /\ Head(jobs[r]).do = what
         /\ LikeAlso = {} => Stays(call[r], Head(jobs[r]))
<1>1. turn = r /\ Head(jobs[r]).do = what
  BY DEF Runs
<1>2. status[r] = "running" /\ await[r] = NoAwait
  BY <1>1 DEF TypeInv, TypeOK
<1>3. QED BY <1>1, <1>2, RunningJob DEF Own

\* The request's jobs, with one or two more of its own before them.
LEMMA MoreJobs ==
  ASSUME TypeInv, NEW r \in Request, status[r] = "running",
         NEW x \in Own(call[r])
  PROVE  /\ Rest(r) \in Seq(Own(call[r])) /\ <<x>> \o Rest(r) \in Seq(Own(call[r]))
         /\ \A y \in Own(call[r]) : <<x, y>> \o Rest(r) \in Seq(Own(call[r]))
         /\ \A y \in Own(call[r]) : <<x>> \o <<y>> \o Rest(r) \in Seq(Own(call[r]))
         /\ <<>> \o Rest(r) \in Seq(Own(call[r]))
         /\ <<x>> \o <<>> \o Rest(r) \in Seq(Own(call[r]))
<1>1. Rest(r) \in Seq(Own(call[r]))
  BY RunningJob
<1>2. <<>> \o Rest(r) = Rest(r) /\ <<x>> \o <<>> = <<x>>
  BY <1>1
<1>3. \A y \in Own(call[r]) : <<x>> \o <<y>> = <<x, y>>
  <2>1. ASSUME NEW y \in Own(call[r]) PROVE <<x>> \o <<y>> = <<x, y>>
    <3>1. <<x>> \in Seq({x, y}) /\ <<y>> \in Seq({x, y}) /\ <<x, y>> \in Seq({x, y})
      OBVIOUS
    <3>2. PICK s \in Seq({x, y}) : s = <<x>> \o <<y>>
      BY <3>1, ConcatProperties
    <3>3. Len(s) = 2 /\ s[1] = x /\ s[2] = y
      BY <3>1, <3>2, ConcatProperties
    <3>4. PICK u \in Seq({x, y}) : u = <<x, y>>
      BY <3>1
    <3>5. Len(u) = 2 /\ u[1] = x /\ u[2] = y
      BY <3>4
    <3>6. \A i \in 1..Len(s) : s[i] = u[i]
      BY <3>3, <3>5
    <3>7. s = u
      BY <3>3, <3>5, <3>6, SeqEqual
    <3>8. QED BY <3>2, <3>4, <3>7
  <2>2. QED BY <2>1
<1>4. QED BY <1>1, <1>2, <1>3, Sequences1

LEMMA NewPaths ==
  ASSUME TypeInv, NEW S \in SUBSET Path
  PROVE  New(S) \subseteq S /\ mirror \cup New(S) \subseteq Path
BY DEF New, TypeInv, TypeOK

LEMMA TooLongTyped ==
  ASSUME TypeInv, NEW r \in Request, TooLong(r), UNCHANGED faulted
  PROVE  TypeInv'
<1>1. Stop(r) /\ NoChange
  BY DEF TooLong
<1>2. QED BY <1>1, StopTyped, StoresStay

LEMMA WriteTyped ==
  ASSUME TypeInv, NEW r \in Request, Write(r), UNCHANGED faulted
  PROVE  TypeInv'
<1>1. PICK j : j = Head(jobs[r])
  OBVIOUS
<1>2. /\ Runs(r, "write") /\ turn = r /\ status[r] = "running"
      /\ Rest(r) \in Seq(Own(call[r])) /\ j.dst \in Path /\ j.data \in Content
  BY <1>1, Running, JobData DEF Write
<1>3. PICK p \in Path : p = j.dst
  BY <1>2
<1>4. PICK D \in SUBSET Path : D = DirsAbove(p)
  BY <1>3, DirsArePaths
<1>5. PICK t \in Table : t = WithDirs(rows, D)
  BY WithDirsTyped DEF TypeInv, TypeOK, Table
<1>6. mirror \cup New(D) \subseteq Path /\ mirror \cup New(D) \cup New({p}) \subseteq Path
  BY NewPaths
<1>. HIDE <1>1, <1>3, <1>4, <1>5
<1>7. CASE Stop(r) /\ NoChange
  BY <1>7, StopTyped, StoresStay
<1>8. CASE Stop(r) /\ rows' = t /\ mirror' = mirror \cup New(D) /\ UNCHANGED objects
  BY <1>6, <1>8, StopTyped DEF StoresTyped, TypeInv, TypeOK, Table
<1>9. CASE /\ rows' = t /\ mirror' = mirror \cup New(D) /\ UNCHANGED objects
           /\ Wait(r, AwaitOf("put", p, j.data, Has(t, p)))
  <2>1. AwaitOf("put", p, j.data, Has(t, p)) \in Await
    BY <1>2 DEF AwaitOf, Await, Has
  <2>2. StoresTyped'
    BY <1>6, <1>9 DEF StoresTyped, TypeInv, TypeOK, Table
  <2>3. QED BY <1>2, <1>9, <2>1, <2>2, WaitTyped DEF AwaitOf
<1>10. CASE /\ rows' = Upsert(t, p, "inline", j.data) /\ mirror' = mirror \cup New(D)
            /\ UNCHANGED objects /\ Wait(r, AwaitOf("drop", p, {}, Has(t, p)))
  <2>1. AwaitOf("drop", p, {}, Has(t, p)) \in Await
    BY DEF AwaitOf, Await, Has, Content
  <2>2. StoresTyped'
    BY <1>2, <1>6, <1>10, UpsertTyped DEF StoresTyped, TypeInv, TypeOK, Table
  <2>3. QED BY <1>2, <1>10, <2>1, <2>2, WaitTyped DEF AwaitOf
<1>11. CASE /\ rows' = Upsert(t, p, "inline", j.data) /\ mirror' = mirror \cup New(D) \cup New({p})
            /\ UNCHANGED objects /\ Continue(r, Rest(r))
  <2>1. StoresTyped'
    BY <1>2, <1>6, <1>11, UpsertTyped DEF StoresTyped, TypeInv, TypeOK, Table
  <2>2. QED BY <1>2, <1>11, <2>1, ContinueTyped
<1>12. QED BY <1>1, <1>3, <1>4, <1>5, <1>7, <1>8, <1>9, <1>10, <1>11 DEF Write

LEMMA AppendFileTyped ==
  ASSUME TypeInv, NEW r \in Request, AppendFile(r), UNCHANGED faulted
  PROVE  TypeInv'
<1>1. PICK j : j = Head(jobs[r])
  OBVIOUS
<1>2. /\ Runs(r, "append") /\ turn = r /\ status[r] = "running" /\ call[r] \in Call
      /\ j.dst \in Path /\ j.data \in Content /\ j.do = "append"
      /\ (LikeAlso = {} => Stays(call[r], j))
  BY <1>1, Running, JobData DEF AppendFile
<1>3. LikeAlso = {} => Under(call[r], j.dst)
  BY <1>2 DEF Stays
<1>4. FetchJob(j.dst, j.dst, j.data) \in Own(call[r])
  BY <1>2, <1>3, OwnJobs, PathIsNames
<1>5. <<FetchJob(j.dst, j.dst, j.data)>> \o Rest(r) \in Seq(Own(call[r]))
  BY <1>2, <1>4, MoreJobs
<1>6. Continue(r, <<FetchJob(j.dst, j.dst, j.data)>> \o Rest(r)) /\ NoChange
  BY <1>1 DEF AppendFile
<1>7. QED BY <1>2, <1>5, <1>6, ContinueTyped, StoresStay

LEMMA FetchTyped ==
  ASSUME TypeInv, NEW r \in Request, Fetch(r), UNCHANGED faulted
  PROVE  TypeInv'
<1>1. PICK j : j = Head(jobs[r])
  OBVIOUS
<1>2. PICK v : v = ReadOf(rows, objects, j.src)
  OBVIOUS
<1>3. PICK q : q = Resolve(rows, j.src)
  OBVIOUS
<1>4. /\ Runs(r, "fetch") /\ turn = r /\ status[r] = "running" /\ call[r] \in Call
      /\ j.dst \in Path /\ j.data \in Content /\ j.do = "fetch"
      /\ (LikeAlso = {} => Stays(call[r], j))
  BY <1>1, Running, JobData DEF Fetch
<1>5. NoChange
  BY DEF Fetch
<1>6. StoresTyped'
  BY <1>5, StoresStay
<1>7. CASE Stop(r)
  BY <1>6, <1>7, StopTyped
<1>8. CASE InR2(rows, q) /\ Wait(r, AwaitOf("get", q, {}, FALSE))
  <2>1. AwaitOf("get", q, {}, FALSE) \in Await
    BY <1>8 DEF InR2, Has, Content, AwaitOf, Await
  <2>2. QED BY <1>1, <1>4, <1>6, <1>8, <2>1, WaitTyped DEF AwaitOf
<1>9. CASE v # Illegal /\ Continue(r, <<WriteJob(j.dst, OrEmpty(v) \cup j.data)>> \o Rest(r))
  <2>1. OrEmpty(v) \cup j.data \in Content
    BY <1>2, <1>4, <1>9, ReadIsContent DEF Content, TypeInv
  <2>2. WriteJob(j.dst, OrEmpty(v) \cup j.data) \in Own(call[r])
    BY <1>4, <2>1, OwnJobs DEF Stays
  <2>3. <<WriteJob(j.dst, OrEmpty(v) \cup j.data)>> \o Rest(r) \in Seq(Own(call[r]))
    BY <1>4, <2>2, MoreJobs
  <2>4. QED BY <1>4, <1>6, <1>9, <2>3, ContinueTyped
<1>10. QED BY <1>1, <1>2, <1>3, <1>7, <1>8, <1>9 DEF Fetch

LEMMA MkdirTyped ==
  ASSUME TypeInv, NEW r \in Request, Mkdir(r), UNCHANGED faulted
  PROVE  TypeInv'
<1>1. PICK j : j = Head(jobs[r])
  OBVIOUS
<1>2. /\ turn = r /\ status[r] = "running" /\ Rest(r) \in Seq(Own(call[r])) /\ j.dst \in Path
  BY <1>1, Running, JobData DEF Mkdir
<1>3. PICK S \in SUBSET Path :
        S = IF j.do = "mkdir_p" THEN DirsAbove(j.dst) \cup {j.dst} ELSE {j.dst}
  BY <1>2, DirsArePaths
<1>4. mirror \cup New(S) \subseteq Path /\ WithDirs(rows, S) \in Table
  BY NewPaths, WithDirsTyped DEF TypeInv, TypeOK, Table
<1>5. CASE (Continue(r, Rest(r)) \/ Stop(r)) /\ NoChange
  BY <1>2, <1>5, ContinueTyped, StopTyped, StoresStay
<1>6. CASE /\ rows' = WithDirs(rows, S) /\ mirror' = mirror \cup New(S) /\ UNCHANGED objects
           /\ Continue(r, Rest(r))
  <2>1. StoresTyped'
    BY <1>4, <1>6 DEF StoresTyped, TypeInv, TypeOK, Table
  <2>2. QED BY <1>2, <1>6, <2>1, ContinueTyped
<1>7. QED BY <1>1, <1>3, <1>5, <1>6 DEF Mkdir

LEMMA SymlinkTyped ==
  ASSUME TypeInv, NEW r \in Request, Symlink(r), UNCHANGED faulted
  PROVE  TypeInv'
<1>1. PICK j : j = Head(jobs[r])
  OBVIOUS
<1>2. /\ turn = r /\ status[r] = "running" /\ Rest(r) \in Seq(Own(call[r]))
      /\ j.dst \in Path /\ j.target \in Target \cup {NoTarget}
  BY <1>1, Running, JobData DEF Symlink
<1>3. PICK D \in SUBSET Path : D = DirsAbove(j.dst)
  BY <1>2, DirsArePaths
<1>4. /\ mirror \cup New(D) \subseteq Path
      /\ UpsertLink(WithDirs(rows, D), j.dst, j.target) \in Table
  BY <1>2, NewPaths, WithDirsTyped, UpsertLinkTyped DEF TypeInv, TypeOK, Table
<1>5. CASE Stop(r) /\ NoChange
  BY <1>5, <1>2, StopTyped, StoresStay
<1>6. CASE /\ rows' = UpsertLink(WithDirs(rows, D), j.dst, j.target)
           /\ mirror' = mirror \cup New(D) \cup {j.dst}
           /\ UNCHANGED objects /\ Continue(r, Rest(r))
  <2>1. StoresTyped'
    BY <1>2, <1>4, <1>6 DEF StoresTyped, TypeInv, TypeOK, Table
  <2>2. QED BY <1>2, <1>6, <2>1, ContinueTyped
<1>7. QED BY <1>1, <1>3, <1>5, <1>6 DEF Symlink

LEMMA DeleteFileTyped ==
  ASSUME TypeInv, NEW r \in Request, DeleteFile(r), UNCHANGED faulted
  PROVE  TypeInv'
<1>1. PICK j : j = Head(jobs[r])
  OBVIOUS
<1>2. /\ turn = r /\ status[r] = "running" /\ Rest(r) \in Seq(Own(call[r])) /\ call[r] \in Call
      /\ j.src \in Path /\ j.do = "delete_file" /\ (LikeAlso = {} => Stays(call[r], j))
  BY <1>1, Running, JobData DEF DeleteFile
<1>3. LikeAlso = {} => \A q \in {j.src} : Under(call[r], q)
  BY <1>2 DEF Stays
<1>4. <<RowsJob({j.src})>> \o Rest(r) \in Seq(Own(call[r]))
  BY <1>2, <1>3, OwnRows, MoreJobs
<1>5. \/ Continue(r, Rest(r)) \/ Stop(r)
      \/ Continue(r, <<RowsJob({j.src})>> \o Rest(r))
  BY <1>1 DEF DeleteFile
<1>6. StoresTyped'
  BY StoresStay DEF DeleteFile
<1>7. QED BY <1>2, <1>4, <1>5, <1>6, ContinueTyped, StopTyped

\* What the LIKE pattern of p matches is below p, if it matches equal names only.
LEMMA LikeIsBelow ==
  ASSUME LikeAlso = {}, NEW p \in Path, NEW q \in Path, q = p \/ IsLike(p, q)
  PROVE  AtOrAbove(p, q)
<1>1. p \in Names /\ q \in Names /\ Len(p) \in Nat /\ Len(q) \in Nat
  BY PathIsNames
<1>2. CASE q = p
  BY <1>2 DEF AtOrAbove
<1>3. CASE IsLike(p, q)
  <2>1. Len(p) <= Len(q) /\ \A i \in 1..Len(p) : p[i] = q[i]
    BY <1>1, <1>3 DEF IsLike
  <2>2. QED BY <1>1, <2>1, AboveByNames
<1>4. QED BY <1>2, <1>3

LEMMA RmTyped ==
  ASSUME TypeInv, NEW r \in Request, Rm(r), UNCHANGED faulted
  PROVE  TypeInv'
<1>1. PICK j : j = Head(jobs[r])
  OBVIOUS
<1>2. /\ turn = r /\ status[r] = "running" /\ Rest(r) \in Seq(Own(call[r])) /\ call[r] \in Call
      /\ j.src \in Path /\ j.do = "rm" /\ (LikeAlso = {} => Stays(call[r], j))
  BY <1>1, Running, JobData DEF Rm
<1>3. PICK p \in Path : p = j.src
  BY <1>2
<1>4. PICK matched \in SUBSET Path :
        matched = {q \in Path : Has(rows, q) /\ (q = p \/ IsLike(p, q))}
  OBVIOUS
<1>5. LikeAlso = {} => Under(call[r], p)
  BY <1>2, <1>3 DEF Stays
<1>6. LikeAlso = {} => \A q \in matched : Under(call[r], q)
  BY <1>2, <1>4, <1>5, LikeIsBelow, UnderBelow, PathIsNames
<1>7. /\ <<RowsJob({p})>> \o Rest(r) \in Seq(Own(call[r]))
      /\ <<RowsJob(matched)>> \o Rest(r) \in Seq(Own(call[r]))
  BY <1>2, <1>5, <1>6, OwnRows, MoreJobs
<1>8. \/ Continue(r, Rest(r)) \/ Stop(r)
      \/ Continue(r, <<RowsJob({p})>> \o Rest(r))
      \/ Continue(r, <<RowsJob(matched)>> \o Rest(r))
  BY <1>1, <1>3, <1>4 DEF Rm
<1>9. StoresTyped'
  BY StoresStay DEF Rm
<1>10. QED BY <1>2, <1>7, <1>8, <1>9, ContinueTyped, StopTyped

LEMMA RowGoneTyped ==
  ASSUME TypeInv, NEW r \in Request, status[r] = "running", turn \in {r, Nobody},
         NEW p \in Path, NEW left \in SUBSET Path,
         LikeAlso = {} => \A q \in left : Under(call[r], q),
         RowGone(r, p, left), UNCHANGED faulted
  PROVE  TypeInv'
<1>1. call[r] \in Call /\ Rest(r) \in Seq(Own(call[r]))
  BY RunningJob
<1>2. (IF left = {} THEN <<>> ELSE <<RowsJob(left)>>) \o Rest(r) \in Seq(Own(call[r]))
  <2>1. RowsJob(left) \in Own(call[r])
    BY <1>1, OwnRows
  <2>2. QED BY <2>1, MoreJobs
<1>3. StoresTyped'
  BY DEF RowGone, StoresTyped, TypeInv, TypeOK
<1>4. QED BY <1>2, <1>3, ContinueTyped DEF RowGone

LEMMA RmSingleTyped ==
  ASSUME TypeInv, NEW r \in Request, RmSingle(r), UNCHANGED faulted
  PROVE  TypeInv'
<1>1. PICK j : j = Head(jobs[r])
  OBVIOUS
<1>2. /\ turn = r /\ status[r] = "running" /\ call[r] \in Call /\ j.do = "rows"
      /\ j.paths \subseteq Path /\ (LikeAlso = {} => Stays(call[r], j))
  BY <1>1, Running, JobData DEF RmSingle
<1>3. PICK p \in j.paths :
        \/ Wait(r, AwaitOf("rmobj", p, {}, FALSE)) /\ NoChange
        \/ RowGone(r, p, j.paths \ {p})
  BY <1>1 DEF RmSingle
<1>4. CASE Wait(r, AwaitOf("rmobj", p, {}, FALSE)) /\ NoChange
  <2>1. AwaitOf("rmobj", p, {}, FALSE) \in Await
    BY <1>2 DEF AwaitOf, Await, Content
  <2>2. QED BY <1>1, <1>2, <1>4, <2>1, WaitTyped, StoresStay DEF AwaitOf
<1>5. CASE RowGone(r, p, j.paths \ {p})
  <2>1. LikeAlso = {} => \A q \in j.paths \ {p} : Under(call[r], q)
    BY <1>2 DEF Stays
  <2>2. QED BY <1>2, <1>5, <2>1, RowGoneTyped
<1>6. QED BY <1>3, <1>4, <1>5

LEMMA CpTyped ==
  ASSUME TypeInv, NEW r \in Request, Cp(r), UNCHANGED faulted
  PROVE  TypeInv'
<1>1. PICK j : j = Head(jobs[r])
  OBVIOUS
<1>2. /\ turn = r /\ status[r] = "running" /\ call[r] \in Call /\ j.do = "cp"
      /\ Rest(r) \in Seq(Own(call[r])) /\ j.src \in Names
      /\ j.dst \in Path /\ (LikeAlso = {} => Stays(call[r], j))
  BY <1>1, Running, JobData DEF Cp
<1>3. PICK src \in Names : src = j.src
  BY <1>2
<1>4. PICK dst \in Path : dst = j.dst
  BY <1>2
<1>5. PICK S \in SUBSET Path : S = DirsAbove(dst) \cup ({dst} \ {Root})
  BY DirsArePaths
<1>6. PICK t \in Table : t = WithDirs(rows, S)
  BY WithDirsTyped DEF TypeInv, TypeOK, Table
<1>7. PICK kids \in SUBSET Name : kids = {PathName(q) : q \in Children(t, src)}
  BY NameOfPath DEF Children
<1>8. /\ (LikeAlso = {} => Under(call[r], dst)) /\ {} \in Content /\ dst \in Names
  BY <1>2, <1>4, PathIsNames DEF Stays, Content
<1>9. CASE Stop(r) /\ NoChange
  BY <1>9, StopTyped, StoresStay
<1>10. CASE Continue(r, <<FetchJob(src, dst, {})>> \o Rest(r)) /\ NoChange
  <2>1. FetchJob(src, dst, {}) \in Own(call[r])
    BY <1>2, <1>8, OwnJobs
  <2>2. <<FetchJob(src, dst, {})>> \o Rest(r) \in Seq(Own(call[r]))
    BY <1>2, <2>1, MoreJobs
  <2>3. QED BY <1>2, <1>10, <2>2, ContinueTyped, StoresStay
<1>11. CASE /\ TypeOf(rows, src) = "symlink" /\ NoChange
            /\ Continue(r, <<[do |-> "symlink", dst |-> dst, target |-> rows[src].target]>> \o Rest(r))
  <2>1. src \in Path /\ rows[src] \in Row
    BY <1>11 DEF TypeOf, Has, TypeInv, TypeOK
  <2>2. rows[src].target \in Target \cup {NoTarget}
    BY <2>1 DEF Row
  <2>3. [do |-> "symlink", dst |-> dst, target |-> rows[src].target] \in Own(call[r])
    BY <1>2, <1>8, <2>2, OwnJobs
  <2>4. <<[do |-> "symlink", dst |-> dst, target |-> rows[src].target]>> \o Rest(r)
           \in Seq(Own(call[r]))
    BY <1>2, <2>3, MoreJobs
  <2>5. QED BY <1>2, <1>11, <2>4, ContinueTyped, StoresStay
<1>12. CASE /\ rows' = t /\ mirror' = mirror \cup New(S) /\ UNCHANGED objects
            /\ Continue(r, (IF kids = {} THEN <<>> ELSE <<EntriesJob(src, dst, kids)>>) \o Rest(r))
  <2>1. EntriesJob(src, dst, kids) \in Own(call[r])
    BY <1>2, <1>8, OwnCopies
  <2>2. (IF kids = {} THEN <<>> ELSE <<EntriesJob(src, dst, kids)>>) \o Rest(r)
           \in Seq(Own(call[r]))
    BY <1>2, <2>1, MoreJobs
  <2>3. StoresTyped'
    BY <1>12, NewPaths DEF StoresTyped, TypeInv, TypeOK, Table
  <2>4. QED BY <1>2, <1>12, <2>2, <2>3, ContinueTyped
<1>. HIDE <1>2
<1>13. QED BY <1>1, <1>3, <1>4, <1>5, <1>6, <1>7, <1>9, <1>10, <1>11, <1>12 DEF Cp

LEMMA CpEntryTyped ==
  ASSUME TypeInv, NEW r \in Request, CpEntry(r), UNCHANGED faulted
  PROVE  TypeInv'
<1>1. PICK j : j = Head(jobs[r])
  OBVIOUS
<1>2. /\ turn = r /\ status[r] = "running" /\ call[r] \in Call /\ j.do = "entries"
      /\ j.src \in Names /\ j.dst \in Names /\ j.names \subseteq Name
      /\ (LikeAlso = {} => Stays(call[r], j))
  BY <1>1, Running, JobData DEF CpEntry
<1>3. PICK n \in j.names :
        Continue(r, <<CpJob(Append(j.src, n), Append(j.dst, n), TRUE)>>
                    \o (IF j.names \ {n} = {} THEN <<>>
                        ELSE <<EntriesJob(j.src, j.dst, j.names \ {n})>>)
                    \o Rest(r))
  BY <1>1 DEF CpEntry
<1>4. PICK x : x = CpJob(Append(j.src, n), Append(j.dst, n), TRUE)
  OBVIOUS
<1>5. PICK y : y = EntriesJob(j.src, j.dst, j.names \ {n})
  OBVIOUS
<1>6. LikeAlso = {} => Under(call[r], j.dst)
  BY <1>2 DEF Stays
<1>7. x \in Own(call[r])
  <2>1. /\ Append(j.src, n) \in Names /\ Append(j.dst, n) \in Names
        /\ AtOrAbove(j.dst, Append(j.dst, n))
    BY <1>2, EntryBelow
  <2>2. LikeAlso = {} => Under(call[r], Append(j.dst, n))
    BY <1>2, <1>6, <2>1, UnderBelow
  <2>3. QED BY <1>2, <1>4, <2>1, <2>2, OwnCopies
<1>8. y \in Own(call[r])
  BY <1>2, <1>5, <1>6, OwnCopies
<1>9. <<x>> \o (IF j.names \ {n} = {} THEN <<>> ELSE <<y>>) \o Rest(r) \in Seq(Own(call[r]))
  BY <1>2, <1>7, <1>8, MoreJobs
<1>10. QED BY <1>2, <1>3, <1>4, <1>5, <1>9, ContinueTyped, StoresStay DEF CpEntry

LEMMA MvTyped ==
  ASSUME TypeInv, NEW r \in Request, Mv(r), UNCHANGED faulted
  PROVE  TypeInv'
<1>1. PICK j : j = Head(jobs[r])
  OBVIOUS
<1>2. /\ turn = r /\ status[r] = "running" /\ call[r] \in Call /\ j.do = "mv"
      /\ j.src \in Path /\ j.dst \in Path /\ (LikeAlso = {} => Stays(call[r], j))
  BY <1>1, Running, JobData DEF Mv
<1>3. LikeAlso = {} => Under(call[r], j.src) /\ Under(call[r], j.dst)
  BY <1>2 DEF Stays
<1>4. /\ \A rec \in BOOLEAN : CpJob(j.src, j.dst, rec) \in Own(call[r])
      /\ RmJob(j.src) \in Own(call[r]) /\ RowsJob({j.src}) \in Own(call[r])
  BY <1>2, <1>3, OwnCopies, OwnJobs, OwnRows, PathIsNames
<1>5. /\ <<CpJob(j.src, j.dst, TRUE), RmJob(j.src)>> \o Rest(r) \in Seq(Own(call[r]))
      /\ <<CpJob(j.src, j.dst, FALSE), RowsJob({j.src})>> \o Rest(r) \in Seq(Own(call[r]))
  BY <1>2, <1>4, MoreJobs
<1>6. \/ Stop(r)
      \/ Continue(r, <<CpJob(j.src, j.dst, TRUE), RmJob(j.src)>> \o Rest(r))
      \/ Continue(r, <<CpJob(j.src, j.dst, FALSE), RowsJob({j.src})>> \o Rest(r))
  BY <1>1 DEF Mv
<1>7. QED BY <1>2, <1>5, <1>6, ContinueTyped, StopTyped, StoresStay DEF Mv

LEMMA R2LandsTyped ==
  ASSUME TypeInv, NEW r \in Request, R2Lands(r)
  PROVE  TypeInv'
<1>1. PICK w \in Await : w = await[r]
  BY DEF TypeInv, R2Lands
<1>2. w.key \in Path /\ w.data \in Content \cup {Absent} /\ w # NoAwait
  BY <1>1 DEF Await, R2Lands
<1>3. PICK d : d = IF w.op = "get" THEN objects[w.key] ELSE w.data
  OBVIOUS
<1>4. PICK o : o = IF w.op = "get" THEN objects[w.key] ELSE IF w.op = "put" THEN w.data ELSE Absent
  OBVIOUS
<1>5. /\ await' = [await EXCEPT ![r].landed = TRUE, ![r].data = d]
      /\ objects' = [objects EXCEPT ![w.key] = o]
      /\ UNCHANGED <<bucket, rows, mirror, turn, status, call, jobs, before, faulted, calls>>
  BY <1>1, <1>3, <1>4 DEF R2Lands, Await
<1>6. d \in Content \cup {Absent} /\ o \in Content \cup {Absent}
  BY <1>2, <1>3, <1>4 DEF TypeInv, TypeOK
<1>7. PICK x \in Await : x = [w EXCEPT !.landed = TRUE, !.data = d]
  BY <1>6 DEF Await
<1>8. x.op = w.op /\ await' = [await EXCEPT ![r] = x]
  BY <1>1, <1>5, <1>7 DEF Await, TypeInv
<1>9. await' \in [Request -> Await \cup {NoAwait}] /\ objects' \in [Path -> Content \cup {Absent}]
  <2>1. /\ await \in [Request -> Await \cup {NoAwait}]
        /\ objects \in [Path -> Content \cup {Absent}]
    BY DEF TypeInv, TypeOK
  <2>2. await' \in [Request -> Await \cup {NoAwait}]
    BY <1>8, <2>1
  <2>3. objects' \in [Path -> Content \cup {Absent}]
    BY <1>2, <1>5, <1>6, <2>1
  <2>4. QED BY <2>2, <2>3
<1>10. \A q \in Request : await'[q] # NoAwait => await[q] # NoAwait /\ await'[q].op = await[q].op
  BY <1>1, <1>2, <1>8 DEF TypeInv
<1>11. TypeOK'
  BY <1>5, <1>9, <1>10 DEF TypeInv, TypeOK
<1>12. QED BY <1>5, <1>9, <1>10, <1>11 DEF TypeInv

LEMMA R2FailsTyped ==
  ASSUME TypeInv, NEW r \in Request, R2Fails(r)
  PROVE  TypeInv'
<1>1. PICK w \in Await : w = await[r]
  BY DEF TypeInv, R2Fails
<1>2. /\ \/ w.op = "get" /\ UNCHANGED <<objects, faulted>>
         \/ /\ w.op = "put" /\ objects' \in {objects, [objects EXCEPT ![w.key] = w.data]}
            /\ faulted' = faulted \cup {w.key}
      /\ Stop(r) /\ UNCHANGED <<rows, mirror>>
  BY <1>1 DEF R2Fails
<1>3. w.key \in Path /\ w.data \in Content \cup {Absent}
  BY DEF Await
<1>4. StoresTyped'
  BY <1>2, <1>3 DEF StoresTyped, TypeInv, TypeOK
<1>5. QED BY <1>2, <1>4, StopTyped

LEMMA R2DeleteFailsTyped ==
  ASSUME TypeInv, NEW r \in Request, R2DeleteFails(r)
  PROVE  TypeInv'
<1>1. PICK w \in Await : w = await[r]
  BY DEF TypeInv, R2DeleteFails
<1>2. w.key \in Path /\ w # NoAwait
  BY <1>1 DEF Await, R2DeleteFails
<1>3. PICK x \in Await : x = [w EXCEPT !.landed = TRUE]
  BY DEF Await
<1>4. x.op = w.op /\ await' = [await EXCEPT ![r] = x] /\ faulted' = faulted \cup {w.key}
      /\ UNCHANGED <<bucket, rows, objects, mirror, turn, status, call, jobs, before, calls>>
  BY <1>1, <1>3 DEF Await, TypeInv, R2DeleteFails
<1>5. await' \in [Request -> Await \cup {NoAwait}] /\ faulted' \subseteq Path
  BY <1>2, <1>4 DEF TypeInv, TypeOK
<1>6. \A q \in Request : await'[q] # NoAwait => await[q] # NoAwait /\ await'[q].op = await[q].op
  BY <1>1, <1>2, <1>4 DEF TypeInv
<1>7. TypeOK'
  BY <1>4, <1>5, <1>6 DEF TypeInv, TypeOK
<1>8. QED BY <1>4, <1>5, <1>6, <1>7 DEF TypeInv

LEMMA ResumeTyped ==
  ASSUME TypeInv, NEW r \in Request, Resume(r)
  PROVE  TypeInv'
<1>1. PICK w \in Await : w = await[r]
  BY DEF TypeInv, Resume
<1>2. PICK j : j = Head(jobs[r])
  OBVIOUS
<1>3. /\ turn = Nobody /\ status[r] = "running" /\ w.key \in Path
      /\ w.data \in Content \cup {Absent} /\ UNCHANGED faulted
      /\ w.op = "get" => j.do = "fetch"
      /\ w.op = "rmobj" => j.do = "rows"
  BY <1>1, <1>2 DEF Await, Resume, TypeInv, TypeOK
<1>4. /\ call[r] \in Call /\ j \in Own(call[r]) /\ j \in Job
      /\ Rest(r) \in Seq(Own(call[r])) /\ (LikeAlso = {} => Stays(call[r], j))
  BY <1>2, <1>3, RunningJob DEF Own
<1>5. PICK p \in Path : p = w.key
  BY <1>3
<1>6. CASE /\ w.op = "get" /\ NoChange
           /\ Continue(r, <<WriteJob(j.dst, OrEmpty(w.data) \cup j.data)>> \o Rest(r))
  <2>1. j.do = "fetch" /\ j.dst \in Path /\ j.data \in Content
    BY <1>3, <1>4, <1>6, JobData
  <2>2. OrEmpty(w.data) \cup j.data \in Content
    BY <1>3, <2>1 DEF OrEmpty, Content
  <2>3. LikeAlso = {} => Under(call[r], j.dst)
    BY <1>4, <2>1 DEF Stays
  <2>4. WriteJob(j.dst, OrEmpty(w.data) \cup j.data) \in Own(call[r])
    BY <1>4, <2>1, <2>2, <2>3, OwnJobs
  <2>5. <<WriteJob(j.dst, OrEmpty(w.data) \cup j.data)>> \o Rest(r) \in Seq(Own(call[r]))
    BY <1>3, <2>4, MoreJobs
  <2>6. QED BY <1>3, <1>6, <2>5, ContinueTyped, StoresStay
<1>7. CASE /\ rows' = Upsert(rows, p, "r2", {})
           /\ mirror' = IF w.existed THEN mirror ELSE mirror \cup {p}
           /\ UNCHANGED objects /\ Continue(r, Rest(r))
  <2>1. Upsert(rows, p, "r2", {}) \in Table
    BY UpsertTyped DEF Table, Content, TypeInv, TypeOK
  <2>2. StoresTyped'
    BY <1>3, <1>7, <2>1 DEF StoresTyped, Table, TypeInv, TypeOK
  <2>3. QED BY <1>3, <1>4, <1>7, <2>2, ContinueTyped
<1>8. CASE /\ mirror' = IF w.existed THEN mirror ELSE mirror \cup {p}
           /\ UNCHANGED <<rows, objects>> /\ Continue(r, Rest(r))
  <2>1. StoresTyped'
    BY <1>3, <1>8 DEF StoresTyped, TypeInv, TypeOK
  <2>2. QED BY <1>3, <1>4, <1>8, <2>1, ContinueTyped
<1>9. CASE w.op = "rmobj" /\ RowGone(r, p, j.paths \ {p})
  <2>1. j.do = "rows" /\ j.paths \subseteq Path
    BY <1>3, <1>4, <1>9, JobData
  <2>2. LikeAlso = {} => \A q \in j.paths \ {p} : Under(call[r], q)
    BY <1>4, <2>1 DEF Stays
  <2>3. QED BY <1>3, <1>9, <2>1, <2>2, RowGoneTyped
<1>10. QED BY <1>1, <1>2, <1>5, <1>6, <1>7, <1>8, <1>9 DEF Resume

LEMMA ArriveTyped ==
  ASSUME TypeInv, NEW r \in Request, NEW c \in Asked, Arrive(r, c)
  PROVE  TypeInv'
<1>1. c \in Call /\ c \in Job /\ c \in Own(c)
  BY CallAssumption, CallsAreJobs
<1>2. /\ turn' = r /\ status'[r] = "running" /\ call'[r] = c /\ jobs'[r] = <<c>>
      /\ \A q \in Request \ {r} :
           status'[q] = status[q] /\ call'[q] = call[q] /\ jobs'[q] = jobs[q]
      /\ UNCHANGED <<bucket, rows, objects, mirror, await, faulted>>
      /\ turn = Nobody /\ status[r] = "idle" /\ await[r] = NoAwait
  BY DEF Arrive, TypeInv, TypeOK
<1>3. <<c>> \in Seq(Job) /\ <<c>> \in Seq(Own(c)) /\ <<c>> # <<>>
  BY <1>1
<1>4. /\ status' \in [Request -> {"idle", "running", "ok", "failed"}]
      /\ call' \in [Request -> Call \cup {NoCall}]
      /\ jobs' \in [Request -> Seq(Job)]
  BY <1>1, <1>3 DEF Arrive, TypeInv, TypeOK
<1>5. calls' \in 0..MaxCalls
  BY TreeAssumption DEF Arrive, TypeInv, TypeOK
<1>6. TypeOK'
  <2>0. \A q \in Request : status[q] = "running" <=> jobs[q] # <<>>
    BY DEF TypeInv, TypeOK
  <2>1. \A q \in Request : status'[q] = "running" <=> jobs'[q] # <<>>
    BY <1>2, <1>3, <2>0
  <2>2. \A q \in Request : await'[q] # NoAwait => status'[q] = "running" /\ turn' # q
    BY <1>2 DEF TypeInv, TypeOK
  <2>3. QED BY <1>2, <1>4, <1>5, <2>1, <2>2 DEF TypeInv, TypeOK
<1>7. \A q \in Request : status'[q] = "running" =>
        call'[q] \in Call /\ jobs'[q] \in Seq(Own(call'[q]))
  BY <1>1, <1>2, <1>3 DEF TypeInv
<1>8. QED BY <1>2, <1>4, <1>6, <1>7 DEF TypeInv

LEMMA ReplyTyped ==
  ASSUME TypeInv, NEW r \in Request, Reply(r)
  PROVE  TypeInv'
<1>1. /\ status[r] # "running" /\ status'[r] = "idle" /\ call'[r] = NoCall
      /\ \A q \in Request \ {r} : status'[q] = status[q] /\ call'[q] = call[q]
      /\ UNCHANGED <<bucket, rows, objects, mirror, turn, jobs, await, faulted, calls>>
  BY DEF Reply, TypeInv, TypeOK
<1>2. /\ status' \in [Request -> {"idle", "running", "ok", "failed"}]
      /\ call' \in [Request -> Call \cup {NoCall}]
  BY DEF Reply, TypeInv, TypeOK
<1>3. TypeOK'
  BY <1>1, <1>2 DEF TypeInv, TypeOK
<1>4. QED BY <1>1, <1>3 DEF TypeInv

LEMMA WorkTyped ==
  ASSUME TypeInv, NEW r \in Request, Work(r)
  PROVE  TypeInv'
<1>1. UNCHANGED faulted
  BY DEF Work
<1>2. CASE TooLong(r)
  BY <1>1, <1>2, TooLongTyped
<1>3. CASE Write(r)
  BY <1>1, <1>3, WriteTyped
<1>4. CASE AppendFile(r)
  BY <1>1, <1>4, AppendFileTyped
<1>5. CASE Fetch(r)
  BY <1>1, <1>5, FetchTyped
<1>6. CASE Mkdir(r)
  BY <1>1, <1>6, MkdirTyped
<1>7. CASE Symlink(r)
  BY <1>1, <1>7, SymlinkTyped
<1>8. CASE DeleteFile(r)
  BY <1>1, <1>8, DeleteFileTyped
<1>9. CASE Rm(r)
  BY <1>1, <1>9, RmTyped
<1>10. CASE RmSingle(r)
  BY <1>1, <1>10, RmSingleTyped
<1>11. CASE Cp(r)
  BY <1>1, <1>11, CpTyped
<1>12. CASE CpEntry(r)
  BY <1>1, <1>12, CpEntryTyped
<1>13. CASE Mv(r)
  BY <1>1, <1>13, MvTyped
<1>14. QED BY <1>2, <1>3, <1>4, <1>5, <1>6, <1>7, <1>8, <1>9, <1>10, <1>11, <1>12, <1>13 DEF Work

LEMMA TypeInvInit == Init => TypeInv
<1> SUFFICES ASSUME Init PROVE TypeInv
  OBVIOUS
<1>1. <<>> \in Seq(Job)
  OBVIOUS
<1>2. /\ rows \in [Path -> Row \cup {NoRow}] /\ objects \in [Path -> Content \cup {Absent}]
      /\ mirror \subseteq Path /\ bucket \in BOOLEAN
  BY SeedAssumption DEF Init
<1>3. TypeOK
  BY <1>2, TreeAssumption DEF Init, TypeOK
<1>4. QED BY <1>1, <1>3, SeedAssumption DEF Init, TypeInv

LEMMA TypeInvStep == TypeInv /\ [Next]_vars => TypeInv'
<1> SUFFICES ASSUME TypeInv, [Next]_vars PROVE TypeInv'
  OBVIOUS
<1>1. CASE UNCHANGED vars
  BY <1>1 DEF vars, TypeInv, TypeOK
<1>2. ASSUME NEW r \in Request, NEW c \in Asked, Arrive(r, c) PROVE TypeInv'
  BY <1>2, ArriveTyped
<1>3. ASSUME NEW r \in Request, Work(r) PROVE TypeInv'
  BY <1>3, WorkTyped
<1>4. ASSUME NEW r \in Request, R2Lands(r) PROVE TypeInv'
  BY <1>4, R2LandsTyped
<1>5. ASSUME NEW r \in Request, R2Fails(r) PROVE TypeInv'
  BY <1>5, R2FailsTyped
<1>6. ASSUME NEW r \in Request, R2DeleteFails(r) PROVE TypeInv'
  BY <1>6, R2DeleteFailsTyped
<1>7. ASSUME NEW r \in Request, Resume(r) PROVE TypeInv'
  BY <1>7, ResumeTyped
<1>8. ASSUME NEW r \in Request, Reply(r) PROVE TypeInv'
  BY <1>8, ReplyTyped
<1>9. CASE Finished
  BY <1>1, <1>9 DEF Finished
<1>10. QED BY <1>1, <1>2, <1>3, <1>4, <1>5, <1>6, <1>7, <1>8, <1>9 DEF Next

\* Rows stay rows and objects contents; a request runs exactly as long as it has jobs left,
\* and one that awaits R2 has given up the thread: whatever is called and whatever R2 does.
THEOREM TreeTypeCorrect == Spec => []TypeOK
<1>1. TypeInv => TypeOK
  BY DEF TypeInv
<1>2. Spec => []TypeInv
  BY TypeInvInit, TypeInvStep, PTL DEF Spec
<1>3. QED BY <1>1, <1>2, PTL

----------------------------------------------------------------------------
(* Rows, objects and listener agree. Callers keep their calls apart, and   *)
(* names match in LIKE patterns when they are equal: otherwise rm takes    *)
(* rows of another call's subtree from under it.                           *)

\* The object of p is there if its row says so, and if not it is gone, or an R2 call on it
\* has failed, or there is no binding to reach it by.
Matches(p) ==
  /\ InR2(rows, p) => objects[p] # Absent
  /\ objects[p] # Absent => InR2(rows, p) \/ p \in faulted \/ ~bucket

Known(p) == (p \in mirror) <=> Has(rows, p)
Gone(p) == objects[p] = Absent \/ p \in faulted

\* The request waits for an R2 call that changes an object.
Changes(r) == await[r] # NoAwait /\ await[r].op # "get"

\* What is true of the path of that call, from the segment that made it to the one that
\* takes its answer.
AwaitLocal(r) ==
  LET w == await[r]
      p == w.key
  IN
  /\ w.op = "put" => /\ bucket /\ Known(p) /\ (w.existed <=> Has(rows, p)) /\ w.data # Absent
                     /\ (w.landed => objects[p] # Absent) /\ (~w.landed => Matches(p))
  /\ w.op = "drop" => /\ Has(rows, p) /\ ~InR2(rows, p) /\ (w.existed => p \in mirror)
                      /\ (w.landed => Gone(p))
  /\ w.op = "rmobj" => Known(p) /\ (w.landed => Gone(p)) /\ (~w.landed => Matches(p))

TreeInv ==
  /\ TypeInv
  /\ \A r, s \in Request : r # s /\ status[r] # "idle" /\ status[s] # "idle" =>
       \A p \in PathsOf(call[r]), q \in PathsOf(call[s]) : Apart(p, q)
  /\ \A r \in Request : Changes(r) => AwaitLocal(r) /\ Under(call[r], await[r].key)
  /\ \A p \in Path : (Matches(p) /\ Known(p)) \/ \E r \in Request : Changes(r) /\ await[r].key = p

\* p is at or above a path that is the call's own.
Reaches(c, p) == \E q \in Path : Under(c, q) /\ AtOrAbove(p, q)

\* A call does not reach the paths another call waits for.
LEMMA KeysApart ==
  ASSUME TreeInv, NEW r \in Request, NEW s \in Request, r # s,
         status[r] = "running", Changes(s), NEW p \in Path, Reaches(call[r], p)
  PROVE  await[s].key # p
<1> SUFFICES ASSUME await[s].key = p PROVE FALSE
  OBVIOUS
<1>1. status[s] = "running" /\ call[r] \in Call /\ call[s] \in Call /\ Under(call[s], p)
  BY DEF TreeInv, TypeInv, TypeOK, Changes
<1>2. PICK q \in Path : Under(call[r], q) /\ AtOrAbove(p, q)
  BY DEF Reaches
<1>3. PICK a \in PathsOf(call[r]) : AtOrAbove(a, q)
  BY <1>2 DEF Under
<1>4. PICK b \in PathsOf(call[s]) : AtOrAbove(b, p)
  BY <1>1 DEF Under
<1>5. a \in Names /\ b \in Names /\ p \in Names /\ q \in Names
  BY <1>1, <1>3, <1>4, CallsAreJobs, PathIsNames
<1>6. AtOrAbove(b, q)
  BY <1>2, <1>4, <1>5, AboveTransitive
<1>7. AtOrAbove(a, b) \/ AtOrAbove(b, a)
  BY <1>3, <1>5, <1>6, AboveLinear
<1>8. Apart(a, b)
  BY <1>1, <1>3, <1>4 DEF TreeInv
<1>9. QED BY <1>7, <1>8 DEF Apart

\* What a call reaches is settled, unless the call itself waits for it.
LEMMA ReachedSettled ==
  ASSUME TreeInv, NEW r \in Request, status[r] = "running", NEW p \in Path, Reaches(call[r], p),
         ~(Changes(r) /\ await[r].key = p)
  PROVE  Matches(p) /\ Known(p)
BY KeysApart DEF TreeInv

Same(p) ==
  /\ rows'[p] = rows[p] /\ objects'[p] = objects[p]
  /\ (p \in mirror' <=> p \in mirror) /\ (p \in faulted' <=> p \in faulted)

\* A step of r that changes what r reaches and settles it, or leaves it to the R2 call that
\* r then waits for.
LEMMA StepKeepsTree ==
  ASSUME TreeInv, TypeInv', NEW r \in Request, status[r] = "running",
         \A s \in Request : call'[s] = call[s] /\ (status'[s] = "idle" <=> status[s] = "idle"),
         \A s \in Request \ {r} : await'[s] = await[s],
         bucket' = bucket,
         Changes(r)' => AwaitLocal(r)' /\ Under(call[r], await'[r].key),
         \A p \in Path :
           \/ Same(p) /\ ~(Changes(r) /\ await[r].key = p)
           \/ Reaches(call[r], p) /\ Matches(p)' /\ Known(p)'
           \/ Reaches(call[r], p) /\ Changes(r)' /\ await'[r].key = p
  PROVE  TreeInv'
<1>1. ASSUME NEW s \in Request, s # r, Changes(s)'
      PROVE  AwaitLocal(s)' /\ Under(call'[s], await'[s].key)
  <2>1. await'[s] = await[s] /\ call'[s] = call[s] /\ Changes(s)
    BY <1>1 DEF Changes
  <2>2. AwaitLocal(s) /\ Under(call[s], await[s].key)
    BY <2>1 DEF TreeInv
  <2>3. PICK w \in Await : w = await[s]
    BY <2>1 DEF Changes, TreeInv, TypeInv
  <2>4. PICK p \in Path : p = w.key
    BY DEF Await
  <2>5. Same(p)
    BY <1>1, <2>1, <2>3, <2>4, KeysApart
  <2>6. AwaitLocal(s)'
    BY <2>1, <2>2, <2>3, <2>4, <2>5
       DEF AwaitLocal, Same, Known, Matches, Gone, Has, InR2
  <2>7. QED BY <2>1, <2>2, <2>6
<1>2. \A s \in Request : Changes(s)' => AwaitLocal(s)' /\ Under(call'[s], await'[s].key)
  BY <1>1
<1>3. ASSUME NEW p \in Path
      PROVE  (Matches(p)' /\ Known(p)') \/ \E s \in Request : Changes(s)' /\ await'[s].key = p
  <2>1. CASE Same(p) /\ ~(Changes(r) /\ await[r].key = p)
    <3>1. CASE Matches(p) /\ Known(p)
      BY <2>1, <3>1 DEF Same, Known, Matches, Has, InR2
    <3>2. CASE \E s \in Request : Changes(s) /\ await[s].key = p
      <4>1. PICK s \in Request \ {r} : Changes(s) /\ await[s].key = p
        BY <2>1, <3>2
      <4>2. Changes(s)' /\ await'[s].key = p
        BY <4>1 DEF Changes
      <4>3. QED BY <4>2
    <3>3. QED BY <3>1, <3>2 DEF TreeInv
  <2>2. QED BY <2>1
<1>4. \A s, u \in Request : s # u /\ status'[s] # "idle" /\ status'[u] # "idle" =>
        \A p \in PathsOf(call'[s]), q \in PathsOf(call'[u]) : Apart(p, q)
  BY DEF TreeInv
<1>5. QED BY <1>2, <1>3, <1>4 DEF TreeInv

\* A segment that ends in Continue or Stop.
LEMMA EndKeepsTree ==
  ASSUME TreeInv, TypeInv', NEW r \in Request, status[r] = "running",
         Stop(r) \/ \E js : Continue(r, js),
         \A p \in Path :
           \/ Same(p) /\ ~(Changes(r) /\ await[r].key = p)
           \/ Reaches(call[r], p) /\ Matches(p)' /\ Known(p)'
  PROVE  TreeInv'
<1>1. /\ \A s \in Request : call'[s] = call[s] /\ (status'[s] = "idle" <=> status[s] = "idle")
      /\ \A s \in Request \ {r} : await'[s] = await[s]
      /\ bucket' = bucket /\ await'[r] = NoAwait
  BY DEF Stop, Continue, TreeInv, TypeInv, TypeOK
<1>2. ~Changes(r)'
  BY <1>1 DEF Changes
<1>3. QED BY <1>1, <1>2, StepKeepsTree

\* A segment that ends in an R2 call.
LEMMA WaitKeepsTree ==
  ASSUME TreeInv, TypeInv', NEW r \in Request, status[r] = "running", await[r] = NoAwait,
         NEW w \in Await, Wait(r, w),
         w.op # "get" => AwaitLocal(r)' /\ Under(call[r], w.key),
         \A p \in Path :
           \/ Same(p)
           \/ Reaches(call[r], p) /\ Matches(p)' /\ Known(p)'
           \/ Reaches(call[r], p) /\ w.op # "get" /\ w.key = p
  PROVE  TreeInv'
<1>1. /\ \A s \in Request : call'[s] = call[s] /\ (status'[s] = "idle" <=> status[s] = "idle")
      /\ \A s \in Request \ {r} : await'[s] = await[s]
      /\ bucket' = bucket /\ await'[r] = w
  BY DEF Wait, TreeInv, TypeInv, TypeOK
<1>2. Changes(r)' <=> w.op # "get"
  BY <1>1, AwaitAssumption DEF Changes
<1>3. ~Changes(r)
  BY DEF Changes
<1>4. QED BY <1>1, <1>2, <1>3, StepKeepsTree

LEMMA NoChangeEnd ==
  ASSUME TreeInv, TypeInv', NEW r \in Request, status[r] = "running", ~Changes(r),
         Stop(r) \/ \E js : Continue(r, js), NoChange, UNCHANGED faulted
  PROVE  TreeInv'
<1>1. \A p \in Path : Same(p)
  BY DEF NoChange, Same
<1>2. QED BY <1>1, EndKeepsTree

\* A job reaches its paths and the directories above them.
LEMMA DirsReached ==
  ASSUME NEW c \in Call, NEW p \in Path, Under(c, p)
  PROVE  /\ Reaches(c, p) /\ p \notin DirsAbove(p)
         /\ \A d \in DirsAbove(p) : d \in Path /\ Reaches(c, d)
<1>1. AtOrAbove(p, p)
  BY DEF AtOrAbove
<1>2. QED BY <1>1, DirsArePaths DEF Reaches

\* The directories a call makes on its way were no rows and are known now; the others stay.
LEMMA DirsSettled ==
  ASSUME TreeInv, NEW r \in Request, status[r] = "running", await[r] = NoAwait,
         NEW S \in SUBSET Path, \A d \in S : Reaches(call[r], d), NEW p \in Path,
         rows'[p] = WithDirs(rows, S)[p], p \in mirror' <=> p \in mirror \cup New(S),
         objects'[p] = objects[p], faulted' = faulted, bucket' = bucket
  PROVE  Same(p) \/ (Reaches(call[r], p) /\ Matches(p)' /\ Known(p)')
<1>0. WithDirs(rows, S)[p] = IF p \in S /\ rows[p] = NoRow THEN DirRow ELSE rows[p]
  <2>1. rows \in Table
    BY DEF TreeInv, TypeInv, TypeOK, Table
  <2>2. QED BY <2>1, WithDirsTyped
<1>1. CASE p \in S /\ rows[p] = NoRow
  <2>1. rows'[p] = DirRow /\ p \in mirror'
    BY <1>0, <1>1 DEF New
  <2>2. Matches(p) /\ Known(p) /\ Reaches(call[r], p)
    BY <1>1, ReachedSettled DEF Changes
  <2>3. DirRow # NoRow /\ DirRow.storage = "inline"
    BY RowsAreRows, SeedAssumption DEF DirRow
  <2>4. Known(p)' /\ ~InR2(rows', p)
    BY <2>1, <2>3 DEF Known, Has, InR2
  <2>5. objects[p] = Absent \/ p \in faulted \/ ~bucket
    BY <1>1, <2>2 DEF Matches, InR2, Has
  <2>6. QED BY <2>2, <2>4, <2>5 DEF Matches
<1>2. CASE ~(p \in S /\ rows[p] = NoRow)
  BY <1>0, <1>2 DEF Same, New, InR2, Has
<1>3. QED BY <1>1, <1>2

LEMMA WriteKeepsTree ==
  ASSUME LikeAlso = {}, TreeInv, TypeInv', NEW r \in Request, Write(r), UNCHANGED faulted
  PROVE  TreeInv'
<1>1. PICK j : j = Head(jobs[r])
  OBVIOUS
<1>2. TypeInv
  BY DEF TreeInv
<1>3. /\ Runs(r, "write") /\ status[r] = "running" /\ await[r] = NoAwait /\ ~Changes(r)
      /\ call[r] \in Call /\ j.dst \in Path /\ j.data \in Content /\ Under(call[r], j.dst)
  BY <1>1, <1>2, Running, JobData DEF Write, Stays, Changes
<1>4. PICK p \in Path : p = j.dst
  BY <1>3
<1>5. PICK D \in SUBSET Path : D = DirsAbove(p)
  BY <1>4, DirsArePaths
<1>6. PICK t \in Table : t = WithDirs(rows, D)
  BY <1>2, WithDirsTyped DEF TypeInv, TypeOK, Table
<1>7. p \notin D /\ Under(call[r], p) /\ Reaches(call[r], p) /\ \A d \in D : Reaches(call[r], d)
  BY <1>3, <1>4, <1>5, DirsReached
<1>8. t[p] = rows[p] /\ Matches(p) /\ Known(p) /\ (Has(t, p) <=> Has(rows, p))
  <2>1. rows \in Table
    BY <1>2 DEF TypeInv, TypeOK, Table
  <2>2. t[p] = rows[p]
    BY <1>6, <1>7, <2>1, WithDirsTyped
  <2>3. QED BY <1>3, <1>7, <2>2, ReachedSettled DEF Has
<1>9. ASSUME NEW q \in Path, rows'[q] = t[q], q \in mirror' <=> q \in mirror \cup New(D),
             UNCHANGED objects
      PROVE  Same(q) \/ (Reaches(call[r], q) /\ Matches(q)' /\ Known(q)')
  <2>1. bucket' = bucket
    BY DEF Write, Stop, Continue, Wait
  <2>2. QED BY <1>3, <1>6, <1>7, <1>9, <2>1, DirsSettled
<1>10. bucket' = bucket
  BY DEF Write, Stop, Continue, Wait
<1>11. CASE Stop(r) /\ NoChange
  BY <1>3, <1>11, NoChangeEnd
<1>12. CASE Stop(r) /\ rows' = t /\ mirror' = mirror \cup New(D) /\ UNCHANGED objects
  BY <1>3, <1>9, <1>12, EndKeepsTree
<1>13. CASE /\ rows' = t /\ mirror' = mirror \cup New(D) /\ UNCHANGED objects /\ bucket
            /\ Wait(r, AwaitOf("put", p, j.data, Has(t, p)))
  <2>0. AwaitOf("put", p, j.data, Has(t, p)) \in Await
    BY <1>3 DEF AwaitOf, Await, Has
  <2>1. PICK w \in Await : w = AwaitOf("put", p, j.data, Has(t, p))
    BY <2>0
  <2>2. w.op = "put" /\ w.key = p /\ w.data = j.data /\ w.existed = Has(t, p) /\ w.landed = FALSE
    BY <2>1 DEF AwaitOf
  <2>3. await'[r] = w /\ bucket' = bucket
    BY <1>13, <2>1 DEF Wait, TypeInv
  <2>4. rows'[p] = rows[p] /\ (p \in mirror' <=> p \in mirror) /\ objects'[p] = objects[p]
    BY <1>7, <1>8, <1>13 DEF New
  <2>5. Known(p)' /\ Matches(p)' /\ (w.existed <=> Has(rows', p)) /\ w.data # Absent
    BY <1>3, <1>8, <1>10, <2>2, <2>4, SeedAssumption DEF Known, Matches, Has, InR2
  <2>6. AwaitLocal(r)'
    BY <1>13, <2>2, <2>3, <2>5 DEF AwaitLocal
  <2>7. \A q \in Path : Same(q) \/ (Reaches(call[r], q) /\ Matches(q)' /\ Known(q)')
    BY <1>9, <1>13
  <2>8. QED BY <1>3, <1>7, <1>13, <2>1, <2>2, <2>6, <2>7, WaitKeepsTree
<1>14. ASSUME rows' = Upsert(t, p, "inline", j.data)
       PROVE  /\ Has(rows', p) /\ ~InR2(rows', p)
              /\ \A q \in Path \ {p} : rows'[q] = t[q]
  BY <1>3, <1>14, UpsertTyped, SeedAssumption DEF Has, InR2
<1>15. CASE /\ rows' = Upsert(t, p, "inline", j.data) /\ mirror' = mirror \cup New(D)
            /\ UNCHANGED objects /\ bucket /\ Wait(r, AwaitOf("drop", p, {}, Has(t, p)))
  <2>0. AwaitOf("drop", p, {}, Has(t, p)) \in Await
    BY DEF AwaitOf, Await, Has, Content
  <2>1. PICK w \in Await : w = AwaitOf("drop", p, {}, Has(t, p))
    BY <2>0
  <2>2. w.op = "drop" /\ w.key = p /\ w.existed = Has(t, p) /\ w.landed = FALSE
    BY <2>1 DEF AwaitOf
  <2>3. await'[r] = w
    BY <1>2, <1>15, <2>1 DEF Wait, TypeInv
  <2>4. w.existed => p \in mirror'
    BY <1>8, <1>15, <2>2 DEF Known
  <2>5. AwaitLocal(r)'
    BY <1>14, <1>15, <2>2, <2>3, <2>4 DEF AwaitLocal
  <2>6. \A q \in Path \ {p} : Same(q) \/ (Reaches(call[r], q) /\ Matches(q)' /\ Known(q)')
    BY <1>9, <1>14, <1>15
  <2>7. QED BY <1>3, <1>7, <1>15, <2>1, <2>2, <2>5, <2>6, WaitKeepsTree
<1>16. CASE /\ rows' = Upsert(t, p, "inline", j.data) /\ mirror' = mirror \cup New(D) \cup New({p})
            /\ UNCHANGED objects /\ ~bucket /\ Continue(r, Rest(r))
  <2>1. \A q \in Path \ {p} : Same(q) \/ (Reaches(call[r], q) /\ Matches(q)' /\ Known(q)')
    BY <1>9, <1>14, <1>16 DEF New
  <2>2. p \in mirror'
    BY <1>8, <1>16 DEF Known, Has, New
  <2>3. Known(p)' /\ Matches(p)'
    BY <1>8, <1>10, <1>14, <1>16, <2>2 DEF Known, Matches
  <2>4. QED BY <1>3, <1>7, <1>16, <2>1, <2>3, EndKeepsTree
<1>. HIDE <1>3, <1>7, <1>8, <1>9
<1>17. QED BY <1>1, <1>4, <1>5, <1>6, <1>11, <1>12, <1>13, <1>15, <1>16 DEF Write

LEMMA MkdirKeepsTree ==
  ASSUME LikeAlso = {}, TreeInv, TypeInv', NEW r \in Request, Mkdir(r), UNCHANGED faulted
  PROVE  TreeInv'
<1>1. PICK j : j = Head(jobs[r])
  OBVIOUS
<1>2. TypeInv
  BY DEF TreeInv
<1>3. /\ status[r] = "running" /\ await[r] = NoAwait /\ ~Changes(r)
      /\ call[r] \in Call /\ j.dst \in Path /\ Under(call[r], j.dst)
  BY <1>1, <1>2, Running, JobData DEF Mkdir, Stays, Changes
<1>4. PICK S \in SUBSET Path :
        S = IF j.do = "mkdir_p" THEN DirsAbove(j.dst) \cup {j.dst} ELSE {j.dst}
  BY <1>3, DirsArePaths
<1>5. \A d \in S : Reaches(call[r], d)
  BY <1>3, <1>4, DirsReached
<1>6. CASE (Continue(r, Rest(r)) \/ Stop(r)) /\ NoChange
  BY <1>3, <1>6, NoChangeEnd
<1>7. CASE /\ rows' = WithDirs(rows, S) /\ mirror' = mirror \cup New(S) /\ UNCHANGED objects
           /\ Continue(r, Rest(r))
  <2>1. bucket' = bucket
    BY <1>7 DEF Continue
  <2>2. \A q \in Path : Same(q) \/ (Reaches(call[r], q) /\ Matches(q)' /\ Known(q)')
    BY <1>3, <1>5, <1>7, <2>1, DirsSettled
  <2>3. QED BY <1>3, <1>7, <2>2, EndKeepsTree
<1>8. QED BY <1>1, <1>4, <1>6, <1>7 DEF Mkdir

LEMMA SymlinkKeepsTree ==
  ASSUME LikeAlso = {}, TreeInv, TypeInv', NEW r \in Request, Symlink(r), UNCHANGED faulted
  PROVE  TreeInv'
<1>1. PICK j : j = Head(jobs[r])
  OBVIOUS
<1>2. TypeInv
  BY DEF TreeInv
<1>3. /\ status[r] = "running" /\ await[r] = NoAwait /\ ~Changes(r) /\ call[r] \in Call
      /\ j.dst \in Path /\ j.target \in Target \cup {NoTarget} /\ Under(call[r], j.dst)
  BY <1>1, <1>2, Running, JobData DEF Symlink, Stays, Changes
<1>4. PICK p \in Path : p = j.dst
  BY <1>3
<1>5. PICK D \in SUBSET Path : D = DirsAbove(p)
  BY <1>4, DirsArePaths
<1>6. PICK t \in Table : t = WithDirs(rows, D)
  BY <1>2, WithDirsTyped DEF TypeInv, TypeOK, Table
<1>7. p \notin D /\ Reaches(call[r], p) /\ \A d \in D : Reaches(call[r], d)
  BY <1>3, <1>4, <1>5, DirsReached
<1>8. t[p] = rows[p] /\ Matches(p) /\ Known(p)
  <2>1. rows \in Table
    BY <1>2 DEF TypeInv, TypeOK, Table
  <2>2. t[p] = rows[p]
    BY <1>6, <1>7, <2>1, WithDirsTyped
  <2>3. QED BY <1>3, <1>7, <2>2, ReachedSettled
<1>0. CASE Stop(r) /\ NoChange
  BY <1>0, <1>3, NoChangeEnd
<1> SUFFICES ASSUME ~(Stop(r) /\ NoChange) PROVE TreeInv'
  BY <1>0
<1>9. /\ rows' = UpsertLink(t, p, j.target) /\ mirror' = mirror \cup New(D) \cup {p}
      /\ UNCHANGED objects /\ Continue(r, Rest(r)) /\ bucket' = bucket
  BY <1>1, <1>4, <1>5, <1>6 DEF Symlink, Continue
<1>10. /\ \A q \in Path \ {p} : rows'[q] = t[q]
       /\ rows'[p] # NoRow /\ rows'[p].storage = IF Has(t, p) THEN t[p].storage ELSE "inline"
  BY <1>3, <1>9, UpsertLinkTyped, SeedAssumption
<1>11. \A q \in Path \ {p} : Same(q) \/ (Reaches(call[r], q) /\ Matches(q)' /\ Known(q)')
  <2>1. ASSUME NEW q \in Path \ {p}
        PROVE  rows'[q] = WithDirs(rows, D)[q] /\ (q \in mirror' <=> q \in mirror \cup New(D))
    BY <1>6, <1>9, <1>10
  <2>2. QED BY <1>3, <1>7, <1>9, <2>1, DirsSettled
<1>12. Has(rows', p) /\ (InR2(rows', p) <=> InR2(rows, p))
  BY <1>8, <1>10 DEF Has, InR2
<1>13. Known(p)' /\ Matches(p)'
  BY <1>8, <1>9, <1>12 DEF Known, Matches
<1>14. QED BY <1>3, <1>7, <1>9, <1>11, <1>13, EndKeepsTree

LEMMA CpKeepsTree ==
  ASSUME LikeAlso = {}, TreeInv, TypeInv', NEW r \in Request, Cp(r), UNCHANGED faulted
  PROVE  TreeInv'
<1>1. PICK j : j = Head(jobs[r])
  OBVIOUS
<1>2. TypeInv
  BY DEF TreeInv
<1>3. /\ status[r] = "running" /\ await[r] = NoAwait /\ ~Changes(r)
      /\ call[r] \in Call /\ j.dst \in Path /\ Under(call[r], j.dst)
  BY <1>1, <1>2, Running, JobData DEF Cp, Stays, Changes
<1>4. PICK S \in SUBSET Path : S = DirsAbove(j.dst) \cup ({j.dst} \ {Root})
  BY <1>3, DirsArePaths
<1>5. \A d \in S : Reaches(call[r], d)
  BY <1>3, <1>4, DirsReached
<1>6. CASE (Stop(r) \/ \E js : Continue(r, js)) /\ NoChange
  BY <1>3, <1>6, NoChangeEnd
<1>7. CASE /\ rows' = WithDirs(rows, S) /\ mirror' = mirror \cup New(S) /\ UNCHANGED objects
           /\ \E js : Continue(r, js)
  <2>1. bucket' = bucket
    BY <1>7 DEF Continue
  <2>2. \A q \in Path : Same(q) \/ (Reaches(call[r], q) /\ Matches(q)' /\ Known(q)')
    BY <1>3, <1>5, <1>7, <2>1, DirsSettled
  <2>3. QED BY <1>3, <1>7, <2>2, EndKeepsTree
<1>8. QED BY <1>1, <1>4, <1>6, <1>7 DEF Cp

\* The jobs that only ask for others.
LEMMA PlanKeepsTree ==
  ASSUME TreeInv, TypeInv', NEW r \in Request, UNCHANGED faulted,
         TooLong(r) \/ AppendFile(r) \/ DeleteFile(r) \/ Rm(r) \/ CpEntry(r) \/ Mv(r)
  PROVE  TreeInv'
<1>1. TypeInv
  BY DEF TreeInv
<1>2. status[r] = "running" /\ ~Changes(r)
  BY <1>1, Running DEF TooLong, AppendFile, DeleteFile, Rm, CpEntry, Mv, Changes
<1>3. (Stop(r) \/ \E js : Continue(r, js)) /\ NoChange
  BY DEF TooLong, AppendFile, DeleteFile, Rm, CpEntry, Mv
<1>4. QED BY <1>2, <1>3, NoChangeEnd

LEMMA FetchKeepsTree ==
  ASSUME TreeInv, TypeInv', NEW r \in Request, Fetch(r), UNCHANGED faulted
  PROVE  TreeInv'
<1>1. PICK q : q = Resolve(rows, Head(jobs[r]).src)
  OBVIOUS
<1>2. TypeInv
  BY DEF TreeInv
<1>3. status[r] = "running" /\ await[r] = NoAwait /\ ~Changes(r)
  BY <1>2, Running DEF Fetch, Changes
<1>4. NoChange
  BY DEF Fetch
<1>5. CASE Stop(r) \/ \E js : Continue(r, js)
  BY <1>3, <1>4, <1>5, NoChangeEnd
<1>6. CASE InR2(rows, q) /\ Wait(r, AwaitOf("get", q, {}, FALSE))
  <2>1. AwaitOf("get", q, {}, FALSE) \in Await
    BY <1>6 DEF InR2, Has, Content, AwaitOf, Await
  <2>2. PICK w \in Await : w = AwaitOf("get", q, {}, FALSE)
    BY <2>1
  <2>3. w.op = "get"
    BY <2>2 DEF AwaitOf
  <2>4. \A p \in Path : Same(p)
    BY <1>4 DEF NoChange, Same
  <2>5. QED BY <1>3, <1>6, <2>2, <2>3, <2>4, WaitKeepsTree
<1>7. QED BY <1>1, <1>5, <1>6 DEF Fetch

\* The row of p goes when no object of it is left behind, or none can be reached.
LEMMA RowGoneKeepsTree ==
  ASSUME TreeInv, TypeInv', NEW r \in Request, status[r] = "running",
         NEW p \in Path, NEW left, RowGone(r, p, left), UNCHANGED faulted,
         Reaches(call[r], p), Gone(p) \/ ~bucket, Changes(r) => await[r].key = p
  PROVE  TreeInv'
<1>1. /\ rows' = [rows EXCEPT ![p] = NoRow] /\ mirror' = mirror \ {p} /\ UNCHANGED objects
      /\ \E js : Continue(r, js)
      /\ bucket' = bucket
  BY DEF RowGone, Continue
<1>2. /\ rows'[p] = NoRow /\ p \notin mirror'
      /\ \A q \in Path \ {p} : rows'[q] = rows[q] /\ (q \in mirror' <=> q \in mirror)
  BY <1>1 DEF TreeInv, TypeInv, TypeOK
<1>3. \A q \in Path \ {p} : Same(q) /\ (InR2(rows', q) <=> InR2(rows, q))
  BY <1>1, <1>2 DEF Same, InR2, Has
<1>4. Matches(p)' /\ Known(p)' /\ ~InR2(rows', p)
  BY <1>1, <1>2 DEF Matches, Known, Gone, InR2, Has
<1>5. QED BY <1>1, <1>3, <1>4, EndKeepsTree

LEMMA RmSingleKeepsTree ==
  ASSUME LikeAlso = {}, TreeInv, TypeInv', NEW r \in Request, RmSingle(r), UNCHANGED faulted
  PROVE  TreeInv'
<1>1. PICK j : j = Head(jobs[r])
  OBVIOUS
<1>2. TypeInv
  BY DEF TreeInv
<1>3. /\ status[r] = "running" /\ await[r] = NoAwait /\ ~Changes(r) /\ call[r] \in Call
      /\ j.paths \subseteq Path /\ \A q \in j.paths : Under(call[r], q)
  BY <1>1, <1>2, Running, JobData DEF RmSingle, Stays, Changes
<1>4. PICK p \in Path :
        /\ Under(call[r], p)
        /\ \/ bucket /\ InR2(rows, p) /\ Wait(r, AwaitOf("rmobj", p, {}, FALSE)) /\ NoChange
           \/ ~(bucket /\ InR2(rows, p)) /\ RowGone(r, p, j.paths \ {p})
  BY <1>1, <1>3 DEF RmSingle
<1>5. Reaches(call[r], p) /\ Matches(p) /\ Known(p)
  BY <1>3, <1>4, DirsReached, ReachedSettled
<1>6. CASE bucket /\ Wait(r, AwaitOf("rmobj", p, {}, FALSE)) /\ NoChange
  <2>1. AwaitOf("rmobj", p, {}, FALSE) \in Await
    BY DEF Content, AwaitOf, Await
  <2>2. PICK w \in Await : w = AwaitOf("rmobj", p, {}, FALSE)
    BY <2>1
  <2>3. w.op = "rmobj" /\ w.key = p /\ w.landed = FALSE
    BY <2>2 DEF AwaitOf
  <2>4. await'[r] = w
    BY <1>2, <1>6, <2>2 DEF Wait, TypeInv
  <2>5. \A q \in Path : Same(q)
    BY <1>6 DEF NoChange, Same
  <2>6. Known(p)' /\ Matches(p)'
    BY <1>5, <1>6 DEF NoChange, Known, Matches, Wait
  <2>7. AwaitLocal(r)'
    BY <2>3, <2>4, <2>6 DEF AwaitLocal
  <2>8. QED BY <1>3, <1>4, <1>6, <2>2, <2>3, <2>5, <2>7, WaitKeepsTree
<1>7. CASE ~(bucket /\ InR2(rows, p)) /\ RowGone(r, p, j.paths \ {p})
  <2>1. Gone(p) \/ ~bucket
    BY <1>5, <1>7 DEF Matches, Gone
  <2>2. QED BY <1>3, <1>5, <1>7, <2>1, RowGoneKeepsTree
<1>8. QED BY <1>4, <1>6, <1>7

LEMMA WorkKeepsTree ==
  ASSUME LikeAlso = {}, TreeInv, TypeInv', NEW r \in Request, Work(r)
  PROVE  TreeInv'
<1>1. UNCHANGED faulted
  BY DEF Work
<1>2. CASE TooLong(r) \/ AppendFile(r) \/ DeleteFile(r) \/ Rm(r) \/ CpEntry(r) \/ Mv(r)
  BY <1>1, <1>2, PlanKeepsTree
<1>3. CASE Write(r)
  BY <1>1, <1>3, WriteKeepsTree
<1>4. CASE Fetch(r)
  BY <1>1, <1>4, FetchKeepsTree
<1>5. CASE Mkdir(r)
  BY <1>1, <1>5, MkdirKeepsTree
<1>6. CASE Symlink(r)
  BY <1>1, <1>6, SymlinkKeepsTree
<1>7. CASE RmSingle(r)
  BY <1>1, <1>7, RmSingleKeepsTree
<1>8. CASE Cp(r)
  BY <1>1, <1>8, CpKeepsTree
<1>9. QED BY <1>2, <1>3, <1>4, <1>5, <1>6, <1>7, <1>8 DEF Work

\* A request that awaits R2: its call reaches the path it waits for.
LEMMA Waiting ==
  ASSUME TreeInv, NEW r \in Request, await[r] # NoAwait
  PROVE  /\ await[r] \in Await /\ await[r].key \in Path /\ status[r] = "running"
         /\ call[r] \in Call
         /\ await[r].op # "get" => /\ Changes(r) /\ AwaitLocal(r)
                                   /\ Under(call[r], await[r].key)
                                   /\ Reaches(call[r], await[r].key)
<1>1. await[r] \in Await /\ status[r] = "running" /\ call[r] \in Call
  BY DEF TreeInv, TypeInv, TypeOK
<1>2. await[r].key \in Path
  BY <1>1 DEF Await
<1>3. await[r].op # "get" => Changes(r) /\ AwaitLocal(r) /\ Under(call[r], await[r].key)
  BY DEF Changes, TreeInv
<1>4. QED BY <1>1, <1>2, <1>3, DirsReached

LEMMA R2LandsAwaits ==
  ASSUME TypeInv, NEW r \in Request, R2Lands(r)
  PROVE  await'[r] \in Await /\ await'[r] # NoAwait
<1>1. PICK w \in Await : w = await[r]
  BY DEF TypeInv, R2Lands
<1>2. PICK d \in Content \cup {Absent} : d = IF w.op = "get" THEN objects[w.key] ELSE w.data
  BY DEF Await, TypeInv, TypeOK
<1>3. [w EXCEPT !.landed = TRUE, !.data = d] \in Await
  BY DEF Await
<1>4. await'[r] = [w EXCEPT !.landed = TRUE, !.data = d]
  BY <1>1, <1>2 DEF R2Lands, TypeInv
<1>5. QED BY <1>3, <1>4, AwaitAssumption

LEMMA R2LandsKeepsTree ==
  ASSUME TreeInv, TypeInv', NEW r \in Request, R2Lands(r)
  PROVE  TreeInv'
<1>1. PICK w \in Await : w = await[r]
  BY Waiting DEF R2Lands
<1>2. PICK p \in Path : p = w.key
  BY DEF Await
<1>3. PICK x : x = await'[r]
  OBVIOUS
<1>4. /\ w # NoAwait /\ w.landed = FALSE /\ status[r] = "running"
      /\ x.op = w.op /\ x.key = p /\ x.existed = w.existed /\ x.landed = TRUE
      /\ w.op # "get" => x.data = w.data
      /\ \A s \in Request \ {r} : await'[s] = await[s]
      /\ UNCHANGED <<bucket, rows, mirror, status, call, faulted>>
  <2>1. await \in [Request -> Await \cup {NoAwait}]
    BY DEF TreeInv, TypeInv
  <2>2. await[r] # NoAwait /\ status[r] = "running" /\ w.landed \in BOOLEAN
    BY Waiting DEF R2Lands, Await
  <2>3. PICK d : d = IF w.op = "get" THEN objects[w.key] ELSE w.data
    OBVIOUS
  <2>4. await' = [await EXCEPT ![r] = [w EXCEPT !.landed = TRUE, !.data = d]]
    BY <1>1, <2>3 DEF R2Lands
  <2>5. x = [w EXCEPT !.landed = TRUE, !.data = d]
    BY <1>3, <2>1, <2>4
  <2>6. QED BY <1>1, <1>2, <2>1, <2>2, <2>3, <2>4, <2>5 DEF R2Lands, Await
<1>5. PICK o : /\ objects' = [objects EXCEPT ![p] = o]
               /\ w.op = "get" => o = objects[p]
               /\ w.op = "put" => o = w.data
               /\ w.op \in {"drop", "rmobj"} => o = Absent
  <2>1. CASE w.op = "get"
    BY <1>1, <1>2, <2>1 DEF R2Lands
  <2>2. CASE w.op = "put"
    BY <1>1, <1>2, <2>2 DEF R2Lands
  <2>3. CASE w.op \in {"drop", "rmobj"}
    BY <1>1, <1>2, <2>3 DEF R2Lands
  <2>4. QED BY <2>1, <2>2, <2>3 DEF Await
<1>6. objects'[p] = o /\ \A q \in Path \ {p} : objects'[q] = objects[q]
  BY <1>5 DEF TreeInv, TypeInv, TypeOK
<1>7. x # NoAwait
  BY <1>3, R2LandsAwaits DEF TreeInv
<1>8. \A q \in Path \ {p} : Same(q)
  BY <1>4, <1>6 DEF Same
<1>10. CASE w.op = "get"
  <2>1. Same(p)
    BY <1>4, <1>5, <1>6, <1>10 DEF Same
  <2>2. ~Changes(r) /\ ~Changes(r)'
    BY <1>1, <1>3, <1>4, <1>10 DEF Changes
  <2>3. QED BY <1>4, <1>8, <2>1, <2>2, StepKeepsTree
<1>11. CASE w.op # "get"
  <2>1. AwaitLocal(r) /\ Under(call[r], p) /\ Reaches(call[r], p) /\ Changes(r)
    BY <1>1, <1>2, <1>4, <1>11, Waiting
  <2>2. AwaitLocal(r)'
    BY <1>1, <1>2, <1>3, <1>4, <1>5, <1>6, <2>1 DEF AwaitLocal, Known, Gone
  <2>3. Changes(r)'
    BY <1>3, <1>4, <1>7, <1>11 DEF Changes
  <2>4. QED BY <1>1, <1>2, <1>3, <1>4, <1>8, <2>1, <2>2, <2>3, StepKeepsTree
<1>12. QED BY <1>10, <1>11

LEMMA R2FailsKeepsTree ==
  ASSUME TreeInv, TypeInv', NEW r \in Request, R2Fails(r)
  PROVE  TreeInv'
<1>1. PICK w \in Await : w = await[r]
  BY Waiting DEF R2Fails
<1>2. PICK p \in Path : p = w.key
  BY DEF Await
<1>3. /\ w # NoAwait /\ w.landed = FALSE /\ status[r] = "running" /\ Stop(r)
      /\ UNCHANGED <<rows, mirror>>
  BY <1>1, Waiting DEF R2Fails, Await
<1>4. bucket' = bucket
  BY <1>3 DEF Stop
<1>5. CASE w.op = "get" /\ UNCHANGED <<objects, faulted>>
  <2>1. \A q \in Path : Same(q)
    BY <1>3, <1>5 DEF Same
  <2>2. ~Changes(r)
    BY <1>1, <1>5 DEF Changes
  <2>3. QED BY <1>3, <2>1, <2>2, EndKeepsTree
<1>6. CASE /\ w.op = "put" /\ objects' \in {objects, [objects EXCEPT ![p] = w.data]}
           /\ faulted' = faulted \cup {p}
  <2>1. AwaitLocal(r) /\ Reaches(call[r], p) /\ Changes(r)
    BY <1>1, <1>2, <1>3, <1>6, Waiting
  <2>2. Known(p) /\ Matches(p) /\ w.data # Absent
    BY <1>1, <1>2, <1>3, <1>6, <2>1 DEF AwaitLocal
  <2>3. /\ objects'[p] \in {objects[p], w.data}
        /\ \A q \in Path \ {p} : objects'[q] = objects[q]
    BY <1>6 DEF TreeInv, TypeInv, TypeOK
  <2>4. \A q \in Path \ {p} : Same(q)
    BY <1>3, <1>6, <2>3 DEF Same
  <2>5. Known(p)' /\ Matches(p)'
    BY <1>3, <1>4, <1>6, <2>2, <2>3 DEF Known, Matches
  <2>6. QED BY <1>1, <1>2, <1>3, <2>1, <2>4, <2>5, EndKeepsTree
<1>7. QED BY <1>1, <1>2, <1>5, <1>6 DEF R2Fails

LEMMA R2DeleteFailsKeepsTree ==
  ASSUME TreeInv, TypeInv', NEW r \in Request, R2DeleteFails(r)
  PROVE  TreeInv'
<1>1. PICK w \in Await : w = await[r]
  BY Waiting DEF R2DeleteFails
<1>2. PICK p \in Path : p = w.key
  BY DEF Await
<1>3. PICK x \in Await : x = [w EXCEPT !.landed = TRUE]
  BY DEF Await
<1>4. /\ w # NoAwait /\ w.landed = FALSE /\ status[r] = "running" /\ w.op \in {"drop", "rmobj"}
      /\ x.op = w.op /\ x.key = p /\ x.existed = w.existed /\ x.landed = TRUE
      /\ await'[r] = x /\ \A s \in Request \ {r} : await'[s] = await[s]
      /\ faulted' = faulted \cup {p}
      /\ UNCHANGED <<bucket, rows, objects, mirror, status, call>>
  <2>1. await \in [Request -> Await \cup {NoAwait}]
    BY DEF TreeInv, TypeInv
  <2>2. await' = [await EXCEPT ![r] = x]
    BY <1>1, <1>3 DEF R2DeleteFails
  <2>3. await[r] # NoAwait /\ status[r] = "running" /\ w.landed \in BOOLEAN
    BY Waiting DEF R2DeleteFails, Await
  <2>4. QED BY <1>1, <1>2, <1>3, <2>1, <2>2, <2>3 DEF R2DeleteFails, Await
<1>5. AwaitLocal(r) /\ Under(call[r], p) /\ Reaches(call[r], p) /\ Changes(r)
  BY <1>1, <1>2, <1>4, Waiting
<1>6. \A q \in Path \ {p} : Same(q)
  BY <1>4 DEF Same
<1>7. Gone(p)' /\ (Known(p) => Known(p)') /\ (Has(rows', p) <=> Has(rows, p))
      /\ (InR2(rows', p) <=> InR2(rows, p))
  BY <1>4 DEF Gone, Known
<1>8. AwaitLocal(r)'
  BY <1>1, <1>2, <1>4, <1>5, <1>7 DEF AwaitLocal
<1>9. Changes(r)'
  BY <1>4, AwaitAssumption DEF Changes
<1>10. QED BY <1>1, <1>2, <1>4, <1>5, <1>6, <1>8, <1>9, StepKeepsTree

LEMMA ResumeKeepsTree ==
  ASSUME TreeInv, TypeInv', NEW r \in Request, Resume(r)
  PROVE  TreeInv'
<1>1. PICK w \in Await : w = await[r]
  BY Waiting DEF Resume
<1>2. PICK p \in Path : p = w.key
  BY DEF Await
<1>3. w # NoAwait /\ w.landed = TRUE /\ status[r] = "running" /\ faulted' = faulted
  BY <1>1, Waiting DEF Resume, Await
<1>4. w.op # "get" => AwaitLocal(r) /\ Reaches(call[r], p) /\ Changes(r)
  BY <1>1, <1>2, <1>3, Waiting
<1>5. CASE w.op = "get" /\ NoChange /\ \E js : Continue(r, js)
  <2>1. ~Changes(r)
    BY <1>1, <1>5 DEF Changes
  <2>2. QED BY <1>3, <1>5, <2>1, NoChangeEnd
<1>6. CASE /\ w.op = "put" /\ rows' = Upsert(rows, p, "r2", {})
           /\ mirror' = IF w.existed THEN mirror ELSE mirror \cup {p}
           /\ UNCHANGED objects /\ \E js : Continue(r, js)
  <2>1. bucket /\ Known(p) /\ (w.existed <=> Has(rows, p)) /\ objects[p] # Absent
    BY <1>1, <1>2, <1>3, <1>4, <1>6 DEF AwaitLocal
  <2>2. rows \in Table /\ {} \in Content
    BY DEF TreeInv, TypeInv, TypeOK, Table, Content
  <2>3. /\ rows'[p] # NoRow /\ rows'[p].storage = "r2"
        /\ \A q \in Path \ {p} : rows'[q] = rows[q]
    BY <1>6, <2>2, UpsertTyped, SeedAssumption
  <2>4. p \in mirror' /\ \A q \in Path \ {p} : q \in mirror' <=> q \in mirror
    BY <1>6, <2>1 DEF Known
  <2>5. \A q \in Path \ {p} : Same(q)
    BY <1>3, <1>6, <2>3, <2>4 DEF Same
  <2>6. Known(p)' /\ Matches(p)'
    BY <1>6, <2>1, <2>3, <2>4 DEF Known, Matches, Has, InR2
  <2>7. QED BY <1>1, <1>2, <1>3, <1>4, <1>6, <2>5, <2>6, EndKeepsTree
<1>7. CASE /\ w.op = "drop" /\ mirror' = IF w.existed THEN mirror ELSE mirror \cup {p}
           /\ UNCHANGED <<rows, objects>> /\ \E js : Continue(r, js)
  <2>1. Has(rows, p) /\ ~InR2(rows, p) /\ (w.existed => p \in mirror) /\ Gone(p)
    BY <1>1, <1>2, <1>3, <1>4, <1>7 DEF AwaitLocal
  <2>2. p \in mirror' /\ \A q \in Path \ {p} : q \in mirror' <=> q \in mirror
    BY <1>7, <2>1
  <2>3. \A q \in Path \ {p} : Same(q)
    BY <1>3, <1>7, <2>2 DEF Same
  <2>4. Known(p)' /\ Matches(p)'
    BY <1>3, <1>7, <2>1, <2>2 DEF Known, Matches, Gone
  <2>5. QED BY <1>1, <1>2, <1>3, <1>4, <1>7, <2>3, <2>4, EndKeepsTree
<1>8. CASE w.op = "rmobj" /\ RowGone(r, p, Head(jobs[r]).paths \ {p})
  <2>1. Gone(p)
    BY <1>1, <1>2, <1>3, <1>4, <1>8 DEF AwaitLocal
  <2>2. QED BY <1>1, <1>2, <1>3, <1>4, <1>8, <2>1, RowGoneKeepsTree
<1>9. QED BY <1>1, <1>2, <1>5, <1>6, <1>7, <1>8 DEF Resume

LEMMA ArriveKeepsTree ==
  ASSUME Serialize, TreeInv, TypeInv', NEW r \in Request, NEW c \in Asked, Arrive(r, c)
  PROVE  TreeInv'
<1>1. /\ status[r] = "idle" /\ call'[r] = c /\ await[r] = NoAwait
      /\ \A q \in Request \ {r} : status'[q] = status[q] /\ call'[q] = call[q]
      /\ UNCHANGED <<bucket, rows, objects, mirror, await, faulted>>
  BY DEF Arrive, TreeInv, TypeInv, TypeOK
<1>2. \A s \in Request : status[s] # "idle" =>
        \A p \in PathsOf(c), q \in PathsOf(call[s]) : Apart(p, q)
  BY DEF Arrive
<1>3. \A p, q : Apart(p, q) => Apart(q, p)
  BY DEF Apart
<1>4. \A s, u \in Request : s # u /\ status'[s] # "idle" /\ status'[u] # "idle" =>
        \A p \in PathsOf(call'[s]), q \in PathsOf(call'[u]) : Apart(p, q)
  BY <1>1, <1>2, <1>3 DEF TreeInv
<1>5. \A s \in Request : (Changes(s)' <=> Changes(s)) /\ (Changes(s) => s # r)
  BY <1>1 DEF Changes
<1>6. \A s \in Request : Changes(s) => AwaitLocal(s)' /\ Under(call'[s], await'[s].key)
  <2>1. ASSUME NEW s \in Request, Changes(s)
        PROVE AwaitLocal(s)' /\ Under(call'[s], await'[s].key)
    <3>1. AwaitLocal(s) /\ Under(call[s], await[s].key) /\ s # r
      BY <1>5, <2>1 DEF TreeInv
    <3>2. AwaitLocal(s)'
      BY <1>1, <3>1 DEF AwaitLocal, Known, Matches, Gone
    <3>3. QED BY <1>1, <3>1, <3>2
  <2>2. QED BY <2>1
<1>7. \A p \in Path : (Matches(p) => Matches(p)') /\ (Known(p) => Known(p)')
  BY <1>1 DEF Matches, Known
<1>8. \A p \in Path :
        (Matches(p)' /\ Known(p)') \/ \E s \in Request : Changes(s)' /\ await'[s].key = p
  BY <1>1, <1>5, <1>7 DEF TreeInv
<1>9. QED BY <1>4, <1>5, <1>6, <1>8 DEF TreeInv

LEMMA ReplyKeepsTree ==
  ASSUME TreeInv, TypeInv', NEW r \in Request, Reply(r)
  PROVE  TreeInv'
<1>1. /\ status'[r] = "idle" /\ await[r] = NoAwait
      /\ \A q \in Request \ {r} : status'[q] = status[q] /\ call'[q] = call[q]
      /\ UNCHANGED <<bucket, rows, objects, mirror, await, faulted>>
  BY DEF Reply, TreeInv, TypeInv, TypeOK
<1>2. \A s, u \in Request : s # u /\ status'[s] # "idle" /\ status'[u] # "idle" =>
        \A p \in PathsOf(call'[s]), q \in PathsOf(call'[u]) : Apart(p, q)
  BY <1>1 DEF TreeInv
<1>3. \A s \in Request : (Changes(s)' <=> Changes(s)) /\ (Changes(s) => s # r)
  BY <1>1 DEF Changes
<1>4. \A s \in Request : Changes(s) => AwaitLocal(s)' /\ Under(call'[s], await'[s].key)
  <2>1. ASSUME NEW s \in Request, Changes(s)
        PROVE AwaitLocal(s)' /\ Under(call'[s], await'[s].key)
    <3>1. AwaitLocal(s) /\ Under(call[s], await[s].key) /\ s # r
      BY <1>3, <2>1 DEF TreeInv
    <3>2. AwaitLocal(s)'
      BY <1>1, <3>1 DEF AwaitLocal, Known, Matches, Gone
    <3>3. QED BY <1>1, <3>1, <3>2
  <2>2. QED BY <2>1
<1>5. \A p \in Path : (Matches(p) => Matches(p)') /\ (Known(p) => Known(p)')
  BY <1>1 DEF Matches, Known
<1>6. \A p \in Path :
        (Matches(p)' /\ Known(p)') \/ \E s \in Request : Changes(s)' /\ await'[s].key = p
  BY <1>1, <1>3, <1>5 DEF TreeInv
<1>7. QED BY <1>2, <1>3, <1>4, <1>6 DEF TreeInv

LEMMA TreeInvInit == Init => TreeInv
<1> SUFFICES ASSUME Init PROVE TreeInv
  OBVIOUS
<1>1. TypeInv
  BY TypeInvInit
<1>2. PICK s \in Seed : /\ rows = s.rows /\ objects = s.objects
                        /\ mirror = {p \in Path : Has(s.rows, p)}
  BY DEF Init
<1>3. \A p \in Path : Matches(p) /\ Known(p)
  BY <1>2, SeedAssumption DEF Matches, Known
<1>4. \A r \in Request : ~Changes(r) /\ status[r] = "idle"
  BY DEF Init, Changes
<1>5. QED BY <1>1, <1>2, <1>3, <1>4 DEF TreeInv

LEMMA TreeInvStep ==
  ASSUME Serialize, LikeAlso = {}, TreeInv, [Next]_vars
  PROVE  TreeInv'
<1>1. TypeInv'
  BY TypeInvStep DEF TreeInv
<1>2. CASE UNCHANGED vars
  BY <1>1, <1>2 DEF vars, TreeInv, Matches, Known, Changes, AwaitLocal, Gone
<1>3. ASSUME NEW r \in Request, NEW c \in Asked, Arrive(r, c) PROVE TreeInv'
  BY <1>1, <1>3, ArriveKeepsTree
<1>4. ASSUME NEW r \in Request, Work(r) PROVE TreeInv'
  BY <1>1, <1>4, WorkKeepsTree
<1>5. ASSUME NEW r \in Request, R2Lands(r) PROVE TreeInv'
  BY <1>1, <1>5, R2LandsKeepsTree
<1>6. ASSUME NEW r \in Request, R2Fails(r) PROVE TreeInv'
  BY <1>1, <1>6, R2FailsKeepsTree
<1>7. ASSUME NEW r \in Request, R2DeleteFails(r) PROVE TreeInv'
  BY <1>1, <1>7, R2DeleteFailsKeepsTree
<1>8. ASSUME NEW r \in Request, Resume(r) PROVE TreeInv'
  BY <1>1, <1>8, ResumeKeepsTree
<1>9. ASSUME NEW r \in Request, Reply(r) PROVE TreeInv'
  BY <1>1, <1>9, ReplyKeepsTree
<1>10. CASE Finished
  BY <1>2, <1>10 DEF Finished
<1>11. QED BY <1>2, <1>3, <1>4, <1>5, <1>6, <1>7, <1>8, <1>9, <1>10 DEF Next

\* At every instant, whatever R2 does, the bucket holds the objects of the r2 rows and
\* nothing else but for the paths R2 calls are in flight for or have failed for. (Without a
\* binding, no r2 row loses its object.)
THEOREM TreeNothingLeaks ==
  ASSUME Serialize, LikeAlso = {}
  PROVE  Spec => []NothingLeaks
<1>1. TreeInv => NothingLeaks
  BY DEF TreeInv, NothingLeaks, Awaited, Changes, Matches
<1>2. TreeInv /\ [Next]_vars => TreeInv'
  BY TreeInvStep
<1>3. Spec => []TreeInv
  BY <1>2, TreeInvInit, PTL DEF Spec
<1>4. QED BY <1>1, <1>3, PTL

\* At every instant an on_change listener knows the tree, but for the paths whose writes
\* wait for R2.
THEOREM TreeListenerKnows ==
  ASSUME Serialize, LikeAlso = {}
  PROVE  Spec => []ListenerKnowsTree
<1>1. TreeInv => ListenerKnowsTree
  BY DEF TreeInv, ListenerKnowsTree, Awaited, Changes, Known
<1>2. TreeInv /\ [Next]_vars => TreeInv'
  BY TreeInvStep
<1>3. Spec => []TreeInv
  BY <1>2, TreeInvInit, PTL DEF Spec
<1>4. QED BY <1>1, <1>3, PTL
==============================================================================
