-------------------------- MODULE WorkspaceTreeSteps --------------------------
(***************************************************************************)
(* What one step of WorkspaceTree can do, and what follows for a call as a *)
(* whole: it changes its own entries only, an rm removes what it is asked  *)
(* to, a write is read back.                                               *)
(***************************************************************************)
EXTENDS WorkspaceTreeProofs
Order == INSTANCE WellFoundedInduction

----------------------------------------------------------------------------
(* The last link of a path. Induction over the hops of resolve_symlinks is *)
(* by the least hop that goes wrong.                                       *)

Less == {ss \in Nat \X Nat : ss[1] < ss[2]}

LEMMA LessIsWellFounded == Order!IsWellFoundedOn(Less, Nat)
BY Order!NatLessThanWellFounded, Zenon DEF Order!OpToRel, Less

LEMMA LeastOfLess ==
  ASSUME NEW S, S \subseteq Nat, S # {}
  PROVE  \E n \in S : \A m \in S : ~(<<m, n>> \in Less)
BY LessIsWellFounded, Order!WFMin, Zenon

LEMMA LeastNumber ==
  ASSUME NEW S \in SUBSET Nat, S # {}
  PROVE  \E n \in S : \A m \in S : n <= m
<1>1. PICK n \in S : \A m \in S : ~(<<m, n>> \in Less)
  BY LeastOfLess
<1>2. ASSUME NEW m \in S PROVE n <= m
  <2>1. m \in Nat /\ n \in Nat /\ ~(m < n)
    BY <1>1 DEF Less
  <2>2. QED BY <2>1
<1>3. QED BY <1>2

\* resolve_symlinks leaves alone what is no link.
LEMMA ResolveNoLink ==
  ASSUME NEW t, NEW p, TypeOf(t, p) # "symlink"
  PROVE  Resolve(t, p) = IF Has(t, p) THEN p ELSE None
<1> DEFINE IsLink(q) == TypeOf(t, q) = "symlink" /\ t[q].target # NoTarget
           Follow(q) == ResolvePath(ParentPath(q), t[q].target)
           Hops(f) == f = [n \in 0..MaxSymlinkDepth |->
                             IF n = 0 THEN p
                             ELSE IF IsLink(f[n - 1]) THEN Follow(f[n - 1]) ELSE f[n - 1]]
           hop == CHOOSE f : Hops(f)
<1>1. ~IsLink(p)
  OBVIOUS
<1>2. Hops([n \in 0..MaxSymlinkDepth |-> p])
  BY <1>1, TreeAssumption
<1>3. Hops(hop)
  BY <1>2
<1>4. Resolve(t, p) = IF IsLink(hop[MaxSymlinkDepth]) THEN Loop
                      ELSE IF Has(t, hop[MaxSymlinkDepth]) THEN hop[MaxSymlinkDepth] ELSE None
  BY DEF Resolve
<1> HIDE DEF hop
<1>5. PICK f : f = hop
  OBVIOUS
<1>6. f[0] = p /\ \A n \in 1..MaxSymlinkDepth :
                   f[n] = IF IsLink(f[n - 1]) THEN Follow(f[n - 1]) ELSE f[n - 1]
  <2>1. Hops(f)
    BY <1>3, <1>5
  <2> HIDE DEF IsLink, Follow
  <2>2. /\ 0 \in 0..MaxSymlinkDepth
        /\ \A n \in 1..MaxSymlinkDepth : n \in 0..MaxSymlinkDepth /\ n # 0
    BY TreeAssumption
  <2>3. QED BY <2>1, <2>2
<1>7. PICK S : S = {n \in 0..MaxSymlinkDepth : f[n] # p}
  OBVIOUS
<1> HIDE DEF Follow, IsLink, Hops
<1>8. S = {}
  <2> SUFFICES ASSUME S # {} PROVE FALSE
    OBVIOUS
  <2>1. S \in SUBSET Nat
    BY <1>7, TreeAssumption
  <2>2. PICK n \in S : \A m \in S : n <= m
    BY <2>1, LeastNumber
  <2>3. n \in 1..MaxSymlinkDepth
    BY <1>6, <1>7, TreeAssumption
  <2>4. n - 1 \in 0..MaxSymlinkDepth /\ n - 1 \notin S
    BY <2>2, <2>3, TreeAssumption
  <2>5. f[n - 1] = p
    BY <1>7, <2>4
  <2>6. f[n] = p
    BY <1>1, <1>6, <2>3, <2>5
  <2>7. QED BY <1>7, <2>6
<1>9. f[MaxSymlinkDepth] = p
  BY <1>7, <1>8, TreeAssumption
<1>10. QED BY <1>1, <1>4, <1>5, <1>9

\* What read_file_bytes finds at a path that is free, or a file's.
LEMMA ReadNoLink ==
  ASSUME NEW t \in Table, NEW objs, NEW p \in Path, TypeOf(t, p) \in {"none", "file"}
  PROVE  /\ Resolve(t, p) = IF Has(t, p) THEN p ELSE None
         /\ ReadOf(t, objs, p) = IF Has(t, p) THEN Entry(t, objs, p).bytes ELSE Absent
<1>1. Resolve(t, p) = IF Has(t, p) THEN p ELSE None
  BY ResolveNoLink
<1>2. CASE Has(t, p)
  <2>1. TypeOf(t, p) = "file" /\ p \notin {None, Loop} /\ t[p].type = "file"
    BY <1>2, EntryAssumption DEF TypeOf, Has, Table, Row
  <2>2. ReadOf(t, objs, p) = IF InR2(t, p) THEN objs[p] ELSE t[p].content
    BY <1>1, <1>2, <2>1 DEF ReadOf
  <2>3. Entry(t, objs, p).bytes = IF InR2(t, p) THEN objs[p] ELSE t[p].content
    BY <1>2, <2>1 DEF Entry
  <2>4. QED BY <1>1, <1>2, <2>2, <2>3
<1>3. CASE ~Has(t, p)
  <2>1. ReadOf(t, objs, p) = Absent
    BY <1>1, <1>3, EntryAssumption DEF ReadOf
  <2>2. QED BY <1>1, <1>3, <2>1
<1>4. QED BY <1>2, <1>3

----------------------------------------------------------------------------
(* The directories above a path. *)

LEMMA DirsByNames ==
  ASSUME NEW p \in Path, NEW d \in Path
  PROVE  d \in DirsAbove(p) <=> AtOrAbove(d, p) /\ d # p /\ d # Root
<1>1. p \in Names /\ d \in Names /\ Len(p) \in Nat /\ Len(d) \in Nat
  BY PathIsNames
<1>2. ASSUME d \in DirsAbove(p) PROVE AtOrAbove(d, p) /\ d # p /\ d # Root
  <2>1. PICK n \in 1..(Len(p) - 1) : d = SubSeq(p, 1, n)
    BY <1>2 DEF DirsAbove
  <2>2. Len(d) = n
    BY <1>1, <2>1, SubSeqProperties DEF Names
  <2>3. d # Root
    BY <1>1, <2>1, <2>2, EmptySeq DEF Root
  <2>4. QED BY <1>2, <2>3, DirsArePaths
<1>3. ASSUME AtOrAbove(d, p), d # p, d # Root PROVE d \in DirsAbove(p)
  <2>1. Len(d) < Len(p) /\ SubSeq(p, 1, Len(d)) = d
    BY <1>3 DEF AtOrAbove, IsAbove
  <2>2. Len(d) # 0
    BY <1>1, <1>3, EmptySeq DEF Root, Names
  <2>3. Len(d) \in 1..(Len(p) - 1)
    BY <1>1, <2>1, <2>2
  <2>4. QED BY <2>1, <2>3 DEF DirsAbove
<1>4. QED BY <1>2, <1>3

\* A directory above a path below d is at or below d, or it is above d as well.
LEMMA DirsOfBelow ==
  ASSUME NEW d \in Path, NEW q \in Path, AtOrAbove(d, q), NEW p \in DirsAbove(q)
  PROVE  AtOrAbove(d, p) \/ p \in DirsAbove(d)
<1>1. p \in Path /\ AtOrAbove(p, q) /\ p # Root
  BY DirsArePaths, DirsByNames
<1>2. AtOrAbove(p, d) \/ AtOrAbove(d, p)
  BY <1>1, AboveLinear, PathIsNames
<1>3. QED BY <1>1, <1>2, DirsByNames DEF AtOrAbove

----------------------------------------------------------------------------
(* Entries. *)

Stored == [Path -> Content \cup {Absent}]

\* Entries, and trees of them.
Entries == [type : {"directory", "file", "symlink"}, target : Target \cup {NoTarget},
            bytes : Content \cup {Absent}]

Trees == [Path -> Entries \cup {NoRow}]

LEMMA StoresTable ==
  ASSUME TypeInv
  PROVE  rows \in Table /\ objects \in Stored
BY DEF TypeInv, TypeOK, Table, Stored

LEMMA EntryFacts ==
  ASSUME NEW t \in Table, NEW objs \in Stored, NEW p \in Path
  PROVE  /\ Entry(t, objs, p) = NoRow <=> t[p] = NoRow
         /\ Has(t, p) <=> t[p] # NoRow
         /\ Has(t, p) => /\ t[p] \in Row
                         /\ Entry(t, objs, p) \in Entries
                         /\ Entry(t, objs, p).type = t[p].type
                         /\ TypeOf(t, p) = t[p].type
         /\ Has(t, p) /\ t[p].type = "file" =>
              /\ Entry(t, objs, p).bytes = IF t[p].storage = "r2" THEN objs[p] ELSE t[p].content
              /\ Entry(t, objs, p).target = NoTarget
         /\ Has(t, p) /\ t[p].type = "symlink" => Entry(t, objs, p).target = t[p].target
<1>1. Has(t, p) <=> t[p] # NoRow
  BY DEF Has
<1>2. ASSUME Has(t, p)
      PROVE  /\ t[p] \in Row
             /\ Entry(t, objs, p) \in Entries
             /\ Entry(t, objs, p).type = t[p].type
             /\ Entry(t, objs, p).target = IF t[p].type = "symlink" THEN t[p].target ELSE NoTarget
             /\ Entry(t, objs, p).bytes = IF t[p].type # "file" THEN {}
                                          ELSE IF InR2(t, p) THEN objs[p] ELSE t[p].content
  <2>1. t[p] \in Row /\ objs[p] \in Content \cup {Absent} /\ {} \in Content
    BY <1>2 DEF Has, Table, Stored, Content
  <2>2. PICK y : y = IF t[p].type = "symlink" THEN t[p].target ELSE NoTarget
    OBVIOUS
  <2>3. PICK b : b = IF t[p].type # "file" THEN {} ELSE IF InR2(t, p) THEN objs[p] ELSE t[p].content
    OBVIOUS
  <2>4. /\ t[p].type \in {"directory", "file", "symlink"}
        /\ y \in Target \cup {NoTarget} /\ b \in Content \cup {Absent}
    BY <2>1, <2>2, <2>3 DEF Row
  <2>5. Entry(t, objs, p) = [type |-> t[p].type, target |-> y, bytes |-> b]
    BY <1>2, <2>2, <2>3 DEF Entry
  <2>6. QED BY <2>1, <2>2, <2>3, <2>4, <2>5 DEF Entries
<1>3. ~Has(t, p) => Entry(t, objs, p) = NoRow
  BY DEF Entry
<1>4. Has(t, p) => Entry(t, objs, p) # NoRow
  BY <1>2, EntryAssumption DEF Entries
<1>5. Has(t, p) => (InR2(t, p) <=> t[p].storage = "r2") /\ TypeOf(t, p) = t[p].type
  BY DEF InR2, TypeOf
<1>6. QED BY <1>1, <1>2, <1>3, <1>4, <1>5

LEMMA EntrySame ==
  ASSUME NEW t, NEW u, NEW objs, NEW os, NEW p, t[p] = u[p], objs[p] = os[p]
  PROVE  Entry(t, objs, p) = Entry(u, os, p)
BY DEF Entry, Has, InR2

FileEntry(c) == [type |-> "file", target |-> NoTarget, bytes |-> c]

\* Writing a free path or a file makes a file of it.
LEMMA UpsertMakesFile ==
  ASSUME NEW t \in Table, NEW p \in Path, NEW store \in {"inline", "r2"}, NEW c \in Content,
         NEW objs, TypeOf(t, p) \in {"none", "file"}
  PROVE  /\ Upsert(t, p, store, c)[p].type = "file"
         /\ Entry(Upsert(t, p, store, c), objs, p) = FileEntry(IF store = "r2" THEN objs[p] ELSE c)
         /\ InR2(Upsert(t, p, store, c), p) <=> store = "r2"
<1>1. PICK u \in Table : u = Upsert(t, p, store, c)
  BY UpsertTyped
<1>2. u[p] # NoRow /\ u[p].storage = store
  BY <1>1, UpsertTyped, SeedAssumption
<1>3. u[p].type = "file" /\ u[p].content = c
  <2>1. CASE Has(t, p)
    <3>0. t[p] \in Row /\ TypeOf(t, p) = t[p].type
      BY <2>1 DEF Has, Table, TypeOf
    <3>1. t[p] \in Row /\ t[p].type = "file"
      BY <3>0 DEF Row
    <3>2. u[p] = [t[p] EXCEPT !.storage = store, !.content = c]
      BY <1>1, <2>1 DEF Upsert, Table
    <3>3. QED BY <3>1, <3>2 DEF Row
  <2>2. CASE ~Has(t, p)
    <3>1. u[p] = FileRow(store, c)
      BY <1>1, <2>2 DEF Upsert, Table
    <3>2. QED BY <3>1 DEF FileRow
  <2>3. QED BY <2>1, <2>2
<1>4. QED BY <1>1, <1>2, <1>3 DEF Entry, FileEntry, Has, InR2

\* Writing a directory or a link leaves it what it is.
LEMMA UpsertKeepsOthers ==
  ASSUME NEW t \in Table, NEW p \in Path, NEW store \in {"inline", "r2"}, NEW c \in Content,
         NEW objs, NEW os, TypeOf(t, p) \notin {"none", "file"}
  PROVE  /\ Upsert(t, p, store, c)[p].type = t[p].type
         /\ Entry(Upsert(t, p, store, c), objs, p) = Entry(t, os, p)
<1>1. PICK u \in Table : u = Upsert(t, p, store, c)
  BY UpsertTyped
<1>2. u[p] # NoRow
  BY <1>1, UpsertTyped, SeedAssumption
<1>3. Has(t, p) /\ t[p] \in Row /\ t[p].type # "file"
  BY DEF Has, Table, TypeOf
<1>4. u[p] = [t[p] EXCEPT !.storage = store, !.content = c]
  BY <1>1, <1>3 DEF Upsert, Table
<1>5. u[p].type = t[p].type /\ u[p].target = t[p].target
  BY <1>3, <1>4 DEF Row
<1>6. QED BY <1>1, <1>2, <1>3, <1>5 DEF Entry, Has

----------------------------------------------------------------------------
(* What a call has left to do. A copy is a stack of copies, with the       *)
(* removal of the source below it for mv; every other call is one job.     *)

CopyKinds == {"cp", "entries", "fetch", "write", "symlink"}

\* The copies of a cp or mv, each of something to its place at or below the destination.
Copies(c) ==
  {j \in Job : c.do \in {"cp", "mv"} /\ j.do \in CopyKinds /\ AtOrAbove(c.dst, j.dst)}

\* What mv does at last.
Removals(c) ==
  {RmJob(c.src)} \cup {RowsJob(S) : S \in SUBSET {q \in Path : AtOrAbove(c.src, q)}}

\* What an append, an rm and a delete_file come to.
Later(c) ==
  {j \in Job : c.do = "append" /\ j.do \in {"fetch", "write"} /\ j.dst = c.dst}
    \cup {RowsJob(S) : S \in {Q \in SUBSET Path : /\ c.do \in {"rm", "delete_file"}
                                                 /\ \A q \in Q : Owns(c, q)}}

Bases(c) == CASE c.do = "cp" -> {<<>>}
              [] c.do = "mv" -> {<<j>> : j \in Removals(c)}
              [] OTHER       -> {}

Stacks(c) ==
  {js \in Seq(Job) : \/ \E j \in {c} \cup Later(c) : js = <<j>>
                     \/ \E cs \in Seq(Copies(c)), b \in Bases(c) : js = cs \o b}

\* An R2 call is about the path of the job that made it.
Linked(r) ==
  LET w == await[r]
      j == Head(jobs[r])
  IN
  w # NoAwait =>
    /\ w.op \in {"put", "drop"} => j.do = "write" /\ w.key = j.dst
    /\ w.op = "put" => w.data = j.data
    /\ w.op = "rmobj" => j.do = "rows" /\ w.key \in j.paths

Shape(r) == status[r] = "running" => jobs[r] \in Stacks(call[r]) /\ Linked(r)

ShapeInv == TypeInv /\ \A r \in Request : Shape(r)

LEMMA BasesAre ==
  ASSUME NEW c \in Call, c.do \in {"cp", "mv"}, NEW b \in Bases(c)
  PROVE  \/ c.do = "cp" /\ b = <<>>
         \/ c.do = "mv" /\ \E j \in Removals(c) : b = <<j>>
BY DEF Bases

LEMMA BasesAreJobs ==
  ASSUME NEW c \in Call, NEW b \in Bases(c)
  PROVE  b \in Seq(Job)
<1>1. \A S \in SUBSET Path : RowsJob(S) \in Job
  BY DEF RowsJob, Job
<1>2. CASE c.do = "mv"
  <2>1. c.src \in Path
    BY <1>2 DEF Call
  <2>2. RmJob(c.src) \in Job
    BY <2>1 DEF RmJob, Job, Call
  <2>3. Removals(c) \subseteq Job
    BY <1>1, <2>2 DEF Removals
  <2>4. PICK j \in Removals(c) : b = <<j>>
    BY <1>2 DEF Bases
  <2>5. QED BY <2>3, <2>4
<1>3. CASE c.do # "mv"
  <2>1. b = <<>>
    BY <1>3 DEF Bases
  <2>2. QED BY <2>1, EmptySeq
<1>4. QED BY <1>2, <1>3

LEMMA LaterAreJobs ==
  ASSUME NEW c \in Call
  PROVE  Later(c) \subseteq Job
BY DEF Later, RowsJob, Job

LEMMA StacksAre ==
  ASSUME NEW c \in Call, NEW js
  PROVE  js \in Stacks(c) <=>
           \/ \E j \in {c} \cup Later(c) : js = <<j>>
           \/ \E cs \in Seq(Copies(c)), b \in Bases(c) : js = cs \o b
<1>1. ASSUME NEW j \in {c} \cup Later(c), js = <<j>> PROVE js \in Seq(Job)
  <2>1. j \in Job
    BY CallsAreJobs, LaterAreJobs
  <2>2. QED BY <1>1, <2>1
<1>2. ASSUME NEW cs \in Seq(Copies(c)), NEW b \in Bases(c), js = cs \o b PROVE js \in Seq(Job)
  <2>1. cs \in Seq(Job) /\ b \in Seq(Job)
    BY BasesAreJobs, SeqMonotonic DEF Copies
  <2>2. QED BY <1>2, <2>1, ConcatProperties
<1>3. QED BY <1>1, <1>2, Zenon DEF Stacks

\* The next job of a call.
LEMMA Heads ==
  ASSUME NEW c \in Call, NEW js \in Stacks(c), js # <<>>
  PROVE  \/ Head(js) = c /\ Tail(js) = <<>> /\ c.do # "cp"
         \/ Head(js) \in Later(c) /\ Tail(js) = <<>>
         \/ /\ c.do = "mv" /\ Head(js) \in Removals(c) /\ Tail(js) = <<>>
         \/ /\ Head(js) \in Copies(c) /\ c.do \in {"cp", "mv"}
            /\ \E cs \in Seq(Copies(c)), b \in Bases(c) : Tail(js) = cs \o b
<1>1. ASSUME NEW j, js = <<j>> PROVE Head(js) = j /\ Tail(js) = <<>>
  BY <1>1
<1>2. CASE \E j \in {c} \cup Later(c) : js = <<j>>
  <2>1. PICK j \in {c} \cup Later(c) : js = <<j>>
    BY <1>2
  <2>2. Head(js) = j /\ Tail(js) = <<>>
    BY <1>1, <2>1
  <2>3. CASE j = c /\ c.do = "cp"
    <3>1. c \in Copies(c)
      BY <2>3, CallsAreJobs DEF Copies, CopyKinds, AtOrAbove
    <3>2. <<>> \in Seq(Copies(c)) /\ <<>> \in Bases(c) /\ <<>> = <<>> \o <<>>
      BY <2>3 DEF Bases
    <3>3. QED BY <2>2, <2>3, <3>1, <3>2, Zenon
  <2>4. QED BY <2>1, <2>2, <2>3
<1>3. ASSUME NEW cs \in Seq(Copies(c)), NEW b \in Bases(c), js = cs \o b
      PROVE  \/ /\ c.do = "mv" /\ Head(js) \in Removals(c) /\ Tail(js) = <<>>
             \/ /\ Head(js) \in Copies(c) /\ c.do \in {"cp", "mv"}
                /\ \E ds \in Seq(Copies(c)) : Tail(js) = ds \o b
  <2>0. c.do \in {"cp", "mv"}
    BY DEF Bases
  <2>1. b \in Seq(Job) /\ cs \in Seq(Job)
    BY BasesAreJobs, SeqMonotonic DEF Copies
  <2>2. CASE cs = <<>>
    <3>1. js = b
      BY <1>3, <2>1, <2>2
    <3>2. PICK j \in Removals(c) : b = <<j>> /\ c.do = "mv"
      BY <2>0, <3>1, BasesAre
    <3>3. QED BY <1>1, <3>1, <3>2
  <2>3. CASE cs # <<>>
    <3>1. Head(cs) \in Copies(c) /\ Tail(cs) \in Seq(Copies(c))
      BY <2>3, HeadTailProperties
    <3>2. Head(js) = Head(cs) /\ Tail(js) = Tail(cs) \o b
      BY <1>3, <2>1, <2>3
    <3>3. QED BY <2>0, <3>1, <3>2
  <2>4. QED BY <2>2, <2>3
<1>4. CASE \E cs \in Seq(Copies(c)), b \in Bases(c) : js = cs \o b
  <2>1. PICK cs \in Seq(Copies(c)), b \in Bases(c) : js = cs \o b
    BY <1>4
  <2>2. QED BY <1>3, <2>1
<1>5. \/ \E j \in {c} \cup Later(c) : js = <<j>>
      \/ \E cs \in Seq(Copies(c)), b \in Bases(c) : js = cs \o b
  BY Zenon DEF Stacks
<1>6. QED BY <1>2, <1>4, <1>5, Zenon

\* More copies before the rest.
LEMMA MoreCopies ==
  ASSUME NEW c \in Call, NEW cs \in Seq(Copies(c)), NEW b \in Bases(c)
  PROVE  /\ cs \o b \in Stacks(c)
         /\ \A new \in Seq(Copies(c)) : new \o (cs \o b) \in Stacks(c)
         /\ \A x \in Copies(c) : <<x>> \o (cs \o b) \in Stacks(c)
         /\ \A x, y \in Copies(c) : <<x>> \o <<y>> \o (cs \o b) \in Stacks(c)
<1>1. cs \in Seq(Job) /\ b \in Seq(Job) /\ Copies(c) \subseteq Job
  BY BasesAreJobs, SeqMonotonic DEF Copies
<1>2. ASSUME NEW new \in Seq(Copies(c)) PROVE new \o (cs \o b) \in Stacks(c)
  <2>1. new \in Seq(Job)
    BY <1>1, SeqMonotonic
  <2>2. new \o (cs \o b) = (new \o cs) \o b
    BY <1>1, <2>1, ConcatAssociative, SMTT(30)
  <2>3. new \o cs \in Seq(Copies(c))
    BY ConcatProperties
  <2>4. QED BY <2>2, <2>3, StacksAre
<1>3. \A x \in Copies(c) : <<x>> \in Seq(Copies(c))
  OBVIOUS
<1>4. \A x, y \in Copies(c) : <<x>> \o <<y>> \in Seq(Copies(c))
  BY <1>3, ConcatProperties
<1>5. cs \o b \in Stacks(c)
  BY StacksAre
<1>6. QED BY <1>2, <1>3, <1>4, <1>5

----------------------------------------------------------------------------
(* Who a step is of. *)

Acts(r) == Work(r) \/ R2Lands(r) \/ R2Fails(r) \/ R2DeleteFails(r) \/ Resume(r)

\* What r knows of itself does not change.
Idles(r) ==
  /\ status'[r] = status[r] /\ call'[r] = call[r] /\ before'[r] = before[r]
  /\ jobs'[r] = jobs[r] /\ await'[r] = await[r]

\* Only r goes on, in its call.
Alone(r) ==
  /\ call' = call /\ before' = before /\ bucket' = bucket
  /\ \A s \in Request \ {r} : Idles(s)

LEMMA Continues ==
  ASSUME TypeInv, NEW r \in Request, NEW js, Continue(r, js)
  PROVE  /\ jobs'[r] = js /\ await'[r] = NoAwait
         /\ status'[r] = IF js = <<>> THEN "ok" ELSE "running"
         /\ Alone(r)
BY DEF Continue, Alone, Idles, TypeInv, TypeOK

LEMMA Stops ==
  ASSUME TypeInv, NEW r \in Request, Stop(r)
  PROVE  jobs'[r] = <<>> /\ await'[r] = NoAwait /\ status'[r] = "failed" /\ Alone(r)
BY DEF Stop, Alone, Idles, TypeInv, TypeOK

LEMMA Waits ==
  ASSUME TypeInv, NEW r \in Request, NEW w, Wait(r, w)
  PROVE  jobs'[r] = jobs[r] /\ await'[r] = w /\ status'[r] = status[r] /\ Alone(r)
BY DEF Wait, Alone, Idles, TypeInv, TypeOK

LEMMA Lands ==
  ASSUME TypeInv, NEW r \in Request, R2Lands(r)
  PROVE  /\ status[r] = "running" /\ await[r] \in Await /\ await[r].landed = FALSE
         /\ await'[r] \in Await /\ await'[r] # NoAwait
         /\ await'[r].op = await[r].op /\ await'[r].key = await[r].key /\ await'[r].landed = TRUE
         /\ await'[r].data = IF await[r].op = "get" THEN objects[await[r].key] ELSE await[r].data
         /\ rows' = rows /\ \A q \in Path \ {await[r].key} : objects'[q] = objects[q]
         /\ objects'[await[r].key] = IF await[r].op = "get" THEN objects[await[r].key]
                                     ELSE IF await[r].op = "put" THEN await[r].data ELSE Absent
         /\ jobs'[r] = jobs[r] /\ status'[r] = status[r] /\ Alone(r)
<1>1. PICK w \in Await : w = await[r]
  BY DEF TypeInv, R2Lands
<1>2. /\ status[r] = "running" /\ w.landed = FALSE /\ w.key \in Path
      /\ w.op \in {"get", "put", "drop", "rmobj"}
  BY <1>1 DEF R2Lands, TypeInv, TypeOK, Await
<1>3. PICK d \in Content \cup {Absent} : d = IF w.op = "get" THEN objects[w.key] ELSE w.data
  BY <1>2 DEF Await, TypeInv, TypeOK
<1>4. PICK x \in Await : x = [w EXCEPT !.landed = TRUE, !.data = d]
  BY DEF Await
<1>5. x.op = w.op /\ x.key = w.key /\ x.landed = TRUE /\ x.data = d /\ x # NoAwait
  BY <1>4, AwaitAssumption DEF Await
<1>6. await' = [await EXCEPT ![r] = x]
  BY <1>1, <1>3, <1>4 DEF R2Lands
<1>7. await'[r] = x /\ \A s \in Request \ {r} : await'[s] = await[s]
  BY <1>6 DEF TypeInv
<1>8. PICK o : o = IF w.op = "get" THEN objects[w.key] ELSE IF w.op = "put" THEN w.data ELSE Absent
  OBVIOUS
<1>9. objects' = [objects EXCEPT ![w.key] = o]
  <2>1. CASE w.op = "get"
    BY <1>1, <1>8, <2>1 DEF R2Lands
  <2>2. CASE w.op = "put"
    BY <1>1, <1>8, <2>2 DEF R2Lands
  <2>3. CASE w.op \in {"drop", "rmobj"}
    BY <1>1, <1>8, <2>3 DEF R2Lands
  <2>4. QED BY <1>2, <2>1, <2>2, <2>3
<1>10. objects'[w.key] = o /\ \A q \in Path \ {w.key} : objects'[q] = objects[q]
  BY <1>2, <1>9 DEF TypeInv, TypeOK
<1>11. Alone(r) /\ rows' = rows /\ jobs' = jobs /\ status' = status
  BY <1>7 DEF R2Lands, Alone, Idles
<1>12. QED BY <1>1, <1>2, <1>3, <1>5, <1>7, <1>8, <1>10, <1>11

LEMMA ActsLocal ==
  ASSUME TypeInv, NEW r \in Request, Acts(r)
  PROVE  status[r] = "running" /\ call[r] \in Call /\ jobs[r] # <<>> /\ Alone(r)
<1>1. status[r] = "running"
  <2>1. ASSUME Work(r) PROVE turn = r
    BY <2>1 DEF Work, TooLong, Write, AppendFile, Fetch, Mkdir, Symlink, DeleteFile, Rm, RmSingle,
                Cp, CpEntry, Mv, Runs
  <2>2. ASSUME ~Work(r) PROVE await[r] # NoAwait
    BY <2>2 DEF Acts, R2Lands, R2Fails, R2DeleteFails, Resume
  <2>3. QED BY <2>1, <2>2 DEF TypeInv, TypeOK
<1>2. Alone(r)
  <2>1. CASE (\E js : Continue(r, js)) \/ Stop(r) \/ (\E w : Wait(r, w))
    BY <2>1, Continues, Stops, Waits
  <2>2. ASSUME Write(r) \/ Fetch(r) \/ RmSingle(r)
        PROVE  (\E js : Continue(r, js)) \/ Stop(r) \/ (\E w : Wait(r, w))
    BY <2>2 DEF Write, Fetch, RmSingle, RowGone
  <2>3. ASSUME TooLong(r) \/ AppendFile(r) \/ Mkdir(r) \/ Symlink(r) \/ DeleteFile(r) \/ Rm(r)
                \/ Cp(r) \/ CpEntry(r) \/ Mv(r)
        PROVE  (\E js : Continue(r, js)) \/ Stop(r)
    BY <2>3 DEF TooLong, AppendFile, Mkdir, Symlink, DeleteFile, Rm, Cp, CpEntry, Mv
  <2>4. CASE Work(r)
    BY <2>1, <2>2, <2>3, <2>4 DEF Work
  <2>5. CASE R2Lands(r)
    BY <2>5, Lands
  <2>6. CASE R2Fails(r)
    BY <2>1, <2>6 DEF R2Fails
  <2>7. CASE R2DeleteFails(r)
    BY <2>7 DEF R2DeleteFails, Alone, Idles, TypeInv
  <2>8. CASE Resume(r)
    BY <2>1, <2>8 DEF Resume, RowGone
  <2>9. QED BY <2>4, <2>5, <2>6, <2>7, <2>8 DEF Acts
<1>3. QED BY <1>1, <1>2, RunningJob

\* A step as the request r sees it.
LEMMA StepCases ==
  ASSUME TypeInv, [Next]_vars, NEW r \in Request
  PROVE  \/ UNCHANGED <<rows, objects>> /\ Idles(r)
         \/ \E c \in Asked : Arrive(r, c)
         \/ status'[r] = "idle"
         \/ Acts(r)
         \/ \E s \in Request \ {r} : Acts(s) /\ Idles(r)
<1>1. CASE UNCHANGED vars
  BY <1>1 DEF vars, Idles
<1>2. ASSUME NEW s \in Request \ {r}, NEW c \in Asked, Arrive(s, c)
      PROVE  UNCHANGED <<rows, objects>> /\ Idles(r)
  BY <1>2 DEF Arrive, Idles, TypeInv, TypeOK
<1>3. ASSUME NEW s \in Request \ {r}, Reply(s) PROVE UNCHANGED <<rows, objects>> /\ Idles(r)
  BY <1>3 DEF Reply, Idles, TypeInv, TypeOK
<1>4. ASSUME Reply(r) PROVE status'[r] = "idle"
  BY <1>4 DEF Reply, TypeInv, TypeOK
<1>5. ASSUME NEW s \in Request \ {r}, Acts(s) PROVE Idles(r)
  BY <1>5, ActsLocal DEF Alone
<1>6. CASE Next
  <2>1. PICK s \in Request : \/ \E c \in Asked : Arrive(s, c)
                             \/ Acts(s)
                             \/ Reply(s)
                             \/ UNCHANGED vars
    BY <1>6 DEF Next, Acts, Finished
  <2>2. QED BY <1>1, <1>2, <1>3, <1>4, <1>5, <2>1
<1>7. QED BY <1>1, <1>6

----------------------------------------------------------------------------
(* What a call has left to do keeps its shape. *)

\* The job that runs, and the call it runs for.
LEMMA HeadIs ==
  ASSUME NEW c \in Call, NEW js \in Stacks(c), js # <<>>, NEW j, j = Head(js)
  PROVE  /\ j.do \in CopyKinds \cup {"append", "mkdir", "mkdir_p"} =>
              AtOrAbove(c.dst, j.dst) /\ c.do \notin {"rm", "delete_file"}
         /\ j.do \in CopyKinds /\ c.do \notin {"cp", "mv"} =>
              /\ j.dst = c.dst /\ Tail(js) = <<>>
              /\ j.do \in {"write", "fetch"} => j = c \/ c.do = "append"
              /\ j.do = "symlink" => j = c
         /\ j.do \in CopyKinds /\ c.do \in {"cp", "mv"} =>
              /\ j \in Copies(c)
              /\ \E cs \in Seq(Copies(c)), b \in Bases(c) : Tail(js) = cs \o b
         /\ j.do \in {"append", "mkdir", "mkdir_p", "delete_file", "mv"} => j = c /\ Tail(js) = <<>>
         /\ j.do = "rm" => Tail(js) = <<>> /\ (j = c \/ (c.do = "mv" /\ j = RmJob(c.src)))
         /\ j.do = "rows" => /\ Tail(js) = <<>> /\ c.do \in {"rm", "delete_file", "mv"}
                            /\ \A q \in j.paths : q \in Path /\ AtOrAbove(c.src, q) /\ Owns(c, q)
<1>1. CASE j = c /\ Tail(js) = <<>> /\ c.do # "cp"
  <2>1. c.do \in {"write", "append", "mkdir", "mkdir_p", "symlink", "rm", "delete_file", "cp", "mv"}
    BY DEF Call
  <2>2. AtOrAbove(c.dst, c.dst)
    BY DEF AtOrAbove
  <2>3. QED BY <1>1, <2>1, <2>2 DEF CopyKinds
<1>2. CASE j \in Later(c) /\ Tail(js) = <<>>
  <2>1. CASE c.do = "append" /\ j.do \in {"fetch", "write"} /\ j.dst = c.dst
    BY <1>2, <2>1 DEF CopyKinds, AtOrAbove
  <2>2. CASE \E S \in SUBSET Path : /\ j = RowsJob(S) /\ c.do \in {"rm", "delete_file"}
                                    /\ \A q \in S : Owns(c, q)
    <3>1. j.do = "rows" /\ \A q \in j.paths : q \in Path /\ Owns(c, q)
      BY <2>2 DEF RowsJob
    <3>2. \A q \in j.paths : AtOrAbove(c.src, q)
      BY <2>2, <3>1 DEF Owns, AtOrAbove
    <3>3. QED BY <1>2, <2>2, <3>1, <3>2 DEF CopyKinds
  <2>3. QED BY <1>2, <2>1, <2>2 DEF Later
<1>3. CASE c.do = "mv" /\ j \in Removals(c) /\ Tail(js) = <<>>
  <2>1. CASE j = RmJob(c.src)
    BY <1>3, <2>1 DEF RmJob, CopyKinds
  <2>2. CASE \E S \in SUBSET {q \in Path : AtOrAbove(c.src, q)} : j = RowsJob(S)
    <3>1. j.do = "rows" /\ \A q \in j.paths : q \in Path /\ AtOrAbove(c.src, q)
      BY <2>2 DEF RowsJob
    <3>2. \A q \in j.paths : Owns(c, q)
      BY <1>3, <3>1 DEF Owns
    <3>3. QED BY <1>3, <3>1, <3>2 DEF CopyKinds
  <2>3. QED BY <1>3, <2>1, <2>2 DEF Removals
<1>4. CASE /\ j \in Copies(c) /\ c.do \in {"cp", "mv"}
           /\ \E cs \in Seq(Copies(c)), b \in Bases(c) : Tail(js) = cs \o b
  BY <1>4 DEF Copies, CopyKinds
<1>5. QED BY <1>1, <1>2, <1>3, <1>4, Heads

\* One more job, in front of the rest.
LEMMA OneMore ==
  ASSUME NEW c \in Call, NEW js \in Stacks(c), js # <<>>
  PROVE  /\ Tail(js) # <<>> => Tail(js) \in Stacks(c)
         /\ \A x \in Later(c) : Tail(js) = <<>> => <<x>> \o Tail(js) \in Stacks(c)
         /\ \A x \in Removals(c) : c.do = "mv" /\ Tail(js) = <<>> => <<x>> \o Tail(js) \in Stacks(c)
         /\ Head(js).do \in CopyKinds /\ c.do \in {"cp", "mv"} =>
              /\ \A x \in Copies(c) : <<x>> \o Tail(js) \in Stacks(c)
              /\ \A x, y \in Copies(c) : <<x>> \o <<y>> \o Tail(js) \in Stacks(c)
<1>1. ASSUME NEW x, Tail(js) = <<>> PROVE <<x>> \o Tail(js) = <<x>> /\ <<>> \o <<x>> = <<x>>
  <2>1. <<x>> \in Seq({x})
    OBVIOUS
  <2>2. QED BY <1>1, <2>1, ConcatEmptySeq
<1>2. ASSUME NEW x \in Later(c), Tail(js) = <<>> PROVE <<x>> \o Tail(js) \in Stacks(c)
  <2>1. <<x>> \o Tail(js) = <<x>>
    BY <1>1, <1>2
  <2>2. <<x>> \in Stacks(c)
    BY StacksAre
  <2>3. QED BY <2>1, <2>2
<1>3. ASSUME NEW x \in Removals(c), c.do = "mv", Tail(js) = <<>>
      PROVE  <<x>> \o Tail(js) \in Stacks(c)
  <2>1. <<x>> \in Bases(c)
    BY <1>3 DEF Bases
  <2>2. <<>> \o <<x>> \in Stacks(c) /\ <<>> \o <<x>> = <<x>>
    BY <1>1, <1>3, <2>1, MoreCopies, EmptySeq
  <2>3. QED BY <1>1, <1>3, <2>2
<1>4. ASSUME NEW cs \in Seq(Copies(c)), NEW b \in Bases(c), Tail(js) = cs \o b
      PROVE  /\ Tail(js) \in Stacks(c)
             /\ \A x \in Copies(c) : <<x>> \o Tail(js) \in Stacks(c)
             /\ \A x, y \in Copies(c) : <<x>> \o <<y>> \o Tail(js) \in Stacks(c)
  BY <1>4, MoreCopies
<1>5. Tail(js) # <<>> => \E cs \in Seq(Copies(c)), b \in Bases(c) : Tail(js) = cs \o b
  BY Heads
<1>6. Head(js).do \in CopyKinds /\ c.do \in {"cp", "mv"} =>
        \E cs \in Seq(Copies(c)), b \in Bases(c) : Tail(js) = cs \o b
  BY HeadIs
<1>7. QED BY <1>2, <1>3, <1>4, <1>5, <1>6

LEMMA ContinueShape ==
  ASSUME TypeInv, NEW r \in Request, NEW js, Continue(r, js),
         js # <<>> => js \in Stacks(call[r])
  PROVE  Shape(r)'
<1>1. /\ jobs'[r] = js /\ await'[r] = NoAwait /\ call'[r] = call[r]
      /\ status'[r] = IF js = <<>> THEN "ok" ELSE "running"
  BY Continues DEF Alone
<1>2. QED BY <1>1 DEF Shape, Linked

LEMMA StopShape ==
  ASSUME TypeInv, NEW r \in Request, Stop(r)
  PROVE  Shape(r)'
<1>1. status'[r] = "failed"
  BY Stops
<1>2. QED BY <1>1 DEF Shape

LEMMA WaitShape ==
  ASSUME TypeInv, NEW r \in Request, NEW w, Wait(r, w), jobs[r] \in Stacks(call[r]),
         w.op \in {"put", "drop"} => Head(jobs[r]).do = "write" /\ w.key = Head(jobs[r]).dst,
         w.op = "put" => w.data = Head(jobs[r]).data,
         w.op = "rmobj" => Head(jobs[r]).do = "rows" /\ w.key \in Head(jobs[r]).paths
  PROVE  Shape(r)'
<1>1. jobs'[r] = jobs[r] /\ await'[r] = w /\ call'[r] = call[r]
  BY Waits DEF Alone
<1>2. QED BY <1>1 DEF Shape, Linked

\* What an action of r starts from.
LEMMA ShapeRunning ==
  ASSUME ShapeInv, NEW r \in Request, status[r] = "running"
  PROVE  /\ TypeInv /\ call[r] \in Call /\ jobs[r] \in Stacks(call[r]) /\ jobs[r] # <<>>
         /\ Head(jobs[r]) \in Job /\ Linked(r) /\ Rest(r) = Tail(jobs[r])
BY RunningJob DEF ShapeInv, Shape, Rest

LEMMA RestShape ==
  ASSUME ShapeInv, NEW r \in Request, status[r] = "running", Rest(r) # <<>>
  PROVE  Rest(r) \in Stacks(call[r])
BY ShapeRunning, OneMore

LEMMA WriteShape ==
  ASSUME ShapeInv, NEW r \in Request, Write(r)
  PROVE  Shape(r)'
<1>1. PICK j : j = Head(jobs[r])
  OBVIOUS
<1>2. TypeInv /\ j.do = "write" /\ status[r] = "running"
  BY <1>1, Running DEF ShapeInv, Write
<1>3. jobs[r] \in Stacks(call[r]) /\ (Rest(r) # <<>> => Rest(r) \in Stacks(call[r]))
  BY <1>2, ShapeRunning, RestShape
<1>4. \/ Stop(r) \/ Continue(r, Rest(r))
      \/ \E e \in BOOLEAN : Wait(r, AwaitOf("put", j.dst, j.data, e))
      \/ \E e \in BOOLEAN : Wait(r, AwaitOf("drop", j.dst, {}, e))
  <2>1. \A t : Has(t, j.dst) \in BOOLEAN
    BY DEF Has
  <2>2. QED BY <1>1, <2>1 DEF Write
<1>5. \A e \in BOOLEAN :
        /\ AwaitOf("put", j.dst, j.data, e).op = "put" /\ AwaitOf("put", j.dst, j.data, e).key = j.dst
        /\ AwaitOf("put", j.dst, j.data, e).data = j.data
        /\ AwaitOf("drop", j.dst, {}, e).op = "drop" /\ AwaitOf("drop", j.dst, {}, e).key = j.dst
  BY DEF AwaitOf
<1>6. CASE Stop(r) \/ Continue(r, Rest(r))
  BY <1>2, <1>3, <1>6, StopShape, ContinueShape
<1>7. ASSUME NEW e \in BOOLEAN, Wait(r, AwaitOf("put", j.dst, j.data, e)) PROVE Shape(r)'
  <2>1. PICK w : w = AwaitOf("put", j.dst, j.data, e)
    OBVIOUS
  <2>2. w.op = "put" /\ w.key = j.dst /\ w.data = j.data
    BY <1>5, <2>1
  <2>3. QED BY <1>1, <1>2, <1>3, <1>7, <2>1, <2>2, WaitShape
<1>8. ASSUME NEW e \in BOOLEAN, Wait(r, AwaitOf("drop", j.dst, {}, e)) PROVE Shape(r)'
  <2>1. PICK w : w = AwaitOf("drop", j.dst, {}, e)
    OBVIOUS
  <2>2. w.op = "drop" /\ w.key = j.dst
    BY <1>5, <2>1
  <2>3. QED BY <1>1, <1>2, <1>3, <1>8, <2>1, <2>2, WaitShape
<1>9. QED BY <1>4, <1>6, <1>7, <1>8

\* A read is followed by the write, of the same call.
LEMMA FetchedShape ==
  ASSUME ShapeInv, NEW r \in Request, status[r] = "running", Head(jobs[r]).do = "fetch",
         NEW d, OrEmpty(d) \in Content,
         Continue(r, <<WriteJob(Head(jobs[r]).dst, OrEmpty(d) \cup Head(jobs[r]).data)>> \o Rest(r))
  PROVE  Shape(r)'
<1>1. PICK j : j = Head(jobs[r])
  OBVIOUS
<1>2. PICK c \in Call : c = call[r]
  BY ShapeRunning
<1>3. PICK js \in Stacks(c) : js = jobs[r] /\ js # <<>> /\ Rest(r) = Tail(js)
  BY <1>2, ShapeRunning
<1>4. j.dst \in Path /\ j.data \in Content /\ TypeInv
  BY <1>1, ShapeRunning, JobData
<1>5. PICK x : x = WriteJob(j.dst, OrEmpty(d) \cup j.data)
  OBVIOUS
<1>6. x.do = "write" /\ x.dst = j.dst /\ x \in Job
  <2>1. OrEmpty(d) \cup j.data \in Content
    BY <1>4 DEF Content
  <2>2. QED BY <1>4, <1>5, <2>1 DEF WriteJob, Job, Call
<1>7. <<x>> \o Tail(js) \in Stacks(c)
  <2>1. CASE c.do \in {"cp", "mv"}
    <3>1. j \in Copies(c)
      BY <1>1, <1>3, <2>1, HeadIs DEF CopyKinds
    <3>2. x \in Copies(c)
      BY <1>6, <3>1 DEF Copies, CopyKinds
    <3>3. QED BY <1>1, <1>3, <2>1, <3>2, OneMore DEF CopyKinds
  <2>2. CASE c.do \notin {"cp", "mv"}
    <3>1. j.dst = c.dst /\ Tail(js) = <<>> /\ (j = c \/ c.do = "append")
      BY <1>1, <1>3, <2>2, HeadIs, SMTT(30) DEF CopyKinds
    <3>2. c.do = "append"
      BY <1>1, <3>1 DEF Call
    <3>3. x \in Later(c)
      BY <1>6, <3>1, <3>2 DEF Later
    <3>4. QED BY <1>3, <3>1, <3>3, OneMore
  <2>3. QED BY <2>1, <2>2
<1>8. QED BY <1>1, <1>2, <1>3, <1>4, <1>5, <1>7, ContinueShape

LEMMA FetchShape ==
  ASSUME ShapeInv, NEW r \in Request, Fetch(r)
  PROVE  Shape(r)'
<1>1. PICK j : j = Head(jobs[r])
  OBVIOUS
<1>2. PICK v : v = ReadOf(rows, objects, j.src)
  OBVIOUS
<1>3. TypeInv /\ j.do = "fetch" /\ status[r] = "running"
  BY <1>1, Running DEF ShapeInv, Fetch
<1>4. \/ Stop(r)
      \/ \E q : Wait(r, AwaitOf("get", q, {}, FALSE))
      \/ v # Illegal /\ Continue(r, <<WriteJob(j.dst, OrEmpty(v) \cup j.data)>> \o Rest(r))
  BY <1>1, <1>2 DEF Fetch
<1>5. ASSUME NEW q, Wait(r, AwaitOf("get", q, {}, FALSE)) PROVE Shape(r)'
  <2>1. PICK w : w = AwaitOf("get", q, {}, FALSE)
    OBVIOUS
  <2>2. w.op = "get"
    BY <2>1 DEF AwaitOf
  <2>3. QED BY <1>3, <1>5, <2>1, <2>2, ShapeRunning, WaitShape
<1>6. CASE v # Illegal /\ Continue(r, <<WriteJob(j.dst, OrEmpty(v) \cup j.data)>> \o Rest(r))
  <2>1. OrEmpty(v) \in Content
    BY <1>2, <1>3, <1>6, ReadIsContent DEF TypeInv
  <2>2. QED BY <1>1, <1>3, <1>6, <2>1, FetchedShape
<1>7. QED BY <1>3, <1>4, <1>5, <1>6, StopShape

LEMMA AppendFileShape ==
  ASSUME ShapeInv, NEW r \in Request, AppendFile(r)
  PROVE  Shape(r)'
<1>1. PICK j : j = Head(jobs[r])
  OBVIOUS
<1>2. PICK x : x = FetchJob(j.dst, j.dst, j.data)
  OBVIOUS
<1>3. TypeInv /\ j.do = "append" /\ j \in Job /\ status[r] = "running"
  BY <1>1, Running DEF ShapeInv, AppendFile
<1>4. PICK c \in Call : c = call[r]
  BY <1>3, ShapeRunning
<1>5. PICK js \in Stacks(c) : js = jobs[r] /\ js # <<>> /\ Rest(r) = Tail(js)
  BY <1>3, <1>4, ShapeRunning
<1>6. j = c /\ Tail(js) = <<>>
  BY <1>1, <1>3, <1>5, HeadIs
<1>7. x \in Later(c)
  <2>1. j.dst \in Path /\ j.dst \in Names /\ j.data \in Content
    BY <1>3, JobData, PathIsNames
  <2>2. x \in Job /\ x.do = "fetch" /\ x.dst = j.dst
    BY <1>2, <2>1 DEF FetchJob, Job
  <2>3. QED BY <1>3, <1>6, <2>2 DEF Later
<1>8. <<x>> \o Tail(js) \in Stacks(c)
  BY <1>5, <1>6, <1>7, OneMore
<1>9. Continue(r, <<x>> \o Rest(r))
  BY <1>1, <1>2 DEF AppendFile
<1>10. QED BY <1>3, <1>4, <1>5, <1>8, <1>9, ContinueShape

LEMMA DeleteFileShape ==
  ASSUME ShapeInv, NEW r \in Request, DeleteFile(r)
  PROVE  Shape(r)'
<1>1. PICK j : j = Head(jobs[r])
  OBVIOUS
<1>2. PICK x : x = RowsJob({j.src})
  OBVIOUS
<1>3. TypeInv /\ j.do = "delete_file" /\ j \in Job /\ status[r] = "running"
  BY <1>1, Running DEF ShapeInv, DeleteFile
<1>4. PICK c \in Call : c = call[r]
  BY <1>3, ShapeRunning
<1>5. PICK js \in Stacks(c) : js = jobs[r] /\ js # <<>> /\ Rest(r) = Tail(js)
  BY <1>3, <1>4, ShapeRunning
<1>6. j = c /\ Tail(js) = <<>>
  BY <1>1, <1>3, <1>5, HeadIs
<1>7. x \in Later(c)
  BY <1>2, <1>3, <1>6, JobData DEF Later, Owns
<1>8. <<x>> \o Tail(js) \in Stacks(c)
  BY <1>5, <1>6, <1>7, OneMore
<1>9. Stop(r) \/ Continue(r, Rest(r)) \/ Continue(r, <<x>> \o Rest(r))
  BY <1>1, <1>2 DEF DeleteFile
<1>10. QED BY <1>3, <1>4, <1>5, <1>6, <1>8, <1>9, ContinueShape, StopShape

LEMMA RmShape ==
  ASSUME LikeAlso = {}, ShapeInv, NEW r \in Request, Rm(r)
  PROVE  Shape(r)'
<1>1. PICK j : j = Head(jobs[r])
  OBVIOUS
<1>2. /\ TypeInv /\ j.do = "rm" /\ j \in Job /\ status[r] = "running"
  BY <1>1, Running DEF ShapeInv, Rm
<1>3. PICK p \in Path : p = j.src
  BY <1>2, JobData
<1>4. PICK c \in Call : c = call[r]
  BY <1>2, ShapeRunning
<1>5. PICK js \in Stacks(c) : js = jobs[r] /\ js # <<>> /\ Rest(r) = Tail(js)
  BY <1>2, <1>4, ShapeRunning
<1>6. Tail(js) = <<>> /\ (j = c \/ (c.do = "mv" /\ j = RmJob(c.src)))
  BY <1>1, <1>2, <1>5, HeadIs
<1>7. \/ Stop(r) \/ Continue(r, Rest(r))
      \/ \E S \in SUBSET Path : /\ \A q \in S : AtOrAbove(p, q)
                               /\ Continue(r, <<RowsJob(S)>> \o Rest(r))
  <2>1. \A q \in {p} : AtOrAbove(p, q)
    BY DEF AtOrAbove
  <2>2. PICK matched \in SUBSET Path :
          matched = {q \in Path : Has(rows, q) /\ (q = p \/ IsLike(p, q))}
    OBVIOUS
  <2>3. \A q \in matched : AtOrAbove(p, q)
    BY <2>2, LikeIsBelow
  <2>4. \/ Stop(r) \/ Continue(r, Rest(r))
        \/ Continue(r, <<RowsJob({p})>> \o Rest(r))
        \/ Continue(r, <<RowsJob(matched)>> \o Rest(r))
    BY <1>1, <1>3, <2>2 DEF Rm
  <2>5. QED BY <2>1, <2>3, <2>4
<1>8. ASSUME NEW S \in SUBSET Path, \A q \in S : AtOrAbove(p, q),
             Continue(r, <<RowsJob(S)>> \o Rest(r))
      PROVE  Shape(r)'
  <2>1. PICK x : x = RowsJob(S)
    OBVIOUS
  <2>2. <<x>> \o Tail(js) \in Stacks(c)
    <3>1. CASE j = c
      <4>1. c.do = "rm" /\ \A q \in S : Owns(c, q)
        BY <1>2, <1>3, <1>8, <3>1 DEF Owns
      <4>2. x \in Later(c)
        BY <2>1, <4>1 DEF Later
      <4>3. QED BY <1>5, <1>6, <4>2, OneMore
    <3>2. CASE c.do = "mv" /\ j = RmJob(c.src)
      <4>1. c.src = p
        BY <1>3, <3>2 DEF RmJob
      <4>2. x \in Removals(c)
        BY <1>8, <2>1, <4>1 DEF Removals
      <4>3. QED BY <1>5, <1>6, <3>2, <4>2, OneMore
    <3>3. QED BY <1>6, <3>1, <3>2
  <2>3. QED BY <1>2, <1>4, <1>5, <1>8, <2>1, <2>2, ContinueShape
<1>9. QED BY <1>2, <1>5, <1>6, <1>7, <1>8, ContinueShape, StopShape

LEMMA RowGoneShape ==
  ASSUME ShapeInv, NEW r \in Request, status[r] = "running", Head(jobs[r]).do = "rows",
         NEW p, RowGone(r, p, Head(jobs[r]).paths \ {p})
  PROVE  Shape(r)'
<1>1. PICK j : j = Head(jobs[r])
  OBVIOUS
<1>2. PICK c \in Call : c = call[r]
  BY ShapeRunning
<1>3. PICK js \in Stacks(c) : js = jobs[r] /\ js # <<>> /\ Rest(r) = Tail(js)
  BY <1>2, ShapeRunning
<1>4. PICK S : S = j.paths \ {p}
  OBVIOUS
<1>5. /\ Tail(js) = <<>> /\ c.do \in {"rm", "delete_file", "mv"}
      /\ \A q \in S : q \in Path /\ AtOrAbove(c.src, q) /\ Owns(c, q)
  BY <1>1, <1>3, <1>4, HeadIs
<1>6. Continue(r, (IF S = {} THEN <<>> ELSE <<RowsJob(S)>>) \o Rest(r)) /\ TypeInv
  BY <1>1, <1>4 DEF RowGone, ShapeInv
<1>7. RowsJob(S) \in Later(c) \/ (c.do = "mv" /\ RowsJob(S) \in Removals(c))
  BY <1>5 DEF Later, Removals
<1>8. PICK x : x = RowsJob(S)
  OBVIOUS
<1>9. <<x>> \o Tail(js) \in Stacks(c)
  BY <1>3, <1>5, <1>7, <1>8, OneMore
<1>10. CASE S = {}
  <2>1. Continue(r, <<>> \o <<>>) /\ <<>> \o <<>> = <<>>
    BY <1>3, <1>5, <1>6, <1>10, ConcatEmptySeq, EmptySeq
  <2>2. QED BY <1>6, <2>1, ContinueShape
<1>11. CASE S # {}
  <2>1. Continue(r, <<x>> \o Tail(js))
    BY <1>3, <1>6, <1>8, <1>11
  <2>2. QED BY <1>2, <1>6, <1>9, <2>1, ContinueShape
<1>12. QED BY <1>10, <1>11

LEMMA RmSingleShape ==
  ASSUME ShapeInv, NEW r \in Request, RmSingle(r)
  PROVE  Shape(r)'
<1>1. PICK j : j = Head(jobs[r])
  OBVIOUS
<1>2. TypeInv /\ j.do = "rows" /\ status[r] = "running"
  BY <1>1, Running DEF ShapeInv, RmSingle
<1>3. PICK p \in j.paths : \/ Wait(r, AwaitOf("rmobj", p, {}, FALSE))
                           \/ RowGone(r, p, j.paths \ {p})
  BY <1>1 DEF RmSingle
<1>4. CASE Wait(r, AwaitOf("rmobj", p, {}, FALSE))
  <2>1. PICK w : w = AwaitOf("rmobj", p, {}, FALSE)
    OBVIOUS
  <2>2. w.op = "rmobj" /\ w.key = p
    BY <2>1 DEF AwaitOf
  <2>3. QED BY <1>1, <1>2, <1>3, <1>4, <2>1, <2>2, ShapeRunning, WaitShape
<1>5. QED BY <1>1, <1>2, <1>3, <1>4, RowGoneShape

LEMMA CpShape ==
  ASSUME ShapeInv, NEW r \in Request, Cp(r)
  PROVE  Shape(r)'
<1>1. PICK j : j = Head(jobs[r])
  OBVIOUS
<1>2. TypeInv /\ j.do = "cp" /\ j \in Job /\ status[r] = "running" /\ j.dst \in Path
  BY <1>1, Running DEF ShapeInv, Cp
<1>3. PICK c \in Call : c = call[r]
  BY <1>2, ShapeRunning
<1>4. PICK js \in Stacks(c) : js = jobs[r] /\ js # <<>> /\ Rest(r) = Tail(js)
  BY <1>2, <1>3, ShapeRunning
<1>5. AtOrAbove(c.dst, j.dst) /\ c.do \in {"cp", "mv"}
  <2>1. AtOrAbove(c.dst, j.dst)
    BY <1>1, <1>2, <1>4, HeadIs DEF CopyKinds
  <2>2. c.do \in {"cp", "mv"}
    <3>1. j = c \/ j \in Later(c) \/ j \in Removals(c) \/ c.do \in {"cp", "mv"}
      BY <1>1, <1>4, Heads
    <3>2. j \notin Later(c) /\ j \notin Removals(c)
      BY <1>2 DEF Later, Removals, RowsJob, RmJob
    <3>3. QED BY <1>2, <3>1, <3>2
  <2>3. QED BY <2>1, <2>2
<1>6. \A x \in Copies(c) : <<x>> \o Rest(r) \in Stacks(c)
  BY <1>1, <1>2, <1>4, <1>5, OneMore DEF CopyKinds
<1>7. ASSUME NEW x \in Job, x.do \in CopyKinds, x.dst = j.dst, Continue(r, <<x>> \o Rest(r))
      PROVE  Shape(r)'
  <2>1. x \in Copies(c)
    BY <1>5, <1>7 DEF Copies
  <2>2. QED BY <1>2, <1>3, <1>6, <1>7, <2>1, ContinueShape
<1>8. PICK src \in Names : src = j.src
  BY <1>2, JobData
<1>9. CASE Stop(r)
  BY <1>2, <1>9, StopShape
<1>10. CASE Continue(r, <<FetchJob(src, j.dst, {})>> \o Rest(r))
  <2>1. PICK x : x = FetchJob(src, j.dst, {})
    OBVIOUS
  <2>2. x \in Job /\ x.do \in CopyKinds /\ x.dst = j.dst
    BY <1>2, <2>1 DEF FetchJob, Job, CopyKinds, Content
  <2>3. QED BY <1>7, <1>10, <2>1, <2>2
<1>11. CASE /\ TypeOf(rows, src) = "symlink"
            /\ Continue(r, <<[do |-> "symlink", dst |-> j.dst, target |-> rows[src].target]>> \o Rest(r))
  <2>1. PICK x : x = [do |-> "symlink", dst |-> j.dst, target |-> rows[src].target]
    OBVIOUS
  <2>2. src \in Path /\ rows[src] \in Row
    BY <1>2, <1>11 DEF TypeOf, Has, TypeInv, TypeOK
  <2>3. rows[src].target \in Target \cup {NoTarget}
    BY <2>2 DEF Row
  <2>4. x \in Job /\ x.do \in CopyKinds /\ x.dst = j.dst
    BY <1>2, <2>1, <2>3 DEF Job, CopyKinds
  <2>5. QED BY <1>7, <1>11, <2>1, <2>4
<1>12. ASSUME NEW kids \in SUBSET Name,
              Continue(r, (IF kids = {} THEN <<>> ELSE <<EntriesJob(src, j.dst, kids)>>) \o Rest(r))
       PROVE  Shape(r)'
  <2>1. CASE kids = {}
    <3>1. <<>> \o Rest(r) = Rest(r)
      BY <1>2, RunningJob, ConcatEmptySeq
    <3>2. Continue(r, Rest(r))
      BY <1>12, <2>1, <3>1
    <3>3. QED BY <1>2, <3>2, RestShape, ContinueShape
  <2>2. CASE kids # {}
    <3>1. PICK x : x = EntriesJob(src, j.dst, kids)
      OBVIOUS
    <3>2. x \in Job /\ x.do \in CopyKinds /\ x.dst = j.dst
      BY <1>2, <3>1, PathIsNames DEF Job, CopyKinds, EntriesJob
    <3>3. QED BY <1>7, <1>12, <2>2, <3>1, <3>2
  <2>3. QED BY <2>1, <2>2
<1>13. PICK kids \in SUBSET Name :
         kids = {PathName(q) : q \in Children(WithDirs(rows, DirsAbove(j.dst) \cup ({j.dst} \ {Root})), src)}
  BY NameOfPath DEF Children
<1>14. QED BY <1>1, <1>8, <1>9, <1>10, <1>11, <1>12, <1>13 DEF Cp

LEMMA CpEntryShape ==
  ASSUME ShapeInv, NEW r \in Request, CpEntry(r)
  PROVE  Shape(r)'
<1>1. PICK j : j = Head(jobs[r])
  OBVIOUS
<1>2. TypeInv /\ j.do = "entries" /\ j \in Job /\ status[r] = "running"
  BY <1>1, Running DEF ShapeInv, CpEntry
<1>3. PICK c \in Call : c = call[r]
  BY <1>2, ShapeRunning
<1>4. PICK js \in Stacks(c) : js = jobs[r] /\ js # <<>> /\ Rest(r) = Tail(js)
  BY <1>2, <1>3, ShapeRunning
<1>5. AtOrAbove(c.dst, j.dst) /\ c.do \in {"cp", "mv"}
  <2>1. AtOrAbove(c.dst, j.dst)
    BY <1>1, <1>2, <1>4, HeadIs DEF CopyKinds
  <2>2. c.do \in {"cp", "mv"}
    <3>1. j = c \/ j \in Later(c) \/ j \in Removals(c) \/ c.do \in {"cp", "mv"}
      BY <1>1, <1>4, Heads
    <3>2. j \notin Later(c) /\ j \notin Removals(c)
      BY <1>2 DEF Later, Removals, RowsJob, RmJob
    <3>3. j # c
      BY <1>2 DEF Call
    <3>4. QED BY <1>2, <3>1, <3>2, <3>3
  <2>3. QED BY <2>1, <2>2
<1>6. j.src \in Names /\ j.dst \in Names /\ j.names \subseteq Name /\ c.dst \in Names
  BY <1>2, <1>5, JobData, PathIsNames DEF Call
<1>7. PICK n \in j.names :
        Continue(r, <<CpJob(Append(j.src, n), Append(j.dst, n), TRUE)>>
                    \o (IF j.names \ {n} = {} THEN <<>>
                        ELSE <<EntriesJob(j.src, j.dst, j.names \ {n})>>)
                    \o Rest(r))
  BY <1>1 DEF CpEntry
<1>8. PICK x : x = CpJob(Append(j.src, n), Append(j.dst, n), TRUE)
  OBVIOUS
<1>9. PICK y : y = EntriesJob(j.src, j.dst, j.names \ {n})
  OBVIOUS
<1>10. x \in Copies(c)
  <2>1. /\ Append(j.src, n) \in Names /\ Append(j.dst, n) \in Names
        /\ AtOrAbove(j.dst, Append(j.dst, n))
    BY <1>6, EntryBelow
  <2>2. AtOrAbove(c.dst, Append(j.dst, n))
    BY <1>5, <1>6, <2>1, AboveTransitive
  <2>3. x \in Job /\ x.do \in CopyKinds /\ x.dst = Append(j.dst, n)
    BY <1>8, <2>1 DEF CpJob, Job, CopyKinds
  <2>4. QED BY <1>5, <2>2, <2>3 DEF Copies
<1>11. y \in Copies(c)
  <2>1. y \in Job /\ y.do \in CopyKinds /\ y.dst = j.dst
    BY <1>6, <1>9 DEF EntriesJob, Job, CopyKinds
  <2>2. QED BY <1>5, <2>1 DEF Copies
<1>12. CASE j.names \ {n} = {}
  <2>1. <<x>> \o Rest(r) \in Stacks(c)
    BY <1>1, <1>2, <1>4, <1>5, <1>10, OneMore DEF CopyKinds
  <2>2. <<x>> \o <<>> \o Rest(r) = <<x>> \o Rest(r)
    BY <1>10, ConcatEmptySeq
  <2>3. Continue(r, <<x>> \o Rest(r))
    BY <1>7, <1>8, <1>12, <2>2
  <2>4. QED BY <1>2, <1>3, <2>1, <2>3, ContinueShape
<1>13. CASE j.names \ {n} # {}
  <2>1. <<x>> \o <<y>> \o Rest(r) \in Stacks(c)
    BY <1>1, <1>2, <1>4, <1>5, <1>10, <1>11, OneMore DEF CopyKinds
  <2>2. Continue(r, <<x>> \o <<y>> \o Rest(r))
    BY <1>7, <1>8, <1>9, <1>13
  <2>3. QED BY <1>2, <1>3, <2>1, <2>2, ContinueShape
<1>14. QED BY <1>12, <1>13

LEMMA MvShape ==
  ASSUME ShapeInv, NEW r \in Request, Mv(r)
  PROVE  Shape(r)'
<1>1. PICK j : j = Head(jobs[r])
  OBVIOUS
<1>2. TypeInv /\ j.do = "mv" /\ j \in Job /\ status[r] = "running"
  BY <1>1, Running DEF ShapeInv, Mv
<1>3. PICK c \in Call : c = call[r]
  BY <1>2, ShapeRunning
<1>4. PICK js \in Stacks(c) : js = jobs[r] /\ js # <<>> /\ Rest(r) = Tail(js)
  BY <1>2, <1>3, ShapeRunning
<1>5. j = c /\ Tail(js) = <<>>
  BY <1>1, <1>2, <1>4, HeadIs
<1>6. \/ Stop(r)
      \/ \E rec \in BOOLEAN, y \in Removals(c) : Continue(r, <<CpJob(j.src, j.dst, rec), y>> \o Rest(r))
  <2>1. RmJob(j.src) \in Removals(c) /\ RowsJob({j.src}) \in Removals(c)
    BY <1>2, <1>5, JobData DEF Removals, AtOrAbove
  <2>2. QED BY <1>1, <2>1 DEF Mv
<1>7. ASSUME NEW rec \in BOOLEAN, NEW y \in Removals(c),
             Continue(r, <<CpJob(j.src, j.dst, rec), y>> \o Rest(r))
      PROVE  Shape(r)'
  <2>1. PICK x : x = CpJob(j.src, j.dst, rec)
    OBVIOUS
  <2>2. x \in Job /\ x.do = "cp" /\ x.dst = c.dst
    BY <1>2, <1>5, <2>1, JobData, PathIsNames DEF CpJob, Job
  <2>3. x \in Copies(c)
    BY <1>2, <1>5, <2>2 DEF Copies, CopyKinds, AtOrAbove
  <2>4. <<x>> \in Seq(Copies(c)) /\ <<y>> \in Bases(c)
    BY <1>2, <1>5, <2>3 DEF Bases
  <2>5. <<x>> \o <<y>> \in Stacks(c)
    BY <2>4, MoreCopies
  <2>6. <<x, y>> \o Rest(r) = <<x>> \o <<y>>
    <3>1. <<x, y>> \in Seq({x, y}) /\ <<x>> \in Seq({x, y}) /\ <<y>> \in Seq({x, y})
      OBVIOUS
    <3>2. <<x, y>> \o Rest(r) = <<x, y>>
      BY <1>4, <1>5, <3>1, ConcatEmptySeq
    <3>3. PICK s \in Seq({x, y}) : s = <<x>> \o <<y>>
      BY <3>1, ConcatProperties
    <3>4. PICK u \in Seq({x, y}) : u = <<x, y>>
      BY <3>1
    <3>5. Len(s) = 2 /\ s[1] = x /\ s[2] = y
      BY <3>1, <3>3, ConcatProperties
    <3>6. Len(u) = 2 /\ u[1] = x /\ u[2] = y
      BY <3>4
    <3>7. \A i \in 1..Len(s) : s[i] = u[i]
      BY <3>5, <3>6
    <3>8. s = u
      BY <3>5, <3>6, <3>7, SeqEqual
    <3>9. QED BY <3>2, <3>3, <3>4, <3>8
  <2>7. QED BY <1>2, <1>3, <1>7, <2>1, <2>5, <2>6, ContinueShape
<1>8. QED BY <1>2, <1>6, <1>7, StopShape

\* Actions that only finish the job, or end the call.
LEMMA PlainShape ==
  ASSUME ShapeInv, NEW r \in Request, status[r] = "running", Stop(r) \/ Continue(r, Rest(r))
  PROVE  Shape(r)'
BY ShapeRunning, RestShape, StopShape, ContinueShape

LEMMA ResumeShape ==
  ASSUME ShapeInv, NEW r \in Request, Resume(r)
  PROVE  Shape(r)'
<1>1. PICK w \in Await : w = await[r] /\ w # NoAwait
  BY DEF ShapeInv, TypeInv, Resume
<1>2. TypeInv /\ status[r] = "running"
  BY <1>1 DEF ShapeInv, TypeInv, TypeOK
<1>3. CASE /\ w.op = "get"
           /\ Continue(r, <<WriteJob(Head(jobs[r]).dst, OrEmpty(w.data) \cup Head(jobs[r]).data)>>
                           \o Rest(r))
  <2>1. Head(jobs[r]).do = "fetch"
    BY <1>1, <1>3 DEF ShapeInv, TypeInv
  <2>2. OrEmpty(w.data) \in Content
    BY DEF Await, OrEmpty, Content
  <2>3. QED BY <1>2, <1>3, <2>1, <2>2, FetchedShape
<1>4. CASE Continue(r, Rest(r))
  BY <1>2, <1>4, PlainShape
<1>5. CASE w.op = "rmobj" /\ RowGone(r, w.key, Head(jobs[r]).paths \ {w.key})
  <2>1. Head(jobs[r]).do = "rows"
    BY <1>1, <1>5 DEF ShapeInv, TypeInv
  <2>2. QED BY <1>2, <1>5, <2>1, RowGoneShape
<1>6. QED BY <1>1, <1>3, <1>4, <1>5 DEF Resume

LEMMA LandsShape ==
  ASSUME ShapeInv, NEW r \in Request, R2Lands(r)
  PROVE  Shape(r)'
<1>1. /\ TypeInv /\ status[r] = "running" /\ jobs'[r] = jobs[r] /\ call'[r] = call[r]
      /\ await[r] # NoAwait /\ await'[r].op = await[r].op /\ await'[r].key = await[r].key
      /\ await'[r].data = IF await[r].op = "get" THEN objects[await[r].key] ELSE await[r].data
  BY Lands, AwaitAssumption DEF ShapeInv, Alone
<1>2. jobs[r] \in Stacks(call[r]) /\ Linked(r)
  BY <1>1, ShapeRunning
<1>3. QED BY <1>1, <1>2 DEF Shape, Linked

LEMMA DeleteFailsShape ==
  ASSUME ShapeInv, NEW r \in Request, R2DeleteFails(r)
  PROVE  Shape(r)'
<1>1. PICK w \in Await : w = await[r] /\ w # NoAwait
  BY DEF ShapeInv, TypeInv, R2DeleteFails
<1>2. TypeInv /\ status[r] = "running"
  BY <1>1 DEF ShapeInv, TypeInv, TypeOK
<1>3. PICK x : x = [w EXCEPT !.landed = TRUE]
  OBVIOUS
<1>4. x.op = w.op /\ x.key = w.key /\ x.data = w.data
  BY <1>3 DEF Await
<1>5. await'[r] = x /\ jobs' = jobs /\ call' = call /\ status' = status
  BY <1>1, <1>2, <1>3 DEF R2DeleteFails, TypeInv
<1>6. jobs[r] \in Stacks(call[r]) /\ Linked(r)
  BY <1>2, ShapeRunning
<1>7. QED BY <1>1, <1>4, <1>5, <1>6 DEF Shape, Linked

LEMMA ActsShape ==
  ASSUME LikeAlso = {}, ShapeInv, NEW r \in Request, Acts(r)
  PROVE  Shape(r)'
<1>1. status[r] = "running"
  BY ActsLocal DEF ShapeInv
<1>2. ASSUME TooLong(r) \/ Mkdir(r) \/ Symlink(r) \/ R2Fails(r) PROVE Shape(r)'
  <2>1. Stop(r) \/ Continue(r, Rest(r))
    BY <1>2 DEF TooLong, Mkdir, Symlink, R2Fails
  <2>2. QED BY <1>1, <2>1, PlainShape
<1>3. CASE Work(r)
  BY <1>2, <1>3, WriteShape, AppendFileShape, FetchShape, DeleteFileShape, RmShape, RmSingleShape,
     CpShape, CpEntryShape, MvShape DEF Work
<1>4. QED BY <1>2, <1>3, LandsShape, DeleteFailsShape, ResumeShape DEF Acts

LEMMA ArriveShape ==
  ASSUME TypeInv, NEW r \in Request, NEW c \in Asked, Arrive(r, c)
  PROVE  Shape(r)'
<1>1. c \in Call
  BY CallAssumption
<1>2. /\ jobs'[r] = <<c>> /\ call'[r] = c /\ await'[r] = NoAwait
  BY DEF Arrive, TypeInv, TypeOK
<1>3. <<c>> \in Stacks(c)
  BY <1>1, StacksAre
<1>4. QED BY <1>2, <1>3 DEF Shape, Linked

LEMMA ShapeInvInit == Init => ShapeInv
BY TypeInvInit DEF Init, ShapeInv, Shape

LEMMA ShapeInvStep ==
  ASSUME LikeAlso = {}, ShapeInv, [Next]_vars
  PROVE  ShapeInv'
<1>1. TypeInv /\ TypeInv'
  BY TypeInvStep DEF ShapeInv
<1>2. ASSUME NEW r \in Request PROVE Shape(r)'
  <2>1. CASE Idles(r)
    BY <2>1 DEF ShapeInv, Shape, Linked, Idles
  <2>2. CASE \E c \in Asked : Arrive(r, c)
    BY <1>1, <2>2, ArriveShape
  <2>3. CASE status'[r] = "idle"
    BY <2>3 DEF Shape
  <2>4. CASE Acts(r)
    BY <2>4, ActsShape
  <2>5. QED BY <1>1, <2>1, <2>2, <2>3, <2>4, StepCases
<1>3. QED BY <1>1, <1>2 DEF ShapeInv

----------------------------------------------------------------------------
(* What a step touches. *)

Kept(p) == rows'[p] = rows[p] /\ objects'[p] = objects[p]

\* A step of r keeps p, or p is one of its call's own, or a directory made on the way.
Touches(r, p) ==
  \/ Kept(p)
  \/ Owns(call[r], p)
  \/ OnTheWay(call[r], p) /\ rows[p] = NoRow /\ rows'[p] = DirRow /\ objects'[p] = objects[p]

LEMMA CallPaths ==
  ASSUME NEW c \in Call
  PROVE  /\ c.do \notin {"rm", "delete_file"} => c.dst \in Path
         /\ c.do \in {"rm", "delete_file", "cp", "mv"} => c.src \in Path
         /\ c.do \in {"write", "append", "mkdir", "mkdir_p", "symlink", "rm", "delete_file", "cp", "mv"}
BY DEF Call

\* The places a job writes to are its call's, or on its way.
LEMMA PlacesOwned ==
  ASSUME NEW c \in Call, c.do \notin {"rm", "delete_file"}, NEW p \in Path, AtOrAbove(c.dst, p),
         c.do \notin {"cp", "mv"} => p = c.dst
  PROVE  /\ Owns(c, p)
         /\ c.do # "mkdir" => \A d \in DirsAbove(p) : Owns(c, d) \/ OnTheWay(c, d)
<1>1. Owns(c, p)
  BY DEF Owns
<1>2. ASSUME c.do # "mkdir", NEW d \in DirsAbove(p) PROVE Owns(c, d) \/ OnTheWay(c, d)
  <2>1. AtOrAbove(c.dst, d) \/ d \in DirsAbove(c.dst)
    BY <1>2, CallPaths, DirsOfBelow
  <2>2. c.do \in {"cp", "mv"} /\ AtOrAbove(c.dst, d) => Owns(c, d)
    BY DEF Owns
  <2>3. QED BY <1>2, <2>1, <2>2 DEF OnTheWay
<1>3. QED BY <1>1, <1>2

\* The job that runs, and its places.
LEMMA JobPlaces ==
  ASSUME ShapeInv, NEW r \in Request, status[r] = "running", NEW j, j = Head(jobs[r])
  PROVE  /\ j.do \in CopyKinds \cup {"mkdir", "mkdir_p"} /\ j.dst \in Path =>
              /\ Owns(call[r], j.dst)
              /\ j.do # "mkdir" => \A d \in DirsAbove(j.dst) : Owns(call[r], d) \/ OnTheWay(call[r], d)
         /\ j.do = "rows" => \A q \in j.paths : Owns(call[r], q)
<1>1. PICK c \in Call : c = call[r]
  BY ShapeRunning
<1>2. PICK js \in Stacks(c) : js = jobs[r] /\ js # <<>>
  BY <1>1, ShapeRunning
<1>3. ASSUME j.do \in CopyKinds \cup {"mkdir", "mkdir_p"}, j.dst \in Path
      PROVE  /\ Owns(c, j.dst)
             /\ j.do # "mkdir" => \A d \in DirsAbove(j.dst) : Owns(c, d) \/ OnTheWay(c, d)
  <2>1. AtOrAbove(c.dst, j.dst) /\ c.do \notin {"rm", "delete_file"}
    BY <1>2, <1>3, HeadIs
  <2>2. c.do \notin {"cp", "mv"} => j.dst = c.dst
    BY <1>2, <1>3, HeadIs, SMTT(30)
  <2>3. c.do = "mkdir" => j.do = "mkdir"
    <3>1. c.do = "mkdir" => j = c
      <4>1. \/ j = c \/ j \in Later(c) \/ c.do \in {"mv", "cp"}
        BY <1>2, Heads
      <4>2. c.do = "mkdir" => Later(c) = {}
        BY DEF Later
      <4>3. QED BY <4>1, <4>2
    <3>2. QED BY <3>1
  <2>4. QED BY <1>3, <2>1, <2>2, <2>3, PlacesOwned
<1>4. ASSUME j.do = "rows" PROVE \A q \in j.paths : Owns(c, q)
  BY <1>2, <1>4, HeadIs
<1>5. QED BY <1>1, <1>3, <1>4

\* Directories that are made.
LEMMA DirsTouched ==
  ASSUME TypeInv, NEW r \in Request, NEW S \in SUBSET Path, NEW p \in Path,
         \A d \in S : Owns(call[r], d) \/ OnTheWay(call[r], d),
         rows'[p] = WithDirs(rows, S)[p], objects'[p] = objects[p]
  PROVE  Touches(r, p)
<1>1. WithDirs(rows, S)[p] = IF p \in S /\ rows[p] = NoRow THEN DirRow ELSE rows[p]
  BY WithDirsTyped, StoresTable
<1>2. QED BY <1>1 DEF Touches, Kept

LEMMA WriteTouches ==
  ASSUME ShapeInv, NEW r \in Request, Write(r), NEW p \in Path
  PROVE  Touches(r, p)
<1>1. PICK j : j = Head(jobs[r])
  OBVIOUS
<1>2. TypeInv /\ j.do = "write" /\ status[r] = "running" /\ j \in Job
  BY <1>1, Running DEF ShapeInv, Write
<1>3. PICK q \in Path : q = j.dst /\ j.data \in Content
  BY <1>2, JobData
<1>4. Owns(call[r], q) /\ \A d \in DirsAbove(q) : Owns(call[r], d) \/ OnTheWay(call[r], d)
  BY <1>1, <1>2, <1>3, JobPlaces DEF CopyKinds
<1>5. PICK D \in SUBSET Path : D = DirsAbove(q)
  BY DirsArePaths
<1>6. PICK t \in Table : t = WithDirs(rows, D)
  BY <1>2, StoresTable, WithDirsTyped
<1>7. objects' = objects /\ (rows' = rows \/ rows' = t \/ rows' = Upsert(t, q, "inline", j.data))
  BY <1>1, <1>3, <1>5, <1>6 DEF Write, NoChange
<1>8. p # q => rows'[p] = rows[p] \/ rows'[p] = t[p]
  <2>1. \A x \in Path \ {q} : Upsert(t, q, "inline", j.data)[x] = t[x]
    BY <1>3, UpsertTyped
  <2>2. QED BY <1>7, <2>1
<1>9. CASE p = q
  BY <1>4, <1>9 DEF Touches
<1>10. CASE rows'[p] = rows[p]
  BY <1>7, <1>10 DEF Touches, Kept
<1>11. CASE rows'[p] = t[p]
  BY <1>2, <1>4, <1>5, <1>6, <1>7, <1>11, DirsTouched
<1>12. QED BY <1>8, <1>9, <1>10, <1>11

LEMMA MkdirTouches ==
  ASSUME ShapeInv, NEW r \in Request, Mkdir(r), NEW p \in Path
  PROVE  Touches(r, p)
<1>1. PICK j : j = Head(jobs[r])
  OBVIOUS
<1>2. TypeInv /\ j.do \in {"mkdir", "mkdir_p"} /\ status[r] = "running" /\ j \in Job
  BY <1>1, Running DEF ShapeInv, Mkdir
<1>3. PICK q \in Path : q = j.dst
  BY <1>2, JobData
<1>4. PICK S \in SUBSET Path : S = IF j.do = "mkdir_p" THEN DirsAbove(q) \cup {q} ELSE {q}
  BY DirsArePaths
<1>5. \A d \in S : Owns(call[r], d) \/ OnTheWay(call[r], d)
  BY <1>1, <1>2, <1>3, <1>4, JobPlaces
<1>6. objects' = objects /\ (rows' = rows \/ rows' = WithDirs(rows, S))
  BY <1>1, <1>3, <1>4 DEF Mkdir, NoChange
<1>7. CASE rows' = rows
  BY <1>6, <1>7 DEF Touches, Kept
<1>8. CASE rows' = WithDirs(rows, S)
  BY <1>2, <1>5, <1>6, <1>8, DirsTouched
<1>9. QED BY <1>6, <1>7, <1>8

LEMMA SymlinkTouches ==
  ASSUME ShapeInv, NEW r \in Request, Symlink(r), NEW p \in Path
  PROVE  Touches(r, p)
<1>1. PICK j : j = Head(jobs[r])
  OBVIOUS
<1>2. TypeInv /\ j.do = "symlink" /\ status[r] = "running" /\ j \in Job
  BY <1>1, Running DEF ShapeInv, Symlink
<1>3. PICK q \in Path : q = j.dst /\ j.target \in Target \cup {NoTarget}
  BY <1>2, JobData
<1>4. Owns(call[r], q) /\ \A d \in DirsAbove(q) : Owns(call[r], d) \/ OnTheWay(call[r], d)
  BY <1>1, <1>2, <1>3, JobPlaces DEF CopyKinds
<1>5. PICK D \in SUBSET Path : D = DirsAbove(q)
  BY DirsArePaths
<1>6. PICK t \in Table : t = WithDirs(rows, D)
  BY <1>2, StoresTable, WithDirsTyped
<1>7. CASE NoChange
  BY <1>7 DEF NoChange, Touches, Kept
<1>8. CASE objects' = objects /\ rows' = UpsertLink(t, q, j.target)
  <2>1. CASE p = q
    BY <1>4, <2>1 DEF Touches
  <2>2. CASE p # q
    <3>1. rows'[p] = t[p]
      BY <1>3, <1>8, <2>2, UpsertLinkTyped
    <3>2. QED BY <1>2, <1>4, <1>5, <1>6, <1>8, <3>1, DirsTouched
  <2>3. QED BY <2>1, <2>2
<1>9. QED BY <1>1, <1>3, <1>5, <1>6, <1>7, <1>8 DEF Symlink

LEMMA CpTouches ==
  ASSUME ShapeInv, NEW r \in Request, Cp(r), NEW p \in Path
  PROVE  Touches(r, p)
<1>1. PICK j : j = Head(jobs[r])
  OBVIOUS
<1>2. TypeInv /\ j.do = "cp" /\ status[r] = "running" /\ j.dst \in Path
  BY <1>1, Running DEF ShapeInv, Cp
<1>3. PICK q \in Path : q = j.dst
  BY <1>2
<1>4. PICK S \in SUBSET Path : S = DirsAbove(q) \cup ({q} \ {Root})
  BY DirsArePaths
<1>5. \A d \in S : Owns(call[r], d) \/ OnTheWay(call[r], d)
  BY <1>1, <1>2, <1>3, <1>4, JobPlaces DEF CopyKinds
<1>6. objects' = objects /\ (rows' = rows \/ rows' = WithDirs(rows, S))
  BY <1>1, <1>3, <1>4 DEF Cp, NoChange
<1>7. CASE rows' = rows
  BY <1>6, <1>7 DEF Touches, Kept
<1>8. CASE rows' = WithDirs(rows, S)
  BY <1>2, <1>5, <1>6, <1>8, DirsTouched
<1>9. QED BY <1>6, <1>7, <1>8

LEMMA RowGoneTouches ==
  ASSUME ShapeInv, NEW r \in Request, status[r] = "running",
         NEW q, q \in Head(jobs[r]).paths, Head(jobs[r]).do = "rows",
         NEW left, RowGone(r, q, left), NEW p \in Path
  PROVE  Touches(r, p)
<1>1. Owns(call[r], q)
  BY JobPlaces
<1>2. objects' = objects /\ (p # q => rows'[p] = rows[p])
  BY DEF RowGone, ShapeInv, TypeInv, TypeOK
<1>3. QED BY <1>1, <1>2 DEF Touches, Kept

\* An R2 call is about a path of its call.
LEMMA AwaitOwned ==
  ASSUME ShapeInv, NEW r \in Request, await[r] # NoAwait, await[r].op # "get"
  PROVE  await[r] \in Await /\ status[r] = "running" /\ Owns(call[r], await[r].key)
<1>1. PICK w \in Await : w = await[r] /\ status[r] = "running"
  BY DEF ShapeInv, TypeInv, TypeOK
<1>2. PICK j : j = Head(jobs[r])
  OBVIOUS
<1>3. w.op \in {"put", "drop", "rmobj"} /\ w.key \in Path
  BY <1>1 DEF Await
<1>4. /\ w.op \in {"put", "drop"} => j.do = "write" /\ w.key = j.dst
      /\ w.op = "rmobj" => j.do = "rows" /\ w.key \in j.paths
  BY <1>1, <1>2, ShapeRunning DEF Linked
<1>5. QED BY <1>1, <1>2, <1>3, <1>4, JobPlaces DEF CopyKinds

LEMMA ActsTouch ==
  ASSUME ShapeInv, NEW r \in Request, Acts(r), NEW p \in Path
  PROVE  Touches(r, p)
<1>1. status[r] = "running" /\ TypeInv
  BY ActsLocal DEF ShapeInv
<1>2. ASSUME NoChange PROVE Touches(r, p)
  BY <1>2 DEF NoChange, Touches, Kept
<1>3. CASE RmSingle(r)
  <2>1. Head(jobs[r]).do = "rows"
    BY <1>1, <1>3, Running DEF RmSingle
  <2>2. PICK q \in Head(jobs[r]).paths : NoChange \/ RowGone(r, q, Head(jobs[r]).paths \ {q})
    BY <1>3 DEF RmSingle
  <2>3. QED BY <1>1, <1>2, <2>1, <2>2, RowGoneTouches
<1>4. CASE Work(r)
  <2>1. ASSUME TooLong(r) \/ AppendFile(r) \/ Fetch(r) \/ DeleteFile(r) \/ Rm(r) \/ CpEntry(r) \/ Mv(r)
        PROVE  NoChange
    BY <2>1 DEF TooLong, AppendFile, Fetch, DeleteFile, Rm, CpEntry, Mv
  <2>2. QED BY <1>2, <1>3, <1>4, <2>1, WriteTouches, MkdirTouches, SymlinkTouches, CpTouches DEF Work
<1>5. CASE R2Lands(r)
  <2>1. CASE p # await[r].key \/ await[r].op = "get"
    <3>1. rows' = rows /\ \A q \in Path \ {await[r].key} : objects'[q] = objects[q]
      BY <1>1, <1>5, Lands
    <3>2. await[r].op = "get" => objects'[await[r].key] = objects[await[r].key]
      BY <1>1, <1>5, Lands
    <3>3. QED BY <2>1, <3>1, <3>2 DEF Touches, Kept
  <2>2. CASE p = await[r].key /\ await[r].op # "get"
    BY <1>5, <2>2, AwaitOwned DEF Touches, R2Lands
  <2>3. QED BY <2>1, <2>2
<1>6. CASE R2Fails(r)
  <2>1. rows' = rows
    BY <1>6 DEF R2Fails
  <2>2. \/ objects' = objects
        \/ await[r].op = "put" /\ objects' = [objects EXCEPT ![await[r].key] = await[r].data]
    BY <1>6 DEF R2Fails
  <2>3. CASE objects' = objects
    BY <2>1, <2>3 DEF Touches, Kept
  <2>4. CASE await[r].op = "put" /\ objects' = [objects EXCEPT ![await[r].key] = await[r].data]
    <3>1. p # await[r].key => objects'[p] = objects[p]
      BY <1>1, <2>4 DEF TypeInv, TypeOK
    <3>2. p = await[r].key => Owns(call[r], p)
      BY <1>6, <2>4, AwaitOwned DEF R2Fails
    <3>3. QED BY <2>1, <3>1, <3>2 DEF Touches, Kept
  <2>5. QED BY <2>2, <2>3, <2>4
<1>7. CASE R2DeleteFails(r)
  BY <1>7 DEF R2DeleteFails, Touches, Kept
<1>8. CASE Resume(r)
  <2>1. PICK w \in Await : w = await[r] /\ w # NoAwait /\ w.key \in Path
    BY <1>8 DEF Resume, ShapeInv, TypeInv, Await
  <2>2. CASE UNCHANGED <<rows, objects>>
    BY <2>2 DEF Touches, Kept
  <2>3. CASE w.op = "put" /\ rows' = Upsert(rows, w.key, "r2", {}) /\ UNCHANGED objects
    <3>1. p # w.key => rows'[p] = rows[p]
      BY <1>1, <2>1, <2>3, UpsertTyped, StoresTable DEF Content
    <3>2. p = w.key => Owns(call[r], p)
      BY <2>1, <2>3, AwaitOwned
    <3>3. QED BY <2>3, <3>1, <3>2 DEF Touches, Kept
  <2>4. CASE w.op = "rmobj" /\ RowGone(r, w.key, Head(jobs[r]).paths \ {w.key})
    <3>1. Head(jobs[r]).do = "rows" /\ w.key \in Head(jobs[r]).paths
      BY <1>1, <2>1, <2>4, ShapeRunning DEF Linked
    <3>2. QED BY <1>1, <2>4, <3>1, RowGoneTouches
  <2>5. QED BY <1>8, <2>1, <2>2, <2>3, <2>4 DEF Resume, NoChange
<1>9. QED BY <1>4, <1>5, <1>6, <1>7, <1>8 DEF Acts

LEMMA ShapeAlways ==
  ASSUME LikeAlso = {}
  PROVE  Spec => []ShapeInv
<1>1. ShapeInv /\ [Next]_vars => ShapeInv'
  BY ShapeInvStep
<1>2. QED BY <1>1, ShapeInvInit, PTL DEF Spec

\* The store changes by the steps of calls only.
LEMMA StoreSteps ==
  ASSUME [Next]_vars
  PROVE  UNCHANGED <<rows, objects>> \/ \E r \in Request : Acts(r)
<1>1. CASE UNCHANGED vars
  BY <1>1 DEF vars
<1>2. CASE Next
  BY <1>2 DEF Next, Finished, vars, Arrive, Reply, Acts
<1>3. QED BY <1>1, <1>2

LEMMA StepOnlyItsOwn ==
  ASSUME ShapeInv, [Next]_vars, NEW p \in Path, Entry(rows, objects, p)' # Entry(rows, objects, p)
  PROVE  \E r \in Request :
           /\ status[r] = "running"
           /\ \/ Owns(call[r], p)
              \/ OnTheWay(call[r], p) /\ ~Has(rows, p) /\ rows'[p] = DirRow
<1>1. ~Kept(p)
  BY EntrySame DEF Kept
<1>2. PICK r \in Request : Acts(r)
  BY <1>1, StoreSteps DEF Kept
<1>3. Touches(r, p) /\ status[r] = "running"
  BY <1>2, ActsTouch, ActsLocal DEF ShapeInv
<1>4. QED BY <1>1, <1>3 DEF Touches, Has

\* No call changes anything but the entries it is for and the free places on its way, which
\* become directories.
THEOREM TreeOnlyItsOwn ==
  ASSUME LikeAlso = {}
  PROVE  Spec => OnlyItsOwn
<1>1. ShapeInv /\ [Next]_vars =>
        [\A p \in Path :
           Entry(rows, objects, p)' # Entry(rows, objects, p) =>
             \E r \in Request :
               /\ status[r] = "running"
               /\ \/ Owns(call[r], p)
                  \/ OnTheWay(call[r], p) /\ ~Has(rows, p) /\ rows'[p] = DirRow]_vars
  BY StepOnlyItsOwn
<1>2. QED BY <1>1, ShapeAlways, PTL DEF Spec, OnlyItsOwn

----------------------------------------------------------------------------
(* What other calls leave alone, when callers keep their calls apart.      *)

CallInv ==
  /\ before \in [Request -> Trees \cup {NoCall}]
  /\ \A r \in Request : status[r] # "idle" => call[r] \in Call /\ before[r] \in Trees

StepsInv == TreeInv /\ ShapeInv /\ CallInv

LEMMA TreeTyped ==
  ASSUME NEW t \in Table, NEW objs \in Stored
  PROVE  Tree(t, objs) \in Trees
<1>1. \A p \in Path : Entry(t, objs, p) \in Entries \cup {NoRow}
  BY EntryFacts
<1>2. QED BY <1>1 DEF Tree, Trees

LEMMA StepsInvInit == Init => StepsInv
BY TreeInvInit, ShapeInvInit DEF Init, StepsInv, CallInv

LEMMA CallInvStep ==
  ASSUME TypeInv, CallInv, [Next]_vars
  PROVE  CallInv'
<1>1. before \in [Request -> Trees \cup {NoCall}]
  BY DEF CallInv
<1>2. Tree(rows, objects) \in Trees
  BY StoresTable, TreeTyped
<1>3. ASSUME NEW r \in Request, status'[r] # "idle" PROVE call'[r] \in Call /\ before'[r] \in Trees
  <2>1. CASE Idles(r)
    BY <1>3, <2>1 DEF Idles, CallInv
  <2>2. ASSUME NEW c \in Asked, Arrive(r, c) PROVE call'[r] \in Call /\ before'[r] \in Trees
    BY <1>1, <1>2, <2>2, CallAssumption DEF Arrive, TypeInv, TypeOK
  <2>3. CASE Acts(r)
    BY <2>3, ActsLocal DEF Alone, CallInv
  <2>4. QED BY <1>3, <2>1, <2>2, <2>3, StepCases
<1>4. before' \in [Request -> Trees \cup {NoCall}]
  <2>1. ASSUME NEW r \in Request, Acts(r) PROVE before' = before
    BY <2>1, ActsLocal DEF Alone
  <2>2. ASSUME NEW r \in Request, NEW c \in Asked, Arrive(r, c)
        PROVE  before' = [before EXCEPT ![r] = Tree(rows, objects)]
    BY <2>2 DEF Arrive
  <2>3. ASSUME NEW r \in Request, Reply(r) PROVE before' = [before EXCEPT ![r] = NoCall]
    BY <2>3 DEF Reply
  <2>4. CASE UNCHANGED vars
    BY <1>1, <2>4 DEF vars
  <2>5. CASE Next
    <3>1. \/ before' = before
          \/ \E r \in Request : \/ before' = [before EXCEPT ![r] = Tree(rows, objects)]
                               \/ before' = [before EXCEPT ![r] = NoCall]
      BY <2>1, <2>2, <2>3, <2>5 DEF Next, Acts, Finished, vars
    <3>2. QED BY <1>1, <1>2, <3>1
  <2>6. QED BY <2>4, <2>5
<1>5. QED BY <1>3, <1>4 DEF CallInv

LEMMA StepsInvStep ==
  ASSUME Serialize, LikeAlso = {}, StepsInv, [Next]_vars
  PROVE  StepsInv'
<1>1. TreeInv' /\ ShapeInv'
  BY TreeInvStep, ShapeInvStep DEF StepsInv
<1>2. CallInv'
  BY CallInvStep DEF StepsInv, TreeInv
<1>3. QED BY <1>1, <1>2 DEF StepsInv

LEMMA OwnsUnder ==
  ASSUME NEW c \in Call, NEW p \in Path, Owns(c, p)
  PROVE  Under(c, p)
<1>1. AtOrAbove(p, p)
  BY DEF AtOrAbove
<1>2. QED BY <1>1, CallPaths DEF Owns, Under, PathsOf

\* A step of another call leaves what is under the call of r.
LEMMA OthersKept ==
  ASSUME StepsInv, NEW r \in Request, NEW s \in Request \ {r}, status[r] # "idle", Acts(s),
         NEW p \in Path, Under(call[r], p)
  PROVE  Kept(p)
<1> SUFFICES ASSUME ~Kept(p) PROVE FALSE
  OBVIOUS
<1>1. /\ TypeInv /\ ShapeInv /\ TreeInv /\ call[r] \in Call
  BY DEF StepsInv, TreeInv, CallInv
<1>2. status[s] = "running" /\ call[s] \in Call
  BY <1>1, ActsLocal
<1>3. Touches(s, p)
  BY <1>1, ActsTouch
<1>4. PICK b \in PathsOf(call[r]) : AtOrAbove(b, p)
  BY DEF Under
<1>5. \A a \in PathsOf(call[s]) : Apart(a, b)
  BY <1>1, <1>2, <1>4 DEF TreeInv
<1>6. b \in Names /\ p \in Names
  BY <1>1, <1>4, CallsAreJobs, PathIsNames
<1>7. CASE Owns(call[s], p)
  <2>1. PICK a \in PathsOf(call[s]) : AtOrAbove(a, p)
    BY <1>2, <1>7, OwnsUnder DEF Under
  <2>2. a \in Names
    BY <1>2, <2>1, CallsAreJobs, PathIsNames
  <2>3. QED BY <1>4, <1>5, <1>6, <2>1, <2>2, AboveLinear DEF Apart
<1>8. CASE OnTheWay(call[s], p)
  <2>1. PICK a : a = call[s].dst
    OBVIOUS
  <2>2. a \in PathsOf(call[s]) /\ a \in Path /\ a \in Names /\ p \in DirsAbove(a)
    BY <1>2, <1>8, <2>1, CallPaths, PathIsNames DEF OnTheWay, PathsOf
  <2>3. AtOrAbove(p, a)
    BY <2>2, DirsArePaths
  <2>4. AtOrAbove(b, a)
    BY <1>4, <1>6, <2>2, <2>3, AboveTransitive
  <2>5. QED BY <1>5, <2>2, <2>4 DEF Apart
<1>9. QED BY <1>3, <1>7, <1>8 DEF Touches

----------------------------------------------------------------------------
(* What is written is read. *)

Now(p) == Entry(rows, objects, p)

Old(r) ==
  IF call[r].do = "append" /\ before[r][call[r].dst] # NoRow
  THEN OrEmpty(before[r][call[r].dst].bytes) ELSE {}

Want(r) == Old(r) \cup call[r].data

\* The path was free, or a file's.
Free(r) == before[r][call[r].dst] = NoRow \/ before[r][call[r].dst].type = "file"

\* From the read to the write, and from the row to the object: the path holds what it did or
\* what it is to hold, and what is on its way to it is what it is to hold.
WriteFree(r) ==
  LET p == call[r].dst
      j == Head(jobs[r])
      w == await[r]
  IN
  /\ status[r] = "ok" => Now(p) = FileEntry(Want(r))
  /\ status[r] = "running" =>
       /\ j.do \in {"append", "fetch"} => j.data = call[r].data /\ call[r].do = "append"
       /\ j.do = "fetch" => j.src = p
       /\ j.do = "write" => j.data = Want(r)
       /\ w = NoAwait => Now(p) = before[r][p]
       /\ w # NoAwait =>
            /\ w.op = "get" => /\ Now(p) = before[r][p] /\ w.key = p /\ InR2(rows, p)
                              /\ (w.landed => w.data = objects[p])
            /\ w.op = "put" => /\ TypeOf(rows, p) \in {"none", "file"}
                              /\ (w.landed => objects[p] = Want(r))
            /\ w.op = "drop" => Now(p) = FileEntry(Want(r)) /\ ~InR2(rows, p)

Writes(r) == status[r] \in {"running", "ok"} /\ call[r].do \in {"write", "append"}

WriteInv(r) ==
  Writes(r) =>
    /\ Free(r) => WriteFree(r)
    /\ ~Free(r) => /\ Now(call[r].dst) = before[r][call[r].dst]
                   /\ TypeOf(rows, call[r].dst) \notin {"none", "file"}

\* The job of a write or append.
LEMMA WritesHead ==
  ASSUME ShapeInv, NEW r \in Request, status[r] = "running", call[r].do \in {"write", "append"},
         NEW j, j = Head(jobs[r])
  PROVE  /\ TypeInv /\ j.dst = call[r].dst /\ call[r].dst \in Path /\ j.data \in Content
         /\ j.do \in {"write", "append", "fetch"} /\ Rest(r) = <<>>
         /\ j.do = "append" => j = call[r]
         /\ j.do \in {"append", "fetch"} => call[r].do = "append"
<1>1. PICK c \in Call : c = call[r]
  BY ShapeRunning
<1>2. PICK js \in Stacks(c) : js = jobs[r] /\ js # <<>> /\ Rest(r) = Tail(js)
  BY <1>1, ShapeRunning
<1>3. /\ TypeInv /\ j \in Job /\ c.dst \in Path
  BY <1>1, ShapeRunning, CallPaths
<1>4. Tail(js) = <<>> /\ (j = c \/ j \in Later(c))
  BY <1>1, <1>2, Heads
<1>5. j = c \/ (c.do = "append" /\ j.do \in {"fetch", "write"} /\ j.dst = c.dst)
  BY <1>1, <1>4 DEF Later
<1>6. j.data \in Content
  BY <1>1, <1>3, <1>5, JobData
<1>7. QED BY <1>1, <1>2, <1>3, <1>4, <1>5, <1>6

\* As long as the path holds what it held, what is read of it is what the append adds to.
LEMMA OldIsRead ==
  ASSUME TypeInv, NEW r \in Request, call[r].dst \in Path, Free(r),
         Now(call[r].dst) = before[r][call[r].dst]
  PROVE  /\ TypeOf(rows, call[r].dst) \in {"none", "file"}
         /\ call[r].do = "append" => OrEmpty(ReadOf(rows, objects, call[r].dst)) = Old(r)
         /\ \A q : q = Resolve(rows, call[r].dst) /\ InR2(rows, q) => q = call[r].dst
         /\ InR2(rows, call[r].dst) /\ call[r].do = "append" => OrEmpty(objects[call[r].dst]) = Old(r)
<1>1. PICK p \in Path : p = call[r].dst
  OBVIOUS
<1>2. rows \in Table /\ objects \in Stored
  BY StoresTable
<1>3. TypeOf(rows, p) \in {"none", "file"}
  BY <1>1, <1>2, EntryFacts DEF Free, Now, TypeOf
<1>4. /\ Resolve(rows, p) = IF Has(rows, p) THEN p ELSE None
      /\ ReadOf(rows, objects, p) = IF Has(rows, p) THEN Now(p).bytes ELSE Absent
  BY <1>2, <1>3, ReadNoLink DEF Now
<1>5. Has(rows, p) <=> before[r][p] # NoRow
  BY <1>1, <1>2, EntryFacts DEF Now
<1>6. call[r].do = "append" => OrEmpty(ReadOf(rows, objects, p)) = Old(r)
  BY <1>1, <1>4, <1>5 DEF Old, OrEmpty
<1>7. \A q : q = Resolve(rows, p) /\ InR2(rows, q) => q = p
  BY <1>4, EntryAssumption DEF InR2, Has
<1>8. InR2(rows, p) => ReadOf(rows, objects, p) = objects[p]
  <2>1. InR2(rows, p) => Has(rows, p) /\ rows[p].storage = "r2" /\ rows[p].type = "file"
    BY <1>2, <1>3, EntryFacts DEF InR2, Row
  <2>2. InR2(rows, p) => Now(p).bytes = objects[p]
    BY <1>2, <2>1, EntryFacts DEF Now
  <2>3. QED BY <1>4, <2>1, <2>2
<1>9. QED BY <1>1, <1>3, <1>6, <1>7, <1>8

\* Nothing changes but what r waits for, or nothing at all.
LEMMA WriteKept ==
  ASSUME TypeInv, NEW r \in Request, WriteInv(r), Idles(r), Kept(call[r].dst)
  PROVE  WriteInv(r)'
<1>1. PICK p : p = call[r].dst
  OBVIOUS
<1>2. /\ rows'[p] = rows[p] /\ objects'[p] = objects[p] /\ call'[r] = call[r] /\ before'[r] = before[r]
      /\ status'[r] = status[r] /\ jobs'[r] = jobs[r] /\ await'[r] = await[r]
  BY <1>1 DEF Kept, Idles
<1>3. Now(p)' = Now(p)
  BY <1>2, EntrySame DEF Now
<1>4. TypeOf(rows, p)' = TypeOf(rows, p) /\ InR2(rows, p)' = InR2(rows, p)
  BY <1>2 DEF TypeOf, InR2, Has
<1>5. Free(r)' = Free(r) /\ Want(r)' = Want(r) /\ Writes(r)' = Writes(r)
  BY <1>2 DEF Free, Want, Old, Writes
<1>6. WriteFree(r) => WriteFree(r)'
  BY <1>1, <1>2, <1>3, <1>4, <1>5 DEF WriteFree
<1>7. QED BY <1>1, <1>2, <1>3, <1>4, <1>5, <1>6 DEF WriteInv

\* An entry that is in its row does not depend on the bucket.
LEMMA EntryInRow ==
  ASSUME NEW t, NEW u, NEW objs, NEW os, NEW p, t[p] = u[p],
         ~InR2(t, p) \/ TypeOf(t, p) # "file"
  PROVE  Entry(t, objs, p) = Entry(u, os, p)
BY DEF Entry, Has, InR2, TypeOf

\* The call does not change while it is served.
LEMMA SameCall ==
  ASSUME NEW r \in Request, Alone(r)
  PROVE  /\ call'[r] = call[r] /\ before'[r] = before[r]
         /\ Free(r)' = Free(r) /\ Want(r)' = Want(r)
BY DEF Alone, Free, Want, Old

\* The ways a write goes on: it ends, has a job left, waits for R2.
LEMMA WriteEnds ==
  ASSUME TypeInv, NEW r \in Request, NEW p, p = call[r].dst, Continue(r, <<>>),
         Free(r) => Now(p)' = FileEntry(Want(r)),
         ~Free(r) => Now(p)' = before[r][p] /\ TypeOf(rows, p)' \notin {"none", "file"}
  PROVE  WriteInv(r)'
<1>1. status'[r] = "ok" /\ Alone(r)
  BY Continues
<1>2. call'[r] = call[r] /\ before'[r] = before[r] /\ Free(r)' = Free(r) /\ Want(r)' = Want(r)
  BY <1>1, SameCall
<1>3. Free(r) => WriteFree(r)'
  BY <1>1, <1>2 DEF WriteFree
<1>4. QED BY <1>2, <1>3 DEF WriteInv

LEMMA WriteGoesOn ==
  ASSUME TypeInv, NEW r \in Request, NEW p, p = call[r].dst, NoChange,
         Now(p) = before[r][p], ~Free(r) => TypeOf(rows, p) \notin {"none", "file"},
         NEW x, Continue(r, <<x>>), x.do \in {"fetch", "write"},
         Free(r) /\ x.do = "fetch" => x.data = call[r].data /\ call[r].do = "append" /\ x.src = p,
         Free(r) /\ x.do = "write" => x.data = Want(r)
  PROVE  WriteInv(r)'
<1>1. status'[r] = "running" /\ Alone(r) /\ Head(jobs'[r]) = x /\ await'[r] = NoAwait
  BY Continues
<1>2. call'[r] = call[r] /\ before'[r] = before[r] /\ Free(r)' = Free(r) /\ Want(r)' = Want(r)
  BY <1>1, SameCall
<1>3. Now(p)' = Now(p) /\ TypeOf(rows, p)' = TypeOf(rows, p)
  BY DEF NoChange, Now, TypeOf, Has, Entry, InR2
<1>4. Free(r) => WriteFree(r)'
  BY <1>1, <1>2, <1>3 DEF WriteFree
<1>5. QED BY <1>2, <1>3, <1>4 DEF WriteInv

LEMMA WriteWaits ==
  ASSUME TypeInv, NEW r \in Request, WriteInv(r), status[r] = "running", NEW p, p = call[r].dst,
         Writes(r), NEW w, w # NoAwait, w.landed = FALSE, Wait(r, w), w.op \in {"get", "put", "drop"},
         Free(r) /\ w.op = "get" => Now(p)' = before[r][p] /\ w.key = p /\ InR2(rows, p)',
         Free(r) /\ w.op = "put" => TypeOf(rows, p)' \in {"none", "file"},
         Free(r) /\ w.op = "drop" => Now(p)' = FileEntry(Want(r)) /\ ~InR2(rows, p)',
         ~Free(r) => Now(p)' = before[r][p] /\ TypeOf(rows, p)' \notin {"none", "file"}
  PROVE  WriteInv(r)'
<1>1. status'[r] = "running" /\ Alone(r) /\ jobs'[r] = jobs[r] /\ await'[r] = w
  BY Waits
<1>2. call'[r] = call[r] /\ before'[r] = before[r] /\ Free(r)' = Free(r) /\ Want(r)' = Want(r)
  BY <1>1, SameCall
<1>3. ASSUME Free(r) PROVE WriteFree(r)'
  <2>1. WriteFree(r)
    BY <1>3 DEF WriteInv
  <2>2. PICK j : j = Head(jobs[r])
    OBVIOUS
  <2>3. /\ j.do \in {"append", "fetch"} => j.data = call[r].data /\ call[r].do = "append"
        /\ j.do = "fetch" => j.src = p
        /\ j.do = "write" => j.data = Want(r)
    BY <2>1, <2>2 DEF WriteFree
  <2>4. Head(jobs'[r]) = j /\ status'[r] = "running" /\ await'[r] = w
    BY <1>1, <2>2
  <2>5. QED BY <1>2, <1>3, <2>3, <2>4 DEF WriteFree
<1>4. QED BY <1>2, <1>3 DEF WriteInv

\* What a write starts from.
LEMMA WriteRuns ==
  ASSUME ShapeInv, NEW r \in Request, WriteInv(r), status[r] = "running", call[r].do \in {"write", "append"},
         NEW p, p = call[r].dst, NEW j, j = Head(jobs[r])
  PROVE  /\ TypeInv /\ rows \in Table /\ objects \in Stored
         /\ p \in Path /\ j.dst = p /\ j.data \in Content /\ Rest(r) = <<>> /\ Writes(r)
         /\ j.do \in {"write", "append", "fetch"}
         /\ j.do \in {"append", "fetch"} => call[r].do = "append"
         /\ Free(r) => WriteFree(r)
         /\ Free(r) /\ j.do = "write" => j.data = Want(r)
         /\ Free(r) /\ j.do \in {"append", "fetch"} => j.data = call[r].data
         /\ Free(r) /\ j.do = "fetch" => j.src = p
         /\ await[r] = NoAwait => Now(p) = before[r][p]
         /\ ~Free(r) => Now(p) = before[r][p] /\ TypeOf(rows, p) \notin {"none", "file"}
<1>1. Writes(r)
  BY DEF Writes
<1>2. Free(r) => WriteFree(r)
  BY <1>1 DEF WriteInv
<1>3. QED BY <1>1, <1>2, WritesHead, StoresTable DEF WriteInv, WriteFree

LEMMA WriteWrites ==
  ASSUME ShapeInv, NEW r \in Request, WriteInv(r), call[r].do \in {"write", "append"}, Write(r)
  PROVE  WriteInv(r)'
<1>1. PICK p : p = call[r].dst
  OBVIOUS
<1>2. PICK j : j = Head(jobs[r])
  OBVIOUS
<1>3. status[r] = "running" /\ j.do = "write" /\ await[r] = NoAwait
  BY <1>2, Running DEF ShapeInv, Write
<1>4. /\ TypeInv /\ rows \in Table /\ objects \in Stored /\ p \in Path /\ j.dst = p /\ j.data \in Content
      /\ Rest(r) = <<>> /\ Writes(r) /\ (Free(r) => j.data = Want(r)) /\ Now(p) = before[r][p]
      /\ ~Free(r) => TypeOf(rows, p) \notin {"none", "file"}
  BY <1>1, <1>2, <1>3, WriteRuns
<1>5. Free(r) => TypeOf(rows, p) \in {"none", "file"}
  BY <1>1, <1>4, OldIsRead
<1>6. PICK t \in Table : t = WithDirs(rows, DirsAbove(p))
  BY <1>4, WithDirsTyped
<1>7. t[p] = rows[p] /\ TypeOf(t, p) = TypeOf(rows, p) /\ Now(p) = Entry(t, objects, p)
  <2>1. p \notin DirsAbove(p)
    BY <1>4, DirsArePaths
  <2>2. t[p] = rows[p]
    BY <1>4, <1>6, <2>1 DEF WithDirs
  <2>3. QED BY <2>2, EntrySame DEF Now, TypeOf, Has
<1>8. CASE Stop(r)
  BY <1>4, <1>8, Stops DEF WriteInv, Writes
<1>9. ASSUME NEW e \in BOOLEAN, rows' = t, objects' = objects, Wait(r, AwaitOf("put", p, j.data, e))
      PROVE  WriteInv(r)'
  <2>1. PICK w : w = AwaitOf("put", p, j.data, e)
    OBVIOUS
  <2>2. w.op = "put" /\ w.landed = FALSE /\ w # NoAwait
    <3>1. w \in Await
      BY <1>4, <2>1 DEF AwaitOf, Await
    <3>2. QED BY <2>1, <3>1, AwaitAssumption DEF AwaitOf
  <2>3. Now(p)' = Now(p) /\ TypeOf(rows, p)' = TypeOf(rows, p)
    BY <1>7, <1>9 DEF Now, TypeOf, Has, Entry, InR2
  <2>4. QED BY <1>1, <1>3, <1>4, <1>5, <1>9, <2>1, <2>2, <2>3, WriteWaits
<1>10. ASSUME rows' = Upsert(t, p, "inline", j.data), objects' = objects
       PROVE  /\ Free(r) => Now(p)' = FileEntry(Want(r)) /\ ~InR2(rows, p)'
              /\ ~Free(r) => Now(p)' = before[r][p] /\ TypeOf(rows, p)' \notin {"none", "file"}
  <2>1. PICK u \in Table : u = Upsert(t, p, "inline", j.data)
    BY <1>4, UpsertTyped
  <2>2. Now(p)' = Entry(u, objects, p) /\ (InR2(rows, p)' <=> InR2(u, p)) /\ TypeOf(rows, p)' = TypeOf(u, p)
    BY <1>10, <2>1 DEF Now, InR2, Has, TypeOf
  <2>3. CASE Free(r)
    BY <1>4, <1>5, <1>7, <2>1, <2>2, <2>3, UpsertMakesFile
  <2>4. CASE ~Free(r)
    <3>1. u[p].type = t[p].type /\ Entry(u, objects, p) = Entry(t, objects, p)
      BY <1>4, <1>7, <2>1, <2>4, UpsertKeepsOthers
    <3>2. u[p] # NoRow
      BY <1>4, <2>1, UpsertTyped, SeedAssumption
    <3>3. TypeOf(u, p) = TypeOf(t, p)
      BY <1>4, <1>7, <2>4, <3>1, <3>2 DEF TypeOf, Has
    <3>4. QED BY <1>4, <1>7, <2>2, <2>4, <3>1, <3>3
  <2>5. QED BY <2>3, <2>4
<1>11. CASE rows' = Upsert(t, p, "inline", j.data) /\ objects' = objects /\ Continue(r, <<>>)
  BY <1>1, <1>4, <1>10, <1>11, WriteEnds
<1>12. ASSUME NEW e \in BOOLEAN, rows' = Upsert(t, p, "inline", j.data), objects' = objects,
              Wait(r, AwaitOf("drop", p, {}, e))
       PROVE  WriteInv(r)'
  <2>1. PICK w : w = AwaitOf("drop", p, {}, e)
    OBVIOUS
  <2>2. w.op = "drop" /\ w.landed = FALSE /\ w # NoAwait
    <3>1. w \in Await
      BY <1>4, <2>1 DEF AwaitOf, Await, Content
    <3>2. QED BY <2>1, <3>1, AwaitAssumption DEF AwaitOf
  <2>3. QED BY <1>1, <1>3, <1>4, <1>10, <1>12, <2>1, <2>2, WriteWaits
<1>13. \A x : Has(x, p) \in BOOLEAN
  BY DEF Has
<1>14. \/ Stop(r)
       \/ \E e \in BOOLEAN : rows' = t /\ objects' = objects /\ Wait(r, AwaitOf("put", p, j.data, e))
       \/ rows' = Upsert(t, p, "inline", j.data) /\ objects' = objects /\ Continue(r, Rest(r))
       \/ \E e \in BOOLEAN : /\ rows' = Upsert(t, p, "inline", j.data) /\ objects' = objects
                             /\ Wait(r, AwaitOf("drop", p, {}, e))
  BY <1>2, <1>4, <1>6, <1>13 DEF Write
<1>15. QED BY <1>4, <1>8, <1>9, <1>11, <1>12, <1>14

LEMMA WriteReads ==
  ASSUME ShapeInv, NEW r \in Request, WriteInv(r), call[r].do \in {"write", "append"},
         AppendFile(r) \/ Fetch(r)
  PROVE  WriteInv(r)'
<1>1. PICK p : p = call[r].dst
  OBVIOUS
<1>2. PICK j : j = Head(jobs[r])
  OBVIOUS
<1>3. status[r] = "running" /\ j.do \in {"append", "fetch"} /\ await[r] = NoAwait
  BY <1>2, Running DEF ShapeInv, AppendFile, Fetch
<1>4. /\ TypeInv /\ rows \in Table /\ objects \in Stored /\ p \in Path /\ j.dst = p /\ j.data \in Content
      /\ Rest(r) = <<>> /\ Writes(r) /\ Now(p) = before[r][p] /\ call[r].do = "append"
      /\ Free(r) => j.data = call[r].data
      /\ Free(r) /\ j.do = "fetch" => j.src = p
      /\ ~Free(r) => TypeOf(rows, p) \notin {"none", "file"}
  BY <1>1, <1>2, <1>3, WriteRuns
<1>5. \A x : <<x>> \o Rest(r) = <<x>>
  <2>1. \A x : <<x>> \in Seq({x})
    OBVIOUS
  <2>2. QED BY <1>4, <2>1, ConcatEmptySeq
<1>6. CASE AppendFile(r)
  <2>1. PICK x : x = FetchJob(j.dst, j.dst, j.data)
    OBVIOUS
  <2>2. x.do = "fetch" /\ x.src = p /\ x.data = j.data
    BY <1>4, <2>1 DEF FetchJob
  <2>3. Continue(r, <<x>>) /\ NoChange
    BY <1>2, <1>5, <1>6, <2>1 DEF AppendFile
  <2>4. QED BY <1>1, <1>4, <2>2, <2>3, WriteGoesOn
<1>7. CASE Fetch(r)
  <2>1. PICK v : v = ReadOf(rows, objects, j.src)
    OBVIOUS
  <2>2. PICK q : q = Resolve(rows, j.src)
    OBVIOUS
  <2>3. NoChange /\ j.do = "fetch"
    BY <1>2, <1>3, <1>7, Running DEF Fetch, ShapeInv
  <2>4. CASE Stop(r)
    BY <1>4, <2>4, Stops DEF WriteInv, Writes
  <2>5. CASE InR2(rows, q) /\ Wait(r, AwaitOf("get", q, {}, FALSE))
    <3>1. PICK w : w = AwaitOf("get", q, {}, FALSE)
      OBVIOUS
    <3>2. w.op = "get" /\ w.landed = FALSE /\ w.key = q /\ w # NoAwait
      <4>1. q \in Path /\ w \in Await
        BY <2>5, <3>1 DEF InR2, Has, AwaitOf, Await, Content
      <4>2. QED BY <3>1, <4>1, AwaitAssumption DEF AwaitOf
    <3>3. Free(r) => q = p
      BY <1>1, <1>4, <2>2, <2>3, <2>5, OldIsRead
    <3>4. Now(p)' = Now(p) /\ TypeOf(rows, p)' = TypeOf(rows, p) /\ (InR2(rows, q)' <=> InR2(rows, q))
      BY <2>3 DEF NoChange, Now, TypeOf, Has, Entry, InR2
    <3>5. QED BY <1>1, <1>3, <1>4, <2>5, <3>1, <3>2, <3>3, <3>4, WriteWaits
  <2>6. CASE Continue(r, <<WriteJob(j.dst, OrEmpty(v) \cup j.data)>> \o Rest(r))
    <3>1. PICK x : x = WriteJob(j.dst, OrEmpty(v) \cup j.data)
      OBVIOUS
    <3>2. x.do = "write" /\ x.data = OrEmpty(v) \cup j.data
      BY <3>1 DEF WriteJob
    <3>3. Free(r) => OrEmpty(v) = Old(r)
      BY <1>1, <1>4, <2>1, <2>3, OldIsRead
    <3>4. Free(r) => x.data = Want(r)
      BY <1>4, <3>2, <3>3 DEF Want
    <3>5. Continue(r, <<x>>)
      BY <1>5, <2>6, <3>1
    <3>6. QED BY <1>1, <1>4, <2>3, <3>2, <3>4, <3>5, WriteGoesOn
  <2>7. QED BY <1>2, <1>7, <2>1, <2>2, <2>4, <2>5, <2>6 DEF Fetch
<1>8. QED BY <1>6, <1>7

\* R2 has answered, and the request has not resumed.
LEMMA Answers ==
  ASSUME TypeInv, NEW r \in Request, R2Lands(r) \/ R2DeleteFails(r)
  PROVE  /\ status[r] = "running" /\ await[r] \in Await /\ await[r] # NoAwait
         /\ status'[r] = "running" /\ Alone(r) /\ jobs'[r] = jobs[r] /\ rows' = rows
         /\ await'[r].op = await[r].op /\ await'[r].key = await[r].key /\ await'[r].landed = TRUE
         /\ await'[r] # NoAwait /\ await'[r] \in Await
         /\ await[r].op = "get" => /\ await'[r].data = objects[await[r].key]
                                   /\ objects'[await[r].key] = objects[await[r].key]
         /\ await[r].op = "put" => objects'[await[r].key] = await[r].data
         /\ \A q \in Path \ {await[r].key} : objects'[q] = objects[q]
<1>1. PICK w : w = await[r]
  OBVIOUS
<1>2. PICK x : x = await'[r]
  OBVIOUS
<1>3. CASE R2Lands(r)
  <2>1. await[r] # NoAwait
    BY <1>3 DEF R2Lands
  <2>2. QED BY <1>3, <2>1, Lands
<1>4. CASE R2DeleteFails(r)
  <2>1. w \in Await /\ w # NoAwait /\ w.op \in {"drop", "rmobj"} /\ status[r] = "running"
    BY <1>4, <1>1 DEF R2DeleteFails, TypeInv, TypeOK
  <2>2. x = [w EXCEPT !.landed = TRUE]
    BY <1>4, <1>1, <1>2 DEF R2DeleteFails, TypeInv
  <2>3. x.op = w.op /\ x.key = w.key /\ x.landed = TRUE /\ x \in Await
    BY <2>1, <2>2 DEF Await
  <2>4. x # NoAwait
    BY <2>3, AwaitAssumption
  <2>5. Alone(r)
    BY <1>4, ActsLocal DEF Acts
  <2>6. UNCHANGED <<status, jobs, rows, objects>>
    BY <1>4 DEF R2DeleteFails
  <2>7. QED BY <1>1, <1>2, <2>1, <2>3, <2>4, <2>5, <2>6
<1>5. QED BY <1>3, <1>4

LEMMA WriteAnswered ==
  ASSUME ShapeInv, NEW r \in Request, WriteInv(r), call[r].do \in {"write", "append"},
         R2Lands(r) \/ R2DeleteFails(r)
  PROVE  WriteInv(r)'
<1>1. PICK p : p = call[r].dst
  OBVIOUS
<1>2. PICK j : j = Head(jobs[r])
  OBVIOUS
<1>3. PICK w : w = await[r]
  OBVIOUS
<1>4. PICK x : x = await'[r]
  OBVIOUS
<1>5. /\ status[r] = "running" /\ w \in Await /\ w # NoAwait
      /\ status'[r] = "running" /\ Alone(r) /\ jobs'[r] = jobs[r] /\ rows' = rows
      /\ x.op = w.op /\ x.key = w.key /\ x.landed = TRUE /\ x # NoAwait /\ x \in Await
      /\ w.op = "get" => x.data = objects[w.key] /\ objects'[w.key] = objects[w.key]
      /\ w.op = "put" => objects'[w.key] = w.data
      /\ \A q \in Path \ {w.key} : objects'[q] = objects[q]
  <2>1. TypeInv
    BY DEF ShapeInv
  <2>2. QED BY <1>3, <1>4, <2>1, Answers
<1>6. /\ TypeInv /\ rows \in Table /\ objects \in Stored /\ p \in Path /\ j.dst = p
      /\ j.do \in {"write", "append", "fetch"}
      /\ Free(r) => WriteFree(r)
      /\ Free(r) /\ j.do = "write" => j.data = Want(r)
      /\ ~Free(r) => Now(p) = before[r][p] /\ TypeOf(rows, p) \notin {"none", "file"}
  BY <1>1, <1>2, <1>5, WriteRuns
<1>7. /\ w.op \in {"put", "drop"} => j.do = "write" /\ w.key = p
      /\ w.op = "put" => w.data = j.data
      /\ w.op # "rmobj"
  <2>1. /\ w.op \in {"put", "drop"} => j.do = "write" /\ w.key = j.dst
        /\ w.op = "put" => w.data = j.data
        /\ w.op = "rmobj" => j.do = "rows"
    BY <1>2, <1>3, <1>5, ShapeRunning DEF Linked
  <2>2. QED BY <1>6, <2>1
<1>8. call'[r] = call[r] /\ before'[r] = before[r] /\ Free(r)' = Free(r) /\ Want(r)' = Want(r)
  BY <1>5, SameCall
<1>9. /\ TypeOf(rows, p)' = TypeOf(rows, p) /\ (InR2(rows, p)' <=> InR2(rows, p))
      /\ w.key = p /\ w.op = "get" => objects'[p] = objects[p]
  BY <1>5 DEF TypeOf, InR2, Has
<1>10. ASSUME objects'[p] = objects[p] \/ ~InR2(rows, p) \/ TypeOf(rows, p) # "file"
       PROVE  Now(p)' = Now(p)
  BY <1>5, <1>10 DEF Now, Entry, TypeOf, InR2, Has
<1>11. CASE ~Free(r)
  BY <1>1, <1>6, <1>8, <1>9, <1>10, <1>11 DEF WriteInv
<1>12. CASE Free(r)
  <2>1. WriteFree(r)
    BY <1>6, <1>12
  <2>2. /\ j.do \in {"append", "fetch"} => j.data = call[r].data /\ call[r].do = "append"
        /\ j.do = "fetch" => j.src = p
        /\ j.do = "write" => j.data = Want(r)
    BY <1>1, <1>2, <1>5, <2>1 DEF WriteFree
  <2>3. w.op = "get" => Now(p)' = before[r][p] /\ x.key = p /\ InR2(rows, p)' /\ x.data = objects'[p]
    <3>1. w.op = "get" => Now(p) = before[r][p] /\ w.key = p /\ InR2(rows, p)
      BY <1>1, <1>3, <1>5, <2>1 DEF WriteFree
    <3>2. QED BY <1>5, <1>9, <1>10, <3>1
  <2>4. w.op = "put" => TypeOf(rows, p)' \in {"none", "file"} /\ objects'[p] = Want(r)
    <3>1. w.op = "put" => TypeOf(rows, p) \in {"none", "file"}
      BY <1>1, <1>3, <1>5, <2>1 DEF WriteFree
    <3>2. QED BY <1>5, <1>7, <1>9, <2>2, <3>1
  <2>5. w.op = "drop" => Now(p)' = FileEntry(Want(r)) /\ ~InR2(rows, p)'
    <3>1. w.op = "drop" => Now(p) = FileEntry(Want(r)) /\ ~InR2(rows, p)
      BY <1>1, <1>3, <1>5, <2>1 DEF WriteFree
    <3>2. QED BY <1>9, <1>10, <3>1
  <2>6. Head(jobs'[r]) = j /\ status'[r] = "running" /\ await'[r] = x /\ x # NoAwait /\ x.op = w.op
    BY <1>2, <1>4, <1>5
  <2>7. QED BY <1>1, <1>8, <1>12, <2>2, <2>3, <2>4, <2>5, <2>6 DEF WriteInv, WriteFree
<1>13. QED BY <1>11, <1>12

LEMMA WriteResumes ==
  ASSUME ShapeInv, NEW r \in Request, WriteInv(r), call[r].do \in {"write", "append"}, Resume(r)
  PROVE  WriteInv(r)'
<1>1. PICK p : p = call[r].dst
  OBVIOUS
<1>2. PICK j : j = Head(jobs[r])
  OBVIOUS
<1>3. PICK w \in Await : w = await[r] /\ w # NoAwait /\ w.landed
  BY DEF ShapeInv, TypeInv, Resume
<1>4. status[r] = "running" /\ (w.op = "get" => j.do = "fetch")
  BY <1>2, <1>3 DEF ShapeInv, TypeInv, TypeOK
<1>5. /\ TypeInv /\ rows \in Table /\ objects \in Stored /\ p \in Path /\ j.dst = p
      /\ Rest(r) = <<>> /\ j.do # "rows"
      /\ j.do = "fetch" => call[r].do = "append"
      /\ Free(r) => WriteFree(r)
      /\ Free(r) /\ j.do = "write" => j.data = Want(r)
      /\ Free(r) /\ j.do = "fetch" => j.data = call[r].data
      /\ ~Free(r) => Now(p) = before[r][p] /\ TypeOf(rows, p) \notin {"none", "file"}
  BY <1>1, <1>2, <1>4, WriteRuns
<1>6. /\ w.op \in {"put", "drop"} => j.do = "write" /\ w.key = p
      /\ w.op # "rmobj"
  <2>1. /\ w.op \in {"put", "drop"} => j.do = "write" /\ w.key = j.dst
        /\ w.op = "rmobj" => j.do = "rows"
    BY <1>2, <1>3, <1>4, ShapeRunning DEF Linked
  <2>2. QED BY <1>5, <2>1
<1>7. ASSUME Free(r)
      PROVE  /\ w.op = "get" => Now(p) = before[r][p] /\ w.key = p /\ InR2(rows, p) /\ w.data = objects[p]
             /\ w.op = "put" => TypeOf(rows, p) \in {"none", "file"} /\ objects[p] = Want(r)
             /\ w.op = "drop" => Now(p) = FileEntry(Want(r))
  BY <1>1, <1>3, <1>4, <1>5, <1>7 DEF WriteFree
<1>8. CASE /\ w.op = "get" /\ NoChange
           /\ Continue(r, <<WriteJob(j.dst, OrEmpty(w.data) \cup j.data)>> \o Rest(r))
  <2>1. PICK x : x = WriteJob(j.dst, OrEmpty(w.data) \cup j.data)
    OBVIOUS
  <2>2. x.do = "write" /\ x.data = OrEmpty(w.data) \cup j.data
    BY <2>1 DEF WriteJob
  <2>3. Continue(r, <<x>>)
    <3>1. <<x>> \in Seq({x})
      OBVIOUS
    <3>2. <<x>> \o Rest(r) = <<x>>
      BY <1>5, <3>1, ConcatEmptySeq
    <3>3. QED BY <1>8, <2>1, <3>2
  <2>4. Now(p) = before[r][p]
    BY <1>5, <1>7, <1>8
  <2>5. Free(r) => OrEmpty(w.data) = Old(r)
    BY <1>1, <1>4, <1>5, <1>7, <1>8, OldIsRead
  <2>6. Free(r) => x.data = Want(r)
    BY <1>4, <1>5, <1>8, <2>2, <2>5 DEF Want
  <2>7. QED BY <1>1, <1>5, <1>8, <2>2, <2>3, <2>4, <2>6, WriteGoesOn
<1>9. CASE /\ w.op = "put" /\ rows' = Upsert(rows, p, "r2", {}) /\ objects' = objects
           /\ Continue(r, <<>>)
  <2>1. {} \in Content
    BY DEF Content
  <2>2. PICK u \in Table : u = Upsert(rows, p, "r2", {})
    BY <1>5, <2>1, UpsertTyped
  <2>3. Now(p)' = Entry(u, objects, p) /\ TypeOf(rows, p)' = TypeOf(u, p)
    BY <1>9, <2>2 DEF Now, TypeOf, Has
  <2>4. Free(r) => Now(p)' = FileEntry(Want(r))
    BY <1>5, <1>7, <1>9, <2>1, <2>2, <2>3, UpsertMakesFile
  <2>5. ASSUME ~Free(r) PROVE Now(p)' = before[r][p] /\ TypeOf(rows, p)' \notin {"none", "file"}
    <3>1. u[p].type = rows[p].type /\ Entry(u, objects, p) = Entry(rows, objects, p)
      BY <1>5, <2>1, <2>2, <2>5, UpsertKeepsOthers
    <3>2. u[p] # NoRow
      BY <1>5, <2>1, <2>2, UpsertTyped, SeedAssumption
    <3>3. TypeOf(u, p) = TypeOf(rows, p)
      BY <1>5, <2>5, <3>1, <3>2 DEF TypeOf, Has
    <3>4. QED BY <1>5, <2>3, <2>5, <3>1, <3>3 DEF Now
  <2>6. QED BY <1>1, <1>5, <1>9, <2>4, <2>5, WriteEnds
<1>10. CASE w.op = "drop" /\ UNCHANGED <<rows, objects>> /\ Continue(r, <<>>)
  <2>1. Now(p)' = Now(p) /\ TypeOf(rows, p)' = TypeOf(rows, p)
    BY <1>10 DEF Now, TypeOf, Has, Entry, InR2
  <2>2. QED BY <1>1, <1>5, <1>7, <1>10, <2>1, WriteEnds
<1>11. QED BY <1>2, <1>3, <1>5, <1>6, <1>8, <1>9, <1>10 DEF Resume

LEMMA WriteActs ==
  ASSUME ShapeInv, NEW r \in Request, WriteInv(r), Acts(r)
  PROVE  WriteInv(r)'
<1>1. status[r] = "running" /\ Alone(r) /\ TypeInv
  BY ActsLocal DEF ShapeInv
<1>2. call'[r] = call[r]
  BY <1>1, SameCall
<1>3. CASE call[r].do \notin {"write", "append"}
  BY <1>2, <1>3 DEF WriteInv, Writes
<1>4. CASE call[r].do \in {"write", "append"}
  <2>1. PICK j : j = Head(jobs[r])
    OBVIOUS
  <2>2. j.do \in {"write", "append", "fetch"}
    BY <1>1, <1>4, <2>1, WritesHead
  <2>3. ASSUME Work(r) PROVE Write(r) \/ AppendFile(r) \/ Fetch(r)
    BY <2>1, <2>2, <2>3 DEF Work, Runs, TooLong, Mkdir, Symlink, DeleteFile, Rm, RmSingle, Cp, CpEntry, Mv
  <2>4. CASE Work(r)
    BY <1>4, <2>3, <2>4, WriteWrites, WriteReads
  <2>5. CASE R2Lands(r) \/ R2DeleteFails(r)
    BY <1>4, <2>5, WriteAnswered
  <2>6. CASE R2Fails(r)
    BY <1>1, <2>6, Stops DEF R2Fails, WriteInv, Writes
  <2>7. CASE Resume(r)
    BY <1>4, <2>7, WriteResumes
  <2>8. QED BY <2>4, <2>5, <2>6, <2>7 DEF Acts
<1>5. QED BY <1>3, <1>4

LEMMA WriteArrives ==
  ASSUME TypeInv, CallInv, NEW r \in Request, NEW c \in Asked, Arrive(r, c)
  PROVE  WriteInv(r)'
<1> SUFFICES ASSUME c.do \in {"write", "append"} PROVE WriteInv(r)'
  BY DEF WriteInv, Writes, Arrive, TypeInv, TypeOK
<1>1. c \in Call /\ c.dst \in Path
  BY CallAssumption, CallPaths
<1>2. PICK p \in Path : p = c.dst
  BY <1>1
<1>3. /\ jobs'[r] = <<c>> /\ Head(jobs'[r]) = c /\ call'[r] = c /\ status'[r] = "running"
      /\ before'[r] = Tree(rows, objects) /\ rows' = rows /\ objects' = objects /\ await'[r] = NoAwait
  <2>1. jobs'[r] = <<c>> /\ call'[r] = c /\ status'[r] = "running" /\ await'[r] = NoAwait
    BY DEF Arrive, TypeInv, TypeOK
  <2>2. before'[r] = Tree(rows, objects) /\ rows' = rows /\ objects' = objects
    BY DEF Arrive, CallInv
  <2>3. QED BY <2>1, <2>2
<1>4. before'[r][p] = Now(p) /\ Now(p)' = Now(p) /\ TypeOf(rows, p)' = TypeOf(rows, p)
  BY <1>3 DEF Tree, Now, Entry, TypeOf, InR2, Has
<1>5. Free(r)' <=> TypeOf(rows, p) \in {"none", "file"}
  <2>1. rows \in Table /\ objects \in Stored
    BY StoresTable
  <2>2. Now(p) = NoRow \/ Now(p).type = "file" <=> TypeOf(rows, p) \in {"none", "file"}
    <3>1. CASE Has(rows, p)
      <4>1. /\ Now(p) # NoRow /\ Now(p).type = rows[p].type /\ rows[p] \in Row
            /\ TypeOf(rows, p) = rows[p].type
        BY <2>1, <3>1, EntryFacts DEF Now
      <4>2. rows[p].type # "none"
        BY <4>1 DEF Row
      <4>3. QED BY <4>1, <4>2
    <3>2. CASE ~Has(rows, p)
      BY <3>2 DEF Now, Entry, TypeOf
    <3>3. QED BY <3>1, <3>2
  <2>3. QED BY <1>2, <1>3, <1>4, <2>2 DEF Free
<1>6. c.do = "write" => c.data = Want(r)'
  BY <1>3 DEF Want, Old
<1>7. WriteFree(r)'
  BY <1>2, <1>3, <1>4, <1>6 DEF WriteFree
<1>8. QED BY <1>2, <1>3, <1>4, <1>5, <1>7 DEF WriteInv

WritesInv == StepsInv /\ \A r \in Request : WriteInv(r)

LEMMA WritesInvStep ==
  ASSUME Serialize, LikeAlso = {}, WritesInv, [Next]_vars
  PROVE  WritesInv'
<1>1. StepsInv /\ StepsInv' /\ TypeInv /\ ShapeInv /\ CallInv
  BY StepsInvStep DEF WritesInv, StepsInv, TreeInv
<1>2. ASSUME NEW r \in Request PROVE WriteInv(r)'
  <2>1. WriteInv(r)
    BY DEF WritesInv
  <2>2. CASE UNCHANGED <<rows, objects>> /\ Idles(r)
    BY <1>1, <2>1, <2>2, WriteKept DEF Kept
  <2>3. CASE \E c \in Asked : Arrive(r, c)
    BY <1>1, <2>3, WriteArrives
  <2>4. CASE status'[r] = "idle"
    BY <2>4 DEF WriteInv, Writes
  <2>5. CASE Acts(r)
    BY <1>1, <2>1, <2>5, WriteActs
  <2>6. ASSUME NEW s \in Request \ {r}, Acts(s), Idles(r) PROVE WriteInv(r)'
    <3>1. CASE ~Writes(r)
      BY <2>6, <3>1 DEF WriteInv, Writes, Idles
    <3>2. CASE Writes(r)
      <4>1. call[r] \in Call /\ status[r] # "idle"
        BY <1>1, <3>2 DEF StepsInv, CallInv, Writes
      <4>2. call[r].dst \in Path /\ call[r].dst \in PathsOf(call[r])
        BY <3>2, <4>1, CallPaths DEF Writes, PathsOf
      <4>3. Under(call[r], call[r].dst)
        BY <4>2 DEF Under, AtOrAbove
      <4>4. Kept(call[r].dst)
        BY <1>1, <2>6, <4>1, <4>2, <4>3, OthersKept
      <4>5. QED BY <1>1, <2>1, <2>6, <4>4, WriteKept
    <3>3. QED BY <3>1, <3>2
  <2>7. QED BY <1>1, <2>2, <2>3, <2>4, <2>5, <2>6, StepCases
<1>3. QED BY <1>1, <1>2 DEF WritesInv

\* What a write that is acknowledged has written is what a read of its path returns.
THEOREM TreeWriteThenRead ==
  ASSUME Serialize, LikeAlso = {}
  PROVE  Spec => []WriteThenRead
<1>1. Init => WritesInv
  BY StepsInvInit DEF Init, WritesInv, WriteInv, Writes
<1>2. WritesInv /\ [Next]_vars => WritesInv'
  BY WritesInvStep
<1>3. ASSUME WritesInv PROVE WriteThenRead
  <2> SUFFICES ASSUME NEW r \in Request, Succeeded(r, {"write", "append"})
               PROVE  IF Free(r) THEN ReadOf(rows, objects, call[r].dst) = Want(r)
                                 ELSE Now(call[r].dst) = before[r][call[r].dst]
    BY DEF WriteThenRead, Free, Want, Old, Now
  <2>1. WriteInv(r) /\ Writes(r) /\ status[r] = "ok" /\ call[r].do \in {"write", "append"}
    BY <1>3 DEF WritesInv, Succeeded, Writes
  <2>2. TypeInv /\ call[r] \in Call
    BY <1>3, <2>1 DEF WritesInv, StepsInv, CallInv, TreeInv
  <2>3. PICK p \in Path : p = call[r].dst
    BY <2>1, <2>2, CallPaths
  <2>4. CASE ~Free(r)
    BY <2>1, <2>4 DEF WriteInv
  <2>5. CASE Free(r)
    <3>1. Now(p) = FileEntry(Want(r))
      BY <2>1, <2>3, <2>5 DEF WriteInv, WriteFree
    <3>2. rows \in Table /\ objects \in Stored
      BY <2>2, StoresTable
    <3>3. Now(p).type = "file" /\ Now(p).bytes = Want(r)
      BY <3>1 DEF FileEntry
    <3>4. Has(rows, p) /\ TypeOf(rows, p) = "file"
      <4>1. before[r] \in Trees
        BY <1>3, <2>1 DEF WritesInv, StepsInv, CallInv
      <4>2. call[r].data \in Content
        BY <2>1, <2>2 DEF Call
      <4>3. Old(r) \in Content
        <5>1. before[r][p] # NoRow => before[r][p].bytes \in Content \cup {Absent}
          BY <4>1 DEF Trees, Entries
        <5>2. QED BY <2>3, <5>1 DEF Old, OrEmpty, Content
      <4>4. Now(p) \in Entries
        BY <3>1, <4>2, <4>3 DEF FileEntry, Entries, Want, Content
      <4>5. Now(p) # NoRow
        BY <4>4, EntryAssumption DEF Entries
      <4>6. QED BY <3>2, <3>3, <4>5, EntryFacts DEF Now
    <3>5. ReadOf(rows, objects, p) = Want(r)
      BY <3>2, <3>3, <3>4, ReadNoLink DEF Now
    <3>6. QED BY <2>3, <2>5, <3>5
  <2>6. QED BY <2>4, <2>5
<1>4. QED BY <1>1, <1>2, <1>3, PTL DEF Spec

----------------------------------------------------------------------------
(* What an rm removes. One caller at a time: otherwise other entries come  *)
(* and go for other reasons.                                               *)

OneCaller == \A r, s \in Request : r = s

\* What the rm of r is for.
ToRemove(r) ==
  LET src == call[r].src IN
  {q \in Path : q = src \/ (before[r][src].type = "directory" /\ IsAbove(src, q))}

Removes(r) ==
  status[r] \in {"running", "ok"} /\ call[r].do = "rm" /\ before[r][call[r].src] # NoRow

\* What is not on the list of rows to go is gone already, what is for others is as it was.
AllGoneBut(r, S) ==
  \A q \in Path : /\ q \notin ToRemove(r) => Now(q) = before[r][q]
                  /\ q \in ToRemove(r) \ S => Now(q) = NoRow

RmInv(r) ==
  Removes(r) =>
    /\ status[r] = "ok" => AllGoneBut(r, {})
    /\ status[r] = "running" =>
         \/ jobs[r] = <<call[r]>> /\ \A q \in Path : Now(q) = before[r][q]
         \/ \E S \in SUBSET ToRemove(r) : jobs[r] = <<RowsJob(S)>> /\ AllGoneBut(r, S)

\* The entries after a row has gone.
LEMMA RowGoneNow ==
  ASSUME TypeInv, NEW r \in Request, NEW p \in Path, NEW left, RowGone(r, p, left)
  PROVE  /\ Now(p)' = NoRow /\ \A q \in Path \ {p} : Now(q)' = Now(q)
         /\ Continue(r, (IF left = {} THEN <<>> ELSE <<RowsJob(left)>>) \o Rest(r))
<1>1. rows'[p] = NoRow /\ \A q \in Path \ {p} : rows'[q] = rows[q]
  BY DEF RowGone, TypeInv, TypeOK
<1>2. objects' = objects
  BY DEF RowGone
<1>3. QED BY <1>1, <1>2 DEF RowGone, Now, Entry, Has, InR2

\* The rm goes on with the rows in S.
LEMMA RmGoesOn ==
  ASSUME TypeInv, NEW r \in Request, NEW S \in SUBSET ToRemove(r),
         AllGoneBut(r, S)', NEW js, Continue(r, js),
         S = {} => js = <<>>, S # {} => js = <<RowsJob(S)>>
  PROVE  RmInv(r)'
<1>1. /\ Alone(r) /\ jobs'[r] = js /\ call'[r] = call[r] /\ before'[r] = before[r]
      /\ status'[r] = IF js = <<>> THEN "ok" ELSE "running"
  BY Continues DEF Alone
<1>2. ToRemove(r)' = ToRemove(r)
  BY <1>1 DEF ToRemove
<1>3. CASE S = {}
  BY <1>1, <1>3 DEF RmInv
<1>4. CASE S # {}
  <2>1. js # <<>> /\ jobs'[r] = <<RowsJob(S)>>
    <3>1. js = <<RowsJob(S)>> /\ jobs'[r] = js
      BY <1>1, <1>4
    <3>2. QED BY <3>1
  <2>2. \E Q \in SUBSET ToRemove(r)' : jobs'[r] = <<RowsJob(Q)>> /\ AllGoneBut(r, Q)'
    BY <1>2, <2>1
  <2>3. QED BY <1>1, <2>1, <2>2 DEF RmInv
<1>5. QED BY <1>3, <1>4

LEMMA AboveIsLike ==
  ASSUME NEW p \in Path, NEW q \in Path, IsAbove(p, q)
  PROVE  IsLike(p, q)
<1>1. Len(p) < Len(q) /\ AtOrAbove(p, q)
  BY DEF IsAbove, AtOrAbove
<1>2. QED BY <1>1, AboveByNames, PathIsNames DEF IsLike

LEMMA RmStarts ==
  ASSUME ShapeInv, LikeAlso = {}, NEW r \in Request, RmInv(r), Removes(r), jobs[r] = <<call[r]>>, Rm(r)
  PROVE  RmInv(r)'
<1>1. TypeInv /\ status[r] = "running"
  BY Running DEF ShapeInv, Rm
<1>2. PICK c \in Call : c = call[r] /\ c.do = "rm"
  BY <1>1, ShapeRunning DEF Removes
<1>3. PICK p \in Path : p = c.src
  BY <1>2, CallPaths
<1>4. Head(jobs[r]) = c /\ Rest(r) = <<>> /\ \A x : <<x>> \o Rest(r) = <<x>>
  <2>1. Head(jobs[r]) = c /\ Rest(r) = <<>>
    BY <1>2 DEF Rest
  <2>2. \A x : <<x>> \in Seq({x})
    OBVIOUS
  <2>3. QED BY <2>1, <2>2, ConcatEmptySeq
<1>5. \A q \in Path : Now(q) = before[r][q]
  <2>1. \A S : RowsJob(S).do = "rows"
    BY DEF RowsJob
  <2>2. \A S : <<c>> # <<RowsJob(S)>>
    BY <1>2, <2>1
  <2>3. QED BY <1>1, <1>2, <2>2 DEF RmInv
<1>6. rows \in Table /\ objects \in Stored
  BY <1>1, StoresTable
<1>7. Has(rows, p) /\ before[r][p].type = TypeOf(rows, p)
  BY <1>2, <1>3, <1>5, <1>6, EntryFacts DEF Removes, Now
<1>8. NoChange
  BY DEF Rm
<1>9. \A q \in Path : Now(q)' = before[r][q] /\ (Now(q) = NoRow <=> ~Has(rows, q))
  BY <1>5, <1>6, <1>8, EntryFacts DEF NoChange, Now, Entry, Has, InR2
<1>10. ToRemove(r) = {q \in Path : q = p \/ (TypeOf(rows, p) = "directory" /\ IsAbove(p, q))}
  BY <1>2, <1>3, <1>7 DEF ToRemove
<1>11. before'[r] = before[r] /\ (call'[r] = call[r])
  BY DEF Rm, Continue, Stop
<1>12. ASSUME NEW S \in SUBSET ToRemove(r), p \in S, \A q \in ToRemove(r) \ S : ~Has(rows, q),
              Continue(r, <<RowsJob(S)>> \o Rest(r))
       PROVE  RmInv(r)'
  <2>1. ToRemove(r)' = ToRemove(r)
    BY <1>11 DEF ToRemove
  <2>2. \A q \in ToRemove(r) \ S : q \in Path /\ Now(q) = NoRow /\ Now(q)' = Now(q)
    BY <1>5, <1>9, <1>12 DEF ToRemove
  <2>3. AllGoneBut(r, S)'
    BY <1>9, <1>11, <2>1, <2>2 DEF AllGoneBut
  <2>4. Continue(r, <<RowsJob(S)>>) /\ S # {}
    BY <1>4, <1>12
  <2>5. QED BY <1>1, <2>3, <2>4, RmGoesOn
<1>13. CASE Stop(r)
  BY <1>1, <1>13, Stops DEF RmInv, Removes
<1>14. CASE TypeOf(rows, p) \in {"file", "symlink"} /\ Continue(r, <<RowsJob({p})>> \o Rest(r))
  <2>1. ToRemove(r) = {p}
    BY <1>10, <1>14
  <2>2. QED BY <1>12, <1>14, <2>1
<1>15. PICK matched : matched = {q \in Path : Has(rows, q) /\ (q = p \/ IsLike(p, q))}
  OBVIOUS
<1>16. CASE TypeOf(rows, p) = "directory" /\ Continue(r, <<RowsJob(matched)>> \o Rest(r))
  <2>1. matched \subseteq ToRemove(r)
    BY <1>10, <1>15, <1>16, LikeIsBelow DEF AtOrAbove
  <2>2. p \in matched
    BY <1>7, <1>15
  <2>3. \A q \in ToRemove(r) \ matched : ~Has(rows, q)
    BY <1>10, <1>15, AboveIsLike
  <2>4. QED BY <1>12, <1>16, <2>1, <2>2, <2>3
<1>17. QED BY <1>2, <1>3, <1>4, <1>7, <1>13, <1>14, <1>15, <1>16 DEF Rm

\* A row of the list goes.
LEMMA RmRow ==
  ASSUME TypeInv, NEW r \in Request, NEW S \in SUBSET ToRemove(r),
         jobs[r] = <<RowsJob(S)>>, AllGoneBut(r, S), NEW p \in S, RowGone(r, p, S \ {p})
  PROVE  RmInv(r)'
<1>1. p \in Path /\ S \subseteq Path
  BY DEF ToRemove
<1>2. Rest(r) = <<>> /\ <<>> \o Rest(r) = <<>> /\ \A x : <<x>> \o Rest(r) = <<x>>
  <2>1. Rest(r) = <<>>
    BY DEF Rest
  <2>2. \A x : <<x>> \in Seq({x})
    OBVIOUS
  <2>3. QED BY <2>1, <2>2, ConcatEmptySeq
<1>3. PICK left : left = S \ {p}
  OBVIOUS
<1>4. /\ Now(p)' = NoRow /\ \A q \in Path \ {p} : Now(q)' = Now(q)
      /\ Continue(r, (IF left = {} THEN <<>> ELSE <<RowsJob(left)>>) \o Rest(r))
  BY <1>1, <1>3, RowGoneNow
<1>5. before'[r] = before[r] /\ ToRemove(r)' = ToRemove(r)
  BY <1>4 DEF Continue, ToRemove
<1>6. ASSUME NEW q \in Path
      PROVE  /\ q \notin ToRemove(r) => Now(q)' = before[r][q]
             /\ q \in ToRemove(r) \ left => Now(q)' = NoRow
  BY <1>3, <1>4, <1>6 DEF AllGoneBut
<1>7. AllGoneBut(r, left)'
  BY <1>5, <1>6 DEF AllGoneBut
<1>8. PICK js : js = (IF left = {} THEN <<>> ELSE <<RowsJob(left)>>) \o Rest(r)
  OBVIOUS
<1>9. (left = {} => js = <<>>) /\ (left # {} => js = <<RowsJob(left)>>)
  BY <1>2, <1>8
<1>10. Continue(r, js) /\ left \in SUBSET ToRemove(r)
  BY <1>3, <1>4, <1>8
<1>11. QED BY <1>7, <1>9, <1>10, RmGoesOn

\* An R2 call of an rm is about a row of its list.
LEMMA RmWaits ==
  ASSUME ShapeInv, NEW r \in Request, RmInv(r), Removes(r), status[r] = "running"
  PROVE  \/ /\ jobs[r] = <<call[r]>> /\ Head(jobs[r]) = call[r] /\ await[r] = NoAwait
            /\ \A q \in Path : Now(q) = before[r][q]
         \/ \E S \in SUBSET ToRemove(r) :
              /\ jobs[r] = <<RowsJob(S)>> /\ Head(jobs[r]) = RowsJob(S) /\ AllGoneBut(r, S)
              /\ await[r] # NoAwait => await[r].op = "rmobj" /\ await[r].key \in S
<1>1. PICK w : w = await[r]
  OBVIOUS
<1>2. PICK j : j = Head(jobs[r])
  OBVIOUS
<1>3. w # NoAwait =>
        /\ w.op \in {"get", "put", "drop", "rmobj"}
        /\ w.op \in {"put", "drop"} => j.do = "write"
        /\ w.op = "rmobj" => j.do = "rows" /\ w.key \in j.paths
        /\ w.op = "get" => j.do = "fetch"
  <2>1. Linked(r) /\ TypeInv
    BY ShapeRunning
  <2>2. w # NoAwait => w \in Await
    BY <1>1, <2>1 DEF TypeInv
  <2>3. QED BY <1>1, <1>2, <2>1, <2>2 DEF Linked, TypeInv, Await
<1>4. CASE jobs[r] = <<call[r]>> /\ \A q \in Path : Now(q) = before[r][q]
  BY <1>1, <1>2, <1>3, <1>4 DEF Removes
<1>5. ASSUME NEW S \in SUBSET ToRemove(r), jobs[r] = <<RowsJob(S)>>, AllGoneBut(r, S)
      PROVE  \/ w = NoAwait
             \/ w.op = "rmobj" /\ w.key \in S
  BY <1>2, <1>3, <1>5 DEF RowsJob
<1>6. QED BY <1>1, <1>4, <1>5 DEF RmInv

LEMMA RmActs ==
  ASSUME ShapeInv, LikeAlso = {}, NEW r \in Request, RmInv(r), Acts(r)
  PROVE  RmInv(r)'
<1>1. TypeInv /\ status[r] = "running" /\ Alone(r) /\ call'[r] = call[r] /\ before'[r] = before[r]
  BY ActsLocal DEF ShapeInv, Alone
<1>2. CASE ~Removes(r)
  BY <1>1, <1>2 DEF RmInv, Removes
<1>3. CASE R2Fails(r)
  BY <1>1, <1>3, Stops DEF R2Fails, RmInv, Removes
<1>4. CASE Removes(r) /\ jobs[r] = <<call[r]>> /\ Head(jobs[r]) = call[r] /\ await[r] = NoAwait
  <2>1. Head(jobs[r]).do = "rm"
    BY <1>4 DEF Removes
  <2>2. Work(r)
    BY <1>4 DEF Acts, R2Lands, R2Fails, R2DeleteFails, Resume
  <2>3. Rm(r)
    BY <2>1, <2>2 DEF Work, Runs, TooLong, Write, AppendFile, Fetch, Mkdir, Symlink, DeleteFile,
                      RmSingle, Cp, CpEntry, Mv
  <2>4. QED BY <1>4, <2>3, RmStarts
<1>5. ASSUME Removes(r), NEW S \in SUBSET ToRemove(r), jobs[r] = <<RowsJob(S)>>,
             Head(jobs[r]) = RowsJob(S), AllGoneBut(r, S),
             await[r] # NoAwait => await[r].op = "rmobj" /\ await[r].key \in S, ~R2Fails(r)
      PROVE  RmInv(r)'
  <2>1. Head(jobs[r]).do = "rows" /\ Head(jobs[r]).paths = S
    BY <1>5 DEF RowsJob
  <2>2. ASSUME NEW p \in S, RowGone(r, p, S \ {p}) PROVE RmInv(r)'
    BY <1>1, <1>5, <2>2, RmRow
  <2>3. ASSUME UNCHANGED <<rows, jobs, status>>,
               \A q \in Path \ S : objects'[q] = objects[q]
        PROVE  RmInv(r)'
    <3>1. ToRemove(r)' = ToRemove(r)
      BY <1>1 DEF ToRemove
    <3>2. \A q \in Path \ S : Now(q)' = Now(q)
      BY <2>3 DEF Now, Entry, Has, InR2
    <3>3. AllGoneBut(r, S)'
      BY <1>1, <1>5, <3>1, <3>2 DEF AllGoneBut, ToRemove
    <3>4. \E Q \in SUBSET ToRemove(r)' : jobs'[r] = <<RowsJob(Q)>> /\ AllGoneBut(r, Q)'
      BY <1>5, <2>3, <3>1, <3>3
    <3>5. status'[r] = "running"
      BY <1>1, <2>3
    <3>6. QED BY <3>4, <3>5 DEF RmInv
  <2>4. CASE Work(r)
    <3>1. RmSingle(r)
      BY <2>1, <2>4 DEF Work, Runs, TooLong, Write, AppendFile, Fetch, Mkdir, Symlink, DeleteFile,
                        Rm, Cp, CpEntry, Mv
    <3>2. PICK p \in S : \/ NoChange /\ UNCHANGED <<jobs, status>>
                         \/ RowGone(r, p, S \ {p})
      BY <2>1, <3>1 DEF RmSingle, Wait
    <3>3. QED BY <2>2, <2>3, <3>2 DEF NoChange
  <2>5. CASE R2Lands(r)
    <3>1. await[r].key \in S /\ UNCHANGED <<rows, jobs, status>>
      BY <1>5, <2>5 DEF R2Lands
    <3>2. \A q \in Path \ {await[r].key} : objects'[q] = objects[q]
      BY <1>1, <2>5, Lands
    <3>3. \A q \in Path \ S : objects'[q] = objects[q]
      BY <3>1, <3>2
    <3>4. QED BY <2>3, <3>1, <3>3
  <2>6. CASE R2DeleteFails(r)
    BY <2>3, <2>6 DEF R2DeleteFails
  <2>7. CASE Resume(r)
    <3>1. await[r].op = "rmobj" /\ await[r].key \in S
      BY <1>5, <2>7 DEF Resume
    <3>2. RowGone(r, await[r].key, S \ {await[r].key})
      BY <2>1, <2>7, <3>1 DEF Resume
    <3>3. QED BY <2>2, <3>1, <3>2
  <2>8. QED BY <1>5, <2>4, <2>5, <2>6, <2>7 DEF Acts
<1>6. QED BY <1>1, <1>2, <1>3, <1>4, <1>5, RmWaits

RmsInv == ShapeInv /\ CallInv /\ \A r \in Request : RmInv(r)

LEMMA RmsInvStep ==
  ASSUME OneCaller, LikeAlso = {}, RmsInv, [Next]_vars
  PROVE  RmsInv'
<1>1. TypeInv /\ ShapeInv /\ CallInv /\ ShapeInv' /\ CallInv'
  BY ShapeInvStep, CallInvStep DEF RmsInv, ShapeInv
<1>2. ASSUME NEW r \in Request PROVE RmInv(r)'
  <2>1. RmInv(r)
    BY DEF RmsInv
  <2>2. CASE UNCHANGED <<rows, objects>> /\ Idles(r)
    <3>1. /\ status'[r] = status[r] /\ call'[r] = call[r] /\ before'[r] = before[r] /\ jobs'[r] = jobs[r]
      BY <2>2 DEF Idles
    <3>2. \A q \in Path : Now(q)' = Now(q)
      BY <2>2 DEF Now, Entry, Has, InR2
    <3>3. ToRemove(r)' = ToRemove(r) /\ Removes(r)' = Removes(r)
      BY <3>1 DEF ToRemove, Removes
    <3>4. \A S : AllGoneBut(r, S) => AllGoneBut(r, S)'
      BY <3>1, <3>2, <3>3 DEF AllGoneBut
    <3>5. QED BY <2>1, <3>1, <3>2, <3>3, <3>4 DEF RmInv
  <2>3. ASSUME NEW c \in Asked, Arrive(r, c) PROVE RmInv(r)'
    <3>1. jobs'[r] = <<c>> /\ call'[r] = c /\ status'[r] = "running"
      BY <1>1, <2>3 DEF Arrive, TypeInv, TypeOK
    <3>2. before'[r] = Tree(rows, objects) /\ rows' = rows /\ objects' = objects
      BY <1>1, <2>3 DEF Arrive, CallInv
    <3>3. \A q \in Path : Now(q)' = before'[r][q]
      BY <3>2 DEF Tree, Now, Entry, Has, InR2
    <3>4. QED BY <3>1, <3>3 DEF RmInv
  <2>4. CASE status'[r] = "idle"
    BY <2>4 DEF RmInv, Removes
  <2>5. CASE Acts(r)
    BY <1>1, <2>1, <2>5, RmActs
  <2>6. QED BY <1>1, <2>2, <2>3, <2>4, <2>5, StepCases DEF OneCaller
<1>3. QED BY <1>1, <1>2 DEF RmsInv

\* An rm that succeeds has removed what it was for, and nothing else.
THEOREM TreeRmExact ==
  ASSUME OneCaller, LikeAlso = {}
  PROVE  Spec => []RmExact
<1>1. Init => RmsInv
  BY ShapeInvInit DEF Init, RmsInv, CallInv, RmInv, Removes
<1>2. RmsInv /\ [Next]_vars => RmsInv'
  BY RmsInvStep
<1>3. RmsInv => RmExact
  BY DEF RmsInv, RmExact, RmInv, Removes, Succeeded, AllGoneBut, ToRemove, Now
<1>4. QED BY <1>1, <1>2, <1>3, PTL DEF Spec
==============================================================================
