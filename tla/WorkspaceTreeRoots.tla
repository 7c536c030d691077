-------------------------- MODULE WorkspaceTreeRoots --------------------------
(***************************************************************************)
(* A tree whose entries are in directories stays one (WorkspaceTree). It   *)
(* is one at every instant of a call that makes entries. While a call      *)
(* removes rows, in any order, it is one but for the rows that are still   *)
(* to go: an entry may have lost its directory, but then it goes as well.  *)
(***************************************************************************)
EXTENDS WorkspaceTreeCopies

----------------------------------------------------------------------------
(* Rooted tables. *)

\* Every row is in a directory but those of S, and no directory that is needed is in S.
RootedBut(S) ==
  \A q \in Path \ S : Has(rows, q) /\ Len(q) > 1 =>
    TypeOf(rows, ParentPath(q)) = "directory" /\ ParentPath(q) \notin S

LEMMA ParentIsDir ==
  ASSUME NEW q \in Path, Len(q) > 1
  PROVE  ParentPath(q) \in Path /\ ParentPath(q) \in DirsAbove(q) /\ ParentPath(q) # q
<1>1. Len(q) \in Nat
  BY PathIsNames
<1>2. Len(q) - 1 \in 1..(Len(q) - 1)
  BY <1>1
<1>3. ParentPath(q) \in DirsAbove(q)
  BY <1>2 DEF ParentPath, DirsAbove
<1>4. QED BY <1>3, DirsArePaths

LEMMA ParentOfDir ==
  ASSUME NEW p \in Path, NEW q \in DirsAbove(p), Len(q) > 1
  PROVE  ParentPath(q) \in DirsAbove(p)
<1>1. q \in Path /\ AtOrAbove(q, p) /\ q # p
  BY DirsArePaths
<1>2. PICK u \in Path : u = ParentPath(q) /\ u \in DirsAbove(q)
  BY <1>1, ParentIsDir
<1>3. AtOrAbove(u, q) /\ u # q /\ u # Root
  BY <1>1, <1>2, DirsByNames
<1>4. AtOrAbove(u, p)
  BY <1>1, <1>3, AboveTransitive, PathIsNames
<1>5. u # p
  BY <1>1, <1>3, AboveBoth, PathIsNames
<1>6. QED BY <1>2, <1>3, <1>4, <1>5, DirsByNames

\* The tree is rooted if the table is.
LEMMA RootedTree ==
  ASSUME rows \in Table, objects \in Stored
  PROVE  /\ Rooted(Tree(rows, objects)) <=> RootedBut({})
         /\ \A p \in Path : TypeOf(rows, p) = IF Tree(rows, objects)[p] = NoRow THEN "none"
                                              ELSE Tree(rows, objects)[p].type
<1>1. \A p \in Path : /\ Tree(rows, objects)[p] # NoRow <=> Has(rows, p)
                      /\ Has(rows, p) => Tree(rows, objects)[p].type = TypeOf(rows, p)
  BY EntryFacts DEF Tree
<1>2. \A p \in Path : TypeOf(rows, p) = IF Tree(rows, objects)[p] = NoRow THEN "none"
                                        ELSE Tree(rows, objects)[p].type
  BY <1>1 DEF TypeOf
<1>3. \A p \in Path : TypeOf(rows, p) = "directory" => Has(rows, p)
  BY DEF TypeOf
<1>4. PICK t : t = Tree(rows, objects)
  OBVIOUS
<1>5. \A q \in Path : Len(q) > 1 => ParentPath(q) \in Path
  BY ParentIsDir
<1>6. Rooted(t) <=> RootedBut({})
  BY <1>1, <1>3, <1>4, <1>5 DEF Rooted, RootedBut
<1>7. QED BY <1>2, <1>4, <1>6

----------------------------------------------------------------------------
(* The places where a call makes entries. *)

Was(r, p) == IF before[r][p] = NoRow THEN "none" ELSE before[r][p].type

Places(r) ==
  IF call[r].do \in {"cp", "mv"} THEN {To(r, q) : q \in Reached(r)}
  ELSE IF call[r].do \in {"write", "append", "mkdir_p", "symlink"} THEN {call[r].dst} ELSE {}

\* Those of the links among them.
Links(r) ==
  IF call[r].do \in {"cp", "mv"}
  THEN {To(r, q) : q \in {x \in Reached(r) : before[r][x].type = "symlink"}}
  ELSE IF call[r].do = "symlink" THEN {call[r].dst} ELSE {}

\* Those with no other of them further down.
Leaves(r) == {p \in Places(r) : \A x \in Places(r) : ~IsAbove(p, x)}

\* No place is below a file or a link, and no link takes the place of a directory.
Open(r) ==
  /\ \A x \in Places(r), u \in Path : IsAbove(u, x) => TypeOf(rows, u) \in {"none", "directory"}
  /\ \A x \in Links(r) : TypeOf(rows, x) # "directory"

LEMMA LinkPlaces ==
  ASSUME NEW r \in Request, call[r] \in Call
  PROVE  /\ Links(r) \subseteq Places(r)
         /\ \A x \in Links(r), p \in Places(r) : AtOrAbove(x, p) => x = p
         /\ Links(r) \subseteq Leaves(r)
<1>1. Links(r) \subseteq Places(r)
  BY DEF Links, Places
<1>2. \A x \in Places(r) : x \in Names
  BY ReachedFacts, CallPaths, PathIsNames DEF Places
<1>3. ASSUME NEW x \in Links(r), NEW p \in Places(r), AtOrAbove(x, p) PROVE x = p
  <2>1. CASE call[r].do \in {"cp", "mv"}
    <3>1. PICK q \in Reached(r) : x = To(r, q) /\ before[r][q].type = "symlink"
      BY <1>3, <2>1 DEF Links
    <3>2. PICK s \in Reached(r) : p = To(r, s)
      BY <1>3, <2>1 DEF Places
    <3>3. AtOrAbove(q, s)
      BY <1>3, <2>1, <3>1, <3>2, PlacesApart
    <3>4. /\ q \in Path /\ AtOrAbove(call[r].src, q) /\ call[r].src \in Names
      BY <2>1, ReachedFacts
    <3>5. q # s => before[r][q].type = "directory"
      BY <3>3, <3>4, ReachedUp DEF Reached
    <3>6. QED BY <3>1, <3>2, <3>5
  <2>2. CASE call[r].do \notin {"cp", "mv"}
    BY <1>3, <2>2 DEF Links, Places
  <2>3. QED BY <2>1, <2>2
<1>4. \A x \in Links(r), p \in Places(r) : ~IsAbove(x, p)
  BY <1>1, <1>2, <1>3, AboveIsShorter
<1>5. QED BY <1>1, <1>3, <1>4 DEF Leaves

----------------------------------------------------------------------------
(* An entry is made. *)

\* p gets an entry of the kind that the call makes there, and what is missing above it
\* becomes directories.
Puts(r, p) ==
  /\ \A q \in Path \ {p} :
       rows'[q] = rows[q] \/ (rows[q] = NoRow /\ q \in DirsAbove(p) /\ rows'[q] = DirRow)
  /\ \A d \in DirsAbove(p) : Has(rows', d)
  /\ p \notin Links(r) /\ Has(rows, p) => TypeOf(rows', p) = TypeOf(rows, p)
  /\ p \in Links(r) => TypeOf(rows', p) = "symlink"
  /\ p \notin Leaves(r) => TypeOf(rows', p) \in {"none", "directory"}

LEMMA DirRowIs == DirRow # NoRow /\ DirRow.type = "directory"
BY RowsAreRows, SeedAssumption DEF DirRow

LEMMA TypesSame ==
  ASSUME NEW t, NEW u, NEW p, t[p] = u[p]
  PROVE  TypeOf(t, p) = TypeOf(u, p) /\ (Has(t, p) <=> Has(u, p))
BY DEF TypeOf, Has

LEMMA PutDirs ==
  ASSUME rows \in Table, NEW r \in Request, Open(r), NEW p \in Places(r), p \in Path, Puts(r, p),
         NEW d \in DirsAbove(p)
  PROVE  TypeOf(rows', d) = "directory"
<1>1. d \in Path /\ AtOrAbove(d, p) /\ d # p /\ Has(rows', d)
  BY DirsArePaths DEF Puts
<1>2. CASE rows'[d] = rows[d]
  <2>1. IsAbove(d, p)
    BY <1>1 DEF AtOrAbove
  <2>2. TypeOf(rows, d) \in {"none", "directory"}
    BY <1>1, <2>1 DEF Open
  <2>3. Has(rows, d) /\ TypeOf(rows', d) = TypeOf(rows, d)
    BY <1>1, <1>2, TypesSame
  <2>4. rows[d] # NoRow /\ TypeOf(rows, d) = rows[d].type
    BY <2>3 DEF Has, TypeOf
  <2>5. TypeOf(rows, d) # "none"
    BY <1>1, <2>4 DEF Table, Row
  <2>6. QED BY <2>2, <2>3, <2>5
<1>3. CASE rows'[d] = DirRow
  BY <1>1, <1>3, DirRowIs DEF TypeOf
<1>4. QED BY <1>1, <1>2, <1>3 DEF Puts

\* The tree stays rooted, and the places of the call stay open.
LEMMA PutKeeps ==
  ASSUME rows \in Table, NEW r \in Request, call[r] \in Call,
         call'[r] = call[r], before'[r] = before[r],
         RootedBut({}), Open(r), NEW p \in Places(r), p \in Path, Puts(r, p)
  PROVE  RootedBut({})' /\ Open(r)'
<1>1. \A d \in DirsAbove(p) : TypeOf(rows', d) = "directory"
  BY PutDirs
<1>2. \A q \in Path : q \notin DirsAbove(p) /\ q # p =>
        TypeOf(rows', q) = TypeOf(rows, q) /\ (Has(rows', q) <=> Has(rows, q))
  BY TypesSame DEF Puts
<1>3. p \notin DirsAbove(p)
  BY DirsArePaths
<1>4. TypeOf(rows, p) = "directory" => TypeOf(rows', p) = "directory"
  <2>1. SUFFICES ASSUME TypeOf(rows, p) = "directory" PROVE TypeOf(rows', p) = "directory"
    OBVIOUS
  <2>2. Has(rows, p)
    BY <2>1 DEF TypeOf
  <2>3. p \notin Links(r)
    BY <2>1 DEF Open
  <2>4. QED BY <2>1, <2>2, <2>3 DEF Puts
<1>5. ASSUME NEW q \in Path, Has(rows', q), Len(q) > 1
      PROVE  TypeOf(rows', ParentPath(q)) = "directory"
  <2>1. PICK u \in Path : u = ParentPath(q)
    BY <1>5, ParentIsDir
  <2>2. CASE q \in DirsAbove(p) \cup {p}
    <3>1. u \in DirsAbove(p)
      BY <1>5, <2>1, <2>2, ParentOfDir, ParentIsDir
    <3>2. QED BY <1>1, <2>1, <3>1
  <2>3. CASE q \notin DirsAbove(p) \cup {p}
    <3>1. TypeOf(rows, u) = "directory"
      BY <1>2, <1>5, <2>1, <2>3 DEF RootedBut
    <3>2. TypeOf(rows', u) = "directory"
      BY <1>1, <1>2, <1>4, <3>1
    <3>3. QED BY <2>1, <3>2
  <2>4. QED BY <2>2, <2>3
<1>6. RootedBut({})'
  BY <1>5 DEF RootedBut
<1>7. Places(r)' = Places(r) /\ Links(r)' = Links(r)
  BY DEF Places, Links, Reached, To
<1>8. ASSUME NEW x \in Places(r), NEW u \in Path, IsAbove(u, x)
      PROVE  TypeOf(rows', u) \in {"none", "directory"}
  <2>1. CASE u \in DirsAbove(p)
    BY <1>1, <2>1
  <2>2. CASE u = p
    <3>1. p \notin Leaves(r)
      BY <1>8, <2>2 DEF Leaves
    <3>2. QED BY <2>2, <3>1 DEF Puts
  <2>3. CASE u \notin DirsAbove(p) /\ u # p
    BY <1>2, <1>8, <2>3 DEF Open
  <2>4. QED BY <2>1, <2>2, <2>3
<1>9. ASSUME NEW x \in Links(r) PROVE TypeOf(rows', x) # "directory"
  <2>1. CASE x \notin Path
    BY <2>1 DEF TypeOf, Has
  <2>2. CASE x = p
    BY <1>9, <2>2 DEF Puts
  <2>3. CASE x \in DirsAbove(p)
    BY <1>9, <2>3, <1>3, LinkPlaces, DirsArePaths
  <2>4. CASE x \in Path /\ x \notin DirsAbove(p) /\ x # p
    BY <1>2, <1>9, <2>4 DEF Open
  <2>5. QED BY <2>1, <2>2, <2>3, <2>4
<1>10. Open(r)'
  <2>1. \A x \in Places(r)', u \in Path : IsAbove(u, x) => TypeOf(rows', u) \in {"none", "directory"}
    BY <1>7, <1>8
  <2>2. \A x \in Links(r)' : TypeOf(rows', x) # "directory"
    BY <1>7, <1>9
  <2>3. QED BY <2>1, <2>2 DEF Open
<1>11. QED BY <1>6, <1>10

\* What a copy is of is still of its kind. (A directory is copied to a place apart from it.)
SourceTypes(r) ==
  call[r].do \in {"cp", "mv"} =>
    \A q \in Path : /\ AtOrAbove(call[r].src, q)
                    /\ q = call[r].src \/ Apart(call[r].src, call[r].dst)
                    => TypeOf(rows, q) = Was(r, q)

\* The tree was rooted when the call came, and the call keeps it so.
Sound(r) == Rooted(before[r]) /\ ~Clashes(call[r], before[r])

\* A directory is copied to a place apart from it.
LEMMA SoundApart ==
  ASSUME NEW r \in Request, Sound(r), call[r].do \in {"cp", "mv"},
         ~Apart(call[r].src, call[r].dst)
  PROVE  Was(r, call[r].src) # "directory"
BY DEF Sound, Clashes, Was

\* What is reached, and its kind.
LEMMA ReachedTypes ==
  ASSUME NEW r \in Request, call[r] \in Call, call[r].do \in {"cp", "mv"}, Sound(r), SourceTypes(r),
         NEW q \in Reached(r)
  PROVE  /\ q = call[r].src \/ Apart(call[r].src, call[r].dst)
         /\ TypeOf(rows, q) = before[r][q].type /\ Was(r, q) = before[r][q].type
<1>1. q \in Path /\ AtOrAbove(call[r].src, q) /\ before[r][q] # NoRow
  BY ReachedFacts
<1>2. before[r][call[r].src] # NoRow
  BY ReachedRoot
<1>3. q = call[r].src \/ Apart(call[r].src, call[r].dst)
  <2>1. SUFFICES ASSUME ~Apart(call[r].src, call[r].dst) PROVE q = call[r].src
    OBVIOUS
  <2>2. before[r][call[r].src].type # "directory"
    BY <1>2, <2>1, SoundApart DEF Was
  <2>3. QED BY <2>2, OnlyItself
<1>4. TypeOf(rows, q) = Was(r, q)
  BY <1>1, <1>3 DEF SourceTypes
<1>5. QED BY <1>1, <1>3, <1>4 DEF Was

\* What is reached is there.
LEMMA SourceThere ==
  ASSUME NEW r \in Request, call[r] \in Call, call[r].do \in {"cp", "mv"}, before[r] \in Trees,
         Sound(r), SourceTypes(r), NEW q \in Reached(r)
  PROVE  Has(rows, q) /\ rows[q] # NoRow
<1>1. q \in Path /\ before[r][q] # NoRow
  BY ReachedFacts
<1>2. before[r][q].type \in {"directory", "file", "symlink"}
  BY <1>1 DEF Trees, Entries
<1>3. TypeOf(rows, q) # "none"
  BY <1>2, ReachedTypes
<1>4. QED BY <1>3 DEF TypeOf, Has

LEMMA PutKeepsSource ==
  ASSUME rows \in Table, NEW r \in Request, call[r] \in Call,
         call'[r] = call[r], before'[r] = before[r],
         before[r] \in Trees, Sound(r), SourceTypes(r), NEW p \in Places(r), p \in Path, Puts(r, p)
  PROVE  SourceTypes(r)'
<1>1. SUFFICES ASSUME call[r].do \in {"cp", "mv"},
                      NEW q \in Path, AtOrAbove(call[r].src, q),
                      q = call[r].src \/ Apart(call[r].src, call[r].dst)
               PROVE  TypeOf(rows', q) = Was(r, q)
  BY DEF SourceTypes, Was
<1>2. PICK s \in Reached(r) : p = To(r, s)
  BY <1>1 DEF Places
<1>3. /\ call[r].src \in Names /\ call[r].dst \in Names /\ call[r].src \in Path
      /\ AtOrAbove(call[r].dst, p)
  BY <1>1, <1>2, ReachedFacts
<1>4. TypeOf(rows, q) = Was(r, q)
  BY <1>1 DEF SourceTypes
<1>5. CASE Apart(call[r].src, call[r].dst)
  <2>1. ~AtOrAbove(q, p)
    <3>1. SUFFICES ASSUME AtOrAbove(q, p) PROVE FALSE
      OBVIOUS
    <3>2. AtOrAbove(call[r].src, p)
      BY <1>1, <1>3, <3>1, AboveTransitive, PathIsNames
    <3>3. QED BY <1>3, <1>5, <3>2, AboveLinear, PathIsNames DEF Apart
  <2>2. q # p /\ q \notin DirsAbove(p)
    BY <2>1, DirsArePaths DEF AtOrAbove
  <2>3. QED BY <1>4, <2>2, TypesSame DEF Puts
<1>6. CASE q = call[r].src /\ ~Apart(call[r].src, call[r].dst)
  <2>1. s = q
    BY <1>1, <1>2, <1>6, ReachedTypes
  <2>2. Was(r, q) = before[r][q].type /\ Was(r, q) # "directory"
    BY <1>1, <1>2, <1>6, <2>1, ReachedTypes, SoundApart
  <2>3. before[r][q] # NoRow
    BY <1>1, <1>2, <2>1, ReachedFacts
  <2>4. CASE p # q
    <3>1. \/ rows'[q] = rows[q]
          \/ rows[q] = NoRow
      BY <2>4 DEF Puts
    <3>2. CASE rows'[q] = rows[q]
      BY <1>4, <3>2, TypesSame
    <3>3. CASE rows[q] = NoRow
      BY <1>1, <1>2, <2>1, <2>2, <3>3, SourceThere
    <3>4. QED BY <3>1, <3>2, <3>3
  <2>5. CASE p = q /\ p \in Links(r)
    <3>1. PICK x \in Reached(r) : p = To(r, x) /\ before[r][x].type = "symlink"
      BY <1>1, <2>5 DEF Links
    <3>2. x = s
      BY <1>1, <1>2, <3>1, PlacesApart
    <3>3. QED BY <2>1, <2>2, <2>5, <3>1, <3>2 DEF Puts
  <2>6. CASE p = q /\ p \notin Links(r)
    <3>1. Has(rows, q)
      BY <1>1, <1>2, <2>1, SourceThere
    <3>2. QED BY <1>4, <2>6, <3>1 DEF Puts
  <2>7. QED BY <2>4, <2>5, <2>6
<1>7. QED BY <1>1, <1>5, <1>6

----------------------------------------------------------------------------
(* What is true of a call that keeps the tree rooted. *)

\* The job j makes entries at the places of the call, of the kind that goes there.
JobFits(r, j) ==
  /\ j.do \in {"write", "append", "fetch"} => j.dst \in Leaves(r) \ Links(r)
  /\ j.do = "symlink" => j.dst \in Links(r)
  /\ j.do = "mkdir_p" => j.dst \in Leaves(r) \ Links(r)
  /\ j.do \in {"cp", "entries"} =>
       /\ call[r].do \in {"cp", "mv"} /\ j.dst = To(r, j.src)
       /\ j.src \in Reached(r) \/ (j = call[r] /\ Was(r, j.src) = "none")
  /\ j.do = "entries" => \A n \in j.names : Append(j.src, n) \in Reached(r)
  /\ j.do \in {"mkdir", "mv"} => j = call[r]
  /\ j.do = "rows" => /\ call[r].do = "mv" /\ j.paths = {call[r].src}
                      /\ Was(r, call[r].src) # "directory"

\* A row that waits for its object has its directories.
PutReady(r) ==
  await[r] # NoAwait /\ await[r].op = "put" => \A d \in DirsAbove(await[r].key) : Has(rows, d)

Growing(r) == RootedBut({}) /\ Open(r) /\ SourceTypes(r)

\* While the call makes entries the tree is rooted, while it removes rows it is but for these.
RootInv(r) ==
  status[r] # "idle" /\ Sound(r) =>
    /\ status[r] # "running" => RootedBut({})
    /\ status[r] = "running" /\ Head(jobs[r]).do = "rows" => RootedBut(Head(jobs[r]).paths)
    /\ status[r] = "running" /\ Head(jobs[r]).do # "rows" =>
         Growing(r) /\ PutReady(r) /\ \A j \in Elements(jobs[r]) : JobFits(r, j)

\* The call, and what it makes, do not change while it is served.
LEMMA SamePlaces ==
  ASSUME NEW r \in Request, call'[r] = call[r], before'[r] = before[r]
  PROVE  /\ Sound(r)' <=> Sound(r)
         /\ Places(r)' = Places(r) /\ Links(r)' = Links(r)
         /\ \A j : JobFits(r, j)' <=> JobFits(r, j)
<1>1. Sound(r)' <=> Sound(r)
  BY DEF Sound
<1>2. Reached(r)' = Reached(r) /\ (\A q : To(r, q)' = To(r, q)) /\ \A q : Was(r, q)' = Was(r, q)
  BY DEF Reached, To, Was
<1>3. Places(r)' = Places(r) /\ Links(r)' = Links(r)
  BY <1>2 DEF Places, Links, To, Reached
<1>4. Leaves(r)' = Leaves(r)
  BY <1>3 DEF Leaves
<1>5. \A j : JobFits(r, j)' <=> JobFits(r, j)
  BY <1>2, <1>3, <1>4 DEF JobFits
<1>6. QED BY <1>1, <1>3, <1>5

LEMMA GrowingSame ==
  ASSUME NEW r \in Request, call'[r] = call[r], before'[r] = before[r], rows' = rows, Growing(r)
  PROVE  Growing(r)'
<1>1. RootedBut({})'
  BY DEF Growing, RootedBut
<1>2. Open(r)'
  BY SamePlaces DEF Growing, Open
<1>3. SourceTypes(r)'
  BY DEF Growing, SourceTypes, Was
<1>4. QED BY <1>1, <1>2, <1>3 DEF Growing

LEMMA GrowingPut ==
  ASSUME rows \in Table, NEW r \in Request, call[r] \in Call,
         call'[r] = call[r], before'[r] = before[r],
         before[r] \in Trees, Sound(r), Growing(r), NEW p \in Places(r), p \in Path, Puts(r, p)
  PROVE  Growing(r)'
BY PutKeeps, PutKeepsSource DEF Growing

\* The ways such a call goes on.
LEMMA RootStops ==
  ASSUME TypeInv, NEW r \in Request, Stop(r), Growing(r)'
  PROVE  RootInv(r)'
BY Stops DEF RootInv, Growing

\* Nothing is in what is no directory.
LEMMA LeafRemovable ==
  ASSUME NEW p \in Path, TypeOf(rows, p) # "directory", RootedBut({})
  PROVE  RootedBut({p})
BY DEF RootedBut

LEMMA RootContinues ==
  ASSUME TypeInv, TypeInv', NEW r \in Request, call[r] \in Call, NEW js, Continue(r, js),
         Growing(r)',
         \A j \in Elements(js) : JobFits(r, j)
  PROVE  RootInv(r)'
<1>1. /\ jobs'[r] = js /\ await'[r] = NoAwait /\ status'[r] = IF js = <<>> THEN "ok" ELSE "running"
      /\ call' = call /\ before' = before
  BY Continues DEF Alone
<1>2. \A j : JobFits(r, j)' <=> JobFits(r, j)
  BY <1>1, SamePlaces
<1>. js \in Seq(Job)
  BY <1>1 DEF TypeInv
<1>3. PutReady(r)'
  BY <1>1 DEF PutReady
<1>4. RootedBut({})'
  BY DEF Growing
<1>5. ASSUME js # <<>>, Head(js).do = "rows" PROVE RootedBut(Head(js).paths)'
  <2>1. JobFits(r, Head(js))
    BY <1>5, ElementsLeft
  <2>2. PICK p \in Path : p = call[r].src /\ call[r].do = "mv"
    BY <1>5, <2>1, CallPaths DEF JobFits
  <2>3. Head(js).paths = {p} /\ Was(r, p) # "directory"
    BY <1>5, <2>1, <2>2 DEF JobFits
  <2>4. TypeOf(rows', p) # "directory"
    BY <1>1, <2>2, <2>3 DEF Growing, SourceTypes, Was, AtOrAbove
  <2>5. RootedBut({p})'
    BY <1>4, <2>4 DEF RootedBut
  <2>6. QED BY <2>3, <2>5
<1>6. \A j \in Elements(jobs[r])' : JobFits(r, j)'
  BY <1>1, <1>2 DEF Elements
<1>7. CASE js = <<>>
  BY <1>1, <1>4, <1>7 DEF RootInv
<1>8. CASE js # <<>> /\ Head(js).do = "rows"
  BY <1>1, <1>5, <1>8 DEF RootInv
<1>9. CASE js # <<>> /\ Head(js).do # "rows"
  BY <1>1, <1>3, <1>6, <1>9 DEF RootInv
<1>10. QED BY <1>7, <1>8, <1>9

LEMMA RootWaits ==
  ASSUME NEW r \in Request, Alone(r), jobs'[r] = jobs[r], status'[r] = "running",
         Head(jobs[r]).do # "rows", Growing(r)', PutReady(r)',
         \A j \in Elements(jobs[r]) : JobFits(r, j)
  PROVE  RootInv(r)'
<1>1. call'[r] = call[r] /\ before'[r] = before[r]
  BY DEF Alone
<1>2. \A j : JobFits(r, j)' <=> JobFits(r, j)
  BY <1>1, SamePlaces
<1>3. \A j \in Elements(jobs[r])' : JobFits(r, j)'
  BY <1>2 DEF Elements
<1>4. QED BY <1>3 DEF RootInv

----------------------------------------------------------------------------
(* The steps that make entries. *)

Making(r) ==
  /\ call[r] \in Call /\ status[r] = "running" /\ Head(jobs[r]).do # "rows"
  /\ before[r] \in Trees /\ Sound(r)

LEMMA RootRuns ==
  ASSUME TypeInv, NEW r \in Request, RootInv(r), Making(r), NEW j, j = Head(jobs[r])
  PROVE  /\ rows \in Table /\ objects \in Stored
         /\ j \in Job /\ jobs[r] # <<>> /\ Rest(r) \in Seq(Job)
         /\ Growing(r) /\ PutReady(r)
         /\ \A k \in Elements(jobs[r]) : JobFits(r, k)
         /\ JobFits(r, j) /\ \A k \in Elements(Rest(r)) : JobFits(r, k)
<1>1. rows \in Table /\ objects \in Stored
  BY StoresTable
<1>2. jobs[r] \in Seq(Job) /\ jobs[r] # <<>>
  BY DEF TypeInv, TypeOK, Making
<1>3. j \in Job /\ Rest(r) \in Seq(Job) /\ Elements(jobs[r]) = {j} \cup Elements(Rest(r))
  BY <1>2, ElementsLeft, Sequences1 DEF Rest
<1>4. Growing(r) /\ PutReady(r) /\ \A k \in Elements(jobs[r]) : JobFits(r, k)
  BY DEF RootInv, Making
<1>5. QED BY <1>1, <1>2, <1>3, <1>4

\* The step plans others, and changes no row.
LEMMA RootPlans ==
  ASSUME TypeInv, TypeInv', NEW r \in Request, RootInv(r), Making(r), rows' = rows,
         NEW js, Continue(r, js), \A k \in Elements(js) : JobFits(r, k)
  PROVE  RootInv(r)'
<1>1. call'[r] = call[r] /\ before'[r] = before[r]
  BY Continues DEF Alone
<1>2. Growing(r)
  BY RootRuns
<1>3. Growing(r)'
  BY <1>1, <1>2, GrowingSame
<1>4. QED BY <1>3, RootContinues DEF Making

LEMMA RootPlansOne ==
  ASSUME TypeInv, TypeInv', NEW r \in Request, RootInv(r), Making(r), rows' = rows,
         NEW x, Continue(r, <<x>> \o Rest(r)), JobFits(r, x)
  PROVE  RootInv(r)'
<1>1. Rest(r) \in Seq(Job) /\ \A k \in Elements(Rest(r)) : JobFits(r, k)
  BY RootRuns
<1>2. PICK js : js = <<x>> \o Rest(r)
  OBVIOUS
<1>3. Elements(js) = {x} \cup Elements(Rest(r))
  BY <1>1, <1>2, OneMoreJob
<1>4. \A k \in Elements(js) : JobFits(r, k)
  BY <1>1, <1>3
<1>5. QED BY <1>2, <1>4, RootPlans

LEMMA RootFails ==
  ASSUME TypeInv, NEW r \in Request, RootInv(r), Making(r), rows' = rows, Stop(r)
  PROVE  RootInv(r)'
<1>1. call'[r] = call[r] /\ before'[r] = before[r]
  BY Stops DEF Alone
<1>2. Growing(r)'
  BY <1>1, RootRuns, GrowingSame
<1>3. QED BY <1>2, RootStops

\* The step makes an entry at a place of the call, and goes on, fails, or waits.
LEMMA RootMakes ==
  ASSUME TypeInv, TypeInv', NEW r \in Request, RootInv(r), Making(r),
         NEW p \in Places(r), p \in Path, Puts(r, p),
         \/ Stop(r)
         \/ \E js : Continue(r, js) /\ \A k \in Elements(js) : JobFits(r, k)
         \/ \E w \in Await : Wait(r, w) /\ (w.op = "put" => w.key = p)
  PROVE  RootInv(r)'
<1>1. rows \in Table /\ Growing(r) /\ \A k \in Elements(jobs[r]) : JobFits(r, k)
  BY RootRuns
<1>2. call' = call /\ before' = before
  BY Continues, Stops, Waits DEF Alone
<1>3. Growing(r)'
  BY <1>1, <1>2, GrowingPut DEF Making
<1>4. CASE Stop(r)
  BY <1>3, <1>4, RootStops
<1>5. CASE \E js : Continue(r, js) /\ \A k \in Elements(js) : JobFits(r, k)
  BY <1>3, <1>5, RootContinues DEF Making
<1>6. ASSUME NEW w \in Await, Wait(r, w), w.op = "put" => w.key = p PROVE RootInv(r)'
  <2>1. jobs'[r] = jobs[r] /\ await'[r] = w /\ status'[r] = "running" /\ Alone(r)
    BY <1>6, Waits DEF Making
  <2>2. PutReady(r)'
    BY <1>6, <2>1 DEF PutReady, Puts
  <2>3. QED BY <1>1, <1>3, <2>1, <2>2, RootWaits DEF Making
<1>7. QED BY <1>4, <1>5, <1>6

\* A step that changes the row of p, if any, and makes the directories above it.
LEMMA WithDirsPuts ==
  ASSUME TypeInv, NEW r \in Request, NEW p \in Path,
         \A q \in Path \ {p} : rows'[q] = WithDirs(rows, DirsAbove(p))[q],
         p \notin Links(r) /\ Has(rows, p) => TypeOf(rows', p) = TypeOf(rows, p),
         p \in Links(r) => TypeOf(rows', p) = "symlink",
         p \notin Leaves(r) => TypeOf(rows', p) \in {"none", "directory"}
  PROVE  Puts(r, p)
<1>1. rows \in Table
  BY StoresTable
<1>2. \A q \in Path \ {p} :
        rows'[q] = IF q \in DirsAbove(p) /\ rows[q] = NoRow THEN DirRow ELSE rows[q]
  BY <1>1, WithDirsTyped
<1>3. \A d \in DirsAbove(p) : d \in Path \ {p}
  BY DirsArePaths
<1>4. \A d \in DirsAbove(p) : Has(rows', d)
  BY <1>2, <1>3, DirRowIs DEF Has
<1>5. QED BY <1>2, <1>4 DEF Puts

\* A write leaves what has a row what it is.
LEMMA UpsertKind ==
  ASSUME NEW t \in Table, NEW p \in Path, NEW store \in {"inline", "r2"}, NEW c \in Content, Has(t, p)
  PROVE  TypeOf(Upsert(t, p, store, c), p) = TypeOf(t, p)
<1>1. PICK u : u = Upsert(t, p, store, c)
  OBVIOUS
<1>2. t[p] \in Row
  BY DEF Has, Table
<1>3. u = [t EXCEPT ![p] = [t[p] EXCEPT !.storage = store, !.content = c]]
  BY <1>1 DEF Upsert
<1>4. u[p] = [t[p] EXCEPT !.storage = store, !.content = c]
  BY <1>3 DEF Table
<1>5. u[p] \in Row /\ u[p].type = t[p].type
  BY <1>2, <1>4 DEF Row
<1>6. Has(u, p)
  BY <1>5, SeedAssumption DEF Has
<1>7. QED BY <1>1, <1>5, <1>6 DEF TypeOf

LEMMA RootWrites ==
  ASSUME TypeInv, TypeInv', NEW r \in Request, RootInv(r), Making(r), Write(r)
  PROVE  RootInv(r)'
<1>1. PICK j : j = Head(jobs[r])
  OBVIOUS
<1>2. PICK p : p = j.dst
  OBVIOUS
<1>3. /\ j \in Job /\ j.do = "write" /\ p \in Path /\ j.data \in Content /\ rows \in Table
      /\ p \in Leaves(r) \ Links(r) /\ \A k \in Elements(Rest(r)) : JobFits(r, k)
  <2>1. Runs(r, "write") /\ j \in Job /\ j.do = "write"
    BY <1>1, RootRuns DEF Write, Runs
  <2>2. QED BY <1>1, <1>2, <2>1, RootRuns, JobData DEF JobFits
<1>4. p \in Places(r)
  BY <1>3 DEF Leaves
<1>5. PICK t \in Table : t = WithDirs(rows, DirsAbove(p))
  BY <1>3, WithDirsTyped
<1>6. t[p] = rows[p]
  <2>1. p \notin DirsAbove(p)
    BY <1>3, DirsArePaths
  <2>2. QED BY <1>3, <1>5, <2>1, WithDirsTyped
<1>7. CASE Stop(r) /\ NoChange
  BY <1>7, RootFails DEF NoChange
<1>8. ASSUME rows' = t PROVE Puts(r, p)
  <2>1. TypeOf(rows', p) = TypeOf(rows, p)
    BY <1>6, <1>8, TypesSame
  <2>2. QED BY <1>3, <1>5, <1>8, <2>1, WithDirsPuts
<1>9. CASE rows' = t /\ Stop(r)
  BY <1>3, <1>4, <1>8, <1>9, RootMakes
<1>10. ASSUME NEW e \in BOOLEAN, rows' = t, Wait(r, AwaitOf("put", p, j.data, e))
       PROVE  RootInv(r)'
  <2>1. PICK w : w = AwaitOf("put", p, j.data, e)
    OBVIOUS
  <2>2. w \in Await /\ w.key = p
    BY <1>3, <2>1 DEF AwaitOf, Await
  <2>3. QED BY <1>3, <1>4, <1>8, <1>10, <2>1, <2>2, RootMakes
<1>11. ASSUME rows' = Upsert(t, p, "inline", j.data) PROVE Puts(r, p)
  <2>1. PICK u \in Table : u = Upsert(t, p, "inline", j.data) /\ \A q \in Path \ {p} : u[q] = t[q]
    BY <1>3, UpsertTyped
  <2>2. ASSUME Has(rows, p) PROVE TypeOf(u, p) = TypeOf(rows, p)
    BY <1>3, <1>6, <2>1, <2>2, TypesSame, UpsertKind
  <2>3. \A q \in Path \ {p} : rows'[q] = WithDirs(rows, DirsAbove(p))[q]
    BY <1>5, <1>11, <2>1
  <2>4. QED BY <1>3, <1>11, <2>1, <2>2, <2>3, WithDirsPuts
<1>12. CASE rows' = Upsert(t, p, "inline", j.data) /\ Continue(r, Rest(r))
  BY <1>3, <1>4, <1>11, <1>12, RootMakes
<1>13. ASSUME NEW e \in BOOLEAN, rows' = Upsert(t, p, "inline", j.data),
              Wait(r, AwaitOf("drop", p, {}, e))
       PROVE  RootInv(r)'
  <2>1. PICK w : w = AwaitOf("drop", p, {}, e)
    OBVIOUS
  <2>2. w \in Await /\ w.op # "put"
    BY <1>3, <2>1 DEF AwaitOf, Await, Content
  <2>3. QED BY <1>3, <1>4, <1>11, <1>13, <2>1, <2>2, RootMakes
<1>14. Has(t, p) \in BOOLEAN
  BY DEF Has
<1>15. QED BY <1>1, <1>2, <1>5, <1>7, <1>9, <1>10, <1>12, <1>13, <1>14 DEF Write

LEMMA RootReads ==
  ASSUME TypeInv, TypeInv', NEW r \in Request, RootInv(r), Making(r), AppendFile(r) \/ Fetch(r)
  PROVE  RootInv(r)'
<1>1. PICK j : j = Head(jobs[r])
  OBVIOUS
<1>2. JobFits(r, j)
  BY <1>1, RootRuns
<1>3. rows' = rows /\ j.do \in {"append", "fetch"}
  BY <1>1 DEF AppendFile, Fetch, NoChange, Runs
<1>4. j.dst \in Leaves(r) \ Links(r)
  BY <1>2, <1>3 DEF JobFits
<1>5. ASSUME NEW x, x.do \in {"fetch", "write"}, x.dst = j.dst, Continue(r, <<x>> \o Rest(r))
      PROVE  RootInv(r)'
  <2>1. JobFits(r, x)
    BY <1>4, <1>5 DEF JobFits
  <2>2. QED BY <1>3, <1>5, <2>1, RootPlansOne
<1>6. CASE Stop(r)
  BY <1>3, <1>6, RootFails
<1>7. ASSUME NEW w \in Await, Wait(r, w), w.op = "get" PROVE RootInv(r)'
  <2>1. jobs'[r] = jobs[r] /\ await'[r] = w /\ status'[r] = "running" /\ Alone(r)
    BY <1>7, Waits DEF Making
  <2>2. PutReady(r)'
    BY <1>7, <2>1 DEF PutReady
  <2>3. Growing(r)' /\ \A k \in Elements(jobs[r]) : JobFits(r, k)
    BY <1>3, <2>1, RootRuns, GrowingSame DEF Alone
  <2>4. QED BY <2>1, <2>2, <2>3, RootWaits DEF Making
<1>8. CASE AppendFile(r)
  <2>1. PICK x : x = FetchJob(j.dst, j.dst, j.data)
    OBVIOUS
  <2>2. x.do = "fetch" /\ x.dst = j.dst
    BY <2>1 DEF FetchJob
  <2>3. Continue(r, <<x>> \o Rest(r))
    BY <1>1, <1>8, <2>1 DEF AppendFile
  <2>4. QED BY <1>5, <2>2, <2>3
<1>9. CASE Fetch(r)
  <2>1. ASSUME NEW d, Continue(r, <<WriteJob(j.dst, d)>> \o Rest(r)) PROVE RootInv(r)'
    <3>1. PICK x : x = WriteJob(j.dst, d)
      OBVIOUS
    <3>2. x.do = "write" /\ x.dst = j.dst
      BY <3>1 DEF WriteJob
    <3>3. QED BY <1>5, <2>1, <3>1, <3>2
  <2>2. ASSUME NEW q, InR2(rows, q), Wait(r, AwaitOf("get", q, {}, FALSE)) PROVE RootInv(r)'
    <3>1. PICK w : w = AwaitOf("get", q, {}, FALSE)
      OBVIOUS
    <3>2. w \in Await /\ w.op = "get"
      BY <2>2, <3>1 DEF AwaitOf, Await, Content, InR2, Has
    <3>3. QED BY <1>7, <2>2, <3>1, <3>2
  <2>3. QED BY <1>1, <1>6, <1>9, <2>1, <2>2 DEF Fetch
<1>10. QED BY <1>8, <1>9

LEMMA RootSymlinks ==
  ASSUME TypeInv, TypeInv', NEW r \in Request, RootInv(r), Making(r), Symlink(r)
  PROVE  RootInv(r)'
<1>0. CASE Stop(r) /\ NoChange
  BY <1>0, RootFails DEF NoChange
<1> SUFFICES ASSUME ~(Stop(r) /\ NoChange) PROVE RootInv(r)'
  BY <1>0
<1>1. PICK j : j = Head(jobs[r])
  OBVIOUS
<1>2. PICK p : p = j.dst
  OBVIOUS
<1>3. /\ j \in Job /\ p \in Path /\ j.target \in Target \cup {NoTarget} /\ rows \in Table
      /\ p \in Links(r) /\ \A k \in Elements(Rest(r)) : JobFits(r, k)
  <2>1. Runs(r, "symlink") /\ j \in Job /\ j.do = "symlink"
    BY <1>1, RootRuns DEF Symlink, Runs
  <2>2. QED BY <1>1, <1>2, <2>1, RootRuns, JobData DEF JobFits
<1>4. p \in Places(r) /\ p \in Leaves(r)
  BY <1>3, LinkPlaces DEF Making
<1>5. PICK t \in Table : t = WithDirs(rows, DirsAbove(p))
  BY <1>3, WithDirsTyped
<1>6. rows' = UpsertLink(t, p, j.target) /\ Continue(r, Rest(r))
  BY <1>1, <1>2, <1>5 DEF Symlink
<1>7. \A q \in Path \ {p} : rows'[q] = WithDirs(rows, DirsAbove(p))[q]
  BY <1>3, <1>5, <1>6, UpsertLinkTyped
<1>8. TypeOf(rows', p) = "symlink"
  <2>1. rows'[p] \in Row
    BY <1>3, <1>6, UpsertLinkTyped
  <2>2. rows'[p].type = "symlink"
    <3>1. CASE Has(t, p)
      <4>1. t[p] \in Row
        BY <3>1 DEF Has, Table
      <4>2. rows' = [t EXCEPT ![p] = [t[p] EXCEPT !.type = "symlink", !.target = j.target]]
        BY <1>6, <3>1 DEF UpsertLink
      <4>3. rows'[p] = [t[p] EXCEPT !.type = "symlink", !.target = j.target]
        BY <1>3, <4>2 DEF Table
      <4>4. QED BY <4>1, <4>3 DEF Row
    <3>2. CASE ~Has(t, p)
      <4>1. rows' = [t EXCEPT ![p] = LinkRow(j.target)]
        BY <1>6, <3>2 DEF UpsertLink
      <4>2. rows'[p] = LinkRow(j.target)
        BY <1>3, <4>1 DEF Table
      <4>3. QED BY <4>2 DEF LinkRow
    <3>3. QED BY <3>1, <3>2
  <2>3. QED BY <1>3, <2>1, <2>2, SeedAssumption DEF TypeOf, Has
<1>9. Puts(r, p)
  BY <1>3, <1>4, <1>7, <1>8, WithDirsPuts
<1>10. QED BY <1>3, <1>4, <1>6, <1>9, RootMakes

LEMMA RootMkdirs ==
  ASSUME TypeInv, TypeInv', NEW r \in Request, RootInv(r), Making(r), Mkdir(r)
  PROVE  RootInv(r)'
<1>1. PICK j : j = Head(jobs[r])
  OBVIOUS
<1>2. PICK p : p = j.dst
  OBVIOUS
<1>3. /\ j \in Job /\ j.do \in {"mkdir", "mkdir_p"} /\ p \in Path /\ rows \in Table
      /\ JobFits(r, j) /\ \A k \in Elements(Rest(r)) : JobFits(r, k)
  <2>1. j \in Job /\ j.do \in {"mkdir", "mkdir_p"}
    BY <1>1, RootRuns DEF Mkdir, Runs
  <2>2. QED BY <1>1, <1>2, <2>1, RootRuns, JobData
<1>4. CASE Continue(r, Rest(r)) /\ NoChange
  BY <1>3, <1>4, RootPlans DEF NoChange
<1>5. CASE Stop(r) /\ NoChange
  BY <1>5, RootFails DEF NoChange
<1>6. CASE /\ j.do = "mkdir_p" /\ Continue(r, Rest(r))
           /\ rows' = WithDirs(rows, DirsAbove(p) \cup {p})
  <2>1. p \in Leaves(r) \ Links(r) /\ p \in Places(r)
    BY <1>2, <1>3, <1>6 DEF JobFits, Leaves
  <2>2. \A q \in Path : rows'[q] = IF q \in DirsAbove(p) \cup {p} /\ rows[q] = NoRow THEN DirRow ELSE rows[q]
    BY <1>3, <1>6, WithDirsTyped
  <2>3. \A q \in Path \ {p} : rows'[q] = WithDirs(rows, DirsAbove(p))[q]
    BY <1>3, <2>2, WithDirsTyped
  <2>4. ASSUME Has(rows, p) PROVE TypeOf(rows', p) = TypeOf(rows, p)
    <3>1. rows'[p] = rows[p]
      BY <1>3, <2>2, <2>4 DEF Has
    <3>2. QED BY <3>1, TypesSame
  <2>5. Puts(r, p)
    BY <1>3, <2>1, <2>3, <2>4, WithDirsPuts
  <2>6. QED BY <1>3, <1>6, <2>1, <2>5, RootMakes
<1>7. CASE /\ j.do = "mkdir"
           /\ ParentPath(p) = Root \/ TypeOf(rows, ParentPath(p)) = "directory"
           /\ Continue(r, Rest(r)) /\ rows' = WithDirs(rows, {p})
  <2>1. call[r].do = "mkdir"
    BY <1>3, <1>7 DEF JobFits
  <2>2. call'[r] = call[r] /\ before'[r] = before[r]
    BY <1>7, Continues DEF Alone
  <2>3. Open(r)' /\ SourceTypes(r)'
    BY <2>1, <2>2 DEF Open, SourceTypes, Places, Links
  <2>4. \A q \in Path : rows'[q] = IF q = p /\ rows[q] = NoRow THEN DirRow ELSE rows[q]
    BY <1>3, <1>7, WithDirsTyped
  <2>5. \A q \in Path : TypeOf(rows, q) = "directory" => TypeOf(rows', q) = "directory"
    <3>1. \A q \in Path : TypeOf(rows, q) = "directory" => rows'[q] = rows[q]
      BY <2>4 DEF TypeOf, Has
    <3>2. QED BY <3>1, TypesSame
  <2>6. ASSUME NEW q \in Path, Has(rows', q), Len(q) > 1
        PROVE  TypeOf(rows', ParentPath(q)) = "directory"
    <3>1. PICK u \in Path : u = ParentPath(q)
      BY <2>6, ParentIsDir
    <3>2. CASE q = p
      <4>1. u # Root
        BY <2>6, <3>1, ParentIsDir, DirsByNames
      <4>2. QED BY <1>7, <2>5, <3>1, <3>2, <4>1
    <3>3. CASE q # p
      <4>1. Has(rows, q)
        BY <2>4, <2>6, <3>3 DEF Has
      <4>2. TypeOf(rows, u) = "directory"
        BY <2>6, <3>1, <4>1, RootRuns DEF Growing, RootedBut
      <4>3. QED BY <2>5, <3>1, <4>2
    <3>4. QED BY <3>2, <3>3
  <2>7. Growing(r)'
    BY <2>3, <2>6 DEF Growing, RootedBut
  <2>8. QED BY <1>3, <1>7, <2>7, RootContinues DEF Making
<1>8. QED BY <1>1, <1>2, <1>3, <1>4, <1>5, <1>6, <1>7 DEF Mkdir

\* The place of a file or a link has no other below it, and it is a link's if that is.
LEMMA LeafPlace ==
  ASSUME NEW r \in Request, call[r] \in Call, call[r].do \in {"cp", "mv"},
         NEW q \in Reached(r), before[r][q].type # "directory"
  PROVE  /\ To(r, q) \in Leaves(r)
         /\ To(r, q) \in Links(r) <=> before[r][q].type = "symlink"
<1>1. To(r, q) \in Places(r)
  BY DEF Places
<1>2. ASSUME NEW x \in Places(r), IsAbove(To(r, q), x) PROVE FALSE
  <2>1. PICK s \in Reached(r) : x = To(r, s)
    BY DEF Places
  <2>2. s = q
    BY <1>2, <2>1, LeafCovers DEF AtOrAbove
  <2>3. To(r, q) \in Names
    BY ReachedFacts
  <2>4. QED BY <1>2, <2>1, <2>2, <2>3, AboveIsShorter
<1>3. ASSUME NEW x \in Reached(r), To(r, x) = To(r, q) PROVE x = q
  BY <1>3, PlacesApart
<1>4. QED BY <1>1, <1>2, <1>3 DEF Leaves, Links

\* The place of a directory may be made one.
LEMMA DirPlace ==
  ASSUME TypeInv, NEW r \in Request, call[r] \in Call, call[r].do \in {"cp", "mv"}, Open(r),
         NEW q \in Reached(r), before[r][q].type = "directory",
         NEW p \in Path, p = To(r, q), rows' = WithDirs(rows, DirsAbove(p) \cup ({p} \ {Root}))
  PROVE  p \in Places(r) /\ Puts(r, p)
<1>1. rows \in Table
  BY StoresTable
<1>2. p \in Places(r)
  BY DEF Places
<1>3. p \notin Links(r)
  <2>1. SUFFICES ASSUME NEW x \in Reached(r), To(r, x) = To(r, q), before[r][x].type = "symlink"
                 PROVE  FALSE
    BY DEF Links
  <2>2. x = q
    BY <2>1, PlacesApart
  <2>3. QED BY <2>1, <2>2
<1>4. \A x \in Path :
        rows'[x] = IF x \in DirsAbove(p) \cup ({p} \ {Root}) /\ rows[x] = NoRow THEN DirRow ELSE rows[x]
  BY <1>1, WithDirsTyped
<1>5. \A x \in Path \ {p} : rows'[x] = WithDirs(rows, DirsAbove(p))[x]
  BY <1>1, <1>4, WithDirsTyped
<1>6. rows'[p] = rows[p] \/ (rows[p] = NoRow /\ rows'[p] = DirRow)
  BY <1>4
<1>7. CASE rows'[p] = rows[p]
  <2>1. TypeOf(rows', p) = TypeOf(rows, p)
    BY <1>7, TypesSame
  <2>2. p \notin Leaves(r) => TypeOf(rows, p) \in {"none", "directory"}
    BY <1>2 DEF Leaves, Open
  <2>3. QED BY <1>2, <1>3, <1>5, <2>1, <2>2, WithDirsPuts
<1>8. CASE rows[p] = NoRow /\ rows'[p] = DirRow
  <2>1. ~Has(rows, p) /\ TypeOf(rows', p) = "directory"
    BY <1>8, DirRowIs DEF Has, TypeOf
  <2>2. QED BY <1>2, <1>3, <1>5, <2>1, WithDirsPuts
<1>9. QED BY <1>6, <1>7, <1>8

\* The entries that are listed of a directory of the source are entries that are reached.
LEMMA RootLists ==
  ASSUME NEW t \in Table, NEW r \in Request, call[r] \in Call, call[r].do \in {"cp", "mv"},
         \A p \in Path : AtOrAbove(call[r].src, p) => TypeOf(t, p) = Was(r, p),
         NEW q \in Reached(r), before[r][q].type = "directory", NEW x \in Children(t, q)
  PROVE  PathName(x) \in Name /\ Append(q, PathName(x)) \in Reached(r)
<1>1. /\ q \in Names /\ q \in Path /\ call[r].src \in Names /\ call[r].src \in Path
      /\ AtOrAbove(call[r].src, q)
  BY ReachedFacts
<1>2. x \in Path /\ Has(t, x) /\ x # Root /\ ParentPath(x) = q
  BY DEF Children
<1>3. PICK n \in Name : n = PathName(x) /\ x = Append(q, n)
  BY <1>1, <1>2, ParentOfEntry
<1>4. AtOrAbove(call[r].src, x)
  BY <1>1, <1>3, EntryBelow, AboveTransitive
<1>5. TypeOf(t, x) = Was(r, x)
  BY <1>2, <1>4
<1>6. before[r][x] # NoRow
  <2>1. SUFFICES ASSUME before[r][x] = NoRow PROVE FALSE
    OBVIOUS
  <2>2. t[x].type = "none" /\ t[x] \in Row
    BY <1>2, <1>5, <2>1 DEF TypeOf, Has, Was, Table
  <2>3. QED BY <2>2 DEF Row
<1>7. QED BY <1>1, <1>2, <1>3, <1>6, ReachedDown DEF Reached

LEMMA RootCopies ==
  ASSUME TypeInv, TypeInv', NEW r \in Request, RootInv(r), Making(r), Cp(r)
  PROVE  RootInv(r)'
<1>1. PICK j : j = Head(jobs[r])
  OBVIOUS
<1>2. PICK p \in Path : p = j.dst /\ j.do = "cp"
  BY <1>1 DEF Cp, Runs
<1>3. /\ rows \in Table /\ before[r] \in Trees /\ call[r] \in Call /\ Sound(r) /\ Growing(r)
      /\ JobFits(r, j) /\ Rest(r) \in Seq(Job) /\ \A k \in Elements(Rest(r)) : JobFits(r, k)
  BY <1>1, RootRuns DEF Making
<1>4. call[r].do \in {"cp", "mv"} /\ p = To(r, j.src)
  BY <1>2, <1>3 DEF JobFits
<1>5. ASSUME TypeOf(rows, j.src) # "none"
      PROVE  j.src \in Reached(r) /\ before[r][j.src].type = TypeOf(rows, j.src)
  <2>1. j.src \in Reached(r)
    <3>1. SUFFICES ASSUME j = call[r], Was(r, j.src) = "none" PROVE FALSE
      BY <1>2, <1>3 DEF JobFits
    <3>2. call[r].src \in Path
      BY <1>3, <1>4, CallPaths
    <3>3. TypeOf(rows, j.src) = Was(r, j.src)
      BY <1>3, <1>4, <3>1, <3>2 DEF Growing, SourceTypes, AtOrAbove
    <3>4. QED BY <1>5, <3>1, <3>3
  <2>2. QED BY <1>3, <1>4, <2>1, ReachedTypes DEF Growing
<1>6. CASE Stop(r) /\ NoChange
  BY <1>6, RootFails DEF NoChange
<1>7. CASE /\ TypeOf(rows, j.src) = "file" /\ NoChange
           /\ Continue(r, <<FetchJob(j.src, p, {})>> \o Rest(r))
  <2>1. PICK x : x = FetchJob(j.src, p, {})
    OBVIOUS
  <2>2. x.do = "fetch" /\ x.dst = p
    BY <2>1 DEF FetchJob
  <2>3. p \in Leaves(r) \ Links(r)
    BY <1>3, <1>4, <1>5, <1>7, LeafPlace
  <2>4. JobFits(r, x)
    BY <2>2, <2>3 DEF JobFits
  <2>5. QED BY <1>7, <2>1, <2>4, RootPlansOne DEF NoChange
<1>8. CASE /\ TypeOf(rows, j.src) = "symlink" /\ NoChange
           /\ Continue(r, <<[do |-> "symlink", dst |-> p, target |-> rows[j.src].target]>> \o Rest(r))
  <2>1. PICK x : x = [do |-> "symlink", dst |-> p, target |-> rows[j.src].target]
    OBVIOUS
  <2>2. x.do = "symlink" /\ x.dst = p
    BY <2>1
  <2>3. p \in Links(r)
    BY <1>3, <1>4, <1>5, <1>8, LeafPlace
  <2>4. JobFits(r, x)
    BY <2>2, <2>3 DEF JobFits
  <2>5. QED BY <1>8, <2>1, <2>4, RootPlansOne DEF NoChange
<1>9. PICK t \in Table : t = WithDirs(rows, DirsAbove(p) \cup ({p} \ {Root}))
  BY <1>3, WithDirsTyped
<1>10. PICK kids : kids = {PathName(q) : q \in Children(t, j.src)}
  OBVIOUS
<1>11. CASE /\ TypeOf(rows, j.src) = "directory" /\ rows' = t
            /\ Continue(r, (IF kids = {} THEN <<>> ELSE <<EntriesJob(j.src, p, kids)>>) \o Rest(r))
  <2>1. j.src \in Reached(r) /\ before[r][j.src].type = "directory"
    BY <1>5, <1>11
  <2>2. p \in Places(r) /\ Puts(r, p)
    BY <1>3, <1>4, <1>9, <1>11, <2>1, DirPlace DEF Growing
  <2>3. call'[r] = call[r] /\ before'[r] = before[r]
    BY <1>11, Continues DEF Alone
  <2>4. Growing(r)'
    BY <1>3, <2>2, <2>3, GrowingPut
  <2>5. \A n \in kids : Append(j.src, n) \in Reached(r)
    <3>1. Apart(call[r].src, call[r].dst)
      BY <1>3, <1>4, <2>1, ReachedTypes, SoundApart DEF Growing
    <3>2. \A q \in Path : AtOrAbove(call[r].src, q) => TypeOf(t, q) = Was(r, q)
      BY <1>4, <1>11, <2>3, <2>4, <3>1 DEF Growing, SourceTypes, Was
    <3>3. QED BY <1>3, <1>4, <1>10, <2>1, <3>2, RootLists
  <2>6. PICK js : js = (IF kids = {} THEN <<>> ELSE <<EntriesJob(j.src, p, kids)>>) \o Rest(r)
    OBVIOUS
  <2>7. \A k \in Elements(js) : JobFits(r, k)
    <3>1. CASE kids = {}
      <4>1. js = Rest(r)
        BY <1>3, <2>6, <3>1, Sequences1
      <4>2. QED BY <1>3, <4>1
    <3>2. CASE kids # {}
      <4>1. PICK x : x = EntriesJob(j.src, p, kids)
        OBVIOUS
      <4>2. x.do = "entries" /\ x.src = j.src /\ x.dst = p /\ x.names = kids
        BY <4>1 DEF EntriesJob
      <4>3. JobFits(r, x)
        BY <1>4, <2>1, <2>5, <4>2 DEF JobFits
      <4>4. js = <<x>> \o Rest(r)
        BY <2>6, <3>2, <4>1
      <4>5. Elements(js) = {x} \cup Elements(Rest(r))
        BY <1>3, <4>4, OneMoreJob
      <4>6. QED BY <1>3, <4>3, <4>5
    <3>3. QED BY <3>1, <3>2
  <2>8. Continue(r, js)
    BY <1>11, <2>6
  <2>9. QED BY <1>3, <2>4, <2>7, <2>8, RootContinues
<1>12. QED BY <1>1, <1>2, <1>6, <1>7, <1>8, <1>9, <1>10, <1>11 DEF Cp

\* The stack with two more jobs, or with one and none.
LEMMA TwoMoreJobs ==
  ASSUME NEW rest \in Seq(Job), NEW x, NEW y
  PROVE  /\ \A js : js = <<x>> \o <<y>> \o rest \/ js = <<x, y>> \o rest =>
                    Elements(js) = {x, y} \cup Elements(rest)
         /\ \A js : js = <<x>> \o <<>> \o rest => Elements(js) = {x} \cup Elements(rest)
<1>1. PICK T : T = Job \cup {x, y}
  OBVIOUS
<1>2. rest \in Seq(T) /\ <<x>> \in Seq(T) /\ <<y>> \in Seq(T) /\ x \in T /\ y \in T
  BY <1>1, SeqMonotonic
<1>3. (<<x>> \o <<y>>) \o rest = <<x>> \o (<<y>> \o rest)
  BY <1>2, ConcatAssociative
<1>4. <<y>> \o rest \in Seq(T)
  BY <1>2, ConcatProperties
<1>5. Elements(<<y>> \o rest) = {y} \cup Elements(rest)
  BY <1>2, ElementsMore
<1>6. Elements(<<x>> \o (<<y>> \o rest)) = {x} \cup Elements(<<y>> \o rest)
  BY <1>2, <1>4, ElementsMore
<1>7. <<x, y>> = <<x>> \o <<y>>
  <2>1. Len(<<x>>) = 1 /\ <<x>>[1] = x /\ Len(<<y>>) = 1 /\ <<y>>[1] = y
    OBVIOUS
  <2>2. PICK s \in Seq(T) : s = <<x>> \o <<y>>
    BY <1>2, ConcatProperties
  <2>3. Len(s) = 2 /\ s[1] = x /\ s[2] = y
    BY <1>2, <2>1, <2>2, ConcatProperties
  <2>4. PICK u \in Seq(T) : u = <<x, y>>
    <3>1. <<x, y>> \in Seq({x, y})
      OBVIOUS
    <3>2. QED BY <1>1, <3>1, SeqMonotonic
  <2>5. Len(u) = 2 /\ u[1] = x /\ u[2] = y
    BY <2>4
  <2>6. s = u
    BY <2>3, <2>5, SeqEqual
  <2>7. QED BY <2>2, <2>4, <2>6
<1>8. <<x>> \o <<>> = <<x>>
  BY <1>2, ConcatEmptySeq
<1>9. Elements(<<x>> \o rest) = {x} \cup Elements(rest)
  BY <1>2, ElementsMore
<1>10. QED BY <1>3, <1>5, <1>6, <1>7, <1>8, <1>9

LEMMA RootEnters ==
  ASSUME TypeInv, TypeInv', NEW r \in Request, RootInv(r), Making(r), CpEntry(r)
  PROVE  RootInv(r)'
<1>1. PICK j : j = Head(jobs[r])
  OBVIOUS
<1>2. PICK n \in j.names :
        Continue(r, <<CpJob(Append(j.src, n), Append(j.dst, n), TRUE)>>
                    \o (IF j.names \ {n} = {} THEN <<>> ELSE <<EntriesJob(j.src, j.dst, j.names \ {n})>>)
                    \o Rest(r))
  BY <1>1 DEF CpEntry
<1>3. j.do = "entries" /\ rows' = rows
  BY <1>1 DEF CpEntry, Runs, NoChange
<1>4. /\ call[r] \in Call /\ j \in Job
      /\ JobFits(r, j) /\ Rest(r) \in Seq(Job) /\ \A k \in Elements(Rest(r)) : JobFits(r, k)
  BY <1>1, RootRuns DEF Making
<1>5. /\ call[r].do \in {"cp", "mv"} /\ j.dst = To(r, j.src) /\ n \in Name
      /\ \A m \in j.names : Append(j.src, m) \in Reached(r)
  BY <1>2, <1>3, <1>4, JobData DEF JobFits
<1>6. j.src \in Reached(r)
  <2>1. call[r].do # "entries"
    BY <1>5
  <2>2. QED BY <1>3, <1>4, <2>1 DEF JobFits
<1>7. PICK x : x = CpJob(Append(j.src, n), Append(j.dst, n), TRUE)
  OBVIOUS
<1>8. PICK y : y = EntriesJob(j.src, j.dst, j.names \ {n})
  OBVIOUS
<1>9. /\ x.do = "cp" /\ x.src = Append(j.src, n) /\ x.dst = Append(j.dst, n)
      /\ y.do = "entries" /\ y.src = j.src /\ y.dst = j.dst /\ y.names = j.names \ {n}
  BY <1>7, <1>8 DEF CpJob, EntriesJob
<1>10. Append(j.dst, n) = To(r, Append(j.src, n))
  BY <1>2, <1>4, <1>5, <1>6, EntryPlaces
<1>11. JobFits(r, x) /\ JobFits(r, y)
  BY <1>2, <1>5, <1>6, <1>9, <1>10 DEF JobFits
<1>12. PICK js : js = <<x>> \o (IF j.names \ {n} = {} THEN <<>> ELSE <<y>>) \o Rest(r)
  OBVIOUS
<1>13. Continue(r, js)
  BY <1>2, <1>7, <1>8, <1>12
<1>14. Elements(js) \subseteq {x, y} \cup Elements(Rest(r))
  <2>1. CASE j.names \ {n} = {}
    <3>1. js = <<x>> \o <<>> \o Rest(r)
      BY <1>12, <2>1
    <3>2. Elements(js) = {x} \cup Elements(Rest(r))
      BY <1>4, <3>1, TwoMoreJobs
    <3>3. QED BY <3>2
  <2>2. CASE j.names \ {n} # {}
    <3>1. js = <<x>> \o <<y>> \o Rest(r)
      BY <1>12, <2>2
    <3>2. Elements(js) = {x, y} \cup Elements(Rest(r))
      BY <1>4, <3>1, TwoMoreJobs
    <3>3. QED BY <3>2
  <2>3. QED BY <2>1, <2>2
<1>15. QED BY <1>3, <1>4, <1>11, <1>13, <1>14, RootPlans

LEMMA RootMoves ==
  ASSUME TypeInv, TypeInv', NEW r \in Request, RootInv(r), Making(r), Mv(r)
  PROVE  RootInv(r)'
<1>1. PICK j : j = Head(jobs[r])
  OBVIOUS
<1>2. j.do = "mv" /\ rows' = rows
  BY <1>1 DEF Mv, Runs, NoChange
<1>3. /\ call[r] \in Call /\ Growing(r)
      /\ JobFits(r, j) /\ Rest(r) \in Seq(Job) /\ \A k \in Elements(Rest(r)) : JobFits(r, k)
  BY <1>1, RootRuns DEF Making
<1>4. j = call[r] /\ call[r].do = "mv"
  BY <1>2, <1>3 DEF JobFits
<1>5. j.src \in Path /\ j.dst \in Path
  BY <1>3, <1>4, CallPaths
<1>6. TypeOf(rows, j.src) = Was(r, j.src)
  BY <1>3, <1>4, <1>5 DEF Growing, SourceTypes, AtOrAbove
<1>7. ASSUME NEW x, x.do = "cp", x.src = j.src, x.dst = j.dst, TypeOf(rows, j.src) # "none",
             NEW y, y.do = "rm" \/ (y.do = "rows" /\ y.paths = {j.src} /\ TypeOf(rows, j.src) # "directory"),
             Continue(r, <<x, y>> \o Rest(r))
      PROVE  RootInv(r)'
  <2>1. j.src \in Reached(r)
    BY <1>4, <1>5, <1>6, <1>7, ReachedItself DEF Was, Reached
  <2>2. j.dst = To(r, j.src)
    BY <1>4, <1>5, RebasedSrc, PathIsNames DEF To
  <2>3. JobFits(r, x)
    BY <1>4, <1>7, <2>1, <2>2 DEF JobFits
  <2>4. JobFits(r, y)
    BY <1>4, <1>6, <1>7 DEF JobFits
  <2>5. PICK js : js = <<x, y>> \o Rest(r)
    OBVIOUS
  <2>6. Elements(js) = {x, y} \cup Elements(Rest(r))
    BY <1>3, <2>5, TwoMoreJobs
  <2>7. \A k \in Elements(js) : JobFits(r, k)
    BY <1>3, <2>3, <2>4, <2>6
  <2>8. QED BY <1>2, <1>7, <2>5, <2>7, RootPlans
<1>8. CASE Stop(r)
  BY <1>2, <1>8, RootFails
<1>9. CASE /\ TypeOf(rows, j.src) = "directory"
           /\ Continue(r, <<CpJob(j.src, j.dst, TRUE), RmJob(j.src)>> \o Rest(r))
  <2>1. PICK x : x = CpJob(j.src, j.dst, TRUE)
    OBVIOUS
  <2>2. PICK y : y = RmJob(j.src)
    OBVIOUS
  <2>3. x.do = "cp" /\ x.src = j.src /\ x.dst = j.dst /\ y.do = "rm"
    BY <2>1, <2>2 DEF CpJob, RmJob
  <2>4. QED BY <1>7, <1>9, <2>1, <2>2, <2>3
<1>10. CASE /\ TypeOf(rows, j.src) \in {"file", "symlink"}
            /\ Continue(r, <<CpJob(j.src, j.dst, FALSE), RowsJob({j.src})>> \o Rest(r))
  <2>1. PICK x : x = CpJob(j.src, j.dst, FALSE)
    OBVIOUS
  <2>2. PICK y : y = RowsJob({j.src})
    OBVIOUS
  <2>3. /\ x.do = "cp" /\ x.src = j.src /\ x.dst = j.dst
        /\ y.do = "rows" /\ y.paths = {j.src}
    BY <2>1, <2>2 DEF CpJob, RowsJob
  <2>4. QED BY <1>7, <1>10, <2>1, <2>2, <2>3
<1>11. QED BY <1>1, <1>8, <1>9, <1>10 DEF Mv

LEMMA RootTooLong ==
  ASSUME TypeInv, NEW r \in Request, RootInv(r), Making(r), TooLong(r)
  PROVE  RootInv(r)'
BY RootFails DEF TooLong, NoChange

\* The row that has waited for its object is there.
LEMMA RootResumes ==
  ASSUME ShapeInv, TypeInv', NEW r \in Request, RootInv(r), Making(r), Resume(r)
  PROVE  RootInv(r)'
<1>1. PICK j : j = Head(jobs[r])
  OBVIOUS
<1>2. PICK w \in Await : w = await[r] /\ w # NoAwait
  BY DEF Resume, ShapeInv, TypeInv
<1>3. TypeInv /\ Linked(r)
  BY ShapeRunning DEF Making, ShapeInv
<1>4. /\ rows \in Table /\ j \in Job /\ JobFits(r, j) /\ PutReady(r)
      /\ Rest(r) \in Seq(Job) /\ \A k \in Elements(Rest(r)) : JobFits(r, k)
  BY <1>1, <1>3, RootRuns
<1>5. /\ w.op = "get" => j.do = "fetch"
      /\ w.op \in {"put", "drop"} => j.do = "write" /\ w.key = j.dst
      /\ w.op # "rmobj"
  BY <1>1, <1>2, <1>3 DEF TypeInv, Linked, Making
<1>6. CASE /\ w.op = "get" /\ NoChange
           /\ Continue(r, <<WriteJob(j.dst, OrEmpty(w.data) \cup j.data)>> \o Rest(r))
  <2>1. PICK x : x = WriteJob(j.dst, OrEmpty(w.data) \cup j.data)
    OBVIOUS
  <2>2. x.do = "write" /\ x.dst = j.dst
    BY <2>1 DEF WriteJob
  <2>3. JobFits(r, x)
    BY <1>4, <1>5, <1>6, <2>2 DEF JobFits
  <2>4. QED BY <1>3, <1>6, <2>1, <2>3, RootPlansOne DEF NoChange
<1>7. CASE w.op = "put" /\ rows' = Upsert(rows, w.key, "r2", {}) /\ Continue(r, Rest(r))
  <2>1. PICK p : p = w.key
    OBVIOUS
  <2>2. p \in Leaves(r) \ Links(r)
    BY <1>4, <1>5, <1>7, <2>1 DEF JobFits
  <2>3. p \in Path /\ p \in Places(r) /\ {} \in Content
    BY <1>2, <2>1, <2>2 DEF Await, Leaves, Content
  <2>4. \A q \in Path \ {p} : rows'[q] = rows[q]
    BY <1>4, <1>7, <2>1, <2>3, UpsertTyped
  <2>5. \A d \in DirsAbove(p) : d \in Path /\ d # p /\ Has(rows, d)
    BY <1>2, <1>4, <1>7, <2>1, <2>3, DirsArePaths DEF PutReady
  <2>6. \A d \in DirsAbove(p) : Has(rows', d)
    BY <2>4, <2>5 DEF Has
  <2>7. Has(rows, p) => TypeOf(rows', p) = TypeOf(rows, p)
    BY <1>4, <1>7, <2>1, <2>3, UpsertKind
  <2>8. Puts(r, p)
    BY <2>2, <2>4, <2>6, <2>7 DEF Puts
  <2>9. QED BY <1>3, <1>4, <1>7, <2>3, <2>8, RootMakes
<1>8. CASE w.op = "drop" /\ UNCHANGED rows /\ Continue(r, Rest(r))
  BY <1>3, <1>4, <1>8, RootPlans
<1>9. QED BY <1>1, <1>2, <1>5, <1>6, <1>7, <1>8 DEF Resume

----------------------------------------------------------------------------
(* The steps that remove rows, and those that change none. *)

LEMMA RootSame ==
  ASSUME NEW r \in Request, RootInv(r), rows' = rows, call'[r] = call[r], before'[r] = before[r],
         jobs'[r] = jobs[r], status'[r] = status[r],
         await'[r] # NoAwait /\ await'[r].op = "put" =>
           await[r] # NoAwait /\ await[r].op = "put" /\ await'[r].key = await[r].key
  PROVE  RootInv(r)'
<1>1. /\ Sound(r)' <=> Sound(r)
      /\ \A j : JobFits(r, j)' <=> JobFits(r, j)
  BY SamePlaces
<1>2. Growing(r) => Growing(r)'
  BY GrowingSame
<1>3. PutReady(r) => PutReady(r)'
  BY DEF PutReady
<1>4. \A S : RootedBut(S) => RootedBut(S)'
  BY DEF RootedBut
<1>5. Elements(jobs[r])' = Elements(jobs[r])
  BY DEF Elements
<1>6. QED BY <1>1, <1>2, <1>3, <1>4, <1>5 DEF RootInv

LEMMA HeadOf ==
  ASSUME NEW rest \in Seq(Job), NEW x
  PROVE  \A js : js = <<x>> \o rest => Head(js) = x /\ js # <<>>
<1>1. PICK T : T = Job \cup {x}
  OBVIOUS
<1>2. rest \in Seq(T) /\ <<x>> \in Seq(T)
  BY <1>1, SeqMonotonic
<1>3. Len(<<x>>) = 1 /\ <<x>>[1] = x /\ Len(rest) \in Nat
  BY <1>2
<1>4. PICK js \in Seq(T) : js = <<x>> \o rest
  BY <1>2, ConcatProperties
<1>5. Len(js) = 1 + Len(rest) /\ js[1] = x
  BY <1>2, <1>3, <1>4, ConcatProperties
<1>6. Head(js) = x /\ js # <<>>
  BY <1>3, <1>5, EmptySeq
<1>7. QED BY <1>4, <1>6

\* The call goes on with the removal of the rows in S.
LEMMA RootRemoves ==
  ASSUME TypeInv, NEW r \in Request, status[r] = "running", rows' = rows, NEW S, RootedBut(S),
         Continue(r, <<RowsJob(S)>> \o Rest(r))
  PROVE  RootInv(r)'
<1>1. PICK x : x = RowsJob(S)
  OBVIOUS
<1>2. x.do = "rows" /\ x.paths = S
  BY <1>1 DEF RowsJob
<1>3. Rest(r) \in Seq(Job)
  BY Sequences1 DEF TypeInv, TypeOK, Rest
<1>4. PICK js : js = <<x>> \o Rest(r)
  OBVIOUS
<1>5. Head(js) = x /\ js # <<>>
  BY <1>3, <1>4, HeadOf
<1>6. jobs'[r] = js /\ status'[r] = "running"
  BY <1>1, <1>4, <1>5, Continues
<1>7. RootedBut(S)'
  BY DEF RootedBut
<1>8. QED BY <1>2, <1>5, <1>6, <1>7 DEF RootInv

LEMMA RootDeletes ==
  ASSUME TypeInv, TypeInv', NEW r \in Request, RootInv(r), Making(r), DeleteFile(r)
  PROVE  RootInv(r)'
<1>1. PICK j : j = Head(jobs[r])
  OBVIOUS
<1>2. PICK p \in Path : p = j.src
  BY <1>1, RootRuns, JobData DEF DeleteFile, Runs
<1>3. rows' = rows /\ RootedBut({}) /\ \A k \in Elements(Rest(r)) : JobFits(r, k)
  BY RootRuns DEF DeleteFile, NoChange, Growing
<1>4. CASE Continue(r, Rest(r))
  BY <1>3, <1>4, RootPlans
<1>5. CASE Stop(r)
  BY <1>3, <1>5, RootFails
<1>6. CASE TypeOf(rows, p) \in {"file", "symlink"} /\ Continue(r, <<RowsJob({p})>> \o Rest(r))
  <2>1. RootedBut({p})
    BY <1>3, <1>6, LeafRemovable
  <2>2. QED BY <1>3, <1>6, <2>1, RootRemoves DEF Making
<1>7. QED BY <1>1, <1>2, <1>4, <1>5, <1>6 DEF DeleteFile

LEMMA RootRms ==
  ASSUME LikeAlso = {}, TypeInv, TypeInv', NEW r \in Request, RootInv(r), Making(r), Rm(r)
  PROVE  RootInv(r)'
<1>1. PICK j : j = Head(jobs[r])
  OBVIOUS
<1>2. PICK p \in Path : p = j.src
  BY <1>1, RootRuns, JobData DEF Rm, Runs
<1>3. rows' = rows /\ RootedBut({}) /\ \A k \in Elements(Rest(r)) : JobFits(r, k)
  BY RootRuns DEF Rm, NoChange, Growing
<1>4. CASE Continue(r, Rest(r))
  BY <1>3, <1>4, RootPlans
<1>5. CASE Stop(r)
  BY <1>3, <1>5, RootFails
<1>6. CASE TypeOf(rows, p) \in {"file", "symlink"} /\ Continue(r, <<RowsJob({p})>> \o Rest(r))
  <2>1. RootedBut({p})
    BY <1>3, <1>6, LeafRemovable
  <2>2. QED BY <1>3, <1>6, <2>1, RootRemoves DEF Making
<1>7. PICK S : S = {q \in Path : Has(rows, q) /\ (q = p \/ IsLike(p, q))}
  OBVIOUS
<1>8. CASE Continue(r, <<RowsJob(S)>> \o Rest(r))
  <2>1. ASSUME NEW q \in Path \ S, Has(rows, q), Len(q) > 1
        PROVE  TypeOf(rows, ParentPath(q)) = "directory" /\ ParentPath(q) \notin S
    <3>1. PICK u \in Path : u = ParentPath(q) /\ u \in DirsAbove(q)
      BY <2>1, ParentIsDir
    <3>2. TypeOf(rows, u) = "directory"
      BY <1>3, <2>1, <3>1 DEF RootedBut
    <3>3. AtOrAbove(u, q)
      BY <3>1, DirsArePaths
    <3>4. ASSUME u \in S PROVE FALSE
      <4>1. AtOrAbove(p, u)
        BY <1>7, <3>4, LikeIsBelow
      <4>2. AtOrAbove(p, q)
        BY <3>3, <4>1, AboveTransitive, PathIsNames
      <4>3. QED BY <1>7, <2>1, <4>2, AboveIsLike DEF AtOrAbove
    <3>5. QED BY <3>1, <3>2, <3>4
  <2>2. RootedBut(S)
    BY <2>1 DEF RootedBut
  <2>3. QED BY <1>3, <1>8, <2>2, RootRemoves DEF Making
<1>9. QED BY <1>1, <1>2, <1>4, <1>5, <1>6, <1>7, <1>8 DEF Rm

\* A row goes. None that stays is in it.
LEMMA RootRowGoes ==
  ASSUME TypeInv, NEW r \in Request, Rest(r) = <<>>, NEW S, RootedBut(S), NEW p \in S,
         RowGone(r, p, S \ {p})
  PROVE  RootInv(r)'
<1>1. PICK left : left = S \ {p}
  OBVIOUS
<1>2. PICK js : js = (IF left = {} THEN <<>> ELSE <<RowsJob(left)>>) \o Rest(r)
  OBVIOUS
<1>3. rows' = [rows EXCEPT ![p] = NoRow] /\ Continue(r, js)
  BY <1>1, <1>2 DEF RowGone
<1>4. (left = {} => js = <<>>) /\ (left # {} => js = <<RowsJob(left)>>)
  <2>1. <<RowsJob(left)>> \in Seq({RowsJob(left)}) /\ <<>> \in Seq({RowsJob(left)})
    OBVIOUS
  <2>2. QED BY <1>2, <2>1, ConcatEmptySeq
<1>5. jobs'[r] = js /\ status'[r] = IF js = <<>> THEN "ok" ELSE "running"
  BY <1>3, Continues
<1>6. rows \in Table
  BY StoresTable
<1>7. (\A q \in Path \ {p} : rows'[q] = rows[q]) /\ (p \in Path => rows'[p] = NoRow)
  BY <1>3, <1>6 DEF Table
<1>8. ASSUME NEW q \in Path \ left, Has(rows', q), Len(q) > 1
      PROVE  TypeOf(rows', ParentPath(q)) = "directory" /\ ParentPath(q) \notin left
  <2>1. q # p /\ Has(rows, q)
    BY <1>7, <1>8 DEF Has
  <2>2. PICK u \in Path : u = ParentPath(q)
    BY <1>8, ParentIsDir
  <2>3. TypeOf(rows, u) = "directory" /\ u \notin S
    BY <1>1, <1>8, <2>1, <2>2 DEF RootedBut
  <2>4. u # p
    BY <2>3
  <2>5. TypeOf(rows', u) = "directory"
    BY <1>7, <2>3, <2>4, TypesSame
  <2>6. QED BY <1>1, <2>2, <2>3, <2>5
<1>9. RootedBut(left)'
  BY <1>8 DEF RootedBut
<1>10. CASE left = {}
  <2>1. status'[r] = "ok"
    BY <1>4, <1>5, <1>10
  <2>2. QED BY <1>9, <1>10, <2>1 DEF RootInv
<1>11. CASE left # {}
  <2>1. PICK x : x = RowsJob(left)
    OBVIOUS
  <2>2. js = <<x>> /\ x.do = "rows" /\ x.paths = left
    BY <1>4, <1>11, <2>1 DEF RowsJob
  <2>3. js # <<>> /\ Head(js) = x
    BY <2>2
  <2>4. status'[r] = "running" /\ Head(jobs'[r]) = x
    BY <1>5, <2>3
  <2>5. QED BY <1>9, <2>2, <2>4 DEF RootInv
<1>12. QED BY <1>10, <1>11

LEMMA RootRemoving ==
  ASSUME ShapeInv, NEW r \in Request, RootInv(r), Sound(r), status[r] = "running",
         Head(jobs[r]).do = "rows", Acts(r)
  PROVE  RootInv(r)'
<1>1. PICK S : S = Head(jobs[r]).paths
  OBVIOUS
<1>2. TypeInv /\ RootedBut(S) /\ Alone(r)
  BY <1>1, ActsLocal DEF RootInv, ShapeInv
<1>3. Rest(r) = <<>>
  BY ShapeRunning, HeadIs
<1>4. await[r] # NoAwait => await[r].op = "rmobj" /\ await[r].key \in S
  <2>1. Linked(r) /\ TypeInv
    BY ShapeRunning
  <2>2. SUFFICES ASSUME await[r] # NoAwait PROVE await[r].op = "rmobj" /\ await[r].key \in S
    OBVIOUS
  <2>3. await[r] \in Await
    BY <2>1, <2>2 DEF TypeInv
  <2>4. await[r].op \in {"get", "put", "drop", "rmobj"}
    BY <2>3 DEF Await
  <2>5. QED BY <1>1, <2>1, <2>2, <2>4 DEF Linked, TypeInv
<1>5. ASSUME NEW p \in S, RowGone(r, p, S \ {p}) PROVE RootInv(r)'
  BY <1>2, <1>3, <1>5, RootRowGoes
<1>6. ASSUME rows' = rows, jobs'[r] = jobs[r], status'[r] = status[r],
             await'[r] # NoAwait => await'[r].op # "put"
      PROVE  RootInv(r)'
  BY <1>2, <1>6, RootSame DEF Alone
<1>7. CASE Work(r)
  <2>1. RmSingle(r)
    BY <1>7 DEF Work, Runs, TooLong, Write, AppendFile, Fetch, Mkdir, Symlink, DeleteFile,
                Rm, Cp, CpEntry, Mv
  <2>2. PICK p \in S : \/ NoChange /\ Wait(r, AwaitOf("rmobj", p, {}, FALSE))
                       \/ RowGone(r, p, S \ {p})
    BY <1>1, <2>1 DEF RmSingle
  <2>3. CASE NoChange /\ Wait(r, AwaitOf("rmobj", p, {}, FALSE))
    <3>1. PICK w : w = AwaitOf("rmobj", p, {}, FALSE)
      OBVIOUS
    <3>2. w.op = "rmobj"
      BY <3>1 DEF AwaitOf
    <3>3. jobs'[r] = jobs[r] /\ await'[r] = w /\ status'[r] = status[r]
      BY <1>2, <2>3, <3>1, Waits
    <3>4. QED BY <1>6, <2>3, <3>2, <3>3 DEF NoChange
  <2>4. QED BY <1>5, <2>2, <2>3
<1>8. CASE R2Lands(r) \/ R2DeleteFails(r)
  <2>1. /\ jobs'[r] = jobs[r] /\ rows' = rows /\ status'[r] = status[r]
        /\ await'[r].op = await[r].op /\ await[r] # NoAwait
    BY <1>2, <1>8, Answers
  <2>2. QED BY <1>4, <1>6, <2>1
<1>9. CASE R2Fails(r)
  <2>1. await[r] # NoAwait /\ await[r].op \in {"get", "put"}
    BY <1>9 DEF R2Fails
  <2>2. QED BY <1>4, <2>1
<1>10. CASE Resume(r)
  <2>1. await[r].op = "rmobj" /\ await[r].key \in S
    BY <1>4, <1>10 DEF Resume
  <2>2. RowGone(r, await[r].key, S \ {await[r].key})
    BY <1>1, <1>10, <2>1 DEF Resume
  <2>3. QED BY <1>5, <2>1, <2>2
<1>11. QED BY <1>7, <1>8, <1>9, <1>10 DEF Acts

----------------------------------------------------------------------------
(* Every step. *)

LEMMA RootActs ==
  ASSUME LikeAlso = {}, ShapeInv, CallInv, TypeInv', NEW r \in Request, RootInv(r), Acts(r)
  PROVE  RootInv(r)'
<1>1. /\ TypeInv /\ status[r] = "running" /\ Alone(r) /\ call[r] \in Call /\ before[r] \in Trees
      /\ call'[r] = call[r] /\ before'[r] = before[r]
  BY ActsLocal DEF ShapeInv, Alone, CallInv
<1>2. CASE ~Sound(r)
  <2>1. ~Sound(r)'
    BY <1>1, <1>2, SamePlaces
  <2>2. QED BY <2>1 DEF RootInv
<1>3. CASE Sound(r) /\ Head(jobs[r]).do = "rows"
  BY <1>1, <1>3, RootRemoving
<1>4. CASE Sound(r) /\ Head(jobs[r]).do # "rows"
  <2>1. Making(r)
    BY <1>1, <1>4 DEF Making
  <2>2. CASE Work(r)
    <3>1. ~RmSingle(r)
      BY <1>4 DEF RmSingle, Runs
    <3>2. QED BY <1>1, <2>1, <2>2, <3>1, RootTooLong, RootWrites, RootReads, RootMkdirs, RootSymlinks,
                 RootDeletes, RootRms, RootCopies, RootEnters, RootMoves DEF Work
  <2>3. CASE R2Lands(r) \/ R2DeleteFails(r)
    <3>1. /\ jobs'[r] = jobs[r] /\ rows' = rows /\ status'[r] = status[r]
          /\ await'[r].op = await[r].op /\ await[r] # NoAwait /\ await'[r].key = await[r].key
      BY <1>1, <2>3, Answers
    <3>2. QED BY <1>1, <3>1, RootSame
  <2>4. CASE R2Fails(r)
    <3>1. rows' = rows /\ Stop(r)
      BY <2>4 DEF R2Fails
    <3>2. QED BY <1>1, <2>1, <3>1, RootFails
  <2>5. CASE Resume(r)
    BY <2>1, <2>5, RootResumes
  <2>6. QED BY <2>2, <2>3, <2>4, <2>5 DEF Acts
<1>5. QED BY <1>2, <1>3, <1>4

LEMMA RootArrives ==
  ASSUME TypeInv, CallInv, NEW r \in Request, NEW c \in Asked, Arrive(r, c)
  PROVE  RootInv(r)'
<1>1. c \in Call
  BY CallAssumption
<1>2. /\ jobs'[r] = <<c>> /\ call'[r] = c /\ status'[r] = "running" /\ await'[r] = NoAwait
      /\ rows' = rows
  BY DEF Arrive, TypeInv, TypeOK
<1>3. PICK tree : tree = Tree(rows, objects)
  OBVIOUS
<1>4. before'[r] = tree
  BY <1>3 DEF Arrive, CallInv
<1>5. SUFFICES ASSUME Sound(r)' PROVE Growing(r)' /\ JobFits(r, c)'
  <2>1. Head(jobs'[r]) = c /\ c.do # "rows" /\ Elements(jobs[r])' = {c}
    <3>1. c.do # "rows"
      BY <1>1, CallPaths
    <3>2. Elements(<<c>>) = {c}
      BY DEF Elements
    <3>3. Elements(jobs[r])' = Elements(<<c>>)
      BY <1>2 DEF Elements
    <3>4. QED BY <1>2, <3>1, <3>2, <3>3
  <2>2. PutReady(r)'
    BY <1>2 DEF PutReady
  <2>3. QED BY <1>2, <2>1, <2>2 DEF RootInv
<1>6. Rooted(tree) /\ ~Clashes(c, tree)
  BY <1>2, <1>4, <1>5 DEF Sound
<1>7. /\ RootedBut({})
      /\ \A p \in Path : TypeOf(rows, p) = IF tree[p] = NoRow THEN "none" ELSE tree[p].type
  BY <1>3, <1>6, RootedTree, StoresTable
<1>8. \A p : Was(r, p)' = IF tree[p] = NoRow THEN "none" ELSE tree[p].type
  BY <1>4 DEF Was
<1>9. /\ Reached(r)' = ReachedFrom(tree, c.src)
      /\ \A q : To(r, q)' = Rebased(q, c.src, c.dst)
  BY <1>2, <1>4 DEF Reached, To
<1>10. ASSUME NEW x \in Places(r)' PROVE \E b \in BOOLEAN : <<x, b>> \in Makes(c, tree)
  <2>1. CASE c.do \in {"cp", "mv"}
    <3>1. PICK q \in ReachedFrom(tree, c.src) : x = Rebased(q, c.src, c.dst)
      BY <1>2, <1>9, <1>10, <2>1 DEF Places
    <3>2. <<x, tree[q].type = "symlink">> \in Makes(c, tree)
      BY <2>1, <3>1 DEF Makes
    <3>3. QED BY <3>2
  <2>2. CASE c.do \notin {"cp", "mv"}
    <3>1. c.do \in {"write", "append", "mkdir_p", "symlink"} /\ x = c.dst
      BY <1>2, <1>10, <2>2 DEF Places
    <3>2. QED BY <3>1 DEF Makes
  <2>3. QED BY <2>1, <2>2
<1>11. ASSUME NEW x \in Links(r)' PROVE <<x, TRUE>> \in Makes(c, tree)
  <2>1. CASE c.do \in {"cp", "mv"}
    <3>1. PICK q \in ReachedFrom(tree, c.src) : x = Rebased(q, c.src, c.dst) /\ tree[q].type = "symlink"
      BY <1>2, <1>4, <1>9, <1>11, <2>1 DEF Links
    <3>2. <<x, tree[q].type = "symlink">> \in Makes(c, tree)
      BY <2>1, <3>1 DEF Makes
    <3>3. QED BY <3>1, <3>2
  <2>2. CASE c.do \notin {"cp", "mv"}
    <3>1. c.do = "symlink" /\ x = c.dst
      BY <1>2, <1>11, <2>2 DEF Links
    <3>2. QED BY <3>1 DEF Makes
  <2>3. QED BY <2>1, <2>2
<1>12. ASSUME NEW x \in Places(r)', NEW u \in Path, IsAbove(u, x)
       PROVE  TypeOf(rows, u) \in {"none", "directory"}
  <2>1. PICK e \in Makes(c, tree) : e[1] = x
    BY <1>10
  <2>2. ~(tree[u] # NoRow /\ tree[u].type # "directory")
    BY <1>6, <1>12, <2>1 DEF Clashes
  <2>3. QED BY <1>7, <2>2
<1>13. ASSUME NEW x \in Links(r)' PROVE TypeOf(rows, x) # "directory"
  <2>1. CASE x \notin Path
    BY <2>1 DEF TypeOf, Has
  <2>2. CASE x \in Path
    <3>1. PICK e \in Makes(c, tree) : e[1] = x /\ e[2] = TRUE
      BY <1>11
    <3>2. ~(tree[x] # NoRow /\ tree[x].type = "directory")
      BY <1>6, <2>2, <3>1 DEF Clashes
    <3>3. QED BY <1>7, <2>2, <3>2
  <2>3. QED BY <2>1, <2>2
<1>14. Growing(r)'
  <2>1. RootedBut({})'
    BY <1>2, <1>7 DEF RootedBut
  <2>2. Open(r)'
    BY <1>2, <1>12, <1>13 DEF Open
  <2>3. SourceTypes(r)'
    BY <1>2, <1>7, <1>8 DEF SourceTypes
  <2>4. QED BY <2>1, <2>2, <2>3 DEF Growing
<1>15. JobFits(r, c)'
  <2>1. CASE c.do \in {"write", "append", "mkdir_p"}
    <3>1. Places(r)' = {c.dst} /\ Links(r)' = {}
      BY <1>2, <2>1 DEF Places, Links
    <3>2. c.dst \in Names
      BY <1>1, <2>1, CallPaths, PathIsNames
    <3>3. c.dst \in Leaves(r)'
      BY <3>1, <3>2, AboveIsShorter DEF Leaves
    <3>4. QED BY <2>1, <3>1, <3>3 DEF JobFits
  <2>2. CASE c.do = "symlink"
    BY <1>2, <2>2 DEF JobFits, Links
  <2>3. CASE c.do = "cp"
    <3>1. c.src \in Path /\ c.dst \in Path
      BY <1>1, <2>3, CallPaths
    <3>2. c.dst = To(r, c.src)'
      BY <1>9, <3>1, RebasedSrc, PathIsNames
    <3>3. c.src \in Reached(r)' \/ Was(r, c.src)' = "none"
      BY <1>8, <1>9, <3>1, ReachedItself
    <3>4. QED BY <1>2, <2>3, <3>2, <3>3 DEF JobFits
  <2>4. CASE c.do \in {"mkdir", "mv", "rm", "delete_file"}
    BY <1>2, <2>4 DEF JobFits
  <2>5. QED BY <1>1, <2>1, <2>2, <2>3, <2>4, CallPaths
<1>16. QED BY <1>14, <1>15

RootsInv == ShapeInv /\ CallInv /\ \A r \in Request : RootInv(r)

LEMMA RootsInvStep ==
  ASSUME OneCaller, LikeAlso = {}, RootsInv, [Next]_vars
  PROVE  RootsInv'
<1>1. TypeInv /\ ShapeInv /\ CallInv /\ ShapeInv' /\ CallInv' /\ TypeInv'
  BY ShapeInvStep, CallInvStep DEF RootsInv, ShapeInv
<1>2. ASSUME NEW r \in Request PROVE RootInv(r)'
  <2>1. RootInv(r)
    BY DEF RootsInv
  <2>2. CASE UNCHANGED <<rows, objects>> /\ Idles(r)
    BY <2>1, <2>2, RootSame DEF Idles
  <2>3. CASE \E c \in Asked : Arrive(r, c)
    BY <1>1, <2>3, RootArrives
  <2>4. CASE status'[r] = "idle"
    BY <2>4 DEF RootInv
  <2>5. CASE Acts(r)
    BY <1>1, <2>1, <2>5, RootActs
  <2>6. QED BY <1>1, <2>2, <2>3, <2>4, <2>5, StepCases DEF OneCaller
<1>3. QED BY <1>1, <1>2 DEF RootsInv

\* A call leaves a tree whose entries are in directories as such a tree, done or failed, if
\* it does not ask for what cannot be there.
THEOREM TreeRootsKept ==
  ASSUME OneCaller, LikeAlso = {}
  PROVE  Spec => []TreeStaysRooted
<1>1. Init => RootsInv
  BY ShapeInvInit DEF Init, RootsInv, CallInv, RootInv
<1>2. RootsInv /\ [Next]_vars => RootsInv'
  BY RootsInvStep
<1>3. ASSUME RootsInv PROVE TreeStaysRooted
  <2>1. ASSUME NEW r \in Request, Ended(r), Rooted(before[r]), ~Clashes(call[r], before[r])
        PROVE  Rooted(Tree(rows, objects))
    <3>1. RootInv(r) /\ TypeInv
      BY <1>3 DEF RootsInv, ShapeInv
    <3>2. RootedBut({})
      BY <2>1, <3>1 DEF RootInv, Ended, Sound
    <3>3. QED BY <3>1, <3>2, RootedTree, StoresTable
  <2>2. QED BY <2>1 DEF TreeStaysRooted
<1>4. QED BY <1>1, <1>2, <1>3, PTL DEF Spec
==============================================================================
