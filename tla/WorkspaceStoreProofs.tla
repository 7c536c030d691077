------------------------ MODULE WorkspaceStoreProofs ------------------------
(***************************************************************************)
(* Theorems about WorkspaceStore, for every set of requests, paths and     *)
(* contents, every threshold and every number of evictions. Types hold     *)
(* whatever the callers do. The two stores and the listener agree between  *)
(* requests when callers never have two calls on one path in progress      *)
(* (Serialize), whichever R2 calls fail and whenever the object is         *)
(* evicted, with R2 calls in flight that land later or not. What holds     *)
(* between requests is not inductive: a request in the middle of a call    *)
(* has one of its own paths in a known disorder, which depends on where it *)
(* stands.                                                                 *)
(*                                                                         *)
(* Until an R2 call lands after the eviction of its caller, the files, in  *)
(* two stores that are updated one after the other, are moreover the map   *)
(* of FileStore.                                                           *)
(***************************************************************************)
EXTENDS WorkspaceStore, TLAPS

----------------------------------------------------------------------------
(* Rows and contents. *)

\* What a caller does with what it read is store a content.
LEMMA OrEmptyIsContent ==
  ASSUME NEW v \in Content \cup {Absent}
  PROVE  OrEmpty(v) \in Content
BY DEF OrEmpty, Content

\* Appending keeps contents contents.
LEMMA AppendIsContent ==
  ASSUME NEW v \in Content, NEW w \in Content
  PROVE  v \o w \in Content
BY DEF Content

\* The rows that write_inner upserts are rows, on their sides of the threshold.
LEMMA RowsAreRows ==
  ASSUME NEW c \in Content
  PROVE  (~Spills(c) => InlineRow(c) \in Row) /\ (Spills(c) => SpilledRow(c) \in Row)
<1>1. Len(c) \in Nat /\ <<>> \in Content /\ SpillThreshold \in Nat
  BY StoreAssumption DEF Content
<1>2. ~Spills(c) => Len(c) <= SpillThreshold
  BY <1>1 DEF Spills
<1>3. QED BY <1>1, <1>2 DEF InlineRow, SpilledRow, Row, Spills

\* They are not taken for no row.
LEMMA RowsExist ==
  ASSUME NEW c \in Content
  PROVE  InlineRow(c) # NoRow /\ SpilledRow(c) # NoRow
<1>1. Len(c) \in Nat /\ <<>> \in Content
  BY DEF Content
<1>2. QED BY <1>1, RowAssumption DEF InlineRow, SpilledRow

\* The data of a call is a content.
LEMMA CallData ==
  ASSUME NEW c \in Call
  PROVE  /\ c.data \in Content /\ c.src \in Path /\ c.dst \in Path
         /\ c.op \in {"write", "append", "read", "delete", "cp", "mv"}
<1>1. <<>> \in Content
  BY DEF Content
<1>2. QED BY <1>1, StoreAssumption DEF Call

----------------------------------------------------------------------------
(* Type correctness, segment by segment. *)

LEMMA WriteInnerTyped ==
  ASSUME TypeOK, NEW r \in Request, Busy(r), NEW c \in Content, WriteInner(r, c), UNCHANGED faultVars
  PROVE  TypeOK'
<1> USE DEF WriteInner, Goto, Steps, Busy, faultVars
<1>1. ~Spills(c) => InlineRow(c) \in Row
  BY RowsAreRows
<1>2. CASE Spills(c) /\ Goto(r, "put") /\ UNCHANGED rows
  BY <1>2 DEF TypeOK, Spills
<1>3. CASE ~Spills(c) /\ Goto(r, "drop") /\ rows' = [rows EXCEPT ![call[r].dst] = InlineRow(c)]
  BY <1>1, <1>3 DEF TypeOK
<1>4. QED BY <1>2, <1>3

LEMMA RmSingleTyped ==
  ASSUME TypeOK, NEW r \in Request, Busy(r), NEW p \in Path,
         NEW t \in [Path -> Row \cup {NoRow}], NEW m \in SUBSET Path,
         RmSingle(r, p, t, m), UNCHANGED faultVars
  PROVE  TypeOK'
BY DEF TypeOK, RmSingle, Goto, Answer, Steps, Busy, faultVars

LEMMA WrittenTyped ==
  ASSUME TypeOK, NEW r \in Request, Busy(r),
         NEW t \in [Path -> Row \cup {NoRow}], Written(r, t), UNCHANGED faultVars
  PROVE  TypeOK'
<1> DEFINE m == Emit(mirror, call[r].dst, existed[r])
<1>1. /\ m \in SUBSET Path /\ call[r].src \in Path
  BY CallData DEF TypeOK, Emit
<1>2. CASE call[r].op = "mv" /\ RmSingle(r, call[r].src, t, m)
  <2> HIDE DEF m
  <2> QED BY <1>1, <1>2, RmSingleTyped
<1>3. CASE call[r].op # "mv" /\ rows' = t /\ mirror' = m /\ Answer(r, "ok")
           /\ UNCHANGED <<objects, call, buf, existed>>
  <2> HIDE DEF m
  <2> QED BY <1>1, <1>3 DEF TypeOK, Answer, Goto, Steps, Busy, faultVars
<1>4. QED BY <1>2, <1>3 DEF Written

LEMMA FetchedTyped ==
  ASSUME TypeOK, NEW r \in Request, Busy(r), NEW v \in Content \cup {Absent},
         Fetched(r, v), UNCHANGED faultVars
  PROVE  TypeOK'
<1>1. call[r].data \in Content /\ OrEmpty(v) \in Content
  BY CallData, OrEmptyIsContent DEF TypeOK
<1>2. CASE /\ buf' = [buf EXCEPT ![r] = v] /\ Answer(r, "ok")
           /\ UNCHANGED <<rows, objects, mirror, call, existed>>
  BY <1>2 DEF TypeOK, Answer, Goto, Steps, Busy, faultVars
<1>3. CASE WriteInner(r, OrEmpty(v) \o call[r].data)
  BY <1>1, <1>3, AppendIsContent, WriteInnerTyped
<1>4. CASE WriteInner(r, OrEmpty(v))
  BY <1>1, <1>4, WriteInnerTyped
<1>5. QED BY <1>2, <1>3, <1>4 DEF Fetched

\* TypeOK is an invariant: what write_inner, read_file_bytes, rm_single and their callers
\* leave in the table and in the bucket are rows and contents, also when calls fail or the
\* object is evicted, and only contents above the threshold are ever put.
THEOREM TypeCorrect == Spec => []TypeOK
<1>1. Init => TypeOK
  <2> SUFFICES ASSUME Init PROVE TypeOK
    OBVIOUS
  <2>1. /\ rows \in [Path -> Row \cup {NoRow}] /\ objects \in [Path -> Content \cup {Absent}]
        /\ mirror \subseteq Path /\ crashes \in 0..MaxCrashes
    BY StoreAssumption DEF Init
  <2>2. late \subseteq [of : Request, life : Nat, path : Path, value : Content \cup {Absent}]
        /\ suspect \subseteq Path /\ landed \in BOOLEAN
    BY DEF Init
  <2>3. QED BY <2>1, <2>2 DEF Init, TypeOK, Steps, Busy
<1>2. TypeOK /\ [Next]_vars => TypeOK'
  <2> SUFFICES ASSUME TypeOK, [Next]_vars PROVE TypeOK'
    OBVIOUS
  <2>1. ASSUME NEW r \in Request, NEW c \in Call, Arrive(r, c) PROVE TypeOK'
    BY <2>1 DEF Arrive, Goto, TypeOK, Steps, Busy, faultVars
  <2>2. ASSUME NEW r \in Request, BeginWrite(r) PROVE TypeOK'
    <3>1. Busy(r) /\ call[r].data \in Content
      BY <2>2, CallData DEF BeginWrite, Busy, TypeOK
    <3>2. QED BY <3>1, <2>2, WriteInnerTyped DEF BeginWrite
  <2>3. ASSUME NEW r \in Request, BeginMissing(r) PROVE TypeOK'
    BY <2>3 DEF BeginMissing, Answer, Goto, TypeOK, Steps, Busy, faultVars
  <2>4. ASSUME NEW r \in Request, BeginRead(r) PROVE TypeOK'
    <3> DEFINE p == call[r].src
    <3>1. Busy(r) /\ p \in Path
      BY <2>4, CallData DEF BeginRead, Busy, TypeOK
    <3>2. CASE Fetched(r, Absent)
      BY <3>1, <3>2, <2>4, FetchedTyped DEF BeginRead
    <3>3. CASE rows[p] # NoRow /\ Fetched(r, rows[p].content)
      <4>1. rows[p].content \in Content
        BY <3>1, <3>3 DEF TypeOK, Row
      <4>2. QED BY <4>1, <3>1, <3>3, <2>4, FetchedTyped DEF BeginRead
    <3>4. CASE Goto(r, "get") /\ UNCHANGED <<rows, objects, mirror, call, buf, existed, status>>
      BY <3>1, <3>4, <2>4 DEF BeginRead, Goto, TypeOK, Steps, Busy, faultVars
    <3>5. QED BY <2>4, <3>2, <3>3, <3>4 DEF BeginRead
  <2>5. ASSUME NEW r \in Request, BeginDelete(r) PROVE TypeOK'
    <3> DEFINE p == call[r].src
    <3>1. Busy(r) /\ p \in Path
      BY <2>5, CallData DEF BeginDelete, Busy, TypeOK
    <3>2. CASE Answer(r, "ok") /\ UNCHANGED <<rows, objects, mirror, call, buf, existed>>
      BY <3>1, <3>2, <2>5 DEF BeginDelete, Answer, Goto, TypeOK, Steps, Busy, faultVars
    <3>3. CASE RmSingle(r, p, rows, mirror)
      <4>1. rows \in [Path -> Row \cup {NoRow}] /\ mirror \in SUBSET Path
        BY DEF TypeOK
      <4>2. QED BY <4>1, <3>1, <3>3, <2>5, RmSingleTyped DEF BeginDelete
    <3>4. QED BY <2>5, <3>2, <3>3 DEF BeginDelete
  <2>6. ASSUME NEW r \in Request, ResumeGet(r) PROVE TypeOK'
    <3>1. Busy(r) /\ buf[r] \in Content \cup {Absent}
      BY <2>6 DEF ResumeGet, Busy, TypeOK
    <3>2. QED BY <3>1, <2>6, FetchedTyped DEF ResumeGet
  <2>7. ASSUME NEW r \in Request, ResumePut(r) PROVE TypeOK'
    <3> DEFINE t == [rows EXCEPT ![call[r].dst] = SpilledRow(buf[r])]
    <3>1. Busy(r) /\ buf[r] \in Content /\ SpilledRow(buf[r]) \in Row
      BY <2>7, RowsAreRows DEF ResumePut, Busy, TypeOK, Spills
    <3>2. t \in [Path -> Row \cup {NoRow}]
      BY <3>1 DEF TypeOK
    <3>3. Written(r, t) /\ UNCHANGED faultVars
      BY <2>7 DEF ResumePut
    <3> HIDE DEF t
    <3>4. QED BY <3>1, <3>2, <3>3, WrittenTyped
  <2>8. ASSUME NEW r \in Request, ResumeDrop(r) PROVE TypeOK'
    <3>1. Busy(r) /\ rows \in [Path -> Row \cup {NoRow}]
      BY <2>8 DEF ResumeDrop, Busy, TypeOK
    <3>2. QED BY <3>1, <2>8, WrittenTyped DEF ResumeDrop
  <2>9. ASSUME NEW r \in Request, ResumeRm(r) PROVE TypeOK'
    BY <2>9 DEF ResumeRm, Answer, Goto, TypeOK, Steps, Busy, faultVars
  <2>10. ASSUME NEW r \in Request, Reply(r) PROVE TypeOK'
    BY <2>10 DEF Reply, Goto, TypeOK, Steps, Busy, faultVars
  <2>11. ASSUME NEW r \in Request, R2Get(r) PROVE TypeOK'
    <3>1. objects[call[r].src] \in Content \cup {Absent}
      BY <2>11, CallData DEF R2Get, TypeOK, Busy
    <3>2. QED BY <3>1, <2>11 DEF R2Get, Goto, TypeOK, Steps, Busy, faultVars
  <2>12. ASSUME NEW r \in Request, R2Put(r) PROVE TypeOK'
    BY <2>12 DEF R2Put, Goto, TypeOK, Steps, Busy
  <2>13. ASSUME NEW r \in Request, R2Delete(r) PROVE TypeOK'
    BY <2>13 DEF R2Delete, Deletes, Goto, TypeOK, Steps, Busy
  <2>14. ASSUME NEW r \in Request, R2Fails(r) PROVE TypeOK'
    <3>1. call[r].dst \in Path
      BY <2>14, CallData DEF R2Fails, TypeOK, Busy
    <3>2. QED BY <3>1, <2>14 DEF R2Fails, Answer, Goto, TypeOK, Steps, Busy
  <2>15. ASSUME NEW r \in Request, R2DeleteFails(r) PROVE TypeOK'
    BY <2>15 DEF R2DeleteFails, Deletes, Goto, TypeOK, Steps, Busy
  <2>16. CASE Crash
    <3>1. crashes' \in 0..MaxCrashes
      BY <2>16, StoreAssumption DEF Crash, TypeOK
    <3>2. late' \subseteq [of : Request, life : Nat, path : Path, value : Content \cup {Absent}]
      <4>1. \A r \in Request : buf[r] \in Content \cup {Absent}
        BY DEF TypeOK
      <4>2. crashes \in Nat
        BY StoreAssumption DEF TypeOK
      <4>3. \A r \in Request :
              Orphans(r) \subseteq [of : Request, life : Nat, path : Path, value : Content \cup {Absent}]
        BY <4>1, <4>2 DEF Orphans
      <4>4. QED BY <2>16, <4>3 DEF Crash, TypeOK
    <3>3. suspect' \subseteq Path
      BY <2>16 DEF Crash, CutShort, TypeOK
    <3>4. QED BY <3>1, <3>2, <3>3, <2>16 DEF Crash, TypeOK, Steps, Busy
  <2>17. CASE LateLands
    <3>1. PICK c \in late : /\ objects' = [objects EXCEPT ![c.path] = c.value]
                            /\ late' = late \ {c} /\ suspect' = suspect \cup {c.path}
                            /\ landed' = TRUE
                            /\ UNCHANGED <<rows, mirror, reqVars, crashes>>
      BY <2>17 DEF LateLands
    <3>2. c.path \in Path /\ c.value \in Content \cup {Absent}
      BY DEF TypeOK
    <3>3. QED BY <3>1, <3>2 DEF reqVars, TypeOK, Busy
  <2>18. CASE UNCHANGED vars
    BY <2>18 DEF vars, reqVars, faultVars, TypeOK, Busy
  <2>19. QED
    BY <2>1, <2>2, <2>3, <2>4, <2>5, <2>6, <2>7, <2>8, <2>9, <2>10, <2>11, <2>12,
       <2>13, <2>14, <2>15, <2>16, <2>17, <2>18 DEF Next, Serve, R2Step
<1>3. QED BY <1>1, <1>2, PTL DEF Spec

----------------------------------------------------------------------------
(* The invariants. *)

\* No path belongs to two requests.
Exclusive ==
  \A r, q \in Request :
    r # q /\ Busy(r) /\ Busy(q) => PathsOf(call[r]) \cap PathsOf(call[q]) = {}

\* The listener is right about p.
Known(p) == (p \in mirror) <=> (rows[p] # NoRow)

\* A request has its `existed` right until it has written the row; then the row is there,
\* and the listener knows of it at the latest from the event that is still to come.
ListenerLocal(r) ==
  /\ pc[r] \in {"put", "stored"} => (existed[r] <=> (rows[call[r].dst] # NoRow))
  /\ pc[r] \in {"drop", "dropped"} =>
       rows[call[r].dst] # NoRow /\ (existed[r] => call[r].dst \in mirror)
  /\ \A p \in PathsOf(call[r]) :
       (pc[r] \in {"drop", "dropped"} /\ p = call[r].dst) \/ Known(p)

ListenerInv ==
  /\ Exclusive
  /\ \A r \in Request : Busy(r) => ListenerLocal(r)
  /\ ListenerAgreesAtRest

\* Row and object agree on p.
Matches(p) ==
  /\ (objects[p] # Absent) <=> InR2(rows, p)
  /\ InR2(rows, p) => Len(objects[p]) = rows[p].size

\* They agree, or R2 has done something that the code does not know.
Sound(p) == p \in suspect \/ Matches(p)

\* Between a put and its upsert the object is the one to come; between an inline upsert
\* and its delete the object is of no account; between rm_single's two steps it is gone.
StoresLocal(r) ==
  /\ pc[r] = "stored" => call[r].dst \in suspect \/ objects[call[r].dst] = buf[r]
  /\ pc[r] = "drop" => ~InR2(rows, call[r].dst)
  /\ pc[r] = "rmrow" => call[r].src \in suspect \/ objects[call[r].src] = Absent
  /\ \A p \in PathsOf(call[r]) :
       \/ pc[r] \in {"stored", "drop"} /\ p = call[r].dst
       \/ pc[r] = "rmrow" /\ p = call[r].src
       \/ Sound(p)

StoresInv ==
  /\ Exclusive
  /\ \A r \in Request : Busy(r) => StoresLocal(r)
  /\ StoresAgreeAtRest

----------------------------------------------------------------------------
(* The listener. *)

\* A busy request has a call, whose paths are paths.
LEMMA BusyCall ==
  ASSUME TypeOK, NEW r \in Request, Busy(r)
  PROVE  /\ call[r] \in Call /\ PathsOf(call[r]) \subseteq Path
         /\ call[r].src \in PathsOf(call[r]) /\ call[r].dst \in PathsOf(call[r])
BY CallData DEF TypeOK, PathsOf

\* A step of one request within its call that leaves all other paths alone keeps the
\* invariant if it keeps the request's own part of it.
LEMMA ListenerFrame ==
  ASSUME TypeOK, ListenerInv, NEW r \in Request, Busy(r), Busy(r)', UNCHANGED call,
         \A q \in Request \ {r} : pc'[q] = pc[q] /\ existed'[q] = existed[q],
         \A p \in Path \ PathsOf(call[r]) : rows'[p] = rows[p] /\ (p \in mirror' <=> p \in mirror),
         ListenerLocal(r)'
  PROVE  ListenerInv'
<1>1. \A q \in Request : Busy(q)' <=> Busy(q)
  BY DEF Busy
<1>2. Exclusive'
  BY <1>1 DEF ListenerInv, Exclusive
<1>3. ASSUME NEW q \in Request, Busy(q)' PROVE ListenerLocal(q)'
  <2>1. CASE q = r
    BY <2>1
  <2>2. CASE q # r
    <3>1. Busy(q) /\ ListenerLocal(q) /\ PathsOf(call[q]) \cap PathsOf(call[r]) = {}
      BY <1>1, <1>3, <2>2 DEF ListenerInv, Exclusive
    <3>2. /\ PathsOf(call[q]) \subseteq Path \ PathsOf(call[r])
          /\ call[q].dst \in PathsOf(call[q])
      BY <3>1, BusyCall
    <3>3. \A p \in PathsOf(call[q]) : rows'[p] = rows[p] /\ (p \in mirror' <=> p \in mirror)
      BY <3>2
    <3>4. pc'[q] = pc[q] /\ existed'[q] = existed[q]
      BY <2>2
    <3>5. QED BY <3>1, <3>2, <3>3, <3>4 DEF ListenerLocal, Known
  <2>3. QED BY <2>1, <2>2
<1>4. ListenerAgreesAtRest'
  <2> SUFFICES ASSUME NEW p \in Path, ~InFlight(p)' PROVE p \in mirror' <=> rows'[p] # NoRow
    BY DEF ListenerAgreesAtRest
  <2>1. ~InFlight(p) /\ p \notin PathsOf(call[r])
    BY <1>1 DEF InFlight
  <2>2. QED BY <2>1 DEF ListenerInv, ListenerAgreesAtRest
<1>5. QED BY <1>2, <1>3, <1>4 DEF ListenerInv

\* write_inner up to its await: `existed` is what the listener knows.
LEMMA WriteInnerListens ==
  ASSUME TypeOK, ListenerInv, NEW r \in Request, Busy(r), pc[r] \notin {"drop", "dropped"},
         NEW c \in Content, WriteInner(r, c)
  PROVE  ListenerInv'
<1> DEFINE d == call[r].dst
<1>1. /\ d \in Path /\ d \in PathsOf(call[r]) /\ PathsOf(call[r]) \subseteq Path
      /\ \A p \in PathsOf(call[r]) : Known(p)
  BY BusyCall DEF ListenerInv, ListenerLocal
<1>2. InlineRow(c) # NoRow
  BY RowsExist
<1>3. /\ existed'[r] = (rows[d] # NoRow) /\ UNCHANGED <<mirror, call>>
      /\ \A q \in Request \ {r} : pc'[q] = pc[q] /\ existed'[q] = existed[q]
      /\ pc'[r] \in {"put", "drop"}
      /\ \A p \in Path \ {d} : rows'[p] = rows[p]
      /\ pc'[r] = "put" => rows'[d] = rows[d]
      /\ pc'[r] = "drop" => rows'[d] # NoRow
  BY <1>1, <1>2 DEF WriteInner, Goto, TypeOK
<1> HIDE DEF d
<1>4. Busy(r)'
  BY <1>3 DEF Busy
<1>5. ListenerLocal(r)'
  <2>1. \A p \in PathsOf(call'[r]) : (pc'[r] = "drop" /\ p = call'[r].dst) \/ Known(p)'
    BY <1>1, <1>3 DEF Known, d
  <2>2. QED BY <1>1, <1>3, <2>1 DEF ListenerLocal, Known, d
<1>6. QED BY <1>1, <1>3, <1>4, <1>5, ListenerFrame

\* rm_single, from a table and a listener that agree on the request's paths.
LEMMA RmSingleListens ==
  ASSUME TypeOK, ListenerInv, NEW r \in Request, Busy(r),
         NEW t \in [Path -> Row \cup {NoRow}], NEW m \in SUBSET Path,
         \A p \in Path \ PathsOf(call[r]) : t[p] = rows[p] /\ (p \in m <=> p \in mirror),
         \A p \in PathsOf(call[r]) : p \in m <=> t[p] # NoRow,
         RmSingle(r, call[r].src, t, m)
  PROVE  ListenerInv'
<1> DEFINE s == call[r].src
<1>1. s \in Path /\ s \in PathsOf(call[r]) /\ PathsOf(call[r]) \subseteq Path
  BY BusyCall
<1>2. /\ UNCHANGED <<call, existed>>
      /\ \A q \in Request \ {r} : pc'[q] = pc[q]
      /\ pc'[r] \in {"rmobj", "reply"}
      /\ \A p \in Path \ {s} : rows'[p] = t[p] /\ (p \in mirror' <=> p \in m)
      /\ s \in mirror' <=> rows'[s] # NoRow
  BY <1>1 DEF RmSingle, Goto, Answer, TypeOK
<1> HIDE DEF s
<1>3. Busy(r)'
  BY <1>2 DEF Busy
<1>4. \A p \in Path \ PathsOf(call[r]) : rows'[p] = rows[p] /\ (p \in mirror' <=> p \in mirror)
  BY <1>1, <1>2
<1>5. \A p \in PathsOf(call[r]) : Known(p)'
  BY <1>1, <1>2 DEF Known
<1>6. ListenerLocal(r)'
  BY <1>2, <1>5 DEF ListenerLocal
<1>7. QED BY <1>2, <1>3, <1>4, <1>6, ListenerFrame

\* write_inner after its await: the event that is emitted is the right one.
LEMMA WrittenListens ==
  ASSUME TypeOK, ListenerInv, NEW r \in Request, Busy(r),
         NEW t \in [Path -> Row \cup {NoRow}],
         \A p \in Path \ {call[r].dst} : t[p] = rows[p],
         t[call[r].dst] # NoRow,
         existed[r] => call[r].dst \in mirror,
         \A p \in PathsOf(call[r]) \ {call[r].dst} : Known(p),
         Written(r, t)
  PROVE  ListenerInv'
<1> DEFINE d == call[r].dst
           m == Emit(mirror, d, existed[r])
<1>1. d \in Path /\ d \in PathsOf(call[r]) /\ PathsOf(call[r]) \subseteq Path
  BY BusyCall
<1>2. /\ m \in SUBSET Path /\ d \in m
      /\ \A p \in Path \ {d} : p \in m <=> p \in mirror
  BY <1>1 DEF Emit, TypeOK
<1>3. /\ \A p \in Path \ PathsOf(call[r]) : t[p] = rows[p] /\ (p \in m <=> p \in mirror)
      /\ \A p \in PathsOf(call[r]) : p \in m <=> t[p] # NoRow
  BY <1>1, <1>2 DEF Known
<1>4. \/ RmSingle(r, call[r].src, t, m)
      \/ rows' = t /\ mirror' = m /\ Answer(r, "ok") /\ UNCHANGED <<objects, call, buf, existed>>
  BY DEF Written
<1> HIDE DEF m, d
<1>5. CASE RmSingle(r, call[r].src, t, m)
  BY <1>2, <1>3, <1>5, RmSingleListens
<1>6. CASE rows' = t /\ mirror' = m /\ Answer(r, "ok") /\ UNCHANGED <<objects, call, buf, existed>>
  <2>1. pc'[r] = "reply" /\ \A q \in Request \ {r} : pc'[q] = pc[q]
    BY <1>6 DEF Answer, Goto, TypeOK
  <2>2. Busy(r)'
    BY <2>1 DEF Busy
  <2>3. ListenerLocal(r)'
    BY <1>3, <1>6, <2>1 DEF ListenerLocal, Known
  <2>4. QED BY <1>3, <1>6, <2>1, <2>2, <2>3, ListenerFrame
<1>7. QED BY <1>4, <1>5, <1>6

\* read_file_bytes and what its caller does next.
LEMMA FetchedListens ==
  ASSUME TypeOK, ListenerInv, NEW r \in Request, Busy(r), pc[r] \notin {"drop", "dropped"},
         NEW v \in Content \cup {Absent}, Fetched(r, v)
  PROVE  ListenerInv'
<1>1. call[r].data \in Content /\ OrEmpty(v) \in Content
  BY CallData, OrEmptyIsContent DEF TypeOK
<1>2. CASE Answer(r, "ok") /\ UNCHANGED <<rows, objects, mirror, call, existed>>
  <2>1. pc'[r] = "reply" /\ \A q \in Request \ {r} : pc'[q] = pc[q]
    BY <1>2 DEF Answer, Goto, TypeOK
  <2>2. Busy(r)'
    BY <2>1 DEF Busy
  <2>3. ListenerLocal(r)'
    BY <1>2, <2>1 DEF ListenerInv, ListenerLocal, Known
  <2>4. QED BY <1>2, <2>1, <2>2, <2>3, ListenerFrame
<1>3. CASE WriteInner(r, OrEmpty(v) \o call[r].data)
  BY <1>1, <1>3, AppendIsContent, WriteInnerListens
<1>4. CASE WriteInner(r, OrEmpty(v))
  BY <1>1, <1>4, WriteInnerListens
<1>5. QED BY <1>2, <1>3, <1>4 DEF Fetched

\* Between requests an on_change listener believes exactly in the paths that have a row,
\* for every overlap of calls on different paths, whatever R2 does and whenever the object
\* is evicted: `existed`, read before the await, is still right when it is used after it.
THEOREM ListenerAgrees ==
  ASSUME Serialize
  PROVE  Spec => []ListenerAgreesAtRest
<1>1. Init => ListenerInv
  BY DEF Init, ListenerInv, Exclusive, Busy, ListenerAgreesAtRest
<1>2. TypeOK /\ ListenerInv /\ [Next]_vars => ListenerInv'
  <2> SUFFICES ASSUME TypeOK, ListenerInv, [Next]_vars PROVE ListenerInv'
    OBVIOUS
  <2>1. ASSUME NEW r \in Request, NEW c \in Call, Arrive(r, c) PROVE ListenerInv'
    <3>1. /\ ~Busy(r) /\ Busy(r)' /\ call'[r] = c /\ pc'[r] = "start"
          /\ \A q \in Request \ {r} : pc'[q] = pc[q] /\ call'[q] = call[q]
          /\ UNCHANGED <<rows, mirror, existed>>
          /\ PathsOf(c) \subseteq Path /\ \A p \in PathsOf(c) : ~InFlight(p)
      BY <2>1, CallData DEF Arrive, Goto, TypeOK, Busy, PathsOf
    <3>2. \A q \in Request : q # r => (Busy(q)' <=> Busy(q))
      BY <3>1 DEF Busy
    <3>3. \A q \in Request : q # r /\ Busy(q) => PathsOf(call[q]) \cap PathsOf(c) = {}
      BY <3>1 DEF InFlight
    <3>4. Exclusive'
      BY <3>1, <3>2, <3>3 DEF ListenerInv, Exclusive
    <3>5. ASSUME NEW q \in Request, Busy(q)' PROVE ListenerLocal(q)'
      <4>1. CASE q = r
        BY <3>1, <4>1 DEF ListenerInv, ListenerAgreesAtRest, ListenerLocal, Known
      <4>2. CASE q # r
        BY <3>1, <3>2, <3>5, <4>2 DEF ListenerInv, ListenerLocal, Known
      <4>3. QED BY <4>1, <4>2
    <3>6. ListenerAgreesAtRest'
      BY <3>1, <3>2 DEF ListenerInv, ListenerAgreesAtRest, InFlight
    <3>7. QED BY <3>4, <3>5, <3>6 DEF ListenerInv
  <2>2. ASSUME NEW r \in Request, BeginWrite(r) PROVE ListenerInv'
    BY <2>2, CallData, WriteInnerListens DEF BeginWrite, Busy, TypeOK
  <2>3. ASSUME NEW r \in Request, Busy(r), Answer(r, "failed"), pc[r] \notin {"drop", "dropped"},
               UNCHANGED <<rows, mirror, call, existed>>
        PROVE  ListenerInv'
    <3>1. pc'[r] = "reply" /\ \A q \in Request \ {r} : pc'[q] = pc[q]
      BY <2>3 DEF Answer, Goto, TypeOK
    <3>2. Busy(r)' /\ ListenerLocal(r)'
      BY <2>3, <3>1 DEF Busy, ListenerInv, ListenerLocal, Known
    <3>3. QED BY <2>3, <3>1, <3>2, ListenerFrame
  <2>4. ASSUME NEW r \in Request, BeginMissing(r) PROVE ListenerInv'
    BY <2>3, <2>4 DEF BeginMissing, Busy
  \* Steps that leave table and listener alone.
  <2>5. ASSUME NEW r \in Request, NEW step \in {"get", "got", "stored", "dropped", "rmobj", "rmrow", "reply"},
               Busy(r), Goto(r, step), UNCHANGED <<rows, mirror, call, existed>>,
               step = "stored" => pc[r] = "put",
               step = "dropped" <=> pc[r] = "drop", pc[r] # "dropped"
        PROVE  ListenerInv'
    <3>1. pc'[r] = step /\ \A q \in Request \ {r} : pc'[q] = pc[q]
      BY <2>5 DEF Goto, TypeOK
    <3>2. Busy(r)' /\ ListenerLocal(r)'
      BY <2>5, <3>1 DEF Busy, ListenerInv, ListenerLocal, Known
    <3>3. QED BY <2>5, <3>1, <3>2, ListenerFrame
  <2>6. ASSUME NEW r \in Request, BeginRead(r) PROVE ListenerInv'
    <3> DEFINE p == call[r].src
    <3>1. Busy(r) /\ p \in Path /\ pc[r] = "start"
      BY <2>6, CallData DEF BeginRead, Busy, TypeOK
    <3>2. CASE Fetched(r, Absent)
      BY <3>1, <3>2, FetchedListens
    <3>3. CASE rows[p] # NoRow /\ Fetched(r, rows[p].content)
      BY <3>1, <3>3, FetchedListens DEF TypeOK, Row
    <3>4. CASE Goto(r, "get") /\ UNCHANGED <<rows, objects, mirror, call, buf, existed, status>>
      BY <3>1, <3>4, <2>5
    <3>5. QED BY <2>6, <3>2, <3>3, <3>4 DEF BeginRead
  <2>7. ASSUME NEW r \in Request, BeginDelete(r) PROVE ListenerInv'
    <3> DEFINE p == call[r].src
    <3>1. Busy(r) /\ pc[r] = "start" /\ p \in Path
      BY <2>7, CallData DEF BeginDelete, Busy, TypeOK
    <3>2. CASE Answer(r, "ok") /\ UNCHANGED <<rows, objects, mirror, call, buf, existed>>
      BY <3>1, <3>2, <2>5 DEF Answer
    <3>3. CASE RmSingle(r, p, rows, mirror)
      <4>1. \A q \in PathsOf(call[r]) : q \in mirror <=> rows[q] # NoRow
        BY <3>1 DEF ListenerInv, ListenerLocal, Known
      <4>2. rows \in [Path -> Row \cup {NoRow}] /\ mirror \in SUBSET Path
        BY DEF TypeOK
      <4>3. QED BY <3>1, <3>3, <4>1, <4>2, RmSingleListens
    <3>4. QED BY <2>7, <3>2, <3>3 DEF BeginDelete
  <2>8. ASSUME NEW r \in Request, ResumeGet(r) PROVE ListenerInv'
    BY <2>8, FetchedListens DEF ResumeGet, Busy, TypeOK
  <2>9. ASSUME NEW r \in Request, ResumePut(r) PROVE ListenerInv'
    <3> DEFINE t == [rows EXCEPT ![call[r].dst] = SpilledRow(buf[r])]
    <3>1. Busy(r) /\ pc[r] = "stored" /\ buf[r] \in Content /\ Len(buf[r]) > SpillThreshold
      BY <2>9 DEF ResumePut, Busy, TypeOK
    <3>2. call[r].dst \in Path /\ call[r].dst \in PathsOf(call[r])
      BY <3>1, BusyCall
    <3>3. SpilledRow(buf[r]) \in Row /\ SpilledRow(buf[r]) # NoRow
      BY <3>1, RowsAreRows, RowsExist DEF Spills
    <3>4. /\ t \in [Path -> Row \cup {NoRow}]
          /\ t[call[r].dst] # NoRow
          /\ \A p \in Path \ {call[r].dst} : t[p] = rows[p]
      BY <3>2, <3>3 DEF TypeOK
    <3>5. /\ existed[r] => call[r].dst \in mirror
          /\ \A p \in PathsOf(call[r]) \ {call[r].dst} : Known(p)
      BY <3>1, <3>2 DEF ListenerInv, ListenerLocal, Known
    <3>6. Written(r, t)
      BY <2>9 DEF ResumePut
    <3> HIDE DEF t
    <3>7. QED BY <3>1, <3>4, <3>5, <3>6, WrittenListens
  <2>10. ASSUME NEW r \in Request, ResumeDrop(r) PROVE ListenerInv'
    <3>1. Busy(r) /\ pc[r] = "dropped" /\ rows \in [Path -> Row \cup {NoRow}]
      BY <2>10 DEF ResumeDrop, Busy, TypeOK
    <3>2. /\ rows[call[r].dst] # NoRow
          /\ existed[r] => call[r].dst \in mirror
          /\ \A p \in PathsOf(call[r]) \ {call[r].dst} : Known(p)
      BY <3>1 DEF ListenerInv, ListenerLocal
    <3>3. QED BY <2>10, <3>1, <3>2, WrittenListens DEF ResumeDrop
  <2>11. ASSUME NEW r \in Request, ResumeRm(r) PROVE ListenerInv'
    <3> DEFINE s == call[r].src
    <3>1. Busy(r) /\ pc[r] = "rmrow" /\ s \in Path /\ s \in PathsOf(call[r])
          /\ PathsOf(call[r]) \subseteq Path
      BY <2>11, BusyCall DEF ResumeRm, Busy
    <3>2. /\ pc'[r] = "reply" /\ \A q \in Request \ {r} : pc'[q] = pc[q]
          /\ \A p \in Path \ {s} : rows'[p] = rows[p] /\ (p \in mirror' <=> p \in mirror)
          /\ rows'[s] = NoRow /\ s \notin mirror'
          /\ UNCHANGED <<call, existed>>
      BY <2>11, <3>1 DEF ResumeRm, Answer, Goto, TypeOK
    <3> HIDE DEF s
    <3>3. Busy(r)' /\ ListenerLocal(r)'
      BY <3>1, <3>2 DEF Busy, ListenerInv, ListenerLocal, Known
    <3>4. QED BY <3>1, <3>2, <3>3, ListenerFrame
  <2>12. ASSUME NEW r \in Request, Reply(r) PROVE ListenerInv'
    <3>1. /\ Busy(r) /\ pc[r] = "reply" /\ pc'[r] = "idle" /\ UNCHANGED <<rows, mirror>>
          /\ \A q \in Request \ {r} : pc'[q] = pc[q] /\ call'[q] = call[q] /\ existed'[q] = existed[q]
      BY <2>12 DEF Reply, Goto, TypeOK, Busy
    <3>2. \A q \in Request : Busy(q)' <=> q # r /\ Busy(q)
      BY <3>1 DEF Busy
    <3>3. Exclusive' /\ \A q \in Request : Busy(q)' => ListenerLocal(q)'
      BY <3>1, <3>2 DEF ListenerInv, Exclusive, ListenerLocal, Known
    <3>4. ASSUME NEW p \in Path, ~InFlight(p)' PROVE p \in mirror' <=> rows'[p] # NoRow
      <4>1. CASE p \in PathsOf(call[r])
        BY <3>1, <4>1 DEF ListenerInv, ListenerLocal, Known
      <4>2. CASE p \notin PathsOf(call[r])
        <5>1. ~InFlight(p)
          BY <3>1, <3>2, <3>4, <4>2 DEF InFlight
        <5>2. QED BY <3>1, <5>1 DEF ListenerInv, ListenerAgreesAtRest
      <4>3. QED BY <4>1, <4>2
    <3>5. QED BY <3>3, <3>4 DEF ListenerInv, ListenerAgreesAtRest
  <2>13. ASSUME NEW r \in Request, R2Get(r) PROVE ListenerInv'
    BY <2>13, <2>5 DEF R2Get, Busy
  <2>14. ASSUME NEW r \in Request, R2Put(r) PROVE ListenerInv'
    BY <2>14, <2>5 DEF R2Put, Busy
  <2>15. ASSUME NEW r \in Request, R2Delete(r) PROVE ListenerInv'
    BY <2>15, <2>5 DEF R2Delete, Deletes, Busy
  <2>16. ASSUME NEW r \in Request, R2Fails(r) PROVE ListenerInv'
    BY <2>16, <2>3 DEF R2Fails, Busy
  <2>17. ASSUME NEW r \in Request, R2DeleteFails(r) PROVE ListenerInv'
    BY <2>17, <2>5 DEF R2DeleteFails, Deletes, Busy
  <2>18. CASE Crash
    BY <2>18 DEF Crash, ListenerInv, Exclusive, Busy, ListenerAgreesAtRest
  <2>19. CASE LateLands \/ UNCHANGED vars
    <3>1. UNCHANGED <<rows, mirror, reqVars>>
      BY <2>19 DEF LateLands, vars
    <3>2. QED BY <3>1 DEF reqVars, ListenerInv, Exclusive, ListenerLocal, Known,
                          ListenerAgreesAtRest, InFlight, Busy
  <2>20. QED
    BY <2>1, <2>2, <2>4, <2>6, <2>7, <2>8, <2>9, <2>10, <2>11, <2>12, <2>13, <2>14, <2>15,
       <2>16, <2>17, <2>18, <2>19 DEF Next, Serve, R2Step
<1>3. ListenerInv => ListenerAgreesAtRest
  BY DEF ListenerInv
<1>4. QED BY <1>1, <1>2, <1>3, TypeCorrect, PTL DEF Spec

----------------------------------------------------------------------------
(* Table and bucket. *)

LEMMA StoresFrame ==
  ASSUME TypeOK, StoresInv, NEW r \in Request, Busy(r), Busy(r)', UNCHANGED call,
         \A q \in Request \ {r} : pc'[q] = pc[q] /\ buf'[q] = buf[q],
         \A p \in Path \ PathsOf(call[r]) :
           rows'[p] = rows[p] /\ objects'[p] = objects[p] /\ (p \in suspect' <=> p \in suspect),
         StoresLocal(r)'
  PROVE  StoresInv'
<1>1. \A q \in Request : Busy(q)' <=> Busy(q)
  BY DEF Busy
<1>2. Exclusive'
  BY <1>1 DEF StoresInv, Exclusive
<1>3. ASSUME NEW q \in Request, Busy(q)' PROVE StoresLocal(q)'
  <2>1. CASE q = r
    BY <2>1
  <2>2. CASE q # r
    <3>1. Busy(q) /\ StoresLocal(q) /\ PathsOf(call[q]) \cap PathsOf(call[r]) = {}
      BY <1>1, <1>3, <2>2 DEF StoresInv, Exclusive
    <3>2. /\ PathsOf(call[q]) \subseteq Path \ PathsOf(call[r])
          /\ call[q].src \in PathsOf(call[q]) /\ call[q].dst \in PathsOf(call[q])
      BY <3>1, BusyCall
    <3>3. \A p \in PathsOf(call[q]) :
            rows'[p] = rows[p] /\ objects'[p] = objects[p] /\ (p \in suspect' <=> p \in suspect)
      BY <3>2
    <3>4. pc'[q] = pc[q] /\ buf'[q] = buf[q]
      BY <2>2
    <3>5. QED BY <3>1, <3>2, <3>3, <3>4 DEF StoresLocal, Sound, Matches, InR2
  <2>3. QED BY <2>1, <2>2
<1>4. ASSUME NEW p \in Path, Settled(p)' PROVE Matches(p)'
  <2>1. ~InFlight(p) /\ p \notin PathsOf(call[r])
    BY <1>1, <1>4 DEF Settled, InFlight
  <2>2. Settled(p)
    BY <1>4, <2>1 DEF Settled
  <2>3. QED BY <2>1, <2>2 DEF StoresInv, StoresAgreeAtRest, Matches, InR2
<1>5. StoresAgreeAtRest'
  BY <1>4 DEF StoresAgreeAtRest, Matches
<1>6. QED BY <1>2, <1>3, <1>5 DEF StoresInv

\* Steps that leave both stores alone, from a place where they agree on the own paths.
LEMMA StoresQuiet ==
  ASSUME TypeOK, StoresInv, NEW r \in Request, Busy(r), Busy(r)', UNCHANGED <<rows, objects, call, suspect>>,
         pc[r] \notin {"stored", "drop", "rmrow"}, pc'[r] \notin {"stored", "drop", "rmrow"},
         \A q \in Request \ {r} : pc'[q] = pc[q] /\ buf'[q] = buf[q]
  PROVE  StoresInv'
<1>1. StoresLocal(r)'
  BY DEF StoresInv, StoresLocal, Sound, Matches, InR2
<1>2. QED BY <1>1, StoresFrame

\* write_inner up to its await: an inline row needs no object.
LEMMA WriteInnerMatches ==
  ASSUME TypeOK, StoresInv, NEW r \in Request, Busy(r), pc[r] \notin {"stored", "drop", "rmrow"},
         NEW c \in Content, WriteInner(r, c), UNCHANGED faultVars
  PROVE  StoresInv'
<1>1. CASE Spills(c) /\ Goto(r, "put") /\ UNCHANGED rows
  BY <1>1, StoresQuiet DEF WriteInner, Goto, TypeOK, Busy, faultVars
<1>2. CASE ~Spills(c) /\ Goto(r, "drop") /\ rows' = [rows EXCEPT ![call[r].dst] = InlineRow(c)]
  <2> DEFINE d == call[r].dst
  <2>1. /\ d \in Path /\ d \in PathsOf(call[r]) /\ PathsOf(call[r]) \subseteq Path
        /\ \A p \in PathsOf(call[r]) : Sound(p)
    BY BusyCall DEF StoresInv, StoresLocal
  <2>2. /\ UNCHANGED <<objects, call, suspect>> /\ pc'[r] = "drop"
        /\ \A q \in Request \ {r} : pc'[q] = pc[q] /\ buf'[q] = buf[q]
        /\ \A p \in Path \ {d} : rows'[p] = rows[p]
        /\ rows'[d] = InlineRow(c)
    BY <1>2, <2>1 DEF WriteInner, Goto, TypeOK, faultVars
  <2>3. ~InR2(rows', d)
    BY <2>2 DEF InR2, InlineRow
  <2> HIDE DEF d
  <2>4. Busy(r)' /\ \A p \in Path \ PathsOf(call[r]) : rows'[p] = rows[p] /\ objects'[p] = objects[p]
    BY <2>1, <2>2 DEF Busy
  <2>5. ASSUME NEW p \in PathsOf(call[r]), p # d PROVE Sound(p)'
    BY <2>1, <2>2, <2>5 DEF Sound, Matches, InR2
  <2>6. StoresLocal(r)'
    BY <2>1, <2>2, <2>3, <2>5 DEF StoresLocal, d
  <2>7. QED BY <2>2, <2>4, <2>6, StoresFrame
<1>3. QED BY <1>1, <1>2 DEF WriteInner

\* rm_single, from a table t that agrees with the bucket on the request's paths.
LEMMA RmSingleMatches ==
  ASSUME TypeOK, StoresInv, NEW r \in Request, Busy(r),
         NEW t \in [Path -> Row \cup {NoRow}], NEW m,
         \A p \in Path \ PathsOf(call[r]) : t[p] = rows[p],
         \A p \in PathsOf(call[r]) :
           \/ p \in suspect
           \/ /\ (objects[p] # Absent) <=> InR2(t, p)
              /\ InR2(t, p) => Len(objects[p]) = t[p].size,
         UNCHANGED faultVars,
         RmSingle(r, call[r].src, t, m)
  PROVE  StoresInv'
<1> DEFINE s == call[r].src
<1>1. s \in Path /\ s \in PathsOf(call[r]) /\ PathsOf(call[r]) \subseteq Path
  BY BusyCall
<1>2. /\ UNCHANGED <<objects, call, buf, suspect>> /\ pc'[r] \in {"rmobj", "reply"}
      /\ \A q \in Request \ {r} : pc'[q] = pc[q]
      /\ \A p \in Path \ {s} : rows'[p] = t[p]
      /\ rows'[s] = t[s] \/ (rows'[s] = NoRow /\ ~InR2(t, s))
  BY <1>1 DEF RmSingle, Goto, Answer, TypeOK, faultVars
<1> HIDE DEF s
<1>3. Busy(r)' /\ \A p \in Path \ PathsOf(call[r]) : rows'[p] = rows[p] /\ objects'[p] = objects[p]
  BY <1>1, <1>2 DEF Busy
<1>4. ASSUME NEW p \in PathsOf(call[r]) PROVE Sound(p)'
  <2>1. CASE rows'[p] = t[p]
    BY <1>2, <2>1 DEF Sound, Matches, InR2
  <2>2. CASE rows'[p] = NoRow /\ ~InR2(t, p)
    BY <1>2, <2>2 DEF Sound, Matches, InR2
  <2>3. QED BY <1>1, <1>2, <2>1, <2>2
<1>5. StoresLocal(r)'
  BY <1>2, <1>4 DEF StoresLocal
<1>6. QED BY <1>2, <1>3, <1>5, StoresFrame

\* write_inner after its await, with the upserted table t.
LEMMA WrittenMatches ==
  ASSUME TypeOK, StoresInv, NEW r \in Request, Busy(r),
         NEW t \in [Path -> Row \cup {NoRow}],
         \A p \in Path \ PathsOf(call[r]) : t[p] = rows[p],
         \A p \in PathsOf(call[r]) :
           \/ p \in suspect
           \/ /\ (objects[p] # Absent) <=> InR2(t, p)
              /\ InR2(t, p) => Len(objects[p]) = t[p].size,
         UNCHANGED faultVars,
         Written(r, t)
  PROVE  StoresInv'
<1> DEFINE m == Emit(mirror, call[r].dst, existed[r])
<1>1. \/ RmSingle(r, call[r].src, t, m)
      \/ rows' = t /\ Answer(r, "ok") /\ UNCHANGED <<objects, call, buf, existed>>
  BY DEF Written
<1> HIDE DEF m
<1>2. CASE RmSingle(r, call[r].src, t, m)
  BY <1>2, RmSingleMatches
<1>3. CASE rows' = t /\ Answer(r, "ok") /\ UNCHANGED <<objects, call, buf, existed>>
  <2>1. /\ Busy(r)' /\ pc'[r] = "reply"
        /\ \A q \in Request \ {r} : pc'[q] = pc[q] /\ buf'[q] = buf[q]
    BY <1>3 DEF Answer, Goto, TypeOK, Busy
  <2>2. StoresLocal(r)'
    BY <1>3, <2>1 DEF StoresLocal, Sound, Matches, InR2, faultVars
  <2>3. QED BY <1>3, <2>1, <2>2, StoresFrame DEF faultVars
<1>4. QED BY <1>1, <1>2, <1>3

LEMMA FetchedMatches ==
  ASSUME TypeOK, StoresInv, NEW r \in Request, Busy(r), pc[r] \notin {"stored", "drop", "rmrow"},
         NEW v \in Content \cup {Absent}, Fetched(r, v), UNCHANGED faultVars
  PROVE  StoresInv'
<1>1. call[r].data \in Content /\ OrEmpty(v) \in Content
  BY CallData, OrEmptyIsContent DEF TypeOK
<1>2. CASE buf' = [buf EXCEPT ![r] = v] /\ Answer(r, "ok") /\ UNCHANGED <<rows, objects, mirror, call, existed>>
  BY <1>2, StoresQuiet DEF Answer, Goto, TypeOK, Busy, faultVars
<1>3. CASE WriteInner(r, OrEmpty(v) \o call[r].data)
  BY <1>1, <1>3, AppendIsContent, WriteInnerMatches
<1>4. CASE WriteInner(r, OrEmpty(v))
  BY <1>1, <1>4, WriteInnerMatches
<1>5. QED BY <1>2, <1>3, <1>4 DEF Fetched

\* Between requests an object exists just when its path has an r2 row, and has the size of
\* the row, unless R2 has failed on this very key, or the object was evicted while it worked
\* on it, since the last R2 call on the key that succeeded: the put before the upsert, the
\* delete after it and the delete of rm_single never miss an object or hit one that is
\* needed, and each of them repairs what was wrong before.
THEOREM StoresAgree ==
  ASSUME Serialize
  PROVE  Spec => []StoresAgreeAtRest
<1>1. Init => StoresInv
  BY DEF Init, StoresInv, Exclusive, Busy, StoresAgreeAtRest, InR2
<1>2. TypeOK /\ StoresInv /\ [Next]_vars => StoresInv'
  <2> SUFFICES ASSUME TypeOK, StoresInv, [Next]_vars PROVE StoresInv'
    OBVIOUS
  <2>1. ASSUME NEW r \in Request, NEW c \in Call, Arrive(r, c) PROVE StoresInv'
    <3>1. /\ ~Busy(r) /\ Busy(r)' /\ call'[r] = c /\ pc'[r] = "start"
          /\ \A q \in Request \ {r} : pc'[q] = pc[q] /\ call'[q] = call[q]
          /\ UNCHANGED <<rows, objects, buf, suspect>>
          /\ PathsOf(c) \subseteq Path /\ \A p \in PathsOf(c) : ~InFlight(p)
      BY <2>1, CallData DEF Arrive, Goto, TypeOK, Busy, PathsOf, faultVars
    <3>2. \A q \in Request : q # r => (Busy(q)' <=> Busy(q))
      BY <3>1 DEF Busy
    <3>3. \A q \in Request : q # r /\ Busy(q) => PathsOf(call[q]) \cap PathsOf(c) = {}
      BY <3>1 DEF InFlight
    <3>4. Exclusive'
      BY <3>1, <3>2, <3>3 DEF StoresInv, Exclusive
    <3>5. ASSUME NEW q \in Request, Busy(q)' PROVE StoresLocal(q)'
      <4>1. CASE q = r
        BY <3>1, <4>1 DEF StoresInv, StoresAgreeAtRest, Settled, StoresLocal, Sound, Matches, InR2
      <4>2. CASE q # r
        <5>1. StoresLocal(q) /\ pc'[q] = pc[q] /\ call'[q] = call[q]
          BY <3>1, <3>2, <3>5, <4>2 DEF StoresInv
        <5>2. QED BY <3>1, <5>1 DEF StoresLocal, Sound, Matches, InR2
      <4>3. QED BY <4>1, <4>2
    <3>6. ASSUME NEW p \in Path, Settled(p)' PROVE Settled(p)
      BY <3>1, <3>2, <3>6 DEF Settled, InFlight
    <3>7. StoresAgreeAtRest'
      BY <3>1, <3>6 DEF StoresInv, StoresAgreeAtRest, InR2
    <3>8. QED BY <3>4, <3>5, <3>7 DEF StoresInv
  <2>2. ASSUME NEW r \in Request, BeginWrite(r) PROVE StoresInv'
    BY <2>2, CallData, WriteInnerMatches DEF BeginWrite, Busy, TypeOK
  <2>3. ASSUME NEW r \in Request, BeginMissing(r) PROVE StoresInv'
    BY <2>3, StoresQuiet DEF BeginMissing, Answer, Goto, TypeOK, Busy, faultVars
  <2>4. ASSUME NEW r \in Request, BeginRead(r) PROVE StoresInv'
    <3> DEFINE p == call[r].src
    <3>1. Busy(r) /\ p \in Path /\ pc[r] = "start" /\ UNCHANGED faultVars
      BY <2>4, CallData DEF BeginRead, Busy, TypeOK
    <3>2. CASE Fetched(r, Absent)
      BY <3>1, <3>2, FetchedMatches
    <3>3. CASE rows[p] # NoRow /\ Fetched(r, rows[p].content)
      BY <3>1, <3>3, FetchedMatches DEF TypeOK, Row
    <3>4. CASE Goto(r, "get") /\ UNCHANGED <<rows, objects, mirror, call, buf, existed, status>>
      BY <3>1, <3>4, StoresQuiet DEF Goto, TypeOK, Busy, faultVars
    <3>5. QED BY <2>4, <3>2, <3>3, <3>4 DEF BeginRead
  <2>5. ASSUME NEW r \in Request, BeginDelete(r) PROVE StoresInv'
    <3> DEFINE p == call[r].src
    <3>1. Busy(r) /\ pc[r] = "start" /\ p \in Path /\ UNCHANGED faultVars
      BY <2>5, CallData DEF BeginDelete, Busy, TypeOK
    <3>2. CASE Answer(r, "ok") /\ UNCHANGED <<rows, objects, mirror, call, buf, existed>>
      BY <3>1, <3>2, StoresQuiet DEF Answer, Goto, TypeOK, Busy, faultVars
    <3>3. CASE RmSingle(r, p, rows, mirror)
      <4>1. \A q \in PathsOf(call[r]) : Sound(q)
        BY <3>1 DEF StoresInv, StoresLocal
      <4>2. rows \in [Path -> Row \cup {NoRow}]
        BY DEF TypeOK
      <4>3. QED BY <3>1, <3>3, <4>1, <4>2, RmSingleMatches DEF Sound, Matches
    <3>4. QED BY <2>5, <3>2, <3>3 DEF BeginDelete
  <2>6. ASSUME NEW r \in Request, ResumeGet(r) PROVE StoresInv'
    BY <2>6, FetchedMatches DEF ResumeGet, Busy, TypeOK
  <2>7. ASSUME NEW r \in Request, ResumePut(r) PROVE StoresInv'
    <3> DEFINE d == call[r].dst
               t == [rows EXCEPT ![d] = SpilledRow(buf[r])]
    <3>1. Busy(r) /\ pc[r] = "stored" /\ buf[r] \in Content /\ Len(buf[r]) > SpillThreshold
      BY <2>7 DEF ResumePut, Busy, TypeOK
    <3>2. d \in Path /\ d \in PathsOf(call[r]) /\ PathsOf(call[r]) \subseteq Path
      BY <3>1, BusyCall
    <3>3. SpilledRow(buf[r]) \in Row /\ SpilledRow(buf[r]) # NoRow
      BY <3>1, RowsAreRows, RowsExist DEF Spills
    <3>4. /\ t \in [Path -> Row \cup {NoRow}] /\ t[d] = SpilledRow(buf[r])
          /\ \A p \in Path \ {d} : t[p] = rows[p]
      BY <3>2, <3>3 DEF TypeOK
    <3>5. \A p \in PathsOf(call[r]) \ {d} : Sound(p)
      BY <3>1 DEF StoresInv, StoresLocal
    <3>6. Written(r, t) /\ UNCHANGED faultVars
      BY <2>7 DEF ResumePut
    <3>7. InR2(t, d) /\ t[d].size = Len(buf[r])
      BY <3>3, <3>4 DEF InR2, SpilledRow
    <3>8. d \in suspect \/ (objects[d] # Absent /\ Len(objects[d]) = Len(buf[r]))
      <4>1. d \in suspect \/ objects[d] = buf[r]
        BY <3>1 DEF StoresInv, StoresLocal
      <4>2. QED BY <4>1, <3>1, StoreAssumption
    <3>9. ASSUME NEW p \in PathsOf(call[r])
          PROVE  \/ p \in suspect
                 \/ /\ (objects[p] # Absent) <=> InR2(t, p)
                    /\ InR2(t, p) => Len(objects[p]) = t[p].size
      <4>1. CASE p = d
        BY <3>7, <3>8, <4>1
      <4>2. CASE p # d
        BY <3>2, <3>4, <3>5, <4>2 DEF Sound, Matches, InR2
      <4>3. QED BY <4>1, <4>2
    <3> HIDE DEF t, d
    <3>10. QED BY <3>1, <3>2, <3>4, <3>6, <3>9, WrittenMatches
  <2>8. ASSUME NEW r \in Request, ResumeDrop(r) PROVE StoresInv'
    <3>1. Busy(r) /\ pc[r] = "dropped" /\ rows \in [Path -> Row \cup {NoRow}]
      BY <2>8 DEF ResumeDrop, Busy, TypeOK
    <3>2. \A p \in PathsOf(call[r]) : Sound(p)
      BY <3>1 DEF StoresInv, StoresLocal
    <3>3. QED BY <2>8, <3>1, <3>2, WrittenMatches DEF ResumeDrop, Sound, Matches
  <2>9. ASSUME NEW r \in Request, ResumeRm(r) PROVE StoresInv'
    <3> DEFINE s == call[r].src
    <3>1. /\ Busy(r) /\ pc[r] = "rmrow" /\ s \in Path /\ s \in PathsOf(call[r])
          /\ PathsOf(call[r]) \subseteq Path
      BY <2>9, BusyCall DEF ResumeRm, Busy
    <3>2. /\ pc'[r] = "reply" /\ \A q \in Request \ {r} : pc'[q] = pc[q]
          /\ \A p \in Path \ {s} : rows'[p] = rows[p]
          /\ rows'[s] = NoRow
          /\ UNCHANGED <<objects, call, buf, suspect>>
      BY <2>9, <3>1 DEF ResumeRm, Answer, Goto, TypeOK, faultVars
    <3>3. (s \in suspect \/ objects[s] = Absent) /\ \A p \in PathsOf(call[r]) \ {s} : Sound(p)
      BY <3>1 DEF StoresInv, StoresLocal
    <3> HIDE DEF s
    <3>4. \A p \in PathsOf(call[r]) : Sound(p)'
      BY <3>1, <3>2, <3>3 DEF Sound, Matches, InR2
    <3>5. Busy(r)' /\ StoresLocal(r)'
      BY <3>2, <3>4 DEF Busy, StoresLocal
    <3>6. QED BY <3>1, <3>2, <3>5, StoresFrame
  <2>10. ASSUME NEW r \in Request, Reply(r) PROVE StoresInv'
    <3>1. /\ Busy(r) /\ pc[r] = "reply" /\ pc'[r] = "idle" /\ UNCHANGED <<rows, objects, suspect>>
          /\ \A q \in Request \ {r} : pc'[q] = pc[q] /\ call'[q] = call[q] /\ buf'[q] = buf[q]
      BY <2>10 DEF Reply, Goto, TypeOK, Busy, faultVars
    <3>2. \A q \in Request : Busy(q)' <=> q # r /\ Busy(q)
      BY <3>1 DEF Busy
    <3>3. Exclusive' /\ \A q \in Request : Busy(q)' => StoresLocal(q)'
      <4>1. Exclusive'
        BY <3>1, <3>2 DEF StoresInv, Exclusive
      <4>2. ASSUME NEW q \in Request, Busy(q)' PROVE StoresLocal(q)'
        <5>1. q # r /\ StoresLocal(q)
          BY <3>2, <4>2 DEF StoresInv
        <5>2. pc'[q] = pc[q] /\ call'[q] = call[q] /\ buf'[q] = buf[q]
          BY <3>1, <5>1
        <5>3. QED BY <3>1, <5>1, <5>2 DEF StoresLocal, Sound, Matches, InR2
      <4>3. QED BY <4>1, <4>2
    <3>4. ASSUME NEW p \in Path, Settled(p)' PROVE Matches(p)
      <4>1. CASE p \in PathsOf(call[r])
        BY <3>1, <3>4, <4>1 DEF StoresInv, StoresLocal, Sound, Settled
      <4>2. CASE p \notin PathsOf(call[r])
        <5>1. Settled(p)
          BY <3>1, <3>2, <3>4, <4>2 DEF Settled, InFlight
        <5>2. QED BY <5>1 DEF StoresInv, StoresAgreeAtRest, Matches
      <4>3. QED BY <4>1, <4>2
    <3>5. StoresAgreeAtRest'
      BY <3>1, <3>4 DEF StoresAgreeAtRest, Matches, InR2
    <3>6. QED BY <3>3, <3>5 DEF StoresInv
  <2>11. ASSUME NEW r \in Request, R2Get(r) PROVE StoresInv'
    BY <2>11, StoresQuiet DEF R2Get, Goto, TypeOK, Busy, faultVars
  <2>12. ASSUME NEW r \in Request, R2Put(r) PROVE StoresInv'
    <3> DEFINE d == call[r].dst
    <3>1. Busy(r) /\ pc[r] = "put"
      BY <2>12 DEF R2Put, Busy
    <3>2. d \in Path /\ d \in PathsOf(call[r]) /\ PathsOf(call[r]) \subseteq Path
      BY <3>1, BusyCall
    <3>3. /\ pc'[r] = "stored" /\ \A q \in Request \ {r} : pc'[q] = pc[q]
          /\ objects'[d] = buf[r] /\ \A p \in Path \ {d} : objects'[p] = objects[p]
          /\ \A p \in Path \ {d} : p \in suspect' <=> p \in suspect
          /\ UNCHANGED <<rows, call, buf>>
      BY <2>12, <3>2 DEF R2Put, Goto, TypeOK
    <3>4. \A p \in PathsOf(call[r]) \ {d} : Sound(p)'
      BY <3>1, <3>2, <3>3 DEF StoresInv, StoresLocal, Sound, Matches, InR2
    <3>5. Busy(r)' /\ StoresLocal(r)'
      BY <3>3, <3>4 DEF Busy, StoresLocal
    <3> HIDE DEF d
    <3>6. QED BY <3>1, <3>2, <3>3, <3>5, StoresFrame
  <2>13. ASSUME NEW r \in Request, R2Delete(r) PROVE StoresInv'
    <3>1. PICK k \in Path, step \in Steps :
            /\ Deletes(r, k, step) /\ Goto(r, step)
            /\ objects' = [objects EXCEPT ![k] = Absent]
            /\ suspect' = suspect \ {k}
            /\ UNCHANGED <<rows, call, buf>>
      BY <2>13 DEF R2Delete
    <3>2. Busy(r) /\ pc[r] \in {"drop", "rmobj"}
      BY <3>1 DEF Deletes, Busy
    <3>3. k \in PathsOf(call[r]) /\ PathsOf(call[r]) \subseteq Path
      BY <3>1, <3>2, BusyCall DEF Deletes
    <3>4. /\ pc'[r] = step /\ \A q \in Request \ {r} : pc'[q] = pc[q]
          /\ objects'[k] = Absent /\ \A p \in Path \ {k} : objects'[p] = objects[p]
          /\ \A p \in Path \ {k} : p \in suspect' <=> p \in suspect
      BY <3>1, <3>3 DEF Goto, TypeOK
    <3>5. \A p \in PathsOf(call[r]) \ {k} : Sound(p)'
      BY <3>1, <3>2, <3>3, <3>4 DEF Deletes, StoresInv, StoresLocal, Sound, Matches, InR2
    <3>6. pc[r] = "drop" => Sound(k)'
      BY <3>1, <3>2, <3>4 DEF Deletes, StoresInv, StoresLocal, Sound, Matches, InR2
    <3>7. Busy(r)' /\ StoresLocal(r)'
      BY <3>1, <3>2, <3>4, <3>5, <3>6 DEF Deletes, Busy, StoresLocal
    <3>8. QED BY <3>1, <3>2, <3>3, <3>4, <3>7, StoresFrame
  <2>14. ASSUME NEW r \in Request, R2Fails(r) PROVE StoresInv'
    <3>1. CASE pc[r] = "get"
      BY <2>14, <3>1, StoresQuiet DEF R2Fails, Answer, Goto, TypeOK, Busy
    <3>2. CASE pc[r] = "put"
      <4> DEFINE d == call[r].dst
      <4>1. Busy(r) /\ d \in Path /\ d \in PathsOf(call[r]) /\ PathsOf(call[r]) \subseteq Path
        BY <3>2, BusyCall DEF Busy
      <4>2. /\ pc'[r] = "reply" /\ \A q \in Request \ {r} : pc'[q] = pc[q]
            /\ \A p \in Path \ {d} : objects'[p] = objects[p] /\ (p \in suspect' <=> p \in suspect)
            /\ d \in suspect' /\ UNCHANGED <<rows, call, buf>>
        BY <2>14, <3>2, <4>1 DEF R2Fails, Answer, Goto, TypeOK
      <4>3. \A p \in PathsOf(call[r]) : Sound(p)'
        BY <3>2, <4>1, <4>2 DEF StoresInv, StoresLocal, Sound, Matches, InR2
      <4>4. Busy(r)' /\ StoresLocal(r)'
        BY <4>2, <4>3 DEF Busy, StoresLocal
      <4> HIDE DEF d
      <4>5. QED BY <4>1, <4>2, <4>4, StoresFrame
    <3>3. QED BY <2>14, <3>1, <3>2 DEF R2Fails
  <2>15. ASSUME NEW r \in Request, R2DeleteFails(r) PROVE StoresInv'
    <3>1. PICK k \in Path, step \in Steps :
            Deletes(r, k, step) /\ Goto(r, step) /\ suspect' = suspect \cup {k}
      BY <2>15 DEF R2DeleteFails
    <3>2. Busy(r) /\ pc[r] \in {"drop", "rmobj"} /\ UNCHANGED <<rows, objects, call, buf>>
      BY <2>15, <3>1 DEF R2DeleteFails, Deletes, Busy
    <3>3. k \in PathsOf(call[r]) /\ PathsOf(call[r]) \subseteq Path
      BY <3>1, <3>2, BusyCall DEF Deletes
    <3>4. pc'[r] = step /\ \A q \in Request \ {r} : pc'[q] = pc[q]
      BY <3>1 DEF Goto, TypeOK
    <3>5. \A p \in PathsOf(call[r]) : Sound(p)'
      BY <3>1, <3>2 DEF Deletes, StoresInv, StoresLocal, Sound, Matches, InR2
    <3>6. Busy(r)' /\ StoresLocal(r)'
      BY <3>1, <3>2, <3>4, <3>5 DEF Deletes, Busy, StoresLocal
    <3>7. QED BY <3>1, <3>2, <3>3, <3>4, <3>6, StoresFrame
  <2>16. CASE Crash
    <3>1. /\ \A r \in Request : ~Busy(r)'
          /\ UNCHANGED <<rows, objects>>
          /\ suspect \subseteq suspect'
          /\ \A r \in Request : CutShort(r) \subseteq suspect'
      BY <2>16 DEF Crash, Busy
    <3>2. ASSUME NEW p \in Path, p \notin suspect' PROVE Matches(p)
      <4>1. CASE InFlight(p)
        <5>1. PICK r \in Request : Busy(r) /\ p \in PathsOf(call[r])
          BY <4>1 DEF InFlight
        <5>2. p \notin CutShort(r) /\ p \notin suspect
          BY <3>1, <3>2
        <5>3. QED BY <5>1, <5>2 DEF StoresInv, StoresLocal, Sound, CutShort
      <4>2. CASE ~InFlight(p)
        BY <3>1, <3>2, <4>2 DEF StoresInv, StoresAgreeAtRest, Settled, Matches
      <4>3. QED BY <4>1, <4>2
    <3>3. Exclusive' /\ \A r \in Request : Busy(r)' => StoresLocal(r)'
      BY <3>1 DEF Exclusive
    <3>4. ASSUME NEW p \in Path, Settled(p)' PROVE Matches(p)'
      <4>1. Matches(p)
        BY <3>2, <3>4 DEF Settled
      <4>2. QED BY <3>1, <4>1 DEF Matches, InR2
    <3>5. StoresAgreeAtRest'
      BY <3>4 DEF StoresAgreeAtRest, Matches, InR2
    <3>6. QED BY <3>3, <3>5 DEF StoresInv
  <2>17. CASE LateLands
    <3>1. PICK c \in late : /\ objects' = [objects EXCEPT ![c.path] = c.value]
                            /\ suspect' = suspect \cup {c.path}
                            /\ UNCHANGED <<rows, pc, call, buf>>
      BY <2>17 DEF LateLands, reqVars
    <3>2. /\ c.path \in suspect' /\ suspect \subseteq suspect'
          /\ \A p \in Path \ suspect' : objects'[p] = objects[p]
      BY <3>1 DEF TypeOK
    <3>3. ASSUME NEW q \in Request, Busy(q)' PROVE StoresLocal(q)'
      <4>1. Busy(q) /\ StoresLocal(q)
        BY <3>1, <3>3 DEF Busy, StoresInv
      <4>2. PathsOf(call[q]) \subseteq Path /\ call[q].src \in Path /\ call[q].dst \in Path
        BY <4>1, BusyCall
      <4>3. QED BY <3>1, <3>2, <4>1, <4>2 DEF StoresLocal, Sound, Matches, InR2
    <3>4. ASSUME NEW p \in Path, Settled(p)' PROVE Matches(p)'
      <4>1. Settled(p) /\ p \notin suspect'
        BY <3>1, <3>2, <3>4 DEF Settled, InFlight, Busy
      <4>2. QED BY <3>1, <3>2, <4>1 DEF StoresInv, StoresAgreeAtRest, Matches, InR2
    <3>5. Exclusive'
      BY <3>1 DEF StoresInv, Exclusive, Busy
    <3>6. StoresAgreeAtRest'
      BY <3>4 DEF StoresAgreeAtRest, Matches, InR2
    <3>7. QED BY <3>3, <3>5, <3>6 DEF StoresInv
  <2>18. CASE UNCHANGED vars
    <3>1. UNCHANGED <<rows, objects, pc, call, buf, suspect>>
      BY <2>18 DEF vars, reqVars, faultVars
    <3>2. QED BY <3>1 DEF StoresInv, Exclusive, StoresLocal, Sound, Matches, StoresAgreeAtRest,
                          Settled, InR2, InFlight, Busy
  <2>19. QED
    BY <2>1, <2>2, <2>3, <2>4, <2>5, <2>6, <2>7, <2>8, <2>9, <2>10, <2>11, <2>12, <2>13,
       <2>14, <2>15, <2>16, <2>17, <2>18 DEF Next, Serve, R2Step
<1>3. StoresInv => StoresAgreeAtRest
  BY DEF StoresInv
<1>4. QED BY <1>1, <1>2, <1>3, TypeCorrect, PTL DEF Spec

\* Every file can be read between requests, unless R2 has failed on its key or the object
\* was evicted while it worked on it: what write_file has acknowledged does not come back
\* empty.
THEOREM FilesReadable ==
  ASSUME Serialize
  PROVE  Spec => []ReadableAtRest
<1>1. TypeOK /\ StoresAgreeAtRest => ReadableAtRest
  <2> SUFFICES ASSUME TypeOK, StoresAgreeAtRest, NEW p \in Path, Settled(p)
               PROVE  View(p) # Broken
    BY DEF ReadableAtRest, Readable
  <2>1. CASE rows[p] = NoRow
    BY <2>1, StoreAssumption DEF View
  <2>2. CASE rows[p] # NoRow /\ rows[p].storage = "inline"
    <3>1. rows[p].content \in Content
      BY <2>2 DEF TypeOK, Row
    <3>2. QED BY <2>2, <3>1, StoreAssumption DEF View
  <2>3. CASE rows[p] # NoRow /\ rows[p].storage # "inline"
    <3>1. InR2(rows, p)
      BY <2>3 DEF InR2, TypeOK, Row
    <3>2. objects[p] # Absent /\ objects[p] \in Content
      BY <3>1 DEF StoresAgreeAtRest, TypeOK
    <3>3. QED BY <2>3, <3>2, StoreAssumption DEF View
  <2>4. QED BY <2>1, <2>2, <2>3
<1>2. QED BY <1>1, StoresAgree, TypeCorrect, PTL

----------------------------------------------------------------------------
(* The files are the map of FileStore: the invariant. *)

\* What c stores, given the files as they are.
ToStore(c) == Promise!Stored(c, [p \in Path |-> View(p)])

\* What a request has in its hands is what its caller is to find stored: the bytes it has
\* read are still those of its source when they are put, and those of its destination when
\* the row is set to them.
RefineLocal(r) ==
  /\ pc[r] \in {"get", "got"} => call[r].op \in {"read", "append", "cp", "mv"}
  /\ pc[r] = "get" => InR2(rows, call[r].src)
  /\ pc[r] = "got" /\ call[r].op # "read" => OrEmpty(buf[r]) = Promise!BytesOf(View(call[r].src))
  /\ pc[r] \in {"put", "stored", "drop", "dropped"} => Promise!Stores(call[r])
  /\ pc[r] = "put" => buf[r] = ToStore(call[r])
  /\ pc[r] = "stored" =>
       /\ objects[call[r].dst] = buf[r]
       /\ ~InR2(rows, call[r].dst) => buf[r] = ToStore(call[r])
  /\ pc[r] = "drop" => ~InR2(rows, call[r].dst)
  /\ pc[r] \in {"rmobj", "rmrow"} => Promise!Removes(call[r])

RefineInv ==
  /\ ~landed
  /\ Exclusive
  /\ \A r \in Request : pc[r] # "reply" => status[r] # "failed"
  /\ \A r \in Request : Busy(r) => RefineLocal(r)

----------------------------------------------------------------------------
(* Steps of FileStore, from what they change. *)

\* A step of r leaves the other requests where they are, for FileStore too.
Alone(r) ==
  \A q \in Request \ {r} : Phase(q)' = Phase(q) /\ Observed(q)' = Observed(q)

\* It leaves all files but p alone.
OnlyFile(p) == \A q \in Path \ {p} : View(q)' = View(q)

\* FileStore does not see a step that changes no phase, answer or file.
LEMMA UnseenStep ==
  ASSUME NEW r \in Request, Alone(r), UNCHANGED call,
         Phase(r)' = Phase(r), Observed(r)' = Observed(r),
         \A p \in Path : View(p)' = View(p)
  PROVE  UNCHANGED Promise!absVars
<1>1. [p \in Path |-> View(p)]' = [p \in Path |-> View(p)]
  OBVIOUS
<1>2. [q \in Request |-> Phase(q)]' = [q \in Request |-> Phase(q)]
  BY DEF Alone
<1>3. [q \in Request |-> Observed(q)]' = [q \in Request |-> Observed(q)]
  BY DEF Alone
<1>4. QED BY <1>1, <1>2, <1>3 DEF Promise!absVars

\* The three functions of FileStore after a step of r.
LEMMA FilesMove ==
  ASSUME NEW p \in Path, NEW v, View(p)' = v, OnlyFile(p)
  PROVE  [q \in Path |-> View(q)]' = [[q \in Path |-> View(q)] EXCEPT ![p] = v]
BY DEF OnlyFile

LEMMA PhaseMove ==
  ASSUME NEW r \in Request, NEW x, Phase(r)' = x, Alone(r)
  PROVE  [q \in Request |-> Phase(q)]' = [[q \in Request |-> Phase(q)] EXCEPT ![r] = x]
BY DEF Alone

LEMMA AnswerMove ==
  ASSUME NEW r \in Request, NEW v, Observed(r)' = v, Alone(r)
  PROVE  [q \in Request |-> Observed(q)]' = [[q \in Request |-> Observed(q)] EXCEPT ![r] = v]
BY DEF Alone

LEMMA SameFiles ==
  ASSUME \A p \in Path : View(p)' = View(p)
  PROVE  [p \in Path |-> View(p)]' = [p \in Path |-> View(p)]
OBVIOUS

LEMMA SameAnswers ==
  ASSUME NEW r \in Request, Observed(r)' = Observed(r), Alone(r)
  PROVE  [q \in Request |-> Observed(q)]' = [q \in Request |-> Observed(q)]
BY DEF Alone

LEMMA StoreStep ==
  ASSUME NEW r \in Request, Alone(r), UNCHANGED call, call[r].dst \in Path,
         Phase(r) = "open", Promise!Stores(call[r]),
         View(call[r].dst)' = ToStore(call[r]), OnlyFile(call[r].dst),
         Phase(r)' = AfterStorePhase(r), Observed(r)' = Observed(r)
  PROVE  Promise!Next
<1>1. [q \in Path |-> View(q)]'
        = [[q \in Path |-> View(q)] EXCEPT ![call[r].dst] = ToStore(call[r])]
  BY FilesMove
<1>2. [q \in Request |-> Phase(q)]'
        = [[q \in Request |-> Phase(q)] EXCEPT ![r] = AfterStorePhase(r)]
  BY PhaseMove
<1>3. [q \in Request |-> Observed(q)]' = [q \in Request |-> Observed(q)]
  BY SameAnswers
<1>4. AfterStorePhase(r) = IF Promise!Removes(call[r]) THEN "half" ELSE "done"
  BY DEF AfterStorePhase, Promise!Removes, Promise!Stores
<1>5. [q \in Request |-> Phase(q)][r] = "open"
  OBVIOUS
<1>6. Promise!Store(r)
  BY <1>1, <1>2, <1>3, <1>4, <1>5 DEF Promise!Store, Promise!AfterStore, ToStore
<1>7. QED BY <1>6 DEF Promise!Next

LEMMA ObserveStep ==
  ASSUME NEW r \in Request, Alone(r), UNCHANGED call, call[r].src \in Path,
         Phase(r) = "open", call[r].op = "read",
         \A p \in Path : View(p)' = View(p),
         Phase(r)' = "done", Observed(r)' = Promise!Seen(View(call[r].src))
  PROVE  Promise!Next
<1>1. [p \in Path |-> View(p)]' = [p \in Path |-> View(p)]
  BY SameFiles
<1>2. [q \in Request |-> Phase(q)]' = [[q \in Request |-> Phase(q)] EXCEPT ![r] = "done"]
  BY PhaseMove
<1>3. [q \in Request |-> Observed(q)]'
        = [[q \in Request |-> Observed(q)] EXCEPT ![r] = Promise!Seen(View(call[r].src))]
  BY AnswerMove
<1>4. Promise!Observe(r)
  BY <1>1, <1>2, <1>3 DEF Promise!Observe
<1>5. QED BY <1>4 DEF Promise!Next

LEMMA RemoveStep ==
  ASSUME NEW r \in Request, Alone(r), UNCHANGED call, call[r].src \in Path,
         Phase(r) = "half" \/ (Phase(r) = "open" /\ call[r].op = "delete"),
         View(call[r].src)' = Absent, OnlyFile(call[r].src),
         Phase(r)' = "done", Observed(r)' = Observed(r)
  PROVE  Promise!Next
<1>1. [q \in Path |-> View(q)]' = [[q \in Path |-> View(q)] EXCEPT ![call[r].src] = Absent]
  BY FilesMove
<1>2. [q \in Request |-> Phase(q)]' = [[q \in Request |-> Phase(q)] EXCEPT ![r] = "done"]
  BY PhaseMove
<1>3. [q \in Request |-> Observed(q)]' = [q \in Request |-> Observed(q)]
  BY SameAnswers
<1>4. Promise!Remove(r)
  BY <1>1, <1>2, <1>3 DEF Promise!Remove, Promise!Removing
<1>5. QED BY <1>4 DEF Promise!Next

LEMMA UnlinkStep ==
  ASSUME NEW r \in Request, Alone(r), UNCHANGED call, call[r].src \in Path,
         Phase(r) = "half" \/ (Phase(r) = "open" /\ call[r].op = "delete"),
         View(call[r].src) # Absent, View(call[r].src)' = Broken, OnlyFile(call[r].src),
         Phase(r)' = Phase(r), Observed(r)' = Observed(r)
  PROVE  Promise!Next
<1>1. [q \in Path |-> View(q)]' = [[q \in Path |-> View(q)] EXCEPT ![call[r].src] = Broken]
  BY FilesMove
<1>2. [q \in Request |-> Phase(q)]' = [q \in Request |-> Phase(q)]
  BY DEF Alone
<1>3. [q \in Request |-> Observed(q)]' = [q \in Request |-> Observed(q)]
  BY SameAnswers
<1>4. Promise!Unlink(r)
  BY <1>1, <1>2, <1>3 DEF Promise!Unlink, Promise!Removing
<1>5. QED BY <1>4 DEF Promise!Next

\* A mv that ends in the segment in which its store comes to show.
LEMMA RenameStep ==
  ASSUME NEW r \in Request, Alone(r), UNCHANGED call,
         call[r].src \in Path, call[r].dst \in Path,
         Phase(r) = "open", call[r].op = "mv",
         call[r].dst # call[r].src => View(call[r].dst)' = ToStore(call[r]),
         View(call[r].src)' = Absent,
         \A p \in Path \ PathsOf(call[r]) : View(p)' = View(p),
         Phase(r)' = "done", Observed(r)' = Observed(r)
  PROVE  Promise!Next
<1>1. [q \in Path |-> View(q)]'
        = [[[q \in Path |-> View(q)] EXCEPT ![call[r].dst] = ToStore(call[r])]
            EXCEPT ![call[r].src] = Absent]
  <2> DEFINE f == [[[q \in Path |-> View(q)] EXCEPT ![call[r].dst] = ToStore(call[r])]
                    EXCEPT ![call[r].src] = Absent]
  <2>1. ASSUME NEW q \in Path PROVE View(q)' = f[q]
    BY DEF PathsOf
  <2>2. QED BY <2>1
<1>2. [q \in Request |-> Phase(q)]' = [[q \in Request |-> Phase(q)] EXCEPT ![r] = "done"]
  BY PhaseMove
<1>3. [q \in Request |-> Observed(q)]' = [q \in Request |-> Observed(q)]
  BY SameAnswers
<1>4. Promise!Rename(r)
  BY <1>1, <1>2, <1>3 DEF Promise!Rename, Promise!AfterStore, Promise!Stores, Promise!Removes, ToStore
<1>5. QED BY <1>4 DEF Promise!Next

\* A call that fails has stored what it was to store, or nothing.
LEMMA FailStep ==
  ASSUME NEW r \in Request, Alone(r), UNCHANGED call,
         Phase(r) = "open",
         \/ \A p \in Path : View(p)' = View(p)
         \/ /\ Promise!Stores(call[r]) /\ call[r].dst \in Path
            /\ View(call[r].dst)' = ToStore(call[r]) /\ OnlyFile(call[r].dst),
         Phase(r)' = "failed", Observed(r)' = Observed(r)
  PROVE  Promise!Next
<1>1. [q \in Request |-> Phase(q)]' = [[q \in Request |-> Phase(q)] EXCEPT ![r] = "failed"]
  BY PhaseMove
<1>2. [q \in Request |-> Observed(q)]' = [q \in Request |-> Observed(q)]
  BY SameAnswers
<1>3. \/ [p \in Path |-> View(p)]' = [p \in Path |-> View(p)]
      \/ /\ Promise!Stores(call[r])
         /\ [q \in Path |-> View(q)]'
              = [[q \in Path |-> View(q)] EXCEPT ![call[r].dst] = ToStore(call[r])]
  BY SameFiles, FilesMove
<1>4. Promise!Fail(r)
  BY <1>1, <1>2, <1>3 DEF Promise!Fail, Promise!AfterStore, ToStore
<1>5. QED BY <1>4 DEF Promise!Next

----------------------------------------------------------------------------
(* What a step of one request leaves alone. *)

\* A step of r within its call.
Within(r) ==
  /\ Busy(r) /\ Busy(r)' /\ UNCHANGED <<call, landed>>
  /\ \A q \in Request \ {r} : pc'[q] = pc[q] /\ buf'[q] = buf[q] /\ status'[q] = status[q]
  /\ \A p \in Path \ PathsOf(call[r]) : rows'[p] = rows[p] /\ objects'[p] = objects[p]
  /\ pc'[r] # "reply" => status'[r] # "failed"

LEMMA ViewStays ==
  ASSUME NEW p \in Path, rows'[p] = rows[p], objects'[p] = objects[p]
  PROVE  View(p)' = View(p)
BY DEF View

LEMMA ToStoreStays ==
  ASSUME NEW c \in Call, View(c.src)' = View(c.src)
  PROVE  ToStore(c)' = ToStore(c)
<1>1. c.src \in Path
  BY CallData
<1>2. QED BY <1>1 DEF ToStore, Promise!Stored, Promise!BytesOf

\* The other requests have other paths.
LEMMA OthersStay ==
  ASSUME TypeOK, RefineInv, NEW r \in Request, Within(r), NEW q \in Request \ {r}, Busy(q)
  PROVE  /\ call[q] \in Call
         /\ \A p \in PathsOf(call[q]) :
              rows'[p] = rows[p] /\ objects'[p] = objects[p] /\ View(p)' = View(p)
         /\ call[q].src \in PathsOf(call[q]) /\ call[q].dst \in PathsOf(call[q])
<1>1. /\ call[q] \in Call /\ PathsOf(call[q]) \subseteq Path
      /\ call[q].src \in PathsOf(call[q]) /\ call[q].dst \in PathsOf(call[q])
  BY BusyCall
<1>2. PathsOf(call[q]) \cap PathsOf(call[r]) = {}
  BY DEF RefineInv, Exclusive, Within
<1>3. \A p \in PathsOf(call[q]) : rows'[p] = rows[p] /\ objects'[p] = objects[p]
  BY <1>1, <1>2 DEF Within
<1>4. QED BY <1>1, <1>3, ViewStays

LEMMA RefineFrame ==
  ASSUME TypeOK, RefineInv, NEW r \in Request, Within(r), RefineLocal(r)'
  PROVE  RefineInv'
<1>1. \A q \in Request : Busy(q)' <=> Busy(q)
  BY DEF Within, Busy
<1>2. Exclusive'
  BY <1>1 DEF RefineInv, Exclusive, Within
<1>3. ASSUME NEW q \in Request, Busy(q)' PROVE RefineLocal(q)'
  <2>1. CASE q = r
    BY <2>1
  <2>2. CASE q # r
    <3>1. Busy(q) /\ RefineLocal(q) /\ q \in Request \ {r}
      BY <1>1, <1>3, <2>2 DEF RefineInv
    <3>2. /\ call[q] \in Call
          /\ \A p \in PathsOf(call[q]) :
               rows'[p] = rows[p] /\ objects'[p] = objects[p] /\ View(p)' = View(p)
          /\ call[q].src \in PathsOf(call[q]) /\ call[q].dst \in PathsOf(call[q])
      BY <3>1, OthersStay
    <3>3. ToStore(call[q])' = ToStore(call[q])
      BY <3>2, ToStoreStays DEF Within
    <3>4. pc'[q] = pc[q] /\ buf'[q] = buf[q] /\ UNCHANGED call
      BY <3>1 DEF Within
    <3>5. View(call[q].src)' = View(call[q].src)
      BY <3>2, <3>4
    <3>6. InR2(rows, call[q].src)' = InR2(rows, call[q].src)
          /\ InR2(rows, call[q].dst)' = InR2(rows, call[q].dst)
      BY <3>2, <3>4 DEF InR2
    <3>7. objects'[call[q].dst] = objects[call[q].dst]
      BY <3>2
    <3>8. QED BY <3>1, <3>3, <3>4, <3>5, <3>6, <3>7
                DEF RefineLocal, Promise!Stores, Promise!Removes, Promise!BytesOf
  <2>3. QED BY <2>1, <2>2
<1>4. \A q \in Request : pc'[q] # "reply" => status'[q] # "failed"
  BY DEF RefineInv, Within
<1>5. ~landed'
  BY DEF RefineInv, Within
<1>6. QED BY <1>2, <1>3, <1>4, <1>5 DEF RefineInv

LEMMA AloneFrame ==
  ASSUME TypeOK, RefineInv, NEW r \in Request, Within(r)
  PROVE  Alone(r) /\ \A p \in Path \ PathsOf(call[r]) : View(p)' = View(p)
<1>1. ASSUME NEW q \in Request \ {r} PROVE Phase(q)' = Phase(q) /\ Observed(q)' = Observed(q)
  <2>1. pc'[q] = pc[q] /\ buf'[q] = buf[q] /\ status'[q] = status[q] /\ UNCHANGED call
    BY DEF Within
  <2>2. Observed(q)' = Observed(q)
    BY <2>1 DEF Observed
  <2>3. CASE ~Busy(q)
    BY <2>1, <2>2, <2>3 DEF Phase, Busy
  <2>4. CASE Busy(q)
    <3>1. InR2(rows, call[q].dst)' = InR2(rows, call[q].dst)
      BY <2>1, <2>4, OthersStay DEF InR2
    <3>2. QED BY <2>1, <2>2, <3>1 DEF Phase, AfterStorePhase
  <2>5. QED BY <2>3, <2>4
<1>2. \A p \in Path \ PathsOf(call[r]) : View(p)' = View(p)
  BY ViewStays DEF Within
<1>3. QED BY <1>1, <1>2 DEF Alone

----------------------------------------------------------------------------
(* Files and contents. *)

\* What p would show with the table t.
ViewIn(t, p) ==
  IF t[p] = NoRow THEN Absent
  ELSE IF t[p].storage = "inline" THEN t[p].content
  ELSE IF objects[p] = Absent THEN Broken ELSE objects[p]

\* What a read of p gives, by where its bytes are.
LEMMA Bytes ==
  ASSUME TypeOK, NEW p \in Path
  PROVE  /\ rows[p] = NoRow =>
              View(p) = Absent /\ Promise!BytesOf(View(p)) = <<>> /\ Promise!Seen(View(p)) = Absent
         /\ rows[p] # NoRow /\ ~InR2(rows, p) =>
              /\ rows[p].content \in Content /\ View(p) = rows[p].content
              /\ Promise!BytesOf(View(p)) = rows[p].content
              /\ Promise!Seen(View(p)) = rows[p].content
         /\ InR2(rows, p) =>
              /\ View(p) = IF objects[p] = Absent THEN Broken ELSE objects[p]
              /\ Promise!BytesOf(View(p)) = OrEmpty(objects[p])
              /\ Promise!Seen(View(p)) = objects[p]
<1>1. /\ Absent \notin Content /\ Broken \notin Content /\ Absent # Broken
      /\ objects[p] \in Content \cup {Absent}
      /\ rows[p] # NoRow => rows[p].content \in Content /\ rows[p].storage \in {"inline", "r2"}
  BY StoreAssumption DEF TypeOK, Row
<1>2. QED BY <1>1 DEF View, InR2, Promise!BytesOf, Promise!Seen, OrEmpty

LEMMA ToStoreIs ==
  ASSUME NEW c \in Call
  PROVE  /\ c.op = "write" => ToStore(c) = c.data
         /\ c.op = "append" => ToStore(c) = Promise!BytesOf(View(c.src)) \o c.data
         /\ c.op \in {"cp", "mv"} => ToStore(c) = Promise!BytesOf(View(c.src))
<1>1. c.src \in Path
  BY CallData
<1>2. QED BY <1>1 DEF ToStore, Promise!Stored

\* A content that is set as a row's, or that the row's object has, is what is read.
LEMMA InlineShows ==
  ASSUME NEW p \in Path, NEW c \in Content, rows'[p] = InlineRow(c)
  PROVE  View(p)' = c /\ ~InR2(rows', p)
<1>1. InlineRow(c) # NoRow /\ InlineRow(c).storage = "inline" /\ InlineRow(c).content = c
  BY RowsExist DEF InlineRow
<1>2. QED BY <1>1 DEF View, InR2

----------------------------------------------------------------------------
(* Segment by segment: the invariant is kept, and FileStore makes a step or none. *)

Kept == RefineInv' /\ (Promise!Next \/ UNCHANGED Promise!absVars)

\* write_inner up to its await, with the content it is to store.
LEMMA WriteInnerKept ==
  ASSUME TypeOK, RefineInv, NEW r \in Request, pc[r] \in {"start", "got"},
         Promise!Stores(call[r]), NEW c \in Content, c = ToStore(call[r]),
         WriteInner(r, c), UNCHANGED faultVars
  PROVE  Kept
<1>0. PICK d \in Path : d = call[r].dst
  BY BusyCall DEF Busy
<1>1. /\ Busy(r) /\ call[r] \in Call /\ d \in PathsOf(call[r])
      /\ PathsOf(call[r]) \subseteq Path /\ call[r].op # "read" /\ status[r] # "failed"
  BY <1>0, BusyCall DEF Busy, RefineInv, Promise!Stores
<1>2. /\ UNCHANGED <<objects, call, status, landed>> /\ buf'[r] = c
      /\ \A q \in Request \ {r} : pc'[q] = pc[q] /\ buf'[q] = buf[q]
      /\ pc'[r] \in {"put", "drop"}
      /\ \A p \in Path \ {d} : rows'[p] = rows[p]
      /\ pc'[r] = "put" => rows' = rows
      /\ pc'[r] = "drop" => rows'[d] = InlineRow(c)
  BY <1>0, <1>1 DEF WriteInner, Goto, TypeOK, faultVars
<1>3. Within(r)
  BY <1>1, <1>2 DEF Within, Busy
<1>4. Alone(r) /\ OnlyFile(d)
  BY <1>1, <1>2, <1>3, AloneFrame, ViewStays DEF OnlyFile
<1>5. Phase(r) = "open" /\ Observed(r) = Absent /\ Observed(r)' = Absent
  BY <1>1, <1>2 DEF Phase, Observed
<1>6. CASE pc'[r] = "put"
  <2>1. \A p \in Path : View(p)' = View(p)
    BY <1>2, <1>6, ViewStays
  <2>2. ToStore(call[r])' = ToStore(call[r])
    BY <1>1, <1>2, <2>1, ToStoreStays, CallData
  <2>3. RefineLocal(r)'
    BY <1>2, <1>6, <2>2 DEF RefineLocal, Promise!Stores
  <2>4. Phase(r)' = "open"
    BY <1>6 DEF Phase
  <2>5. UNCHANGED Promise!absVars
    BY <1>2, <1>4, <1>5, <2>1, <2>4, UnseenStep
  <2>6. QED BY <1>3, <2>3, <2>5, RefineFrame DEF Kept
<1>7. CASE pc'[r] = "drop"
  <2>1. View(d)' = c /\ ~InR2(rows', d)
    BY <1>1, <1>2, <1>7, InlineShows
  <2>2. RefineLocal(r)'
    BY <1>0, <1>2, <1>7, <2>1 DEF RefineLocal, Promise!Stores, InR2
  <2>3. Phase(r)' = AfterStorePhase(r)
    BY <1>2, <1>7 DEF Phase, AfterStorePhase
  <2>4. Promise!Next
    BY <1>0, <1>2, <1>4, <1>5, <2>1, <2>3, StoreStep
  <2>5. QED BY <1>3, <2>2, <2>4, RefineFrame DEF Kept
<1>8. QED BY <1>2, <1>6, <1>7

\* write_inner after its await, from a table t that shows what was to be stored: t's
\* row is the one that was set already, or it is set now.
LEMMA WrittenKept ==
  ASSUME TypeOK, RefineInv, NEW r \in Request, pc[r] \in {"stored", "dropped"},
         Promise!Stores(call[r]), NEW t \in [Path -> Row \cup {NoRow}],
         \A p \in Path \ {call[r].dst} : t[p] = rows[p],
         \/ Phase(r) = AfterStorePhase(r) /\ ViewIn(t, call[r].dst) = View(call[r].dst)
         \/ Phase(r) = "open" /\ ViewIn(t, call[r].dst) = ToStore(call[r]),
         Written(r, t), UNCHANGED faultVars
  PROVE  Kept
<1>0. PICK d \in Path, s \in Path : d = call[r].dst /\ s = call[r].src
  BY BusyCall DEF Busy
<1>1. /\ Busy(r) /\ call[r] \in Call /\ PathsOf(call[r]) = {s, d}
      /\ call[r].op # "read" /\ status[r] # "failed"
  BY <1>0, BusyCall DEF Busy, RefineInv, Promise!Stores, PathsOf
<1>2. /\ UNCHANGED <<objects, call, buf, landed>>
      /\ \A q \in Request \ {r} : pc'[q] = pc[q] /\ status'[q] = status[q]
      /\ \/ /\ call[r].op # "mv" /\ rows' = t
            /\ pc'[r] = "reply" /\ status'[r] = "ok"
         \/ /\ call[r].op = "mv" /\ rows' = t
            /\ pc'[r] = "rmobj" /\ status'[r] = status[r]
         \/ /\ call[r].op = "mv" /\ rows' = [t EXCEPT ![s] = NoRow]
            /\ pc'[r] = "reply" /\ status'[r] = "ok"
  BY <1>0 DEF Written, RmSingle, Answer, Goto, TypeOK, faultVars
<1>3. \A p \in Path \ {s, d} : rows'[p] = rows[p]
  BY <1>0, <1>2
<1>4. Within(r)
  BY <1>1, <1>2, <1>3 DEF Within, Busy
<1>5. Alone(r) /\ \A p \in Path \ {s, d} : View(p)' = View(p)
  BY <1>1, <1>4, AloneFrame
<1>6. Observed(r)' = Observed(r)
  BY <1>1, <1>2 DEF Observed
<1>7. /\ \A p \in Path \ {d} : ViewIn(t, p) = View(p)
      /\ \A p \in Path : rows'[p] = t[p] => View(p)' = ViewIn(t, p)
      /\ \A p \in Path : rows'[p] = NoRow => View(p)' = Absent
  BY <1>0, <1>2 DEF View, ViewIn
<1>8. RefineLocal(r)'
  BY <1>2 DEF RefineLocal, Promise!Removes
<1>9. CASE /\ rows' = t
           /\ IF call[r].op = "mv" THEN pc'[r] = "rmobj" ELSE pc'[r] = "reply" /\ status'[r] = "ok"
  <2>1. \A p \in Path : View(p)' = ViewIn(t, p)
    BY <1>7, <1>9
  <2>2. OnlyFile(d)
    BY <1>7, <2>1 DEF OnlyFile
  <2>3. Phase(r)' = AfterStorePhase(r)
    BY <1>2, <1>9 DEF Phase, AfterStorePhase
  <2>4. CASE Phase(r) = AfterStorePhase(r) /\ ViewIn(t, call[r].dst) = View(call[r].dst)
    <3>1. \A p \in Path : View(p)' = View(p)
      BY <1>0, <1>7, <2>1, <2>4
    <3>2. UNCHANGED Promise!absVars
      BY <1>2, <1>5, <1>6, <2>3, <2>4, <3>1, UnseenStep
    <3>3. QED BY <1>4, <1>8, <3>2, RefineFrame DEF Kept
  <2>5. CASE Phase(r) = "open" /\ ViewIn(t, call[r].dst) = ToStore(call[r])
    <3>1. Promise!Next
      BY <1>0, <1>2, <1>5, <1>6, <2>1, <2>2, <2>3, <2>5, StoreStep
    <3>2. QED BY <1>4, <1>8, <3>1, RefineFrame DEF Kept
  <2>6. QED BY <2>4, <2>5
<1>10. CASE call[r].op = "mv" /\ rows' = [t EXCEPT ![s] = NoRow] /\ pc'[r] = "reply" /\ status'[r] = "ok"
  <2>1. /\ View(s)' = Absent
        /\ \A p \in Path \ {s} : View(p)' = ViewIn(t, p)
    BY <1>7, <1>10
  <2>2. Phase(r)' = "done"
    BY <1>10 DEF Phase
  <2>3. CASE Phase(r) = AfterStorePhase(r) /\ ViewIn(t, call[r].dst) = View(call[r].dst)
    <3>1. OnlyFile(s)
      BY <1>0, <1>7, <2>1, <2>3 DEF OnlyFile
    <3>2. Phase(r) = "half"
      BY <1>10, <2>3 DEF AfterStorePhase
    <3>3. Promise!Next
      <4>1. /\ View(call[r].src)' = Absent /\ OnlyFile(call[r].src)
            /\ UNCHANGED call /\ Alone(r) /\ call[r].src \in Path
        BY <1>0, <1>2, <1>5, <2>1, <3>1
      <4>2. QED BY <1>6, <2>2, <3>2, <4>1, RemoveStep
    <3>4. QED BY <1>4, <1>8, <3>3, RefineFrame DEF Kept
  <2>4. CASE Phase(r) = "open" /\ ViewIn(t, call[r].dst) = ToStore(call[r])
    <3>1. Promise!Next
      BY <1>0, <1>1, <1>2, <1>5, <1>6, <1>10, <2>1, <2>2, <2>4, RenameStep
    <3>2. QED BY <1>4, <1>8, <3>1, RefineFrame DEF Kept
  <2>5. QED BY <2>3, <2>4
<1>11. QED BY <1>2, <1>9, <1>10

\* A step of r that changes no table, bucket or status, and its phase and answer neither.
LEMMA QuietKept ==
  ASSUME TypeOK, RefineInv, NEW r \in Request, Within(r), UNCHANGED <<rows, objects>>,
         RefineLocal(r)', Phase(r)' = Phase(r), Observed(r)' = Observed(r)
  PROVE  Kept
<1>1. Alone(r) /\ UNCHANGED call
  BY AloneFrame DEF Within
<1>2. \A p \in Path : View(p)' = View(p)
  BY ViewStays
<1>3. QED BY <1>1, <1>2, UnseenStep, RefineFrame DEF Kept

\* read_file_bytes has come to v: a read is seen in this segment, unless it had to go to R2.
LEMMA FetchedKept ==
  ASSUME TypeOK, RefineInv, NEW r \in Request, pc[r] \in {"start", "got"},
         NEW v \in Content \cup {Absent},
         call[r].op \in {"read", "append", "cp", "mv"},
         call[r].op = "read" =>
           IF pc[r] = "start" THEN v = Promise!Seen(View(call[r].src)) ELSE v = buf[r],
         call[r].op # "read" => OrEmpty(v) = Promise!BytesOf(View(call[r].src)),
         Fetched(r, v), UNCHANGED faultVars
  PROVE  Kept
<1>1. /\ Busy(r) /\ call[r] \in Call /\ call[r].src \in Path /\ status[r] # "failed"
      /\ call[r].data \in Content /\ OrEmpty(v) \in Content
  BY BusyCall, CallData, OrEmptyIsContent DEF Busy, RefineInv
<1>2. CASE call[r].op = "read"
  <2>1. /\ UNCHANGED <<rows, objects, call, landed>> /\ buf'[r] = v
        /\ pc'[r] = "reply" /\ status'[r] = "ok"
        /\ \A q \in Request \ {r} : pc'[q] = pc[q] /\ buf'[q] = buf[q] /\ status'[q] = status[q]
    BY <1>2 DEF Fetched, Answer, Goto, TypeOK, faultVars
  <2>2. Within(r)
    BY <1>1, <2>1 DEF Within, Busy
  <2>3. RefineLocal(r)'
    BY <2>1 DEF RefineLocal
  <2>4. Phase(r)' = "done" /\ Observed(r)' = v
    BY <1>2, <2>1 DEF Phase, Observed
  <2>5. CASE pc[r] = "got"
    <3>1. Phase(r) = "done" /\ Observed(r) = v
      BY <1>1, <1>2, <2>5 DEF Phase, Observed
    <3>2. QED BY <2>1, <2>2, <2>3, <2>4, <3>1, QuietKept
  <2>6. CASE pc[r] = "start"
    <3>1. Phase(r) = "open" /\ v = Promise!Seen(View(call[r].src))
      BY <1>2, <2>6 DEF Phase
    <3>2. Alone(r) /\ \A p \in Path : View(p)' = View(p)
      BY <2>1, <2>2, AloneFrame, ViewStays
    <3>3. Promise!Next
      BY <1>1, <1>2, <2>1, <2>4, <3>1, <3>2, ObserveStep
    <3>4. QED BY <2>2, <2>3, <3>3, RefineFrame DEF Kept
  <2>7. QED BY <2>5, <2>6
<1>3. CASE call[r].op = "append" /\ WriteInner(r, OrEmpty(v) \o call[r].data)
  <2>1. OrEmpty(v) \o call[r].data = ToStore(call[r])
    BY <1>1, <1>3, ToStoreIs
  <2>2. Promise!Stores(call[r])
    BY <1>3 DEF Promise!Stores
  <2>3. QED BY <1>1, <1>3, <2>1, <2>2, AppendIsContent, WriteInnerKept
<1>4. CASE call[r].op \in {"cp", "mv"} /\ WriteInner(r, OrEmpty(v))
  <2>1. OrEmpty(v) = ToStore(call[r])
    BY <1>1, <1>4, ToStoreIs
  <2>2. Promise!Stores(call[r])
    BY <1>4 DEF Promise!Stores
  <2>3. QED BY <1>1, <1>4, <2>1, <2>2, WriteInnerKept
<1>5. QED BY <1>2, <1>3, <1>4 DEF Fetched

\* The row goes, and the call answers.
LEMMA RemovedKept ==
  ASSUME TypeOK, RefineInv, NEW r \in Request, Busy(r), call[r].op # "read", pc[r] # "reply",
         Phase(r) = "half" \/ (Phase(r) = "open" /\ call[r].op = "delete"),
         rows'[call[r].src] = NoRow, \A p \in Path \ {call[r].src} : rows'[p] = rows[p],
         Answer(r, "ok"), UNCHANGED <<objects, call, buf, landed>>
  PROVE  Kept
<1>0. PICK s \in Path : s = call[r].src
  BY BusyCall
<1>1. s \in PathsOf(call[r]) /\ PathsOf(call[r]) \subseteq Path /\ status[r] # "failed"
  BY <1>0, BusyCall DEF RefineInv
<1>2. /\ pc'[r] = "reply" /\ status'[r] = "ok"
      /\ \A q \in Request \ {r} : pc'[q] = pc[q] /\ status'[q] = status[q]
  BY DEF Answer, Goto, TypeOK
<1>3. Within(r)
  BY <1>0, <1>1, <1>2 DEF Within, Busy
<1>4. Alone(r) /\ OnlyFile(s)
  BY <1>0, <1>3, AloneFrame, ViewStays DEF OnlyFile
<1>5. View(s)' = Absent
  BY <1>0 DEF View
<1>6. Phase(r)' = "done" /\ Observed(r)' = Observed(r)
  BY <1>2 DEF Phase, Observed
<1>7. RefineLocal(r)'
  BY <1>2 DEF RefineLocal
<1>8. View(call[r].src)' = Absent /\ OnlyFile(call[r].src) /\ call[r].src \in Path
  BY <1>0, <1>4, <1>5
<1>9. Promise!Next
  BY <1>4, <1>6, <1>8, RemoveStep
<1>10. QED BY <1>3, <1>7, <1>9, RefineFrame DEF Kept

\* The call fails before it has stored anything.
LEMMA FailedKept ==
  ASSUME TypeOK, RefineInv, NEW r \in Request, Phase(r) = "open", Busy(r), pc[r] # "reply",
         pc[r] # "got", Answer(r, "failed"), UNCHANGED <<rows, call, buf, landed>>,
         \/ UNCHANGED objects
         \/ /\ Promise!Stores(call[r]) /\ buf[r] = ToStore(call[r]) /\ buf[r] \in Content
            /\ objects' = [objects EXCEPT ![call[r].dst] = buf[r]]
  PROVE  Kept
<1>0. PICK d \in Path : d = call[r].dst
  BY BusyCall
<1>1. d \in PathsOf(call[r]) /\ PathsOf(call[r]) \subseteq Path /\ status[r] # "failed"
  BY <1>0, BusyCall DEF RefineInv
<1>2. /\ pc'[r] = "reply" /\ status'[r] = "failed"
      /\ \A q \in Request \ {r} : pc'[q] = pc[q] /\ status'[q] = status[q]
  BY DEF Answer, Goto, TypeOK
<1>3. \A p \in Path \ {d} : objects'[p] = objects[p]
  BY <1>0 DEF TypeOK
<1>4. Within(r)
  BY <1>1, <1>2, <1>3 DEF Within, Busy
<1>5. Alone(r) /\ OnlyFile(d)
  BY <1>3, <1>4, AloneFrame, ViewStays DEF OnlyFile
<1>6. Phase(r)' = "failed" /\ Observed(r)' = Observed(r)
  BY <1>2 DEF Phase, Observed
<1>7. RefineLocal(r)'
  BY <1>2 DEF RefineLocal
<1>8. CASE View(d)' = View(d)
  <2>1. \A p \in Path : View(p)' = View(p)
    BY <1>5, <1>8 DEF OnlyFile
  <2>2. Promise!Next
    BY <1>5, <1>6, <2>1, FailStep
  <2>3. QED BY <1>4, <1>7, <2>2, RefineFrame DEF Kept
<1>9. CASE View(d)' # View(d)
  <2>1. /\ Promise!Stores(call[r]) /\ buf[r] = ToStore(call[r]) /\ buf[r] \in Content
        /\ objects'[d] = buf[r]
    BY <1>0, <1>9, ViewStays DEF TypeOK
  <2>2. View(d)' = ToStore(call[r])
    BY <1>9, <2>1, StoreAssumption DEF View
  <2>3. Promise!Next
    BY <1>0, <1>5, <1>6, <2>1, <2>2, FailStep
  <2>4. QED BY <1>4, <1>7, <2>3, RefineFrame DEF Kept
<1>10. QED BY <1>8, <1>9

----------------------------------------------------------------------------
(* Action by action. *)

LEMMA ArriveKept ==
  ASSUME Serialize, TypeOK, RefineInv, NEW r \in Request, NEW c \in Call, Arrive(r, c)
  PROVE  Kept
<1>1. /\ pc[r] = "idle" /\ ~Busy(r) /\ Busy(r)' /\ call'[r] = c /\ pc'[r] = "start"
      /\ \A q \in Request \ {r} : pc'[q] = pc[q] /\ call'[q] = call[q]
      /\ UNCHANGED <<rows, objects, buf, status, landed>>
      /\ \A p \in PathsOf(c) : ~InFlight(p)
      /\ call' = [call EXCEPT ![r] = c]
  BY DEF Arrive, Goto, TypeOK, Busy, faultVars
<1>2. \A q \in Request \ {r} : Busy(q)' <=> Busy(q)
  BY <1>1 DEF Busy
<1>3. \A q \in Request \ {r} : Busy(q) => PathsOf(call[q]) \cap PathsOf(c) = {}
  BY <1>1 DEF InFlight
<1>4. Exclusive'
  BY <1>1, <1>2, <1>3 DEF RefineInv, Exclusive
<1>5. \A p \in Path : View(p)' = View(p)
  BY <1>1, ViewStays
<1>6. ASSUME NEW q \in Request, Busy(q)' PROVE RefineLocal(q)'
  <2>1. CASE q = r
    BY <1>1, <2>1 DEF RefineLocal
  <2>2. CASE q # r
    <3>1. Busy(q) /\ RefineLocal(q) /\ call[q] \in Call /\ call'[q] = call[q] /\ call[q].src \in Path
      BY <1>1, <1>2, <1>6, <2>2, BusyCall DEF RefineInv
    <3>2. ToStore(call[q])' = ToStore(call[q]) /\ View(call[q].src)' = View(call[q].src)
      <4>1. PICK k \in Call : k = call[q]
        BY <3>1
      <4>2. ToStore(k)' = ToStore(k) /\ View(k.src)' = View(k.src)
        BY <1>5, <3>1, <4>1, ToStoreStays
      <4>3. QED BY <3>1, <4>1, <4>2
    <3>3. InR2(rows, call[q].src)' = InR2(rows, call[q].src)
          /\ InR2(rows, call[q].dst)' = InR2(rows, call[q].dst)
      BY <1>1, <3>1 DEF InR2
    <3>4. QED BY <1>1, <2>2, <3>1, <3>2, <3>3
              DEF RefineLocal, Promise!Stores, Promise!Removes, Promise!BytesOf
  <2>3. QED BY <2>1, <2>2
<1>7. RefineInv'
  BY <1>1, <1>4, <1>6 DEF RefineInv
<1>8. Alone(r)
  <2> SUFFICES ASSUME NEW q \in Request \ {r}
               PROVE  Phase(q)' = Phase(q) /\ Observed(q)' = Observed(q)
    BY DEF Alone
  <2>1. pc'[q] = pc[q] /\ call'[q] = call[q] /\ UNCHANGED <<rows, buf, status>>
    BY <1>1
  <2>2. QED BY <2>1 DEF Phase, Observed, InR2, AfterStorePhase
<1>9. Phase(r) = "idle" /\ Phase(r)' = "open" /\ Observed(r)' = Absent
  BY <1>1 DEF Phase, Observed
<1>10. [p \in Path |-> View(p)]' = [p \in Path |-> View(p)]
  BY <1>5, SameFiles
<1>11. [q \in Request |-> Phase(q)]' = [[q \in Request |-> Phase(q)] EXCEPT ![r] = "open"]
  BY <1>8, <1>9, PhaseMove
<1>12. [q \in Request |-> Observed(q)]' = [[q \in Request |-> Observed(q)] EXCEPT ![r] = Absent]
  BY <1>8, <1>9, AnswerMove
<1>13. c \in Promise!Call
  BY DEF Call, Promise!Call
<1>14. Promise!Invoke(r)
  BY <1>1, <1>9, <1>10, <1>11, <1>12, <1>13 DEF Promise!Invoke
<1>15. QED BY <1>7, <1>14 DEF Kept, Promise!Next

LEMMA ReplyKept ==
  ASSUME TypeOK, RefineInv, NEW r \in Request, Reply(r)
  PROVE  Kept
<1>1. /\ Busy(r) /\ pc[r] = "reply" /\ pc'[r] = "idle" /\ status'[r] = "none"
      /\ \A q \in Request \ {r} :
           pc'[q] = pc[q] /\ call'[q] = call[q] /\ buf'[q] = buf[q] /\ status'[q] = status[q]
      /\ UNCHANGED <<rows, objects, landed>>
      /\ call' = [call EXCEPT ![r] = NoCall]
  BY DEF Reply, Goto, TypeOK, Busy, faultVars
<1>2. \A q \in Request : Busy(q)' <=> q # r /\ Busy(q)
  BY <1>1 DEF Busy
<1>3. Exclusive'
  BY <1>1, <1>2 DEF RefineInv, Exclusive
<1>4. \A p \in Path : View(p)' = View(p)
  BY <1>1, ViewStays
<1>5. ASSUME NEW q \in Request, Busy(q)' PROVE RefineLocal(q)'
  <2>1. /\ Busy(q) /\ q \in Request \ {r} /\ RefineLocal(q) /\ call[q] \in Call
        /\ call'[q] = call[q] /\ call[q].src \in Path
    BY <1>1, <1>2, <1>5, BusyCall DEF RefineInv
  <2>2. ToStore(call[q])' = ToStore(call[q]) /\ View(call[q].src)' = View(call[q].src)
    <3>1. PICK k \in Call : k = call[q]
      BY <2>1
    <3>2. ToStore(k)' = ToStore(k) /\ View(k.src)' = View(k.src)
      BY <1>4, <2>1, <3>1, ToStoreStays
    <3>3. QED BY <2>1, <3>1, <3>2
  <2>3. InR2(rows, call[q].src)' = InR2(rows, call[q].src)
        /\ InR2(rows, call[q].dst)' = InR2(rows, call[q].dst)
    BY <1>1, <2>1 DEF InR2
  <2>4. QED BY <1>1, <2>1, <2>2, <2>3
            DEF RefineLocal, Promise!Stores, Promise!Removes, Promise!BytesOf
<1>6. RefineInv'
  BY <1>1, <1>3, <1>5 DEF RefineInv
<1>7. Alone(r)
  <2> SUFFICES ASSUME NEW q \in Request \ {r}
               PROVE  Phase(q)' = Phase(q) /\ Observed(q)' = Observed(q)
    BY DEF Alone
  <2>1. /\ pc'[q] = pc[q] /\ call'[q] = call[q] /\ buf'[q] = buf[q] /\ status'[q] = status[q]
        /\ UNCHANGED rows
    BY <1>1
  <2>2. QED BY <2>1 DEF Phase, Observed, InR2, AfterStorePhase
<1>8. Phase(r) \in {"done", "failed"} /\ Phase(r)' = "idle" /\ Observed(r)' = Absent
  BY <1>1 DEF Phase, Observed
<1>9. [p \in Path |-> View(p)]' = [p \in Path |-> View(p)]
  BY <1>4, SameFiles
<1>10. [q \in Request |-> Phase(q)]' = [[q \in Request |-> Phase(q)] EXCEPT ![r] = "idle"]
  BY <1>7, <1>8, PhaseMove
<1>11. [q \in Request |-> Observed(q)]' = [[q \in Request |-> Observed(q)] EXCEPT ![r] = Absent]
  BY <1>7, <1>8, AnswerMove
<1>12. Promise!Return(r)
  BY <1>1, <1>8, <1>9, <1>10, <1>11 DEF Promise!Return
<1>13. Promise!Next
  BY <1>12 DEF Promise!Next
<1>14. QED BY <1>6, <1>13 DEF Kept

LEMMA CrashKept ==
  ASSUME TypeOK, RefineInv, Crash
  PROVE  Kept
<1>1. /\ UNCHANGED <<rows, objects, landed>>
      /\ call' = [r \in Request |-> NoCall]
      /\ \A r \in Request : pc'[r] = "idle" /\ status'[r] = "none"
  BY DEF Crash
<1>2. RefineInv'
  BY <1>1 DEF RefineInv, Exclusive, Busy
<1>3. [p \in Path |-> View(p)]' = [p \in Path |-> View(p)]
  BY <1>1, ViewStays, SameFiles
<1>4. \A r \in Request : Phase(r)' = "idle" /\ Observed(r)' = Absent
  BY <1>1 DEF Phase, Observed
<1>5. [r \in Request |-> Phase(r)]' = [r \in Request |-> "idle"]
  BY <1>4
<1>6. [r \in Request |-> Observed(r)]' = [r \in Request |-> Absent]
  BY <1>4
<1>7. Promise!Abort
  BY <1>1, <1>3, <1>5, <1>6 DEF Promise!Abort
<1>8. QED BY <1>2, <1>7 DEF Kept, Promise!Next

\* The code of a request, from one await to the next.
LEMMA ServeKept ==
  ASSUME TypeOK, RefineInv, NEW r \in Request, Serve(r)
  PROVE  Kept
<1>1. CASE BeginWrite(r)
  <2>1. pc[r] = "start" /\ call[r].op = "write" /\ call[r] \in Call
    BY <1>1, BusyCall DEF BeginWrite, Busy
  <2>2. call[r].data \in Content /\ call[r].data = ToStore(call[r]) /\ Promise!Stores(call[r])
    BY <2>1, CallData, ToStoreIs DEF Promise!Stores
  <2>3. QED BY <1>1, <2>1, <2>2, WriteInnerKept DEF BeginWrite
<1>2. CASE BeginMissing(r)
  <2>1. /\ Busy(r) /\ pc[r] = "start" /\ Answer(r, "failed")
        /\ UNCHANGED <<rows, objects, call, buf, landed>>
    BY <1>2 DEF BeginMissing, Busy, faultVars
  <2>2. Phase(r) = "open"
    BY <2>1 DEF Phase
  <2>3. QED BY <2>1, <2>2, FailedKept
<1>3. CASE BeginRead(r)
  <2>0. PICK p \in Path : p = call[r].src
    BY <1>3, BusyCall DEF BeginRead, Busy
  <2>1. /\ Busy(r) /\ pc[r] = "start" /\ call[r].op \in {"read", "append", "cp", "mv"}
        /\ status[r] # "failed" /\ UNCHANGED faultVars
    BY <1>3 DEF BeginRead, Busy, RefineInv
  <2>2. CASE rows[p] = NoRow /\ Fetched(r, Absent)
    <3>1. Absent = Promise!Seen(View(p)) /\ OrEmpty(Absent) = Promise!BytesOf(View(p))
      BY <2>2, Bytes DEF OrEmpty
    <3>2. QED BY <2>0, <2>1, <2>2, <3>1, FetchedKept
  <2>3. CASE rows[p] # NoRow /\ ~InR2(rows, p) /\ Fetched(r, rows[p].content)
    <3>1. rows[p].content \in Content /\ rows[p].content # Absent
      BY <2>3, Bytes, StoreAssumption
    <3>2. rows[p].content = Promise!Seen(View(p))
          /\ OrEmpty(rows[p].content) = Promise!BytesOf(View(p))
      BY <2>3, <3>1, Bytes DEF OrEmpty
    <3>3. QED BY <2>0, <2>1, <2>3, <3>1, <3>2, FetchedKept
  <2>4. CASE InR2(rows, p) /\ Goto(r, "get")
             /\ UNCHANGED <<rows, objects, mirror, call, buf, existed, status>>
    <3>1. pc'[r] = "get" /\ (\A q \in Request \ {r} : pc'[q] = pc[q]) /\ UNCHANGED landed
      BY <2>1, <2>4 DEF Goto, TypeOK, faultVars
    <3>2. Within(r)
      BY <2>1, <2>4, <3>1 DEF Within, Busy
    <3>3. RefineLocal(r)'
      BY <2>0, <2>1, <2>4, <3>1 DEF RefineLocal, InR2
    <3>4. Phase(r)' = Phase(r) /\ Observed(r)' = Observed(r)
      BY <2>1, <3>1 DEF Phase, Observed
    <3>5. QED BY <2>4, <3>2, <3>3, <3>4, QuietKept
  <2>5. QED BY <1>3, <2>0, <2>2, <2>3, <2>4 DEF BeginRead
<1>4. CASE BeginDelete(r)
  <2>0. PICK p \in Path : p = call[r].src
    BY <1>4, BusyCall DEF BeginDelete, Busy
  <2>1. /\ Busy(r) /\ pc[r] = "start" /\ call[r].op = "delete"
        /\ UNCHANGED <<objects, call, buf, landed>> /\ status[r] # "failed"
    BY <1>4 DEF BeginDelete, RmSingle, Busy, faultVars, RefineInv
  <2>2. Phase(r) = "open"
    BY <2>1 DEF Phase
  <2>3. CASE Answer(r, "ok")
    <3>1. rows'[p] = NoRow /\ \A q \in Path \ {p} : rows'[q] = rows[q]
      BY <1>4, <2>0, <2>1, <2>3 DEF BeginDelete, RmSingle, Answer, Goto, TypeOK
    <3>2. QED BY <2>0, <2>1, <2>2, <2>3, <3>1, RemovedKept
  <2>4. CASE Goto(r, "rmobj") /\ rows' = rows /\ UNCHANGED status
    <3>1. pc'[r] = "rmobj" /\ \A q \in Request \ {r} : pc'[q] = pc[q]
      BY <2>4 DEF Goto, TypeOK
    <3>2. Within(r)
      BY <2>1, <2>4, <3>1 DEF Within, Busy
    <3>3. RefineLocal(r)'
      BY <2>1, <3>1 DEF RefineLocal, Promise!Removes
    <3>4. Phase(r)' = Phase(r) /\ Observed(r)' = Observed(r)
      BY <2>1, <2>2, <3>1 DEF Phase, Observed
    <3>5. QED BY <2>1, <2>4, <3>2, <3>3, <3>4, QuietKept
  <2>5. QED BY <1>4, <2>3, <2>4 DEF BeginDelete, RmSingle
<1>5. CASE ResumeGet(r)
  <2>1. pc[r] = "got" /\ Busy(r) /\ RefineLocal(r) /\ buf[r] \in Content \cup {Absent}
    BY <1>5 DEF ResumeGet, Busy, RefineInv, TypeOK
  <2>2. /\ call[r].op \in {"read", "append", "cp", "mv"}
        /\ call[r].op # "read" => OrEmpty(buf[r]) = Promise!BytesOf(View(call[r].src))
    BY <2>1 DEF RefineLocal
  <2>3. QED BY <1>5, <2>1, <2>2, FetchedKept DEF ResumeGet
<1>6. CASE ResumePut(r)
  <2> DEFINE t == [rows EXCEPT ![call[r].dst] = SpilledRow(buf[r])]
  <2>1. pc[r] = "stored" /\ Busy(r) /\ RefineLocal(r) /\ buf[r] \in Content /\ Len(buf[r]) > SpillThreshold
    BY <1>6 DEF ResumePut, Busy, RefineInv, TypeOK
  <2>2. /\ call[r].dst \in Path /\ Promise!Stores(call[r]) /\ objects[call[r].dst] = buf[r]
        /\ ~InR2(rows, call[r].dst) => buf[r] = ToStore(call[r])
    BY <2>1, BusyCall DEF RefineLocal
  <2>3. /\ SpilledRow(buf[r]) \in Row /\ SpilledRow(buf[r]) # NoRow
        /\ SpilledRow(buf[r]).storage = "r2" /\ buf[r] # Absent
    BY <2>1, RowsAreRows, RowsExist, StoreAssumption DEF SpilledRow, Spills
  <2>4. /\ t \in [Path -> Row \cup {NoRow}] /\ t[call[r].dst] = SpilledRow(buf[r])
        /\ \A p \in Path \ {call[r].dst} : t[p] = rows[p]
    BY <2>2, <2>3 DEF TypeOK
  <2> HIDE DEF t
  <2>5. ViewIn(t, call[r].dst) = buf[r]
    BY <2>2, <2>3, <2>4 DEF ViewIn
  <2>6. CASE InR2(rows, call[r].dst)
    <3>1. Phase(r) = AfterStorePhase(r)
      BY <2>1, <2>6 DEF Phase
    <3>2. View(call[r].dst) = buf[r]
      BY <2>2, <2>3, <2>6, Bytes
    <3>3. Written(r, t) /\ UNCHANGED faultVars
      BY <1>6 DEF ResumePut, t
    <3>4. QED BY <2>1, <2>2, <2>4, <2>5, <3>1, <3>2, <3>3, WrittenKept
  <2>7. CASE ~InR2(rows, call[r].dst)
    <3>1. Phase(r) = "open"
      BY <2>1, <2>7 DEF Phase
    <3>2. Written(r, t) /\ UNCHANGED faultVars
      BY <1>6 DEF ResumePut, t
    <3>3. QED BY <2>1, <2>2, <2>4, <2>5, <2>7, <3>1, <3>2, WrittenKept
  <2>8. QED BY <2>6, <2>7
<1>7. CASE ResumeDrop(r)
  <2>1. /\ pc[r] = "dropped" /\ Busy(r) /\ RefineLocal(r)
        /\ Written(r, rows) /\ UNCHANGED faultVars
        /\ rows \in [Path -> Row \cup {NoRow}]
    BY <1>7 DEF ResumeDrop, Busy, RefineInv, TypeOK
  <2>2. Promise!Stores(call[r]) /\ Phase(r) = AfterStorePhase(r)
    BY <2>1 DEF RefineLocal, Phase
  <2>3. ViewIn(rows, call[r].dst) = View(call[r].dst)
    BY DEF ViewIn, View
  <2>4. QED BY <2>1, <2>2, <2>3, WrittenKept
<1>8. CASE ResumeRm(r)
  <2>1. /\ pc[r] = "rmrow" /\ Busy(r) /\ RefineLocal(r) /\ Answer(r, "ok")
        /\ UNCHANGED <<objects, call, buf, landed>> /\ call[r].src \in Path
    BY <1>8, BusyCall DEF ResumeRm, Busy, RefineInv, faultVars
  <2>2. rows'[call[r].src] = NoRow /\ \A p \in Path \ {call[r].src} : rows'[p] = rows[p]
    BY <1>8, <2>1 DEF ResumeRm, TypeOK
  <2>3. call[r].op \in {"delete", "mv"}
    BY <2>1 DEF RefineLocal, Promise!Removes
  <2>4. Phase(r) = IF call[r].op = "mv" THEN "half" ELSE "open"
    BY <2>1 DEF Phase
  <2>5. QED BY <2>1, <2>2, <2>3, <2>4, RemovedKept
<1>9. CASE Reply(r)
  BY <1>9, ReplyKept
<1>10. QED BY <1>1, <1>2, <1>3, <1>4, <1>5, <1>6, <1>7, <1>8, <1>9 DEF Serve

\* R2.
LEMMA R2Kept ==
  ASSUME TypeOK, RefineInv, NEW r \in Request, R2Step(r)
  PROVE  Kept
<1>1. CASE R2Get(r)
  <2>0. PICK p \in Path : p = call[r].src
    BY <1>1, BusyCall DEF R2Get, Busy
  <2>1. /\ Busy(r) /\ pc[r] = "get" /\ RefineLocal(r) /\ status[r] # "failed"
        /\ UNCHANGED <<rows, objects, call, status, landed>>
        /\ pc'[r] = "got" /\ buf'[r] = objects[p]
        /\ \A q \in Request \ {r} : pc'[q] = pc[q] /\ buf'[q] = buf[q]
    BY <1>1, <2>0 DEF R2Get, Busy, RefineInv, Goto, TypeOK, faultVars
  <2>2. Within(r)
    BY <2>1 DEF Within, Busy
  <2>3. /\ InR2(rows, p) /\ call[r].op \in {"read", "append", "cp", "mv"}
    BY <2>0, <2>1 DEF RefineLocal
  <2>4. Promise!Seen(View(p)) = objects[p] /\ Promise!BytesOf(View(p)) = OrEmpty(objects[p])
    BY <2>3, Bytes
  <2>5. \A q \in Path : View(q)' = View(q)
    BY <2>1, ViewStays
  <2>6. RefineLocal(r)'
    <3>1. OrEmpty(buf'[r]) = Promise!BytesOf(View(p)')
      BY <2>1, <2>4, <2>5
    <3>2. View(call[r].src)' = View(p)'
      BY <2>0, <2>1
    <3>3. QED BY <2>1, <2>3, <3>1, <3>2 DEF RefineLocal, Promise!BytesOf, OrEmpty
  <2>7. Phase(r) = "open" /\ Alone(r)
    BY <2>1, <2>2, AloneFrame DEF Phase
  <2>8. CASE call[r].op = "read"
    <3>1. Phase(r)' = "done" /\ Observed(r)' = objects[p]
      BY <2>1, <2>8 DEF Phase, Observed
    <3>2. Promise!Next
      BY <2>0, <2>1, <2>4, <2>5, <2>7, <2>8, <3>1, ObserveStep
    <3>3. QED BY <2>2, <2>6, <3>2, RefineFrame DEF Kept
  <2>9. CASE call[r].op # "read"
    <3>1. Phase(r)' = Phase(r) /\ Observed(r)' = Observed(r)
      BY <2>1, <2>9 DEF Phase, Observed
    <3>2. QED BY <2>1, <2>2, <2>6, <3>1, QuietKept
  <2>10. QED BY <2>8, <2>9
<1>2. CASE R2Put(r)
  <2>0. PICK d \in Path : d = call[r].dst
    BY <1>2, BusyCall DEF R2Put, Busy
  <2>1. /\ Busy(r) /\ pc[r] = "put" /\ RefineLocal(r) /\ status[r] # "failed"
        /\ UNCHANGED <<rows, call, buf, status, landed>>
        /\ pc'[r] = "stored" /\ objects'[d] = buf[r] /\ buf[r] \in Content
        /\ \A q \in Request \ {r} : pc'[q] = pc[q]
        /\ \A p \in Path \ {d} : objects'[p] = objects[p]
    BY <1>2, <2>0 DEF R2Put, Busy, RefineInv, Goto, TypeOK
  <2>2. Promise!Stores(call[r]) /\ buf[r] = ToStore(call[r]) /\ call[r].op # "read"
    BY <2>1 DEF RefineLocal, Promise!Stores
  <2>3. d \in PathsOf(call[r]) /\ call[r] \in Call
    BY <2>0, <2>1, BusyCall
  <2>4. Within(r)
    BY <2>1, <2>3 DEF Within, Busy
  <2>5. Alone(r) /\ OnlyFile(d)
    BY <2>1, <2>4, AloneFrame, ViewStays DEF OnlyFile
  <2>6. Phase(r) = "open" /\ Observed(r)' = Observed(r)
    BY <2>1, <2>2 DEF Phase, Observed
  <2>7. CASE InR2(rows, d)
    <3>1. View(d)' = buf[r]
      BY <2>1, <2>7, StoreAssumption DEF View, InR2
    <3>2. Phase(r)' = AfterStorePhase(r)
      BY <2>0, <2>1, <2>7 DEF Phase, InR2, AfterStorePhase
    <3>3. RefineLocal(r)'
      BY <2>0, <2>1, <2>2, <2>7 DEF RefineLocal, InR2, Promise!Stores
    <3>4. Promise!Next
      BY <2>0, <2>1, <2>2, <2>5, <2>6, <3>1, <3>2, StoreStep
    <3>5. QED BY <2>4, <3>3, <3>4, RefineFrame DEF Kept
  <2>8. CASE ~InR2(rows, d)
    <3>1. View(d)' = View(d)
      BY <2>1, <2>8 DEF View, InR2, TypeOK, Row
    <3>2. \A p \in Path : View(p)' = View(p)
      BY <2>5, <3>1 DEF OnlyFile
    <3>3. Phase(r)' = "open"
      BY <2>0, <2>1, <2>8 DEF Phase, InR2
    <3>4. ToStore(call[r])' = ToStore(call[r])
      <4>1. PICK c \in Call : c = call[r]
        BY <2>3
      <4>2. ToStore(c)' = ToStore(c)
        BY <3>2, <4>1, CallData, ToStoreStays
      <4>3. QED BY <2>1, <4>1, <4>2
    <3>5. RefineLocal(r)'
      BY <2>0, <2>1, <2>2, <3>4 DEF RefineLocal, Promise!Stores
    <3>6. UNCHANGED Promise!absVars
      BY <2>1, <2>5, <2>6, <3>2, <3>3, UnseenStep
    <3>7. QED BY <2>4, <3>5, <3>6, RefineFrame DEF Kept
  <2>9. QED BY <2>7, <2>8
<1>3. CASE R2Delete(r)
  <2>0. PICK p \in Path, step \in Steps :
          /\ Deletes(r, p, step) /\ Goto(r, step) /\ objects' = [objects EXCEPT ![p] = Absent]
          /\ UNCHANGED <<rows, call, buf, status, landed>>
    BY <1>3 DEF R2Delete
  <2>1. /\ Busy(r) /\ RefineLocal(r) /\ status[r] # "failed" /\ p \in PathsOf(call[r])
        /\ pc'[r] = step /\ objects'[p] = Absent
        /\ \A q \in Request \ {r} : pc'[q] = pc[q]
        /\ \A q \in Path \ {p} : objects'[q] = objects[q]
        /\ \/ pc[r] = "drop" /\ p = call[r].dst /\ step = "dropped"
           \/ pc[r] = "rmobj" /\ p = call[r].src /\ step = "rmrow"
    BY <2>0 DEF Deletes, Busy, RefineInv, Goto, TypeOK, PathsOf
  <2>2. Within(r)
    BY <2>0, <2>1 DEF Within, Busy
  <2>3. Alone(r) /\ OnlyFile(p)
    BY <2>0, <2>1, <2>2, AloneFrame, ViewStays DEF OnlyFile
  <2>4. RefineLocal(r)'
    BY <2>0, <2>1 DEF RefineLocal, Promise!Stores, Promise!Removes
  <2>5. Phase(r)' = Phase(r) /\ Observed(r)' = Observed(r)
    BY <2>0, <2>1 DEF Phase, Observed, AfterStorePhase
  <2>6. CASE ~InR2(rows, p)
    <3>1. View(p)' = View(p)
      BY <2>0, <2>6 DEF View, InR2, TypeOK, Row
    <3>2. \A q \in Path : View(q)' = View(q)
      BY <2>3, <3>1 DEF OnlyFile
    <3>3. UNCHANGED Promise!absVars
      BY <2>0, <2>3, <2>5, <3>2, UnseenStep
    <3>4. QED BY <2>2, <2>4, <3>3, RefineFrame DEF Kept
  <2>7. CASE InR2(rows, p)
    <3>1. pc[r] = "rmobj" /\ p = call[r].src /\ call[r].op \in {"delete", "mv"}
      BY <2>1, <2>7 DEF RefineLocal, Promise!Removes
    <3>2. Phase(r) = IF call[r].op = "mv" THEN "half" ELSE "open"
      BY <3>1 DEF Phase
    <3>3. View(p) # Absent /\ View(p)' = Broken
      BY <2>0, <2>1, <2>7, StoreAssumption DEF View, InR2
    <3>4. Promise!Next
      BY <2>0, <2>3, <2>5, <3>1, <3>2, <3>3, UnlinkStep
    <3>5. QED BY <2>2, <2>4, <3>4, RefineFrame DEF Kept
  <2>8. QED BY <2>6, <2>7
<1>4. CASE R2Fails(r)
  <2>1. /\ Busy(r) /\ RefineLocal(r) /\ pc[r] \in {"get", "put"} /\ Answer(r, "failed")
        /\ UNCHANGED <<rows, call, buf, landed>>
        /\ \/ UNCHANGED objects
           \/ pc[r] = "put" /\ objects' = [objects EXCEPT ![call[r].dst] = buf[r]]
    BY <1>4 DEF R2Fails, Busy, RefineInv
  <2>2. pc[r] = "put" => Promise!Stores(call[r]) /\ buf[r] = ToStore(call[r]) /\ buf[r] \in Content
    BY <2>1 DEF RefineLocal, TypeOK
  <2>3. Phase(r) = "open"
    BY <2>1 DEF Phase
  <2>4. QED BY <2>1, <2>2, <2>3, FailedKept
<1>5. CASE R2DeleteFails(r)
  <2>0. PICK p \in Path, step \in Steps : Deletes(r, p, step) /\ Goto(r, step)
    BY <1>5 DEF R2DeleteFails
  <2>1. /\ Busy(r) /\ RefineLocal(r) /\ status[r] # "failed" /\ pc'[r] = step
        /\ UNCHANGED <<rows, objects, call, buf, status, landed>>
        /\ \A q \in Request \ {r} : pc'[q] = pc[q]
        /\ \/ pc[r] = "drop" /\ step = "dropped"
           \/ pc[r] = "rmobj" /\ step = "rmrow"
    BY <1>5, <2>0 DEF R2DeleteFails, Deletes, Busy, RefineInv, Goto, TypeOK
  <2>2. Within(r)
    BY <2>1 DEF Within, Busy
  <2>3. RefineLocal(r)'
    BY <2>1 DEF RefineLocal, Promise!Stores, Promise!Removes
  <2>4. Phase(r)' = Phase(r) /\ Observed(r)' = Observed(r)
    BY <2>1 DEF Phase, Observed, AfterStorePhase
  <2>5. QED BY <2>1, <2>2, <2>3, <2>4, QuietKept
<1>6. QED BY <1>1, <1>2, <1>3, <1>4, <1>5 DEF R2Step

\* Nothing is promised any more once an R2 call has landed late, and that stays so.
Faithful == landed \/ RefineInv

LEMMA LandedStays ==
  ASSUME TypeOK, landed, [Next]_vars
  PROVE  landed'
<1>1. ASSUME NEW r \in Request, NEW c \in Call, Arrive(r, c) PROVE landed'
  BY <1>1 DEF Arrive, faultVars
<1>2. ASSUME NEW r \in Request, Serve(r) PROVE landed'
  BY <1>2 DEF Serve, BeginWrite, BeginMissing, BeginRead, BeginDelete, ResumeGet, ResumePut,
              ResumeDrop, ResumeRm, Reply, faultVars
<1>3. ASSUME NEW r \in Request, R2Step(r) PROVE landed'
  BY <1>3 DEF R2Step, R2Get, R2Put, R2Delete, R2Fails, R2DeleteFails, faultVars
<1>4. CASE Crash
  BY <1>4 DEF Crash
<1>5. CASE LateLands
  BY <1>5 DEF LateLands
<1>6. CASE UNCHANGED vars
  BY <1>6 DEF vars, faultVars
<1>7. QED BY <1>1, <1>2, <1>3, <1>4, <1>5, <1>6 DEF Next

\* Rows and objects, with every await between them, are the file map of FileStore, through
\* every failure and every eviction, until an R2 call lands whose caller was evicted: a call
\* takes effect at one instant between its arrival and its answer (mv at two), a failed or
\* cut-off one at most so, and what an interrupted call leaves behind in R2 never comes back.
THEOREM ImplementsFileStore ==
  ASSUME Serialize
  PROVE  Spec => PromiseKept
<1>1. Init => Faithful
  BY DEF Init, Faithful, RefineInv, Exclusive, Busy
<1>2. Init => Promise!Init
  <2> SUFFICES ASSUME Init PROVE Promise!Init
    OBVIOUS
  <2>1. \A p \in Path : View(p) = Absent
    BY DEF Init, View
  <2>2. \A r \in Request : Phase(r) = "idle" /\ Observed(r) = Absent
    BY DEF Init, Phase, Observed
  <2>3. QED BY <2>1, <2>2 DEF Init, Promise!Init
<1>3. ASSUME TypeOK, RefineInv, [Next]_vars PROVE Kept \/ landed'
  <2>1. ASSUME NEW r \in Request, NEW c \in Call, Arrive(r, c) PROVE Kept
    BY <1>3, <2>1, ArriveKept
  <2>2. ASSUME NEW r \in Request, Serve(r) PROVE Kept
    BY <1>3, <2>2, ServeKept
  <2>3. ASSUME NEW r \in Request, R2Step(r) PROVE Kept
    BY <1>3, <2>3, R2Kept
  <2>4. CASE Crash
    BY <1>3, <2>4, CrashKept
  <2>5. CASE LateLands
    BY <2>5 DEF LateLands
  <2>6. CASE UNCHANGED vars
    <3>1. RefineInv'
      <4>1. UNCHANGED <<rows, objects, landed, pc, call, buf, status>>
        BY <2>6 DEF vars, reqVars, faultVars
      <4>2. (Exclusive <=> Exclusive') /\ \A r \in Request : Busy(r)' <=> Busy(r)
        BY <4>1 DEF Exclusive, Busy
      <4>3. \A r \in Request : RefineLocal(r)' <=> RefineLocal(r)
        BY <4>1 DEF RefineLocal, ToStore, View, InR2
      <4>4. QED BY <1>3, <4>1, <4>2, <4>3 DEF RefineInv
    <3>2. UNCHANGED Promise!absVars
      BY <2>6 DEF vars, reqVars, Promise!absVars, View, Phase, Observed, InR2, AfterStorePhase
    <3>3. QED BY <3>1, <3>2 DEF Kept
  <2>7. QED BY <1>3, <2>1, <2>2, <2>3, <2>4, <2>5, <2>6 DEF Next
<1>4. TypeOK /\ Faithful /\ [Next]_vars
        => Faithful' /\ [landed' \/ Promise!Next]_(Promise!absVars)
  <2> SUFFICES ASSUME TypeOK, Faithful, [Next]_vars
               PROVE  Faithful' /\ [landed' \/ Promise!Next]_(Promise!absVars)
    OBVIOUS
  <2>1. CASE landed
    BY <2>1, LandedStays DEF Faithful
  <2>2. CASE RefineInv
    BY <1>3, <2>2 DEF Faithful, Kept
  <2>3. QED BY <2>1, <2>2 DEF Faithful
<1>5. QED BY <1>1, <1>2, <1>4, TypeCorrect, PTL DEF Spec, PromiseKept
=============================================================================
