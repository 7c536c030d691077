----------------------------- MODULE FileStore -----------------------------
(***************************************************************************)
(* What a Workspace promises its callers about the files of one            *)
(* namespace: a map from paths to contents, and calls that are open for a  *)
(* while, take effect at one instant in between, and then answer.          *)
(*                                                                         *)
(* The promise is weaker than a transaction in three places, each of them  *)
(* visible to callers of crates/cloudflare-shell-workspace:                *)
(*   - a call that fails or is cut off may or may not have taken effect;   *)
(*   - a removal passes through Broken (listed, but without its bytes) and *)
(*     stays there when it is cut off;                                     *)
(*   - mv may be seen half done: copied, and the source not yet removed.   *)
(***************************************************************************)
EXTENDS Sequences

CONSTANTS Request,  \* the calls that can be in progress at the same time
          Path,     \* the file paths
          Payload,  \* the contents that callers pass in
          Absent,   \* no file
          NoCall,   \* the call of an idle request
          Broken    \* the path is listed, its bytes are gone

VARIABLES files,    \* path -> content, Absent or Broken
          phase,    \* request -> idle | open | half | done | failed
          call,     \* request -> the call in progress
          answer    \* request -> what a read has seen

absVars == <<files, phase, call, answer>>

\* The calls. A removal and a read name their path in `src`, a write in `dst`.
Call ==
  [op : {"write", "append"}, src : Path, dst : Path, data : Payload]
    \cup [op : {"read", "delete", "cp", "mv"}, src : Path, dst : Path, data : {<<>>}]

\* Reading what is not there, or is broken, gives the empty content to append and cp.
BytesOf(f) == IF f \in {Absent, Broken} THEN <<>> ELSE f

\* What a read reports.
Seen(f) == IF f = Broken THEN Absent ELSE f

\* What c stores under c.dst, given the files fs.
Stored(c, fs) ==
  CASE c.op = "write"  -> c.data
    [] c.op = "append" -> BytesOf(fs[c.src]) \o c.data
    [] OTHER           -> BytesOf(fs[c.src])

Stores(c) == c.op \in {"write", "append", "cp", "mv"}
Removes(c) == c.op \in {"delete", "mv"}

AfterStore(c) == [files EXCEPT ![c.dst] = Stored(c, files)]

----------------------------------------------------------------------------
Init ==
  /\ files = [p \in Path |-> Absent]
  /\ phase = [r \in Request |-> "idle"]
  /\ call = [r \in Request |-> NoCall]
  /\ answer = [r \in Request |-> Absent]

Invoke(r) ==
  /\ phase[r] = "idle"
  /\ phase' = [phase EXCEPT ![r] = "open"]
  /\ \E c \in Call : call' = [call EXCEPT ![r] = c]
  /\ answer' = [answer EXCEPT ![r] = Absent]
  /\ UNCHANGED files

\* A read sees the file as it is.
Observe(r) ==
  /\ phase[r] = "open" /\ call[r].op = "read"
  /\ phase' = [phase EXCEPT ![r] = "done"]
  /\ answer' = [answer EXCEPT ![r] = Seen(files[call[r].src])]
  /\ UNCHANGED <<files, call>>

\* A store takes effect; a mv still has its source to remove.
Store(r) ==
  /\ phase[r] = "open" /\ Stores(call[r])
  /\ files' = AfterStore(call[r])
  /\ phase' = [phase EXCEPT ![r] = IF Removes(call[r]) THEN "half" ELSE "done"]
  /\ UNCHANGED <<call, answer>>

Removing(r) ==
  \/ phase[r] = "half"
  \/ phase[r] = "open" /\ call[r].op = "delete"

\* A removal has dropped the bytes but not yet the listing.
Unlink(r) ==
  /\ Removing(r)
  /\ files[call[r].src] # Absent
  /\ files' = [files EXCEPT ![call[r].src] = Broken]
  /\ UNCHANGED <<phase, call, answer>>

Remove(r) ==
  /\ Removing(r)
  /\ files' = [files EXCEPT ![call[r].src] = Absent]
  /\ phase' = [phase EXCEPT ![r] = "done"]
  /\ UNCHANGED <<call, answer>>

\* A mv that is seen as one step.
Rename(r) ==
  /\ phase[r] = "open" /\ Stores(call[r]) /\ Removes(call[r])
  /\ files' = [AfterStore(call[r]) EXCEPT ![call[r].src] = Absent]
  /\ phase' = [phase EXCEPT ![r] = "done"]
  /\ UNCHANGED <<call, answer>>

\* A call fails: what it would have stored is there or is not.
Fail(r) ==
  /\ phase[r] = "open"
  /\ files' \in {files} \cup (IF Stores(call[r]) THEN {AfterStore(call[r])} ELSE {})
  /\ phase' = [phase EXCEPT ![r] = "failed"]
  /\ UNCHANGED <<call, answer>>

Return(r) ==
  /\ phase[r] \in {"done", "failed"}
  /\ phase' = [phase EXCEPT ![r] = "idle"]
  /\ call' = [call EXCEPT ![r] = NoCall]
  /\ answer' = [answer EXCEPT ![r] = Absent]
  /\ UNCHANGED files

\* The object that serves the calls is lost: nobody is answered.
Abort ==
  /\ phase' = [r \in Request |-> "idle"]
  /\ call' = [r \in Request |-> NoCall]
  /\ answer' = [r \in Request |-> Absent]
  /\ UNCHANGED files

Next ==
  \/ \E r \in Request :
       \/ Invoke(r) \/ Observe(r) \/ Store(r) \/ Unlink(r)
       \/ Remove(r) \/ Rename(r) \/ Fail(r) \/ Return(r)
  \/ Abort

Spec == Init /\ [][Next]_absVars
============================================================================
