--------------------------- MODULE CedarAuthorize ---------------------------
(***************************************************************************)
(* The `cedar authorize` command of crates/nu_plugin_cedar/src/main.rs.    *)
(* Nushell runs each call on a thread of the plugin process. The calls     *)
(* share two caches, of parsed schemas and of parsed policy sets, each     *)
(* behind its mutex and keyed by a hash of the text; a text is parsed with *)
(* the mutex held. What the cedar-policy library parses and accepts is a   *)
(* constant here, and a decision stands for what it was computed from.     *)
(***************************************************************************)
EXTENDS Naturals

CONSTANTS
  Thread,    \* the calls that can be in progress at the same time
  Text,      \* schema and policy texts
  Hash,      \* the key of a text: DefaultHasher's 64 bits
  Parses,    \* the pairs <<kind, text>> of texts that parse as a schema or as policies
  Data,      \* entities and context of a request
  Asked,     \* the records that callers give
  Accepts,   \* the pairs <<schema, data>> of which a request can be built
  NotText,   \* a field that is missing or holds no string
  Empty,     \* no such entry in a cache
  Free       \* the owner of a mutex that nobody holds

Kind == {"schema", "policies"}
Key == {Hash[t] : t \in Text}

\* A record: whether principal, action and resource are there and are UIDs; its policies
\* and schema; and the rest.
Record == [uids : BOOLEAN, policies : Text \cup {NotText}, schema : Text \cup {NotText},
           data : Data]

ASSUME CedarAssumption ==
  /\ Hash \in [Text -> Key] /\ Asked \subseteq Record
  /\ NotText \notin Text /\ Empty \notin Text /\ Free \notin Thread

VARIABLES
  cache,   \* of each kind: key -> the text whose parse is cached
  lock,    \* of each kind: the thread that holds the mutex
  pc,      \* where each call is
  stage,   \* and how far it is with the cache it is at
  input,   \* its record
  got,     \* the schema and the policies it has got hold of
  answer,  \* its answer
  parsed   \* history: of each kind, how often a text was parsed with success (2: or more)

vars == <<cache, lock, pc, stage, input, got, answer, parsed>>

Nothing == [schema |-> NotText, policies |-> NotText]

\* A label_err, by the step it comes from; a decision, by what it was made of.
Error(step) == [error |-> step]
Decision(schema, policies, data) ==
  [error |-> "none", schema |-> schema, policies |-> policies, data |-> data]
NoAnswer == [error |-> "pending"]

Answers ==
  {NoAnswer} \cup {Error(step) : step \in {"fields", "schema", "policies", "request"}}
    \cup [error : {"none"}, schema : Text \cup {NotText},
             policies : Text \cup {NotText}, data : Data]

Steps == {"idle", "schema", "policies", "evaluate", "answered"}
Stages == {"wait", "look", "parse"}

Init ==
  /\ cache = [k \in Kind |-> [h \in Key |-> Empty]]
  /\ lock = [k \in Kind |-> Free]
  /\ pc = [c \in Thread |-> "idle"]
  /\ stage = [c \in Thread |-> "wait"]
  /\ input = [c \in Thread |-> NotText]
  /\ got = [c \in Thread |-> Nothing]
  /\ answer = [c \in Thread |-> NoAnswer]
  /\ parsed = [k \in Kind |-> [t \in Text |-> 0]]

At(c, step, s) == pc[c] = step /\ stage[c] = s
Goto(c, step, s) == pc' = [pc EXCEPT ![c] = step] /\ stage' = [stage EXCEPT ![c] = s]

Answer(c, a) == answer' = [answer EXCEPT ![c] = a] /\ Goto(c, "answered", "wait")

----------------------------------------------------------------------------
(* A call. *)

\* run: the required fields and the UIDs are checked. A schema that is no string is none.
Arrive(c, rec) ==
  /\ At(c, "idle", "wait")
  /\ input' = [input EXCEPT ![c] = rec]
  /\ \/ ~(rec.uids /\ rec.policies \in Text) /\ Answer(c, Error("fields"))
     \/ /\ rec.uids /\ rec.policies \in Text /\ UNCHANGED answer
        /\ Goto(c, IF rec.schema \in Text THEN "schema" ELSE "policies", "wait")
  /\ UNCHANGED <<cache, lock, got, parsed>>

\* The text of kind k that c is about.
Source(c, k) == IF k = "schema" THEN input[c].schema ELSE input[c].policies

After(k) == IF k = "schema" THEN "policies" ELSE "evaluate"

\* get_or_parse_schema and get_or_parse_policies: lock().
Lock(c, k) ==
  /\ At(c, k, "wait") /\ lock[k] = Free
  /\ lock' = [lock EXCEPT ![k] = c]
  /\ Goto(c, k, "look")
  /\ UNCHANGED <<cache, input, got, answer, parsed>>

Unlock(k) == lock' = [lock EXCEPT ![k] = Free]

\* Mutant of KeyOf: one entry for all texts.
KeyOfAll(t) == CHOOSE h \in Key : TRUE

KeyOf(t) == Hash[t]

\* Mutant of Look: the guard is dropped before the text is parsed.
LookUnlocks(c, k) ==
  LET found == cache[k][KeyOf(Source(c, k))] IN
  /\ At(c, k, "look") /\ Unlock(k)
  /\ \/ found # Empty /\ got' = [got EXCEPT ![c][k] = found] /\ Goto(c, After(k), "wait")
     \/ found = Empty /\ UNCHANGED got /\ Goto(c, k, "parse")
  /\ UNCHANGED <<cache, input, answer, parsed>>

\* The lookup; a hit is returned and its guard dropped.
Look(c, k) ==
  LET found == cache[k][KeyOf(Source(c, k))] IN
  /\ At(c, k, "look")
  /\ \/ /\ found # Empty /\ Unlock(k)
        /\ got' = [got EXCEPT ![c][k] = found] /\ Goto(c, After(k), "wait")
     \/ found = Empty /\ UNCHANGED <<lock, got>> /\ Goto(c, k, "parse")
  /\ UNCHANGED <<cache, input, answer, parsed>>

Counted(k, t) == parsed' = [parsed EXCEPT ![k][t] = IF @ < 2 THEN @ + 1 ELSE @]

\* Mutant of ParseFails: the mutex stays locked.
ParseFailsLocked(c, k) ==
  /\ At(c, k, "parse") /\ <<k, Source(c, k)>> \notin Parses
  /\ Answer(c, Error(k))
  /\ UNCHANGED <<cache, lock, input, got, parsed>>

\* A text that does not parse ends the call and is not cached.
ParseFails(c, k) ==
  /\ At(c, k, "parse") /\ <<k, Source(c, k)>> \notin Parses
  /\ Unlock(k)
  /\ Answer(c, Error(k))
  /\ UNCHANGED <<cache, input, got, parsed>>

Insert(c, k) ==
  /\ At(c, k, "parse") /\ <<k, Source(c, k)>> \in Parses
  /\ Unlock(k) /\ Counted(k, Source(c, k))
  /\ cache' = [cache EXCEPT ![k][KeyOf(Source(c, k))] = Source(c, k)]
  /\ got' = [got EXCEPT ![c][k] = Source(c, k)]
  /\ Goto(c, After(k), "wait")
  /\ UNCHANGED <<input, answer>>

\* Entities, context and request are built, with the schema if there is one, and decided.
Evaluate(c) ==
  LET data == input[c].data IN
  /\ At(c, "evaluate", "wait")
  /\ \/ <<got[c].schema, data>> \notin Accepts /\ Answer(c, Error("request"))
     \/ /\ <<got[c].schema, data>> \in Accepts
        /\ Answer(c, Decision(got[c].schema, got[c].policies, data))
  /\ UNCHANGED <<cache, lock, input, got, parsed>>

Return(c) ==
  /\ At(c, "answered", "wait")
  /\ Goto(c, "idle", "wait")
  /\ input' = [input EXCEPT ![c] = NotText]
  /\ got' = [got EXCEPT ![c] = Nothing]
  /\ answer' = [answer EXCEPT ![c] = NoAnswer]
  /\ UNCHANGED <<cache, lock, parsed>>

\* Nushell stops the plugin, also while it works; the next call starts a new process.
Restart ==
  /\ cache' = [k \in Kind |-> [h \in Key |-> Empty]]
  /\ lock' = [k \in Kind |-> Free]
  /\ pc' = [c \in Thread |-> "idle"]
  /\ stage' = [c \in Thread |-> "wait"]
  /\ input' = [c \in Thread |-> NotText]
  /\ got' = [c \in Thread |-> Nothing]
  /\ answer' = [c \in Thread |-> NoAnswer]
  /\ parsed' = [k \in Kind |-> [t \in Text |-> 0]]

Works(c) ==
  \/ Evaluate(c)
  \/ \E k \in Kind : Look(c, k) \/ ParseFails(c, k) \/ Insert(c, k)

Next ==
  \/ \E c \in Thread :
       \/ \E rec \in Asked : Arrive(c, rec)
       \/ Works(c) \/ Return(c)
       \/ \E k \in Kind : Lock(c, k)
  \/ Restart

\* A thread that does not wait for a mutex goes on; who gets a mutex next is not promised.
Spec == Init /\ [][Next]_vars /\ \A c \in Thread : WF_vars(Works(c))
----------------------------------------------------------------------------
(* Properties. *)

\* TypeOK: a thread is between its steps, and looks up or parses a text with its mutex.
TypeOK ==
  /\ cache \in [Kind -> [Key -> Text \cup {Empty}]]
  /\ lock \in [Kind -> Thread \cup {Free}]
  /\ pc \in [Thread -> Steps] /\ stage \in [Thread -> Stages]
  /\ input \in [Thread -> Record \cup {NotText}]
  /\ got \in [Thread -> [Kind -> Text \cup {NotText}]]
  /\ answer \in [Thread -> Answers]
  /\ parsed \in [Kind -> [Text -> 0..2]]
  /\ \A c \in Thread : stage[c] # "wait" => pc[c] \in Kind
  /\ \A c \in Thread : pc[c] # "idle" => input[c] \in Record
  /\ \A c \in Thread, k \in Kind :
       (pc[c] = k /\ stage[c] # "wait") <=> lock[k] = c

\* What a call without caches would answer to rec.
Fresh(rec) ==
  IF ~rec.uids \/ rec.policies \notin Text THEN Error("fields")
  ELSE IF rec.schema \in Text /\ <<"schema", rec.schema>> \notin Parses THEN Error("schema")
  ELSE IF <<"policies", rec.policies>> \notin Parses THEN Error("policies")
  ELSE IF <<rec.schema, rec.data>> \notin Accepts THEN Error("request")
  ELSE Decision(rec.schema, rec.policies, rec.data)

\* The texts that a cache cannot tell from t.
Alike(t) == IF t \in Text THEN {u \in Text : Hash[u] = Hash[t]} ELSE {t}

\* The caches are invisible: whatever was asked before and is asked at the same time, each
\* answer, error or decision, is the one that a plugin without caches would give to this
\* record, or to one with a schema or policies of the same 64-bit hash.
CacheIsTransparent ==
  \A c \in Thread : pc[c] = "answered" =>
    \E s \in Alike(input[c].schema), p \in Alike(input[c].policies) :
      answer[c] = Fresh([input[c] EXCEPT !.schema = s, !.policies = p])

\* The policy set "parses once at first call and stays warm for the life of the plugin
\* process" (README.md), also when the first calls come at the same time.
ParsedOnce ==
  \A k \in Kind, t \in Text : parsed[k][t] <= 1

\* A call that has a mutex gives it back, also if its text does not parse: no call can keep
\* the others waiting for ever, and none waits for a mutex with the other one in its hands.
LocksAreReleased ==
  \A k \in Kind : lock[k] # Free ~> lock[k] = Free
============================================================================
