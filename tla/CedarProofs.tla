----------------------------- MODULE CedarProofs -----------------------------
(***************************************************************************)
(* Theorems about CedarAuthorize, for every set of threads, texts and      *)
(* records, every hash and whatever the cedar-policy library accepts.      *)
(***************************************************************************)
EXTENDS CedarAuthorize, TLAPS

----------------------------------------------------------------------------
(* The inductive invariant. *)

\* A call that is past its checks has the texts it is about.
Asks(c) ==
  /\ pc[c] \in {"schema", "policies", "evaluate"} =>
       input[c].uids /\ input[c].policies \in Text
  /\ pc[c] = "schema" => input[c].schema \in Text

TypeInv == TypeOK /\ \A c \in Thread : Asks(c)

----------------------------------------------------------------------------
(* Type correctness. *)

\* A text's hash is a key.
LEMMA KeysAreKeys ==
  ASSUME NEW t \in Text
  PROVE  KeyOf(t) \in Key
BY DEF KeyOf, Key

\* A thread that works with a mutex has a text to look up.
LEMMA SourceIsText ==
  ASSUME TypeInv, NEW c \in Thread, NEW k \in Kind, pc[c] = k
  PROVE  Source(c, k) \in Text
BY DEF TypeInv, Asks, Source, Kind

\* The steps at a cache are not the others, and After leads on.
LEMMA StepsAndStages ==
  /\ Kind \subseteq Steps
  /\ "idle" \in Steps \ Kind /\ "evaluate" \in Steps \ Kind /\ "answered" \in Steps \ Kind
  /\ "wait" \in Stages /\ "look" \in Stages /\ "parse" \in Stages
  /\ \A k \in Kind : After(k) \in Steps /\ After(k) # k /\ After(k) # "idle"
  /\ \A k \in Kind : k # "idle" /\ k # "answered"
BY DEF Kind, Steps, Stages, After

\* Every label_err is an answer.
LEMMA ErrorsAreAnswers ==
  ASSUME NEW step \in Kind \cup {"fields", "request"}
  PROVE  Error(step) \in Answers
BY DEF Kind, Error, Answers

\* It holds at first.
LEMMA TypeInit == Init => TypeInv
<1> SUFFICES ASSUME Init PROVE TypeInv
  OBVIOUS
<1>1. NoAnswer \in Answers /\ NotText \notin Text /\ Empty \notin Text /\ Free \notin Thread
  BY CedarAssumption DEF Answers
<1>2. QED BY <1>1, StepsAndStages DEF Init, TypeInv, TypeOK, Asks, Steps, Stages, Kind, Nothing

\* Every step of a call keeps it, and a new process.
LEMMA TypeNext == TypeInv /\ [Next]_vars => TypeInv'
<1> SUFFICES ASSUME TypeInv, [Next]_vars PROVE TypeInv'
  OBVIOUS
<1> USE CedarAssumption, StepsAndStages DEF TypeInv, TypeOK, At, Goto, Answer, Unlock
<1>1. ASSUME NEW c \in Thread, NEW rec \in Asked, Arrive(c, rec) PROVE TypeInv'
  <2>1. rec \in Record /\ Error("fields") \in Answers
    BY ErrorsAreAnswers
  <2>2. \/ pc' = [pc EXCEPT ![c] = "answered"]
        \/ /\ rec.uids /\ rec.policies \in Text
           /\ \/ pc' = [pc EXCEPT ![c] = "schema"] /\ rec.schema \in Text
              \/ pc' = [pc EXCEPT ![c] = "policies"]
    BY <1>1 DEF Arrive
  <2>3. \A t \in Thread : Asks(t)'
    BY <1>1, <2>2 DEF Arrive, Asks
  <2>4. TypeOK'
    BY <1>1, <2>1, <2>2, SMTT(30) DEF Arrive, Kind
  <2>5. QED BY <2>3, <2>4
<1>2. ASSUME NEW c \in Thread, Evaluate(c) PROVE TypeInv'
  <2>1. input[c] \in Record
    BY <1>2 DEF Evaluate
  <2>2. /\ Error("request") \in Answers
        /\ Decision(got[c].schema, got[c].policies, input[c].data) \in Answers
    BY <2>1, ErrorsAreAnswers DEF Record, Decision, Answers, Kind
  <2>3. PICK a \in Answers : Answer(c, a)
    BY <1>2, <2>2 DEF Evaluate
  <2>4. QED BY <1>2, <2>3 DEF Evaluate, Asks
<1>3. ASSUME NEW c \in Thread, NEW k \in Kind, Lock(c, k) PROVE TypeInv'
  BY <1>3 DEF Lock, Asks
<1>4. ASSUME NEW c \in Thread, NEW k \in Kind, Look(c, k) PROVE TypeInv'
  <2> DEFINE found == cache[k][KeyOf(Source(c, k))]
  <2>1. found \in Text \cup {Empty}
    BY <1>4, SourceIsText, KeysAreKeys DEF Look
  <2>2. CASE found = Empty
    <3>1. /\ lock' = lock /\ got' = got /\ lock[k] = c /\ pc[c] = k
          /\ pc' = [pc EXCEPT ![c] = k] /\ stage' = [stage EXCEPT ![c] = "parse"]
      BY <1>4, <2>2 DEF Look
    <3>2. QED BY <1>4, <3>1 DEF Look, Asks
  <2>3. CASE found # Empty
    <3>0. Unlock(k) /\ got' = [got EXCEPT ![c][k] = found] /\ Goto(c, After(k), "wait")
      BY <1>4, <2>3 DEF Look
    <3>1. /\ got' \in [Thread -> [Kind -> Text \cup {NotText}]]
          /\ lock' = [lock EXCEPT ![k] = Free] /\ lock[k] = c
          /\ pc' = [pc EXCEPT ![c] = After(k)] /\ stage' = [stage EXCEPT ![c] = "wait"]
      <4> HIDE DEF found
      <4> QED BY <1>4, <2>1, <2>3, <3>0 DEF Look
    <3>2. \A t \in Thread : Asks(t)'
      BY <1>4, <3>1 DEF Look, Asks, After, Kind
    <3>3. QED BY <1>4, <3>1, <3>2 DEF Look
  <2>4. QED BY <2>2, <2>3
<1>5. ASSUME NEW c \in Thread, NEW k \in Kind, ParseFails(c, k) PROVE TypeInv'
  <2>1. Error(k) \in Answers
    BY ErrorsAreAnswers
  <2>2. QED BY <1>5, <2>1 DEF ParseFails, Asks
<1>6. ASSUME NEW c \in Thread, NEW k \in Kind, Insert(c, k) PROVE TypeInv'
  <2> DEFINE s == Source(c, k)
  <2>1. s \in Text /\ KeyOf(s) \in Key
    BY <1>6, SourceIsText, KeysAreKeys DEF Insert
  <2>2. parsed' \in [Kind -> [Text -> 0..2]]
    BY <1>6, <2>1 DEF Insert, Counted
  <2>3. /\ got' \in [Thread -> [Kind -> Text \cup {NotText}]]
        /\ cache' \in [Kind -> [Key -> Text \cup {Empty}]]
        /\ lock' = [lock EXCEPT ![k] = Free] /\ lock[k] = c
        /\ pc' = [pc EXCEPT ![c] = After(k)] /\ stage' = [stage EXCEPT ![c] = "wait"]
    BY <1>6, <2>1 DEF Insert
  <2>4. \A t \in Thread : Asks(t)'
    BY <1>6, <2>3 DEF Insert, Asks, After, Kind
  <2>5. QED BY <1>6, <2>2, <2>3, <2>4 DEF Insert
<1>7. ASSUME NEW c \in Thread, Return(c) PROVE TypeInv'
  <2>1. NoAnswer \in Answers /\ Nothing \in [Kind -> Text \cup {NotText}]
    BY DEF Answers, Nothing, Kind
  <2>2. QED BY <1>7, <2>1 DEF Return, Asks
<1>8. CASE Restart
  <2>1. NoAnswer \in Answers /\ Nothing \in [Kind -> Text \cup {NotText}]
    BY DEF Answers, Nothing, Kind
  <2>2. QED BY <1>8, <2>1 DEF Restart, Asks
<1>9. CASE UNCHANGED vars
  BY <1>9 DEF vars, Asks
<1>10. QED BY <1>1, <1>2, <1>3, <1>4, <1>5, <1>6, <1>7, <1>8, <1>9 DEF Next, Works

\* A thread has a mutex just between lock() and the drop of its guard, so no two of them
\* look up or parse texts of one kind at a time.
THEOREM TypeCorrect == Spec => []TypeOK
<1>1. TypeInv => TypeOK
  BY DEF TypeInv
<1>2. QED BY TypeInit, TypeNext, <1>1, PTL DEF Spec
----------------------------------------------------------------------------
(* What the caches hold, and what a call got from them. *)

\* What is cached under a key parses and has that key.
CacheSound ==
  \A k \in Kind, h \in Key : cache[k][h] # Empty =>
    Hash[cache[k][h]] = h /\ <<k, cache[k][h]>> \in Parses

\* u is a text that parses and has the key of t, or no text like t itself.
StandsFor(u, t, k) == u \in Alike(t) /\ (u \in Text => <<k, u>> \in Parses)

\* What a call has got when it comes to a step.
Got(c) ==
  /\ pc[c] \in {"policies", "evaluate"} => StandsFor(got[c].schema, input[c].schema, "schema")
  /\ pc[c] = "evaluate" => StandsFor(got[c].policies, input[c].policies, "policies")
  /\ pc[c] \in {"idle", "schema"} => got[c] = Nothing

GotInv == CacheSound /\ \A c \in Thread : Got(c)

\* What Look finds and what Insert has parsed stand for the text that was asked for.
LEMMA FoundStandsFor ==
  ASSUME TypeInv, CacheSound, NEW t \in Text, NEW k \in Kind,
         NEW u \in Text, u = cache[k][KeyOf(t)] \/ (u = t /\ <<k, t>> \in Parses)
  PROVE  StandsFor(u, t, k)
<1>1. CASE u = cache[k][KeyOf(t)]
  <2>1. u # Empty /\ KeyOf(t) \in Key
    BY CedarAssumption, KeysAreKeys
  <2>2. QED BY <1>1, <2>1 DEF CacheSound, StandsFor, Alike, KeyOf
<1>2. CASE u = t /\ <<k, t>> \in Parses
  BY <1>2 DEF StandsFor, Alike
<1>3. QED BY <1>1, <1>2

\* A call that comes with u from the cache of kind k has what it needs for its next step.
LEMMA GotNext ==
  ASSUME TypeInv, \A d \in Thread : Got(d), NEW c \in Thread, NEW k \in Kind, NEW u \in Text,
         pc[c] = k, StandsFor(u, Source(c, k), k),
         got' = [got EXCEPT ![c][k] = u], Goto(c, After(k), "wait"), UNCHANGED input
  PROVE  \A d \in Thread : Got(d)'
<1> SUFFICES ASSUME NEW d \in Thread PROVE Got(d)'
  OBVIOUS
<1>1. CASE d # c
  BY <1>1 DEF Got, Goto, TypeInv, TypeOK
<1>2. CASE d = c /\ k = "schema"
  <2>1. pc'[c] = "policies" /\ got'[c].schema = u
    BY <1>2 DEF TypeInv, TypeOK, Goto, After, Kind
  <2>2. QED BY <1>2, <2>1 DEF Got, Source, StandsFor
<1>3. CASE d = c /\ k = "policies"
  <2>1. pc'[c] = "evaluate" /\ got'[c].policies = u /\ got'[c].schema = got[c].schema
    BY <1>3 DEF TypeInv, TypeOK, Goto, After, Kind
  <2>2. QED BY <1>3, <2>1 DEF Got, Source, StandsFor
<1>4. QED BY <1>1, <1>2, <1>3 DEF Kind

\* A call that ends gets nothing more.
LEMMA GotEnds ==
  ASSUME TypeInv, \A d \in Thread : Got(d), NEW c \in Thread, NEW a, Answer(c, a),
         UNCHANGED got, \A d \in Thread \ {c} : input'[d] = input[d]
  PROVE  \A d \in Thread : Got(d)'
<1> SUFFICES ASSUME NEW d \in Thread PROVE Got(d)'
  OBVIOUS
<1>1. CASE d # c
  BY <1>1 DEF Got, Answer, Goto, TypeInv, TypeOK, StandsFor
<1>2. CASE d = c
  BY <1>2 DEF Got, Answer, Goto, TypeInv, TypeOK
<1>3. QED BY <1>1, <1>2

\* No cache holds anything and no call has anything at first.
LEMMA GotInit == Init => GotInv
BY CedarAssumption DEF Init, GotInv, CacheSound, Got

\* Lookups and insertions keep the caches sound, and what calls got from them.
LEMMA GotStep == TypeInv /\ GotInv /\ [Next]_vars => GotInv'
<1> SUFFICES ASSUME TypeInv, GotInv, [Next]_vars PROVE GotInv'
  OBVIOUS
<1>0. CacheSound /\ \A d \in Thread : Got(d)
  BY DEF GotInv
<1>1. ASSUME NEW c \in Thread, NEW rec \in Asked, Arrive(c, rec) PROVE GotInv'
  <2>1. CacheSound'
    BY <1>0, <1>1 DEF Arrive, CacheSound
  <2>2. input'[c] = rec /\ \A d \in Thread \ {c} : input'[d] = input[d]
    BY <1>1 DEF Arrive, TypeInv, TypeOK
  <2>3. CASE Answer(c, Error("fields"))
    BY <1>0, <1>1, <2>1, <2>2, <2>3, GotEnds DEF Arrive, GotInv
  <2>4. CASE Goto(c, IF rec.schema \in Text THEN "schema" ELSE "policies", "wait")
    <3>1. got[c] = Nothing /\ got' = got
      BY <1>0, <1>1 DEF Arrive, Got, At
    <3>2. pc'[c] = "schema" \/ (pc'[c] = "policies" /\ rec.schema \notin Text)
      BY <2>4 DEF Goto, TypeInv, TypeOK
    <3>3. rec.schema \notin Text => rec.schema = NotText
      BY CedarAssumption DEF Record
    <3>4. Got(c)'
      BY <2>2, <3>1, <3>2, <3>3, CedarAssumption DEF Got, StandsFor, Alike, Nothing
    <3>5. ASSUME NEW d \in Thread, d # c PROVE Got(d)'
      BY <1>0, <2>2, <2>4, <3>1, <3>5 DEF Goto, Got, StandsFor, TypeInv, TypeOK
    <3>6. QED BY <2>1, <3>4, <3>5 DEF GotInv
  <2>5. QED BY <1>1, <2>3, <2>4 DEF Arrive
<1>2. ASSUME NEW c \in Thread, Evaluate(c) PROVE GotInv'
  <2>1. CacheSound'
    BY <1>0, <1>2 DEF Evaluate, CacheSound
  <2>2. PICK a : Answer(c, a)
    BY <1>2 DEF Evaluate
  <2>3. QED BY <1>0, <1>2, <2>1, <2>2, GotEnds DEF Evaluate, GotInv
<1>3. ASSUME NEW c \in Thread, NEW k \in Kind, Lock(c, k) PROVE GotInv'
  BY <1>0, <1>3 DEF Lock, At, Goto, GotInv, CacheSound, Got, StandsFor, TypeInv, TypeOK
<1>4. ASSUME NEW c \in Thread, NEW k \in Kind, Look(c, k) PROVE GotInv'
  <2> DEFINE s == Source(c, k)
             found == cache[k][KeyOf(s)]
  <2>1. CacheSound' /\ pc[c] = k /\ s \in Text /\ KeyOf(s) \in Key /\ UNCHANGED input
    BY <1>0, <1>4, SourceIsText, KeysAreKeys DEF Look, At, CacheSound
  <2>2. CASE found = Empty
    <3>1. Goto(c, k, "parse") /\ UNCHANGED got
      BY <1>4, <2>2 DEF Look
    <3>2. QED BY <1>0, <2>1, <3>1 DEF Goto, GotInv, Got, StandsFor, TypeInv, TypeOK
  <2>3. CASE found # Empty
    <3>1. found \in Text
      BY <2>1, <2>3 DEF TypeInv, TypeOK
    <3>2. got' = [got EXCEPT ![c][k] = found] /\ Goto(c, After(k), "wait")
      BY <1>4, <2>3 DEF Look
    <3>3. StandsFor(found, s, k)
      BY <1>0, <2>1, <3>1, FoundStandsFor
    <3>4. \A d \in Thread : Got(d)'
      BY <1>0, <2>1, <3>1, <3>2, <3>3, GotNext
    <3>5. QED BY <2>1, <3>4 DEF GotInv
  <2>4. QED BY <2>2, <2>3
<1>5. ASSUME NEW c \in Thread, NEW k \in Kind, ParseFails(c, k) PROVE GotInv'
  <2>1. CacheSound'
    BY <1>0, <1>5 DEF ParseFails, CacheSound
  <2>2. QED BY <1>0, <1>5, <2>1, GotEnds DEF ParseFails, GotInv
<1>6. ASSUME NEW c \in Thread, NEW k \in Kind, Insert(c, k) PROVE GotInv'
  <2> DEFINE s == Source(c, k)
  <2>1. pc[c] = k /\ s \in Text /\ KeyOf(s) \in Key /\ <<k, s>> \in Parses
    BY <1>6, SourceIsText, KeysAreKeys DEF Insert, At
  <2>2. CacheSound'
    <3> SUFFICES ASSUME NEW j \in Kind, NEW h \in Key, cache'[j][h] # Empty
                 PROVE  Hash[cache'[j][h]] = h /\ <<j, cache'[j][h]>> \in Parses
      BY DEF CacheSound
    <3>1. CASE j = k /\ h = KeyOf(s)
      <4>1. cache'[j][h] = s
        BY <1>6, <2>1, <3>1 DEF Insert, TypeInv, TypeOK
      <4>2. QED BY <2>1, <3>1, <4>1 DEF KeyOf
    <3>2. CASE ~(j = k /\ h = KeyOf(s))
      <4>1. cache'[j][h] = cache[j][h]
        BY <1>6, <2>1, <3>2 DEF Insert, TypeInv, TypeOK
      <4>2. QED BY <1>0, <4>1 DEF CacheSound
    <3>3. QED BY <3>1, <3>2
  <2>3. StandsFor(s, s, k)
    BY <1>0, <2>1, FoundStandsFor
  <2>4. \A d \in Thread : Got(d)'
    BY <1>0, <1>6, <2>1, <2>3, GotNext DEF Insert
  <2>5. QED BY <2>2, <2>4 DEF GotInv
<1>7. ASSUME NEW c \in Thread, Return(c) PROVE GotInv'
  BY <1>0, <1>7 DEF Return, Goto, GotInv, CacheSound, Got, StandsFor, TypeInv, TypeOK
<1>8. CASE Restart
  BY <1>8, CedarAssumption DEF Restart, GotInv, CacheSound, Got
<1>9. CASE UNCHANGED vars
  BY <1>0, <1>9 DEF vars, GotInv, CacheSound, Got
<1>10. QED BY <1>1, <1>2, <1>3, <1>4, <1>5, <1>6, <1>7, <1>8, <1>9 DEF Next, Works

----------------------------------------------------------------------------
(* The caches are invisible. *)

\* a is what a plugin without caches would answer to rec, or to a record like it.
Transparent(rec, a) ==
  \E s \in Alike(rec.schema), p \in Alike(rec.policies) :
    a = Fresh([rec EXCEPT !.schema = s, !.policies = p])

\* Each text is like itself.
LEMMA AlikeItself ==
  ASSUME NEW t
  PROVE  t \in Alike(t)
BY DEF Alike

\* Fresh of a record like rec, spelled out.
LEMMA FreshLike ==
  ASSUME NEW rec \in Record, NEW s, NEW p
  PROVE  Fresh([rec EXCEPT !.schema = s, !.policies = p]) =
           IF ~rec.uids \/ p \notin Text THEN Error("fields")
           ELSE IF s \in Text /\ <<"schema", s>> \notin Parses THEN Error("schema")
           ELSE IF <<"policies", p>> \notin Parses THEN Error("policies")
           ELSE IF <<s, rec.data>> \notin Accepts THEN Error("request")
           ELSE Decision(s, p, rec.data)
BY DEF Fresh, Record

\* The two errors about a text.
LEMMA ErrorsLike ==
  ASSUME NEW rec \in Record, rec.uids, NEW s, NEW p \in Text
  PROVE  /\ s \in Text /\ <<"schema", s>> \notin Parses =>
              Error("schema") = Fresh([rec EXCEPT !.schema = s, !.policies = p])
         /\ (s \in Text => <<"schema", s>> \in Parses) /\ <<"policies", p>> \notin Parses =>
              Error("policies") = Fresh([rec EXCEPT !.schema = s, !.policies = p])
<1> DEFINE x == [rec EXCEPT !.schema = s, !.policies = p]
<1>1. Fresh(x) = IF ~rec.uids \/ p \notin Text THEN Error("fields")
                 ELSE IF s \in Text /\ <<"schema", s>> \notin Parses THEN Error("schema")
                 ELSE IF <<"policies", p>> \notin Parses THEN Error("policies")
                 ELSE IF <<s, rec.data>> \notin Accepts THEN Error("request")
                 ELSE Decision(s, p, rec.data)
  BY FreshLike
<1> HIDE DEF x
<1>2. /\ s \in Text /\ <<"schema", s>> \notin Parses => Error("schema") = Fresh(x)
      /\ (s \in Text => <<"schema", s>> \in Parses) /\ <<"policies", p>> \notin Parses =>
           Error("policies") = Fresh(x)
  BY <1>1
<1>3. QED BY <1>2 DEF x

\* Each way a call ends, first the test of its fields.
LEMMA FieldsTransparent ==
  ASSUME NEW rec \in Record, ~(rec.uids /\ rec.policies \in Text)
  PROVE  Transparent(rec, Error("fields"))
BY AlikeItself, FreshLike DEF Transparent

\* A text that does not parse is no cache's doing.
LEMMA ParseTransparent ==
  ASSUME TypeInv, GotInv, NEW c \in Thread, NEW k \in Kind, pc[c] = k,
         <<k, Source(c, k)>> \notin Parses
  PROVE  Transparent(input[c], Error(k))
<1>1. input[c] \in Record /\ input[c].uids /\ input[c].policies \in Text
  BY DEF TypeInv, TypeOK, Asks, Kind
<1>2. CASE k = "schema"
  <2>1. input[c].schema \in Text /\ <<"schema", input[c].schema>> \notin Parses
    BY <1>2 DEF TypeInv, Asks, Source
  <2>2. Error(k) = Fresh([input[c] EXCEPT !.schema = input[c].schema,
                                          !.policies = input[c].policies])
    <3> DEFINE s == input[c].schema
               p == input[c].policies
    <3>1. s \in Text /\ p \in Text /\ <<"schema", s>> \notin Parses
      BY <1>1, <2>1
    <3> HIDE DEF s, p
    <3>2. Error(k) = Fresh([input[c] EXCEPT !.schema = s, !.policies = p])
      BY <1>1, <1>2, <3>1, ErrorsLike
    <3>3. QED BY <3>2 DEF s, p
  <2>3. QED BY <2>2, AlikeItself DEF Transparent
<1>3. CASE k = "policies"
  <2>1. StandsFor(got[c].schema, input[c].schema, "schema")
    BY <1>3 DEF GotInv, Got
  <2>2. <<"policies", input[c].policies>> \notin Parses
    BY <1>3 DEF Source
  <2>3. Error(k) = Fresh([input[c] EXCEPT !.schema = got[c].schema,
                                          !.policies = input[c].policies])
    <3> DEFINE s == got[c].schema
               p == input[c].policies
    <3>1. p \in Text /\ (s \in Text => <<"schema", s>> \in Parses) /\ <<"policies", p>> \notin Parses
      BY <1>1, <2>1, <2>2 DEF StandsFor
    <3> HIDE DEF s, p
    <3>2. Error(k) = Fresh([input[c] EXCEPT !.schema = s, !.policies = p])
      BY <1>1, <1>3, <3>1, ErrorsLike
    <3>3. QED BY <3>2 DEF s, p
  <2>4. QED BY <2>1, <2>3, AlikeItself DEF Transparent, StandsFor
<1>4. QED BY <1>2, <1>3 DEF Kind

\* A decision is made of what stands for the record's own texts.
LEMMA EvaluateTransparent ==
  ASSUME TypeInv, GotInv, NEW c \in Thread, NEW a, Evaluate(c), Answer(c, a)
  PROVE  Transparent(input[c], answer'[c])
<1> DEFINE s == got[c].schema
           p == got[c].policies
           d == input[c].data
<1>1. input[c] \in Record /\ input[c].uids /\ input[c].policies \in Text
  BY DEF TypeInv, TypeOK, Asks, Evaluate, At
<1>2. /\ s \in Alike(input[c].schema) /\ (s \in Text => <<"schema", s>> \in Parses)
      /\ p \in Alike(input[c].policies) /\ p \in Text /\ <<"policies", p>> \in Parses
  BY <1>1 DEF GotInv, Got, StandsFor, Evaluate, At, Alike
<1>3. answer'[c] = IF <<s, d>> \notin Accepts THEN Error("request") ELSE Decision(s, p, d)
  BY DEF Evaluate, Answer, TypeInv, TypeOK
<1>4. answer'[c] = Fresh([input[c] EXCEPT !.schema = s, !.policies = p])
  <2> HIDE DEF s, p
  <2> QED BY <1>1, <1>2, <1>3, FreshLike
<1>5. QED BY <1>2, <1>4 DEF Transparent

\* An answer that is there stays what it was.
LEMMA AnswersStay ==
  ASSUME TypeInv, CacheIsTransparent, NEW c \in Thread,
         \A d \in Thread \ {c} : answer'[d] = answer[d] /\ input'[d] = input[d] /\ pc'[d] = pc[d],
         pc'[c] = "answered" => Transparent(input'[c], answer'[c])
  PROVE  CacheIsTransparent'
<1> SUFFICES ASSUME NEW d \in Thread, pc'[d] = "answered"
             PROVE  Transparent(input'[d], answer'[d])
  BY DEF CacheIsTransparent, Transparent
<1>1. CASE d = c
  BY <1>1
<1>2. CASE d # c
  <2>1. Transparent(input[d], answer[d])
    BY <1>2 DEF CacheIsTransparent, Transparent
  <2>2. QED BY <1>2, <2>1
<1>3. QED BY <1>1, <1>2

\* Whatever calls came before and overlap, and whichever parses get_or_parse_schema and
\* get_or_parse_policies serve from their caches, a call is answered as if there were none,
\* but for texts with the same 64-bit hash.
THEOREM CachesInvisible == Spec => []CacheIsTransparent
<1>1. Init => CacheIsTransparent
  BY DEF Init, CacheIsTransparent
<1>2. TypeInv /\ GotInv /\ CacheIsTransparent /\ [Next]_vars => CacheIsTransparent'
  <2> SUFFICES ASSUME TypeInv, GotInv, CacheIsTransparent, [Next]_vars PROVE CacheIsTransparent'
    OBVIOUS
  <2>1. ASSUME NEW c \in Thread, NEW rec \in Asked, Arrive(c, rec) PROVE CacheIsTransparent'
    <3>1. rec \in Record /\ input' = [input EXCEPT ![c] = rec]
      BY <2>1, CedarAssumption DEF Arrive
    <3>2. CASE Answer(c, Error("fields")) /\ ~(rec.uids /\ rec.policies \in Text)
      BY <3>1, <3>2, AnswersStay, FieldsTransparent DEF Answer, Goto, TypeInv, TypeOK
    <3>3. CASE Goto(c, IF rec.schema \in Text THEN "schema" ELSE "policies", "wait") /\ UNCHANGED answer
      BY <3>1, <3>3, AnswersStay DEF Goto, TypeInv, TypeOK
    <3>4. QED BY <2>1, <3>2, <3>3 DEF Arrive
  <2>2. ASSUME NEW c \in Thread, Evaluate(c) PROVE CacheIsTransparent'
    <3>1. PICK a : Answer(c, a)
      BY <2>2 DEF Evaluate
    <3>2. Transparent(input[c], answer'[c]) /\ input' = input
      BY <2>2, <3>1, EvaluateTransparent DEF Evaluate
    <3>3. QED BY <3>1, <3>2, AnswersStay DEF Answer, Goto, TypeInv, TypeOK
  <2>3. ASSUME NEW c \in Thread, NEW k \in Kind, Lock(c, k) PROVE CacheIsTransparent'
    BY <2>3, AnswersStay DEF Lock, Goto, Kind, TypeInv, TypeOK
  <2>4. ASSUME NEW c \in Thread, NEW k \in Kind, Look(c, k) PROVE CacheIsTransparent'
    BY <2>4, AnswersStay DEF Look, Goto, After, Kind, TypeInv, TypeOK
  <2>5. ASSUME NEW c \in Thread, NEW k \in Kind, ParseFails(c, k) PROVE CacheIsTransparent'
    <3>1. Transparent(input[c], Error(k))
      BY <2>5, ParseTransparent DEF ParseFails, At
    <3>2. QED BY <2>5, <3>1, AnswersStay DEF ParseFails, Answer, Goto, TypeInv, TypeOK
  <2>6. ASSUME NEW c \in Thread, NEW k \in Kind, Insert(c, k) PROVE CacheIsTransparent'
    BY <2>6, AnswersStay DEF Insert, Goto, After, Kind, TypeInv, TypeOK
  <2>7. ASSUME NEW c \in Thread, Return(c) PROVE CacheIsTransparent'
    BY <2>7, AnswersStay DEF Return, Goto, TypeInv, TypeOK
  <2>8. CASE Restart
    BY <2>8 DEF Restart, CacheIsTransparent
  <2>9. CASE UNCHANGED vars
    BY <2>9 DEF vars, CacheIsTransparent
  <2>10. QED BY <2>1, <2>2, <2>3, <2>4, <2>5, <2>6, <2>7, <2>8, <2>9 DEF Next, Works
<1>3. QED BY TypeInit, TypeNext, GotInit, GotStep, <1>1, <1>2, PTL DEF Spec
----------------------------------------------------------------------------
(* Each text is parsed once. *)

\* A text that was parsed is in the cache, or one with its key is; who parses a text has
\* not found it, and nobody has inserted it since.
Counts ==
  \A k \in Kind, t \in Text :
    parsed[k][t] # 0 => parsed[k][t] = 1 /\ cache[k][KeyOf(t)] # Empty

Missed(c, k) == At(c, k, "parse") => cache[k][KeyOf(Source(c, k))] = Empty

OnceInv == Counts /\ \A c \in Thread, k \in Kind : Missed(c, k)

\* Two threads are not at the same cache.
LEMMA MutualExclusion ==
  ASSUME TypeInv, NEW c \in Thread, NEW d \in Thread, NEW k \in Kind,
         pc[c] = k, stage[c] # "wait", pc[d] = k, stage[d] # "wait"
  PROVE  c = d
BY DEF TypeInv, TypeOK

\* A step of c that inserts nothing and does not go on to parse.
LEMMA NothingInserted ==
  ASSUME TypeInv, OnceInv, NEW c \in Thread, UNCHANGED <<cache, parsed>>,
         \A d \in Thread \ {c} : input'[d] = input[d],
         NEW step, NEW s, s # "parse", Goto(c, step, s)
  PROVE  OnceInv'
<1>1. /\ stage'[c] # "parse"
      /\ \A d \in Thread \ {c} : pc'[d] = pc[d] /\ stage'[d] = stage[d]
  BY DEF Goto, TypeInv, TypeOK
<1>2. QED BY <1>1 DEF OnceInv, Counts, Missed, At, Source

\* In the life of a plugin process no text is parsed with success twice: whoever comes while
\* another call parses it waits for the mutex and then finds it.
THEOREM TextsParsedOnce == Spec => []ParsedOnce
<1> USE CedarAssumption
<1>1. Init => OnceInv
  BY DEF Init, OnceInv, Counts, Missed, At
<1>2. TypeInv /\ OnceInv /\ [Next]_vars => OnceInv'
  <2> SUFFICES ASSUME TypeInv, OnceInv, [Next]_vars PROVE OnceInv'
    OBVIOUS
  <2>1. ASSUME NEW c \in Thread, NEW rec \in Asked, Arrive(c, rec) PROVE OnceInv'
    <3>1. UNCHANGED <<cache, parsed>> /\ \A d \in Thread \ {c} : input'[d] = input[d]
      BY <2>1 DEF Arrive, TypeInv, TypeOK
    <3>2. \E step : Goto(c, step, "wait")
      BY <2>1 DEF Arrive, Answer
    <3>3. QED BY <3>1, <3>2, NothingInserted
  <2>2. ASSUME NEW c \in Thread, Evaluate(c) PROVE OnceInv'
    <3>1. Goto(c, "answered", "wait") /\ UNCHANGED <<cache, parsed, input>>
      BY <2>2 DEF Evaluate, Answer
    <3>2. QED BY <3>1, NothingInserted
  <2>3. ASSUME NEW c \in Thread, NEW k \in Kind, Lock(c, k) PROVE OnceInv'
    <3>1. Goto(c, k, "look") /\ UNCHANGED <<cache, parsed, input>>
      BY <2>3 DEF Lock
    <3>2. QED BY <3>1, NothingInserted
  <2>4. ASSUME NEW c \in Thread, NEW k \in Kind, Look(c, k) PROVE OnceInv'
    <3> DEFINE found == cache[k][KeyOf(Source(c, k))]
    <3>1. CASE found # Empty
      <4>1. Goto(c, After(k), "wait") /\ UNCHANGED <<cache, parsed, input>>
        BY <2>4, <3>1 DEF Look
      <4>2. QED BY <4>1, NothingInserted
    <3>2. CASE found = Empty
      <4>1. Goto(c, k, "parse") /\ UNCHANGED <<cache, parsed, input>>
        BY <2>4, <3>2 DEF Look
      <4>2. Counts'
        BY <4>1 DEF OnceInv, Counts
      <4>3. ASSUME NEW d \in Thread, NEW j \in Kind, At(d, j, "parse")' PROVE Missed(d, j)'
        <5>1. CASE d = c
          BY <3>2, <4>1, <4>3, <5>1 DEF Goto, At, Missed, Source, TypeInv, TypeOK
        <5>2. CASE d # c
          BY <4>1, <4>3, <5>2 DEF Goto, At, OnceInv, Missed, Source, TypeInv, TypeOK
        <5>3. QED BY <5>1, <5>2
      <4>4. QED BY <4>2, <4>3 DEF OnceInv, Missed
    <3>3. QED BY <3>1, <3>2
  <2>5. ASSUME NEW c \in Thread, NEW k \in Kind, ParseFails(c, k) PROVE OnceInv'
    <3>1. Goto(c, "answered", "wait") /\ UNCHANGED <<cache, parsed, input>>
      BY <2>5 DEF ParseFails, Answer
    <3>2. QED BY <3>1, NothingInserted
  <2>6. ASSUME NEW c \in Thread, NEW k \in Kind, Insert(c, k) PROVE OnceInv'
    <3> DEFINE s == Source(c, k)
    <3>1. /\ pc[c] = k /\ stage[c] = "parse" /\ s \in Text /\ KeyOf(s) \in Key
          /\ cache[k][KeyOf(s)] = Empty /\ Goto(c, After(k), "wait") /\ UNCHANGED input
      BY <2>6, SourceIsText, KeysAreKeys DEF Insert, At, OnceInv, Missed
    <3>2. parsed[k][s] = 0 /\ parsed' = [parsed EXCEPT ![k][s] = 1]
      <4>1. parsed[k][s] = 0
        BY <3>1 DEF OnceInv, Counts
      <4>2. QED BY <2>6, <4>1 DEF Insert, Counted
    <3>3. cache' = [cache EXCEPT ![k][KeyOf(s)] = s]
      BY <2>6 DEF Insert
    <3>4. Counts'
      <4> SUFFICES ASSUME NEW j \in Kind, NEW t \in Text, parsed'[j][t] # 0
                   PROVE  parsed'[j][t] = 1 /\ cache'[j][KeyOf(t)] # Empty
        BY DEF Counts, KeyOf
      <4>1. KeyOf(t) \in Key
        BY KeysAreKeys
      <4>2. CASE j = k /\ t = s
        <5> HIDE DEF s
        <5> QED BY <3>1, <3>2, <3>3, <4>1, <4>2 DEF TypeInv, TypeOK
      <4>3. CASE ~(j = k /\ t = s)
        <5>1. parsed'[j][t] = parsed[j][t]
          BY <3>1, <3>2, <4>3 DEF TypeInv, TypeOK
        <5>2. parsed[j][t] = 1 /\ cache[j][KeyOf(t)] # Empty
          BY <5>1 DEF OnceInv, Counts
        <5>3. cache'[j][KeyOf(t)] # Empty
          <6> HIDE DEF s
          <6> QED BY <3>1, <3>3, <4>1, <5>2 DEF TypeInv, TypeOK
        <5>4. QED BY <5>1, <5>2, <5>3
      <4>4. QED BY <4>2, <4>3
    <3>5. ASSUME NEW d \in Thread, NEW j \in Kind, At(d, j, "parse")' PROVE Missed(d, j)'
      <4>1. d # c /\ pc[d] = j /\ stage[d] = "parse"
        BY <3>1, <3>5 DEF Goto, At, TypeInv, TypeOK
      <4>2. j # k
        BY <3>1, <4>1, MutualExclusion
      <4>3. cache'[j] = cache[j]
        BY <3>1, <3>3, <4>2 DEF TypeInv, TypeOK
      <4>4. QED BY <3>1, <4>1, <4>3 DEF OnceInv, Missed, At, Source, KeyOf
    <3>6. QED BY <3>4, <3>5 DEF OnceInv, Missed
  <2>7. ASSUME NEW c \in Thread, Return(c) PROVE OnceInv'
    <3>1. /\ Goto(c, "idle", "wait") /\ UNCHANGED <<cache, parsed>>
          /\ \A d \in Thread \ {c} : input'[d] = input[d]
      BY <2>7 DEF Return, TypeInv, TypeOK
    <3>2. QED BY <3>1, NothingInserted
  <2>8. CASE Restart
    BY <2>8 DEF Restart, OnceInv, Counts, Missed, At
  <2>9. CASE UNCHANGED vars
    BY <2>9 DEF vars, OnceInv, Counts, Missed, At, Source
  <2>10. QED BY <2>1, <2>2, <2>3, <2>4, <2>5, <2>6, <2>7, <2>8, <2>9 DEF Next, Works
<1>3. TypeInv /\ OnceInv => ParsedOnce
  BY DEF OnceInv, Counts, ParsedOnce, TypeInv, TypeOK
<1>4. QED BY TypeInit, TypeNext, <1>1, <1>2, <1>3, PTL DEF Spec
============================================================================
