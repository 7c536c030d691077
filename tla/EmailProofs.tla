----------------------------- MODULE EmailProofs -----------------------------
(***************************************************************************)
(* Theorems about EmailSend and EmailFlow, for batches of any size.        *)
(***************************************************************************)
EXTENDS EmailFlow, TLAPS

----------------------------------------------------------------------------
(* The inductive invariant of EmailSend. *)

USE EmailAssumption DEF Item, Last, Current

Codes == {"E_BAD_REQUEST", "E_BINDING_MISSING"} \cup {CodeOf(error) : error \in Refusals \cup Unclear}
Answers == {PlainText} \cup {Delivery(n) : n \in Nat} \cup {Refusal(c) : c \in Codes}
Exchange == [item : Item, stage : Stages, error : Refusals \cup Unclear \cup {NoError},
             answer : Answers \cup {NoAnswer}]
Outcomes == {"delivered", "failed", "rate_limited", "daily_quota_exceeded", "sender_not_verified",
             "recipient_not_allowed"}
Results == [ref : Item, result : Outcomes, id : Nat,
            code : Codes \cup {"", "E_TRANSPORT", "E_BAD_REQUEST"}]

Typed ==
  /\ setup \in Setup /\ valid \subseteq Item
  /\ run \in {"ready", "next", "waiting", "done", "misconfigured"}
  /\ exchange \in Seq(Exchange) /\ accepted \in Seq(Item) /\ results \in Seq(Results)

\* The number of results says how far the command is.
Placed ==
  /\ Len(results) <= BatchSize
  /\ run \in {"ready", "misconfigured"} => Len(results) = 0 /\ Last = 0
  /\ run \in {"next", "waiting"} => Len(results) < BatchSize
  /\ run = "done" => Len(results) = BatchSize
  /\ run = "waiting" => Last # 0 /\ exchange[Last].item = Current

\* The posts are made in the order of the items, one for an item, and only the last one can
\* be about an item that has no result yet.
InOrder ==
  \A e \in 1..Last :
    /\ exchange[e].item \in valid
    /\ exchange[e].item <= Len(results) \/ (run = "waiting" /\ e = Last)
    /\ \A f \in 1..Last : e < f => exchange[e].item < exchange[f].item

Ordered == Typed /\ Placed /\ InOrder

\* The service has accepted item i.
Took(i) == \E n \in 1..Len(accepted) : accepted[n] = i

TookOnce == \A m, n \in 1..Len(accepted) : accepted[m] = accepted[n] => m = n

\* The answer a to a post of item i says nothing false.
Honest(i, a) ==
  a.json =>
    /\ a.success => a.id \in 1..Len(accepted) /\ accepted[a.id] = i
    /\ ~a.success /\ OutcomeOf(a.code) # "failed" => ~Took(i)

\* What is known of an exchange by its stage.
Sound(x) ==
  /\ x.stage \in {"request", "sending"} => ~Took(x.item)
  /\ x.stage \in {"accepted", "reply"} => x.answer \in Answers /\ Honest(x.item, x.answer)
  /\ x.stage = "refused" =>
       x.error \in Refusals \cup Unclear /\ (x.error \in Refusals => ~Took(x.item))

\* Nothing of an exchange of ex is under way for item i.
Closed(i, ex) == \A e \in 1..Len(ex) : ex[e].item = i => ex[e].stage = "closed"

Refused(res) == res.result \notin {"delivered", "failed"}

\* The result of item i says nothing false.
Told(i, res) ==
  /\ res.ref = i
  /\ res.result = "delivered" => res.id \in 1..Len(accepted) /\ accepted[res.id] = i
  /\ Refused(res) => ~Took(i)

Truthful(i, res) == Told(i, res) /\ (Refused(res) => Closed(i, exchange))

EmailInv ==
  /\ Ordered /\ TookOnce
  /\ \A n \in 1..Len(accepted) : \E e \in 1..Last : exchange[e].item = accepted[n]
  /\ \A e \in 1..Last : Sound(exchange[e])
  /\ \A i \in 1..Len(results) : Truthful(i, results[i])

----------------------------------------------------------------------------
(* Codes and outcomes. *)

\* An outcome other than `failed` comes from a code that stands for a refusal.
LEMMA OutcomesOfCodes ==
  ASSUME NEW error \in Refusals \cup Unclear
  PROVE  /\ OutcomeOf(CodeOf(error)) # "delivered"
         /\ error \notin Refusals => OutcomeOf(CodeOf(error)) = "failed"
BY DEF Refusals, Unclear, CodeOf, OutcomeOf

\* What the worker refuses itself is no refusal of the service, and no code means delivered.
LEMMA OtherCodes ==
  /\ OutcomeOf("E_BAD_REQUEST") = "failed" /\ OutcomeOf("E_BINDING_MISSING") = "failed"
  /\ \A c \in Codes : OutcomeOf(c) # "delivered"
BY OutcomesOfCodes DEF OutcomeOf, Codes

\* The answers, told apart.
LEMMA AnswersTold ==
  ASSUME NEW a \in Answers
  PROVE  a.json => (a.success => a.id \in Nat) /\ (~a.success => a.code \in Codes)
<1>1. CASE a = PlainText
  BY <1>1 DEF PlainText
<1>2. CASE a \in {Delivery(n) : n \in Nat}
  <2>1. PICK n \in Nat : a = Delivery(n)
    BY <1>2
  <2>2. a.success /\ a.id = n
    BY <2>1 DEF Delivery
  <2>3. QED BY <2>2
<1>3. CASE a \in {Refusal(c) : c \in Codes}
  BY <1>3 DEF Refusal
<1>4. QED BY <1>1, <1>2, <1>3 DEF Answers

\* ResultOf makes results.
LEMMA ResultTyped ==
  ASSUME NEW i \in Item, NEW a \in Answers
  PROVE  ResultOf(i, a) \in Results
<1>1. CASE ~a.json
  BY <1>1 DEF ResultOf, Result, Results, Outcomes
<1>2. CASE a.json /\ a.success
  BY <1>2, AnswersTold DEF ResultOf, Result, Results, Outcomes
<1>3. CASE a.json /\ ~a.success
  <2>1. a.code \in Codes /\ OutcomeOf(a.code) \in Outcomes
    BY <1>3, AnswersTold DEF OutcomeOf, Outcomes
  <2>2. QED BY <1>3, <2>1 DEF ResultOf, Result, Results
<1>4. QED BY <1>1, <1>2, <1>3

\* The result that process_one makes of an honest answer is truthful.
LEMMA ResultTold ==
  ASSUME NEW i \in Item, NEW a \in Answers, Honest(i, a)
  PROVE  Told(i, ResultOf(i, a))
<1>1. CASE ~a.json
  BY <1>1 DEF ResultOf, Result, Told, Refused
<1>2. CASE a.json /\ a.success
  BY <1>2 DEF ResultOf, Result, Told, Refused, Honest
<1>3. CASE a.json /\ ~a.success
  <2>1. OutcomeOf(a.code) # "delivered"
    BY <1>3, AnswersTold, OtherCodes
  <2>2. QED BY <1>3, <2>1 DEF ResultOf, Result, Told, Refused, Honest
<1>4. QED BY <1>1, <1>2, <1>3
----------------------------------------------------------------------------
(* Steps of the worker, the service and the network, on one exchange. *)

\* Exchange e goes on, or ends, and is about the same item.
Moves(e) ==
  /\ e \in 1..Last /\ Len(exchange') = Last /\ exchange' \in Seq(Exchange)
  /\ exchange'[e].item = exchange[e].item
  /\ \A f \in 1..Last : f # e => exchange'[f] = exchange[f]

\* An exchange that is updated moves.
LEMMA UpdateMoves ==
  ASSUME EmailInv, NEW e \in 1..Last, NEW x \in Exchange, x.item = exchange[e].item,
         exchange' = [exchange EXCEPT ![e] = x]
  PROVE  Moves(e) /\ exchange'[e] = x
<1>1. exchange \in Seq(Exchange)
  BY DEF EmailInv, Ordered, Typed
<1>2. QED BY <1>1 DEF Moves

\* Every exchange is one.
LEMMA Exchanges ==
  ASSUME EmailInv, NEW e \in 1..Last
  PROVE  exchange[e] \in Exchange
BY DEF EmailInv, Ordered, Typed

\* An exchange is about an item, and the posts are in the order of the items.
LEMMA ItemsAreItems ==
  ASSUME Ordered, NEW e \in 1..Last
  PROVE  /\ exchange[e].item \in valid /\ exchange[e].item \in 1..BatchSize
         /\ exchange[e].item \in Nat /\ Len(results) \in Nat
         /\ exchange[e].item <= Len(results) \/ (run = "waiting" /\ e = Last)
         /\ \A f \in 1..Last : e < f => exchange[e].item < exchange[f].item
<1>1. /\ exchange[e].item \in valid /\ valid \subseteq 1..BatchSize /\ Len(results) \in Nat
      /\ exchange[e].item <= Len(results) \/ (run = "waiting" /\ e = Last)
      /\ \A f \in 1..Last : e < f => exchange[e].item < exchange[f].item
  BY DEF Ordered, Typed, Placed, InOrder
<1>2. exchange[e].item \in 1..BatchSize
  BY <1>1
<1>3. QED BY <1>1, <1>2

\* Two exchanges are about two items.
LEMMA ItemsDiffer ==
  ASSUME EmailInv, NEW e \in 1..Last, NEW f \in 1..Last, e # f
  PROVE  exchange[e].item # exchange[f].item
<1>1. Ordered
  BY DEF EmailInv
<1>2. e < f \/ f < e
  OBVIOUS
<1>3. QED BY <1>1, <1>2, ItemsAreItems

\* The order of the posts does not depend on how far they are.
LEMMA OrderedMoves ==
  ASSUME Ordered, NEW e, Moves(e), UNCHANGED <<setup, valid, run, results>>,
         accepted' \in Seq(Item)
  PROVE  Ordered'
<1>1. Len(exchange') = Last /\ \A f \in 1..Last : exchange'[f].item = exchange[f].item
  BY DEF Moves
<1>2. ASSUME NEW f \in 1..Len(exchange')
      PROVE  /\ exchange'[f].item \in valid'
             /\ exchange'[f].item <= Len(results') \/ (run' = "waiting" /\ f = Len(exchange'))
             /\ \A g \in 1..Len(exchange') : f < g => exchange'[f].item < exchange'[g].item
  <2>1. /\ f \in 1..Last /\ exchange[f].item \in valid
        /\ exchange[f].item <= Len(results) \/ (run = "waiting" /\ f = Last)
        /\ \A g \in 1..Last : f < g => exchange[f].item < exchange[g].item
    BY <1>1 DEF Ordered, InOrder
  <2>2. QED BY <1>1, <2>1
<1>3. run' = "waiting" => Len(exchange') # 0 /\ exchange'[Len(exchange')].item = Len(results') + 1
  BY <1>1 DEF Ordered, Placed, Moves
<1>4. Typed'
  BY DEF Ordered, Typed, Moves
<1>5. Placed'
  BY <1>1, <1>3 DEF Ordered, Placed
<1>6. InOrder'
  BY <1>2 DEF InOrder
<1>7. QED BY <1>4, <1>5, <1>6 DEF Ordered

\* While an exchange is under way its item is not reported as refused.
LEMMA NotRefused ==
  ASSUME EmailInv, NEW e \in 1..Last, exchange[e].stage # "closed",
         NEW i \in 1..Len(results), i = exchange[e].item
  PROVE  ~Refused(results[i])
BY DEF EmailInv, Truthful, Closed

\* A step of one exchange, by which the service accepts nothing.
LEMMA QuietMove ==
  ASSUME EmailInv, NEW e, Moves(e), exchange[e].stage # "closed",
         UNCHANGED <<setup, valid, run, results, accepted>>,
         Sound(exchange'[e])
  PROVE  EmailInv'
<1>1. Ordered'
  BY OrderedMoves DEF EmailInv, Ordered, Typed
<1>2. TookOnce' /\ \A i : Took(i)' <=> Took(i)
  BY DEF EmailInv, TookOnce, Took
<1>3. \A n \in 1..Len(accepted') : \E f \in 1..Len(exchange') : exchange'[f].item = accepted'[n]
  BY DEF Moves, EmailInv
<1>4. ASSUME NEW f \in 1..Len(exchange') PROVE Sound(exchange[f])'
  <2>1. CASE f = e
    BY <1>2, <2>1 DEF Sound, Honest
  <2>2. CASE f # e
    BY <1>2, <2>2 DEF Moves, EmailInv, Sound, Honest
  <2>3. QED BY <2>1, <2>2
<1>5. ASSUME NEW i \in 1..Len(results') PROVE Truthful(i, results[i])'
  <2>1. Truthful(i, results[i])
    BY DEF EmailInv
  <2>2. CASE ~Refused(results[i])
    BY <2>1, <2>2 DEF Truthful, Told
  <2>3. CASE Refused(results[i])
    <3>1. exchange[e].item # i
      BY <2>3, NotRefused DEF Moves
    <3>2. QED BY <1>2, <2>1, <2>3, <3>1 DEF Truthful, Told, Closed, Moves
  <2>4. QED BY <2>2, <2>3
<1>6. QED BY <1>1, <1>2, <1>3, <1>4, <1>5 DEF EmailInv

\* A step of one exchange, by which the service accepts its message.
LEMMA AcceptingMove ==
  ASSUME EmailInv, NEW e, Moves(e), exchange[e].stage = "sending",
         UNCHANGED <<setup, valid, run, results>>,
         accepted' = Append(accepted, exchange[e].item),
         exchange'[e].stage \in {"accepted", "refused"},
         exchange'[e].stage = "accepted" => exchange'[e].answer = Delivery(Len(accepted) + 1),
         exchange'[e].stage = "refused" => exchange'[e].error \in Unclear
  PROVE  EmailInv'
<1> DEFINE i == exchange[e].item
           n == Len(accepted) + 1
<1>1. accepted \in Seq(Item) /\ i \in Item /\ ~Took(i)
  BY Exchanges DEF EmailInv, Ordered, Typed, Exchange, Moves, Sound
<1>2. /\ accepted' \in Seq(Item) /\ Len(accepted') = n /\ n \in Nat \ {0} /\ accepted'[n] = i
      /\ \A m \in 1..Len(accepted) : accepted'[m] = accepted[m]
  BY <1>1
<1>3. TookOnce' /\ \A j : Took(j)' <=> Took(j) \/ j = i
  BY <1>1, <1>2 DEF EmailInv, TookOnce, Took
<1>4. Ordered'
  BY <1>2, OrderedMoves DEF EmailInv
<1>5. ASSUME NEW m \in 1..Len(accepted')
      PROVE  \E f \in 1..Len(exchange') : exchange'[f].item = accepted'[m]
  <2>1. CASE m = n
    BY <1>2, <2>1 DEF Moves
  <2>2. CASE m # n
    <3>1. m \in 1..Len(accepted) /\ accepted'[m] = accepted[m]
      BY <1>2, <2>2
    <3>2. QED BY <3>1 DEF Moves, EmailInv
  <2>3. QED BY <2>1, <2>2
<1>6. ASSUME NEW f \in 1..Len(exchange') PROVE Sound(exchange[f])'
  <2>1. CASE f = e /\ exchange'[e].stage = "accepted"
    <3>1. exchange'[e].answer = Delivery(n) /\ Delivery(n) \in Answers
      BY <1>2, <2>1 DEF Answers
    <3>2. Honest(exchange[e].item, exchange[e].answer)'
      <4>1. Delivery(n).success /\ Delivery(n).id = n
        BY DEF Delivery
      <4>2. exchange'[e].item = i
        BY DEF Moves
      <4>3. QED BY <1>2, <3>1, <4>1, <4>2 DEF Honest
    <3>3. QED BY <2>1, <3>1, <3>2 DEF Sound
  <2>2. CASE f = e /\ exchange'[e].stage = "refused"
    <3>1. exchange'[e].error \in Unclear /\ exchange'[e].error \notin Refusals
      BY <2>2 DEF Unclear, Refusals
    <3>2. QED BY <2>2, <3>1 DEF Sound
  <2>3. CASE f # e
    <3>1. f \in 1..Last /\ exchange'[f] = exchange[f] /\ exchange[f].item # i /\ Sound(exchange[f])
      BY <2>3, ItemsDiffer DEF Moves, EmailInv
    <3>2. QED BY <1>2, <1>3, <3>1 DEF Sound, Honest
  <2>4. QED BY <2>1, <2>2, <2>3
<1>7. ASSUME NEW j \in 1..Len(results') PROVE Truthful(j, results[j])'
  <2>1. Truthful(j, results[j])
    BY DEF EmailInv
  <2>2. CASE ~Refused(results[j])
    BY <1>2, <2>1, <2>2 DEF Truthful, Told
  <2>3. CASE Refused(results[j])
    <3>1. i # j
      BY <2>3, NotRefused DEF Moves
    <3>2. QED BY <1>3, <2>1, <2>3, <3>1 DEF Truthful, Told, Closed, Moves
  <2>4. QED BY <2>2, <2>3
<1>8. QED BY <1>3, <1>4, <1>5, <1>6, <1>7 DEF EmailInv
----------------------------------------------------------------------------
(* Steps of the plugin. *)

\* A truthful result, for the item that is due, with its exchange given up or closed.
LEMMA ReportStep ==
  ASSUME EmailInv, run \in {"next", "waiting"}, NEW res \in Results, Report(res),
         UNCHANGED <<setup, valid, accepted>>, Told(Current, res),
         Refused(res) => Closed(Current, exchange'),
         \/ UNCHANGED exchange
         \/ Moves(Last) /\ exchange'[Last].stage = "closed"
  PROVE  EmailInv'
<1>1. /\ results \in Seq(Results) /\ Current \in 1..BatchSize
      /\ results' \in Seq(Results) /\ Len(results') = Current
      /\ results'[Current] = res /\ \A i \in 1..Len(results) : results'[i] = results[i]
      /\ run' = IF Current = BatchSize THEN "done" ELSE "next"
  BY DEF Report, EmailInv, Ordered, Typed, Placed
<1>2. /\ exchange' \in Seq(Exchange) /\ Len(exchange') = Last
      /\ \A e \in 1..Last : /\ exchange'[e].item = exchange[e].item
                            /\ exchange'[e] = exchange[e] \/ exchange'[e].stage = "closed"
  BY DEF Moves, EmailInv, Ordered, Typed
<1>3. Ordered'
  <2>1. ASSUME NEW e \in 1..Last
        PROVE  /\ exchange[e].item \in valid /\ exchange[e].item <= Current
               /\ \A f \in 1..Last : e < f => exchange[e].item < exchange[f].item
    <3>1. CASE exchange[e].item <= Len(results)
      BY <3>1, ItemsAreItems DEF EmailInv
    <3>2. CASE run = "waiting" /\ e = Last
      BY <1>1, <3>2, ItemsAreItems DEF EmailInv, Ordered, Typed, Placed, InOrder
    <3>3. QED BY <3>1, <3>2, ItemsAreItems DEF EmailInv
  <2>2. \A e \in 1..Len(exchange') :
          /\ exchange'[e].item \in valid' /\ exchange'[e].item <= Len(results')
          /\ \A f \in 1..Len(exchange') : e < f => exchange'[e].item < exchange'[f].item
    BY <1>1, <1>2, <2>1
  <2>3. setup' \in Setup /\ valid' \subseteq Item /\ accepted' \in Seq(Item)
    BY DEF EmailInv, Ordered, Typed
  <2>4. \/ run' = "done" /\ Len(results') = BatchSize
        \/ run' = "next" /\ Len(results') < BatchSize
    <3> DEFINE n == Current
    <3>1. n \in 1..BatchSize /\ Len(results') = n /\ run' = IF n = BatchSize THEN "done" ELSE "next"
      BY <1>1
    <3> HIDE DEF n
    <3>2. CASE n = BatchSize
      <4>1. run' = "done"
        BY <3>1, <3>2
      <4>2. Len(results') = BatchSize
        BY <3>1, <3>2
      <4>3. QED BY <4>1, <4>2
    <3>3. CASE n # BatchSize
      <4>1. n < BatchSize
        BY <3>1, <3>3
      <4>2. QED BY <3>1, <3>3, <4>1
    <3>4. QED BY <3>2, <3>3
  <2>5. Typed'
    BY <1>1, <1>2, <2>3, <2>4 DEF Typed
  <2>6. Placed'
    BY <1>1, <2>4 DEF Placed
  <2>7. InOrder'
    BY <2>2 DEF InOrder
  <2>8. QED BY <2>5, <2>6, <2>7 DEF Ordered
<1>4. TookOnce' /\ \A i : Took(i)' <=> Took(i)
  BY DEF EmailInv, TookOnce, Took
<1>5. \A n \in 1..Len(accepted') : \E e \in 1..Len(exchange') : exchange'[e].item = accepted'[n]
  BY <1>2 DEF EmailInv
<1>6. ASSUME NEW e \in 1..Len(exchange') PROVE Sound(exchange[e])'
  BY <1>2, <1>4 DEF EmailInv, Sound, Honest
<1>7. ASSUME NEW i \in 1..Len(results') PROVE Truthful(i, results[i])'
  <2>1. CASE i = Current
    BY <1>1, <1>4, <2>1 DEF Truthful, Told
  <2>2. CASE i # Current
    <3>1. i \in 1..Len(results) /\ results'[i] = results[i]
      BY <1>1, <2>2
    <3>2. Truthful(i, results[i])
      BY <3>1 DEF EmailInv
    <3>3. Closed(i, exchange) => Closed(i, exchange')
      BY <1>2 DEF Closed
    <3>4. QED BY <1>4, <3>1, <3>2, <3>3 DEF Truthful, Told
  <2>3. QED BY <2>1, <2>2
<1>8. QED BY <1>3, <1>4, <1>5, <1>6, <1>7 DEF EmailInv

\* A post is the first of its item, and the service has not seen it.
LEMMA PostStep ==
  ASSUME EmailInv, Post
  PROVE  EmailInv'
<1> DEFINE x == [item |-> Current, stage |-> "request", error |-> NoError, answer |-> NoAnswer]
<1>1. /\ run = "next" /\ Current \in valid /\ valid \subseteq Item
      /\ exchange' = Append(exchange, x) /\ run' = "waiting"
      /\ /\ UNCHANGED <<setup, valid, results, accepted>>
      /\ exchange \in Seq(Exchange) /\ Len(results) \in Nat
  BY DEF Post, EmailInv, Ordered, Typed, Placed, InOrder
<1>2. x \in Exchange /\ x.item = Current /\ x.stage = "request"
  BY <1>1 DEF Exchange, Stages
<1> HIDE DEF x
<1>3. /\ exchange' \in Seq(Exchange) /\ Len(exchange') = Last + 1 /\ exchange'[Last + 1] = x
      /\ \A e \in 1..Last : exchange'[e] = exchange[e]
  BY <1>1, <1>2
<1>4. \A e \in 1..Last : exchange[e].item \in valid /\ exchange[e].item < Current
  <2>1. \A e \in 1..Last : /\ exchange[e].item \in valid /\ exchange[e].item \in Nat
                           /\ exchange[e].item <= Len(results)
    BY <1>1, ItemsAreItems DEF EmailInv
  <2>2. QED BY <1>1, <2>1
<1>5. ~Took(Current)
  BY <1>4 DEF EmailInv, Took
<1>6. Ordered'
  <2>1. ASSUME NEW e \in 1..Len(exchange')
        PROVE  /\ exchange'[e].item \in valid
               /\ exchange'[e].item <= Len(results) \/ e = Len(exchange')
               /\ \A f \in 1..Len(exchange') : e < f => exchange'[e].item < exchange'[f].item
    <3>1. CASE e = Last + 1
      BY <1>1, <1>2, <1>3, <3>1
    <3>2. CASE e # Last + 1
      <4>1. e \in 1..Last /\ exchange'[e] = exchange[e]
        BY <1>3, <3>2
      <4>2. ASSUME NEW f \in 1..Len(exchange'), e < f PROVE exchange'[e].item < exchange'[f].item
        <5>1. CASE f = Last + 1
          BY <1>2, <1>3, <1>4, <4>1, <5>1
        <5>2. CASE f # Last + 1
          <6>1. f \in 1..Last /\ exchange'[f] = exchange[f]
            BY <1>3, <5>2
          <6>2. QED BY <4>1, <4>2, <6>1, ItemsAreItems DEF EmailInv
        <5>3. QED BY <5>1, <5>2
      <4>3. QED BY <1>1, <1>4, <4>1, <4>2 DEF EmailInv, Ordered, InOrder
    <3>3. QED BY <3>1, <3>2
  <2>2. /\ setup' \in Setup /\ accepted' \in Seq(Item)
        /\ results' \in Seq(Results) /\ Len(results') < BatchSize
    BY <1>1 DEF EmailInv, Ordered, Typed
  <2>3. Typed'
    BY <1>1, <1>3, <2>2 DEF Typed
  <2>4. Placed'
    BY <1>1, <1>2, <1>3, <2>2 DEF Placed
  <2>5. InOrder'
    BY <1>1, <2>1 DEF InOrder
  <2>6. QED BY <2>3, <2>4, <2>5 DEF Ordered
<1>7. TookOnce' /\ \A i : Took(i)' <=> Took(i)
  BY <1>1 DEF EmailInv, TookOnce, Took
<1>8. \A n \in 1..Len(accepted') : \E e \in 1..Len(exchange') : exchange'[e].item = accepted'[n]
  BY <1>1, <1>3 DEF EmailInv
<1>9. ASSUME NEW e \in 1..Len(exchange') PROVE Sound(exchange[e])'
  <2>1. CASE e = Last + 1
    BY <1>2, <1>3, <1>5, <1>7, <2>1 DEF Sound
  <2>2. CASE e # Last + 1
    BY <1>1, <1>3, <1>7, <2>2 DEF EmailInv, Sound, Honest
  <2>3. QED BY <2>1, <2>2
<1>10. ASSUME NEW i \in 1..Len(results') PROVE Truthful(i, results[i])'
  <2>1. Truthful(i, results[i]) /\ i # Current
    BY <1>1 DEF EmailInv
  <2>2. \A e \in 1..Len(exchange') :
          exchange'[e].item = i => e \in 1..Last /\ exchange'[e] = exchange[e]
    BY <1>2, <1>3, <2>1
  <2>3. QED BY <1>1, <1>7, <2>1, <2>2 DEF Truthful, Told, Closed
<1>11. QED BY <1>6, <1>7, <1>8, <1>9, <1>10 DEF EmailInv
----------------------------------------------------------------------------
(* All steps of EmailSend. *)

\* EmailInv holds at first.
LEMMA EmailInit == Init => EmailInv
<1> SUFFICES ASSUME Init PROVE EmailInv
  OBVIOUS
<1>1. Last = 0 /\ Len(accepted) = 0 /\ Len(results) = 0
  BY DEF Init
<1>2. Ordered
  BY <1>1 DEF Init, Ordered, Typed, Placed, InOrder
<1>3. QED BY <1>1, <1>2 DEF EmailInv, TookOnce

\* An answer that says nothing false.
LEMMA ReplyStep ==
  ASSUME EmailInv, NEW e \in 1..Last, NEW a \in Answers, Reply(e, a), Honest(exchange[e].item, a),
         exchange[e].stage # "closed", UNCHANGED <<setup, valid, run, results, accepted>>
  PROVE  EmailInv'
<1> DEFINE x == [exchange[e] EXCEPT !.stage = "reply", !.error = NoError, !.answer = a]
<1>0. exchange[e] \in Exchange /\ exchange \in Seq(Exchange)
  BY Exchanges DEF EmailInv, Ordered, Typed
<1>1. x \in Exchange /\ x.item = exchange[e].item /\ x.stage = "reply" /\ x.answer = a
  BY <1>0 DEF Stages, Exchange
<1>2. exchange' = [exchange EXCEPT ![e] = x]
  BY <1>0 DEF Reply
<1> HIDE DEF x
<1>3. Moves(e) /\ exchange'[e].stage = "reply" /\ exchange'[e].answer = a
  BY <1>1, <1>2, UpdateMoves
<1>4. Sound(exchange'[e])
  BY <1>3 DEF Sound, Moves
<1>5. QED BY <1>3, <1>4, QuietMove

\* An exchange that is over.
LEMMA CloseMoves ==
  ASSUME EmailInv, NEW e \in 1..Last, Close(e)
  PROVE  Moves(e) /\ exchange'[e].stage = "closed" /\ Sound(exchange'[e])
<1> DEFINE x == [exchange[e] EXCEPT !.stage = "closed", !.error = NoError, !.answer = NoAnswer]
<1>0. exchange[e] \in Exchange /\ exchange \in Seq(Exchange)
  BY Exchanges DEF EmailInv, Ordered, Typed
<1>1. x \in Exchange /\ x.item = exchange[e].item /\ x.stage = "closed"
  BY <1>0 DEF Stages, Exchange
<1>2. exchange' = [exchange EXCEPT ![e] = x]
  BY <1>0 DEF Close
<1> HIDE DEF x
<1>3. Moves(e) /\ exchange'[e].stage = "closed"
  BY <1>1, <1>2, UpdateMoves
<1>4. QED BY <1>3 DEF Sound

\* The worker's steps.
LEMMA WorkerStep ==
  ASSUME EmailInv, NEW e \in Item, Worker(e)
  PROVE  EmailInv'
<1>1. e \in 1..Last
  BY DEF Worker, HandleSend, ServiceAccepts, ServiceRefuses, AnswerSend, WorkerDies, Lose, At
<1>2. exchange[e] \in Exchange /\ Sound(exchange[e])
  BY <1>1, Exchanges DEF EmailInv
<1>3. PlainText \in Answers /\ Honest(exchange[e].item, PlainText)
  BY DEF Answers, PlainText, Honest
<1>4. CASE HandleSend(e)
  <2> DEFINE own == {"E_BAD_REQUEST", "E_BINDING_MISSING"}
  <2>1. \A c \in own : Refusal(c) \in Answers
    BY DEF Answers, Codes
  <2>2. \A c \in own : Honest(exchange[e].item, Refusal(c))
    BY OtherCodes DEF Honest, Refusal
  <2>3. CASE exchange' = [exchange EXCEPT ![e].stage = "sending"]
    <3> DEFINE x == [exchange[e] EXCEPT !.stage = "sending"]
    <3>1. x \in Exchange /\ x.item = exchange[e].item /\ x.stage = "sending"
      BY <1>2 DEF Stages, Exchange
    <3>2. exchange' = [exchange EXCEPT ![e] = x]
      BY <1>1, <2>3
    <3> HIDE DEF x
    <3>3. Moves(e) /\ exchange'[e].stage = "sending" /\ exchange'[e].item = exchange[e].item
      BY <1>1, <3>1, <3>2, UpdateMoves
    <3>4. exchange[e].stage = "request" /\ UNCHANGED <<setup, valid, run, results, accepted>>
      BY <1>4 DEF HandleSend, At
    <3>5. Sound(exchange'[e])
      BY <1>2, <3>3, <3>4 DEF Sound
    <3>6. QED BY <3>3, <3>4, <3>5, QuietMove
  <2>4. ASSUME NEW c \in own, NEW answer \in ErrAnswers(c), Reply(e, answer) PROVE EmailInv'
    <3>1. answer \in Answers /\ Honest(exchange[e].item, answer)
      BY <1>3, <2>1, <2>2 DEF ErrAnswers
    <3>2. QED BY <1>1, <1>4, <2>4, <3>1, ReplyStep DEF HandleSend, At
  <2>5. QED BY <1>1, <1>3, <1>4, <2>3, <2>4, ReplyStep DEF HandleSend, At
<1>5. CASE ServiceAccepts(e)
  <2> DEFINE a == Delivery(Len(accepted) + 1)
             x == [exchange[e] EXCEPT !.stage = "accepted", !.answer = a]
  <2>1. a \in Answers
    <3>1. Len(accepted) + 1 \in Nat
      BY DEF EmailInv, Ordered, Typed
    <3>2. QED BY <3>1 DEF Answers
  <2> HIDE DEF a
  <2>2. x \in Exchange /\ x.item = exchange[e].item /\ x.stage = "accepted" /\ x.answer = a
    BY <1>2, <2>1 DEF Stages, Exchange
  <2>3. exchange' = [exchange EXCEPT ![e] = x]
    BY <1>1, <1>5 DEF ServiceAccepts, a
  <2> HIDE DEF x
  <2>4. Moves(e) /\ exchange'[e].stage = "accepted" /\ exchange'[e].answer = a
    BY <1>1, <2>2, <2>3, UpdateMoves
  <2>5. /\ exchange[e].stage = "sending" /\ accepted' = Append(accepted, exchange[e].item)
        /\ UNCHANGED <<setup, valid, run, results>>
    BY <1>5 DEF ServiceAccepts, At
  <2>6. QED BY <2>4, <2>5, AcceptingMove DEF a
<1>6. CASE ServiceRefuses(e)
  <2>1. PICK error \in Refusals \cup Unclear :
          /\ exchange' = [exchange EXCEPT ![e].stage = "refused", ![e].error = error]
          /\ \/ UNCHANGED accepted
             \/ error \in Unclear /\ accepted' = Append(accepted, exchange[e].item)
    BY <1>6 DEF ServiceRefuses
  <2> DEFINE x == [exchange[e] EXCEPT !.stage = "refused", !.error = error]
  <2>2. x \in Exchange /\ x.item = exchange[e].item /\ x.stage = "refused" /\ x.error = error
    BY <1>2 DEF Stages, Exchange
  <2>3. exchange' = [exchange EXCEPT ![e] = x]
    BY <1>1, <2>1
  <2> HIDE DEF x
  <2>4. /\ Moves(e) /\ exchange'[e].stage = "refused" /\ exchange'[e].error = error
        /\ exchange'[e].item = exchange[e].item
    BY <1>1, <2>2, <2>3, UpdateMoves
  <2>5. exchange[e].stage = "sending" /\ UNCHANGED <<setup, valid, run, results>>
    BY <1>6 DEF ServiceRefuses, At
  <2>6. CASE UNCHANGED accepted
    <3>1. Sound(exchange'[e])
      BY <1>2, <2>4, <2>5 DEF Sound
    <3>2. QED BY <2>4, <2>5, <2>6, <3>1, QuietMove
  <2>7. CASE error \in Unclear /\ accepted' = Append(accepted, exchange[e].item)
    BY <2>4, <2>5, <2>7, AcceptingMove
  <2>8. QED BY <2>1, <2>6, <2>7
<1>7. CASE AnswerSend(e)
  <2>1. CASE At(e, "accepted") /\ Reply(e, exchange[e].answer)
    BY <1>1, <1>2, <1>7, <2>1, ReplyStep DEF AnswerSend, At, Sound
  <2>2. CASE At(e, "accepted") /\ Reply(e, PlainText)
    BY <1>1, <1>3, <1>7, <2>2, ReplyStep DEF AnswerSend, At
  <2>3. ASSUME At(e, "refused"), NEW answer \in ErrAnswers(CodeOf(exchange[e].error)),
               Reply(e, answer)
        PROVE  EmailInv'
    <3> DEFINE error == exchange[e].error
    <3>1. error \in Refusals \cup Unclear /\ (error \in Refusals => ~Took(exchange[e].item))
      BY <1>2, <2>3 DEF Sound, At
    <3>2. Refusal(CodeOf(error)) \in Answers
      BY <3>1 DEF Answers, Codes
    <3>3. Honest(exchange[e].item, Refusal(CodeOf(error)))
      BY <3>1, OutcomesOfCodes DEF Honest, Refusal
    <3>4. answer \in Answers /\ Honest(exchange[e].item, answer)
      BY <1>3, <2>3, <3>2, <3>3 DEF ErrAnswers
    <3>5. QED BY <1>1, <1>7, <2>3, <3>4, ReplyStep DEF AnswerSend, At
  <2>4. QED BY <1>7, <2>1, <2>2, <2>3 DEF AnswerSend
<1>8. CASE WorkerDies(e)
  <2>1. exchange[e].stage # "closed" /\ UNCHANGED <<setup, valid, run, results, accepted>>
    BY <1>8 DEF WorkerDies, At
  <2>2. CASE Reply(e, PlainText)
    BY <1>1, <1>3, <2>1, <2>2, ReplyStep
  <2>3. CASE Close(e)
    BY <1>1, <2>1, <2>3, CloseMoves, QuietMove
  <2>4. QED BY <1>8, <2>2, <2>3 DEF WorkerDies
<1>9. CASE Lose(e)
  <2>1. /\ exchange[e].stage # "closed" /\ Close(e)
        /\ UNCHANGED <<setup, valid, run, results, accepted>>
    BY <1>9 DEF Lose, At
  <2>2. QED BY <1>1, <2>1, CloseMoves, QuietMove
<1>10. QED BY <1>4, <1>5, <1>6, <1>7, <1>8, <1>9 DEF Worker

\* The parts of EmailInv that are about exchanges, results and accepted messages only.
LEMMA SameInv ==
  ASSUME EmailInv, UNCHANGED <<results, exchange, accepted>>, Ordered'
  PROVE  EmailInv'
<1>1. TookOnce' /\ \A i : Took(i)' <=> Took(i)
  BY DEF EmailInv, TookOnce, Took
<1>2. ASSUME NEW e \in 1..Len(exchange') PROVE Sound(exchange[e])'
  BY <1>1 DEF EmailInv, Sound, Honest
<1>3. ASSUME NEW i \in 1..Len(results') PROVE Truthful(i, results[i])'
  BY <1>1 DEF EmailInv, Truthful, Told, Closed
<1>4. QED BY <1>1, <1>2, <1>3 DEF EmailInv

\* The plugin's steps.
LEMMA PluginStep ==
  ASSUME EmailInv, Plugin
  PROVE  EmailInv'
<1>1. CASE Start
  <2>1. /\ run = "ready" /\ run' \in {"misconfigured", "done", "next"}
        /\ run' = "done" => BatchSize = 0
        /\ run' = "next" => BatchSize # 0
        /\ UNCHANGED <<setup, valid, results, exchange, accepted>>
    BY <1>1 DEF Start
  <2>2. Last = 0 /\ Len(results) = 0
    BY <2>1 DEF EmailInv, Ordered, Typed, Placed
  <2>3. Ordered'
    BY <2>1, <2>2 DEF EmailInv, Ordered, Typed, Placed, InOrder
  <2>4. QED BY <2>1, <2>3, SameInv
<1>2. CASE RejectRecord
  <2> DEFINE res == Result(Current, "failed", 0, "E_BAD_REQUEST")
  <2>1. Current \in Item
    BY <1>2 DEF RejectRecord, EmailInv, Ordered, Typed, Placed
  <2>2. res \in Results /\ Told(Current, res) /\ ~Refused(res)
    BY <2>1 DEF Result, Results, Outcomes, Told, Refused
  <2>3. QED BY <1>2, <2>2, ReportStep DEF RejectRecord
<1>3. CASE Post
  BY <1>3, PostStep
<1>4. CASE Receive
  <2> DEFINE a == exchange[Last].answer
  <2>1. /\ run = "waiting" /\ exchange[Last].stage = "reply" /\ Close(Last)
        /\ Report(ResultOf(Current, a)) /\ UNCHANGED <<setup, valid, accepted>>
    BY <1>4 DEF Receive
  <2>2. Last \in 1..Last /\ exchange[Last].item = Current /\ Current \in Item
    BY <2>1 DEF EmailInv, Ordered, Typed, Placed
  <2>3. a \in Answers /\ Honest(Current, a)
    BY <2>1, <2>2 DEF EmailInv, Sound
  <2>4. Moves(Last) /\ exchange'[Last].stage = "closed" /\ Sound(exchange'[Last])
    BY <2>1, <2>2, CloseMoves
  <2>5. ResultOf(Current, a) \in Results /\ Told(Current, ResultOf(Current, a))
    BY <2>2, <2>3, ResultTyped, ResultTold
  <2>6. Closed(Current, exchange')
    <3>1. ASSUME NEW e \in 1..Last, e # Last PROVE exchange'[e].item # Current
      BY <2>2, <2>4, <3>1, ItemsDiffer DEF Moves
    <3>2. QED BY <2>4, <3>1 DEF Closed, Moves
  <2>7. QED BY <2>1, <2>4, <2>5, <2>6, ReportStep
<1>5. CASE GiveUp
  <2> DEFINE res == Result(Current, "failed", 0, "E_TRANSPORT")
  <2>1. Current \in Item
    BY <1>5 DEF GiveUp, EmailInv, Ordered, Typed, Placed
  <2>2. res \in Results /\ Told(Current, res) /\ ~Refused(res)
    BY <2>1 DEF Result, Results, Outcomes, Told, Refused
  <2>3. QED BY <1>5, <2>2, ReportStep DEF GiveUp
<1>6. QED BY <1>1, <1>2, <1>3, <1>4, <1>5 DEF Plugin

\* EmailInv is inductive.
LEMMA EmailInductive ==
  ASSUME EmailInv, [Next]_vars
  PROVE  EmailInv'
<1>1. CASE Plugin
  BY <1>1, PluginStep
<1>2. CASE \E e \in Item : Worker(e)
  BY <1>2, WorkerStep
<1>3. CASE UNCHANGED vars
  <2>1. UNCHANGED <<setup, valid, run, results, exchange, accepted>>
    BY <1>3 DEF vars
  <2>2. Ordered'
    BY <2>1 DEF EmailInv, Ordered, Typed, Placed, InOrder
  <2>3. QED BY <2>1, <2>2, SameInv
<1>4. QED BY <1>1, <1>2, <1>3 DEF Next, Ended

\* The four invariants of EmailSend follow from EmailInv.
LEMMA EmailImplied ==
  ASSUME EmailInv
  PROVE  TypeOK /\ DeliveredMeansAccepted /\ RefusedMeansNotSent /\ AtMostOnce
<1>1. TypeOK
  <2>1. \A e \in 1..Last : exchange[e].item \in valid /\ exchange[e].stage \in Stages
    BY Exchanges DEF Exchange, EmailInv, Ordered, InOrder
  <2>2. QED BY <2>1 DEF TypeOK, EmailInv, Ordered, Typed, Placed, Truthful, Told
<1>2. DeliveredMeansAccepted
  BY DEF DeliveredMeansAccepted, EmailInv, Truthful, Told
<1>3. RefusedMeansNotSent
  BY DEF RefusedMeansNotSent, EmailInv, Truthful, Told, Refused, Closed, Took, Times
<1>4. AtMostOnce
  BY DEF AtMostOnce, EmailInv, TookOnce, Times
<1>5. QED BY <1>1, <1>2, <1>3, <1>4
----------------------------------------------------------------------------
(* The handler of the inbound mails. *)

MailStages == {"none", "arrived", "raw", "posting", "ok", "refused", "broken", "ended", "lost"}
Mail == [stage : MailStages, logged : BOOLEAN, taken : Nat, deaths : Nat]

\* The counts of a mail agree with how far it is: a post that was not answered yet has not
\* been taken in, except for the lives of the worker before this one.
Counted(m) ==
  /\ m.taken <= 1 + m.deaths
  /\ m.stage \in {"arrived", "raw", "posting"} => m.taken <= m.deaths
  /\ m.stage = "none" => m.taken = 0
  /\ m.stage = "ok" => m.taken > 0
  /\ m.stage = "ended" /\ ~m.logged => m.taken > 0

FlowInv ==
  /\ EmailInv /\ mail \in [Message -> Mail]
  /\ \A n \in Message : Counted(mail[n]) /\ (mail[n].stage # "none" => n <= Len(accepted))

\* FlowInv holds at first.
LEMMA FlowStarts == FlowInit => FlowInv
<1>1. NoMail \in Mail /\ Counted(NoMail) /\ NoMail.stage = "none"
  BY DEF NoMail, Mail, MailStages, Counted
<1> HIDE DEF NoMail
<1>2. QED BY <1>1, EmailInit DEF FlowInit, FlowInv

\* What the service has accepted it does not take back.
LEMMA AcceptedGrows ==
  ASSUME EmailInv, Next
  PROVE  Len(accepted) \in Nat /\ Len(accepted') \in Nat /\ Len(accepted) <= Len(accepted')
<1>1. accepted \in Seq(Item)
  BY DEF EmailInv, Ordered, Typed
<1>2. UNCHANGED accepted \/ \E e \in Item : ServiceAccepts(e) \/ ServiceRefuses(e)
  BY DEF Next, Plugin, Start, RejectRecord, Post, Receive, GiveUp, Worker, HandleSend, AnswerSend,
         WorkerDies, Lose, Ended, vars
<1>3. ASSUME NEW e \in Item, ServiceAccepts(e) \/ ServiceRefuses(e)
      PROVE  UNCHANGED accepted \/ accepted' = Append(accepted, exchange[e].item)
  BY <1>3 DEF ServiceAccepts, ServiceRefuses
<1>4. ASSUME NEW e \in Item, accepted' = Append(accepted, exchange[e].item),
             ServiceAccepts(e) \/ ServiceRefuses(e)
      PROVE  Len(accepted') = Len(accepted) + 1
  <2>1. e \in 1..Last
    BY <1>4 DEF ServiceAccepts, ServiceRefuses, At
  <2>2. exchange[e].item \in Item
    BY <2>1, Exchanges DEF Exchange
  <2>3. QED BY <1>1, <1>4, <2>2
<1>5. QED BY <1>1, <1>2, <1>3, <1>4

\* One mail goes on, the others stay.
LEMMA MailMoves ==
  ASSUME FlowInv, UNCHANGED <<vars, hook>>, NEW n \in Message, NEW m \in Mail,
         mail' = [mail EXCEPT ![n] = m], Counted(m), n <= Len(accepted)
  PROVE  FlowInv'
<1>1. EmailInv'
  BY EmailInductive DEF FlowInv
<1>2. mail' \in [Message -> Mail]
  BY DEF FlowInv
<1>3. UNCHANGED accepted
  BY DEF vars
<1>4. ASSUME NEW k \in Message
      PROVE  Counted(mail'[k]) /\ (mail'[k].stage # "none" => k <= Len(accepted'))
  <2>1. CASE k = n
    BY <1>3, <2>1 DEF FlowInv
  <2>2. CASE k # n
    BY <1>3, <2>2 DEF FlowInv
  <2>3. QED BY <2>1, <2>2
<1>5. QED BY <1>1, <1>2, <1>4 DEF FlowInv, Message

\* The steps of the handler, the webhook and the platform.
LEMMA InboundStep ==
  ASSUME FlowInv, NEW n \in Message, Inbound(n), UNCHANGED <<vars, hook>>
  PROVE  FlowInv'
<1> DEFINE m == mail[n]
<1>1. /\ m \in Mail /\ Counted(m) /\ (m.stage # "none" => n <= Len(accepted))
      /\ mail \in [Message -> Mail]
  BY DEF FlowInv
<1>2. ASSUME NEW stage \in MailStages, Advance(n, stage), n <= Len(accepted),
             stage = "arrived" => m.taken = 0,
             stage \in {"raw", "posting"} => m.stage \in {"arrived", "raw"},
             stage \in {"ok", "ended"} => m.taken > 0, stage # "none"
      PROVE  FlowInv'
  <2> DEFINE x == [m EXCEPT !.stage = stage]
  <2>1. x \in Mail /\ Counted(x)
    BY <1>1, <1>2 DEF Mail, Counted
  <2>2. mail' = [mail EXCEPT ![n] = x]
    BY <1>1, <1>2 DEF Advance
  <2> HIDE DEF x
  <2>3. QED BY <1>2, <2>1, <2>2, MailMoves
<1>3. ASSUME LogAndEnd(n), n <= Len(accepted) PROVE FlowInv'
  <2> DEFINE x == [m EXCEPT !.stage = "ended", !.logged = TRUE]
  <2>1. x \in Mail /\ Counted(x)
    BY <1>1 DEF Mail, Counted, MailStages
  <2>2. mail' = [mail EXCEPT ![n] = x]
    BY <1>1, <1>3 DEF LogAndEnd
  <2> HIDE DEF x
  <2>3. QED BY <1>3, <2>1, <2>2, MailMoves
<1>4. ASSUME NEW stage \in {"ok", "broken"}, Stage(n, "posting"),
             mail' = [mail EXCEPT ![n].stage = stage, ![n].taken = @ + 1]
      PROVE  FlowInv'
  <2> DEFINE x == [m EXCEPT !.stage = stage, !.taken = m.taken + 1]
  <2>1. x \in Mail /\ Counted(x)
    BY <1>1, <1>4 DEF Mail, Counted, MailStages, Stage
  <2>2. mail' = [mail EXCEPT ![n] = x]
    BY <1>1, <1>4
  <2> HIDE DEF x
  <2>3. n <= Len(accepted)
    BY <1>1, <1>4 DEF Stage
  <2>4. QED BY <2>1, <2>2, <2>3, MailMoves
<1>5. CASE ReplyArrives(n)
  BY <1>1, <1>2, <1>5 DEF ReplyArrives, Stage, MailStages, Counted
<1>6. CASE Configure(n)
  BY <1>1, <1>2, <1>3, <1>6 DEF Configure, Stage, MailStages
<1>7. CASE Prepare(n)
  BY <1>1, <1>2, <1>3, <1>7 DEF Prepare, Stage, MailStages
<1>8. CASE EndPost(n)
  BY <1>1, <1>2, <1>3, <1>8 DEF EndPost, Stage, MailStages, Counted
<1>9. CASE WebhookAnswers(n)
  BY <1>1, <1>2, <1>4, <1>9 DEF WebhookAnswers, Stage, MailStages
<1>10. CASE PostBreaks(n)
  BY <1>1, <1>2, <1>4, <1>10 DEF PostBreaks, Stage, MailStages
<1>11. CASE Dies(n)
  <2>1. PICK stage \in {"arrived", "lost"}, more \in 0..1 :
          /\ more = 1 => Stage(n, "posting")
          /\ mail' = [mail EXCEPT ![n].stage = stage, ![n].taken = @ + more, ![n].deaths = @ + 1]
    BY <1>11 DEF Dies
  <2> DEFINE x == [m EXCEPT !.stage = stage, !.taken = m.taken + more, !.deaths = m.deaths + 1]
  <2>2. x \in Mail /\ x.stage = stage /\ x.taken = m.taken + more /\ x.deaths = m.deaths + 1
    BY <1>1, <2>1 DEF Mail, MailStages
  <2>3. mail' = [mail EXCEPT ![n] = x]
    BY <1>1, <2>1
  <2> HIDE DEF x
  <2>4. m.stage # "none" /\ m.taken \in Nat /\ m.deaths \in Nat
    BY <1>1, <1>11 DEF Dies, Mail
  <2>5. m.taken + more <= m.deaths + 1
    BY <1>1, <2>1, <2>4 DEF Counted, Stage
  <2>6. Counted(x)
    BY <2>1, <2>2, <2>4, <2>5 DEF Counted
  <2>7. QED BY <1>1, <2>2, <2>3, <2>4, <2>6, MailMoves
<1>12. QED BY <1>5, <1>6, <1>7, <1>8, <1>9, <1>10, <1>11 DEF Inbound

\* FlowInv is inductive.
LEMMA FlowInductive ==
  ASSUME FlowInv, [FlowNext]_flowVars
  PROVE  FlowInv'
<1>1. CASE Next /\ UNCHANGED flow
  <2>1. EmailInv'
    BY <1>1, EmailInductive DEF FlowInv
  <2>2. Len(accepted) \in Nat /\ Len(accepted') \in Nat /\ Len(accepted) <= Len(accepted')
    BY <1>1, AcceptedGrows DEF FlowInv
  <2>3. UNCHANGED mail
    BY <1>1 DEF flow
  <2>4. ASSUME NEW n \in Message, n <= Len(accepted) PROVE n <= Len(accepted')
    BY <2>2, <2>4 DEF Message
  <2>5. QED BY <2>1, <2>3, <2>4 DEF FlowInv
<1>2. CASE (\E n \in Message : Inbound(n)) /\ UNCHANGED <<vars, hook>>
  BY <1>2, InboundStep
<1>3. CASE UNCHANGED flowVars
  <2>1. EmailInv'
    BY <1>3, EmailInductive DEF FlowInv, flowVars
  <2>2. UNCHANGED <<mail, accepted>>
    BY <1>3 DEF flowVars, flow, vars
  <2>3. QED BY <2>1, <2>2 DEF FlowInv
<1>4. QED BY <1>1, <1>2, <1>3 DEF FlowNext

\* FlowInv holds always.
LEMMA FlowInvariant == FlowSpec => []FlowInv
<1>1. FlowInv /\ [FlowNext]_flowVars => FlowInv'
  BY FlowInductive
<1>2. QED BY <1>1, FlowStarts, PTL DEF FlowSpec
----------------------------------------------------------------------------
(* Theorems. *)

\* Type correctness: results in the order of the items, as many as the command's state says.
THEOREM EmailTypeCorrect == FlowSpec => []TypeOK
<1>1. FlowInv => TypeOK
  BY EmailImplied DEF FlowInv
<1>2. QED BY <1>1, FlowInvariant, PTL

\* No late or foreign answer makes process_one report a message as delivered.
THEOREM DeliveriesAreAccepted == FlowSpec => []DeliveredMeansAccepted
<1>1. FlowInv => DeliveredMeansAccepted
  BY EmailImplied DEF FlowInv
<1>2. QED BY <1>1, FlowInvariant, PTL

\* An outcome that stands for a refusal is final: the message is not sent, nor will it be.
THEOREM RefusalsAreFinal == FlowSpec => []RefusedMeansNotSent
<1>1. FlowInv => RefusedMeansNotSent
  BY EmailImplied DEF FlowInv
<1>2. QED BY <1>1, FlowInvariant, PTL

\* The service accepts a message of the batch at most once.
THEOREM AcceptedAtMostOnce == FlowSpec => []AtMostOnce
<1>1. FlowInv => AtMostOnce
  BY EmailImplied DEF FlowInv
<1>2. QED BY <1>1, FlowInvariant, PTL

\* A mail that the inbound handler lost without a trace in the log does not exist.
THEOREM LossesAreLogged == FlowSpec => []LossIsLogged
<1>1. FlowInv => LossIsLogged
  BY DEF FlowInv, LossIsLogged, Stage, Counted
<1>2. QED BY <1>1, FlowInvariant, PTL

\* Only a worker that is killed makes the webhook see a mail again.
THEOREM DuplicatesAreDeaths == FlowSpec => []DuplicatesFollowDeaths
<1>1. FlowInv => DuplicatesFollowDeaths
  BY DEF FlowInv, DuplicatesFollowDeaths, Counted
<1>2. QED BY <1>1, FlowInvariant, PTL
=============================================================================
