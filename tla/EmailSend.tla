------------------------------ MODULE EmailSend ------------------------------
(***************************************************************************)
(* Outbound email: the `email send` command of crates/nu_plugin_email      *)
(* (main.rs, send.rs, outcome.rs) posts a batch of messages, one after the *)
(* other, to `POST /send` of crates/cf_email_worker (lib.rs), which hands  *)
(* each to Cloudflare's email service and answers with a message id or an  *)
(* error code.                                                             *)
(*                                                                         *)
(* Every post is an exchange of its own. The plugin waits for the answer   *)
(* of its last exchange only and gives up on it after a timeout, while the *)
(* worker and the service may still be busy with it, so a message can be   *)
(* accepted long after its result was reported.                            *)
(***************************************************************************)
EXTENDS Naturals, Sequences

CONSTANTS BatchSize,  \* how many records are piped into `email send`
          NoAnswer, NoError

ASSUME EmailAssumption == BatchSize \in Nat /\ NoAnswer # NoError

Item == 1..BatchSize

\* The kinds of worker::Error that the email binding gives, and what the service has done
\* with a message it answers so: the first are refusals, after the others one cannot tell.
Refusals == {"RateLimitExceeded", "DailyLimitExceeded", "EmailRecipientNotAllowed",
             "EmailRecipientSuppressed", "SenderNotVerified"}
Unclear == {"InternalError", "OtherCode", "Opaque"}

VARIABLES
  setup,     \* how both ends are configured
  valid,     \* the items that are records with all required fields
  run,       \* the command: ready | next | waiting | done | misconfigured
  results,   \* its results so far, in the order of the items
  exchange,  \* the posts so far: [item, stage, error, answer]
  accepted   \* the items that the email service has accepted; the position is the message id

vars == <<setup, valid, run, results, exchange, accepted>>

Setup == [env : BOOLEAN,       \* CF_EMAIL_WORKER_URL and CF_EMAIL_AUTH_TOKEN are set
          secret : BOOLEAN,    \* the worker's CF_EMAIL_AUTH_TOKEN is set
          agree : BOOLEAN,     \* and it is the plugin's
          binding : BOOLEAN]   \* the worker has its EMAIL binding

Stages == {"request", "sending", "accepted", "refused", "reply", "closed"}

\* An HTTP answer: its status is 2xx or not, its body the JSON both ends agree on or not.
Delivery(id) == [success |-> TRUE, json |-> TRUE, id |-> id, code |-> ""]
Refusal(code) == [success |-> FALSE, json |-> TRUE, id |-> 0, code |-> code]
PlainText == [success |-> FALSE, json |-> FALSE, id |-> 0, code |-> ""]

\* err_response: plain text when the SendErr does not serialize.
ErrAnswers(code) == {Refusal(code), PlainText}

Init ==
  /\ setup \in Setup
  /\ valid \in SUBSET Item
  /\ run = "ready"
  /\ results = <<>>
  /\ exchange = <<>>
  /\ accepted = <<>>

----------------------------------------------------------------------------
(* The worker's error codes and the plugin's outcomes. *)

\* classify
CodeOf(error) ==
  CASE error = "RateLimitExceeded"        -> "E_RATE_LIMIT_EXCEEDED"
    [] error = "DailyLimitExceeded"       -> "E_DAILY_LIMIT_EXCEEDED"
    [] error = "EmailRecipientNotAllowed" -> "E_RECIPIENT_NOT_ALLOWED"
    [] error = "EmailRecipientSuppressed" -> "E_RECIPIENT_SUPPRESSED"
    [] error = "InternalError"            -> "E_INTERNAL_SERVER_ERROR"
    [] error = "SenderNotVerified"        -> "E_SENDER_NOT_VERIFIED"
    [] error = "OtherCode"                -> "E_SOMETHING_ELSE"
    [] OTHER                              -> "E_UNKNOWN"

\* Mutant of OutcomeOf: a code it does not know is taken for a passing refusal.
OutcomeOfOptimist(code) ==
  CASE code = "E_DAILY_LIMIT_EXCEEDED"  -> "daily_quota_exceeded"
    [] code = "E_SENDER_NOT_VERIFIED"   -> "sender_not_verified"
    [] code = "E_RECIPIENT_NOT_ALLOWED" -> "recipient_not_allowed"
    [] OTHER                            -> "rate_limited"

\* Outcome::from_error_code
OutcomeOf(code) ==
  CASE code = "E_RATE_LIMIT_EXCEEDED"   -> "rate_limited"
    [] code = "E_DAILY_LIMIT_EXCEEDED"  -> "daily_quota_exceeded"
    [] code = "E_SENDER_NOT_VERIFIED"   -> "sender_not_verified"
    [] code = "E_RECIPIENT_NOT_ALLOWED" -> "recipient_not_allowed"
    [] OTHER                            -> "failed"

----------------------------------------------------------------------------
(* The plugin. *)

Current == Len(results) + 1
Last == Len(exchange)

Result(i, outcome, id, code) == [ref |-> i, result |-> outcome, id |-> id, code |-> code]

\* Mutant of Report: one item too far.
ReportPastEnd(res) ==
  /\ results' = Append(results, res)
  /\ run' = IF Current > BatchSize THEN "done" ELSE "next"

\* The item is done with: its result, and on to the next.
Report(res) ==
  /\ results' = Append(results, res)
  /\ run' = IF Current = BatchSize THEN "done" ELSE "next"

\* run: without its environment the command is an error as a whole.
Start ==
  /\ run = "ready"
  /\ \/ ~setup.env /\ run' = "misconfigured"
     \/ setup.env /\ run' = IF BatchSize = 0 THEN "done" ELSE "next"
  /\ UNCHANGED <<setup, valid, results, exchange, accepted>>

\* Nothing of exchange e is under way any more.
Close(e) == exchange' = [exchange EXCEPT ![e].stage = "closed", ![e].error = NoError,
                                         ![e].answer = NoAnswer]

\* process_one of a record that lacks a field.
RejectRecord ==
  /\ run = "next" /\ Current \notin valid
  /\ Report(Result(Current, "failed", 0, "E_BAD_REQUEST"))
  /\ UNCHANGED <<setup, valid, exchange, accepted>>

\* perform_send: the request goes out.
Post ==
  /\ run = "next" /\ Current \in valid
  /\ exchange' = Append(exchange, [item   |-> Current, stage |-> "request",
                                   error  |-> NoError, answer |-> NoAnswer])
  /\ run' = "waiting"
  /\ UNCHANGED <<setup, valid, results, accepted>>

\* What perform_send and process_one make of an answer: a body that is not the agreed JSON
\* is a transport error, whatever its status.
ResultOf(i, answer) ==
  IF ~answer.json THEN Result(i, "failed", 0, "E_TRANSPORT")
  ELSE IF answer.success THEN Result(i, "delivered", answer.id, "")
  ELSE Result(i, OutcomeOf(answer.code), 0, answer.code)

\* Mutant of Receive: an answer that comes late to an earlier post is taken for this one's.
ReceiveAny ==
  /\ run = "waiting"
  /\ \E e \in 1..Last :
       /\ exchange[e].stage = "reply"
       /\ Report(ResultOf(Current, exchange[e].answer))
       /\ Close(e)
  /\ UNCHANGED <<setup, valid, accepted>>

Receive ==
  /\ run = "waiting" /\ exchange[Last].stage = "reply"
  /\ Report(ResultOf(Current, exchange[Last].answer))
  /\ Close(Last)
  /\ UNCHANGED <<setup, valid, accepted>>

\* Mutant of GiveUp: the post is tried again.
GiveUpRetries ==
  /\ run = "waiting"
  /\ exchange' = Append(exchange, [exchange[Last] EXCEPT !.stage = "request"])
  /\ UNCHANGED <<setup, valid, run, results, accepted>>

\* Mutant of GiveUp: only a broken connection ends the waiting, no timeout.
GiveUpOnBroken ==
  /\ run = "waiting" /\ exchange[Last].stage = "closed"
  /\ Report(Result(Current, "failed", 0, "E_TRANSPORT"))
  /\ UNCHANGED <<setup, valid, exchange, accepted>>

\* No connection, a broken one, or no answer in time: the plugin gives up, and what is
\* still on its way or at work stays so.
GiveUp ==
  /\ run = "waiting"
  /\ Report(Result(Current, "failed", 0, "E_TRANSPORT"))
  /\ UNCHANGED <<setup, valid, exchange, accepted>>

----------------------------------------------------------------------------
(* The worker and the email service, for one exchange. *)

At(e, stage) == e \in 1..Last /\ exchange[e].stage = stage

Reply(e, answer) ==
  exchange' = [exchange EXCEPT ![e].stage = "reply", ![e].error = NoError,
                               ![e].answer = answer]

\* handle_send up to the email binding: check_bearer fails closed and in plain text; then a
\* body that did not come through as JSON and a missing binding are refused.
HandleSend(e) ==
  /\ At(e, "request")
  /\ \/ ~(setup.secret /\ setup.agree) /\ Reply(e, PlainText)
     \/ /\ setup.secret /\ setup.agree
        /\ \E answer \in ErrAnswers("E_BAD_REQUEST") : Reply(e, answer)
     \/ /\ setup.secret /\ setup.agree /\ ~setup.binding
        /\ \E answer \in ErrAnswers("E_BINDING_MISSING") : Reply(e, answer)
     \/ /\ setup.secret /\ setup.agree /\ setup.binding
        /\ exchange' = [exchange EXCEPT ![e].stage = "sending"]
  /\ UNCHANGED <<setup, valid, run, results, accepted>>

ServiceAccepts(e) ==
  /\ At(e, "sending")
  /\ exchange' = [exchange EXCEPT ![e].stage = "accepted",
                                  ![e].answer = Delivery(Len(accepted) + 1)]
  /\ accepted' = Append(accepted, exchange[e].item)
  /\ UNCHANGED <<setup, valid, run, results>>

\* A refused message is not sent; after another error it may have been.
ServiceRefuses(e) ==
  /\ At(e, "sending")
  /\ \E error \in Refusals \cup Unclear :
       /\ exchange' = [exchange EXCEPT ![e].stage = "refused", ![e].error = error]
       /\ \/ UNCHANGED accepted
          \/ error \in Unclear /\ accepted' = Append(accepted, exchange[e].item)
  /\ UNCHANGED <<setup, valid, run, results>>

\* handle_send's answer; the JSON of a SendOk may fail to serialize.
AnswerSend(e) ==
  /\ \/ At(e, "accepted") /\ Reply(e, exchange[e].answer)
     \/ At(e, "accepted") /\ Reply(e, PlainText)
     \/ /\ At(e, "refused")
        /\ \E answer \in ErrAnswers(CodeOf(exchange[e].error)) : Reply(e, answer)
  /\ UNCHANGED <<setup, valid, run, results, accepted>>

\* The worker is killed, or the platform answers for it.
WorkerDies(e) ==
  /\ At(e, "sending") \/ At(e, "accepted") \/ At(e, "refused")
  /\ \/ Reply(e, PlainText)
     \/ Close(e)
  /\ UNCHANGED <<setup, valid, run, results, accepted>>

\* The network loses a request or an answer.
Lose(e) ==
  /\ At(e, "request") \/ At(e, "reply")
  /\ Close(e)
  /\ UNCHANGED <<setup, valid, run, results, accepted>>

Plugin == Start \/ RejectRecord \/ Post \/ Receive \/ GiveUp

Worker(e) ==
  HandleSend(e) \/ ServiceAccepts(e) \/ ServiceRefuses(e) \/ AnswerSend(e)
    \/ WorkerDies(e) \/ Lose(e)

\* The command has ended.
Ended == run \in {"done", "misconfigured"} /\ UNCHANGED vars

Next == Plugin \/ (\E e \in Item : Worker(e)) \/ Ended

\* The plugin runs on, its timer included. Nothing is assumed of network and worker.
Spec == Init /\ [][Next]_vars /\ WF_vars(Plugin)
----------------------------------------------------------------------------
(* Properties. *)

Times(i) == {n \in 1..Len(accepted) : accepted[n] = i}

\* TypeOK: results come in the order of the items, and their number says how far the
\* command is.
TypeOK ==
  /\ setup \in Setup /\ valid \subseteq Item
  /\ run \in {"ready", "next", "waiting", "done", "misconfigured"}
  /\ \A e \in 1..Last : exchange[e].item \in valid /\ exchange[e].stage \in Stages
  /\ \A i \in 1..Len(results) : results[i].ref = i
  /\ run \in {"next", "waiting"} => Len(results) < BatchSize
  /\ run = "done" => Len(results) = BatchSize

\* What is reported as delivered was accepted, for this item and under this message id: no
\* late or foreign answer is taken for it.
DeliveredMeansAccepted ==
  \A i \in 1..Len(results) :
    results[i].result = "delivered" =>
      results[i].id \in 1..Len(accepted) /\ accepted[results[i].id] = i

\* What is reported as refused (an outcome on which .nu handlers branch) is not sent, nor
\* will it be by an exchange that is still under way: sending it again is no duplicate.
RefusedMeansNotSent ==
  \A i \in 1..Len(results) :
    results[i].result \notin {"delivered", "failed"} =>
      /\ Times(i) = {}
      /\ \A e \in 1..Last : exchange[e].item = i => exchange[e].stage = "closed"

\* The service accepts a message at most once, whatever is lost, late or given up on.
AtMostOnce ==
  \A i \in Item : \A m, n \in Times(i) : m = n

\* Every batch ends with a result for each of its items, though the worker never answers.
BatchEnds == run = "next" ~> run = "done"
============================================================================
