----------------------------- MODULE EmailFlow ------------------------------
(***************************************************************************)
(* EmailSend together with inbound email: the `#[event(email)]` handler of *)
(* crates/cf_email_worker/src/lib.rs. A recipient answers a message that   *)
(* the service accepted; the worker gets that mail as an event and         *)
(* forwards it, with its In-Reply-To header and a signature, to the        *)
(* webhook (http-nu). The handler answers Ok(()) whatever happens.         *)
(***************************************************************************)
EXTENDS EmailSend

CONSTANT MaxDeaths  \* how often the worker is killed over one mail

ASSUME FlowAssumption == MaxDeaths \in Nat

\* The message ids that are replied to.
Message == 1..BatchSize

VARIABLES
  hook,  \* how the worker and the webhook are configured
  mail   \* of each message id: what became of the mail In-Reply-To it

flow == <<hook, mail>>
flowVars == <<vars, flow>>

\* CF_EMAIL_WEBHOOK_URL or CF_EMAIL_WEBHOOK_HMAC_KEY is not set; the webhook verifies with
\* another key, or with the same.
Hook == {"unset", "other key", "same key"}

\* none | arrived | raw | posting | ok | refused | broken | ended | lost. `logged`: the handler
\* has logged an error. `taken`: how often the webhook took the mail in. `deaths`: how often
\* the worker was killed over it.
NoMail == [stage |-> "none", logged |-> FALSE, taken |-> 0, deaths |-> 0]

FlowInit ==
  /\ Init
  /\ hook \in Hook
  /\ mail = [n \in Message |-> NoMail]

----------------------------------------------------------------------------
(* The handler, for the mail that replies to message n. *)

Stage(n, stage) == mail[n].stage = stage
Advance(n, stage) == mail' = [mail EXCEPT ![n].stage = stage]
LogAndEnd(n) == mail' = [mail EXCEPT ![n].stage = "ended", ![n].logged = TRUE]

\* Anybody who got the message may answer it, also before the plugin has its result.
ReplyArrives(n) == n <= Len(accepted) /\ Stage(n, "none") /\ Advance(n, "arrived")

\* The URL and the key are looked up first.
Configure(n) ==
  /\ Stage(n, "arrived")
  /\ \/ hook = "unset" /\ LogAndEnd(n)
     \/ hook # "unset" /\ Advance(n, "raw")

\* raw_bytes().await, the payload, its signature and the request: each error is logged.
Prepare(n) == Stage(n, "raw") /\ (LogAndEnd(n) \/ Advance(n, "posting"))

\* Mutant of EndPost: any answer will do.
EndPostAnyStatus(n) ==
  \/ (Stage(n, "ok") \/ Stage(n, "refused")) /\ Advance(n, "ended")
  \/ Stage(n, "broken") /\ LogAndEnd(n)

\* Mutant of EndPost: a post that broke is tried again.
EndPostAgain(n) ==
  \/ Stage(n, "ok") /\ Advance(n, "ended")
  \/ Stage(n, "refused") /\ LogAndEnd(n)
  \/ Stage(n, "broken") /\ Advance(n, "posting")

\* The fetch resolves. Only a status in 200..299 is no error; all of them are Ok(()).
EndPost(n) ==
  \/ Stage(n, "ok") /\ Advance(n, "ended")
  \/ (Stage(n, "refused") \/ Stage(n, "broken")) /\ LogAndEnd(n)

----------------------------------------------------------------------------
(* The webhook and the platform. *)

\* The webhook takes in what is signed with its key, or fails over it.
WebhookAnswers(n) ==
  /\ Stage(n, "posting")
  /\ \/ hook = "same key" /\ mail' = [mail EXCEPT ![n].stage = "ok", ![n].taken = @ + 1]
     \/ Advance(n, "refused")

\* The connection breaks, before or after the webhook took the mail in.
PostBreaks(n) ==
  /\ Stage(n, "posting")
  /\ \/ Advance(n, "broken")
     \/ hook = "same key" /\ mail' = [mail EXCEPT ![n].stage = "broken", ![n].taken = @ + 1]

\* The worker is killed. The sender's mail server tries again, or the mail is lost.
Dies(n) ==
  /\ mail[n].stage \in {"arrived", "raw", "posting", "ok", "refused", "broken"}
  /\ mail[n].deaths < MaxDeaths
  /\ \E stage \in {"arrived", "lost"}, more \in 0..1 :
       /\ more = 1 => Stage(n, "posting") /\ hook = "same key"
       /\ mail' = [mail EXCEPT ![n].stage = stage, ![n].taken = @ + more, ![n].deaths = @ + 1]

Inbound(n) ==
  \/ ReplyArrives(n) \/ Configure(n) \/ Prepare(n) \/ EndPost(n)
  \/ WebhookAnswers(n) \/ PostBreaks(n) \/ Dies(n)

FlowNext ==
  \/ Next /\ UNCHANGED flow
  \/ (\E n \in Message : Inbound(n)) /\ UNCHANGED <<vars, hook>>

\* As in EmailSend: the plugin runs on; nothing is assumed of worker, network and webhook.
FlowSpec ==
  FlowInit /\ [][FlowNext]_flowVars /\ WF_flowVars(Plugin /\ UNCHANGED flow)
----------------------------------------------------------------------------
(* Properties. *)

\* The sender is told Ok for every mail, so the log is all there is: a handler that ended
\* and logged no error has got the mail through to the webhook.
LossIsLogged ==
  \A n \in Message : Stage(n, "ended") /\ ~mail[n].logged => mail[n].taken > 0

\* The handler posts a mail to the webhook once for each time it is run over it: the webhook
\* takes a mail in more than once only if the worker was killed over it and the mail came
\* again, never because an answer was lost. (That the sender's mail server delivers a mail
\* twice of its own accord is not modelled.)
DuplicatesFollowDeaths ==
  \A n \in Message : mail[n].taken <= 1 + mail[n].deaths
============================================================================
