------------------------------ MODULE AlertDelivery ------------------------------
(***************************************************************************)
(* A check of one alert and what it sends: AlertEngine.evaluate and        *)
(* deliver_event, the notifiers with their retries, and the test send of   *)
(* the settings page.  Checks of the worker, of requests and of background *)
(* threads of the API run at once; they share the cooldown marker, through *)
(* AlertStorage or UserAlertStorage.  The status row that is written after *)
(* every channel decides nothing here; LocalFiles is about it.           *)
(*                                                                         *)
(* Which notifiers an alert gets depends on its rule, the defaults of its  *)
(* configuration and the environment of the process.  Addresses are        *)
(* abstracted to whether they are usable: "none", "good" or "bad".         *)
(***************************************************************************)
EXTENDS Integers, Sequences, FiniteSets

CONSTANTS Checker,       \* threads that run checks and test sends
          Setting,       \* settings to look at: [rule, defaults, env]
          Cooldown,      \* cooldown_minutes
          RawAttempts,   \* ALERT_DELIVERY_MAX_ATTEMPTS
          LastMinute     \* bound: the clock

(* The notifications of a rule are a list, or default to one.              *)
ASSUME DeliveryAssumption ==
  /\ \A s \in Setting : Len(s.rule.notifications) \in Nat
  /\ RawAttempts \in Int

VARIABLES
  setting,        \* the alert and its process environment
  minute,         \* the clock
  lastTriggered,  \* the marker, or 0
  sending,        \* thread -> what it is in the middle of
  accepted        \* history: <<event, channel>> a receiver acknowledged

deliveryVars == <<setting, minute, lastTriggered, sending, accepted>>

Resting == [todo |-> <<"rest">>]
UserChannel == {"webhook", "email"}
--------------------------------------------------------------------------------
(* Slips: variants of definitions below with a plausible bug in them.      *)
SlipAnyChannel(s) == s.user = "ok" \/ s.log
SlipAlwaysAllow(s) == s.rule.optIn # "no"
--------------------------------------------------------------------------------
(* Settings of the operator count for an alert of a file, and for one of a *)
(* hosted user only if its rule opts in (_allow_env_webhook,               *)
(* _allow_env_email and _allow_alert_smtp, which default alike).           *)
Allowed(s) == s.rule.optIn = "yes" \/ (s.rule.optIn = "unset" /\ ~s.env.hosted)

(* apply_alert_defaults: the defaults fill what the rule leaves open. *)
Filled(s, field) == IF s.rule[field] = "none" THEN s.defaults[field] ELSE s.rule[field]

(* WebhookNotifier.from_alert: whose address is used, if a safe one is. *)
WebhookOf(s) ==
  CASE Filled(s, "url") = "good" -> "own"
    [] Filled(s, "url") = "none" /\ Allowed(s) /\ s.env.url = "good" -> "operator"
    [] OTHER -> "nobody"

(* _resolve_recipients: addresses that are no addresses do not count. *)
RecipientOf(s) ==
  CASE Filled(s, "to") = "good" -> "own"
    [] Filled(s, "to") # "good" /\ Allowed(s) /\ s.env.to = "good" -> "operator"
    [] OTHER -> "nobody"

(* resolve_email_provider. *)
ProviderOf(env) ==
  CASE env.provider \in {"smtp", "sendgrid", "mailgun"} -> env.provider
    [] env.provider \notin {"smtp", "sendgrid", "mailgun"} /\ env.sendgridKey -> "sendgrid"
    [] env.provider \notin {"smtp", "sendgrid", "mailgun"} /\ ~env.sendgridKey
         /\ env.mailgunKey /\ env.mailgunDomain # "none" -> "mailgun"
    [] OTHER -> "smtp"

(* A field of the SMTP transport: the rule's if it may name one. *)
SmtpField(s, f) ==
  IF Allowed(s) /\ s.rule.smtp[f] # "none" THEN <<"own", s.rule.smtp[f]>>
  ELSE <<"operator", s.env.smtp[f]>>

(* _platform_from_address. *)
SenderOf(s) ==
  CASE Allowed(s) /\ s.rule.from = "good" -> "own"
    [] s.env.from = "good" -> "operator"
    [] OTHER -> IF ProviderOf(s.env) = "smtp" /\ SmtpField(s, "user")[2] = "good"
                THEN SmtpField(s, "user")[1] ELSE "nobody"

(* build_email_backend: the transport, if it is completely configured.     *)
(* The port has a default, so "none" is as good as a valid one.            *)
TransportOf(s) ==
  CASE ProviderOf(s.env) = "sendgrid" /\ s.env.sendgridKey -> {"sendgrid"}
    [] ProviderOf(s.env) = "mailgun" /\ s.env.mailgunKey /\ s.env.mailgunDomain = "good"
         /\ s.env.mailgunBase # "bad" -> {"mailgun"}
    [] ProviderOf(s.env) = "smtp" /\ \A f \in {"host", "user", "password"} :
                                        SmtpField(s, f)[2] # "none"
         /\ SmtpField(s, "port")[2] # "bad" -> {SmtpField(s, "host")[1]}
    [] OTHER -> {}

Built(s, name) ==
  CASE name = "webhook" -> WebhookOf(s) # "nobody"
    [] name = "email" -> RecipientOf(s) # "nobody" /\ SenderOf(s) # "nobody"
                           /\ TransportOf(s) # {}
    [] OTHER -> name = "log"

(* _build_notifiers: the loop over the names of the rule, in their order,  *)
(* and the log if none is left.                                            *)
Notifiers(s) ==
  LET names == s.rule.notifications
      instances[i \in 0..Len(names)] ==
        CASE i = 0 -> <<>>
          [] i # 0 /\ Built(s, names[i]) -> Append(instances[i - 1], names[i])
          [] OTHER -> instances[i - 1]
  IN IF instances[Len(names)] = <<>> THEN <<"log">> ELSE instances[Len(names)]

(* resolve_delivery_retry_settings. *)
TriesAllowed == CHOOSE n \in 1..10 : \/ n = RawAttempts
                                     \/ RawAttempts < 1 /\ n = 1
                                     \/ RawAttempts > 10 /\ n = 10
--------------------------------------------------------------------------------
DeliveryInit ==
  /\ setting \in Setting
  /\ minute = 1
  /\ lastTriggered = 0
  /\ sending = [t \in Checker |-> Resting]
  /\ accepted = {}

Proceed(t, s) == sending' = [sending EXCEPT ![t] = s]

(* _within_cooldown. *)
WithinCooldown == lastTriggered # 0 /\ minute - lastTriggered < Cooldown

Sending(test) ==
  [event |-> minute, test |-> test, todo |-> Notifiers(setting), tried |-> 0,
   user |-> "none", log |-> FALSE]

(* evaluate: the condition holds and the alert is not in its cooldown. *)
Evaluate(t) ==
  /\ sending[t] = Resting
  /\ ~WithinCooldown
  /\ Proceed(t, Sending(FALSE))
  /\ UNCHANGED <<setting, minute, lastTriggered, accepted>>

(* run_alert_test. *)
TestSend(t) ==
  /\ sending[t] = Resting
  /\ Proceed(t, Sending(TRUE))
  /\ UNCHANGED <<setting, minute, lastTriggered, accepted>>

(* What the loop over the notifiers knows after one of them is settled. *)
ChannelDone(s, ok) ==
  LET name == Head(s.todo)
  IN [s EXCEPT !.todo = Tail(@),
               !.tried = 0,
               !.user = CASE name = "log" -> @
                          [] name # "log" /\ ok -> "ok"
                          [] OTHER -> IF @ = "ok" THEN "ok" ELSE "failed",
               !.log = @ \/ (name = "log" /\ ok)]

(* One attempt of deliver_with_retry.  A receiver accepts or refuses it    *)
(* for good, or it fails in a way that is worth another attempt: 429, 5xx, *)
(* an SMTP or connection error, which may hide that it was accepted.       *)
Attempt(t, answer) ==
  LET s == sending[t]
      again == answer = "transient" /\ s.tried + 1 < TriesAllowed
  IN /\ s # Resting /\ s.todo # <<>>
     /\ Head(s.todo) = "log" => answer = "accepted"
     /\ Proceed(t, IF again THEN [s EXCEPT !.tried = @ + 1] ELSE ChannelDone(s, answer = "accepted"))
     /\ accepted' = IF answer = "accepted" /\ ~s.test
                    THEN accepted \cup {<<s.event, Head(s.todo)>>} ELSE accepted
     /\ UNCHANGED <<setting, minute, lastTriggered>>

(* A log line counts only for an alert that has no other channel. *)
Delivered(s) == s.user = "ok" \/ (s.user = "none" /\ s.log)

(* The end of deliver_event; of a test nothing is recorded.  An event      *)
(* history that cannot be written does not make it a failure.              *)
FinishDelivery(t) ==
  LET s == sending[t]
  IN /\ s.todo = <<>>
     /\ \/ UNCHANGED lastTriggered
        \/ ~s.test /\ Delivered(s) /\ lastTriggered' = s.event
     /\ Proceed(t, Resting)
     /\ UNCHANGED <<setting, minute, accepted>>

(* The process of the thread dies. *)
CheckerDies(t) ==
  /\ sending[t] # Resting
  /\ Proceed(t, Resting)
  /\ UNCHANGED <<setting, minute, lastTriggered, accepted>>

MinutePasses ==
  /\ minute < LastMinute
  /\ minute' = minute + 1
  /\ UNCHANGED <<setting, lastTriggered, sending, accepted>>

DeliveryNext ==
  \/ \E t \in Checker :
       \/ Evaluate(t) \/ TestSend(t) \/ FinishDelivery(t) \/ CheckerDies(t)
       \/ \E answer \in {"accepted", "refused", "transient"} : Attempt(t, answer)
  \/ MinutePasses

DeliverySpec == DeliveryInit /\ [][DeliveryNext]_deliveryVars
--------------------------------------------------------------------------------
DeliveryTypeOK ==
  /\ lastTriggered \in 0..minute
  /\ \A t \in Checker : sending[t] # Resting => sending[t].tried < TriesAllowed

(* The cooldown starts only with an event that reached its user: one that  *)
(* no channel accepted stays eligible for the next check, although its log *)
(* line was written, a test was sent or another thread was more lucky.     *)
MarkerMeansDelivered ==
  lastTriggered # 0 =>
    \E c \in UserChannel \cup {"log"} :
      /\ <<lastTriggered, c>> \in accepted
      /\ c = "log" => \A i \in DOMAIN Notifiers(setting) : Notifiers(setting)[i] = "log"

(* An alert of a hosted user is sent to addresses of that user, over the   *)
(* transport and under the name of the operator.                           *)
HostedKeepsApart ==
  setting.env.hosted /\ setting.rule.optIn = "unset" =>
    /\ WebhookOf(setting) # "operator" /\ RecipientOf(setting) # "operator"
    /\ SenderOf(setting) # "own" /\ TransportOf(setting) # {"own"}
================================================================================
