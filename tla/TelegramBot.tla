----------------------------- MODULE TelegramBot -----------------------------
(***************************************************************************)
(* The status bot (runtime/telegram_bot.py).  A tick opens one transaction, *)
(* polls Telegram from the update after last_update_id, answers the updates *)
(* one by one, and commits the state once.  The offset it acknowledges is   *)
(* only what an earlier tick committed, so a crash redelivers what was      *)
(* answered since.  Telegram keeps an update until a poll acknowledges it.  *)
(* The bot is enabled with a token: without them a tick polls nothing.      *)
(***************************************************************************)
EXTENDS Integers, Sequences

CONSTANTS MaxUpdates, MaxCrashes,  \* bounds on the users' messages and the crashes
          BatchSize                \* at most 100 updates for Telegram

VARIABLES sent,               \* the kinds of the updates users sent; update n is sent[n]
          lastUpdate,         \* TelegramBotStateModel.last_update_id, committed; 0 is null
          pending,            \* the session's last_update_id, or lastUpdate between ticks
          batch,              \* the updates of this poll still to handle
          botPc,
          outcome,            \* the status this tick will commit
          botStatus,          \* TelegramBotStateModel.status, committed
          answers,            \* answers[n]: how often update n was answered
          failed,             \* the updates whose handling raised
          crashes

botVars ==
    <<sent, lastUpdate, pending, batch, botPc, outcome, botStatus, answers, failed, crashes>>

ASSUME BotAssumption == {MaxUpdates, MaxCrashes} \subseteq Nat /\ BatchSize \in Nat \ {0}

\* A command from the allowed chat, one from another chat or without text, and
\* a text of blanks, on which the first word of the command does not exist.
UpdateKinds == {"command", "ignored", "blank"}

BotTypeOK ==
    /\ sent \in Seq(UpdateKinds)
    /\ lastUpdate \in 0..Len(sent) /\ pending \in lastUpdate..Len(sent)
    /\ batch \in Seq(1..Len(sent))
    /\ botPc \in {"asleep", "polling", "handling", "ending"}
    /\ {outcome, botStatus} \subseteq {"disabled", "polling", "degraded"}
    /\ answers \in [1..MaxUpdates -> Nat]
    /\ failed \subseteq 1..Len(sent)
    /\ crashes \in Nat

BotInit ==
    /\ sent = <<>> /\ lastUpdate = 0 /\ pending = 0 /\ batch = <<>>
    /\ botPc = "asleep" /\ outcome = "disabled" /\ botStatus = "disabled"
    /\ answers = [n \in 1..MaxUpdates |-> 0] /\ failed = {} /\ crashes = 0

-----------------------------------------------------------------------------

UserSends(kind) ==
    /\ Len(sent) < MaxUpdates
    /\ sent' = Append(sent, kind)
    /\ UNCHANGED <<lastUpdate, pending, batch, botPc, outcome, botStatus, answers, failed, crashes>>

StartTick ==
    /\ botPc = "asleep" /\ botPc' = "polling"
    /\ UNCHANGED <<sent, lastUpdate, pending, batch, outcome, botStatus, answers, failed, crashes>>

\* get_updates with offset last_update_id + 1: the oldest updates not acknowledged.
Poll ==
    LET waiting == Len(sent) - lastUpdate
    IN  /\ botPc = "polling" /\ botPc' = "handling"
        /\ batch' = [k \in 1..(IF waiting < BatchSize THEN waiting ELSE BatchSize) |-> lastUpdate + k]
        /\ UNCHANGED <<sent, lastUpdate, pending, outcome, botStatus, answers, failed, crashes>>

\* The request fails or is answered without ok.
PollFails ==
    /\ botPc = "polling" /\ botPc' = "ending"
    /\ outcome' = "degraded"
    /\ UNCHANGED <<sent, lastUpdate, pending, batch, botStatus, answers, failed, crashes>>

\* Mutant: the whole batch is acknowledged with its first update.
MovedToTheEnd(n) == batch[Len(batch)]

\* Mutant: an update is acknowledged once its text has been read.
MovedAfterReading(n) == IF sent[n] = "blank" THEN pending ELSE n

\* Mutant: the state keeps the next offset.
MovedToTheNext(n) == n + 1

\* The session's last_update_id while it handles update n: moved before anything
\* that may raise.
Moved(n) == IF n > pending THEN n ELSE pending

\* What handling an update may come to.  Telegram may take an answer and the bot
\* not hear of it.
Outcomes(kind) ==
    CASE kind = "command" -> { [delivered |-> TRUE, raised |-> FALSE],
                               [delivered |-> TRUE, raised |-> TRUE],
                               [delivered |-> FALSE, raised |-> TRUE] }
      [] kind = "ignored" -> { [delivered |-> FALSE, raised |-> FALSE] }
      [] kind = "blank"   -> { [delivered |-> FALSE, raised |-> TRUE] }

\* One update of the batch: _chat_is_allowed, _render_command, send_message.
Handle ==
    /\ botPc = "handling" /\ batch # <<>>
    /\ LET n == Head(batch)
       IN  \E o \in Outcomes(sent[n]) :
             /\ pending' = Moved(n)
             /\ answers' = IF o.delivered THEN [answers EXCEPT ![n] = @ + 1] ELSE answers
             /\ IF o.raised
                THEN /\ failed' = failed \cup {n} /\ batch' = <<>>
                     /\ botPc' = "ending" /\ outcome' = "degraded"
                ELSE batch' = Tail(batch) /\ UNCHANGED <<failed, botPc, outcome>>
    /\ UNCHANGED <<sent, lastUpdate, botStatus, crashes>>

\* The batch is done; the status is that of the system's health.
Finish ==
    /\ botPc = "handling" /\ batch = <<>>
    /\ botPc' = "ending"
    /\ outcome' \in {"polling", "degraded"}
    /\ UNCHANGED <<sent, lastUpdate, pending, batch, botStatus, answers, failed, crashes>>

\* Mutant: a tick that failed is rolled back.
EndTickUnlessDegraded ==
    /\ botPc = "ending" /\ botPc' = "asleep"
    /\ lastUpdate' = IF outcome = "degraded" THEN lastUpdate ELSE pending
    /\ pending' = lastUpdate' /\ botStatus' = outcome
    /\ UNCHANGED <<sent, batch, outcome, answers, failed, crashes>>

\* One commit, after a failure too.
EndTick ==
    /\ botPc = "ending" /\ botPc' = "asleep"
    /\ lastUpdate' = pending /\ botStatus' = outcome
    /\ UNCHANGED <<sent, pending, batch, outcome, answers, failed, crashes>>

\* The container is restarted; the transaction is gone, the answers are not.
BotCrash ==
    /\ crashes < MaxCrashes /\ crashes' = crashes + 1
    /\ botPc' = "asleep" /\ pending' = lastUpdate /\ batch' = <<>> /\ outcome' = botStatus
    /\ UNCHANGED <<sent, lastUpdate, botStatus, answers, failed>>

BotStep == StartTick \/ Poll \/ PollFails \/ Handle \/ Finish \/ EndTick
BotNext == BotStep \/ BotCrash \/ \E kind \in UpdateKinds : UserSends(kind)

\* The loop runs while its container does, and Telegram is not unreachable at
\* every poll.
BotFairness == WF_botVars(BotStep) /\ SF_botVars(Poll)
BotSpec == BotInit /\ [][BotNext]_botVars /\ BotFairness

-----------------------------------------------------------------------------
(* Properties *)

\* An update the committed offset has passed was answered, or asked for no answer,
\* or raised itself: none is lost to the failure of another one or to a crash.
PassedMeansHandled ==
    \A n \in 1..lastUpdate :
        answers[n] > 0 \/ sent[n] = "ignored" \/ n \in failed

\* Only a crash makes the bot answer again: an update is not answered more than
\* once for each start of the process, an answer reported as failed included.
AnswersNeedACrash == \A n \in 1..MaxUpdates : answers[n] <= 1 + crashes

\* The committed offset and the answers agree, through failures and crashes.
BotKeepsItsPlace == BotTypeOK /\ PassedMeansHandled /\ AnswersNeedACrash

\* Every update a user sends is passed in the end, a blank one included, though
\* each makes its tick fail.
UpdatesArePassed == \A n \in 1..MaxUpdates : Len(sent) >= n ~> lastUpdate >= n

=============================================================================
