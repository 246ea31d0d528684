---------------------------- MODULE RequestReply ----------------------------
(***************************************************************************)
(* The request/reply correlation protocol of watermill's CQRS component:   *)
(*                                                                         *)
(*  - the caller side, requestreply.SendWithReply (command_bus.go), which  *)
(*    first asks the backend to listen and then sends the command;         *)
(*  - the backend, cqrs.PubSubRequestReply: ListenForReply subscribes to   *)
(*    the reply topic and spawns one listener goroutine per call, which    *)
(*    filters notifications by command id and writes replies to a          *)
(*    channel of capacity 1; OnCommandProcessed publishes the notification;*)
(*  - the handler side, requestreply.NewCommandHandler(WithResult), which  *)
(*    runs the handler and then always calls OnCommandProcessed, and whose *)
(*    returned error makes the command processor ack or nack the command.  *)
(*                                                                         *)
(* One operation id per call: the command message's UUID, which is what    *)
(* ListenForReply waits for and what OnCommandProcessed stamps on the      *)
(* notification.  The pub/sub transport is modelled at its boundary: a     *)
(* notification published on a topic reaches the open subscriptions of     *)
(* that topic (every one of them, or one of them when the subscribers of a *)
(* topic compete as members of one consumer group), and is lost when no    *)
(* subscription is open.                                                   *)
(***************************************************************************)
EXTENDS Naturals, Sequences

CONSTANTS
    Ops,                \* the calls of SendWithReply, one operation id each
    Topics,             \* reply notification topics
    TopicOf,            \* GenerateReplyNotificationTopic, per operation
    TimeoutSet,         \* PubSubRequestReplyConfig.ListenForReplyTimeout # nil
    CompetingConsumers, \* subscribers of one topic share its messages
    MaxDeliveries,      \* bound on deliveries of one command to the handler
    NotifyWhenExecuted, \* calls whose command bus applies the backend's
                        \* ModifyCommandMessageBeforePublish (the marker)
    NoMsg               \* CommandReply.ReplyMsg = nil

ASSUME RRAssumption ==
    /\ TopicOf \in [Ops -> Topics]
    /\ TimeoutSet \in BOOLEAN
    /\ CompetingConsumers \in BOOLEAN
    /\ MaxDeliveries \in Nat \ {0}
    /\ NotifyWhenExecuted \subseteq Ops

\* RequestReplyNotification as published: the handled command's id (the
\* _watermill_command_message_uuid metadata) and its HasError flag.
Notification == [id : Ops, hasError : BOOLEAN]

\* CommandReply: Err is nil ("none"), a CommandHandlerError ("handler"), or a
\* ReplyTimeoutError caused by the context ("timeout") or by the closed
\* subscription ("closed"); ReplyMsg is the matched notification or nil.
Reply == [err : {"none", "handler", "timeout", "closed"},
          msg : Notification \cup {NoMsg}]

NoReply == [err |-> "none", msg |-> NoMsg]

VARIABLES
    caller,     \* progress of SendWithReply
    cancelled,  \* the SendWithReply context has been cancelled
    ctxDone,    \* the listening context (child of it, maybe with timeout) is done
    sub,        \* the notifications subscription of ListenForReply
    inbox,      \* notifications routed to that subscription, not yet received
    listener,   \* the listener goroutine of ListenForReply
    pending,    \* the reply the goroutine is about to write to replyChan
    replyCh,    \* replyChan, make(chan CommandReply, 1)
    closedCh,   \* replyChan has been closed
    received,   \* replies the caller has read from replyChan, in order
    cmd,        \* the command message in the command topic
    deliveries  \* times the command has been handed to the handler

vars == <<caller, cancelled, ctxDone, sub, inbox, listener, pending,
          replyCh, closedCh, received, cmd, deliveries>>

TypeOK ==
    /\ caller \in [Ops -> {"idle", "listening", "returned", "failed"}]
    /\ cancelled \in [Ops -> BOOLEAN]
    /\ ctxDone \in [Ops -> BOOLEAN]
    /\ sub \in [Ops -> {"none", "open", "closed"}]
    /\ inbox \in [Ops -> Seq(Notification)]
    /\ listener \in [Ops -> {"none", "loop", "sending", "finishing", "done"}]
    /\ pending \in [Ops -> Reply]
    /\ replyCh \in [Ops -> Seq(Reply)]
    /\ \A o \in Ops : Len(replyCh[o]) <= 1
    /\ closedCh \in [Ops -> BOOLEAN]
    /\ received \in [Ops -> Seq(Reply)]
    /\ cmd \in [Ops -> {"none", "queued", "acked"}]
    /\ deliveries \in [Ops -> 0..MaxDeliveries]

Init ==
    /\ caller = [o \in Ops |-> "idle"]
    /\ cancelled = [o \in Ops |-> FALSE]
    /\ ctxDone = [o \in Ops |-> FALSE]
    /\ sub = [o \in Ops |-> "none"]
    /\ inbox = [o \in Ops |-> <<>>]
    /\ listener = [o \in Ops |-> "none"]
    /\ pending = [o \in Ops |-> NoReply]
    /\ replyCh = [o \in Ops |-> <<>>]
    /\ closedCh = [o \in Ops |-> FALSE]
    /\ received = [o \in Ops |-> <<>>]
    /\ cmd = [o \in Ops |-> "none"]
    /\ deliveries = [o \in Ops |-> 0]

\* cancel() of the SendWithReply context; the listening context derives from it.
Cancel(o) ==
    /\ cancelled' = [cancelled EXCEPT ![o] = TRUE]
    /\ ctxDone' = [ctxDone EXCEPT ![o] = TRUE]
-----------------------------------------------------------------------------
(* Caller: SendWithReply and the use of the channel it returns.            *)

\* backend.ListenForNotifications (ListenForReply): build the subscriber,
\* derive the topic, subscribe, spawn the listener.  Any of the three may
\* fail, and then SendWithReply returns the error and its deferred cancel runs.
ListenForReply(o) ==
    /\ caller[o] = "idle"
    /\ \/ /\ caller' = [caller EXCEPT ![o] = "failed"]
          /\ Cancel(o)
          /\ UNCHANGED <<sub, listener>>
       \/ /\ caller' = [caller EXCEPT ![o] = "listening"]
          /\ sub' = [sub EXCEPT ![o] = "open"]
          /\ listener' = [listener EXCEPT ![o] = "loop"]
          /\ UNCHANGED <<cancelled, ctxDone>>
    /\ UNCHANGED <<inbox, pending, replyCh, closedCh, received, cmd, deliveries>>

\* c.SendWithModifiedMessage: publish the command tagged with the operation
\* id.  The model takes that id to be the command UUID the backend
\* correlates on (ListenForReply and OnCommandProcessed use cmdMsg.UUID),
\* one value per call.  SendWithReply itself sets only the operation id:
\* the notify marker is there only if the bus applies
\* ModifyCommandMessageBeforePublish (NotifyWhenExecuted).  On error SendWithReply returns it and cancels; a publish that reports
\* an error may still have reached the broker.
SendCommand(o) ==
    /\ caller[o] = "listening"
    /\ \/ /\ caller' = [caller EXCEPT ![o] = "returned"]
          /\ cmd' = [cmd EXCEPT ![o] = "queued"]
          /\ UNCHANGED <<cancelled, ctxDone>>
       \/ /\ caller' = [caller EXCEPT ![o] = "failed"]
          /\ \E reached \in BOOLEAN :
                cmd' = [cmd EXCEPT ![o] = IF reached THEN "queued" ELSE "none"]
          /\ Cancel(o)
    /\ UNCHANGED <<sub, inbox, listener, pending, replyCh, closedCh,
                   received, deliveries>>

\* The caller calls the cancel function it was given.
CallerCancel(o) ==
    /\ caller[o] = "returned"
    /\ ~cancelled[o]
    /\ Cancel(o)
    /\ UNCHANGED <<caller, sub, inbox, listener, pending, replyCh, closedCh,
                   received, cmd, deliveries>>

\* The caller receives a reply from replyChan.
CallerRead(o) ==
    /\ caller[o] = "returned"
    /\ replyCh[o] # <<>>
    /\ received' = [received EXCEPT ![o] = Append(@, Head(replyCh[o]))]
    /\ replyCh' = [replyCh EXCEPT ![o] = Tail(@)]
    /\ UNCHANGED <<caller, cancelled, ctxDone, sub, inbox, listener, pending,
                   closedCh, cmd, deliveries>>
-----------------------------------------------------------------------------
(* Environment of the listener: its timer and its subscription.            *)

\* context.WithTimeout(ctx, *ListenForReplyTimeout) expires.
Timeout(o) ==
    /\ TimeoutSet
    /\ sub[o] # "none"
    /\ ~ctxDone[o]
    /\ ctxDone' = [ctxDone EXCEPT ![o] = TRUE]
    /\ UNCHANGED <<caller, cancelled, sub, inbox, listener, pending, replyCh,
                   closedCh, received, cmd, deliveries>>

\* The subscriber closes its output channel once the subscribe context is
\* done, dropping what it had not handed out yet.
SubscriptionEnds(o) ==
    /\ sub[o] = "open"
    /\ ctxDone[o]
    /\ sub' = [sub EXCEPT ![o] = "closed"]
    /\ inbox' = [inbox EXCEPT ![o] = <<>>]
    /\ UNCHANGED <<caller, cancelled, ctxDone, listener, pending, replyCh,
                   closedCh, received, cmd, deliveries>>

\* The subscriber is closed under a live context (e.g. on shutdown).
SubscriberShutdown(o) ==
    /\ sub[o] = "open"
    /\ ~ctxDone[o]
    /\ sub' = [sub EXCEPT ![o] = "closed"]
    /\ inbox' = [inbox EXCEPT ![o] = <<>>]
    /\ UNCHANGED <<caller, cancelled, ctxDone, listener, pending, replyCh,
                   closedCh, received, cmd, deliveries>>
-----------------------------------------------------------------------------
(* The listener goroutine of ListenForReply: a select between the context  *)
(* and the subscription, repeated until it returns; replies are written   *)
(* with a plain (blocking) send outside the select.                       *)

LUnchanged == UNCHANGED <<caller, cancelled, sub, closedCh, received, cmd,
                          deliveries>>

\* case <-ctx.Done(): prepare ReplyTimeoutError{..., ctx.Err()}.
ListenerCtxDone(o) ==
    /\ listener[o] = "loop"
    /\ ctxDone[o]
    /\ pending' = [pending EXCEPT ![o] = [err |-> "timeout", msg |-> NoMsg]]
    /\ listener' = [listener EXCEPT ![o] = "finishing"]
    /\ UNCHANGED <<ctxDone, inbox, replyCh>> /\ LUnchanged

\* case notifyMsg, ok := <-notifyMsgs with !ok: the subscriber is closed.
ListenerSubClosed(o) ==
    /\ listener[o] = "loop"
    /\ sub[o] = "closed"
    /\ pending' = [pending EXCEPT ![o] = [err |-> "closed", msg |-> NoMsg]]
    /\ listener' = [listener EXCEPT ![o] = "finishing"]
    /\ UNCHANGED <<ctxDone, inbox, replyCh>> /\ LUnchanged

\* handleNotifyMsg: ack, then compare _watermill_command_message_uuid with
\* the expected command UUID; a match becomes a reply, CommandHandlerError
\* when the notification says HasError.
\* Mutant: the command UUID comparison is missing.
MatchesAny(n, o) == TRUE

Matches(n, o) == n.id = o

\* Mutant: the reply drops the notification's HasError flag.
ReplyForNoError(n) == [err |-> "none", msg |-> n]

ReplyFor(n) == [err |-> IF n.hasError THEN "handler" ELSE "none", msg |-> n]

ListenerNotify(o) ==
    /\ listener[o] = "loop"
    /\ inbox[o] # <<>>
    /\ inbox' = [inbox EXCEPT ![o] = Tail(@)]
    /\ \/ /\ Matches(Head(inbox[o]), o)
          /\ pending' = [pending EXCEPT ![o] = ReplyFor(Head(inbox[o]))]
          /\ listener' = [listener EXCEPT ![o] = "sending"]
       \/ /\ ~Matches(Head(inbox[o]), o)
          /\ UNCHANGED <<pending, listener>>
    /\ UNCHANGED <<ctxDone, replyCh>> /\ LUnchanged

\* Mutant: replyChan made with capacity 2.
ListenerSendReplyCap2(o) ==
    /\ listener[o] = "sending"
    /\ Len(replyCh[o]) < 2
    /\ replyCh' = [replyCh EXCEPT ![o] = Append(@, pending[o])]
    /\ listener' = [listener EXCEPT ![o] = "loop"]
    /\ UNCHANGED <<ctxDone, inbox, pending>> /\ LUnchanged

\* replyChan <- reply; continue: blocks while the buffer is full.
ListenerSendReply(o) ==
    /\ listener[o] = "sending"
    /\ Len(replyCh[o]) < 1
    /\ replyCh' = [replyCh EXCEPT ![o] = Append(@, pending[o])]
    /\ listener' = [listener EXCEPT ![o] = "loop"]
    /\ UNCHANGED <<ctxDone, inbox, pending>> /\ LUnchanged

\* Mutant: the deferred close(replyChan) is missing.
ListenerSendFinalNoClose(o) ==
    /\ listener[o] = "finishing"
    /\ Len(replyCh[o]) < 1
    /\ replyCh' = [replyCh EXCEPT ![o] = Append(@, pending[o])]
    /\ listener' = [listener EXCEPT ![o] = "done"]
    /\ ctxDone' = [ctxDone EXCEPT ![o] = TRUE]
    /\ UNCHANGED <<caller, cancelled, sub, inbox, pending, closedCh, received,
                   cmd, deliveries>>

\* replyChan <- timeout reply; return: the deferred cancel() and
\* close(replyChan) run after the (blocking) send.
ListenerSendFinal(o) ==
    /\ listener[o] = "finishing"
    /\ Len(replyCh[o]) < 1
    /\ replyCh' = [replyCh EXCEPT ![o] = Append(@, pending[o])]
    /\ listener' = [listener EXCEPT ![o] = "done"]
    /\ ctxDone' = [ctxDone EXCEPT ![o] = TRUE]
    /\ closedCh' = [closedCh EXCEPT ![o] = TRUE]
    /\ UNCHANGED <<caller, cancelled, sub, inbox, pending, received, cmd,
                   deliveries>>

Listener(o) ==
    \/ ListenerCtxDone(o)
    \/ ListenerSubClosed(o)
    \/ ListenerNotify(o)
    \/ ListenerSendReply(o)
    \/ ListenerSendFinal(o)
-----------------------------------------------------------------------------
(* Handler side: the command processor hands the command to the handler   *)
(* built by NewCommandHandler(WithResult); it acks the command when the    *)
(* wrapper returns nil and nacks it (redelivery) otherwise.               *)

\* Open subscriptions that receive what is published on topic t.
Subscribers(t) == {x \in Ops : sub[x] = "open" /\ TopicOf[x] = t}

\* Publisher.Publish(replyTopic, notificationMsg) as seen by subscribers.
PublishNotification(n) ==
    LET S == Subscribers(TopicOf[n.id]) IN
    \/ /\ ~CompetingConsumers
       /\ inbox' = [x \in Ops |-> IF x \in S THEN Append(inbox[x], n)
                                              ELSE inbox[x]]
    \/ /\ CompetingConsumers
       /\ S = {}
       /\ UNCHANGED inbox
    \/ /\ CompetingConsumers
       /\ \E x \in S : inbox' = [inbox EXCEPT ![x] = Append(@, n)]

\* Failures are possible on every delivery but the last one allowed.
MayFail(o) == deliveries[o] < MaxDeliveries - 1

\* Mutant: the wrapper returns handlerErr before calling OnCommandProcessed,
\* so a failing handler gets its command nacked and no notification out.
HandleCommandSkipOnError(o) ==
    /\ cmd[o] = "queued"
    /\ deliveries[o] < MaxDeliveries
    /\ deliveries' = [deliveries EXCEPT ![o] = @ + 1]
    /\ \/ UNCHANGED <<inbox, cmd>>
       \/ /\ PublishNotification([id |-> o, hasError |-> FALSE])
          /\ cmd' = [cmd EXCEPT ![o] = "acked"]
    /\ UNCHANGED <<caller, cancelled, ctxDone, sub, listener, pending,
                   replyCh, closedCh, received>>

\* OnCommandProcessed(cmdMsg, cmd, handleErr): a command without the
\* _watermill_notify_when_executed marker returns nil at once (acked, nothing
\* published).  Otherwise build the notification
\* (HasError iff handleErr # nil), stamp the command UUID, apply
\* ModifyNotificationMessage, derive the topic and publish.  An error in any
\* of these is returned and the command is nacked; a publish may also be out
\* while the ack is lost (crash, broker timeout) and the command redelivered.
OnCommandProcessed(o, handlerErr) ==
    LET n == [id |-> o, hasError |-> handlerErr] IN
    \/ /\ o \notin NotifyWhenExecuted
       /\ cmd' = [cmd EXCEPT ![o] = "acked"]
       /\ UNCHANGED inbox
    \/ /\ o \in NotifyWhenExecuted
       /\ \/ /\ PublishNotification(n)
             /\ cmd' = [cmd EXCEPT ![o] = "acked"]
          \/ /\ MayFail(o)
             /\ UNCHANGED <<inbox, cmd>>
          \/ /\ MayFail(o)
             /\ PublishNotification(n)
             /\ UNCHANGED cmd

\* The wrapper of NewCommandHandler(WithResult): handleFunc runs and returns
\* handlerErr, then OnCommandProcessed is called whatever handlerErr is, and
\* only its error is returned: a failing handler still gets its command acked
\* once the notification is out.
HandleCommand(o) ==
    /\ cmd[o] = "queued"
    /\ deliveries[o] < MaxDeliveries
    /\ deliveries' = [deliveries EXCEPT ![o] = @ + 1]
    /\ \E handlerErr \in BOOLEAN : OnCommandProcessed(o, handlerErr)
    /\ UNCHANGED <<caller, cancelled, ctxDone, sub, listener, pending,
                   replyCh, closedCh, received>>
-----------------------------------------------------------------------------
Next ==
    \E o \in Ops :
        \/ ListenForReply(o)
        \/ SendCommand(o)
        \/ CallerCancel(o)
        \/ CallerRead(o)
        \/ Timeout(o)
        \/ SubscriptionEnds(o)
        \/ SubscriberShutdown(o)
        \/ Listener(o)
        \/ HandleCommand(o)

\* The goroutines, the timer, the subscriber and the command processor make
\* progress; SendWithReply, once called, returns.  The caller's own steps
\* (cancel, read) are not assumed: a caller may abandon the channel.
Fairness ==
    \A o \in Ops :
        /\ WF_vars(SendCommand(o))
        /\ WF_vars(Listener(o))
        /\ WF_vars(Timeout(o))
        /\ WF_vars(SubscriptionEnds(o))
        /\ WF_vars(HandleCommand(o))

Spec == Init /\ [][Next]_vars /\ Fairness

\* A caller that keeps reading its channel.
DrainSpec == Spec /\ \A o \in Ops : WF_vars(CallerRead(o))
-----------------------------------------------------------------------------
(* Properties.                                                             *)

\* Everything the listener has written to replyChan, in order.
Written(o) == received[o] \o replyCh[o]

Correlated(o, r) == r.msg # NoMsg => r.msg.id = o

\* A reply carrying a notification reaches only the caller whose command the
\* notification is about, also when several calls share one reply topic and
\* each listener sees the others' notifications (handleNotifyMsg's filter).
ReplyCorrelation ==
    \A o \in Ops :
        /\ \A i \in DOMAIN received[o] : Correlated(o, received[o][i])
        /\ \A i \in DOMAIN replyCh[o] : Correlated(o, replyCh[o][i])

\* Once SendWithReply has returned a channel, a reply eventually arrives on
\* it: the subscription is open before the command is published, the
\* handler's wrapper always reports the outcome, and the listener forwards it.
EventuallyReplied ==
    \A o \in Ops :
        caller[o] = "returned" ~> (received[o] # <<>> \/ replyCh[o] # <<>>)

\* SendWithReply's comment: "When SendWithReply is canceled, the returned
\* channel is closed as well" (for a caller that keeps reading it).
ChannelClosedAfterCancel ==
    \A o \in Ops : (caller[o] = "returned" /\ cancelled[o]) ~> closedCh[o]

\* The spec (section 3): at most one Reply is ever written to the delivery
\* handle of a call.
AtMostOneReply ==
    \A o \in Ops : Len(Written(o)) <= 1

\* The listener goroutine of a cancelled call terminates (no goroutine and
\* no subscription outlive cancel), whatever the caller does with the channel.
ListenerStopsAfterCancel ==
    \A o \in Ops : (cancelled[o] /\ listener[o] # "none") ~> listener[o] = "done"

-----------------------------------------------------------------------------
(***************************************************************************)
(* Refinement: the channel of every call, as its reader sees it (what it   *)
(* has read followed by what is buffered), behaves as ReplyChannel says.   *)
(***************************************************************************)
RC == INSTANCE ReplyChannel
        WITH Notifications <- Notification,
             chan <- [o \in Ops |-> Written(o)],
             closed <- closedCh

(***************************************************************************)
(* The replies the listener of ListenForReply writes to replyChan are, in  *)
(* order: replies for notifications of its own command, each an error      *)
(* exactly when the handler failed (handleNotifyMsg), then one timeout     *)
(* reply together with the deferred close(replyChan), and nothing after.   *)
(***************************************************************************)
ImplementsReplyChannel == RC!Spec
=============================================================================
