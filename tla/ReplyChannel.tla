---------------------------- MODULE ReplyChannel ----------------------------
(***************************************************************************)
(* What the channel SendWithReply returns promises its reader, per call,   *)
(* with the details of how replies are produced left out:                  *)
(*   - every reply written before the last one carries a notification of   *)
(*     this very call, and reports the handler's outcome: an error exactly *)
(*     when the notification says HasError;                                *)
(*   - the last reply is a ReplyTimeoutError (context done or subscription *)
(*     closed), written together with the channel's close;                 *)
(*   - nothing is written after that.                                      *)
(* Nothing here says that a call gets only one reply: the code writes one  *)
(* per matching notification (see the run rr_at_most_one).                 *)
(***************************************************************************)
EXTENDS Sequences

CONSTANTS
    Ops,            \* the calls, each named by its command UUID
    Notifications,  \* the notifications, records [id, hasError]
    NoMsg           \* a reply carrying no notification

VARIABLES
    chan,           \* chan[o]: the replies written to o's channel, in order
    closed          \* closed[o]: o's channel is closed

\* The replies built from a notification of call o.
OwnReplies(o) ==
    {[err |-> IF n.hasError THEN "handler" ELSE "none", msg |-> n] :
        n \in {m \in Notifications : m.id = o}}

\* The terminal ReplyTimeoutError replies.
FinalReplies == {[err |-> e, msg |-> NoMsg] : e \in {"timeout", "closed"}}

Init ==
    /\ chan = [o \in Ops |-> <<>>]
    /\ closed = [o \in Ops |-> FALSE]

\* A reply for a matching notification is written to an open channel.
Deliver(o) ==
    /\ ~closed[o]
    /\ \E r \in OwnReplies(o) : chan' = [chan EXCEPT ![o] = Append(@, r)]
    /\ UNCHANGED closed

\* The terminal reply is written and the channel closed.
Finish(o) ==
    /\ ~closed[o]
    /\ \E r \in FinalReplies : chan' = [chan EXCEPT ![o] = Append(@, r)]
    /\ closed' = [closed EXCEPT ![o] = TRUE]

Next == \E o \in Ops : Deliver(o) \/ Finish(o)

Spec == Init /\ [][Next]_<<chan, closed>>

=============================================================================
