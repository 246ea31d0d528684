------------------------- MODULE RequestReplyProofs -------------------------
(***************************************************************************)
(* Proofs about RequestReply for every value of the constants: the type   *)
(* invariant, and ReplyCorrelation through an inductive strengthening     *)
(* that also constrains the reply the listener goroutine is about to send. *)
(***************************************************************************)
EXTENDS RequestReply, SequenceTheorems, TLAPS

\* Publishing a notification keeps every subscription's inbox a sequence of
\* notifications, whichever subscriptions it reaches.
LEMMA PublishType ==
    ASSUME TypeOK, NEW n \in Notification, PublishNotification(n)
    PROVE  inbox' \in [Ops -> Seq(Notification)]
<1>1. CASE ~CompetingConsumers
           /\ inbox' = [x \in Ops |-> IF x \in Subscribers(TopicOf[n.id])
                                        THEN Append(inbox[x], n)
                                        ELSE inbox[x]]
  BY <1>1 DEF TypeOK
<1>2. CASE CompetingConsumers /\ UNCHANGED inbox
  BY <1>2 DEF TypeOK
<1>3. CASE \E x \in Subscribers(TopicOf[n.id]) :
             inbox' = [inbox EXCEPT ![x] = Append(@, n)]
  BY <1>3 DEF TypeOK, Subscribers
<1>4. QED
  BY <1>1, <1>2, <1>3 DEF PublishNotification

\* One step of Next keeps the type invariant.
LEMMA TypeStep == TypeOK /\ [Next]_vars => TypeOK'
<1> SUFFICES ASSUME TypeOK, [Next]_vars PROVE TypeOK'
  OBVIOUS
<1>1. ASSUME NEW o \in Ops, ListenForReply(o) PROVE TypeOK'
  BY <1>1 DEF ListenForReply, Cancel, TypeOK
<1>2. ASSUME NEW o \in Ops, SendCommand(o) PROVE TypeOK'
  BY <1>2 DEF SendCommand, Cancel, TypeOK
<1>3. ASSUME NEW o \in Ops, CallerCancel(o) PROVE TypeOK'
  BY <1>3 DEF CallerCancel, Cancel, TypeOK
<1>4. ASSUME NEW o \in Ops, CallerRead(o) PROVE TypeOK'
  <2>1. replyCh[o] \in Seq(Reply) /\ replyCh[o] # <<>>
    BY <1>4 DEF CallerRead, TypeOK
  <2>2. Head(replyCh[o]) \in Reply /\ Tail(replyCh[o]) \in Seq(Reply)
        /\ Len(Tail(replyCh[o])) <= 1
    BY <2>1, <1>4 DEF TypeOK
  <2>3. received' \in [Ops -> Seq(Reply)]
    BY <1>4, <2>2 DEF CallerRead, TypeOK
  <2>4. replyCh' \in [Ops -> Seq(Reply)] /\ \A x \in Ops : Len(replyCh'[x]) <= 1
    BY <1>4, <2>2 DEF CallerRead, TypeOK
  <2>. QED
    BY <1>4, <2>3, <2>4 DEF CallerRead, TypeOK
<1>5. ASSUME NEW o \in Ops, Timeout(o) PROVE TypeOK'
  BY <1>5 DEF Timeout, TypeOK
<1>6. ASSUME NEW o \in Ops, SubscriptionEnds(o) PROVE TypeOK'
  BY <1>6 DEF SubscriptionEnds, TypeOK
<1>7. ASSUME NEW o \in Ops, SubscriberShutdown(o) PROVE TypeOK'
  BY <1>7 DEF SubscriberShutdown, TypeOK
<1>8. ASSUME NEW o \in Ops, ListenerCtxDone(o) PROVE TypeOK'
  BY <1>8 DEF ListenerCtxDone, LUnchanged, TypeOK, Reply
<1>9. ASSUME NEW o \in Ops, ListenerSubClosed(o) PROVE TypeOK'
  BY <1>9 DEF ListenerSubClosed, LUnchanged, TypeOK, Reply
<1>10. ASSUME NEW o \in Ops, ListenerNotify(o) PROVE TypeOK'
  <2>1. Head(inbox[o]) \in Notification
    BY <1>10 DEF ListenerNotify, TypeOK
  <2>2. ReplyFor(Head(inbox[o])) \in Reply
    BY <2>1 DEF ReplyFor, Reply
  <2>3. inbox' \in [Ops -> Seq(Notification)]
    BY <1>10 DEF ListenerNotify, TypeOK
  <2>4. pending' \in [Ops -> Reply] /\ listener' \in [Ops -> {"none", "loop", "sending", "finishing", "done"}]
    BY <1>10, <2>2 DEF ListenerNotify, TypeOK
  <2>. QED
    BY <1>10, <2>3, <2>4 DEF ListenerNotify, LUnchanged, TypeOK
<1>11. ASSUME NEW o \in Ops, ListenerSendReply(o) PROVE TypeOK'
  BY <1>11 DEF ListenerSendReply, LUnchanged, TypeOK
<1>12. ASSUME NEW o \in Ops, ListenerSendFinal(o) PROVE TypeOK'
  BY <1>12 DEF ListenerSendFinal, TypeOK
<1>13. ASSUME NEW o \in Ops, HandleCommand(o) PROVE TypeOK'
  <2>1. PICK handlerErr \in BOOLEAN :
          LET n == [id |-> o, hasError |-> handlerErr] IN
          \/ cmd' = [cmd EXCEPT ![o] = "acked"] /\ UNCHANGED inbox
          \/ PublishNotification(n) /\ cmd' = [cmd EXCEPT ![o] = "acked"]
          \/ MayFail(o) /\ UNCHANGED <<inbox, cmd>>
          \/ MayFail(o) /\ PublishNotification(n) /\ UNCHANGED cmd
    BY <1>13 DEF HandleCommand, OnCommandProcessed
  <2>2. [id |-> o, hasError |-> handlerErr] \in Notification
    BY DEF Notification
  <2>3. inbox' \in [Ops -> Seq(Notification)]
    BY <2>1, <2>2, PublishType DEF TypeOK
  <2>4. cmd' \in [Ops -> {"none", "queued", "acked"}]
    BY <2>1 DEF TypeOK
  <2>5. deliveries' \in [Ops -> 0..MaxDeliveries]
    BY <1>13, RRAssumption DEF HandleCommand, TypeOK
  <2>. QED
    BY <1>13, <2>3, <2>4, <2>5 DEF HandleCommand, TypeOK
<1>14. CASE UNCHANGED vars
  BY <1>14 DEF vars, TypeOK
<1>15. QED
  BY <1>1, <1>2, <1>3, <1>4, <1>5, <1>6, <1>7, <1>8, <1>9, <1>10, <1>11,
     <1>12, <1>13, <1>14 DEF Next, Listener

\* The type invariant: every variable keeps its type, and replyChan never
\* holds more than its capacity of one reply.
THEOREM TypeCorrect == Spec => []TypeOK
<1>1. Init => TypeOK
  BY RRAssumption DEF Init, TypeOK, NoReply, Reply
<1>2. QED
  BY <1>1, TypeStep, PTL DEF Spec

\* The inductive strengthening of ReplyCorrelation: the reply the goroutine
\* holds between handleNotifyMsg and the send on replyChan is correlated too.
IInv ==
    /\ TypeOK
    /\ ReplyCorrelation
    /\ \A o \in Ops : Correlated(o, pending[o])

\* Appending a correlated reply to a correlated sequence keeps it correlated.
LEMMA AppendCorrelated ==
    ASSUME NEW o, NEW s \in Seq(Reply), NEW r \in Reply,
           \A i \in DOMAIN s : Correlated(o, s[i]),
           Correlated(o, r)
    PROVE  \A i \in DOMAIN Append(s, r) : Correlated(o, Append(s, r)[i])
BY DEF Correlated

\* The tail of a correlated sequence is correlated.
LEMMA TailCorrelated ==
    ASSUME NEW o, NEW s \in Seq(Reply), s # <<>>,
           \A i \in DOMAIN s : Correlated(o, s[i])
    PROVE  /\ \A i \in DOMAIN Tail(s) : Correlated(o, Tail(s)[i])
           /\ Correlated(o, Head(s))
BY DEF Correlated

\* What a step leaves alone of call x's replies.
Frame(x) == /\ received'[x] = received[x]
            /\ replyCh'[x] = replyCh[x]
            /\ pending'[x] = pending[x]

\* The replies of call o are all correlated.
OwnCorrelated(o) ==
    /\ \A i \in DOMAIN received[o] : Correlated(o, received[o][i])
    /\ \A i \in DOMAIN replyCh[o] : Correlated(o, replyCh[o][i])
    /\ Correlated(o, pending[o])

\* A step that keeps the types, touches the replies of call o only, and
\* leaves them correlated, keeps IInv.
LEMMA StepOnOne ==
    ASSUME IInv, TypeOK', NEW o \in Ops,
           \A x \in Ops \ {o} : Frame(x),
           OwnCorrelated(o)'
    PROVE  IInv'
<1>1. \A x \in Ops : OwnCorrelated(x)
  BY DEF IInv, ReplyCorrelation, OwnCorrelated
<1>2. \A x \in Ops : OwnCorrelated(x)'
  <2> TAKE x \in Ops
  <2>1. CASE x = o
    BY <2>1
  <2>2. CASE x # o
    BY <2>2, <1>1 DEF Frame, OwnCorrelated
  <2>. QED
    BY <2>1, <2>2
<1>. QED
  BY <1>2 DEF IInv, ReplyCorrelation, OwnCorrelated

\* A reply handed to a caller carries no other call's notification: the
\* listener of each call forwards only notifications stamped with its own
\* command UUID, also on a reply topic shared by several calls.
THEOREM Correlation == Spec => []ReplyCorrelation
<1>1. Init => IInv
  BY RRAssumption DEF Init, IInv, TypeOK, ReplyCorrelation, Correlated,
                      NoReply, Reply
<1>2. IInv /\ [Next]_vars => IInv'
  <2> SUFFICES ASSUME IInv, [Next]_vars PROVE IInv'
    OBVIOUS
  <2>1. TypeOK'
    BY TypeStep DEF IInv
  <2>3. ASSUME NEW o \in Ops, CallerRead(o) PROVE IInv'
    <3>1. OwnCorrelated(o) /\ replyCh[o] \in Seq(Reply) /\ replyCh[o] # <<>>
          /\ received[o] \in Seq(Reply)
      BY <2>3 DEF IInv, ReplyCorrelation, OwnCorrelated, CallerRead, TypeOK
    <3>2. /\ \A i \in DOMAIN Tail(replyCh[o]) : Correlated(o, Tail(replyCh[o])[i])
          /\ Correlated(o, Head(replyCh[o]))
          /\ Head(replyCh[o]) \in Reply
      BY <3>1, TailCorrelated DEF OwnCorrelated
    <3>3. \A i \in DOMAIN Append(received[o], Head(replyCh[o])) :
             Correlated(o, Append(received[o], Head(replyCh[o]))[i])
      BY <3>1, <3>2, AppendCorrelated DEF OwnCorrelated
    <3>4. /\ received'[o] = Append(received[o], Head(replyCh[o]))
          /\ replyCh'[o] = Tail(replyCh[o])
          /\ pending'[o] = pending[o]
          /\ \A x \in Ops \ {o} : Frame(x)
      BY <2>3 DEF CallerRead, IInv, TypeOK, Frame
    <3>. QED
      BY <2>1, <3>1, <3>2, <3>3, <3>4, StepOnOne DEF OwnCorrelated
  <2>4. ASSUME NEW o \in Ops, ListenerCtxDone(o) \/ ListenerSubClosed(o)
        PROVE  IInv'
    <3>1. /\ pending'[o].msg = NoMsg
          /\ received'[o] = received[o] /\ replyCh'[o] = replyCh[o]
          /\ \A x \in Ops \ {o} : Frame(x)
      BY <2>4 DEF ListenerCtxDone, ListenerSubClosed, LUnchanged, IInv,
                  TypeOK, Frame
    <3>. QED
      BY <2>1, <3>1, StepOnOne DEF IInv, ReplyCorrelation, OwnCorrelated,
                                   Correlated
  <2>5. ASSUME NEW o \in Ops, ListenerNotify(o) PROVE IInv'
    <3>1. /\ received'[o] = received[o] /\ replyCh'[o] = replyCh[o]
          /\ \A x \in Ops \ {o} : Frame(x)
      BY <2>5 DEF ListenerNotify, LUnchanged, IInv, TypeOK, Frame
    <3>2. Correlated(o, pending'[o])
      <4>1. CASE Matches(Head(inbox[o]), o)
        <5>1. pending'[o] = ReplyFor(Head(inbox[o]))
          BY <2>5, <4>1 DEF ListenerNotify, Matches, IInv, TypeOK
        <5>. QED
          BY <4>1, <5>1 DEF Matches, ReplyFor, Correlated
      <4>2. CASE ~Matches(Head(inbox[o]), o)
        BY <2>5, <4>2 DEF ListenerNotify, IInv
      <4>. QED
        BY <4>1, <4>2
    <3>. QED
      BY <2>1, <3>1, <3>2, StepOnOne DEF IInv, ReplyCorrelation, OwnCorrelated
  <2>6. ASSUME NEW o \in Ops, ListenerSendReply(o) \/ ListenerSendFinal(o)
        PROVE  IInv'
    <3>1. OwnCorrelated(o) /\ replyCh[o] \in Seq(Reply) /\ pending[o] \in Reply
      BY DEF IInv, ReplyCorrelation, OwnCorrelated, TypeOK
    <3>2. \A i \in DOMAIN Append(replyCh[o], pending[o]) :
             Correlated(o, Append(replyCh[o], pending[o])[i])
      BY <3>1, AppendCorrelated DEF OwnCorrelated
    <3>3. /\ replyCh'[o] = Append(replyCh[o], pending[o])
          /\ received'[o] = received[o] /\ pending'[o] = pending[o]
          /\ \A x \in Ops \ {o} : Frame(x)
      BY <2>6 DEF ListenerSendReply, ListenerSendFinal, LUnchanged, IInv,
                  TypeOK, Frame
    <3>. QED
      BY <2>1, <3>1, <3>2, <3>3, StepOnOne DEF OwnCorrelated
  <2>7. ASSUME NEW o \in Ops,
               \/ ListenForReply(o) \/ SendCommand(o) \/ CallerCancel(o)
               \/ Timeout(o) \/ SubscriptionEnds(o) \/ SubscriberShutdown(o)
               \/ HandleCommand(o)
        PROVE  IInv'
    <3>1. UNCHANGED <<received, replyCh, pending>>
      BY <2>7 DEF ListenForReply, SendCommand, CallerCancel, Timeout,
                  SubscriptionEnds, SubscriberShutdown, HandleCommand,
                  OnCommandProcessed
    <3>. QED
      BY <2>1, <3>1 DEF IInv, ReplyCorrelation
  <2>8. CASE UNCHANGED vars
    BY <2>1, <2>8 DEF vars, IInv, ReplyCorrelation
  <2>9. QED
    BY <2>3, <2>4, <2>5, <2>6, <2>7, <2>8 DEF Next, Listener
<1>3. IInv => ReplyCorrelation
  BY DEF IInv
<1>4. QED
  BY <1>1, <1>2, <1>3, PTL DEF Spec

-----------------------------------------------------------------------------
(***************************************************************************)
(* Refinement of ReplyChannel.  The channel the reader sees is             *)
(* Written(o) = received[o] \o replyCh[o]; reads move a reply from one     *)
(* part to the other and are stutters of ReplyChannel.  Only the two sends *)
(* of the listener change it: ListenerSendReply is a Deliver and           *)
(* ListenerSendFinal a Finish.  For this, RInv records what the listener   *)
(* holds in pending in each of its states, and that a channel is closed   *)
(* only by a listener that is done.                                        *)
(***************************************************************************)
RInv ==
    /\ TypeOK
    /\ \A o \in Ops : caller[o] = "idle" => listener[o] = "none"
    /\ \A o \in Ops : listener[o] = "sending" => pending[o] \in RC!OwnReplies(o)
    /\ \A o \in Ops : listener[o] = "finishing" => pending[o] \in RC!FinalReplies
    /\ \A o \in Ops : closedCh[o] => listener[o] = "done"

\* The channel of every call as its reader sees it.
AChan == [o \in Ops |-> Written(o)]

\* Written(o) with an empty buffer, and with one buffered reply.
LEMMA WrittenForms ==
    ASSUME NEW s \in Seq(Reply), NEW r \in Reply
    PROVE  /\ s \o <<>> = s
           /\ s \o <<r>> = Append(s, r)
BY ConcatEmptySeq, AppendIsConcat

\* The per-call facts of RInv for call o.
ROwn(o) ==
    /\ caller[o] = "idle" => listener[o] = "none"
    /\ listener[o] = "sending" => pending[o] \in RC!OwnReplies(o)
    /\ listener[o] = "finishing" => pending[o] \in RC!FinalReplies
    /\ closedCh[o] => listener[o] = "done"

\* What a step leaves alone of call x for RInv.
RFrame(x) ==
    /\ caller'[x] = caller[x]
    /\ listener'[x] = listener[x]
    /\ pending'[x] = pending[x]
    /\ closedCh'[x] = closedCh[x]

\* A typed step that touches call o only and keeps its facts keeps RInv.
LEMMA RStepOnOne ==
    ASSUME RInv, TypeOK', NEW o \in Ops,
           \A x \in Ops \ {o} : RFrame(x),
           ROwn(o)'
    PROVE  RInv'
<1>1. \A x \in Ops : ROwn(x)
    BY DEF RInv, ROwn
<1>2. \A x \in Ops \ {o} : ROwn(x)'
    BY <1>1 DEF RFrame, ROwn
<1> QED
    BY <1>2 DEF RInv, ROwn

\* Every step keeps RInv.
LEMMA RInvStep == RInv /\ [Next]_vars => RInv'
<1> SUFFICES ASSUME RInv, [Next]_vars PROVE RInv'
    OBVIOUS
<1>0. TypeOK'
    BY TypeStep DEF RInv
<1>1. ASSUME NEW o \in Ops, ListenForReply(o) PROVE RInv'
    <2>1. \A x \in Ops \ {o} : RFrame(x)
        BY <1>1 DEF ListenForReply, Cancel, RInv, TypeOK, RFrame
    <2>2. listener[o] = "none" /\ ~closedCh[o]
        BY <1>1 DEF ListenForReply, RInv
    <2>3. ROwn(o)'
        BY <1>1, <2>2 DEF ListenForReply, Cancel, RInv, TypeOK, ROwn
    <2> QED
        BY <1>0, <2>1, <2>3, RStepOnOne
<1>2. ASSUME NEW o \in Ops, ListenerCtxDone(o) \/ ListenerSubClosed(o) PROVE RInv'
    <2>1. \A x \in Ops \ {o} : RFrame(x)
        BY <1>2 DEF ListenerCtxDone, ListenerSubClosed, LUnchanged, RInv, TypeOK, RFrame
    <2>2. /\ pending'[o] \in {[err |-> "timeout", msg |-> NoMsg],
                               [err |-> "closed", msg |-> NoMsg]}
          /\ listener'[o] = "finishing" /\ caller'[o] = caller[o]
          /\ ~closedCh'[o] /\ caller[o] # "idle"
        BY <1>2 DEF ListenerCtxDone, ListenerSubClosed, LUnchanged, RInv, TypeOK
    <2>3. pending'[o] \in RC!FinalReplies
        BY <2>2 DEF RC!FinalReplies
    <2> QED
        BY <1>0, <2>1, <2>2, <2>3, RStepOnOne DEF ROwn
<1>3. ASSUME NEW o \in Ops, ListenerNotify(o) PROVE RInv'
    <2>1. \A x \in Ops \ {o} : RFrame(x)
        BY <1>3 DEF ListenerNotify, LUnchanged, RInv, TypeOK, RFrame
    <2>2. Head(inbox[o]) \in Notification
        BY <1>3 DEF ListenerNotify, RInv, TypeOK
    <2>3. /\ caller'[o] = caller[o] /\ closedCh'[o] = closedCh[o]
          /\ listener[o] = "loop" /\ ~closedCh[o] /\ caller[o] # "idle"
        BY <1>3 DEF ListenerNotify, LUnchanged, RInv, TypeOK
    <2>4. CASE Matches(Head(inbox[o]), o)
        <3>1. pending'[o] = ReplyFor(Head(inbox[o])) /\ listener'[o] = "sending"
            BY <1>3, <2>4 DEF ListenerNotify, RInv, TypeOK
        <3>2. ReplyFor(Head(inbox[o])) \in RC!OwnReplies(o)
            BY <2>2, <2>4 DEF Matches, ReplyFor, RC!OwnReplies
        <3> QED
            BY <1>0, <2>1, <2>3, <3>1, <3>2, RStepOnOne DEF ROwn
    <2>5. CASE ~Matches(Head(inbox[o]), o)
        <3>1. listener'[o] = "loop"
            BY <1>3, <2>5 DEF ListenerNotify, RInv, TypeOK
        <3> QED
            BY <1>0, <2>1, <2>3, <3>1, RStepOnOne DEF ROwn
    <2> QED
        BY <2>4, <2>5
<1>4. ASSUME NEW o \in Ops, ListenerSendReply(o) \/ ListenerSendFinal(o) PROVE RInv'
    <2>1. \A x \in Ops \ {o} : RFrame(x)
        BY <1>4 DEF ListenerSendReply, ListenerSendFinal, LUnchanged, RInv, TypeOK, RFrame
    <2>2. /\ listener'[o] \in {"loop", "done"}
          /\ closedCh'[o] => listener'[o] = "done"
          /\ caller'[o] = caller[o] /\ caller[o] # "idle"
        BY <1>4 DEF ListenerSendReply, ListenerSendFinal, LUnchanged, RInv, TypeOK
    <2> QED
        BY <1>0, <2>1, <2>2, RStepOnOne DEF ROwn
<1>5. ASSUME NEW o \in Ops,
             \/ SendCommand(o) \/ CallerCancel(o) \/ CallerRead(o)
             \/ Timeout(o) \/ SubscriptionEnds(o) \/ SubscriberShutdown(o)
             \/ HandleCommand(o)
      PROVE  RInv'
    <2>1. UNCHANGED <<listener, pending, closedCh>>
        BY <1>5 DEF SendCommand, CallerCancel, CallerRead, Timeout,
                    SubscriptionEnds, SubscriberShutdown, HandleCommand
    <2>2. \A x \in Ops \ {o} : caller'[x] = caller[x]
        BY <1>5 DEF SendCommand, CallerCancel, CallerRead, Timeout,
                    SubscriptionEnds, SubscriberShutdown, HandleCommand, RInv, TypeOK
    <2>3. caller'[o] = caller[o] \/ caller'[o] # "idle"
        BY <1>5 DEF SendCommand, CallerCancel, CallerRead, Timeout,
                    SubscriptionEnds, SubscriberShutdown, HandleCommand, RInv, TypeOK
    <2> QED
        BY <1>0, <2>1, <2>2, <2>3, RStepOnOne DEF RFrame, ROwn, RInv
<1>6. CASE UNCHANGED vars
    BY <1>6 DEF vars, RInv, TypeOK
<1> QED
    BY <1>1, <1>2, <1>3, <1>4, <1>5, <1>6 DEF Next, Listener

\* RInv holds in every reachable state.
LEMMA RInvHolds == Spec => []RInv
<1>1. Init => RInv
    BY RRAssumption DEF Init, RInv, TypeOK, NoReply, Reply
<1> QED
    BY <1>1, RInvStep, PTL DEF Spec

\* A non-empty buffer of capacity one holds exactly its head.
LEMMA SingleBuffer ==
    ASSUME NEW s \in Seq(Reply), s # <<>>, Len(s) <= 1
    PROVE  /\ s = <<Head(s)>>
           /\ Tail(s) = <<>>
           /\ Head(s) \in Reply
<1>1. Len(s) = 1 /\ Head(s) \in Reply /\ Tail(s) \in Seq(Reply) /\ Len(Tail(s)) = 0
    BY EmptySeq, HeadTailProperties
<1>2. Tail(s) = <<>>
    <2>1. \A t \in Seq(Reply) : t # <<>> => Len(t) \in Nat \ {0}
        BY EmptySeq
    <2> QED
        BY <1>1, <2>1, Zenon
<1>3. s = <<Head(s)>>
    BY <1>1, SeqEqual, LenProperties
<1> QED
    BY <1>1, <1>2, <1>3

\* The steps that leave the reader's view of call x alone.
WrittenFrame(x) ==
    /\ received'[x] = received[x]
    /\ replyCh'[x] = replyCh[x]

\* A step that changes the reader's view of call o only, to Append(Written(o), r).
LEMMA ChanAppend ==
    ASSUME TypeOK, NEW o \in Ops, NEW r,
           \A x \in Ops \ {o} : WrittenFrame(x),
           Written(o)' = Append(Written(o), r)
    PROVE  AChan' = [AChan EXCEPT ![o] = Append(@, r)]
BY DEF AChan, WrittenFrame, Written, TypeOK

(***************************************************************************)
(* The detailed specification implements ReplyChannel under the mapping    *)
(* chan[o] = Written(o) and closed = closedCh: whatever the interleaving   *)
(* of listeners, timers, subscribers, handlers and readers, each call's    *)
(* channel receives only replies built from its own notifications, then    *)
(* exactly one ReplyTimeoutError together with close(replyChan), and       *)
(* nothing after it (the listener goroutine of ListenForReply, lines       *)
(* 405-435 of event_processor_group.go).                                    *)
\* Every step of the detailed specification is a step of ReplyChannel or
\* leaves the reader's view of every channel unchanged.
LEMMA RefinementStep == RInv /\ [Next]_vars => [RC!Next]_<<AChan, closedCh>>
<1> SUFFICES ASSUME RInv, [Next]_vars PROVE [RC!Next]_<<AChan, closedCh>>
    OBVIOUS
<1>0. TypeOK /\ TypeOK'
    BY TypeStep DEF RInv
<1>1. ASSUME NEW o \in Ops, ListenerSendReply(o) PROVE RC!Next
    <2>1. replyCh[o] = <<>> /\ ~closedCh[o] /\ pending[o] \in RC!OwnReplies(o)
        BY <1>1 DEF ListenerSendReply, RInv, TypeOK
    <2>2. pending[o] \in Reply /\ received[o] \in Seq(Reply)
        BY DEF RInv, TypeOK
    <2>3. Written(o)' = Append(Written(o), pending[o])
        <3>1. replyCh'[o] = <<pending[o]>> /\ received'[o] = received[o]
            BY <1>1, <2>1 DEF ListenerSendReply, LUnchanged, RInv, TypeOK
        <3>2. Written(o) = received[o]
            BY <2>1, <2>2, WrittenForms DEF Written
        <3> QED
            BY <2>2, <3>1, <3>2, WrittenForms DEF Written
    <2>4. \A x \in Ops \ {o} : WrittenFrame(x)
        BY <1>1, <1>0 DEF ListenerSendReply, LUnchanged, WrittenFrame, TypeOK
    <2>5. AChan' = [AChan EXCEPT ![o] = Append(@, pending[o])]
        BY <1>0, <2>3, <2>4, ChanAppend
    <2>6. RC!Deliver(o)
        BY <1>1, <2>1, <2>5 DEF RC!Deliver, ListenerSendReply, LUnchanged, AChan
    <2> QED
        BY <2>6 DEF RC!Next
<1>2. ASSUME NEW o \in Ops, ListenerSendFinal(o) PROVE RC!Next
    <2>1. replyCh[o] = <<>> /\ ~closedCh[o] /\ pending[o] \in RC!FinalReplies
        BY <1>2 DEF ListenerSendFinal, RInv, TypeOK
    <2>2. pending[o] \in Reply /\ received[o] \in Seq(Reply)
        BY DEF RInv, TypeOK
    <2>3. Written(o)' = Append(Written(o), pending[o])
        <3>1. replyCh'[o] = <<pending[o]>> /\ received'[o] = received[o]
            BY <1>2, <2>1 DEF ListenerSendFinal, LUnchanged, RInv, TypeOK
        <3>2. Written(o) = received[o]
            BY <2>1, <2>2, WrittenForms DEF Written
        <3> QED
            BY <2>2, <3>1, <3>2, WrittenForms DEF Written
    <2>4. \A x \in Ops \ {o} : WrittenFrame(x)
        BY <1>2, <1>0 DEF ListenerSendFinal, WrittenFrame, TypeOK
    <2>5. AChan' = [AChan EXCEPT ![o] = Append(@, pending[o])]
        BY <1>0, <2>3, <2>4, ChanAppend
    <2>6. RC!Finish(o)
        BY <1>2, <2>1, <2>5 DEF RC!Finish, ListenerSendFinal, AChan
    <2> QED
        BY <2>6 DEF RC!Next
<1>3. ASSUME NEW o \in Ops, CallerRead(o) PROVE UNCHANGED <<AChan, closedCh>>
    <2>1. /\ replyCh[o] = <<Head(replyCh[o])>> /\ Tail(replyCh[o]) = <<>>
          /\ Head(replyCh[o]) \in Reply
        BY <1>3, SingleBuffer DEF CallerRead, RInv, TypeOK
    <2>2. Written(o)' = Written(o)
        <3> DEFINE h == Head(replyCh[o])
        <3>1. received[o] \in Seq(Reply)
            BY DEF RInv, TypeOK
        <3>2. received'[o] = Append(received[o], h) /\ replyCh'[o] = <<>>
            BY <1>3, <2>1 DEF CallerRead, RInv, TypeOK
        <3>3. Append(received[o], h) \in Seq(Reply)
            BY <2>1, <3>1
        <3>4. Written(o)' = Append(received[o], h)
            BY <3>2, <3>3, WrittenForms DEF Written
        <3>5. Written(o) = Append(received[o], h)
            BY <2>1, <3>1, WrittenForms DEF Written
        <3> QED
            BY <3>4, <3>5
    <2>3. \A x \in Ops \ {o} : Written(x)' = Written(x)
        BY <1>3, <1>0 DEF CallerRead, Written, TypeOK
    <2> QED
        BY <1>3, <2>2, <2>3 DEF CallerRead, AChan
<1>4. ASSUME NEW o \in Ops,
             \/ ListenForReply(o) \/ SendCommand(o) \/ CallerCancel(o)
             \/ Timeout(o) \/ SubscriptionEnds(o) \/ SubscriberShutdown(o)
             \/ ListenerCtxDone(o) \/ ListenerSubClosed(o) \/ ListenerNotify(o)
             \/ HandleCommand(o)
      PROVE  UNCHANGED <<AChan, closedCh>>
    <2>1. UNCHANGED <<received, replyCh, closedCh>>
        BY <1>4 DEF ListenForReply, Cancel, SendCommand, CallerCancel, Timeout,
                    SubscriptionEnds, SubscriberShutdown, ListenerCtxDone,
                    ListenerSubClosed, ListenerNotify, LUnchanged, HandleCommand
    <2> QED
        BY <2>1 DEF AChan, Written
<1>5. CASE UNCHANGED vars
    BY <1>5 DEF vars, AChan, Written
<1> QED
    BY <1>1, <1>2, <1>3, <1>4, <1>5 DEF Next, Listener

(***************************************************************************)
THEOREM Refinement == Spec => ImplementsReplyChannel
<1>1. Init => RC!Init
    <2> SUFFICES ASSUME Init PROVE RC!Init
        OBVIOUS
    <2>1. \A x \in Ops : Written(x) = <<>>
        BY DEF Init, Written
    <2> QED
        BY <2>1 DEF Init, RC!Init
<1>2. RInv /\ [Next]_vars => [RC!Next]_<<AChan, closedCh>>
    BY RefinementStep
<1> QED
    BY <1>1, <1>2, RInvHolds, PTL DEF Spec, ImplementsReplyChannel, RC!Spec, AChan
=============================================================================
