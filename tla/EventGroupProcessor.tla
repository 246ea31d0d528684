------------------------- MODULE EventGroupProcessor -------------------------
(***************************************************************************)
(* cqrs.EventGroupProcessor (event_processor_group.go, lines 1-260).       *)
(*                                                                         *)
(* The application registers handler groups with AddHandlersGroup, then    *)
(* calls AddHandlersToRouter once.  That call adds one router handler per  *)
(* group, each with a subscriber of its own.  The router then hands every  *)
(* event of the group's topic to the group's handler function              *)
(* (routerHandlerGroupFunc).  That function runs the FIRST handler of the  *)
(* group whose event name matches.  The router acks the message when the   *)
(* function returns nil, and nacks it otherwise; a nacked message is       *)
(* redelivered.  An event that no handler of the group takes is acked only *)
(* when AckOnUnknownEvent is set.                                          *)
(*                                                                         *)
(* The subscription of a group is an ordered stream (the config's comment  *)
(* on GroupSubscriberConstructor): the events of the topic are the         *)
(* sequence Stream, and each group consumes it from its own offset.  A     *)
(* nacked event is redelivered before any later one.                       *)
(***************************************************************************)
EXTENDS Naturals, Sequences, SequencesExt

CONSTANTS
    Groups,             \* handler group names
    Handlers,           \* GroupEventHandler instances
    EventNames,         \* event type names, as Marshaler.Name gives them
    EventOf,            \* EventOf[h]: the name of h's NewEvent()
    InvalidHandlers,    \* handlers whose NewEvent() fails validateEvent
    HandlerLists,       \* the handler lists the application passes
    Stream,             \* the event names published on the groups' topic
    Malformed,          \* indices of Stream whose payload fails Unmarshal
    AckOnUnknownEvent,  \* EventGroupProcessorConfig.AckOnUnknownEvent
    SetupCanFail,       \* topic generation or subscriber constructor may fail
    MaxFailures         \* bound on consecutive Handle errors for one event

ASSUME EGPAssumption ==
    /\ EventOf \in [Handlers -> EventNames]
    /\ InvalidHandlers \subseteq Handlers
    /\ HandlerLists \subseteq Seq(Handlers)
    /\ Stream \in Seq(EventNames)
    /\ Malformed \subseteq 1..Len(Stream)
    /\ AckOnUnknownEvent \in BOOLEAN
    /\ SetupCanFail \in BOOLEAN
    /\ MaxFailures \in Nat

VARIABLES
    groupEventHandlers, \* the processor's map; <<>> for a name not in it
    setup,              \* "adding" until AddHandlersToRouter returns
    routerGroups,       \* the groups whose handler was added to the router
    offset,             \* offset[g]: index in Stream of g's next event
    failures,           \* consecutive nacks of the event at offset[g]
    handled             \* handled[g]: <<index, handler>> of each successful Handle

vars == <<groupEventHandlers, setup, routerGroups, offset, failures, handled>>

StreamIdx == 1..Len(Stream)

TypeOK ==
    /\ groupEventHandlers \in [Groups -> Seq(Handlers)]
    /\ setup \in {"adding", "ok", "failed"}
    /\ routerGroups \subseteq Groups
    /\ offset \in [Groups -> 1..Len(Stream) + 1]
    /\ failures \in [Groups -> 0..MaxFailures]
    /\ handled \in [Groups -> SUBSET (StreamIdx \X Handlers)]

Init ==
    /\ groupEventHandlers = [g \in Groups |-> <<>>]
    /\ setup = "adding"
    /\ routerGroups = {}
    /\ offset = [g \in Groups |-> 1]
    /\ failures = [g \in Groups |-> 0]
    /\ handled = [g \in Groups |-> {}]

(***************************************************************************)
(* AddHandlersGroup: no handlers and an existing name are errors that      *)
(* leave the map unchanged.  Nothing stops a call after                    *)
(* AddHandlersToRouter; such a group is never given to the router.         *)
(***************************************************************************)
AddHandlersGroup(g, hs) ==
    /\ hs # <<>>
    /\ groupEventHandlers[g] = <<>>
    /\ groupEventHandlers' = [groupEventHandlers EXCEPT ![g] = hs]
    /\ UNCHANGED <<setup, routerGroups, offset, failures, handled>>

Added == {g \in Groups : groupEventHandlers[g] # <<>>}

\* validateEvent succeeds for every handler of the group.
ValidGroup(g) == \A i \in DOMAIN groupEventHandlers[g] :
                    groupEventHandlers[g][i] \notin InvalidHandlers

\* An iteration of the loop of AddHandlersToRouter that returns an error.
GroupFails(g) == ~ValidGroup(g) \/ SetupCanFail

(***************************************************************************)
(* AddHandlersToRouter, called once.  With no group it fails.  Otherwise   *)
(* it visits the groups in map order, which Go leaves unspecified, and     *)
(* adds each one to the router until an iteration fails.  The groups       *)
(* visited before the failing one stay on the router.                      *)
(***************************************************************************)
AddHandlersToRouter ==
    /\ setup = "adding"
    /\ \/ /\ Added = {}
          /\ setup' = "failed"
          /\ UNCHANGED routerGroups
       \/ /\ Added # {}
          /\ \A g \in Added : ValidGroup(g)
          /\ setup' = "ok"
          /\ routerGroups' = Added
       \/ \E bad \in Added, before \in SUBSET Added :
          /\ bad \notin before
          /\ GroupFails(bad)
          /\ \A g \in before : ValidGroup(g)
          /\ setup' = "failed"
          /\ routerGroups' = before
    /\ UNCHANGED <<groupEventHandlers, offset, failures, handled>>

\* Whether some handler of list hs takes events named e.
Matching(hs, e) == \E i \in DOMAIN hs : EventOf[hs[i]] = e

\* Mutant: the loop does not stop at the first match; the last one wins.
FirstMatchLast(hs, e) == hs[SelectLastInSeq(hs, LAMBDA h : EventOf[h] = e)]

\* The handler the loop of routerHandlerGroupFunc stops at.
FirstMatch(hs, e) == hs[SelectInSeq(hs, LAMBDA h : EventOf[h] = e)]

\* The router acks: the group moves on to its next event.
Ack(g) ==
    /\ offset' = [offset EXCEPT ![g] = @ + 1]
    /\ failures' = [failures EXCEPT ![g] = 0]

\* Mutant: the error is swallowed and the message acked as if handled.
NackAsAck(g) ==
    /\ Ack(g)
    /\ UNCHANGED handled

\* The router nacks: the same event is delivered again.  The counter saturates.
Nack(g) ==
    /\ failures' = [failures EXCEPT ![g] = IF @ < MaxFailures THEN @ + 1 ELSE @]
    /\ UNCHANGED <<offset, handled>>

\* Handle (or OnGroupHandle) returns an error; transient, so bounded.
HandleMayFail(g) == failures[g] < MaxFailures

(***************************************************************************)
(* The loop reached a handler whose event name matches: Unmarshal, then    *)
(* Handle, then return.  Either error is returned, so the router nacks.    *)
(***************************************************************************)
HandleFirstMatch(g, i, hs) ==
    \/ /\ i \in Malformed
       /\ Nack(g)
    \/ /\ i \notin Malformed
       /\ HandleMayFail(g)
       /\ Nack(g)
    \/ /\ i \notin Malformed
       /\ handled' = [handled EXCEPT ![g] = @ \cup {<<i, FirstMatch(hs, Stream[i])>>}]
       /\ Ack(g)

\* Mutant: the AckOnUnknownEvent option is ignored and unknown events are nacked.
UnknownEventAlwaysNack(g) == Nack(g)

\* The loop found no handler: an error unless AckOnUnknownEvent.
UnknownEvent(g) ==
    \/ /\ AckOnUnknownEvent
       /\ Ack(g)
       /\ UNCHANGED handled
    \/ /\ ~AckOnUnknownEvent
       /\ Nack(g)

(***************************************************************************)
(* One delivery of the event at offset[g] to the group's handler function, *)
(* and the router's ack or nack of its result.                             *)
(***************************************************************************)
GroupHandle(g) ==
    /\ setup = "ok"
    /\ g \in routerGroups
    /\ offset[g] \in StreamIdx
    /\ LET i  == offset[g]
           hs == groupEventHandlers[g]
       IN  IF Matching(hs, Stream[i])
           THEN HandleFirstMatch(g, i, hs)
           ELSE UnknownEvent(g)
    /\ UNCHANGED <<groupEventHandlers, setup, routerGroups>>

Next ==
    \/ \E g \in Groups, hs \in HandlerLists : AddHandlersGroup(g, hs)
    \/ AddHandlersToRouter
    \/ \E g \in Groups : GroupHandle(g)

\* The router runs one handler per group, each on its own goroutine.
Fairness == \A g \in Groups : WF_vars(GroupHandle(g))

Spec == Init /\ [][Next]_vars /\ Fairness


-----------------------------------------------------------------------------
(***************************************************************************)
(* Properties.                                                             *)
(***************************************************************************)

\* The events a group has consumed (acked), in stream order.
Consumed(g) == 1..offset[g] - 1

\* AcksMatchHandling for the one group g.
GroupAcksMatchHandling(g) ==
    LET hs == groupEventHandlers[g] IN
    /\ handled[g] = {<<i, FirstMatch(hs, Stream[i])>> :
                         i \in {j \in Consumed(g) : Matching(hs, Stream[j])}}
    /\ \A i \in Consumed(g) : ~Matching(hs, Stream[i]) => AckOnUnknownEvent

(***************************************************************************)
(* Every event a group's router handler acked was handled by exactly the   *)
(* first matching handler of the group, and an event no handler matches    *)
(* was acked only under AckOnUnknownEvent: the router never moves past an  *)
(* event whose Unmarshal or Handle failed (routerHandlerGroupFunc's error  *)
(* returns, lines 216-235), and no other handler ever ran.                 *)
(***************************************************************************)
AcksMatchHandling == \A g \in routerGroups : GroupAcksMatchHandling(g)

(***************************************************************************)
(* Once AddHandlersToRouter succeeded, every group on the router           *)
(* eventually consumes the whole stream: redeliveries after transient      *)
(* Handle errors end, and unknown events do not block the group.           *)
(***************************************************************************)
EveryEventAcked ==
    \A g \in Groups :
        (setup = "ok" /\ g \in routerGroups) ~> (offset[g] = Len(Stream) + 1)

(***************************************************************************)
(* Refinement: seen through its acks, every group behaves as GroupConsumer *)
(* says: in-order, exactly-once consumption by the first matching handler, *)
(* with the router's nacks, redeliveries and failure counters invisible.   *)
(***************************************************************************)
GC == INSTANCE GroupConsumer
        WITH lists <- groupEventHandlers, started <- (setup # "adding"),
             active <- routerGroups, next <- offset

\* The processor and its router implement GroupConsumer.
ImplementsGroupConsumer == GC!Spec

=============================================================================
