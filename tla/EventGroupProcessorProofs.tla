---------------------- MODULE EventGroupProcessorProofs ----------------------
(***************************************************************************)
(* Proofs about the event group processor, for every set of groups,        *)
(* handlers, handler lists and event stream: type correctness, and that    *)
(* the router acks exactly the events the group's first matching handler   *)
(* completed (AcksMatchHandling).                                          *)
(***************************************************************************)
EXTENDS EventGroupProcessor, WellFoundedInduction, TLAPS

(***************************************************************************)
(* The loop of routerHandlerGroupFunc stops at a handler of the list that  *)
(* takes the event, whenever some handler does: SelectInSeq picks the      *)
(* least such index, which exists because < is well-founded on Nat.        *)
(***************************************************************************)
LEMMA FirstMatchType ==
    ASSUME NEW hs \in Seq(Handlers), NEW e, Matching(hs, e)
    PROVE  /\ FirstMatch(hs, e) \in Handlers
           /\ EventOf[FirstMatch(hs, e)] = e
<1> DEFINE I == {i \in 1..Len(hs) : EventOf[hs[i]] = e}
<1>1. I # {} /\ I \subseteq Nat
    BY DEF Matching
<1>2. \E x \in I : \A y \in I : ~(<<y, x>> \in OpToRel(<, Nat))
    BY <1>1, WFMin, NatLessThanWellFounded
<1>3. \E x \in I : \A y \in I : x =< y
    <2>1. PICK x \in I : \A y \in I : ~(<<y, x>> \in OpToRel(<, Nat))
        BY <1>2
    <2>2. ASSUME NEW y \in I PROVE x =< y
        <3>1. <<y, x>> \notin OpToRel(<, Nat)
            BY <2>1
        <3>2. x \in Nat /\ y \in Nat
            BY <1>1
        <3>3. ~(y < x)
            BY <3>1, <3>2 DEF OpToRel
        <3> QED
            BY <3>2, <3>3
    <2> QED
        BY <2>2
<1>4. Min(I) \in I
    BY <1>3 DEF Min
<1>5. SelectInSeq(hs, LAMBDA h : EventOf[h] = e) = Min(I)
    BY <1>1 DEF SelectInSeq
<1>6. FirstMatch(hs, e) = hs[Min(I)]
    BY <1>5 DEF FirstMatch
<1> QED
    BY <1>4, <1>6, EGPAssumption


-----------------------------------------------------------------------------
(***************************************************************************)
(* Type correctness.                                                       *)
(***************************************************************************)

\* Every step of the processor and of its router keeps the variables typed.
LEMMA TypeStep == TypeOK /\ [Next]_vars => TypeOK'
<1> SUFFICES ASSUME TypeOK, [Next]_vars PROVE TypeOK'
    OBVIOUS
<1>1. ASSUME NEW g \in Groups, NEW hs \in HandlerLists, AddHandlersGroup(g, hs)
      PROVE  TypeOK'
    BY <1>1, EGPAssumption DEF TypeOK, AddHandlersGroup
<1>2. ASSUME AddHandlersToRouter PROVE TypeOK'
    BY <1>2 DEF TypeOK, AddHandlersToRouter, Added
<1>3. ASSUME NEW g \in Groups, GroupHandle(g) PROVE TypeOK'
    <2> DEFINE i == offset[g]
               hs == groupEventHandlers[g]
    <2>1. i \in StreamIdx /\ hs \in Seq(Handlers)
        BY <1>3 DEF GroupHandle, TypeOK
    <2>2. ASSUME Nack(g) PROVE TypeOK'
        BY <2>2, <1>3, EGPAssumption DEF Nack, GroupHandle, TypeOK
    <2>3. ASSUME Ack(g), UNCHANGED handled PROVE TypeOK'
        BY <2>1, <2>3, <1>3, EGPAssumption DEF Ack, GroupHandle, TypeOK, StreamIdx
    <2>4. ASSUME Matching(hs, Stream[i]),
                 handled' = [handled EXCEPT ![g] = @ \cup {<<i, FirstMatch(hs, Stream[i])>>}],
                 Ack(g)
          PROVE  TypeOK'
        <3>1. FirstMatch(hs, Stream[i]) \in Handlers
            BY <2>1, <2>4, FirstMatchType
        <3> QED
            BY <2>1, <2>4, <3>1, <1>3, EGPAssumption DEF Ack, GroupHandle, TypeOK, StreamIdx
    <2>5. CASE Matching(hs, Stream[i])
        BY <2>2, <2>4, <2>5, <1>3 DEF GroupHandle, HandleFirstMatch
    <2>6. CASE ~Matching(hs, Stream[i])
        BY <2>2, <2>3, <2>6, <1>3 DEF GroupHandle, UnknownEvent
    <2> QED
        BY <2>5, <2>6
<1>4. CASE UNCHANGED vars
    BY <1>4 DEF TypeOK, vars
<1> QED
    BY <1>1, <1>2, <1>3, <1>4 DEF Next

\* The variables of the processor always have their types.
THEOREM TypeCorrect == Spec => []TypeOK
<1>1. Init => TypeOK
    BY EGPAssumption DEF Init, TypeOK
<1> QED
    BY <1>1, TypeStep, PTL DEF Spec


-----------------------------------------------------------------------------
(***************************************************************************)
(* The router acks exactly what the first matching handler completed.      *)
(*                                                                         *)
(* AcksMatchHandling alone is not inductive: a group joins the router in   *)
(* AddHandlersToRouter, and it must then have consumed nothing; and a      *)
(* later AddHandlersGroup must not replace the handler list of a group     *)
(* already on the router.  EGPInv adds both facts.                         *)
(***************************************************************************)
EGPInv ==
    /\ TypeOK
    /\ routerGroups \subseteq Added
    /\ setup = "adding" => routerGroups = {}
    /\ \A g \in Groups \ routerGroups : offset[g] = 1 /\ handled[g] = {}
    /\ AcksMatchHandling

\* The property of one group depends on that group's entries only.
LEMMA GroupFrame ==
    ASSUME NEW g,
           groupEventHandlers'[g] = groupEventHandlers[g],
           offset'[g] = offset[g],
           handled'[g] = handled[g],
           GroupAcksMatchHandling(g)
    PROVE  GroupAcksMatchHandling(g)'
BY DEF GroupAcksMatchHandling, Consumed

\* A group that has consumed nothing and handled nothing satisfies it.
LEMMA GroupFresh ==
    ASSUME NEW g, offset'[g] = 1, handled'[g] = {}
    PROVE  GroupAcksMatchHandling(g)'
BY DEF GroupAcksMatchHandling, Consumed

\* Acking the event at offset[g] adds exactly that index to Consumed(g).
LEMMA ConsumedStep ==
    ASSUME NEW g, offset[g] \in Nat \ {0}, offset'[g] = offset[g] + 1
    PROVE  Consumed(g)' = Consumed(g) \cup {offset[g]}
BY DEF Consumed

\* Every step keeps EGPInv.
LEMMA EGPInvStep == EGPInv /\ [Next]_vars => EGPInv'
<1> SUFFICES ASSUME EGPInv, [Next]_vars PROVE EGPInv'
    OBVIOUS
<1>0. TypeOK'
    BY TypeStep DEF EGPInv
<1>1. ASSUME NEW g0 \in Groups, NEW hs0 \in HandlerLists, AddHandlersGroup(g0, hs0)
      PROVE  EGPInv'
    <2>1. g0 \notin routerGroups
        BY <1>1 DEF AddHandlersGroup, EGPInv, Added
    <2>2. Added \subseteq Added'
        BY <1>1 DEF AddHandlersGroup, Added, EGPInv, TypeOK
    <2>3. ASSUME NEW g \in routerGroups PROVE GroupAcksMatchHandling(g)'
        <3>1. groupEventHandlers'[g] = groupEventHandlers[g]
            BY <1>1, <2>1 DEF AddHandlersGroup, EGPInv, TypeOK
        <3> QED
            BY <1>1, <3>1, GroupFrame DEF AddHandlersGroup, EGPInv, AcksMatchHandling
    <2> QED
        BY <1>0, <1>1, <2>2, <2>3 DEF AddHandlersGroup, EGPInv, AcksMatchHandling
<1>2. ASSUME AddHandlersToRouter PROVE EGPInv'
    <2>1. routerGroups = {} /\ routerGroups' \subseteq Added
        BY <1>2 DEF AddHandlersToRouter, EGPInv
    <2>2. ASSUME NEW g \in routerGroups' PROVE GroupAcksMatchHandling(g)'
        <3>1. g \in Groups \ routerGroups
            BY <2>1 DEF Added
        <3>2. offset'[g] = 1 /\ handled'[g] = {}
            BY <1>2, <3>1 DEF AddHandlersToRouter, EGPInv
        <3> QED
            BY <3>2, GroupFresh
    <2> QED
        BY <1>0, <1>2, <2>1, <2>2 DEF AddHandlersToRouter, EGPInv, AcksMatchHandling, Added
<1>3. ASSUME NEW g0 \in Groups, GroupHandle(g0) PROVE EGPInv'
    <2> DEFINE i == offset[g0]
               hs == groupEventHandlers[g0]
    <2>1. g0 \in routerGroups /\ i \in Nat \ {0} /\ hs \in Seq(Handlers)
        BY <1>3 DEF GroupHandle, EGPInv, TypeOK, StreamIdx
    <2>2. ASSUME NEW g \in routerGroups \ {g0} PROVE GroupAcksMatchHandling(g)'
        <3>1. offset'[g] = offset[g] /\ handled'[g] = handled[g]
            <4>1. CASE Nack(g0)
                BY <4>1 DEF Nack, EGPInv, TypeOK
            <4>2. CASE Ack(g0)
                BY <1>3, <4>2 DEF GroupHandle, HandleFirstMatch, UnknownEvent, Ack, Nack, EGPInv, TypeOK
            <4> QED
                BY <1>3, <4>1, <4>2 DEF GroupHandle, HandleFirstMatch, UnknownEvent
        <3> QED
            BY <1>3, <3>1, GroupFrame DEF GroupHandle, EGPInv, AcksMatchHandling
    <2>3. GroupAcksMatchHandling(g0)'
        <3>0. GroupAcksMatchHandling(g0)
            BY <2>1 DEF EGPInv, AcksMatchHandling
        <3>1. CASE Nack(g0)
            BY <1>3, <3>0, <3>1, GroupFrame DEF GroupHandle, Nack
        <3>2. CASE Matching(hs, Stream[i]) /\ ~Nack(g0)
            <4>1. handled' = [handled EXCEPT ![g0] = @ \cup {<<i, FirstMatch(hs, Stream[i])>>}]
                  /\ Ack(g0)
                BY <1>3, <3>2 DEF GroupHandle, HandleFirstMatch
            <4>2. Consumed(g0)' = Consumed(g0) \cup {i}
                BY <2>1, <4>1, ConsumedStep DEF Ack, EGPInv, TypeOK
            <4>3. handled'[g0] = handled[g0] \cup {<<i, FirstMatch(hs, Stream[i])>>}
                BY <4>1 DEF EGPInv, TypeOK
            <4>4. groupEventHandlers' = groupEventHandlers
                BY <1>3 DEF GroupHandle
            <4> QED
                BY <3>0, <3>2, <4>2, <4>3, <4>4 DEF GroupAcksMatchHandling
        <3>3. CASE ~Matching(hs, Stream[i]) /\ ~Nack(g0)
            <4>1. AckOnUnknownEvent /\ Ack(g0) /\ UNCHANGED handled
                BY <1>3, <3>3 DEF GroupHandle, UnknownEvent
            <4>2. Consumed(g0)' = Consumed(g0) \cup {i}
                BY <2>1, <4>1, ConsumedStep DEF Ack, EGPInv, TypeOK
            <4>3. groupEventHandlers' = groupEventHandlers
                BY <1>3 DEF GroupHandle
            <4> QED
                BY <3>0, <3>3, <4>1, <4>2, <4>3 DEF GroupAcksMatchHandling
        <3> QED
            BY <3>1, <3>2, <3>3
    <2>4. \A g \in Groups \ routerGroups : offset'[g] = 1 /\ handled'[g] = {}
        <3>1. CASE Nack(g0)
            BY <1>3, <3>1 DEF GroupHandle, Nack, EGPInv, TypeOK
        <3>2. CASE Ack(g0)
            BY <1>3, <2>1, <3>2 DEF GroupHandle, HandleFirstMatch, UnknownEvent, Ack, Nack, EGPInv, TypeOK
        <3> QED
            BY <1>3, <3>1, <3>2 DEF GroupHandle, HandleFirstMatch, UnknownEvent
    <2> QED
        BY <1>0, <1>3, <2>2, <2>3, <2>4 DEF GroupHandle, EGPInv, AcksMatchHandling, Added
<1>4. CASE UNCHANGED vars
    BY <1>4 DEF EGPInv, TypeOK, vars, AcksMatchHandling, GroupAcksMatchHandling, Consumed, Added
<1> QED
    BY <1>1, <1>2, <1>3, <1>4 DEF Next

(***************************************************************************)
(* For every configuration, the router acks an event of a group only after *)
(* the group's first matching handler completed it (or, for an event no    *)
(* handler takes, only under AckOnUnknownEvent), and no other handler of   *)
(* the group ever runs: routerHandlerGroupFunc's error returns always      *)
(* reach the router.                                                       *)
(***************************************************************************)
THEOREM AcksMatchHandlingHolds == Spec => []AcksMatchHandling
<1>1. Init => EGPInv
    BY EGPAssumption DEF Init, EGPInv, TypeOK, AcksMatchHandling
<1>2. EGPInv => AcksMatchHandling
    BY DEF EGPInv
<1> QED
    BY <1>1, <1>2, EGPInvStep, PTL DEF Spec


-----------------------------------------------------------------------------
(***************************************************************************)
(* The loop of routerHandlerGroupFunc stops at the first handler that      *)
(* takes the event: the index SelectInSeq returns is in the list, its      *)
(* handler takes e, and no handler before it does.                         *)
(***************************************************************************)
LEMMA SelectFirst ==
    ASSUME NEW hs \in Seq(Handlers), NEW e, Matching(hs, e)
    PROVE  LET k == SelectInSeq(hs, LAMBDA h : EventOf[h] = e)
           IN  /\ k \in 1..Len(hs)
               /\ EventOf[hs[k]] = e
               /\ \A j \in 1..k-1 : EventOf[hs[j]] # e
               /\ FirstMatch(hs, e) = hs[k]
<1> DEFINE I == {i \in 1..Len(hs) : EventOf[hs[i]] = e}
<1>1. I # {} /\ I \subseteq Nat
    BY DEF Matching
<1>2. \E x \in I : \A y \in I : ~(<<y, x>> \in OpToRel(<, Nat))
    BY <1>1, WFMin, NatLessThanWellFounded
<1>3. \E x \in I : \A y \in I : x =< y
    <2>1. PICK x \in I : \A y \in I : ~(<<y, x>> \in OpToRel(<, Nat))
        BY <1>2
    <2>2. ASSUME NEW y \in I PROVE x =< y
        <3>1. <<y, x>> \notin OpToRel(<, Nat)
            BY <2>1
        <3>2. x \in Nat /\ y \in Nat
            BY <1>1
        <3>3. ~(y < x)
            BY <3>1, <3>2 DEF OpToRel
        <3> QED
            BY <3>2, <3>3
    <2> QED
        BY <2>2
<1>4. Min(I) \in I /\ \A y \in I : Min(I) =< y
    BY <1>3 DEF Min
<1>5. SelectInSeq(hs, LAMBDA h : EventOf[h] = e) = Min(I)
    BY <1>1 DEF SelectInSeq
<1>6. \A j \in 1..Min(I)-1 : EventOf[hs[j]] # e
    BY <1>4
<1> QED
    BY <1>4, <1>5, <1>6 DEF FirstMatch

\* EGPInv holds in every reachable state.
LEMMA EGPInvHolds == Spec => []EGPInv
<1>1. Init => EGPInv
    BY EGPAssumption DEF Init, EGPInv, TypeOK, AcksMatchHandling
<1> QED
    BY <1>1, EGPInvStep, PTL DEF Spec

-----------------------------------------------------------------------------
(***************************************************************************)
(* Refinement of GroupConsumer.                                            *)
(***************************************************************************)

\* The variables of GroupConsumer under the refinement mapping.
GCVars == <<groupEventHandlers, setup # "adding", routerGroups, offset, handled>>

\* A nack changes nothing GroupConsumer sees: the failure counter is hidden.
LEMMA NackStutters ==
    ASSUME NEW g, Nack(g), UNCHANGED <<groupEventHandlers, setup, routerGroups>>
    PROVE  UNCHANGED GCVars
BY DEF Nack, GCVars

\* One delivery to a group's router handler is a Consume or a stutter.
LEMMA GroupHandleStep ==
    ASSUME EGPInv, NEW g \in Groups, GroupHandle(g)
    PROVE  [GC!Next]_GCVars
<1> DEFINE i  == offset[g]
           hs == groupEventHandlers[g]
           e  == Stream[i]
<1>1. /\ g \in routerGroups /\ i \in 1..Len(Stream) /\ hs \in Seq(Handlers)
      /\ UNCHANGED <<groupEventHandlers, setup, routerGroups>>
    BY DEF GroupHandle, EGPInv, TypeOK, StreamIdx
<1>2. CASE Nack(g)
    BY <1>1, <1>2, NackStutters
<1>3. CASE Matching(hs, e) /\ ~Nack(g)
    <2>1. /\ handled' = [handled EXCEPT ![g] = @ \cup {<<i, FirstMatch(hs, e)>>}]
          /\ Ack(g)
        BY <1>3 DEF GroupHandle, HandleFirstMatch
    <2> DEFINE k == SelectInSeq(hs, LAMBDA h : EventOf[h] = e)
    <2>2. /\ k \in DOMAIN hs /\ GC!IsFirst(hs, e, k)
          /\ FirstMatch(hs, e) = hs[k]
        <3>1. /\ k \in 1..Len(hs)
              /\ EventOf[hs[k]] = e
              /\ \A j \in 1..k-1 : EventOf[hs[j]] # e
              /\ FirstMatch(hs, e) = hs[k]
            <4>1. hs \in Seq(Handlers) /\ Matching(hs, e)
                BY <1>1, <1>3
            <4>2. HIDE DEF hs, e
            <4> QED
                BY <4>1, SelectFirst
        <3>2. hs \in Seq(Handlers)
            BY <1>1
        <3> HIDE DEF k, hs, e
        <3> QED
            BY <3>1, <3>2 DEF GC!IsFirst
    <2>3. GC!Consume(g)
        BY <1>1, <2>1, <2>2 DEF GC!Consume, Ack
    <2> QED
        BY <2>3 DEF GC!Next
<1>4. CASE ~Matching(hs, e) /\ ~Nack(g)
    <2>1. AckOnUnknownEvent /\ Ack(g) /\ UNCHANGED handled
        BY <1>4 DEF GroupHandle, UnknownEvent
    <2>2. \A k \in DOMAIN hs : EventOf[hs[k]] # e
        BY <1>4 DEF Matching
    <2>3. GC!Consume(g)
        BY <1>1, <2>1, <2>2 DEF GC!Consume, Ack
    <2> QED
        BY <2>3 DEF GC!Next
<1> QED
    BY <1>2, <1>3, <1>4

\* Every step of the processor and its router is a GroupConsumer step or a stutter.
LEMMA GCRefinementStep == EGPInv /\ [Next]_vars => [GC!Next]_GCVars
<1> SUFFICES ASSUME EGPInv, [Next]_vars PROVE [GC!Next]_GCVars
    OBVIOUS
<1>1. ASSUME NEW g \in Groups, NEW hs \in HandlerLists, AddHandlersGroup(g, hs)
      PROVE  GC!Register(g, hs)
    BY <1>1 DEF AddHandlersGroup, GC!Register
<1>2. ASSUME AddHandlersToRouter PROVE GC!Start(routerGroups')
    <2>1. routerGroups' \subseteq Added
        BY <1>2 DEF AddHandlersToRouter, EGPInv
    <2>2. setup = "adding" /\ setup' # "adding"
        BY <1>2 DEF AddHandlersToRouter
    <2>3. routerGroups' \in SUBSET Groups
        BY <2>1 DEF Added
    <2> QED
        BY <1>2, <2>1, <2>2 DEF AddHandlersToRouter, GC!Start, Added
<1>3. CASE UNCHANGED vars
    BY <1>3 DEF vars, GCVars
<1> QED
    <2>1. CASE AddHandlersToRouter
        <3>1. routerGroups' \in SUBSET Groups
            BY <2>1 DEF AddHandlersToRouter, EGPInv, Added
        <3> QED
            BY <1>2, <2>1, <3>1 DEF GC!Next
    <2> QED
        BY <1>1, <2>1, <1>3, GroupHandleStep DEF Next, GC!Next

(***************************************************************************)
(* For every configuration, the processor and its router implement         *)
(* GroupConsumer under the mapping lists = groupEventHandlers,             *)
(* started = (setup # "adding"), active = routerGroups, next = offset:     *)
(* each group on the router consumes its stream in order, each event once, *)
(* by the first handler of its list that takes it (routerHandlerGroupFunc, *)
(* lines 194-239), and passes over an event no handler takes only under    *)
(* AckOnUnknownEvent (lines 242-250); nacks and redeliveries are           *)
(* invisible.                                                              *)
(***************************************************************************)
THEOREM GroupRefinement == Spec => ImplementsGroupConsumer
<1>1. Init => GC!Init
    BY DEF Init, GC!Init
<1>2. EGPInv /\ [Next]_vars => [GC!Next]_GCVars
    BY GCRefinementStep
<1> QED
    BY <1>1, <1>2, EGPInvHolds, PTL DEF Spec, ImplementsGroupConsumer, GC!Spec, GC!vars, GCVars

=============================================================================
