---------------------------- MODULE GroupConsumer ----------------------------
(***************************************************************************)
(* What a handler group of the EventGroupProcessor promises, with the      *)
(* router's retries, the failure counters and the setup errors left out:   *)
(*   - a group's handler list is given once and never changes;             *)
(*   - the groups that run are chosen once, among the registered ones;     *)
(*   - each running group consumes the events of its topic in order, each  *)
(*     one exactly once;                                                   *)
(*   - an event is consumed only after the FIRST handler of the list that  *)
(*     takes it has handled it, and one that no handler takes is consumed  *)
(*     only under AckOnUnknownEvent.                                       *)
(* "First" is stated with quantifiers over the list's indices, not with    *)
(* the search the implementation uses.                                     *)
(***************************************************************************)
EXTENDS Naturals, Sequences

CONSTANTS
    Groups,             \* handler group names
    HandlerLists,       \* the handler lists the application may give
    EventOf,            \* EventOf[h]: the event name handler h takes
    Stream,             \* the events of the groups' topic, in order
    AckOnUnknownEvent   \* an event no handler takes may be passed over

VARIABLES
    lists,      \* lists[g]: the handlers of group g, <<>> when not registered
    started,    \* the running groups have been chosen
    active,     \* the running groups
    next,       \* next[g]: index in Stream of the next event g consumes
    handled     \* handled[g]: <<index, handler>> for every handled event

vars == <<lists, started, active, next, handled>>

Init ==
    /\ lists = [g \in Groups |-> <<>>]
    /\ started = FALSE
    /\ active = {}
    /\ next = [g \in Groups |-> 1]
    /\ handled = [g \in Groups |-> {}]

\* A new group name is given a non-empty handler list.
Register(g, hs) ==
    /\ hs # <<>>
    /\ lists[g] = <<>>
    /\ lists' = [lists EXCEPT ![g] = hs]
    /\ UNCHANGED <<started, active, next, handled>>

\* The running groups are chosen, once, among the registered ones.
Start(S) ==
    /\ ~started
    /\ S \subseteq {g \in Groups : lists[g] # <<>>}
    /\ started' = TRUE
    /\ active' = S
    /\ UNCHANGED <<lists, next, handled>>

\* hs[k] takes e and no handler before it does.
IsFirst(hs, e, k) ==
    /\ EventOf[hs[k]] = e
    /\ \A j \in 1..k-1 : EventOf[hs[j]] # e

\* Group g consumes its next event.
Consume(g) ==
    /\ g \in active
    /\ next[g] \in 1..Len(Stream)
    /\ LET i  == next[g]
           hs == lists[g]
       IN  \/ \E k \in DOMAIN hs :
                 /\ IsFirst(hs, Stream[i], k)
                 /\ handled' = [handled EXCEPT ![g] = @ \cup {<<i, hs[k]>>}]
           \/ /\ \A k \in DOMAIN hs : EventOf[hs[k]] # Stream[i]
              /\ AckOnUnknownEvent
              /\ UNCHANGED handled
    /\ next' = [next EXCEPT ![g] = @ + 1]
    /\ UNCHANGED <<lists, started, active>>

Next ==
    \/ \E g \in Groups, hs \in HandlerLists : Register(g, hs)
    \/ \E S \in SUBSET Groups : Start(S)
    \/ \E g \in Groups : Consume(g)

Spec == Init /\ [][Next]_vars

=============================================================================
