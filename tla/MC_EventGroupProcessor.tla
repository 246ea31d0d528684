----------------------- MODULE MC_EventGroupProcessor -----------------------
(* Three groups, four handlers (h4's NewEvent is invalid) and three event    *)
(* types, eC having no handler in any group.                               *)
EXTENDS EventGroupProcessor, TLC

CONSTANTS g1, g2, g3, h1, h2, h3, h4, eA, eB, eC

MCGroups == {g1, g2, g3}
MCHandlers == {h1, h2, h3, h4}
MCEventNames == {eA, eB, eC}
MCEventOf == (h1 :> eA) @@ (h2 :> eB) @@ (h3 :> eA) @@ (h4 :> eB)

\* Lists with one handler per event type, an invalid one, and the empty list.
MCLists == {<<>>, <<h1, h2>>, <<h3>>, <<h4>>}

\* Lists whose handlers share an event type, in both orders.
MCOrderLists == {<<h1, h2>>, <<h3, h1>>, <<h1, h3, h2>>}

MCSafetyStream == <<eA, eB, eA, eC>>
MCLivenessStream == <<eA, eC, eB>>
=============================================================================
