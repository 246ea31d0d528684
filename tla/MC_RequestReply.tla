-------------------------- MODULE MC_RequestReply --------------------------
(* Small instances of RequestReply for TLC: two calls on one shared reply  *)
(* topic, so that each listener also sees the other call's notifications. *)
EXTENDS RequestReply, TLC

CONSTANTS o1, o2, t1

MCOps == {o1, o2}
MCTopics == {t1}
MCTopicOf == [o \in MCOps |-> t1]
\* Only o1's command carries the notify marker; o2's is processed silently.
MCMarked == {o1}
=============================================================================
