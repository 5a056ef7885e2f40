-------------------------- MODULE MCDialogScheduler --------------------------
(* Instances of DialogScheduler for TLC. *)
EXTENDS DialogScheduler

CONSTANTS a, b,               \* sessions
          t1, t2, t3, t4, rb  \* t1..t4 live in a; rb, in b, is the reply to t1

MCHome == [t \in Turn |-> IF t = rb THEN b ELSE a]
NoReply == [t \in Turn |-> NoTurn]
ReplyToFirst == [t \in Turn |-> IF t = t1 THEN rb ELSE NoTurn]
MCPriority == [t \in Turn |-> IF t = t3 THEN 2 ELSE 1]
Equal == [t \in Turn |-> 1]
================================================================================
