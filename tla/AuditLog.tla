------------------------------ MODULE AuditLog ------------------------------
(***************************************************************************)
(* What the audit service promises its callers: a log of events that only  *)
(* grows, at the end, one event at a time, and never holds an event twice. *)
(***************************************************************************)
EXTENDS Sequences

CONSTANT Event

VARIABLE log

Init == log = <<>>

AppendEvent(e) ==
  /\ \A n \in DOMAIN log : log[n] # e
  /\ log' = Append(log, e)

Next == \E e \in Event : AppendEvent(e)

Spec == Init /\ [][Next]_log
=============================================================================
