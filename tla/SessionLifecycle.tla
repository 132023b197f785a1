-------------------------- MODULE SessionLifecycle --------------------------
(***************************************************************************)
(* What the Gateway promises of its sessions (SPEC v0.3, sections 28 to    *)
(* 31 and 65): a session is free, busy with a run it started, or waiting   *)
(* for a decision on one paused run.  It waits only on a run it was busy   *)
(* with or that continues the one it waited on, never twice on the same    *)
(* run, and a new conversation leaves nothing behind.                      *)
(***************************************************************************)
EXTENDS Naturals

CONSTANTS Session, Run, NoRun, MaxConvs

VARIABLES
  conv,    \* the conversation of each session, 0 before it exists
  busy,    \* is a run recorded as active?
  gate,    \* the paused run the session waits on
  closed,  \* the runs a session stopped waiting on
  used     \* conversations given out

vars == <<conv, busy, gate, closed, used>>

Init ==
  /\ conv = [s \in Session |-> 0]
  /\ busy = [s \in Session |-> FALSE]
  /\ gate = [s \in Session |-> NoRun]
  /\ closed = {}
  /\ used = {}

Left(s) == IF gate[s] = NoRun THEN closed ELSE closed \cup {gate[s]}

Fresh(r) == r \notin closed /\ \A s \in Session : gate[s] # r

\* A new session, or /new: a conversation nobody had, no run pointer.
Rotate(s) ==
  \E c \in (1 .. MaxConvs) \ used :
    /\ conv' = [conv EXCEPT ![s] = c]
    /\ used' = used \cup {c}
    /\ busy' = [busy EXCEPT ![s] = FALSE]
    /\ gate' = [gate EXCEPT ![s] = NoRun]
    /\ closed' = Left(s)

Start(s) ==
  /\ gate[s] = NoRun
  /\ busy' = [busy EXCEPT ![s] = TRUE]
  /\ UNCHANGED <<conv, gate, closed, used>>

\* The run of s ended; a restart may end several at once.
Settle(S) ==
  /\ busy' = [s \in Session |-> busy[s] /\ s \notin S]
  /\ UNCHANGED <<conv, gate, closed, used>>

\* The run s is busy with waits for a decision.
Wait(s, r) ==
  /\ busy[s] /\ gate[s] = NoRun /\ Fresh(r)
  /\ \E S \in SUBSET Session : busy' = [q \in Session |-> busy[q] /\ q \notin S \cup {s}]
  /\ gate' = [gate EXCEPT ![s] = r]
  /\ UNCHANGED <<conv, closed, used>>

\* The decision was carried out, and may have led to the next wait.
Release(s) ==
  /\ gate[s] # NoRun
  /\ \E r \in Run \cup {NoRun} :
       /\ r # NoRun => Fresh(r)
       /\ gate' = [gate EXCEPT ![s] = r]
  /\ closed' = Left(s)
  /\ UNCHANGED <<conv, busy, used>>

Next ==
  \/ \E s \in Session : Rotate(s) \/ Start(s) \/ Release(s)
  \/ \E s \in Session, r \in Run : Wait(s, r)
  \/ \E S \in SUBSET Session : Settle(S)

Spec == Init /\ [][Next]_vars
=============================================================================
