----------------------------- MODULE ReplyMarker -----------------------------
(***************************************************************************)
(* The reply marker: record_decision_brief (zuaef_quant/toolset.py) writes *)
(* a decision and points last-reply.json at it; a run that ends without a  *)
(* reply is answered from that file (gateway/service.py,                   *)
(* _reply_artifact_text) when it is not older than the run.  One file for  *)
(* all chats.  Time is the number of steps taken.                          *)
(***************************************************************************)
EXTENDS Naturals, FiniteSets

CONSTANTS
  Run,
  Together,  \* how many runs may be executing at once
  Pausing,   \* runs may pause for an approval and be continued
  MaxTime,   \* bound on steps
  Torn       \* a marker opened and not filled

MarkerAssumption ==
  /\ Together \in Nat \ {0} /\ MaxTime \in Nat /\ Pausing \in BOOLEAN

VARIABLES
  pc, started,  \* of each run; a continuation starts anew
  briefs,       \* the decisions on disk: run and time
  tmp, marker,  \* .last-reply.json.tmp and last-reply.json
  reply,        \* what the chat of a run was answered from
  now

vars == <<pc, started, briefs, tmp, marker, reply, now>>

None == "none"
Brief == [run : Run, at : 1 .. MaxTime]
NoBrief == [run |-> None, at |-> 0]
Executing == {r \in Run : pc[r] \in {"running", "open", "fill", "publish"}}

TypeOK ==
  /\ pc \in [Run -> {"new", "running", "open", "fill", "publish", "paused", "ended"}]
  /\ started \in [Run -> 0 .. MaxTime]
  /\ briefs \subseteq Brief
  /\ tmp \in {Torn, NoBrief} \cup Brief /\ marker \in {NoBrief} \cup Brief \cup (IF Together > 1 THEN {Torn} ELSE {})
  /\ \A r \in Run : reply[r] \in Brief \cup {NoBrief}
  /\ now \in 0 .. MaxTime
  /\ Cardinality(Executing) <= Together

Init ==
  /\ pc = [r \in Run |-> "new"] /\ started = [r \in Run |-> 0]
  /\ briefs = {} /\ tmp = NoBrief /\ marker = NoBrief
  /\ reply = [r \in Run |-> NoBrief] /\ now = 0

Goes(r, to) == pc' = [pc EXCEPT ![r] = to] /\ now < MaxTime /\ now' = now + 1
Last(r) == CHOOSE b \in briefs : b.run = r /\ \A c \in briefs : c.run = r => c.at <= b.at
-----------------------------------------------------------------------------
\* (mutant) a continuation is the run it continues, a run starts at nothing.
StartedKept(r) == started' = started

\* _execute: every execution, a continuation too, takes its own start time.
Starts(r) == started' = [started EXCEPT ![r] = now]

Start(r) ==
  /\ pc[r] \in {"new", "paused"}
  /\ Cardinality(Executing) < Together
  /\ Starts(r) /\ Goes(r, "running")
  /\ UNCHANGED <<briefs, tmp, marker, reply>>

Pause(r) ==
  /\ Pausing /\ pc[r] = "running"
  /\ Goes(r, "paused")
  /\ UNCHANGED <<started, briefs, tmp, marker, reply>>

\* The record of the decision; the marker follows in three steps.
Record(r) ==
  /\ pc[r] = "running"
  /\ briefs' = briefs \cup {[run |-> r, at |-> now + 1]}
  /\ Goes(r, "open")
  /\ UNCHANGED <<started, tmp, marker, reply>>

OpenTmp(r) ==
  /\ pc[r] = "open"
  /\ tmp' = Torn /\ Goes(r, "fill")
  /\ UNCHANGED <<started, briefs, marker, reply>>

FillTmp(r) ==
  /\ pc[r] = "fill"
  /\ tmp' = Last(r) /\ Goes(r, "publish")
  /\ UNCHANGED <<started, briefs, marker, reply>>

Publish(r) == marker' = tmp

\* The rename; without the file it fails, and the tool call with it.
Rename(r) ==
  /\ pc[r] = "publish"
  /\ IF tmp = NoBrief THEN UNCHANGED marker ELSE Publish(r)
  /\ tmp' = NoBrief /\ Goes(r, "running")
  /\ UNCHANGED <<started, briefs, reply>>

\* A completed run has its own reply: the marker is not read.
Complete(r) ==
  /\ pc[r] = "running"
  /\ Goes(r, "ended")
  /\ UNCHANGED <<started, briefs, tmp, marker, reply>>

\* _reply_artifact_text: unreadable or older than the run is no reply.
Readable(r) == marker # Torn /\ marker # NoBrief /\ marker.at >= started[r]

\* A run that fails or meets its limit, in or after a call.
Fail(r) ==
  /\ r \in Executing
  /\ reply' = [reply EXCEPT ![r] = IF Readable(r) THEN marker ELSE NoBrief]
  /\ Goes(r, "ended")
  /\ UNCHANGED <<started, briefs, tmp, marker>>

Next ==
  \E r \in Run : Start(r) \/ Pause(r) \/ Record(r) \/ OpenTmp(r) \/ FillTmp(r) \/ Rename(r)
                 \/ Complete(r) \/ Fail(r)

Spec == Init /\ [][Next]_vars
-----------------------------------------------------------------------------
\* A chat is never answered with the decision of another run.
OwnReplyOnly == \A r \in Run : reply[r] # NoBrief => reply[r].run = r

\* A run that recorded a decision, published it and then failed is answered
\* with it, and with the last one if there were several.
NothingBuried ==
  [][\A r \in Run :
       (Fail(r) /\ pc[r] = "running" /\ \E b \in briefs : b.run = r) => reply'[r] = Last(r)]_vars
=============================================================================
