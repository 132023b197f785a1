----------------------------- MODULE MCDelivery -----------------------------
(***************************************************************************)
(* What is around a run: how messages come in and answers and files go     *)
(* out, and how its agent is composed.  The parts share no state, so their *)
(* interleavings show nothing: a behaviour takes the steps of one of them. *)
(***************************************************************************)
EXTENDS Watchdog

CONSTANTS r1, r2, r3, Torn, Gone, p1, p2, small, large

VARIABLES
  part,
  events, where, saved, fetched, queue, batch, transport, process, handled, answered, faults,
  reply_pc, started, briefs, tmp, marker, reply, now,
  composing, profile, installed, settings, purpose, asked, refs, authorized, frozen, agent, receipt, first, edits,
  host, root, delivery, outcome, base, facts, todo, failures, data, copied, noticed, replied, sent, named, code,
  work, durable, part_file, full, works, ills, contended

chat == <<events, where, saved, fetched, queue, batch, transport, process, handled, answered, faults>>
replies == <<reply_pc, started, briefs, tmp, marker, reply, now>>
composition == <<composing, profile, installed, settings, purpose, asked, refs, authorized, frozen, agent, receipt, first, edits>>
artifacts == <<host, root, delivery, outcome, base, facts, todo, failures, data, copied, noticed, replied, sent, named, code,
               work, durable, part_file, full, works, ills, contended>>

\* Releases of a plugin: version 1 as first installed, edited in place and
\* broken, and version 2 in two states.
Made(v, makes, adds, hides, teaches) ==
  [version |-> v, entry |-> "m:f", makes |-> makes, capability |-> adds, marked |-> hides, skills |-> teaches]
Releases == {Made(1, "bundle", FALSE, FALSE, "there"), Made(1, "bundle", TRUE, FALSE, "none"), Made(1, "bundle", TRUE, FALSE, "missing"),
             Made(2, "bundle", TRUE, TRUE, "none"), Made(2, "import error", FALSE, FALSE, "none")}
Enabled(id, allow, defer) == [id |-> id, allow |-> allow, defer |-> defer, secret |-> FALSE]
Profile(rows, request) == [form |-> "valid", named |-> TRUE, rows |-> rows, generalist |-> request]
Profiles == {Profile(<<Enabled(p1, TRUE, FALSE)>>, {"tool_search", "shell"}), Profile(<<Enabled(p1, FALSE, TRUE)>>, {"tool_search", "conversation_search"}),
             Profile(<<Enabled(p1, FALSE, FALSE)>>, Gone), Profile(<<Enabled(p1, TRUE, FALSE), Enabled(p2, FALSE, TRUE)>>, {"tool_search"}),
             Profile(<<Enabled(p1, FALSE, FALSE), Enabled(p1, FALSE, FALSE)>>, Gone), [Profile(<<>>, Gone) EXCEPT !.form = "broken"]}

Chat == INSTANCE Feishu WITH told <- answered, MaxEvents <- 3, BatchMax <- 2, MaxFiles <- 1, MaxFaults <- 1, Redelivery <- TRUE
Reply == INSTANCE ReplyMarker WITH pc <- reply_pc, Run <- {r1, r2, r3}, Together <- 1, Pausing <- FALSE, MaxTime <- 14
Compose == INSTANCE Composition WITH pc <- composing, snapshot <- frozen, Plugin <- {p1, p2}, Release <- Releases, Document <- Profiles,
             Host <- {{"tool_search", "shell", "persistence", "skills"}, {"tool_search", "conversation_search", "persistence"}, {"conversation_search"}},
             Absent <- Gone, MaxEdits <- 2
Artifacts == INSTANCE ArtifactDelivery WITH pc <- delivery, told <- named, tmp <- part_file, faults <- ills, Run <- {1, 2}, Path <- {1, 2}, Content <- {small, large},
               Large <- {large}, Absent <- Gone, Together <- 2, MaxWork <- 2, MaxFaults <- 1

ASSUME Compose!CompositionAssumption /\ Artifacts!DeliveryAssumption
ASSUME Chat!FeishuAssumption /\ Reply!MarkerAssumption

DeliveryInit ==
  /\ Init /\ Chat!Init /\ Reply!Init /\ Compose!Init /\ Artifacts!Init
  /\ part \in {"watchdog", "feishu", "reply", "composition", "artifacts"}
  /\ part # "composition" => profile = Gone /\ installed[p1].version = 2 /\ ~installed[p1].capability /\ settings = {"conversation_search"}
  /\ host[1] = "cli" /\ root[1] /\ (part # "artifacts" => host[2] = "cli" /\ root[2])

DeliveryNext ==
  /\ UNCHANGED part
  /\ \/ part = "watchdog" /\ Next /\ UNCHANGED <<chat, replies, composition, artifacts>>
     \/ part = "feishu" /\ Chat!Next /\ UNCHANGED <<vars, replies, composition, artifacts>>
     \/ part = "reply" /\ Reply!Next /\ UNCHANGED <<vars, chat, composition, artifacts>>
     \/ part = "composition" /\ Compose!Next /\ UNCHANGED <<vars, chat, replies, artifacts>>
     \/ part = "artifacts" /\ Artifacts!Next /\ UNCHANGED <<vars, chat, replies, composition>>

DeliverySpec == DeliveryInit /\ [][DeliveryNext]_<<part, vars, chat, replies, composition, artifacts>>
-----------------------------------------------------------------------------
\* Feishu: a message refused for its files is never handed over, and what is
\* handed over comes whole and in the order it was queued (feishu.py).
MessagesAsSent == Chat!TypeOK /\ Chat!RefusedNeverStarts /\ Chat!OrderKept

\* Reply marker: a run that ends without a reply shows the brief it recorded
\* and never that of another run (service.py, _reply_artifact_text).
ReplyIsOwn == [](Reply!TypeOK /\ Reply!OwnReplyOnly) /\ Reply!NothingBuried

\* Composition: no agent hides tools that cannot be searched for, a
\* continuation is what was frozen and is refused only for a plugin that
\* changed, and a run may do what its host allows, its profile asks for and
\* its plugins were granted (composition.py).
CompositionHolds ==
  /\ [](part = "composition" => Compose!TypeOK /\ Compose!HiddenIsFindable /\ Compose!FrozenStands /\ Compose!NothingUnasked)
  /\ Compose!RefusedForCause

\* Artifacts: a durable copy is whole, and a completed run that was answered
\* has its files copied and sent or has told which are missing (runtime.py).
ArtifactsArrive ==
  part = "artifacts" => Artifacts!TypeOK /\ Artifacts!DurableIsWhole /\ Artifacts!CopiedOrTold /\ Artifacts!SentOrTold
=============================================================================
