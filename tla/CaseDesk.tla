------------------------------ MODULE CaseDesk ------------------------------
(***************************************************************************)
(* The case files of zuaef_case (store.py, toolset.py): drafts, situation  *)
(* and trajectory of each case, and the approval-gated send.  The tools of *)
(* one model answer run in parallel threads and several runs may be bound  *)
(* to a case; each tool reads its file, then writes it, and no lock is     *)
(* taken.  Writes are atomic (a temporary file, then a rename).            *)
(***************************************************************************)
EXTENDS Naturals, Sequences, FiniteSets

CONSTANTS
  Case, Run,
  Call,        \* threads that run tools
  Bound,       \* the case a run is bound to, or Unbound
  Unbound,
  Key, Value,  \* of the situation's state
  Nothing,     \* an unknown belief, an absent card
  MaxCalls, MaxPauses, MaxCrashes

CaseAssumption ==
  /\ Bound \in [Run -> Case \cup {Unbound}]
  /\ {MaxCalls, MaxPauses, MaxCrashes} \subseteq Nat
  /\ Nothing \notin Value

VARIABLES
  drafts,      \* of each case: the text of msg-001.md, msg-002.md, ...
  situation, trajectory,
  call,        \* of each thread: the tool it runs, with what it read
  calls,       \* tool calls so far: names a text, a belief, a step
  phase,       \* of each run: running, pausing, asked, sending, ended
  pending,     \* of each run: the drafts it wants to send
  card,        \* of each run: the text its approval card shows
  pauses, crashes,
  told,        \* draft references the tool has returned
  sent,        \* drafts delivered, with the text of the card that showed it
  latest,      \* the last belief written under a key
  raced        \* <<case, tool>> of which two calls have overlapped

vars == <<drafts, situation, trajectory, call, calls, phase, pending, card,
          pauses, crashes, told, sent, latest, raced>>

Idle == [op |-> "idle"]
Unknown == [k \in Key |-> Nothing]
Tool == {"draft", "situation", "step"}
Situation == [state : [Key -> Value \cup {Nothing}], provenance : BOOLEAN]

TypeOK ==
  /\ \A c \in Case :
       /\ drafts[c] \in Seq(1 .. MaxCalls)
       /\ situation[c] \in Situation
       /\ \A i \in DOMAIN trajectory[c] : trajectory[c][i] \in [seq : 1 .. MaxCalls, run : Run]
       /\ latest[c] \in [Key -> Value \cup {Nothing}]
  /\ \A k \in Call : call[k].op \in Tool \cup {"idle"}
  /\ calls \in 0 .. MaxCalls /\ pauses \in 0 .. MaxPauses /\ crashes \in 0 .. MaxCrashes
  /\ phase \in [Run -> {"running", "pausing", "asked", "sending", "ended"}]
  /\ \A r \in Run : pending[r] \in Seq(Case \X (1 .. MaxCalls))
  /\ card \in [Run -> (1 .. MaxCalls) \cup {Nothing}]
  /\ raced \subseteq Case \X Tool

Init ==
  /\ drafts = [c \in Case |-> <<>>]
  /\ situation = [c \in Case |-> [state |-> Unknown, provenance |-> FALSE]]
  /\ trajectory = [c \in Case |-> <<>>]
  /\ call = [k \in Call |-> Idle]
  /\ calls = 0 /\ pauses = 0 /\ crashes = 0
  /\ phase = [r \in Run |-> "running"]
  /\ pending = [r \in Run |-> <<>>]
  /\ card = [r \in Run |-> Nothing]
  /\ told = {} /\ sent = {}
  /\ latest = [c \in Case |-> Unknown]
  /\ raced = {}
-----------------------------------------------------------------------------
(* A tool reads what it will replace.                                      *)

\* _resolve_case_id and _guard_bound: a bound run reaches its own case only.
Reach(r) == IF Bound[r] = Unbound THEN Case ELSE {Bound[r]}

\* A call of the tool op by run r on case c, with what it read.
Begin(k, r, c, op, read) ==
  /\ call[k] = Idle /\ calls < MaxCalls
  /\ phase[r] = "running" /\ c \in Reach(r)
  /\ call' = [call EXCEPT ![k] = [op |-> op, run |-> r, case |-> c, read |-> read, id |-> calls + 1]]
  /\ calls' = calls + 1
  /\ raced' = IF \E o \in Call : call[o].op = op /\ call[o].case = c
              THEN raced \cup {<<c, op>>} ELSE raced
  /\ UNCHANGED <<drafts, situation, trajectory, phase, pending, card, pauses, crashes,
                 told, sent, latest>>

\* One more than the highest number there is.
DraftNumber(c) == Len(drafts[c]) + 1

NumberDraft(k, r, c) == Begin(k, r, c, "draft", DraftNumber(c))

\* The delta of one key, with or without evidence or an override.
ReadSituation(k, r, c) ==
  \E key \in Key, v \in Value \cup {Nothing}, evidence \in BOOLEAN :
    Begin(k, r, c, "situation", [was |-> situation[c], key |-> key, value |-> v, evidence |-> evidence])

\* _next_seq: one more than the highest in the file.
NextSeq(c, r) ==
  LET seqs == {trajectory[c][i].seq : i \in DOMAIN trajectory[c]}
  IN  IF seqs = {} THEN 1 ELSE (CHOOSE n \in seqs : \A m \in seqs : m <= n) + 1

NumberStep(k, r, c) == Begin(k, r, c, "step", NextSeq(c, r))
-----------------------------------------------------------------------------
(* ... and writes it.                                                      *)

Return(k) == call' = [call EXCEPT ![k] = Idle]

\* write_draft: the rename replaces a file of the same number.
PlaceDraft(k) ==
  /\ call[k].op = "draft"
  /\ LET c == call[k].case
         n == call[k].read
     IN  /\ drafts' = [drafts EXCEPT ![c] =
                         IF n > Len(@) THEN Append(@, call[k].id) ELSE [@ EXCEPT ![n] = call[k].id]]
         /\ told' = told \cup {[case |-> c, number |-> n, text |-> call[k].id]}
  /\ Return(k)
  /\ UNCHANGED <<situation, trajectory, calls, phase, pending, card, pauses, crashes,
                 sent, latest, raced>>

\* write_situation: a substantive claim needs provenance, its own or one the
\* case had before: evidence_ids are united, an override is kept.
Proven(s, delta) == s.state = Unknown \/ s.provenance

\* _deep_merge over what was read.
Merged(d) ==
  [state |-> [d.was.state EXCEPT ![d.key] = d.value], provenance |-> d.was.provenance \/ d.evidence]

WriteSituation(k) ==
  /\ call[k].op = "situation"
  /\ LET c == call[k].case
         d == call[k].read
     IN  IF Proven(Merged(d), d)
         THEN /\ situation' = [situation EXCEPT ![c] = Merged(d)]
              /\ latest' = [latest EXCEPT ![c][d.key] = d.value]
         ELSE UNCHANGED <<situation, latest>>
  /\ Return(k)
  /\ UNCHANGED <<drafts, trajectory, calls, phase, pending, card, pauses, crashes, told, sent, raced>>

AppendStep(k) ==
  /\ call[k].op = "step"
  /\ trajectory' = [trajectory EXCEPT ![call[k].case] =
                      Append(@, [seq |-> call[k].read, run |-> call[k].run])]
  /\ Return(k)
  /\ UNCHANGED <<drafts, situation, calls, phase, pending, card, pauses, crashes,
                 told, sent, latest, raced>>
-----------------------------------------------------------------------------
(* send_to_customer.                                                       *)

\* The tools of an answer return before the run pauses on its sends, whose
\* case is validated before there is a card.
RequestSend(r) ==
  /\ phase[r] = "running" /\ pauses < MaxPauses
  /\ \A k \in Call : call[k] # Idle => call[k].run # r
  /\ \E t, u \in {t \in told : t.case \in Reach(r)} :
       pending' = [pending EXCEPT ![r] =
         IF t = u THEN <<<<t.case, t.number>>>>
         ELSE <<<<t.case, t.number>>, <<u.case, u.number>>>>]
  /\ phase' = [phase EXCEPT ![r] = "pausing"]
  /\ pauses' = pauses + 1
  /\ UNCHANGED <<drafts, situation, trajectory, call, calls, card, crashes, told, sent, latest, raced>>

TextOf(ref) == drafts[ref[1]][ref[2]]

\* (mutant) the card shows the newest draft of the case.
OutboundDraftNewest(r) ==
  LET c == pending[r][1][1] IN drafts[c][Len(drafts[c])]

\* _outbound_draft_content: the first of the pending sends.
OutboundDraft(r) == TextOf(pending[r][1])

\* _settle_paused; a card that cannot be sent shows nothing.
ShowCard(r) ==
  /\ phase[r] = "pausing"
  /\ card' \in {[card EXCEPT ![r] = OutboundDraft(r)], [card EXCEPT ![r] = Nothing]}
  /\ phase' = [phase EXCEPT ![r] = "asked"]
  /\ UNCHANGED <<drafts, situation, trajectory, call, calls, pending, pauses, crashes,
                 told, sent, latest, raced>>

Decide(r) ==
  /\ phase[r] = "asked"
  /\ \/ phase' = [phase EXCEPT ![r] = "sending"]
     \/ phase' = [phase EXCEPT ![r] = "ended"]
  /\ UNCHANGED <<drafts, situation, trajectory, call, calls, pending, card, pauses, crashes,
                 told, sent, latest, raced>>

\* The batch is approved as one; each send reads its draft now.
SendToCustomer(r) ==
  /\ phase[r] = "sending"
  /\ sent' = sent \cup {[case |-> pending[r][i][1], number |-> pending[r][i][2],
                         text |-> TextOf(pending[r][i]),
                         shown |-> IF i = 1 THEN card[r] ELSE Nothing] : i \in DOMAIN pending[r]}
  /\ pending' = [pending EXCEPT ![r] = <<>>]
  /\ card' = [card EXCEPT ![r] = Nothing]
  /\ phase' = [phase EXCEPT ![r] = "running"]
  /\ UNCHANGED <<drafts, situation, trajectory, call, calls, pauses, crashes, told, latest, raced>>

\* The process dies: a write in flight leaves a temporary file, a paused run
\* waits on (its session keeps it paused until it settles).
Crash ==
  /\ crashes < MaxCrashes
  /\ crashes' = crashes + 1
  /\ call' = [k \in Call |-> Idle]
  /\ phase' = [r \in Run |-> IF phase[r] \in {"pausing", "asked", "sending"} THEN "asked" ELSE "ended"]
  /\ UNCHANGED <<drafts, situation, trajectory, calls, pending, card, pauses, told, sent, latest, raced>>

Next ==
  \/ \E k \in Call, r \in Run, c \in Case :
       NumberDraft(k, r, c) \/ ReadSituation(k, r, c) \/ NumberStep(k, r, c)
  \/ \E k \in Call : PlaceDraft(k) \/ WriteSituation(k) \/ AppendStep(k)
  \/ \E r \in Run : RequestSend(r) \/ ShowCard(r) \/ Decide(r) \/ SendToCustomer(r)
  \/ Crash

Spec == Init /\ [][Next]_vars
-----------------------------------------------------------------------------
Calm(c, op) == <<c, op>> \notin raced

\* The operator "approves content they can see" (service.py:417): what the
\* card showed and what the tool saved is what is sent, as long as no two saves
\* of the case overlapped, whatever was saved while the run waited.
SentAsShown ==
  \A s \in sent : Calm(s.case, "draft") =>
    /\ s.shown \in {s.text, Nothing}
    /\ [case |-> s.case, number |-> s.number, text |-> s.text] \in told

\* A belief stays until a later update of its key, as long as no two updates
\* of the case overlapped.
BeliefsKept ==
  \A c \in Case : Calm(c, "situation") => situation[c].state = latest[c]

\* A case that claims anything has some provenance, also when updates overlap
\* (store.py:124).
ClaimsHaveProvenance ==
  \A c \in Case : situation[c].state # Unknown => situation[c].provenance

\* The steps of a case are numbered in the order of the file, as long as no
\* two appends overlapped.
StepsInOrder ==
  \A c \in Case : Calm(c, "step") =>
    \A i \in DOMAIN trajectory[c] : trajectory[c][i].seq = i
-----------------------------------------------------------------------------
(* What the documents say and the code does not.                           *)

\* One reference names one text: two overlapping saves share a number.
DraftNamesOneText == \A t, u \in told : t.case = u.case /\ t.number = u.number => t = u

\* service.py:417, of a batch: only its first draft is on the card.
BatchWasShown == \A s \in sent : \E u \in sent : u.text = s.text /\ u.shown # Nothing
=============================================================================
