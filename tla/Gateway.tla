------------------------------- MODULE Gateway -------------------------------
(***************************************************************************)
(* The Gateway process: one serial dispatcher (gateway/service.py) over    *)
(* the SQLite routing store (gateway/store.py) and the receipts of the     *)
(* runtime.  A handler is cut into steps at every durable commit and at    *)
(* every outbound call that may raise, because a crash, a transport error  *)
(* or another process can fall exactly there.                              *)
(***************************************************************************)
EXTENDS Naturals, FiniteSets

CONSTANTS
  Channel,       \* chats the bot talks in
  Thread,        \* thread keys inside a chat
  Main,          \* the empty thread key: the chat-level session
  User,          \* allowlisted users
  NoUser,        \* owner of a row that does not exist yet
  NoChannel,     \* channel of a token that was never minted
  Case,          \* case directories under workspace/cases
  NoCase,        \* case_id = None
  MaxRuns,       \* bound on minted run ids
  MaxTokens,     \* bound on minted approval tokens
  MaxConvs,      \* bound on minted conversation ids
  MaxCrashes,    \* bound on hard crashes of the gateway process
  MaxBindings,   \* bound on `gateway bind-case` commands (another process)
  MaxOutside     \* bound on resumes by the CLI or the web console

ASSUME GatewayAssumption ==
  /\ Main \notin Thread
  /\ NoUser \notin User
  /\ NoCase \notin Case
  /\ MaxRuns \in Nat /\ MaxTokens \in Nat /\ MaxConvs \in Nat
  /\ MaxCrashes \in Nat /\ MaxBindings \in Nat /\ MaxOutside \in Nat

VARIABLES
  \* gateway.sqlite3
  session,    \* session_bindings: one row per (channel, thread)
  owner,      \* user_id of the row: its first writer
  token,      \* approval_bindings; approved and denied are both "consumed"
  \* the ReceiptStore
  receipt,    \* what <run_id>.json holds
  \* minted identifiers
  runs, tokens, convs,
  \* the dispatcher
  frame,      \* the handler in progress and its copy of the session row
  \* the surface
  shown,      \* approval cards that reached the chat
  \* the operator's `gateway bind-case` process
  cli,
  \* history
  resumes,    \* how many continuations were started from each paused run
  redeemed,   \* how many continuations each token authorised
  closed,     \* paused runs a session was waiting on and no longer is
  crashes, bindings, outside

store == <<session, owner, token>>
ids == <<runs, tokens, convs>>
history == <<resumes, redeemed, closed, crashes, bindings, outside>>
vars == <<store, receipt, ids, frame, shown, cli, history>>

Session == Channel \X (Thread \cup {Main})
Run == 1 .. MaxRuns
Token == 1 .. MaxTokens
NoRun == 0
NoToken == 0
NoSession == <<>>

Row == [conv: 0 .. MaxConvs, case: Case \cup {NoCase},
        active: Run \cup {NoRun}, paused: Run \cup {NoRun},
        last: Run \cup {NoRun}]

EmptyRow == [conv |-> 0, case |-> NoCase,
             active |-> NoRun, paused |-> NoRun, last |-> NoRun]

ApprovalBinding ==
  [state: {"none", "pending", "consumed", "expired"},
   run: Run \cup {NoRun}, user: User \cup {NoUser},
   channel: Channel \cup {NoChannel}]

Receipt == [state: {"none", "paused", "terminal"}, conv: 0 .. MaxConvs,
            case: Case \cup {NoCase}, from: Run \cup {NoRun}]

Step == {"idle", "down", "start", "ack", "running", "settle", "pause", "card",
         "callback", "match", "answer", "resume", "continuing", "expire",
         "abandon", "reset", "bind", "status"}

Frame == [pc: Step, session: Session \cup {NoSession}, row: Row,
          run: Run \cup {NoRun}, from: Run \cup {NoRun},
          user: User \cup {NoUser},
          token: Token \cup {NoToken}]

Idle == [pc |-> "idle", session |-> NoSession, row |-> EmptyRow,
         run |-> NoRun, from |-> NoRun, user |-> NoUser, token |-> NoToken]

CliFrame == [pc: {"idle", "bound"}, session: Session \cup {NoSession}, row: Row]
CliIdle == [pc |-> "idle", session |-> NoSession, row |-> EmptyRow]

TypeOK ==
  /\ session \in [Session -> Row]
  /\ owner \in [Session -> User \cup {NoUser}]
  /\ token \in [Token -> ApprovalBinding]
  /\ receipt \in [Run -> Receipt]
  /\ runs \in 0 .. MaxRuns /\ tokens \in 0 .. MaxTokens /\ convs \in 0 .. MaxConvs
  /\ frame \in Frame
  /\ shown \subseteq Token
  /\ cli \in CliFrame
  /\ resumes \in [Run -> Nat]
  /\ redeemed \in [Token -> Nat]
  /\ closed \subseteq Run
  /\ crashes \in Nat /\ bindings \in Nat /\ outside \in Nat

Init ==
  /\ session = [s \in Session |-> EmptyRow]
  /\ owner = [s \in Session |-> NoUser]
  /\ token = [t \in Token |-> [state |-> "none", run |-> NoRun, user |-> NoUser,
                               channel |-> NoChannel]]
  /\ receipt = [r \in Run |-> [state |-> "none", conv |-> 0, case |-> NoCase,
                               from |-> NoRun]]
  /\ runs = 0 /\ tokens = 0 /\ convs = 0
  /\ frame = Idle
  /\ shown = {}
  /\ cli = CliIdle
  /\ resumes = [r \in Run |-> 0]
  /\ redeemed = [t \in Token |-> 0]
  /\ closed = {}
  /\ crashes = 0 /\ bindings = 0 /\ outside = 0

-----------------------------------------------------------------------------
(* The store. *)

\* (mutant) an upsert that cannot clear paused_run_id.
SaveKeepsPaused(s, row) ==
  /\ session' = [session EXCEPT ![s] =
       [row EXCEPT !.paused = IF row.paused = NoRun THEN session[s].paused ELSE @]]
  /\ closed' = IF session[s].paused # NoRun /\ row.paused # session[s].paused
               THEN closed \cup {session[s].paused} ELSE closed

\* save_session: an upsert of the whole row.  `closed` records a wait it ends.
Save(s, row) ==
  /\ session' = [session EXCEPT ![s] = row]
  /\ closed' = IF session[s].paused # NoRun /\ row.paused # session[s].paused
               THEN closed \cup {session[s].paused} ELSE closed

\* get_or_create_session: the row of s, inserted with a fresh conversation and
\* u as its owner when there is none.
Opened(s) == IF owner[s] = NoUser THEN [EmptyRow EXCEPT !.conv = convs + 1]
                                  ELSE session[s]

Open(s, u) ==
  /\ owner[s] = NoUser => convs < MaxConvs
  /\ convs' = IF owner[s] = NoUser THEN convs + 1 ELSE convs
  /\ owner' = IF owner[s] = NoUser THEN [owner EXCEPT ![s] = u] ELSE owner
  /\ session' = [session EXCEPT ![s] = Opened(s)]

\* (mutant) a state the readers do not know.
ExpiredMisspelt(r) ==
  [t \in Token |-> IF token[t].run = r /\ token[t].state = "pending"
                   THEN [token[t] EXCEPT !.state = "expire"] ELSE token[t]]

\* expire_approvals_for_run
Expired(r) ==
  [t \in Token |-> IF token[t].run = r /\ token[t].state = "pending"
                   THEN [token[t] EXCEPT !.state = "expired"] ELSE token[t]]

-----------------------------------------------------------------------------
(* Dispatch: handle() reads the row and hands the event to its handler.  The *)
(* rest of the handler works on that copy, frame.row.                        *)

Receive(s, u, pc) ==
  /\ frame.pc = "idle"
  /\ Open(s, u)
  /\ frame' = IF pc = "idle" THEN Idle
              ELSE [Idle EXCEPT !.pc = pc, !.session = s, !.row = Opened(s)]
  /\ UNCHANGED <<token, receipt, runs, tokens, shown, cli, history>>

\* (mutant) a text starts a run although one waits for approval.
TextIgnoresPause(s, u) ==
  \/ Receive(s, u, "idle")
  \/ Receive(s, u, "start")

\* A plain text, alone or behind a profile alias: refused while a run waits for
\* approval, answered by a fast action without a run, or a run starts.  The
\* first disjunct is also every command that only replies: /help, /cases,
\* /inspect, /artifacts, an unknown case, /approve with nothing to approve.
Text(s, u) ==
  \/ Receive(s, u, "idle")
  \/ Opened(s).paused = NoRun /\ Receive(s, u, "start")

New(s, u) ==
  /\ convs + (IF owner[s] = NoUser THEN 1 ELSE 0) < MaxConvs
  /\ Receive(s, u, IF Opened(s).paused # NoRun THEN "abandon" ELSE "reset")

\* (mutant) the pause guard of the binding is dropped.
BindCaseUnguarded(s, u) == Receive(s, u, "bind")

\* /case <id>, /unbind and their buttons: refused while a run waits.
BindCase(s, u) == Opened(s).paused = NoRun /\ Receive(s, u, "bind")

Status(s, u) == Receive(s, u, "status")

\* /approve and /deny
Decide(s, u) ==
  /\ frame.pc = "idle"
  /\ Opened(s).paused # NoRun
  /\ frame' = [Idle EXCEPT !.pc = "resume", !.session = s, !.row = session[s],
                           !.from = session[s].paused]
  /\ UNCHANGED <<store, receipt, ids, shown, cli, history>>

\* A tap on an approval card.  The event carries no thread, so the session it
\* is matched with is the chat-level one of the card's channel.
Press(t, u) ==
  LET s == <<token[t].channel, Main>> IN
  /\ frame.pc = "idle"
  /\ t \in shown
  /\ Open(s, u)
  /\ frame' = [Idle EXCEPT !.pc = "callback", !.session = s, !.row = Opened(s),
                           !.user = u, !.token = t]
  /\ UNCHANGED <<token, receipt, runs, tokens, shown, cli, history>>

-----------------------------------------------------------------------------
(* The steps of the handlers.                                              *)

Goto(pc) == frame' = [frame EXCEPT !.pc = pc]
Return == frame' = Idle
SaveRow(row) == Save(frame.session, row)
WriteReceipt(r, kind, from, conv, case) ==
  receipt' = [receipt EXCEPT ![r] = [state |-> kind, conv |-> conv, case |-> case,
                                     from |-> from]]

\* _start_run up to the acknowledgment.  Profile admission comes first and
\* writes nothing when it denies.
StartRun ==
  /\ frame.pc = "start"
  /\ \/ Return /\ UNCHANGED <<session, closed, runs>>
     \/ LET row == [frame.row EXCEPT !.active = runs + 1] IN
        /\ runs < MaxRuns
        /\ runs' = runs + 1
        /\ SaveRow(row)
        /\ frame' = [frame EXCEPT !.pc = "ack", !.row = row, !.run = runs + 1]
  /\ UNCHANGED <<owner, token, receipt, tokens, convs, shown, cli,
                 resumes, redeemed, crashes, bindings, outside>>

\* The acknowledgment raises out of handle() when the transport fails: the
\* event is over and the run it announced never starts.
SendAck ==
  /\ frame.pc = "ack"
  /\ Goto("running") \/ Return
  /\ UNCHANGED <<store, receipt, ids, shown, cli, history>>

\* CompositionError: active_run_id is cleared.
RunRefused ==
  /\ frame.pc = "running"
  /\ SaveRow([frame.row EXCEPT !.active = NoRun])
  /\ Return
  /\ UNCHANGED <<owner, token, receipt, ids, shown, cli,
                 resumes, redeemed, crashes, bindings, outside>>

\* execute_run writes the receipt of the run, with the conversation and the
\* case the handler read.
RunSettles(kind) ==
  /\ frame.pc = "running"
  /\ kind = "paused" => tokens < MaxTokens
  /\ WriteReceipt(frame.run, kind, NoRun, frame.row.conv, frame.row.case)
  /\ Goto("settle")
  /\ UNCHANGED <<store, ids, shown, cli, history>>

\* _settle_terminal, and the end of a resume.  The exports and sends that
\* follow the commit leave the state alone whether they fail or not.
SettleTerminal ==
  /\ frame.pc = "settle"
  /\ receipt[frame.run].state = "terminal"
  /\ SaveRow(IF frame.from = NoRun
             THEN [frame.row EXCEPT !.active = NoRun, !.last = frame.run]
             ELSE [frame.row EXCEPT !.paused = NoRun, !.last = frame.run])
  /\ Return
  /\ UNCHANGED <<owner, token, receipt, ids, shown, cli,
                 resumes, redeemed, crashes, bindings, outside>>

\* _settle_paused: the token is committed first, then the row, then the card.
MintToken ==
  /\ frame.pc = "settle"
  /\ receipt[frame.run].state = "paused"
  /\ tokens < MaxTokens
  /\ tokens' = tokens + 1
  /\ token' = [token EXCEPT ![tokens + 1] =
                 [state |-> "pending", run |-> frame.run,
                  user |-> owner[frame.session], channel |-> frame.session[1]]]
  /\ frame' = [frame EXCEPT !.pc = "pause", !.token = tokens + 1]
  /\ UNCHANGED <<session, owner, receipt, runs, convs, shown, cli, history>>

SavePaused ==
  /\ frame.pc = "pause"
  /\ SaveRow([frame.row EXCEPT !.active = NoRun, !.paused = frame.run])
  /\ Goto("card")
  /\ UNCHANGED <<owner, token, receipt, ids, shown, cli,
                 resumes, redeemed, crashes, bindings, outside>>

\* (mutant) a card that is retried from the save until it gets through.
SendCardRetries ==
  /\ frame.pc = "card"
  /\ \/ shown' = shown \cup {frame.token} /\ Return
     \/ UNCHANGED shown /\ Goto("pause")
  /\ UNCHANGED <<store, receipt, ids, cli, history>>

SendCard ==
  /\ frame.pc = "card"
  /\ shown' = shown \cup {frame.token} \/ UNCHANGED shown
  /\ Return
  /\ UNCHANGED <<store, receipt, ids, cli, history>>

\* (mutant) a consumption that forgets the state of the token.
ConsumeAgain ==
  /\ frame.pc = "callback"
  /\ \/ /\ token[frame.token].user = frame.user
        /\ token' = [token EXCEPT ![frame.token].state = "consumed"]
        /\ Goto("match")
     \/ /\ token[frame.token].user # frame.user
        /\ UNCHANGED token
        /\ Return
  /\ UNCHANGED <<session, owner, receipt, ids, shown, cli, history>>

\* consume_approval: any failed check ends the handler, an expiry that passed
\* is recorded on the way.
ConsumeToken ==
  /\ frame.pc = "callback"
  /\ \/ /\ token[frame.token].state = "pending"
        /\ token' = [token EXCEPT ![frame.token].state = "expired"]
        /\ Return
     \/ /\ token[frame.token].state = "pending"
        /\ token[frame.token].user = frame.user
        /\ token' = [token EXCEPT ![frame.token].state = "consumed"]
        /\ Goto("match")
     \/ /\ \/ token[frame.token].state # "pending"
           \/ token[frame.token].user # frame.user
        /\ UNCHANGED token
        /\ Return
  /\ UNCHANGED <<session, owner, receipt, ids, shown, cli, history>>

\* The consumed token must name the run this session waits on, and that run
\* must still hold a pause receipt; a stale pointer is dropped.
MatchToken ==
  LET run == token[frame.token].run
      matches == frame.row.paused # NoRun /\ frame.row.paused = run
      stale == matches /\ receipt[run].state # "paused" IN
  /\ frame.pc = "match"
  /\ IF matches /\ ~stale
     THEN frame' = [frame EXCEPT !.pc = "answer", !.from = run]
     ELSE Return
  /\ IF stale THEN SaveRow([frame.row EXCEPT !.paused = NoRun])
              ELSE UNCHANGED <<session, closed>>
  /\ UNCHANGED <<owner, token, receipt, ids, shown, cli,
                 resumes, redeemed, crashes, bindings, outside>>

\* answer_callback raises on a transport error: the token is spent, the run
\* still waits.
AnswerCallback ==
  /\ frame.pc = "answer"
  /\ Goto("resume") \/ Return
  /\ UNCHANGED <<store, receipt, ids, shown, cli, history>>

\* resume_paused_run: the pause receipt is read, a new run continues it.
Resume ==
  /\ frame.pc = "resume"
  /\ receipt[frame.from].state = "paused"
  /\ runs < MaxRuns
  /\ runs' = runs + 1
  /\ frame' = [frame EXCEPT !.pc = "continuing", !.run = runs + 1]
  /\ resumes' = [resumes EXCEPT ![frame.from] = @ + 1]
  /\ redeemed' = IF frame.token = NoToken THEN redeemed
                 ELSE [redeemed EXCEPT ![frame.token] = @ + 1]
  /\ UNCHANGED <<store, receipt, tokens, convs, shown, cli,
                 closed, crashes, bindings, outside>>

\* A lost frontier (LookupError), a drifted composition or a receipt that is
\* not paused raises out of the poll loop and ends the process.
ResumeRaises ==
  /\ frame.pc = "resume"
  /\ frame' = [Idle EXCEPT !.pc = "down"]
  /\ UNCHANGED <<store, receipt, ids, shown, cli, history>>

\* (mutant) a continuation that takes the case the session shows now.
ContinuationRebinds(kind) ==
  /\ frame.pc = "continuing"
  /\ kind = "paused" => tokens < MaxTokens
  /\ WriteReceipt(frame.run, kind, frame.from, receipt[frame.from].conv, frame.row.case)
  /\ Goto(IF frame.token = NoToken THEN "expire" ELSE "settle")
  /\ UNCHANGED <<store, ids, shown, cli, history>>

\* execute_run settles the continuation, with the conversation and bindings
\* frozen in the pause receipt.
ContinuationSettles(kind) ==
  /\ frame.pc = "continuing"
  /\ kind = "paused" => tokens < MaxTokens
  /\ WriteReceipt(frame.run, kind, frame.from, receipt[frame.from].conv,
          receipt[frame.from].case)
  /\ Goto(IF frame.token = NoToken THEN "expire" ELSE "settle")
  /\ UNCHANGED <<store, ids, shown, cli, history>>

\* (mutant) /approve leaves the buttons alive.
ButtonsSurvive ==
  /\ frame.pc = "expire"
  /\ Goto("settle")
  /\ UNCHANGED <<store, receipt, ids, shown, cli, history>>

\* /approve and /deny kill the buttons of the run they decided.
ExpireButtons ==
  /\ frame.pc = "expire"
  /\ token' = Expired(frame.from)
  /\ Goto("settle")
  /\ UNCHANGED <<session, owner, receipt, ids, shown, cli, history>>

\* reset_session: two commits when a run was waiting.
AbandonPaused ==
  /\ frame.pc = "abandon"
  /\ token' = Expired(frame.row.paused)
  /\ Goto("reset")
  /\ UNCHANGED <<session, owner, receipt, ids, shown, cli, history>>

ResetSession ==
  /\ frame.pc = "reset"
  /\ convs < MaxConvs
  /\ convs' = convs + 1
  /\ SaveRow([conv |-> convs + 1, case |-> frame.row.case,
              active |-> NoRun, paused |-> NoRun, last |-> NoRun])
  /\ Return
  /\ UNCHANGED <<owner, token, receipt, runs, tokens, shown, cli,
                 resumes, redeemed, crashes, bindings, outside>>

\* A new case on the copied row; /profile, refused alike while a run waits, writes
\* the row back with the case it had.
SaveCase ==
  /\ frame.pc = "bind"
  /\ \E c \in Case \cup {NoCase} : SaveRow([frame.row EXCEPT !.case = c])
  /\ Return
  /\ UNCHANGED <<owner, token, receipt, ids, shown, cli,
                 resumes, redeemed, crashes, bindings, outside>>

\* /status drops a pointer its receipt no longer supports.
Grounded(row) ==
  IF row.paused # NoRun
  THEN IF receipt[row.paused].state = "paused" THEN row
       ELSE [row EXCEPT !.paused = NoRun]
  ELSE IF row.active = NoRun /\ row.last # NoRun /\ receipt[row.last].state # "terminal"
       THEN [row EXCEPT !.last = NoRun] ELSE row

ShowStatus ==
  /\ frame.pc = "status"
  /\ IF Grounded(frame.row) = frame.row THEN UNCHANGED <<session, closed>>
                                        ELSE SaveRow(Grounded(frame.row))
  /\ Return
  /\ UNCHANGED <<owner, token, receipt, ids, shown, cli,
                 resumes, redeemed, crashes, bindings, outside>>

-----------------------------------------------------------------------------
(* Crash, and recover_sessions at the next start.                          *)

Crash ==
  /\ frame.pc # "down"
  /\ crashes < MaxCrashes
  /\ crashes' = crashes + 1
  /\ frame' = [Idle EXCEPT !.pc = "down"]
  /\ UNCHANGED <<store, receipt, ids, shown, cli,
                 resumes, redeemed, closed, bindings, outside>>

Reconciled(row) ==
  LET run == IF row.paused # NoRun THEN row.paused ELSE row.active IN
  IF run = NoRun THEN row
  ELSE CASE receipt[run].state = "none" ->
              [row EXCEPT !.active = NoRun, !.paused = NoRun]
         [] receipt[run].state = "paused" ->
              [row EXCEPT !.active = NoRun, !.paused = run]
         [] OTHER ->
              [row EXCEPT !.active = NoRun, !.paused = NoRun, !.last = run]

Recover ==
  /\ frame.pc = "down"
  /\ session' = [s \in Session |-> Reconciled(session[s])]
  /\ closed' = closed \cup
       {session[s].paused : s \in {q \in Session : /\ session[q].paused # NoRun
                                   /\ session'[q].paused # session[q].paused}}
  /\ Return
  /\ UNCHANGED <<owner, token, receipt, ids, shown, cli,
                 resumes, redeemed, crashes, bindings, outside>>

-----------------------------------------------------------------------------
(* Other processes on the same state root.                                 *)

\* `gateway bind-case`: reads or creates the row, then writes it back whole.
\* (A reset in progress has the last conversation of the bound reserved.)
CliRead(s, u) ==
  /\ cli.pc = "idle"
  /\ bindings < MaxBindings
  /\ owner[s] = NoUser => frame.pc \notin {"abandon", "reset"}
  /\ bindings' = bindings + 1
  /\ Open(s, u)
  /\ cli' = [pc |-> "bound", session |-> s, row |-> Opened(s)]
  /\ UNCHANGED <<token, receipt, runs, tokens, frame, shown,
                 resumes, redeemed, closed, crashes, outside>>

CliWrite ==
  /\ cli.pc = "bound"
  /\ \E c \in Case \cup {NoCase} : Save(cli.session, [cli.row EXCEPT !.case = c])
  /\ cli' = CliIdle
  /\ UNCHANGED <<owner, token, receipt, ids, frame, shown,
                 resumes, redeemed, crashes, bindings, outside>>

\* `zuaef-agent resume` and the web console's approve and deny: the same seam,
\* guarded by the pause receipt alone.
ResumeOutside(r, kind) ==
  /\ outside < MaxOutside
  /\ outside' = outside + 1
  /\ receipt[r].state = "paused"
  /\ runs < MaxRuns
  /\ runs' = runs + 1
  /\ resumes' = [resumes EXCEPT ![r] = @ + 1]
  /\ WriteReceipt(runs + 1, kind, r, receipt[r].conv, receipt[r].case)
  /\ UNCHANGED <<store, tokens, convs, frame, shown, cli,
                 redeemed, closed, crashes, bindings>>

-----------------------------------------------------------------------------
Event ==
  \E u \in User :
    \/ \E s \in Session : Text(s, u) \/ New(s, u) \/ BindCase(s, u)
                          \/ Status(s, u) \/ Decide(s, u)
    \/ \E t \in Token : Press(t, u)

Handler ==
  \/ StartRun \/ SendAck \/ RunRefused
  \/ \E kind \in {"paused", "terminal"} : RunSettles(kind)
  \/ SettleTerminal \/ MintToken \/ SavePaused \/ SendCard
  \/ ConsumeToken \/ MatchToken \/ AnswerCallback
  \/ Resume \/ ResumeRaises
  \/ \E kind \in {"paused", "terminal"} : ContinuationSettles(kind)
  \/ ExpireButtons \/ AbandonPaused \/ ResetSession \/ SaveCase \/ ShowStatus

Outside ==
  \/ \E s \in Session, u \in User : CliRead(s, u)
  \/ CliWrite
  \/ \E r \in Run, kind \in {"paused", "terminal"} : ResumeOutside(r, kind)

Next == Event \/ Handler \/ Crash \/ Recover \/ Outside

Spec == Init /\ [][Next]_vars

\* The dispatcher keeps stepping: its calls return (the model run is cut by
\* the usage limits, the transport by its timeouts) and a supervisor restarts
\* a dead process.  Users, crashes and other processes owe nothing.
FairSpec == Spec /\ WF_vars(Handler) /\ WF_vars(Recover)
-----------------------------------------------------------------------------
(* Properties.                                                             *)

\* A paused session points at a pause receipt of its own conversation, bound to
\* the case the session shows: what /approve resumes is what /status and /case
\* say (service.py:673-692, 919-960, 1139-1172).
PausedIsGrounded ==
  \A s \in Session :
    LET r == session[s].paused IN
    r # NoRun => /\ receipt[r].state = "paused"
                 /\ receipt[r].conv = session[s].conv
                 /\ receipt[r].case = session[s].case
                 /\ session[s].active = NoRun
                 /\ \A q \in Session : session[q].paused = r => q = s

\* The run whose turns are replayed into the next prompt belongs to the
\* session's current conversation: nothing crosses a /new (service.py:294-303).
HistoryStaysInConversation ==
  \A s \in Session :
    LET r == session[s].last IN
    r # NoRun => receipt[r].state = "terminal" /\ receipt[r].conv = session[s].conv

\* A row that waits names a paused receipt of its own conversation, and its
\* history never leaves it, whatever crashes between two commits (service.py,
\* recover_sessions; store.py).
RowsAreGrounded == PausedIsGrounded /\ HistoryStaysInConversation

\* Between events, every button a user can see and the store would accept
\* decides a run some session of that chat still waits on.
LiveCardMatchesSession ==
  frame.pc = "idle" =>
    \A t \in shown : token[t].state = "pending" =>
      \E s \in Session : s[1] = token[t].channel /\ session[s].paused = token[t].run

\* One tap, one continuation, whatever crashes and is tapped again.
TokenRedeemedOnce == \A t \in Token : redeemed[t] <= 1

\* The gateway resumes a paused run a second time only after a crash.
RepeatNeedsCrash == \A r \in Run : resumes[r] <= 1 + crashes

\* A run whose session stopped waiting for it (resumed, /new) is never resumed
\* again from the gateway.
ClosedStaysClosed ==
  [][\A r \in closed : resumes'[r] = resumes[r]]_vars

\* A paused run is resumed a second time only after a crash, and never once its
\* session has stopped waiting for it (continuation.py; service.py).
SettledForGood == []RepeatNeedsCrash /\ ClosedStaysClosed

\* A continuation keeps the conversation and the case frozen in its pause receipt.
ContinuationKeepsIdentity ==
  \A r \in Run : LET p == receipt[r].from IN
    receipt[r].state # "none" /\ p # NoRun =>
      receipt[r].conv = receipt[p].conv /\ receipt[r].case = receipt[p].case

\* Between two events the dispatcher always comes back to its poll loop,
\* whatever step of a handler raised, died or was refused (runner.py:296-315).
DispatcherReturns == frame.pc # "idle" ~> frame.pc = "idle"

\* Each session is free, busy with one run, or waiting on one paused run.
Lifecycle == INSTANCE SessionLifecycle WITH
  conv <- [s \in Session |-> session[s].conv],
  busy <- [s \in Session |-> session[s].active # NoRun],
  gate <- [s \in Session |-> session[s].paused],
  closed <- closed,
  used <- 1 .. convs

\* The routing rows implement the session lifecycle, through crashes, lost
\* sends and recovery (service.py:186-1172).
ImplementsLifecycle == Lifecycle!Spec

-----------------------------------------------------------------------------
(* What the repository says of itself.                                     *)

\* continuation.py:50, "Resume a paused run exactly once".
ResumedOnce == \A r \in Run : resumes[r] <= 1

\* SPEC v0.3 section 29 (lines 1687-1699): while active_run_id is set no second run starts.
NoStartWhileActive ==
  [][\A s \in Session :
       session[s].active # NoRun => session'[s].active \in {session[s].active, NoRun}]_vars

\* README.md:197-198, "Binding/unbinding is refused while a run waits for
\* approval".
CaseFrozenWhilePaused ==
  [][\A s \in Session :
       session[s].paused # NoRun /\ session'[s].paused = session[s].paused
         => session'[s].case = session[s].case]_vars
=============================================================================
