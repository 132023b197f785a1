--------------------------- MODULE GatewayProofs ---------------------------
(***************************************************************************)
(* Theorems of the Gateway for any channels, threads, users, cases and     *)
(* bounds: types, tokens, what the receipts say of each other, and what    *)
(* the routing rows promise while no other process rebinds them.           *)
(***************************************************************************)
EXTENDS Gateway, TLAPS

\* Which fields of the frame a step relies on, and what a displayed card says.
FrameOK ==
  /\ frame.pc \in {"idle", "down"} \/ frame.session \in Session
  /\ frame.pc \in {"ack", "running", "settle", "pause", "card", "continuing", "expire"}
       => frame.run \in Run
  /\ frame.pc \in {"answer", "resume", "continuing", "expire"} => frame.from \in Run
  /\ frame.pc \in {"callback", "match", "pause", "card"} => frame.token \in Token
  /\ frame.pc \in {"pause", "card"} => token[frame.token].channel \in Channel
  /\ cli.pc = "bound" => cli.session \in Session

CardsOK == \A t \in shown : token[t].channel \in Channel

Typed == TypeOK /\ FrameOK /\ CardsOK

LEMMA InitTyped == Init => Typed
<1> SUFFICES ASSUME Init PROVE Typed
  OBVIOUS
<1> USE GatewayAssumption DEF Init
<1>1. TypeOK
  BY DEF TypeOK, EmptyRow, Row, ApprovalBinding, Receipt, Frame, Step, Idle, CliFrame,
         CliIdle, Session, Run, Token, NoRun, NoToken, NoSession
<1>2. FrameOK /\ CardsOK
  BY DEF FrameOK, CardsOK, Idle, CliIdle
<1>3. QED
  BY <1>1, <1>2 DEF Typed

\* Writing a row keeps the type of the table and of the history it feeds.
LEMMA SaveTyped ==
  ASSUME TypeOK, NEW s, NEW row \in Row, Save(s, row)
  PROVE  session' \in [Session -> Row] /\ closed' \subseteq Run
<1>1. session' \in [Session -> Row]
  BY DEF Save, TypeOK
<1>2. CASE s \in Session
  BY <1>2 DEF Save, TypeOK, Row, NoRun
<1>3. QED
  BY <1>1, <1>2 DEF Save, TypeOK

LEMMA OpenTyped ==
  ASSUME TypeOK, NEW s \in Session, NEW u \in User, Open(s, u)
  PROVE  /\ Opened(s) \in Row
         /\ session' \in [Session -> Row]
         /\ owner' \in [Session -> User \cup {NoUser}]
         /\ convs' \in 0 .. MaxConvs
<1> USE GatewayAssumption
<1>1. Opened(s) \in Row
  BY DEF TypeOK, Open, Opened, EmptyRow, Row, NoRun
<1>2. QED
  BY <1>1 DEF TypeOK, Open

LEMMA IdleTyped == Idle \in Frame /\ EmptyRow \in Row
BY GatewayAssumption DEF Idle, Frame, Step, EmptyRow, Row, NoRun, NoToken, NoSession

LEMMA ReceiveTyped ==
  ASSUME Typed, NEW s \in Session, NEW u \in User,
         NEW pc \in {"idle", "start", "abandon", "reset", "bind", "status"},
         Receive(s, u, pc)
  PROVE  Typed'
<1> USE GatewayAssumption DEF Typed
<1>1. /\ Opened(s) \in Row
      /\ session' \in [Session -> Row]
      /\ owner' \in [Session -> User \cup {NoUser}]
      /\ convs' \in 0 .. MaxConvs
  BY OpenTyped DEF Receive
<1>2. frame' \in Frame
  <2>1. CASE pc = "idle"
    BY <2>1, IdleTyped DEF Receive
  <2>2. CASE pc # "idle"
    <3>1. frame' = [Idle EXCEPT !.pc = pc, !.session = s, !.row = Opened(s)]
      BY <2>2 DEF Receive
    <3>2. pc \in Step
      BY DEF Step
    <3>3. QED
      BY <1>1, <3>1, <3>2, IdleTyped DEF Frame
  <2>3. QED
    BY <2>1, <2>2
<1>3. TypeOK'
  BY <1>1, <1>2 DEF Receive, TypeOK, history
<1>4. FrameOK' /\ CardsOK'
  BY DEF Receive, Idle, FrameOK, CardsOK, TypeOK
<1>5. QED
  BY <1>3, <1>4

\* The events: a message or a tap opens the row and hands it to a handler.
LEMMA EventTyped == ASSUME Typed, Event PROVE Typed'
<1> USE GatewayAssumption DEF Typed
<1>1. ASSUME NEW u \in User, NEW s \in Session,
             Text(s, u) \/ New(s, u) \/ BindCase(s, u) \/ Status(s, u)
      PROVE  Typed'
  <2>1. \E pc \in {"idle", "start", "abandon", "reset", "bind", "status"} : Receive(s, u, pc)
    BY <1>1 DEF Text, New, BindCase, Status
  <2>2. QED
    BY <2>1, ReceiveTyped
<1>2. ASSUME NEW u \in User, NEW s \in Session, Decide(s, u) PROVE Typed'
  <2>1. session[s] \in Row /\ session[s].paused \in Run
    BY <1>2 DEF Decide, Opened, EmptyRow, TypeOK, Row
  <2>2. frame' \in Frame
    BY <1>2, <2>1, IdleTyped DEF Decide, Frame, Step
  <2>3. TypeOK'
    BY <1>2, <2>2 DEF Decide, TypeOK, store, ids, history
  <2>4. FrameOK' /\ CardsOK'
    BY <1>2, <2>1 DEF Decide, FrameOK, CardsOK, Idle, store
  <2>5. QED
    BY <2>3, <2>4
<1>3. ASSUME NEW u \in User, NEW t \in Token, Press(t, u) PROVE Typed'
  <2> DEFINE s == <<token[t].channel, Main>>
  <2>1. s \in Session
    BY <1>3 DEF Press, CardsOK, Session
  <2>2. /\ Opened(s) \in Row
        /\ session' \in [Session -> Row]
        /\ owner' \in [Session -> User \cup {NoUser}]
        /\ convs' \in 0 .. MaxConvs
    BY <1>3, <2>1, OpenTyped DEF Press
  <2>3. frame' = [Idle EXCEPT !.pc = "callback", !.session = s, !.row = Opened(s),
                              !.user = u, !.token = t]
    BY <1>3 DEF Press
  <2> HIDE DEF s
  <2>4. frame' \in Frame
    BY <2>1, <2>2, <2>3, IdleTyped DEF Frame, Step
  <2>5. TypeOK'
    BY <1>3, <2>2, <2>4 DEF Press, TypeOK, history
  <2>6. FrameOK' /\ CardsOK'
    BY <1>3, <2>1, <2>3 DEF Press, FrameOK, CardsOK, Idle
  <2>7. QED
    BY <2>5, <2>6
<1>4. QED
  BY <1>1, <1>2, <1>3 DEF Event

\* Every pc a handler moves to is a step, and moving keeps the copied row.
LEMMA GotoTyped == ASSUME Typed, NEW pc \in Step, Goto(pc) PROVE frame' \in Frame
BY DEF Goto, Typed, TypeOK, Frame

LEMMA WriteReceiptTyped ==
  ASSUME Typed, NEW r \in Run, NEW kind \in {"paused", "terminal"},
         NEW from \in Run \cup {NoRun}, NEW c \in 0 .. MaxConvs,
         NEW k \in Case \cup {NoCase}, WriteReceipt(r, kind, from, c, k)
  PROVE  receipt' \in [Run -> Receipt]
BY DEF WriteReceipt, Typed, TypeOK, Receipt

\* The next run id is one, as long as the bound leaves it.
LEMMA NextRunTyped ==
  ASSUME Typed, runs < MaxRuns
  PROVE  runs + 1 \in Run /\ runs + 1 \in 0 .. MaxRuns
<1>1. runs \in 0 .. MaxRuns
  BY DEF Typed, TypeOK
<1>2. QED
  BY <1>1, GatewayAssumption DEF Run

\* _start_run, from the event to the receipt of the run.
LEMMA StartTyped ==
  ASSUME Typed,
         StartRun \/ SendAck \/ RunRefused
           \/ \E kind \in {"paused", "terminal"} : RunSettles(kind)
  PROVE  Typed'
<1> USE GatewayAssumption DEF Typed
<1>0. frame \in Frame /\ frame.row \in Row
  BY DEF TypeOK, Frame
<1>1. CASE StartRun
  <2>1. CASE Return /\ UNCHANGED <<session, closed, runs>>
    BY <1>1, <2>1, IdleTyped
       DEF StartRun, Return, TypeOK, FrameOK, CardsOK, Idle, store, ids, history
  <2>2. CASE ~(Return /\ UNCHANGED <<session, closed, runs>>)
    <3> DEFINE row == [frame.row EXCEPT !.active = runs + 1]
    <3>1. /\ runs < MaxRuns /\ runs' = runs + 1 /\ SaveRow(row)
          /\ frame' = [frame EXCEPT !.pc = "ack", !.row = row, !.run = runs + 1]
      BY <1>1, <2>2 DEF StartRun
    <3>2. runs + 1 \in Run /\ runs' \in 0 .. MaxRuns
      BY <3>1, NextRunTyped
    <3>3. row \in Row
      BY <1>0, <3>2 DEF Row
    <3> HIDE DEF row
    <3>4. session' \in [Session -> Row] /\ closed' \subseteq Run
      BY <3>1, <3>3, SaveTyped DEF SaveRow
    <3>5. frame' \in Frame
      BY <1>0, <3>1, <3>2, <3>3 DEF Frame, Step
    <3>6. TypeOK'
      BY <1>1, <3>2, <3>4, <3>5 DEF StartRun, TypeOK
    <3>7. FrameOK' /\ CardsOK'
      BY <1>0, <1>1, <3>1, <3>2 DEF StartRun, FrameOK, CardsOK, Frame
    <3>8. QED
      BY <3>6, <3>7
  <2>3. QED
    BY <2>1, <2>2
<1>2. CASE SendAck
  <2>1. frame' \in Frame
    BY <1>2, GotoTyped, IdleTyped DEF SendAck, Step, Return
  <2>2. QED
    BY <1>0, <1>2, <2>1
       DEF SendAck, Goto, Return, Idle, TypeOK, FrameOK, CardsOK, Frame, store, ids, history
<1>3. CASE RunRefused
  <2>1. session' \in [Session -> Row] /\ closed' \subseteq Run
    BY <1>0, <1>3, SaveTyped DEF RunRefused, SaveRow, Row
  <2>2. QED
    BY <1>3, <2>1, IdleTyped DEF RunRefused, Return, Idle, TypeOK, FrameOK, CardsOK, ids
<1>4. ASSUME NEW kind \in {"paused", "terminal"}, RunSettles(kind) PROVE Typed'
  <2>1. frame' \in Frame
    BY <1>4, GotoTyped DEF RunSettles, Step
  <2>2. receipt' \in [Run -> Receipt]
    BY <1>0, <1>4, WriteReceiptTyped DEF RunSettles, FrameOK, Row
  <2>3. QED
    BY <1>0, <1>4, <2>1, <2>2
       DEF RunSettles, Goto, TypeOK, FrameOK, CardsOK, Frame, store, ids, history
<1>5. QED
  BY <1>1, <1>2, <1>3, <1>4

\* _settle_terminal and _settle_paused.
LEMMA SettleTyped ==
  ASSUME Typed, SettleTerminal \/ MintToken \/ SavePaused \/ SendCard
  PROVE  Typed'
<1> USE GatewayAssumption DEF Typed
<1>0. frame \in Frame /\ frame.row \in Row
  BY DEF TypeOK, Frame
<1>1. CASE SettleTerminal
  <2>1. frame.run \in Run
    BY <1>1 DEF SettleTerminal, FrameOK
  <2>2. session' \in [Session -> Row] /\ closed' \subseteq Run
    BY <1>0, <1>1, <2>1, SaveTyped DEF SettleTerminal, SaveRow, Row
  <2>3. QED
    BY <1>1, <2>2, IdleTyped DEF SettleTerminal, Return, Idle, TypeOK, FrameOK, CardsOK, ids
<1>2. CASE MintToken
  <2>1. frame.run \in Run /\ frame.session \in Session /\ tokens + 1 \in Token
    BY <1>2 DEF MintToken, FrameOK, TypeOK, Token
  <2>2. owner[frame.session] \in User \cup {NoUser} /\ frame.session[1] \in Channel
    BY <2>1 DEF TypeOK, Session
  <2>3. token' \in [Token -> ApprovalBinding]
    BY <1>2, <2>1, <2>2 DEF MintToken, TypeOK, ApprovalBinding
  <2>4. frame' \in Frame
    BY <1>0, <1>2, <2>1 DEF MintToken, Frame, Step
  <2>5. tokens' \in 0 .. MaxTokens
    BY <1>2 DEF MintToken, TypeOK
  <2>6. TypeOK'
    BY <1>2, <2>3, <2>4, <2>5 DEF MintToken, TypeOK, history
  <2>7. FrameOK' /\ CardsOK'
    BY <1>0, <1>2, <2>1, <2>2 DEF MintToken, FrameOK, CardsOK, Frame, TypeOK
  <2>8. QED
    BY <2>6, <2>7
<1>3. CASE SavePaused
  <2>1. session' \in [Session -> Row] /\ closed' \subseteq Run
    BY <1>0, <1>3, SaveTyped DEF SavePaused, SaveRow, Row, FrameOK
  <2>2. frame' \in Frame
    BY <1>3, GotoTyped DEF SavePaused, Step
  <2>3. QED
    BY <1>0, <1>3, <2>1, <2>2 DEF SavePaused, Goto, TypeOK, FrameOK, CardsOK, Frame, ids
<1>4. CASE SendCard
  BY <1>4, IdleTyped
     DEF SendCard, Return, Idle, TypeOK, FrameOK, CardsOK, store, ids, history
<1>5. QED
  BY <1>1, <1>2, <1>3, <1>4

LEMMA ExpiredTyped == ASSUME Typed, NEW r PROVE Expired(r) \in [Token -> ApprovalBinding]
BY DEF Expired, Typed, TypeOK, ApprovalBinding

LEMMA ExpiredKeepsRest ==
  ASSUME NEW r, NEW t \in Token
  PROVE  /\ Expired(r)[t].channel = token[t].channel
         /\ Expired(r)[t].run = token[t].run
         /\ token[t].state = "consumed" => Expired(r)[t].state = "consumed"
         /\ token[t].state = "none" => Expired(r)[t].state = "none"
BY DEF Expired

\* A tap, from the consumption of its token to the continuation it starts; and
\* /approve, which joins it there.
LEMMA DecisionTyped ==
  ASSUME Typed,
         \/ ConsumeToken \/ MatchToken \/ AnswerCallback \/ Resume \/ ResumeRaises
         \/ \E kind \in {"paused", "terminal"} : ContinuationSettles(kind)
         \/ ExpireButtons
  PROVE  Typed'
<1> USE GatewayAssumption DEF Typed
<1>0. frame \in Frame /\ frame.row \in Row
  BY DEF TypeOK, Frame
<1>1. CASE ConsumeToken
  <2>1. frame.token \in Token
    BY <1>1 DEF ConsumeToken, FrameOK
  <2>2. /\ token' \in [Token -> ApprovalBinding]
        /\ \A t \in Token : token'[t].channel = token[t].channel
    BY <1>1, <2>1 DEF ConsumeToken, TypeOK, ApprovalBinding
  <2>3. frame' \in Frame
    BY <1>1, GotoTyped, IdleTyped DEF ConsumeToken, Return, Step
  <2>4. TypeOK'
    BY <1>1, <2>2, <2>3 DEF ConsumeToken, TypeOK, ids, history
  <2>5. FrameOK' /\ CardsOK'
    BY <1>0, <1>1, <2>1, <2>2
       DEF ConsumeToken, Return, Goto, Idle, FrameOK, CardsOK, Frame, TypeOK
  <2>6. QED
    BY <2>4, <2>5
<1>2. CASE MatchToken
  <2> DEFINE run == token[frame.token].run
  <2>1. session' \in [Session -> Row] /\ closed' \subseteq Run
    <3>1. CASE UNCHANGED <<session, closed>>
      BY <3>1 DEF TypeOK
    <3>2. CASE SaveRow([frame.row EXCEPT !.paused = NoRun])
      BY <1>0, <3>2, SaveTyped DEF SaveRow, Row
    <3>3. QED
      BY <1>2, <3>1, <3>2 DEF MatchToken
  <2>2. CASE frame' = [frame EXCEPT !.pc = "answer", !.from = run] /\ run \in Run
    <3> HIDE DEF run
    <3>1. frame' \in Frame
      BY <1>0, <2>2 DEF Frame, Step
    <3>2. FrameOK' /\ CardsOK'
      BY <1>0, <1>2, <2>2 DEF MatchToken, FrameOK, CardsOK, Frame
    <3>3. QED
      BY <1>2, <2>1, <3>1, <3>2 DEF MatchToken, TypeOK, ids
  <2>3. CASE Return
    BY <1>2, <2>1, <2>3, IdleTyped DEF MatchToken, Return, Idle, TypeOK, FrameOK, CardsOK, ids
  <2>4. QED
    BY <1>0, <1>2, <2>2, <2>3 DEF MatchToken, Row
<1>3. CASE AnswerCallback
  <2>1. frame' \in Frame
    BY <1>3, GotoTyped, IdleTyped DEF AnswerCallback, Step, Return
  <2>2. QED
    BY <1>0, <1>3, <2>1
       DEF AnswerCallback, Goto, Return, Idle, TypeOK, FrameOK, CardsOK, Frame, store, ids,
           history
<1>4. CASE Resume
  <2>1. runs + 1 \in Run /\ runs' \in 0 .. MaxRuns /\ frame.from \in Run
    <3>1. frame.pc = "resume" /\ runs < MaxRuns /\ runs' = runs + 1
      BY <1>4 DEF Resume
    <3>2. frame.from \in Run
      BY <3>1 DEF FrameOK
    <3>3. QED
      BY <3>1, <3>2, NextRunTyped
  <2>2. frame' \in Frame
    BY <1>0, <1>4, <2>1 DEF Resume, Frame, Step
  <2>3. resumes' \in [Run -> Nat] /\ redeemed' \in [Token -> Nat]
    BY <1>0, <1>4, <2>1 DEF Resume, TypeOK, Frame
  <2>4. TypeOK'
    BY <1>4, <2>1, <2>2, <2>3 DEF Resume, TypeOK, store
  <2>5. FrameOK' /\ CardsOK'
    BY <1>0, <1>4, <2>1 DEF Resume, FrameOK, CardsOK, Frame, store
  <2>6. QED
    BY <2>4, <2>5
<1>5. CASE ResumeRaises
  BY <1>5, IdleTyped
     DEF ResumeRaises, Idle, Frame, Step, TypeOK, FrameOK, CardsOK, store, ids, history
<1>6. ASSUME NEW kind \in {"paused", "terminal"}, ContinuationSettles(kind) PROVE Typed'
  <2>1. frame' \in Frame
    BY <1>6, GotoTyped DEF ContinuationSettles, Step
  <2>2. frame.from \in Run /\ frame.run \in Run
    BY <1>6 DEF ContinuationSettles, FrameOK
  <2>3. receipt[frame.from].conv \in 0 .. MaxConvs
        /\ receipt[frame.from].case \in Case \cup {NoCase}
    BY <2>2 DEF TypeOK, Receipt
  <2>4. receipt' \in [Run -> Receipt]
    BY <1>6, <2>2, <2>3, WriteReceiptTyped DEF ContinuationSettles
  <2>5. QED
    BY <1>0, <1>6, <2>1, <2>2, <2>4
       DEF ContinuationSettles, Goto, TypeOK, FrameOK, CardsOK, Frame, store, ids, history
<1>7. CASE ExpireButtons
  <2>1. frame' \in Frame
    BY <1>7, GotoTyped DEF ExpireButtons, Step
  <2>2. TypeOK'
    BY <1>7, <2>1, ExpiredTyped DEF ExpireButtons, TypeOK, ids, history
  <2>3. FrameOK' /\ CardsOK'
    BY <1>0, <1>7, ExpiredKeepsRest
       DEF ExpireButtons, Goto, FrameOK, CardsOK, Frame, TypeOK
  <2>4. QED
    BY <2>2, <2>3
<1>8. QED
  BY <1>1, <1>2, <1>3, <1>4, <1>5, <1>6, <1>7

\* /new, /case, /unbind and /status.
LEMMA CommandTyped ==
  ASSUME Typed, AbandonPaused \/ ResetSession \/ SaveCase \/ ShowStatus
  PROVE  Typed'
<1> USE GatewayAssumption DEF Typed
<1>0. frame \in Frame /\ frame.row \in Row
  BY DEF TypeOK, Frame
<1>1. CASE AbandonPaused
  <2>1. frame' \in Frame
    BY <1>1, GotoTyped DEF AbandonPaused, Step
  <2>2. TypeOK'
    BY <1>1, <2>1, ExpiredTyped DEF AbandonPaused, TypeOK, ids, history
  <2>3. FrameOK' /\ CardsOK'
    BY <1>0, <1>1, ExpiredKeepsRest
       DEF AbandonPaused, Goto, FrameOK, CardsOK, Frame, TypeOK
  <2>4. QED
    BY <2>2, <2>3
<1>2. CASE ResetSession
  <2>1. convs' \in 0 .. MaxConvs /\ convs + 1 \in 0 .. MaxConvs
    BY <1>2 DEF ResetSession, TypeOK
  <2>2. session' \in [Session -> Row] /\ closed' \subseteq Run
    BY <1>0, <1>2, <2>1, SaveTyped DEF ResetSession, SaveRow, Row
  <2>3. QED
    BY <1>2, <2>1, <2>2, IdleTyped DEF ResetSession, Return, Idle, TypeOK, FrameOK, CardsOK
<1>3. CASE SaveCase
  <2>1. session' \in [Session -> Row] /\ closed' \subseteq Run
    BY <1>0, <1>3, SaveTyped DEF SaveCase, SaveRow, Row
  <2>2. QED
    BY <1>3, <2>1, IdleTyped DEF SaveCase, Return, Idle, TypeOK, FrameOK, CardsOK, ids
<1>4. CASE ShowStatus
  <2>1. Grounded(frame.row) \in Row
    BY <1>0 DEF Grounded, Row
  <2>2. session' \in [Session -> Row] /\ closed' \subseteq Run
    <3>1. CASE UNCHANGED <<session, closed>>
      BY <3>1 DEF TypeOK
    <3>2. CASE SaveRow(Grounded(frame.row))
      BY <2>1, <3>2, SaveTyped DEF SaveRow
    <3>3. QED
      BY <1>4, <3>1, <3>2 DEF ShowStatus
  <2>3. QED
    BY <1>4, <2>2, IdleTyped DEF ShowStatus, Return, Idle, TypeOK, FrameOK, CardsOK, ids
<1>5. QED
  BY <1>1, <1>2, <1>3, <1>4

LEMMA ReconciledTyped == ASSUME Typed, NEW row \in Row PROVE Reconciled(row) \in Row
<1> DEFINE run == IF row.paused # NoRun THEN row.paused ELSE row.active
<1>1. run \in Run \cup {NoRun}
  BY DEF Row
<1>2. CASE run = NoRun
  BY <1>2 DEF Reconciled
<1>3. CASE run # NoRun
  <2>1. receipt[run].state \in {"none", "paused", "terminal"}
    BY <1>1, <1>3 DEF Typed, TypeOK, Receipt
  <2>2. QED
    BY <1>1, <1>3, <2>1 DEF Reconciled, Row
<1>4. QED
  BY <1>2, <1>3

\* Crash, restart, and the other processes.
LEMMA EnvironmentTyped == ASSUME Typed, Crash \/ Recover \/ Outside PROVE Typed'
<1> USE GatewayAssumption DEF Typed
<1>1. CASE Crash
  BY <1>1, IdleTyped
     DEF Crash, Idle, Frame, Step, TypeOK, FrameOK, CardsOK, store, ids
<1>2. CASE Recover
  <2>1. session' \in [Session -> Row]
    BY <1>2, ReconciledTyped DEF Recover, TypeOK
  <2>2. closed' \subseteq Run
    BY <1>2 DEF Recover, TypeOK, Row
  <2>3. QED
    BY <1>2, <2>1, <2>2, IdleTyped
       DEF Recover, Return, Idle, TypeOK, FrameOK, CardsOK, ids
<1>3. ASSUME NEW s \in Session, NEW u \in User, CliRead(s, u) PROVE Typed'
  <2>1. /\ Opened(s) \in Row
        /\ session' \in [Session -> Row]
        /\ owner' \in [Session -> User \cup {NoUser}]
        /\ convs' \in 0 .. MaxConvs
    BY <1>3, OpenTyped DEF CliRead
  <2>2. cli' \in CliFrame /\ cli'.session = s
    BY <1>3, <2>1 DEF CliRead, CliFrame
  <2>3. TypeOK'
    BY <1>3, <2>1, <2>2 DEF CliRead, TypeOK
  <2>4. FrameOK' /\ CardsOK'
    BY <1>3, <2>2 DEF CliRead, FrameOK, CardsOK
  <2>5. QED
    BY <2>3, <2>4
<1>4. CASE CliWrite
  <2>1. cli.row \in Row
    BY DEF TypeOK, CliFrame
  <2>2. session' \in [Session -> Row] /\ closed' \subseteq Run
    BY <1>4, <2>1, SaveTyped DEF CliWrite, Row
  <2>3. cli' \in CliFrame /\ cli'.pc = "idle"
    BY <1>4, IdleTyped DEF CliWrite, CliIdle, CliFrame
  <2>4. QED
    BY <1>4, <2>2, <2>3 DEF CliWrite, TypeOK, FrameOK, CardsOK, ids
<1>5. ASSUME NEW r \in Run, NEW kind \in {"paused", "terminal"}, ResumeOutside(r, kind)
      PROVE  Typed'
  <2>1. runs + 1 \in Run /\ runs' \in 0 .. MaxRuns
    BY <1>5, NextRunTyped DEF ResumeOutside
  <2>2. receipt[r].conv \in 0 .. MaxConvs /\ receipt[r].case \in Case \cup {NoCase}
    BY DEF TypeOK, Receipt
  <2>3. receipt' \in [Run -> Receipt]
    BY <1>5, <2>1, <2>2, WriteReceiptTyped DEF ResumeOutside
  <2>4. resumes' \in [Run -> Nat] /\ outside' \in Nat
    BY <1>5 DEF ResumeOutside, TypeOK
  <2>5. TypeOK'
    BY <1>5, <2>1, <2>3, <2>4 DEF ResumeOutside, TypeOK, store
  <2>6. FrameOK' /\ CardsOK'
    BY <1>5 DEF ResumeOutside, FrameOK, CardsOK, store
  <2>7. QED
    BY <2>5, <2>6
<1>6. QED
  BY <1>1, <1>2, <1>3, <1>4, <1>5 DEF Outside

LEMMA StepTyped == Typed /\ [Next]_vars => Typed'
<1> SUFFICES ASSUME Typed, [Next]_vars PROVE Typed'
  OBVIOUS
<1>1. CASE UNCHANGED vars
  BY <1>1 DEF vars, store, ids, history, Typed, TypeOK, FrameOK, CardsOK
<1>2. CASE Handler
  BY <1>2, StartTyped, SettleTyped, DecisionTyped, CommandTyped DEF Handler
<1>3. QED
  BY <1>1, <1>2, EventTyped, EnvironmentTyped DEF Next

\* Every row, token, receipt and handler record keeps its type, and a handler
\* step finds the run, session and token it works on (service.py:186-1178).
THEOREM TypeSafe == Spec => []TypeOK
<1>1. Typed => TypeOK
  BY DEF Typed
<1>2. QED
  BY <1>1, InitTyped, StepTyped, PTL DEF Spec

-----------------------------------------------------------------------------
(* A token is spent before the continuation it authorises starts, and never *)
(* becomes pending again.                                                   *)

TokensOK ==
  /\ \A t \in Token : redeemed[t] <= 1
  /\ \A t \in Token : redeemed[t] # 0 => token[t].state = "consumed"
  /\ \A t \in Token : t > tokens => token[t].state = "none" /\ redeemed[t] = 0
  /\ frame.pc \in {"match", "answer", "resume"} /\ frame.token # NoToken
       => token[frame.token].state = "consumed" /\ redeemed[frame.token] = 0

\* A step that neither touches a token nor moves a tap forward.
LEMMA TokensUntouched ==
  ASSUME TokensOK, token' = token, tokens' = tokens, redeemed' = redeemed,
         frame'.pc \in {"match", "answer", "resume"} =>
           (frame'.token = NoToken)
             \/ (frame.pc \in {"match", "answer", "resume"} /\ frame'.token = frame.token)
  PROVE  TokensOK'
BY DEF TokensOK

LEMMA TokensInit == Init => TokensOK
BY DEF Init, TokensOK, Idle, NoToken

LEMMA TokensEvent == ASSUME Typed, TokensOK, Event PROVE TokensOK'
<1>1. ASSUME NEW u \in User, NEW s \in Session, NEW pc, pc \notin {"match", "answer", "resume"},
             Receive(s, u, pc)
      PROVE  TokensOK'
  BY <1>1, TokensUntouched DEF Receive, Idle, history
<1>2. ASSUME NEW u \in User, NEW s \in Session, Decide(s, u) PROVE TokensOK'
  <2>1. frame'.token = NoToken
    BY <1>2 DEF Decide, Idle
  <2>2. UNCHANGED <<token, tokens, redeemed>>
    BY <1>2 DEF Decide, store, ids, history
  <2>3. QED
    BY <2>1, <2>2 DEF TokensOK
<1>3. ASSUME NEW u \in User, NEW t \in Token, Press(t, u) PROVE TokensOK'
  BY <1>3, TokensUntouched DEF Press, Idle, history
<1>4. QED
  BY <1>1, <1>2, <1>3 DEF Event, Text, New, BindCase, Status

LEMMA TokensHandler == ASSUME Typed, TokensOK, Handler PROVE TokensOK'
<1> USE GatewayAssumption
<1>0. /\ frame \in Frame /\ token \in [Token -> ApprovalBinding]
      /\ redeemed \in [Token -> Nat] /\ tokens \in 0 .. MaxTokens
  BY DEF Typed, TypeOK
<1>1. CASE StartRun \/ SendAck \/ RunRefused \/ SettleTerminal \/ SavePaused \/ SendCard
  <2>1. UNCHANGED <<token, tokens, redeemed>>
    BY <1>1 DEF StartRun, SendAck, RunRefused, SettleTerminal, SavePaused, SendCard,
                store, ids, history
  <2>2. frame'.pc \in {"idle", "ack", "running", "card"}
    <3>1. frame' = Idle \/ \E pc \in {"running", "card"} : Goto(pc)
            \/ frame'.pc = "ack"
      BY <1>0, <1>1 DEF StartRun, SendAck, RunRefused, SettleTerminal, SavePaused, SendCard,
                        Return, Frame
    <3>2. QED
      BY <1>0, <3>1 DEF Goto, Idle, Frame
  <2>3. QED
    BY <2>1, <2>2, TokensUntouched
<1>2. CASE \E kind \in {"paused", "terminal"} : RunSettles(kind) \/ ContinuationSettles(kind)
  BY <1>0, <1>2, TokensUntouched
     DEF RunSettles, ContinuationSettles, Goto, Frame, store, ids, history
<1>3. CASE MintToken
  <2>1. tokens + 1 \in Token /\ tokens + 1 > tokens
    BY <1>0, <1>3 DEF MintToken, Token
  <2>2. \A t \in Token : t # tokens + 1 => token'[t] = token[t]
    BY <1>0, <1>3, <2>1 DEF MintToken
  <2>3. redeemed' = redeemed /\ tokens' = tokens + 1 /\ frame'.pc = "pause"
    BY <1>0, <1>3 DEF MintToken, history, Frame
  <2>4. redeemed[tokens + 1] = 0
    BY <2>1 DEF TokensOK
  <2>5. \A t \in Token : t > tokens + 1 => t > tokens /\ t # tokens + 1
    BY <1>0 DEF Token
  <2>6. QED
    BY <2>2, <2>3, <2>4, <2>5 DEF TokensOK
<1>4. CASE ConsumeToken
  <2>1. frame.token \in Token
    BY <1>4 DEF Typed, FrameOK, ConsumeToken
  <2>2. CASE frame' = Idle /\ token' = token
    BY <1>4, <2>2, TokensUntouched DEF ConsumeToken, Idle, ids, history
  <2>3. ASSUME token[frame.token].state = "pending",
               \/ /\ token' = [token EXCEPT ![frame.token].state = "expired"]
                  /\ Return
               \/ /\ token' = [token EXCEPT ![frame.token].state = "consumed"]
                  /\ Goto("match")
        PROVE  TokensOK'
    <3>1. redeemed[frame.token] = 0 /\ redeemed' = redeemed /\ tokens' = tokens
      BY <1>4, <2>1, <2>3 DEF ConsumeToken, TokensOK, ids, history
    <3>2. \A t \in Token : t # frame.token => token'[t] = token[t]
      BY <1>0, <2>1, <2>3
    <3>3. ~(frame.token > tokens)
      BY <2>1, <2>3 DEF TokensOK
    <3>4. frame'.pc = "match" =>
            frame'.token = frame.token /\ token'[frame.token].state = "consumed"
      BY <1>0, <2>1, <2>3 DEF Goto, Return, Idle, Frame, ApprovalBinding
    <3>5. frame'.pc \in {"match", "idle"}
      BY <1>0, <2>3 DEF Goto, Return, Idle, Frame
    <3>6. QED
      BY <3>1, <3>2, <3>3, <3>4, <3>5 DEF TokensOK
  <2>4. QED
    <3>1. \/ frame' = Idle /\ token' = token
          \/ /\ token[frame.token].state = "pending"
             /\ token' = [token EXCEPT ![frame.token].state = "expired"]
             /\ Return
          \/ /\ token[frame.token].state = "pending"
             /\ token' = [token EXCEPT ![frame.token].state = "consumed"]
             /\ Goto("match")
      BY <1>4 DEF ConsumeToken, Return
    <3>2. QED
      BY <2>2, <2>3, <3>1
<1>5. CASE MatchToken \/ AnswerCallback \/ ResumeRaises
  <2>1. UNCHANGED <<token, tokens, redeemed>>
    BY <1>5 DEF MatchToken, AnswerCallback, ResumeRaises, store, ids, history
  <2>2. frame'.pc \in {"match", "answer", "resume"} =>
          frame'.token = frame.token /\ frame.pc \in {"match", "answer"}
    <3>1. CASE MatchToken
      <4>1. frame' = Idle \/ \E r : frame' = [frame EXCEPT !.pc = "answer", !.from = r]
        BY <3>1 DEF MatchToken, Return
      <4>2. frame.pc = "match"
        BY <3>1 DEF MatchToken
      <4>3. CASE frame' = Idle
        BY <4>3 DEF Idle
      <4>4. ASSUME NEW r, frame' = [frame EXCEPT !.pc = "answer", !.from = r]
            PROVE  frame'.token = frame.token
        BY <1>0, <4>4 DEF Frame
      <4>5. QED
        BY <4>1, <4>2, <4>3, <4>4
    <3>2. CASE AnswerCallback
      BY <1>0, <3>2 DEF AnswerCallback, Goto, Return, Idle, Frame
    <3>3. CASE ResumeRaises
      BY <3>3 DEF ResumeRaises, Idle
    <3>4. QED
      BY <1>5, <3>1, <3>2, <3>3
  <2>3. QED
    BY <2>1, <2>2, TokensUntouched
<1>6. CASE Resume
  <2>1. frame'.pc = "continuing" /\ token' = token /\ tokens' = tokens
    BY <1>0, <1>6 DEF Resume, store, Frame
  <2>2. CASE frame.token = NoToken
    BY <1>6, <2>1, <2>2 DEF Resume, TokensOK
  <2>3. CASE frame.token # NoToken
    <3>1. frame.token \in Token
      BY <1>0, <2>3 DEF Frame
    <3>2. token[frame.token].state = "consumed" /\ redeemed[frame.token] = 0
      BY <1>6, <2>3 DEF Resume, TokensOK
    <3>3. redeemed' = [redeemed EXCEPT ![frame.token] = 1]
      BY <1>0, <1>6, <2>3, <3>1, <3>2 DEF Resume
    <3>4. ~(frame.token > tokens)
      BY <3>1, <3>2 DEF TokensOK
    <3>5. QED
      BY <1>0, <2>1, <3>1, <3>2, <3>3, <3>4 DEF TokensOK
  <2>4. QED
    BY <2>2, <2>3
<1>7. CASE ExpireButtons \/ AbandonPaused
  <2>1. \E r : token' = Expired(r)
    BY <1>7 DEF ExpireButtons, AbandonPaused
  <2>2. \A t \in Token : /\ token[t].state = "consumed" => token'[t].state = "consumed"
                         /\ token[t].state = "none" => token'[t].state = "none"
    BY <2>1, ExpiredKeepsRest
  <2>3. frame'.pc \in {"settle", "reset"} /\ UNCHANGED <<redeemed, tokens>>
    BY <1>0, <1>7 DEF ExpireButtons, AbandonPaused, Goto, Frame, ids, history
  <2>4. QED
    BY <2>2, <2>3 DEF TokensOK
<1>8. CASE ResetSession \/ SaveCase \/ ShowStatus
  BY <1>8, TokensUntouched DEF ResetSession, SaveCase, ShowStatus, Return, Idle, ids
<1>9. QED
  BY <1>1, <1>2, <1>3, <1>4, <1>5, <1>6, <1>7, <1>8 DEF Handler

LEMMA TokensEnvironment ==
  ASSUME TokensOK, Crash \/ Recover \/ Outside PROVE TokensOK'
BY TokensUntouched
   DEF Crash, Recover, Outside, CliRead, CliWrite, ResumeOutside, Return, Idle, store, ids

\* One tap, one continuation: whatever the interleaving of taps, decisions,
\* crashes and other processes, a token authorises at most one (store.py:325-376).
THEOREM TokenRedeemedAtMostOnce == Spec => []TokenRedeemedOnce
<1>1. Init => Typed /\ TokensOK
  BY InitTyped, TokensInit
<1>2. Typed /\ TokensOK /\ [Next]_vars => (Typed /\ TokensOK)'
  <2> SUFFICES ASSUME Typed, TokensOK, [Next]_vars PROVE Typed' /\ TokensOK'
    OBVIOUS
  <2>1. CASE UNCHANGED vars
    BY <2>1, StepTyped, TokensUntouched DEF vars, store, ids, history
  <2>2. QED
    BY <2>1, StepTyped, TokensEvent, TokensHandler, TokensEnvironment DEF Next
<1>3. Typed /\ TokensOK => TokenRedeemedOnce
  BY DEF TokensOK, TokenRedeemedOnce
<1>4. QED
  BY <1>1, <1>2, <1>3, PTL DEF Spec
-----------------------------------------------------------------------------
(* Receipts: one is written once, and a continuation keeps the identity of *)
(* its pause.  The gateway, the CLI and the web console all write          *)
(* receipts; what makes it work is that each works on a run id that has    *)
(* none yet, and continues a receipt that says paused and never changes.   *)


Working == {"ack", "running", "continuing"}

\* Run ids are handed out in order, and a run at work has no receipt.
UnwrittenOK ==
  /\ \A r \in Run : r > runs => receipt[r].state = "none"
  /\ frame.pc \in Working => frame.run <= runs /\ receipt[frame.run].state = "none"

\* What a continuation continues is paused, and stays so.
ContinuedOK ==
  /\ frame.pc = "continuing" => receipt[frame.from].state = "paused"
  /\ \A r \in Run : LET p == receipt[r].from IN
       receipt[r].state # "none" /\ p # NoRun =>
         /\ receipt[p].state = "paused"
         /\ receipt[r].conv = receipt[p].conv /\ receipt[r].case = receipt[p].case

ReceiptsOK == UnwrittenOK /\ ContinuedOK

LEMMA ReceiptsInit == Init => ReceiptsOK
BY DEF Init, ReceiptsOK, UnwrittenOK, ContinuedOK, Idle, Working

\* A step that writes no receipt and starts no run.
LEMMA ReceiptsUntouched ==
  ASSUME ReceiptsOK, UNCHANGED <<receipt, runs>>,
         frame'.pc \in Working =>
           /\ frame.pc \in Working /\ (frame'.pc = "continuing" => frame.pc = "continuing")
           /\ frame'.run = frame.run /\ frame'.from = frame.from
  PROVE  ReceiptsOK'
BY DEF ReceiptsOK, UnwrittenOK, ContinuedOK, Working

\* A receipt written for a run that has none, fresh or of a paused one.
LEMMA WriteOK ==
  ASSUME TypeOK, ReceiptsOK, NEW r \in Run, receipt[r].state = "none",
         NEW kind \in {"paused", "terminal"}, NEW from \in Run \cup {NoRun},
         NEW conv, NEW case, WriteReceipt(r, kind, from, conv, case),
         from # NoRun => /\ receipt[from].state = "paused"
                         /\ conv = receipt[from].conv /\ case = receipt[from].case
  PROVE  /\ \A q \in Run : q # r => receipt'[q] = receipt[q]
         /\ \A q \in Run : LET p == receipt'[q].from IN
              receipt'[q].state # "none" /\ p # NoRun =>
                /\ receipt'[p].state = "paused"
                /\ receipt'[q].conv = receipt'[p].conv
                /\ receipt'[q].case = receipt'[p].case
<1>1. receipt'[r] = [state |-> kind, conv |-> conv, case |-> case, from |-> from]
  BY DEF WriteReceipt, TypeOK
<1>2. \A q \in Run : q # r => receipt'[q] = receipt[q]
  BY DEF WriteReceipt, TypeOK
<1>3. ASSUME NEW q \in Run, receipt'[q].state # "none", receipt'[q].from # NoRun
      PROVE  LET p == receipt'[q].from IN
             /\ receipt'[p].state = "paused"
             /\ receipt'[q].conv = receipt'[p].conv /\ receipt'[q].case = receipt'[p].case
  <2>1. CASE q = r
    <3>1. from \in Run /\ from # r
      BY <1>1, <1>3, <2>1
    <3>2. QED
      BY <1>1, <1>2, <1>3, <2>1, <3>1
  <2>2. CASE q # r
    <3>1. receipt[q].from \in Run /\ receipt[receipt[q].from].state = "paused"
      BY <1>2, <1>3, <2>2 DEF TypeOK, Receipt, ReceiptsOK, ContinuedOK
    <3>2. QED
      BY <1>2, <1>3, <2>2, <3>1 DEF ReceiptsOK, ContinuedOK
  <2>3. QED
    BY <2>1, <2>2
<1>4. QED
  BY <1>2, <1>3

LEMMA ReceiptsEvent == ASSUME ReceiptsOK, Event PROVE ReceiptsOK'
<1>1. ASSUME NEW u \in User, NEW s \in Session,
             Text(s, u) \/ New(s, u) \/ BindCase(s, u) \/ Status(s, u)
      PROVE  ReceiptsOK'
  <2>1. \E pc \in {"idle", "start", "abandon", "reset", "bind", "status"} : Receive(s, u, pc)
    BY <1>1 DEF Text, New, BindCase, Status
  <2>2. UNCHANGED <<receipt, runs>> /\ frame'.pc \notin Working
    BY <2>1 DEF Receive, Idle, Working
  <2>3. QED
    BY <2>2, ReceiptsUntouched
<1>2. ASSUME NEW u \in User, NEW s \in Session, Decide(s, u) PROVE ReceiptsOK'
  <2>1. UNCHANGED <<receipt, runs>> /\ frame'.pc \notin Working
    BY <1>2 DEF Decide, Idle, Working, ids
  <2>2. QED
    BY <2>1, ReceiptsUntouched
<1>3. ASSUME NEW u \in User, NEW t \in Token, Press(t, u) PROVE ReceiptsOK'
  <2>1. UNCHANGED <<receipt, runs>> /\ frame'.pc \notin Working
    BY <1>3 DEF Press, Idle, Working
  <2>2. QED
    BY <2>1, ReceiptsUntouched
<1>4. QED
  BY <1>1, <1>2, <1>3 DEF Event

\* The steps that start a run or write its receipt, one by one.
LEMMA ReceiptsStart == ASSUME Typed, ReceiptsOK, StartRun \/ Resume PROVE ReceiptsOK'
<1>0. frame \in Frame /\ runs \in 0 .. MaxRuns
  BY DEF Typed, TypeOK
<1>1. CASE StartRun
  <2>1. CASE UNCHANGED <<receipt, runs>> /\ frame' = Idle
    BY <2>1, ReceiptsUntouched DEF Idle, Working
  <2>2. CASE runs < MaxRuns /\ runs' = runs + 1 /\ frame'.pc = "ack" /\ frame'.run = runs + 1
    <3>1. receipt' = receipt
      BY <1>1 DEF StartRun
    <3>2. runs + 1 \in Run
      BY <1>0, <2>2, GatewayAssumption DEF Run
    <3>3. QED
      BY <1>0, <2>2, <3>1, <3>2 DEF ReceiptsOK, UnwrittenOK, ContinuedOK, Run
  <2>3. QED
    BY <1>0, <1>1, <2>1, <2>2 DEF StartRun, Return, Frame
<1>2. CASE Resume
  <2>1. /\ receipt' = receipt /\ runs < MaxRuns /\ runs' = runs + 1
        /\ frame' = [frame EXCEPT !.pc = "continuing", !.run = runs + 1]
        /\ receipt[frame.from].state = "paused"
    BY <1>2 DEF Resume
  <2>2. /\ frame'.pc = "continuing" /\ frame'.run = runs + 1 /\ frame'.from = frame.from
    BY <1>0, <2>1 DEF Frame
  <2>3. runs + 1 \in Run
    BY <1>0, <2>1, GatewayAssumption DEF Run
  <2>4. QED
    BY <1>0, <2>1, <2>2, <2>3 DEF ReceiptsOK, UnwrittenOK, ContinuedOK, Run
<1>3. QED
  BY <1>1, <1>2

LEMMA ReceiptsSettle ==
  ASSUME Typed, ReceiptsOK, NEW kind \in {"paused", "terminal"},
         RunSettles(kind) \/ ContinuationSettles(kind)
  PROVE  ReceiptsOK' /\ \A r \in Run : receipt[r].state # "none" => receipt'[r] = receipt[r]
<1>0. TypeOK /\ frame \in Frame /\ frame.run \in Run
  BY DEF Typed, TypeOK, FrameOK, RunSettles, ContinuationSettles
<1>1. receipt[frame.run].state = "none" /\ frame.run <= runs
  BY DEF RunSettles, ContinuationSettles, ReceiptsOK, UnwrittenOK, Working
<1>2. runs' = runs /\ frame'.pc \notin Working
  BY <1>0 DEF RunSettles, ContinuationSettles, Goto, Frame, Working, ids
<1>3. \E from, conv, case :
        /\ from \in Run \cup {NoRun}
        /\ WriteReceipt(frame.run, kind, from, conv, case)
        /\ from # NoRun => /\ receipt[from].state = "paused"
                           /\ conv = receipt[from].conv /\ case = receipt[from].case
  <2>1. CASE RunSettles(kind)
    BY <2>1 DEF RunSettles
  <2>2. CASE ContinuationSettles(kind)
    <3>1. frame.from \in Run /\ receipt[frame.from].state = "paused"
      BY <2>2 DEF ContinuationSettles, Typed, FrameOK, ReceiptsOK, ContinuedOK
    <3>2. QED
      BY <2>2, <3>1 DEF ContinuationSettles
  <2>3. QED
    BY <2>1, <2>2
<1>4. PICK from, conv, case :
        /\ from \in Run \cup {NoRun}
        /\ WriteReceipt(frame.run, kind, from, conv, case)
        /\ from # NoRun => /\ receipt[from].state = "paused"
                           /\ conv = receipt[from].conv /\ case = receipt[from].case
  BY <1>3
<1>5. /\ \A q \in Run : q # frame.run => receipt'[q] = receipt[q]
      /\ \A q \in Run : LET p == receipt'[q].from IN
           receipt'[q].state # "none" /\ p # NoRun =>
             /\ receipt'[p].state = "paused"
             /\ receipt'[q].conv = receipt'[p].conv /\ receipt'[q].case = receipt'[p].case
  BY <1>0, <1>1, <1>4, WriteOK
<1>6. ReceiptsOK'
  BY <1>0, <1>1, <1>2, <1>5 DEF ReceiptsOK, UnwrittenOK, ContinuedOK, Run, TypeOK, Working
<1>7. QED
  BY <1>1, <1>5, <1>6

LEMMA ReceiptsOutside ==
  ASSUME Typed, ReceiptsOK, NEW s \in Run, NEW kind \in {"paused", "terminal"},
         ResumeOutside(s, kind)
  PROVE  ReceiptsOK' /\ \A r \in Run : receipt[r].state # "none" => receipt'[r] = receipt[r]
<1>0. TypeOK /\ runs \in 0 .. MaxRuns /\ runs < MaxRuns /\ runs' = runs + 1 /\ frame' = frame
  BY DEF Typed, TypeOK, ResumeOutside
<1>1. runs + 1 \in Run /\ receipt[runs + 1].state = "none"
  BY <1>0, GatewayAssumption DEF Run, ReceiptsOK, UnwrittenOK
<1>2. WriteReceipt(runs + 1, kind, s, receipt[s].conv, receipt[s].case)
        /\ receipt[s].state = "paused"
  BY DEF ResumeOutside
<1>3. /\ \A q \in Run : q # runs + 1 => receipt'[q] = receipt[q]
      /\ \A q \in Run : LET p == receipt'[q].from IN
           receipt'[q].state # "none" /\ p # NoRun =>
             /\ receipt'[p].state = "paused"
             /\ receipt'[q].conv = receipt'[p].conv /\ receipt'[q].case = receipt'[p].case
  BY <1>0, <1>1, <1>2, WriteOK
<1>4. frame.pc \in Working => frame.run \in Run /\ frame.run # runs + 1
  BY <1>0 DEF Typed, FrameOK, Working, ReceiptsOK, UnwrittenOK, Run
<1>5. frame.pc = "continuing" => frame.from \in Run /\ frame.from # runs + 1
  BY <1>0, <1>1 DEF Typed, FrameOK, ReceiptsOK, ContinuedOK
<1>6. ReceiptsOK'
  BY <1>0, <1>3, <1>4, <1>5 DEF ReceiptsOK, UnwrittenOK, ContinuedOK, Run
<1>7. QED
  BY <1>1, <1>3, <1>6

\* Every other step of a handler writes no receipt and starts no work of its own.
LEMMA ReceiptsHandler ==
  ASSUME Typed, ReceiptsOK, Handler
  PROVE  ReceiptsOK' /\ \A r \in Run : receipt[r].state # "none" => receipt'[r] = receipt[r]
<1>0. frame \in Frame
  BY DEF Typed, TypeOK
<1>1. CASE StartRun \/ Resume
  <2>1. receipt' = receipt
    BY <1>1 DEF StartRun, Resume
  <2>2. QED
    BY <1>1, <2>1, ReceiptsStart
<1>2. CASE \E kind \in {"paused", "terminal"} : RunSettles(kind) \/ ContinuationSettles(kind)
  BY <1>2, ReceiptsSettle
<1>3. CASE SendAck
  <2>1. UNCHANGED <<receipt, runs>>
    BY <1>3 DEF SendAck, ids
  <2>2. frame'.pc = "idle"
          \/ /\ frame.pc = "ack" /\ frame'.pc = "running"
             /\ frame'.run = frame.run /\ frame'.from = frame.from
    BY <1>0, <1>3 DEF SendAck, Goto, Return, Idle, Frame
  <2>3. QED
    BY <2>1, <2>2, ReceiptsUntouched DEF Working
<1>4. CASE \/ RunRefused \/ SettleTerminal \/ MintToken \/ SavePaused \/ SendCard
           \/ ConsumeToken \/ MatchToken \/ AnswerCallback \/ ResumeRaises
           \/ ExpireButtons \/ AbandonPaused \/ ResetSession \/ SaveCase \/ ShowStatus
  <2>1. UNCHANGED <<receipt, runs>>
    BY <1>4 DEF RunRefused, SettleTerminal, MintToken, SavePaused, SendCard, ConsumeToken,
                MatchToken, AnswerCallback, ResumeRaises, ExpireButtons, AbandonPaused,
                ResetSession, SaveCase, ShowStatus, ids
  <2>2. \/ frame' = Idle \/ frame' = [Idle EXCEPT !.pc = "down"]
        \/ \E pc \in {"card", "match", "resume", "settle", "reset"} : Goto(pc)
        \/ frame' = [frame EXCEPT !.pc = "pause", !.token = tokens + 1]
        \/ frame' = [frame EXCEPT !.pc = "answer", !.from = token[frame.token].run]
    <3>1. CASE RunRefused \/ SettleTerminal \/ SendCard \/ ResumeRaises \/ ResetSession
                 \/ SaveCase \/ ShowStatus
      BY <3>1 DEF RunRefused, SettleTerminal, SendCard, ResumeRaises, ResetSession,
                  SaveCase, ShowStatus, Return
    <3>2. CASE SavePaused \/ ConsumeToken \/ AnswerCallback \/ ExpireButtons \/ AbandonPaused
      BY <3>2 DEF SavePaused, ConsumeToken, AnswerCallback, ExpireButtons, AbandonPaused, Return
    <3>3. CASE MintToken
      BY <3>3 DEF MintToken
    <3>4. CASE MatchToken
      BY <3>4 DEF MatchToken, Return
    <3>5. QED
      BY <1>4, <3>1, <3>2, <3>3, <3>4
  <2>3. frame'.pc \notin Working
    <3>1. CASE frame' = Idle \/ frame' = [Idle EXCEPT !.pc = "down"]
      BY <3>1 DEF Idle, Working
    <3>2. CASE \E pc \in {"card", "match", "resume", "settle", "reset"} : Goto(pc)
      BY <1>0, <3>2 DEF Goto, Frame, Working
    <3>3. CASE frame' = [frame EXCEPT !.pc = "pause", !.token = tokens + 1]
      BY <1>0, <3>3 DEF Frame, Working
    <3>4. CASE frame' = [frame EXCEPT !.pc = "answer", !.from = token[frame.token].run]
      BY <1>0, <3>4 DEF Frame, Working
    <3>5. QED
      BY <2>2, <3>1, <3>2, <3>3, <3>4
  <2>4. QED
    BY <2>1, <2>3, ReceiptsUntouched
<1>5. QED
  BY <1>1, <1>2, <1>3, <1>4 DEF Handler

LEMMA ReceiptsEnvironment ==
  ASSUME Typed, ReceiptsOK, Crash \/ Recover \/ Outside
  PROVE  ReceiptsOK' /\ \A r \in Run : receipt[r].state # "none" => receipt'[r] = receipt[r]
<1>1. CASE Crash \/ Recover
  <2>1. UNCHANGED <<receipt, runs>> /\ frame'.pc \notin Working
    BY <1>1 DEF Crash, Recover, Return, Idle, Working, ids
  <2>2. QED
    BY <2>1, ReceiptsUntouched
<1>2. CASE CliWrite \/ \E s \in Session, u \in User : CliRead(s, u)
  <2>1. UNCHANGED <<receipt, runs, frame>>
    BY <1>2 DEF CliWrite, CliRead, ids
  <2>2. QED
    BY <2>1, ReceiptsUntouched
<1>3. ASSUME NEW r \in Run, NEW kind \in {"paused", "terminal"}, ResumeOutside(r, kind)
      PROVE  ReceiptsOK' /\ \A q \in Run : receipt[q].state # "none" => receipt'[q] = receipt[q]
  BY <1>3, ReceiptsOutside
<1>4. QED
  BY <1>1, <1>2, <1>3 DEF Outside

LEMMA ReceiptsStep ==
  Typed /\ ReceiptsOK /\ [Next]_vars =>
    /\ ReceiptsOK'
    /\ \A r \in Run : receipt[r].state # "none" => receipt'[r] = receipt[r]
<1> SUFFICES ASSUME Typed, ReceiptsOK, [Next]_vars
             PROVE  /\ ReceiptsOK'
                    /\ \A r \in Run : receipt[r].state # "none" => receipt'[r] = receipt[r]
  OBVIOUS
<1>1. CASE UNCHANGED vars
  BY <1>1, ReceiptsUntouched DEF vars, ids
<1>2. CASE Event
  <2>1. receipt' = receipt
    BY <1>2 DEF Event, Text, New, BindCase, Status, Decide, Press, Receive
  <2>2. QED
    BY <1>2, <2>1, ReceiptsEvent
<1>3. QED
  BY <1>1, <1>2, ReceiptsHandler, ReceiptsEnvironment DEF Next

\* Whoever resumes a pause, and whatever /case, /new or `bind-case` changed in
\* between, the continuation keeps the conversation and the case frozen in the
\* pause receipt (continuation.py:46-142, runtime.py execute_run).
THEOREM ContinuationKeepsItsIdentity == Spec => []ContinuationKeepsIdentity
<1>1. Init => Typed /\ ReceiptsOK
  BY InitTyped, ReceiptsInit
<1>2. Typed /\ ReceiptsOK /\ [Next]_vars => (Typed /\ ReceiptsOK)'
  BY StepTyped, ReceiptsStep
<1>3. ReceiptsOK => ContinuationKeepsIdentity
  BY DEF ReceiptsOK, ContinuedOK, ContinuationKeepsIdentity
<1>4. QED
  BY <1>1, <1>2, <1>3, PTL DEF Spec

\* A receipt, once written, is evidence: no later step of any process changes
\* it, because every run works under an id that has none (receipt_store.py).
THEOREM ReceiptNeverRewritten ==
  Spec => [][\A r \in Run : receipt[r].state # "none" => receipt'[r] = receipt[r]]_vars
<1>1. Init => Typed /\ ReceiptsOK
  BY InitTyped, ReceiptsInit
<1>2. Typed /\ ReceiptsOK /\ [Next]_vars => (Typed /\ ReceiptsOK)'
  BY StepTyped, ReceiptsStep
<1>3. Typed /\ ReceiptsOK /\ [Next]_vars =>
        [\A r \in Run : receipt[r].state # "none" => receipt'[r] = receipt[r]]_vars
  BY ReceiptsStep
<1>4. QED
  BY <1>1, <1>2, <1>3, PTL DEF Spec
-----------------------------------------------------------------------------
(* What the routing rows promise, as long as no `gateway bind-case` process *)
(* writes beside the dispatcher: a row that waits is grounded in a receipt, *)
(* a button that is alive decides a run somebody waits on, a pause is       *)
(* resumed again only after a crash, and the rows implement the session     *)
(* lifecycle.                                                               *)

\* Steps with a run id of their own, from its minting to the row that shows it.
Busy == {"ack", "running", "continuing", "expire", "settle", "pause"}

\* Steps after a decision, and their run's copy of it.
Decided == {"continuing", "expire", "settle", "pause"}

\* The copy a handler works on is the row as it is.
CopyOK ==
  /\ frame.pc \notin {"idle", "down", "card"} => frame.row = session[frame.session]
  /\ frame.pc \in {"start", "ack", "running", "bind"} => frame.from = NoRun
  /\ frame.pc \in {"start", "bind", "answer", "resume"} \cup Busy => frame.row.paused = frame.from

\* A wait that is over was on a paused run, and is over for good.
ClosedOK ==
  /\ \A r \in closed : receipt[r].state = "paused"
  /\ \A s \in Session : session[s].paused \notin closed

\* The run at work is nobody's pause, and its receipt is of the row's identity.
WorkOK ==
  /\ frame.pc \in Busy =>
       /\ frame.run \notin closed
       /\ \A s \in Session : session[s].paused # frame.run
       /\ \A s \in Session : session[s].active = frame.run => s = frame.session
       /\ frame.from = NoRun => frame.row.active = frame.run
  /\ frame.pc \in {"expire", "settle", "pause"} =>
       /\ receipt[frame.run].state # "none"
       /\ receipt[frame.run].conv = frame.row.conv
       /\ receipt[frame.run].case = frame.row.case
  /\ frame.pc = "pause" => receipt[frame.run].state = "paused"

\* The row's receipt is written while its run is still recorded as active.
Unsettled(s) == session[s].active # NoRun /\ receipt[session[s].active].state # "none"

\* An active run is of one row, was never paused, and has a receipt only between
\* its end and the commit of the row, or when the process died in between.
ActiveOK ==
  \A s \in Session : LET a == session[s].active IN a # NoRun =>
    /\ a <= runs /\ a \notin closed
    /\ \A q \in Session : session[q].paused # a
    /\ \A q \in Session : session[q].active = a => q = s
    /\ Unsettled(s) =>
         /\ receipt[a].conv = session[s].conv /\ receipt[a].case = session[s].case
         /\ (frame.pc \in {"settle", "pause"} /\ frame.session = s) \/ frame.pc = "down"
         /\ \A q \in Session : Unsettled(q) => q = s

\* A row nobody opened is empty, and handlers work on opened rows.
OwnedOK ==
  /\ \A s \in Session : owner[s] = NoUser => session[s] = EmptyRow
  /\ frame.pc \notin {"idle", "down"} => owner[frame.session] # NoUser

Alive(t) == token[t].state = "pending"

\* One token per paused run, and none that is alive survives the decision.
ButtonsOK ==
  /\ \A t \in Token : token[t].state # "none" =>
       token[t].run \in Run /\ receipt[token[t].run].state = "paused"
  /\ \A t, u \in Token :
       token[t].state # "none" /\ token[u].state # "none" /\ token[t].run = token[u].run => t = u
  /\ frame.pc \in Busy \ {"pause"} => \A t \in Token : token[t].state # "none" => token[t].run # frame.run
  /\ frame.pc \in {"answer", "resume", "continuing"} /\ frame.token # NoToken =>
       token[frame.token].state = "consumed" /\ token[frame.token].run = frame.from
  /\ frame.pc \in {"settle", "pause"} /\ frame.from # NoRun =>
       \A t \in Token : Alive(t) => token[t].run # frame.from
  /\ frame.pc = "reset" => \A t \in Token : Alive(t) => token[t].run # frame.row.paused
  /\ frame.pc \in {"pause", "card"} =>
       /\ token[frame.token].state # "none"
       /\ token[frame.token].run = frame.run /\ token[frame.token].channel = frame.session[1]
  /\ frame.pc = "pause" => frame.token \notin shown
  /\ frame.pc = "card" => session[frame.session].paused = frame.run
  /\ \A t \in shown : token[t].state # "none"
  /\ \A t \in shown : Alive(t) =>
       \E s \in Session : s[1] = token[t].channel /\ session[s].paused = token[t].run

\* What was never waited on was resumed from outside only; what is waited on was
\* resumed as often as a crash cut the continuation short.
ResumesOK ==
  /\ \A r \in Run : (r \notin closed /\ \A s \in Session : session[s].paused # r) => resumes[r] <= outside
  /\ \A s \in Session : LET r == session[s].paused IN
       r # NoRun /\ ~(frame.pc \in Decided /\ frame.from = r) => resumes[r] <= crashes + outside
  /\ \A r \in Run : resumes[r] <= 1 + crashes + outside

SInv == /\ cli.pc = "idle"
        /\ PausedIsGrounded /\ HistoryStaysInConversation
        /\ CopyOK /\ ClosedOK /\ WorkOK /\ ActiveOK /\ OwnedOK /\ ButtonsOK /\ ResumesOK

LEMMA SessionInit == Init => SInv
<1> SUFFICES ASSUME Init PROVE SInv
  OBVIOUS
<1> USE DEF Init, EmptyRow, NoRun
<1>1. PausedIsGrounded /\ HistoryStaysInConversation
  BY DEF PausedIsGrounded, HistoryStaysInConversation
<1>2. CopyOK /\ ClosedOK /\ WorkOK /\ OwnedOK
  BY DEF CopyOK, ClosedOK, WorkOK, OwnedOK, Idle, Busy, Run
<1>3. ActiveOK /\ ButtonsOK
  BY DEF ActiveOK, ButtonsOK, Idle, Busy
<1>4. ResumesOK
  BY DEF ResumesOK
<1>5. QED
  BY <1>1, <1>2, <1>3, <1>4 DEF SInv, CliIdle

\* What a step may do to the tokens without reviving a button.
Dims ==
  \A t \in Token : /\ token'[t].run = token[t].run /\ token'[t].channel = token[t].channel
                   /\ token'[t].state = "none" <=> token[t].state = "none"
                   /\ token'[t].state = "pending" => token[t].state = "pending"

\* The handler is over, or the process: no row was written on the way.
LEMMA Leave ==
  ASSUME Typed, Typed', SInv, Dims,
         UNCHANGED <<session, owner, receipt, closed, runs, cli, resumes, outside>>,
         frame'.pc \in {"idle", "down"},
         crashes' \in {crashes, crashes + 1},
         frame.pc \in Decided => crashes' = crashes + 1,
         frame.pc \in {"settle", "pause"} => frame'.pc = "down",
         frame.pc = "down" => frame'.pc = "down",
         \A t \in shown' : t \in shown \/ (frame.pc = "card" /\ t = frame.token)
  PROVE  SInv'
<1>0. /\ session \in [Session -> Row] /\ crashes \in Nat /\ outside \in Nat
      /\ resumes \in [Run -> Nat] /\ shown \subseteq Token
      /\ frame.pc = "card" => frame.token \in Token /\ frame.session \in Session
  BY DEF Typed, TypeOK, FrameOK
<1> USE DEF SInv
<1>1. cli'.pc = "idle" /\ PausedIsGrounded' /\ HistoryStaysInConversation'
  BY DEF PausedIsGrounded, HistoryStaysInConversation
<1>2. CopyOK' /\ ClosedOK' /\ WorkOK' /\ OwnedOK'
  BY DEF CopyOK, ClosedOK, WorkOK, OwnedOK, Busy
<1>3. ActiveOK'
  BY DEF ActiveOK, Unsettled
<1>4. ButtonsOK'
  <2>1. \A t \in shown' : t \in Token /\ token'[t].state # "none"
    BY <1>0 DEF ButtonsOK, Dims
  <2>2. ASSUME NEW t \in shown', Alive(t)'
        PROVE  \E s \in Session : s[1] = token'[t].channel /\ session'[s].paused = token'[t].run
    BY <1>0, <2>1, <2>2 DEF ButtonsOK, Dims, Alive
  <2>3. QED
    BY <2>1, <2>2 DEF ButtonsOK, Dims, Busy
<1>5. ResumesOK'
  <2>1. \A s \in Session : session[s].paused \in Run \cup {NoRun}
    BY <1>0 DEF Row
  <2>2. ASSUME NEW s \in Session, session[s].paused # NoRun
        PROVE  resumes[session[s].paused] <= crashes' + outside
    <3>1. resumes[session[s].paused] \in Nat
      BY <1>0, <2>1, <2>2
    <3>2. CASE frame.pc \in Decided
      BY <1>0, <2>1, <2>2, <3>1, <3>2 DEF ResumesOK
    <3>3. CASE frame.pc \notin Decided
      BY <1>0, <2>2, <3>1, <3>3 DEF ResumesOK
    <3>4. QED
      BY <3>2, <3>3
  <2>3. \A r \in Run : resumes[r] <= 1 + crashes' + outside
    BY <1>0 DEF ResumesOK
  <2>4. QED
    BY <2>2, <2>3 DEF ResumesOK
<1>6. QED
  BY <1>1, <1>2, <1>3, <1>4, <1>5

\* A handler goes on, and no row, receipt or run id changes.
LEMMA Stay ==
  ASSUME Typed, SInv,
         UNCHANGED <<session, owner, receipt, closed, runs, cli, resumes, crashes, outside>>,
         frame.pc \notin {"idle", "down"}, frame'.session = frame.session,
         frame.pc \in {"settle", "pause"} => frame'.pc \in {"settle", "pause"},
         frame.pc \in Decided => frame'.pc \in Decided /\ frame'.from = frame.from
  PROVE  /\ cli'.pc = "idle" /\ PausedIsGrounded' /\ HistoryStaysInConversation'
         /\ ClosedOK' /\ ActiveOK' /\ OwnedOK' /\ ResumesOK'
<1> USE DEF SInv
<1>1. cli'.pc = "idle" /\ PausedIsGrounded' /\ HistoryStaysInConversation'
  BY DEF PausedIsGrounded, HistoryStaysInConversation
<1>2. ClosedOK' /\ OwnedOK'
  BY DEF ClosedOK, OwnedOK
<1>3. ActiveOK'
  BY DEF ActiveOK, Unsettled
<1>4. ResumesOK'
  BY DEF ResumesOK
<1>5. QED
  BY <1>1, <1>2, <1>3, <1>4

LEMMA WorkTypes ==
  ASSUME Typed
  PROVE  /\ frame \in Frame /\ frame.row \in Row /\ session \in [Session -> Row]
         /\ token \in [Token -> ApprovalBinding] /\ receipt \in [Run -> Receipt]
         /\ frame.pc \notin {"idle", "down"} => frame.session \in Session
         /\ frame.pc \in Busy \cup {"card"} => frame.run \in Run
         /\ shown \subseteq Token
BY DEF Typed, TypeOK, FrameOK, Frame, Busy

\* The acknowledgment, the answer to a tap, and the match in between.
LEMMA GoOnKeeps ==
  ASSUME Typed, Typed', SInv, TokensOK',
         \/ SendAck /\ frame'.pc = "running"
         \/ AnswerCallback /\ frame'.pc = "resume"
         \/ ConsumeToken /\ frame'.pc = "match"
         \/ MatchToken /\ frame'.pc = "answer"
  PROVE  SInv'
<1>0. /\ frame \in Frame /\ frame.row \in Row /\ session \in [Session -> Row]
      /\ token \in [Token -> ApprovalBinding] /\ frame.session \in Session
      /\ shown \subseteq Token
  BY WorkTypes DEF SendAck, AnswerCallback, ConsumeToken, MatchToken
<1>1. CASE SendAck /\ frame'.pc = "running"
  <2>1. /\ frame' = [frame EXCEPT !.pc = "running"] /\ frame.pc = "ack"
        /\ UNCHANGED <<session, owner, token, receipt, closed, runs, cli, resumes, crashes, outside, shown>>
    BY <1>1 DEF SendAck, Goto, Return, Idle, store, ids, history
  <2>2. CopyOK' /\ WorkOK'
    BY <1>0, <2>1 DEF SInv, CopyOK, WorkOK, Busy, Frame
  <2>3. ButtonsOK'
    BY <1>0, <2>1 DEF SInv, ButtonsOK, Busy, Frame, Alive
  <2>4. QED
    BY <1>0, <2>1, <2>2, <2>3, Stay DEF SInv, Frame, Decided
<1>2. CASE AnswerCallback /\ frame'.pc = "resume"
  <2>1. /\ frame' = [frame EXCEPT !.pc = "resume"] /\ frame.pc = "answer"
        /\ UNCHANGED <<session, owner, token, receipt, closed, runs, cli, resumes, crashes, outside, shown>>
    BY <1>2 DEF AnswerCallback, Goto, Return, Idle, store, ids, history
  <2>2. CopyOK' /\ WorkOK'
    BY <1>0, <2>1 DEF SInv, CopyOK, WorkOK, Busy, Frame
  <2>3. ButtonsOK'
    BY <1>0, <2>1 DEF SInv, ButtonsOK, Busy, Frame, Alive
  <2>4. QED
    BY <1>0, <2>1, <2>2, <2>3, Stay DEF SInv, Frame, Decided
<1>3. CASE ConsumeToken /\ frame'.pc = "match"
  <2>1. /\ frame' = [frame EXCEPT !.pc = "match"] /\ frame.pc = "callback"
        /\ token[frame.token].state = "pending"
        /\ token' = [token EXCEPT ![frame.token].state = "consumed"]
        /\ UNCHANGED <<session, owner, receipt, closed, runs, cli, resumes, crashes, outside, shown>>
    BY <1>3 DEF ConsumeToken, Goto, Return, Idle, ids, history
  <2>2. frame.token \in Token
    BY <2>1 DEF Typed, FrameOK
  <2>3. Dims
    BY <1>0, <2>1, <2>2 DEF Dims, ApprovalBinding
  <2>4. CopyOK' /\ WorkOK'
    BY <1>0, <2>1 DEF SInv, CopyOK, WorkOK, Busy, Frame
  <2>5. ButtonsOK'
    BY <1>0, <2>1, <2>3 DEF SInv, ButtonsOK, Busy, Frame, Alive, Dims
  <2>6. QED
    BY <1>0, <2>1, <2>4, <2>5, Stay DEF SInv, Frame, Decided
<1>4. CASE MatchToken /\ frame'.pc = "answer"
  <2> DEFINE run == token[frame.token].run
  <2>1. /\ frame' = [frame EXCEPT !.pc = "answer", !.from = run] /\ frame.pc = "match"
        /\ frame.row.paused # NoRun /\ frame.row.paused = run
        /\ UNCHANGED <<session, owner, token, receipt, closed, runs, cli, resumes, crashes, outside, shown>>
    BY <1>4 DEF MatchToken, Return, Idle, ids
  <2>2. frame'.token = frame.token /\ frame'.from = run /\ frame'.row = frame.row /\ frame'.session = frame.session
    BY <1>0, <2>1 DEF Frame
  <2>3. CopyOK' /\ WorkOK'
    BY <1>0, <2>1, <2>2 DEF SInv, CopyOK, WorkOK, Busy, Frame
  <2>4. ButtonsOK'
    BY <1>0, <2>1, <2>2, TokensOK' DEF SInv, ButtonsOK, Busy, Frame, Alive, TokensOK
  <2>5. QED
    BY <1>0, <2>1, <2>2, <2>3, <2>4, Stay DEF SInv, Frame, Decided
<1>5. QED
  BY <1>1, <1>2, <1>3, <1>4

\* The buttons of a decided or abandoned run die.
LEMMA ExpireKeeps ==
  ASSUME Typed, Typed', SInv, ExpireButtons \/ AbandonPaused
  PROVE  SInv'
<1>0. /\ frame \in Frame /\ frame.row \in Row /\ session \in [Session -> Row]
      /\ token \in [Token -> ApprovalBinding] /\ frame.session \in Session
      /\ shown \subseteq Token
  BY WorkTypes DEF ExpireButtons, AbandonPaused
<1>1. \A r : \A t \in Token :
        /\ Expired(r)[t].run = token[t].run /\ Expired(r)[t].channel = token[t].channel
        /\ Expired(r)[t].state = "none" <=> token[t].state = "none"
        /\ Expired(r)[t].state = "pending" => token[t].state = "pending" /\ token[t].run # r
  BY <1>0 DEF Expired, ApprovalBinding
<1>2. CASE ExpireButtons
  <2>1. /\ frame' = [frame EXCEPT !.pc = "settle"] /\ frame.pc = "expire"
        /\ token' = Expired(frame.from)
        /\ UNCHANGED <<session, owner, receipt, closed, runs, cli, resumes, crashes, outside, shown>>
    BY <1>2 DEF ExpireButtons, Goto, ids, history
  <2>2. CopyOK' /\ WorkOK'
    BY <1>0, <2>1 DEF SInv, CopyOK, WorkOK, Busy, Frame
  <2>3. ButtonsOK'
    BY <1>0, <1>1, <2>1 DEF SInv, ButtonsOK, Busy, Frame, Alive
  <2>4. QED
    BY <1>0, <2>1, <2>2, <2>3, Stay DEF SInv, Frame, Decided
<1>3. CASE AbandonPaused
  <2>1. /\ frame' = [frame EXCEPT !.pc = "reset"] /\ frame.pc = "abandon"
        /\ token' = Expired(frame.row.paused)
        /\ UNCHANGED <<session, owner, receipt, closed, runs, cli, resumes, crashes, outside, shown>>
    BY <1>3 DEF AbandonPaused, Goto, ids, history
  <2>2. CopyOK' /\ WorkOK'
    BY <1>0, <2>1 DEF SInv, CopyOK, WorkOK, Busy, Frame
  <2>3. ButtonsOK'
    BY <1>0, <1>1, <2>1 DEF SInv, ButtonsOK, Busy, Frame, Alive
  <2>4. QED
    BY <1>0, <2>1, <2>2, <2>3, Stay DEF SInv, Frame, Decided
<1>4. QED
  BY <1>2, <1>3

\* A token is minted for a run that has none, before the row names the run.
LEMMA MintKeeps == ASSUME Typed, Typed', SInv, TokensOK, MintToken PROVE SInv'
<1>0. /\ frame \in Frame /\ frame.row \in Row /\ session \in [Session -> Row]
      /\ token \in [Token -> ApprovalBinding] /\ frame.session \in Session /\ frame.run \in Run
      /\ shown \subseteq Token
  BY WorkTypes DEF MintToken, Busy
<1>1. tokens + 1 \in Token /\ tokens + 1 > tokens
  BY DEF MintToken, Typed, TypeOK, Token
<1>2. /\ frame' = [frame EXCEPT !.pc = "pause", !.token = tokens + 1] /\ frame.pc = "settle"
      /\ receipt[frame.run].state = "paused"
      /\ UNCHANGED <<session, owner, receipt, closed, runs, cli, resumes, crashes, outside, shown>>
  BY DEF MintToken, history
<1>3. /\ \A t \in Token : t # tokens + 1 => token'[t] = token[t]
      /\ token'[tokens + 1].state = "pending" /\ token'[tokens + 1].run = frame.run
      /\ token'[tokens + 1].channel = frame.session[1]
  BY <1>0, <1>1 DEF MintToken
<1>4. token[tokens + 1].state = "none"
  BY <1>1 DEF TokensOK
<1>5. /\ frame'.pc = "pause" /\ frame'.token = tokens + 1 /\ frame'.session = frame.session
      /\ frame'.row = frame.row /\ frame'.run = frame.run /\ frame'.from = frame.from
  BY <1>0, <1>2 DEF Frame
<1>6. CopyOK' /\ WorkOK'
  BY <1>2, <1>5 DEF SInv, CopyOK, WorkOK, Busy
<1>7. ButtonsOK'
  <2>1. \A t \in Token : token[t].state # "none" => t # tokens + 1
    BY <1>4
  <2>2. \A t \in Token : token'[t].state # "none" =>
          token'[t].run \in Run /\ receipt'[token'[t].run].state = "paused"
    BY <1>0, <1>2, <1>3 DEF SInv, ButtonsOK
  <2>3. \A t \in Token : token[t].state # "none" => token[t].run # frame.run
    BY <1>2 DEF SInv, ButtonsOK, Busy
  <2>4. \A t, u \in Token :
          token'[t].state # "none" /\ token'[u].state # "none" /\ token'[t].run = token'[u].run => t = u
    BY <1>3, <2>3 DEF SInv, ButtonsOK
  <2>5. \A t \in shown : token'[t] = token[t] /\ t # tokens + 1
    BY <1>0, <1>3, <2>1 DEF SInv, ButtonsOK
  <2>6. frame.from # NoRun => frame.run # frame.from
    BY <1>0, <1>2 DEF SInv, CopyOK, WorkOK, Busy
  <2>7. frame.from # NoRun => \A t \in Token : Alive(t)' => token'[t].run # frame.from
    BY <1>2, <1>3, <2>6 DEF SInv, ButtonsOK, Alive
  <2>8. \A t \in shown' : Alive(t)' =>
          \E s \in Session : s[1] = token'[t].channel /\ session'[s].paused = token'[t].run
    BY <1>2, <2>5 DEF SInv, ButtonsOK, Alive
  <2>9. \A t \in shown' : t \in Token /\ token'[t].state # "none"
    BY <1>0, <1>2, <2>5 DEF SInv, ButtonsOK
  <2>10. QED
    BY <1>1, <1>2, <1>3, <1>5, <2>2, <2>4, <2>5, <2>7, <2>8, <2>9 DEF ButtonsOK, Busy
<1>8. QED
  BY <1>2, <1>5, <1>6, <1>7, Stay DEF SInv, Decided

\* A run that was started works for nobody else's row, and has no receipt yet.
LEMMA SettlesKeeps ==
  ASSUME Typed, Typed', SInv, ReceiptsOK,
         \A r \in Run : receipt[r].state # "none" => receipt'[r] = receipt[r],
         NEW kind \in {"paused", "terminal"}, RunSettles(kind) \/ ContinuationSettles(kind)
  PROVE  SInv'
<1>0. /\ frame \in Frame /\ frame.row \in Row /\ session \in [Session -> Row]
      /\ token \in [Token -> ApprovalBinding] /\ frame.session \in Session /\ frame.run \in Run
      /\ shown \subseteq Token /\ receipt \in [Run -> Receipt]
      /\ frame.pc = "continuing" => frame.from \in Run
  BY WorkTypes DEF RunSettles, ContinuationSettles, Busy, Typed, FrameOK
<1>1. /\ receipt[frame.run].state = "none" /\ frame.pc \in {"running", "continuing"}
      /\ UNCHANGED <<session, owner, token, closed, runs, cli, resumes, crashes, outside, shown>>
  BY DEF RunSettles, ContinuationSettles, ReceiptsOK, UnwrittenOK, Working, store, ids, history
<1>2. \A s \in Session : ~Unsettled(s)
  BY <1>1 DEF SInv, ActiveOK, Unsettled
<1>3. /\ \A r \in Run : r # frame.run => receipt'[r] = receipt[r]
      /\ receipt'[frame.run].state # "none"
      /\ receipt'[frame.run].conv = frame.row.conv /\ receipt'[frame.run].case = frame.row.case
  <2>1. CASE RunSettles(kind)
    BY <1>0, <2>1 DEF RunSettles, WriteReceipt
  <2>2. CASE ContinuationSettles(kind)
    <3>1. session[frame.session].paused = frame.from /\ frame.row = session[frame.session]
      BY <2>2 DEF ContinuationSettles, SInv, CopyOK, Busy
    <3>2. receipt[frame.from].conv = frame.row.conv /\ receipt[frame.from].case = frame.row.case
      BY <1>0, <2>2, <3>1 DEF ContinuationSettles, SInv, PausedIsGrounded, Run, NoRun
    <3>3. QED
      BY <1>0, <2>2, <3>2 DEF ContinuationSettles, WriteReceipt
  <2>3. QED
    BY <2>1, <2>2
<1>4. /\ frame'.session = frame.session /\ frame'.row = frame.row /\ frame'.run = frame.run
      /\ frame'.from = frame.from /\ frame'.token = frame.token
      /\ frame'.pc = "settle" \/ (frame'.pc = "expire" /\ frame.pc = "continuing" /\ frame.token = NoToken)
      /\ frame.pc = "continuing" /\ frame'.pc = "settle" => frame.token # NoToken
  BY <1>0 DEF RunSettles, ContinuationSettles, Goto, Frame
<1>5. PausedIsGrounded' /\ HistoryStaysInConversation' /\ ClosedOK' /\ OwnedOK'
  <2>1. \A s \in Session : /\ session[s].paused \in Run \cup {NoRun}
                           /\ session[s].last \in Run \cup {NoRun}
    BY <1>0 DEF Row
  <2>2. closed \subseteq Run
    BY DEF Typed, TypeOK
  <2>3. PausedIsGrounded' /\ HistoryStaysInConversation'
    BY <1>1, <2>1 DEF SInv, PausedIsGrounded, HistoryStaysInConversation
  <2>4. QED
    BY <1>1, <1>4, <2>2, <2>3 DEF SInv, ClosedOK, OwnedOK
<1>6. CopyOK'
  BY <1>1, <1>4 DEF SInv, CopyOK, Busy
<1>7. WorkOK'
  BY <1>1, <1>3, <1>4 DEF SInv, WorkOK, Busy
<1>8. ActiveOK'
  <2>1. \A s \in Session : Unsettled(s)' =>
          s = frame.session /\ session[s].active = frame.run /\ frame.pc = "running"
    <3> SUFFICES ASSUME NEW s \in Session, Unsettled(s)'
                 PROVE  s = frame.session /\ session[s].active = frame.run /\ frame.pc = "running"
      OBVIOUS
    <3>1. session[s].active \in Run /\ session[s].active = frame.run
      BY <1>0, <1>1, <1>2, <1>3 DEF Unsettled, Row
    <3>2. s = frame.session
      BY <1>1, <3>1 DEF SInv, WorkOK, Busy
    <3>3. frame.row = session[s] /\ frame.row.paused = frame.from
      BY <1>1, <3>2 DEF SInv, CopyOK, Busy
    <3>4. frame.from = NoRun
      BY <1>0, <3>1, <3>3 DEF SInv, PausedIsGrounded, Run, NoRun
    <3>5. QED
      BY <1>0, <1>1, <3>1, <3>2, <3>4 DEF Run, NoRun
  <2>2. frame.row = session[frame.session]
    BY <1>1 DEF SInv, CopyOK
  <2>3. QED
    BY <1>0, <1>1, <1>3, <1>4, <2>1, <2>2 DEF SInv, ActiveOK
<1>9. ButtonsOK'
  <2>1. \A t \in Token : token[t].state # "none" => receipt'[token[t].run].state = "paused"
    BY <1>1, <1>3 DEF SInv, ButtonsOK
  <2>2. frame.pc = "running" => frame.from = NoRun
    BY DEF SInv, CopyOK
  <2>3. frame.from # NoRun /\ frame'.pc = "settle" =>
          \A t \in Token : Alive(t) => token[t].run # frame.from
    <3> SUFFICES ASSUME frame.from # NoRun, frame'.pc = "settle", NEW t \in Token, Alive(t), token[t].run = frame.from
                 PROVE  FALSE
      OBVIOUS
    <3>1. frame.pc = "continuing" /\ frame.token # NoToken
      BY <1>1, <1>4, <2>2
    <3>2. token[frame.token].state = "consumed" /\ token[frame.token].run = frame.from /\ frame.token \in Token
      BY <1>0, <3>1 DEF SInv, ButtonsOK, Frame
    <3>3. QED
      BY <3>2 DEF SInv, ButtonsOK, Alive
  <2>4. QED
    BY <1>1, <1>4, <2>1, <2>3 DEF SInv, ButtonsOK, Busy, Alive
<1>10. ResumesOK'
  <2>1. frame.pc \in Decided => frame'.pc \in Decided /\ frame'.from = frame.from
    BY <1>4 DEF Decided
  <2>2. QED
    BY <1>1, <2>1 DEF SInv, ResumesOK
<1>11. QED
  BY <1>1, <1>5, <1>6, <1>7, <1>8, <1>9, <1>10 DEF SInv

\* The continuation takes a run id nobody knows.
LEMMA ResumeKeeps == ASSUME Typed, Typed', SInv, ReceiptsOK, Resume PROVE SInv'
<1>0. /\ frame \in Frame /\ frame.row \in Row /\ session \in [Session -> Row]
      /\ token \in [Token -> ApprovalBinding] /\ frame.session \in Session
      /\ shown \subseteq Token /\ resumes \in [Run -> Nat] /\ crashes \in Nat /\ outside \in Nat
      /\ frame.from \in Run /\ runs \in 0 .. MaxRuns /\ closed \subseteq Run
  BY WorkTypes DEF Resume, Typed, TypeOK, FrameOK
<1>1. /\ frame.pc = "resume" /\ runs' = runs + 1 /\ runs + 1 \in Run
      /\ resumes' = [resumes EXCEPT ![frame.from] = @ + 1]
      /\ UNCHANGED <<session, owner, token, receipt, closed, cli, crashes, outside, shown>>
  BY NextRunTyped DEF Resume, store
<1>2. /\ frame'.pc = "continuing" /\ frame'.run = runs + 1 /\ frame'.session = frame.session
      /\ frame'.row = frame.row /\ frame'.from = frame.from /\ frame'.token = frame.token
  BY <1>0 DEF Resume, Frame
<1>3. receipt[runs + 1].state = "none"
  BY <1>0, <1>1 DEF ReceiptsOK, UnwrittenOK
<1>4. /\ runs + 1 \notin closed
      /\ \A s \in Session : session[s].paused # runs + 1 /\ session[s].active # runs + 1
  BY <1>0, <1>1, <1>3 DEF SInv, ClosedOK, PausedIsGrounded, ActiveOK, NoRun
<1>5. cli'.pc = "idle" /\ PausedIsGrounded' /\ HistoryStaysInConversation' /\ ClosedOK' /\ OwnedOK' /\ CopyOK'
  BY <1>1, <1>2 DEF SInv, PausedIsGrounded, HistoryStaysInConversation, ClosedOK, OwnedOK, CopyOK, Busy
<1>6. WorkOK'
  BY <1>0, <1>1, <1>2, <1>4 DEF WorkOK, Run, NoRun
<1>7. ActiveOK'
  BY <1>0, <1>1, <1>2 DEF SInv, ActiveOK, Unsettled, Row, Run, NoRun
<1>8. ButtonsOK'
  BY <1>1, <1>2, <1>3 DEF SInv, ButtonsOK, Alive
<1>9. ResumesOK'
  <2>1. session[frame.session].paused = frame.from
    BY <1>1 DEF SInv, CopyOK
  <2>2. resumes[frame.from] <= crashes + outside
    BY <1>0, <1>1, <2>1 DEF SInv, ResumesOK, Decided, Run, NoRun
  <2>3. resumes'[frame.from] <= 1 + crashes + outside /\ \A r \in Run : r # frame.from => resumes'[r] = resumes[r]
    BY <1>0, <1>1, <2>2
  <2>4. \A s \in Session : session[s].paused \in Run \cup {NoRun}
    BY <1>0 DEF Row
  <2>5. QED
    BY <1>0, <1>1, <1>2, <2>1, <2>3, <2>4 DEF SInv, ResumesOK, Decided
<1>10. QED
  BY <1>5, <1>6, <1>7, <1>8, <1>9 DEF SInv

\* So does one of another process, which writes its receipt in the same step.
LEMMA OutsideKeeps ==
  ASSUME Typed, Typed', SInv, ReceiptsOK, NEW p \in Run, NEW kind \in {"paused", "terminal"},
         \A r \in Run : receipt[r].state # "none" => receipt'[r] = receipt[r],
         ResumeOutside(p, kind)
  PROVE  SInv'
<1>0. /\ session \in [Session -> Row] /\ token \in [Token -> ApprovalBinding]
      /\ resumes \in [Run -> Nat] /\ crashes \in Nat /\ outside \in Nat
      /\ runs \in 0 .. MaxRuns /\ closed \subseteq Run /\ receipt \in [Run -> Receipt]
      /\ frame.pc \in Busy => frame.run \in Run
  BY WorkTypes DEF Typed, TypeOK
<1>1. /\ runs' = runs + 1 /\ runs + 1 \in Run /\ outside' = outside + 1
      /\ resumes' = [resumes EXCEPT ![p] = @ + 1]
      /\ \A r \in Run : r # runs + 1 => receipt'[r] = receipt[r]
      /\ UNCHANGED <<session, owner, token, closed, cli, crashes, shown, frame>>
  BY <1>0, NextRunTyped DEF ResumeOutside, WriteReceipt, store
<1>2. receipt[runs + 1].state = "none"
  BY <1>0, <1>1 DEF ReceiptsOK, UnwrittenOK
<1>3. \A s \in Session : /\ session[s].paused \in Run \cup {NoRun}
                         /\ session[s].last \in Run \cup {NoRun}
                         /\ session[s].active \in Run \cup {NoRun}
  BY <1>0 DEF Row
<1>4. cli'.pc = "idle" /\ PausedIsGrounded' /\ HistoryStaysInConversation' /\ ClosedOK' /\ OwnedOK' /\ CopyOK'
  BY <1>0, <1>1, <1>3 DEF SInv, PausedIsGrounded, HistoryStaysInConversation, ClosedOK, OwnedOK, CopyOK, Busy
<1>5. WorkOK'
  BY <1>0, <1>1 DEF SInv, WorkOK, Busy
<1>6. ActiveOK'
  <2>1. \A s \in Session : session[s].active # NoRun =>
          session[s].active <= runs + 1 /\ receipt'[session[s].active] = receipt[session[s].active]
    BY <1>0, <1>1, <1>3 DEF SInv, ActiveOK, Run
  <2>2. QED
    BY <1>1, <2>1 DEF SInv, ActiveOK, Unsettled
<1>7. ButtonsOK'
  BY <1>1 DEF SInv, ButtonsOK, Alive
<1>8. ResumesOK'
  <2>1. \A r \in Run : resumes'[r] \in Nat /\ resumes'[r] <= resumes[r] + 1
    BY <1>0, <1>1
  <2>2. \A r \in Run : /\ resumes[r] <= outside => resumes'[r] <= outside'
                       /\ resumes[r] <= crashes + outside => resumes'[r] <= crashes' + outside'
                       /\ resumes[r] <= 1 + crashes + outside => resumes'[r] <= 1 + crashes' + outside'
    BY <1>0, <1>1, <2>1
  <2>3. QED
    BY <1>1, <1>3, <2>2 DEF SInv, ResumesOK
<1>9. QED
  BY <1>4, <1>5, <1>6, <1>7, <1>8 DEF SInv

\* Opening a row changes no pointer of any row.
LEMMA OpenFacts ==
  ASSUME Typed, OwnedOK, NEW s \in Session, NEW u \in User, Open(s, u)
  PROVE  /\ \A q \in Session :
              /\ session'[q].paused = session[q].paused /\ session'[q].active = session[q].active
              /\ session'[q].last = session[q].last /\ session'[q].case = session[q].case
              /\ session'[q].conv # session[q].conv =>
                   session[q].paused = NoRun /\ session[q].active = NoRun /\ session[q].last = NoRun
              /\ owner'[q] = NoUser => owner[q] = NoUser /\ session'[q] = session[q]
         /\ owner'[s] # NoUser /\ session'[s] = Opened(s)
<1>1. session \in [Session -> Row] /\ owner \in [Session -> User \cup {NoUser}] /\ u # NoUser
  BY GatewayAssumption DEF Typed, TypeOK
<1>2. CASE owner[s] = NoUser
  <2>1. session[s] = EmptyRow /\ session'[s] = [EmptyRow EXCEPT !.conv = convs + 1]
    BY <1>1, <1>2 DEF OwnedOK, Open, Opened
  <2>2. \A q \in Session : q # s => session'[q] = session[q] /\ owner'[q] = owner[q]
    BY <1>1, <1>2 DEF Open
  <2>3. owner'[s] = u
    BY <1>1, <1>2 DEF Open
  <2>4. QED
    BY <1>1, <1>2, <2>1, <2>2, <2>3 DEF EmptyRow, Opened
<1>3. CASE owner[s] # NoUser
  <2>1. session' = session /\ owner' = owner /\ session[s] = Opened(s)
    BY <1>1, <1>3 DEF Open, Opened
  <2>2. QED
    BY <1>3, <2>1
<1>4. QED
  BY <1>2, <1>3

\* An event: the handler gets a copy of the row it opened.
LEMMA OpenKeeps ==
  ASSUME Typed, Typed', SInv, NEW s \in Session, NEW u \in User, Open(s, u), frame.pc = "idle",
         UNCHANGED <<token, receipt, runs, shown, cli, resumes, closed, crashes, outside>>,
         \/ frame'.pc = "idle"
         \/ /\ frame'.pc \in {"start", "abandon", "reset", "bind", "status", "callback"}
            /\ frame'.session = s /\ frame'.row = Opened(s) /\ frame'.from = NoRun
            /\ frame'.pc \in {"start", "bind", "reset"} => Opened(s).paused = NoRun
  PROVE  SInv'
<1>0. session \in [Session -> Row] /\ session' \in [Session -> Row] /\ shown \subseteq Token
  BY DEF Typed, TypeOK
<1>1. /\ \A q \in Session :
           /\ session'[q].paused = session[q].paused /\ session'[q].active = session[q].active
           /\ session'[q].last = session[q].last /\ session'[q].case = session[q].case
           /\ session'[q].conv # session[q].conv =>
                session[q].paused = NoRun /\ session[q].active = NoRun /\ session[q].last = NoRun
           /\ owner'[q] = NoUser => owner[q] = NoUser /\ session'[q] = session[q]
      /\ owner'[s] # NoUser /\ session'[s] = Opened(s)
  BY OpenFacts DEF SInv
<1>2. cli'.pc = "idle" /\ PausedIsGrounded' /\ HistoryStaysInConversation' /\ ClosedOK'
  BY <1>1 DEF SInv, PausedIsGrounded, HistoryStaysInConversation, ClosedOK
<1>3. CopyOK' /\ WorkOK' /\ OwnedOK'
  BY <1>1 DEF SInv, CopyOK, WorkOK, OwnedOK, Busy
<1>4. ActiveOK'
  BY <1>1 DEF SInv, ActiveOK, Unsettled
<1>5. ButtonsOK'
  <2>1. \A t \in Token : Alive(t) => token[t].run \in Run /\ token[t].run # NoRun
    BY DEF SInv, ButtonsOK, Alive, Run, NoRun
  <2>2. frame'.pc = "reset" => frame'.row.paused = NoRun
    OBVIOUS
  <2>3. QED
    BY <1>0, <1>1, <2>1, <2>2 DEF SInv, ButtonsOK, Busy, Alive
<1>6. ResumesOK'
  BY <1>1 DEF SInv, ResumesOK, Decided
<1>7. QED
  BY <1>2, <1>3, <1>4, <1>5, <1>6 DEF SInv

LEMMA EventKeeps == ASSUME Typed, Typed', SInv, Event PROVE SInv'
<1>1. ASSUME NEW u \in User, NEW s \in Session,
             NEW pc \in {"idle", "start", "abandon", "reset", "bind", "status"}, Receive(s, u, pc),
             pc \in {"start", "bind", "reset"} => Opened(s).paused = NoRun
      PROVE  SInv'
  <2>1. CASE pc = "idle"
    BY <1>1, <2>1, OpenKeeps DEF Receive, Idle, history
  <2>2. CASE pc # "idle"
    <3>1. frame' = [Idle EXCEPT !.pc = pc, !.session = s, !.row = Opened(s)]
      BY <1>1, <2>2 DEF Receive
    <3>2. /\ frame'.pc = pc /\ frame'.session = s /\ frame'.row = Opened(s) /\ frame'.from = NoRun
      BY <3>1 DEF Idle
    <3>3. QED
      BY <1>1, <2>2, <3>2, OpenKeeps DEF Receive, history
  <2>3. QED
    BY <2>1, <2>2
<1>2. ASSUME NEW u \in User, NEW s \in Session, Decide(s, u) PROVE SInv'
  <2>1. /\ frame.pc = "idle" /\ owner[s] # NoUser /\ session[s].paused # NoRun
        /\ UNCHANGED <<session, owner, token, receipt, runs, shown, cli, resumes, closed, crashes, outside>>
    BY <1>2 DEF Decide, Opened, EmptyRow, store, ids, history
  <2>2. /\ frame'.pc = "resume" /\ frame'.session = s /\ frame'.row = session[s]
        /\ frame'.from = session[s].paused /\ frame'.token = NoToken
    BY <1>2 DEF Decide, Idle
  <2>3. cli'.pc = "idle" /\ PausedIsGrounded' /\ HistoryStaysInConversation' /\ ClosedOK'
    BY <2>1 DEF SInv, PausedIsGrounded, HistoryStaysInConversation, ClosedOK
  <2>4. CopyOK' /\ WorkOK' /\ OwnedOK'
    BY <2>1, <2>2 DEF SInv, CopyOK, WorkOK, OwnedOK, Busy
  <2>5. ActiveOK' /\ ButtonsOK' /\ ResumesOK'
    BY <2>1, <2>2 DEF SInv, ActiveOK, Unsettled, ButtonsOK, Busy, Alive, ResumesOK, Decided
  <2>6. QED
    BY <2>3, <2>4, <2>5 DEF SInv
<1>3. ASSUME NEW u \in User, NEW t \in Token, Press(t, u) PROVE SInv'
  <2> DEFINE s == <<token[t].channel, Main>>
  <2>1. s \in Session
    BY <1>3 DEF Press, Typed, CardsOK, Session
  <2>2. frame' = [Idle EXCEPT !.pc = "callback", !.session = s, !.row = Opened(s), !.user = u, !.token = t]
    BY <1>3 DEF Press
  <2>3. Open(s, u) /\ frame.pc = "idle"
        /\ UNCHANGED <<token, receipt, runs, shown, cli, resumes, closed, crashes, outside>>
    BY <1>3 DEF Press, history
  <2> HIDE DEF s
  <2>4. frame'.pc = "callback" /\ frame'.session = s /\ frame'.row = Opened(s) /\ frame'.from = NoRun
    BY <2>2 DEF Idle
  <2>5. QED
    BY <1>3, <2>1, <2>3, <2>4, OpenKeeps
<1>4. QED
  BY <1>1, <1>2, <1>3 DEF Event, Text, New, BindCase, Status

LEMMA SaveFacts ==
  ASSUME Typed, NEW s \in Session, NEW row \in Row, Save(s, row)
  PROVE  /\ session'[s] = row /\ \A q \in Session : q # s => session'[q] = session[q]
         /\ row.paused = session[s].paused \/ session[s].paused = NoRun => closed' = closed
         /\ session[s].paused # NoRun /\ row.paused # session[s].paused
              => closed' = closed \cup {session[s].paused}
BY DEF Save, Typed, TypeOK

\* A run starts: the row shows its id before anything else happens.
LEMMA StartKeeps == ASSUME Typed, Typed', SInv, ReceiptsOK, StartRun, frame'.pc = "ack" PROVE SInv'
<1> DEFINE row == [frame.row EXCEPT !.active = runs + 1]
<1>0. /\ frame \in Frame /\ frame.row \in Row /\ session \in [Session -> Row]
      /\ frame.session \in Session /\ shown \subseteq Token
      /\ runs \in 0 .. MaxRuns /\ closed \subseteq Run
  BY WorkTypes DEF StartRun, Typed, TypeOK
<1>1. /\ frame.pc = "start" /\ runs < MaxRuns /\ runs' = runs + 1 /\ SaveRow(row)
      /\ frame' = [frame EXCEPT !.pc = "ack", !.row = row, !.run = runs + 1]
      /\ UNCHANGED <<owner, token, receipt, cli, resumes, crashes, outside, shown>>
  BY DEF StartRun, Return, Idle
<1>2. runs + 1 \in Run /\ row \in Row
  BY <1>0, <1>1, NextRunTyped DEF Row
<1>3. /\ row.active = runs + 1 /\ row.paused = frame.row.paused /\ row.last = frame.row.last
      /\ row.conv = frame.row.conv /\ row.case = frame.row.case
  BY <1>0 DEF Row
<1>4. /\ frame'.pc = "ack" /\ frame'.run = runs + 1 /\ frame'.session = frame.session
      /\ frame'.row = row /\ frame'.from = frame.from
  BY <1>0, <1>1 DEF Frame
<1>5. frame.row = session[frame.session] /\ frame.from = NoRun /\ frame.row.paused = NoRun
  BY <1>1 DEF SInv, CopyOK
<1> HIDE DEF row
<1>6. /\ session'[frame.session] = row /\ closed' = closed
      /\ \A q \in Session : q # frame.session => session'[q] = session[q]
  BY <1>0, <1>1, <1>2, <1>3, <1>5, SaveFacts DEF SaveRow
<1>7. \A q \in Session : /\ session'[q].paused = session[q].paused /\ session'[q].last = session[q].last
                         /\ session'[q].conv = session[q].conv /\ session'[q].case = session[q].case
  BY <1>3, <1>5, <1>6
<1>8. receipt[runs + 1].state = "none"
  BY <1>0, <1>2 DEF ReceiptsOK, UnwrittenOK
<1>9. /\ runs + 1 \notin closed
      /\ \A q \in Session : session[q].paused # runs + 1 /\ session[q].active # runs + 1
  BY <1>0, <1>2, <1>8 DEF SInv, ClosedOK, PausedIsGrounded, ActiveOK, Run, NoRun
<1>10. cli'.pc = "idle" /\ PausedIsGrounded' /\ HistoryStaysInConversation' /\ ClosedOK'
  BY <1>1, <1>3, <1>5, <1>6, <1>7 DEF SInv, PausedIsGrounded, HistoryStaysInConversation, ClosedOK
<1>11. CopyOK' /\ WorkOK' /\ OwnedOK'
  BY <1>1, <1>3, <1>4, <1>5, <1>6, <1>7, <1>9 DEF SInv, CopyOK, WorkOK, OwnedOK, Busy
<1>12. ActiveOK'
  <2>1. \A q \in Session : session[q].active \in Run \cup {NoRun}
    BY <1>0 DEF Row
  <2>2. \A q \in Session : ~Unsettled(q)'
    BY <1>1, <1>3, <1>6, <1>8 DEF SInv, ActiveOK, Unsettled
  <2>3. QED
    BY <1>0, <1>1, <1>3, <1>6, <1>7, <1>9, <2>1, <2>2 DEF SInv, ActiveOK, Run, NoRun
<1>13. ButtonsOK' /\ ResumesOK'
  BY <1>1, <1>4, <1>6, <1>7, <1>8 DEF SInv, ButtonsOK, Busy, Alive, ResumesOK, Decided
<1>14. QED
  BY <1>10, <1>11, <1>12, <1>13 DEF SInv

\* The row is written back, and the handler is over: with the wait it had (or none),
\* or with its wait settled.
LEMMA WriteBack ==
  ASSUME Typed, Typed', SInv, TokensOK, ReceiptsOK, NEW row \in Row, SaveRow(row),
         frame.pc \in {"running", "settle", "bind", "reset"},
         frame'.pc = "idle",
         UNCHANGED <<owner, token, receipt, runs, cli, resumes, crashes, outside, shown>>,
         row.paused = NoRun,
         frame.pc = "bind" => row.active = frame.row.active,
         frame.pc # "bind" => row.active = NoRun,
         row.conv = frame.row.conv \/ row.last = NoRun,
         row.last \in {NoRun, frame.row.last} \/
           (frame.pc = "settle" /\ row.last = frame.run /\ receipt[frame.run].state = "terminal")
  PROVE  SInv'
<1>0. /\ frame \in Frame /\ frame.row \in Row /\ session \in [Session -> Row]
      /\ frame.session \in Session /\ shown \subseteq Token /\ token \in [Token -> ApprovalBinding]
      /\ closed \subseteq Run /\ outside \in Nat /\ crashes \in Nat /\ resumes \in [Run -> Nat]
      /\ frame.pc \in Busy => frame.run \in Run
  BY WorkTypes DEF Typed, TypeOK
<1>1. frame.row = session[frame.session]
  BY DEF SInv, CopyOK
<1>2. /\ session'[frame.session] = row
      /\ \A q \in Session : q # frame.session => session'[q] = session[q]
      /\ frame.row.paused = NoRun => closed' = closed
      /\ frame.row.paused # NoRun => closed' = closed \cup {frame.row.paused}
  BY <1>0, <1>1, SaveFacts DEF SaveRow
<1>3. \A q \in Session : session'[q].paused \in {NoRun, session[q].paused}
  BY <1>2
<1>4. PausedIsGrounded'
  BY <1>2 DEF SInv, PausedIsGrounded
<1>5. HistoryStaysInConversation'
  BY <1>0, <1>1, <1>2 DEF SInv, HistoryStaysInConversation, WorkOK
<1>6. ClosedOK'
  <2>1. frame.row.paused # NoRun => /\ receipt[frame.row.paused].state = "paused"
                                    /\ \A q \in Session : q # frame.session => session[q].paused # frame.row.paused
    BY <1>0, <1>1 DEF SInv, PausedIsGrounded
  <2>2. NoRun \notin closed
    BY <1>0 DEF Run, NoRun
  <2>3. QED
    BY <1>2, <2>1, <2>2 DEF SInv, ClosedOK, NoRun
<1>7. CopyOK' /\ WorkOK' /\ OwnedOK'
  BY <1>2 DEF SInv, CopyOK, WorkOK, OwnedOK, Busy
<1>8. ActiveOK'
  <2>1. \A q \in Session : session'[q].active # NoRun => session'[q].active = session[q].active
    BY <1>1, <1>2
  <2>2. \A q \in Session : ~Unsettled(q)'
    <3>1. \A q \in Session : q # frame.session => ~Unsettled(q)
      BY DEF SInv, ActiveOK, Unsettled
    <3>2. frame.pc = "bind" => ~Unsettled(frame.session)
      BY <1>0 DEF SInv, ActiveOK, Unsettled
    <3>3. QED
      BY <1>1, <1>2, <3>1, <3>2 DEF Unsettled
  <2>3. \A q \in Session : session'[q].active # NoRun => session'[q].active # frame.row.paused
    BY <1>0, <1>1, <2>1 DEF SInv, ActiveOK
  <2>4. QED
    BY <1>2, <1>3, <2>1, <2>2, <2>3 DEF SInv, ActiveOK, NoRun
<1>9. ButtonsOK'
  <2>1. \A t \in Token : Alive(t) => token[t].run # frame.row.paused
    <3>1. \A t \in Token : Alive(t) => token[t].run # NoRun
      BY DEF SInv, ButtonsOK, Alive, Run, NoRun
    <3>2. frame.pc # "reset" => frame.row.paused = frame.from \/ frame.row.paused = NoRun
      BY DEF SInv, CopyOK, Busy
    <3>3. QED
      BY <3>1, <3>2 DEF SInv, ButtonsOK, CopyOK, Busy
  <2>2. \A t \in shown : Alive(t) =>
          \E s \in Session : s[1] = token[t].channel /\ session'[s].paused = token[t].run
    BY <1>0, <1>1, <1>2, <2>1 DEF SInv, ButtonsOK
  <2>3. QED
    BY <2>2 DEF SInv, ButtonsOK, Busy, Alive
<1>10. ResumesOK'
  <2>1. \A q \in Session : session[q].paused # NoRun =>
          (frame.pc \in Decided /\ frame.from = session[q].paused => q = frame.session)
    BY <1>0, <1>1 DEF SInv, CopyOK, PausedIsGrounded, Decided, Busy
  <2>2. \A q \in Session : session'[q].paused # NoRun => q # frame.session /\ session'[q].paused = session[q].paused
    BY <1>2
  <2>3. \A r \in Run : r \notin closed' /\ (\A s \in Session : session'[s].paused # r)
          => r \notin closed /\ \A s \in Session : session[s].paused # r
    BY <1>0, <1>1, <1>2 DEF Run, NoRun
  <2>4. QED
    BY <2>1, <2>2, <2>3 DEF SInv, ResumesOK, Decided
<1>11. QED
  BY <1>4, <1>5, <1>6, <1>7, <1>8, <1>9, <1>10 DEF SInv

\* The row waits on its run: what it waited on before is closed.
LEMMA PauseKeeps == ASSUME Typed, Typed', SInv, SavePaused PROVE SInv'
<1> DEFINE row == [frame.row EXCEPT !.active = NoRun, !.paused = frame.run]
<1>0. /\ frame \in Frame /\ frame.row \in Row /\ session \in [Session -> Row]
      /\ frame.session \in Session /\ shown \subseteq Token /\ token \in [Token -> ApprovalBinding]
      /\ closed \subseteq Run /\ outside \in Nat /\ crashes \in Nat /\ resumes \in [Run -> Nat]
      /\ frame.run \in Run /\ frame.token \in Token
  BY WorkTypes DEF SavePaused, Typed, TypeOK, FrameOK
<1>1. /\ frame.pc = "pause" /\ SaveRow(row) /\ frame' = [frame EXCEPT !.pc = "card"]
      /\ UNCHANGED <<owner, token, receipt, runs, cli, resumes, crashes, outside, shown>>
  BY DEF SavePaused, Goto, ids
<1>2. /\ frame'.pc = "card" /\ frame'.run = frame.run /\ frame'.session = frame.session
      /\ frame'.row = frame.row /\ frame'.from = frame.from /\ frame'.token = frame.token
  BY <1>0, <1>1 DEF Frame
<1>3. /\ row.active = NoRun /\ row.paused = frame.run /\ row.last = frame.row.last
      /\ row.conv = frame.row.conv /\ row.case = frame.row.case /\ row \in Row
  BY <1>0 DEF Row
<1>4. /\ frame.row = session[frame.session] /\ frame.row.paused = frame.from
      /\ frame.run \notin closed /\ \A q \in Session : session[q].paused # frame.run
      /\ receipt[frame.run].state = "paused" /\ receipt[frame.run].conv = frame.row.conv
      /\ receipt[frame.run].case = frame.row.case
  BY <1>1 DEF SInv, CopyOK, WorkOK, Busy
<1> HIDE DEF row
<1>5. /\ session'[frame.session] = row
      /\ \A q \in Session : q # frame.session => session'[q] = session[q]
      /\ frame.from = NoRun => closed' = closed
      /\ frame.from # NoRun => closed' = closed \cup {frame.from}
  BY <1>0, <1>1, <1>3, <1>4, SaveFacts DEF SaveRow
<1>6. cli'.pc = "idle" /\ PausedIsGrounded' /\ HistoryStaysInConversation'
  BY <1>0, <1>1, <1>3, <1>4, <1>5 DEF SInv, PausedIsGrounded, HistoryStaysInConversation
<1>7. ClosedOK'
  <2>1. frame.from # NoRun => /\ receipt[frame.from].state = "paused"
                              /\ \A q \in Session : q # frame.session => session[q].paused # frame.from
    BY <1>0, <1>4 DEF SInv, PausedIsGrounded
  <2>2. frame.from # frame.run
    BY <1>0, <1>4
  <2>3. QED
    BY <1>0, <1>1, <1>3, <1>4, <1>5, <2>1, <2>2 DEF SInv, ClosedOK
<1>8. CopyOK' /\ WorkOK' /\ OwnedOK'
  BY <1>0, <1>1, <1>2, <1>5 DEF SInv, CopyOK, WorkOK, OwnedOK, Busy
<1>9. ActiveOK'
  <2>1. \A q \in Session : session'[q].active # NoRun =>
          q # frame.session /\ session'[q].active = session[q].active
    BY <1>3, <1>5
  <2>2. \A q \in Session : q # frame.session => ~Unsettled(q)
    BY <1>1 DEF SInv, ActiveOK, Unsettled
  <2>3. \A q \in Session : ~Unsettled(q)'
    BY <1>1, <2>1, <2>2 DEF Unsettled
  <2>4. \A q \in Session : q # frame.session => session[q].active # frame.run
    BY <1>1 DEF SInv, WorkOK, Busy
  <2>5. \A q \in Session : session[q].active # NoRun => session[q].active # frame.from
    BY <1>0, <1>4 DEF SInv, ActiveOK
  <2>6. QED
    BY <1>0, <1>1, <1>3, <1>5, <2>1, <2>3, <2>4, <2>5 DEF SInv, ActiveOK
<1>10. ButtonsOK'
  <2>1. \A t \in Token : Alive(t) => token[t].run # NoRun /\ (frame.from # NoRun => token[t].run # frame.from)
    BY <1>1 DEF SInv, ButtonsOK, Alive, Run, NoRun
  <2>2. \A t \in shown : Alive(t) =>
          \E s \in Session : s[1] = token[t].channel /\ session'[s].paused = token[t].run
    BY <1>0, <1>4, <1>5, <2>1 DEF SInv, ButtonsOK
  <2>3. QED
    BY <1>1, <1>2, <1>3, <1>5, <2>2 DEF SInv, ButtonsOK, Busy, Alive
<1>11. ResumesOK'
  <2>1. resumes[frame.run] <= crashes + outside
    <3>1. resumes[frame.run] <= outside
      BY <1>0, <1>4 DEF SInv, ResumesOK
    <3>2. QED
      BY <1>0, <3>1
  <2>2. \A q \in Session : q # frame.session /\ session[q].paused # NoRun => session[q].paused # frame.from
    BY <1>0, <1>4 DEF SInv, PausedIsGrounded
  <2>3. \A r \in Run : r \notin closed' /\ (\A s \in Session : session'[s].paused # r)
          => r \notin closed /\ \A s \in Session : session[s].paused # r
    BY <1>0, <1>4, <1>5 DEF Run, NoRun
  <2>4. QED
    BY <1>0, <1>1, <1>2, <1>3, <1>5, <2>1, <2>2, <2>3 DEF SInv, ResumesOK, Decided
<1>12. QED
  BY <1>6, <1>7, <1>8, <1>9, <1>10, <1>11 DEF SInv

\* A restart settles every row by its receipt; a row that waits goes on waiting.
LEMMA RecoverFacts ==
  ASSUME Typed, SInv, Recover
  PROVE  /\ closed' = closed
         /\ \A s \in Session :
              /\ session'[s].conv = session[s].conv /\ session'[s].case = session[s].case
              /\ session'[s].active = NoRun
              /\ session[s].active = NoRun => session'[s] = session[s]
              /\ session[s].active # NoRun =>
                   /\ session[s].paused = NoRun
                   /\ session'[s].paused = IF receipt[session[s].active].state = "paused"
                                           THEN session[s].active ELSE NoRun
                   /\ session'[s].last = IF receipt[session[s].active].state = "terminal"
                                         THEN session[s].active ELSE session[s].last
<1>0. session \in [Session -> Row] /\ receipt \in [Run -> Receipt]
  BY WorkTypes
<1>1. \A s \in Session : session'[s] = Reconciled(session[s])
  BY DEF Recover
<1>2. ASSUME NEW s \in Session
      PROVE  /\ session'[s].conv = session[s].conv /\ session'[s].case = session[s].case
             /\ session'[s].active = NoRun
             /\ session[s].active = NoRun => session'[s] = session[s]
             /\ session[s].active # NoRun =>
                  /\ session[s].paused = NoRun
                  /\ session'[s].paused = IF receipt[session[s].active].state = "paused"
                                          THEN session[s].active ELSE NoRun
                  /\ session'[s].last = IF receipt[session[s].active].state = "terminal"
                                        THEN session[s].active ELSE session[s].last
  <2>1. session[s] \in Row /\ session[s].active \in Run \cup {NoRun} /\ session[s].paused \in Run \cup {NoRun}
    BY <1>0 DEF Row
  <2>2. session[s].paused # NoRun =>
          receipt[session[s].paused].state = "paused" /\ session[s].active = NoRun
    BY DEF SInv, PausedIsGrounded
  <2>3. CASE session[s].paused # NoRun
    <3>1. session'[s] = [session[s] EXCEPT !.active = NoRun, !.paused = session[s].paused]
      BY <1>1, <2>1, <2>2, <2>3 DEF Reconciled
    <3>2. \A a \in Row : [a EXCEPT !.active = a.active, !.paused = a.paused] = a
      BY DEF Row
    <3>3. session'[s] = session[s]
      BY <2>1, <2>2, <2>3, <3>1, <3>2
    <3>4. QED
      BY <2>2, <2>3, <3>3
  <2>4. CASE session[s].paused = NoRun /\ session[s].active # NoRun
    <3>1. receipt[session[s].active].state \in {"none", "paused", "terminal"}
      BY <1>0, <2>1, <2>4 DEF Receipt
    <3>2. QED
      BY <1>1, <2>1, <2>4, <3>1 DEF Reconciled, Row
  <2>5. CASE session[s].paused = NoRun /\ session[s].active = NoRun
    BY <1>1, <2>1, <2>5 DEF Reconciled
  <2>6. QED
    BY <2>3, <2>4, <2>5
<1>3. \A s \in Session : session[s].paused # NoRun => session'[s].paused = session[s].paused
  BY <1>2
<1>4. closed' = closed
  BY <1>3 DEF Recover
<1>5. QED
  BY <1>2, <1>4

LEMMA RecoverKeeps == ASSUME Typed, Typed', SInv, Recover PROVE SInv'
<1>0. /\ session \in [Session -> Row] /\ receipt \in [Run -> Receipt] /\ shown \subseteq Token
      /\ outside \in Nat /\ crashes \in Nat /\ resumes \in [Run -> Nat]
  BY WorkTypes DEF Typed, TypeOK
<1>1. /\ frame.pc = "down" /\ frame'.pc = "idle"
      /\ UNCHANGED <<owner, token, receipt, runs, cli, resumes, crashes, outside, shown>>
  BY DEF Recover, Return, Idle, ids
<1>2. /\ closed' = closed
      /\ \A s \in Session :
           /\ session'[s].conv = session[s].conv /\ session'[s].case = session[s].case
           /\ session'[s].active = NoRun
           /\ session[s].active = NoRun => session'[s] = session[s]
           /\ session[s].active # NoRun =>
                /\ session[s].paused = NoRun
                /\ session'[s].paused = IF receipt[session[s].active].state = "paused"
                                        THEN session[s].active ELSE NoRun
                /\ session'[s].last = IF receipt[session[s].active].state = "terminal"
                                      THEN session[s].active ELSE session[s].last
  BY RecoverFacts
<1>3. \A s \in Session : LET a == session[s].active IN a # NoRun =>
        /\ a \notin closed /\ \A q \in Session : session[q].paused # a
        /\ \A q \in Session : session[q].active = a => q = s
        /\ receipt[a].state # "none" => receipt[a].conv = session[s].conv /\ receipt[a].case = session[s].case
  BY DEF SInv, ActiveOK, Unsettled
<1>4. PausedIsGrounded' /\ HistoryStaysInConversation'
  BY <1>1, <1>2, <1>3 DEF SInv, PausedIsGrounded, HistoryStaysInConversation
<1>5. ClosedOK' /\ CopyOK' /\ WorkOK'
  BY <1>0, <1>1, <1>2, <1>3 DEF SInv, ClosedOK, CopyOK, WorkOK, Busy, Typed, TypeOK, NoRun, Run
<1>6. OwnedOK' /\ ActiveOK'
  BY <1>1, <1>2 DEF SInv, OwnedOK, ActiveOK, EmptyRow
<1>7. ButtonsOK'
  <2>1. \A s \in Session : session[s].paused # NoRun => session'[s].paused = session[s].paused
    BY <1>2
  <2>2. \A t \in Token : Alive(t) => token[t].run # NoRun
    BY DEF SInv, ButtonsOK, Alive, Run, NoRun
  <2>3. \A t \in shown : Alive(t) =>
          \E s \in Session : s[1] = token[t].channel /\ session'[s].paused = token[t].run
    BY <1>0, <2>1, <2>2 DEF SInv, ButtonsOK
  <2>4. QED
    BY <1>1, <2>3 DEF SInv, ButtonsOK, Busy, Alive
<1>8. ResumesOK'
  <2>1. \A s \in Session : session[s].active \in Run \cup {NoRun} /\ session[s].paused \in Run \cup {NoRun}
    BY <1>0 DEF Row
  <2>2. \A s \in Session : session[s].active # NoRun => resumes[session[s].active] <= crashes + outside
    <3> SUFFICES ASSUME NEW s \in Session, session[s].active # NoRun
                 PROVE  resumes[session[s].active] <= crashes + outside
      OBVIOUS
    <3>1. session[s].active \in Run /\ resumes[session[s].active] <= outside
      BY <1>3, <2>1 DEF SInv, ResumesOK
    <3>2. QED
      BY <1>0, <3>1
  <2>3. \A r \in Run : (\A s \in Session : session'[s].paused # r) => \A s \in Session : session[s].paused # r
    BY <1>2 DEF Run, NoRun
  <2>4. QED
    BY <1>1, <1>2, <2>2, <2>3 DEF SInv, ResumesOK, Decided
<1>9. QED
  BY <1>1, <1>4, <1>5, <1>6, <1>7, <1>8 DEF SInv

\* What a match or a status would correct is right already.
LEMMA NothingStale ==
  ASSUME Typed, SInv, MatchToken \/ ShowStatus
  PROVE  UNCHANGED <<session, closed>>
<1>0. /\ frame \in Frame /\ frame.row \in Row /\ frame.session \in Session
      /\ frame.row = session[frame.session]
  BY WorkTypes DEF MatchToken, ShowStatus, SInv, CopyOK
<1>1. frame.row.paused # NoRun => receipt[frame.row.paused].state = "paused"
  BY <1>0 DEF SInv, PausedIsGrounded
<1>2. frame.row.last # NoRun => receipt[frame.row.last].state = "terminal"
  BY <1>0 DEF SInv, HistoryStaysInConversation
<1>3. CASE MatchToken
  BY <1>1, <1>3 DEF MatchToken
<1>4. CASE ShowStatus
  BY <1>1, <1>2, <1>4 DEF ShowStatus, Grounded
<1>5. QED
  BY <1>3, <1>4

\* A handler gives up without a write.
LEMMA GiveUpKeeps ==
  ASSUME Typed, Typed', SInv,
         \/ (StartRun \/ SendAck \/ ConsumeToken \/ AnswerCallback) /\ Return
         \/ SendCard \/ ResumeRaises \/ ShowStatus \/ (MatchToken /\ Return)
  PROVE  SInv'
<1>0. /\ frame \in Frame /\ token \in [Token -> ApprovalBinding]
      /\ frame.pc = "callback" => frame.token \in Token
  BY WorkTypes DEF Typed, FrameOK
<1>1. frame'.pc \in {"idle", "down"}
  BY DEF Return, Idle, SendCard, ResumeRaises, ShowStatus
<1>2. /\ frame.pc \notin Decided \cup {"down"}
      /\ UNCHANGED <<owner, receipt, runs, cli, resumes, outside, crashes>>
      /\ \A t \in shown' : t \in shown \/ (frame.pc = "card" /\ t = frame.token)
  <2>1. CASE MatchToken
    BY <2>1 DEF MatchToken, Decided, ids
  <2>2. CASE SendCard
    BY <2>2 DEF SendCard, Decided, store, ids, history
  <2>3. CASE StartRun /\ Return
    BY <1>0, <2>3 DEF StartRun, Return, Idle, Decided, Frame
  <2>4. CASE SendAck \/ ConsumeToken \/ AnswerCallback
    BY <2>4 DEF SendAck, ConsumeToken, AnswerCallback, Decided, store, ids, history
  <2>5. CASE ResumeRaises \/ ShowStatus
    BY <2>5 DEF ResumeRaises, ShowStatus, Decided, store, ids, history
  <2>6. QED
    BY <2>1, <2>2, <2>3, <2>4, <2>5
<1>3. UNCHANGED <<session, closed>>
  <2>1. CASE MatchToken \/ ShowStatus
    BY <2>1, NothingStale
  <2>2. CASE StartRun /\ Return
    BY <2>2 DEF StartRun, Return, Idle
  <2>3. QED
    BY <2>1, <2>2 DEF SendAck, ConsumeToken, AnswerCallback, SendCard, ResumeRaises, store, history
<1>4. Dims
  <2>1. CASE ConsumeToken /\ Return
    <3>1. \/ token' = token
          \/ /\ token[frame.token].state = "pending" /\ frame.pc = "callback"
             /\ token' = [token EXCEPT ![frame.token].state = "expired"]
          \/ Goto("match")
      BY <2>1 DEF ConsumeToken
    <3>2. CASE Goto("match")
      BY <1>0, <2>1, <3>2 DEF Goto, Return, Idle, Frame
    <3>3. QED
      BY <1>0, <3>1, <3>2 DEF Dims, ApprovalBinding
  <2>2. CASE ~ConsumeToken
    BY <2>2 DEF Dims, StartRun, SendAck, AnswerCallback, SendCard, ResumeRaises, ShowStatus, MatchToken, store
  <2>3. QED
    BY <2>1, <2>2 DEF SendCard, ResumeRaises, ShowStatus, ConsumeToken, MatchToken
<1>5. QED
  BY <1>1, <1>2, <1>3, <1>4, Leave DEF Decided

LEMMA BackKeeps ==
  ASSUME Typed, Typed', SInv, TokensOK, ReceiptsOK,
         RunRefused \/ SettleTerminal \/ ResetSession \/ SaveCase
  PROVE  SInv'
<1>0. /\ frame \in Frame /\ frame.row \in Row /\ frame'.pc = "idle"
      /\ UNCHANGED <<owner, token, receipt, runs, cli, resumes, crashes, outside, shown>>
      /\ frame.pc \in Busy => frame.run \in Run
  BY WorkTypes DEF RunRefused, SettleTerminal, ResetSession, SaveCase, Return, Idle, ids
<1>1. frame.pc \in {"running", "settle", "bind"} => frame.row.paused = frame.from
  BY DEF SInv, CopyOK, Busy
<1>2. CASE RunRefused
  <2> DEFINE row == [frame.row EXCEPT !.active = NoRun]
  <2>1. frame.pc = "running" /\ SaveRow(row) /\ frame.from = NoRun
    BY <1>2 DEF RunRefused, SInv, CopyOK
  <2>2. /\ row \in Row /\ row.paused = NoRun /\ row.active = NoRun /\ row.conv = frame.row.conv
        /\ row.last = frame.row.last
    BY <1>0, <1>1, <2>1 DEF Row
  <2> HIDE DEF row
  <2>3. QED
    BY <1>0, <2>1, <2>2, WriteBack
<1>3. CASE SettleTerminal /\ frame.from = NoRun
  <2> DEFINE row == [frame.row EXCEPT !.active = NoRun, !.last = frame.run]
  <2>1. frame.pc = "settle" /\ SaveRow(row) /\ receipt[frame.run].state = "terminal"
    BY <1>3 DEF SettleTerminal
  <2>2. /\ row \in Row /\ row.paused = NoRun /\ row.active = NoRun /\ row.conv = frame.row.conv
        /\ row.last = frame.run
    BY <1>0, <1>1, <1>3, <2>1 DEF Row, Busy
  <2> HIDE DEF row
  <2>3. QED
    BY <1>0, <2>1, <2>2, WriteBack
<1>4. CASE SettleTerminal /\ frame.from # NoRun
  <2> DEFINE row == [frame.row EXCEPT !.paused = NoRun, !.last = frame.run]
  <2>1. frame.pc = "settle" /\ SaveRow(row) /\ receipt[frame.run].state = "terminal"
    BY <1>4 DEF SettleTerminal
  <2>2. frame.row.active = NoRun
    BY <1>1, <1>4, <2>1, WorkTypes DEF SInv, CopyOK, PausedIsGrounded
  <2>3. /\ row \in Row /\ row.paused = NoRun /\ row.active = NoRun /\ row.conv = frame.row.conv
        /\ row.last = frame.run
    BY <1>0, <2>1, <2>2 DEF Row, Busy
  <2> HIDE DEF row
  <2>4. QED
    BY <1>0, <2>1, <2>3, WriteBack
<1>5. CASE ResetSession
  <2> DEFINE row == [conv |-> convs + 1, case |-> frame.row.case,
                     active |-> NoRun, paused |-> NoRun, last |-> NoRun]
  <2>1. frame.pc = "reset" /\ SaveRow(row)
    BY <1>5 DEF ResetSession
  <2>2. row \in Row
    <3>1. convs + 1 \in 0 .. MaxConvs
      BY <1>5, GatewayAssumption DEF ResetSession, Typed, TypeOK
    <3>2. QED
      BY <1>0, <3>1 DEF Row
  <2>3. row.paused = NoRun /\ row.active = NoRun /\ row.last = NoRun
    OBVIOUS
  <2> HIDE DEF row
  <2>4. QED
    BY <1>0, <2>1, <2>2, <2>3, WriteBack
<1>6. CASE SaveCase
  <2>1. frame.pc = "bind" /\ frame.from = NoRun
    BY <1>6 DEF SaveCase, SInv, CopyOK
  <2>2. PICK c \in Case \cup {NoCase} : SaveRow([frame.row EXCEPT !.case = c])
    BY <1>6 DEF SaveCase
  <2> DEFINE row == [frame.row EXCEPT !.case = c]
  <2>3. SaveRow(row)
    BY <2>2
  <2>4. /\ row \in Row /\ row.paused = NoRun /\ row.active = frame.row.active
        /\ row.conv = frame.row.conv /\ row.last = frame.row.last
    BY <1>0, <1>1, <2>1 DEF Row
  <2> HIDE DEF row
  <2>5. QED
    BY <1>0, <2>1, <2>3, <2>4, WriteBack
<1>7. QED
  BY <1>2, <1>3, <1>4, <1>5, <1>6

LEMMA SessionStep ==
  ASSUME Typed, Typed', TokensOK, TokensOK', ReceiptsOK, SInv, [Next]_vars, bindings' = bindings,
         \A r \in Run : receipt[r].state # "none" => receipt'[r] = receipt[r]
  PROVE  SInv'
<1>1. CASE UNCHANGED vars
  BY <1>1 DEF vars, store, ids, history, SInv, PausedIsGrounded, HistoryStaysInConversation, CopyOK,
              ClosedOK, WorkOK, ActiveOK, Unsettled, OwnedOK, ButtonsOK, Alive, ResumesOK
<1>2. CASE Event
  BY <1>2, EventKeeps
<1>3. CASE StartRun \/ SendAck \/ ConsumeToken \/ MatchToken \/ AnswerCallback \/ SendCard
             \/ ResumeRaises \/ ShowStatus
  <2>1. frame \in Frame
    BY DEF Typed, TypeOK
  <2>2. StartRun => Return \/ frame'.pc = "ack"
    BY <2>1 DEF StartRun, Frame
  <2>3. SendAck => Return \/ frame'.pc = "running"
    BY <2>1 DEF SendAck, Goto, Frame
  <2>4. ConsumeToken => Return \/ frame'.pc = "match"
    BY <2>1 DEF ConsumeToken, Goto, Frame
  <2>5. MatchToken => Return \/ frame'.pc = "answer"
    BY <2>1 DEF MatchToken, Frame
  <2>6. AnswerCallback => Return \/ frame'.pc = "resume"
    BY <2>1 DEF AnswerCallback, Goto, Frame
  <2>7. QED
    BY <1>3, <2>2, <2>3, <2>4, <2>5, <2>6, GiveUpKeeps, GoOnKeeps, StartKeeps
<1>4. CASE \E kind \in {"paused", "terminal"} : RunSettles(kind) \/ ContinuationSettles(kind)
  BY <1>4, SettlesKeeps
<1>5. CASE RunRefused \/ SettleTerminal \/ ResetSession \/ SaveCase
  BY <1>5, BackKeeps
<1>6. CASE MintToken \/ SavePaused \/ Resume \/ ExpireButtons \/ AbandonPaused
  BY <1>6, MintKeeps, PauseKeeps, ResumeKeeps, ExpireKeeps
<1>7. CASE Crash
  <2>1. /\ frame'.pc = "down" /\ frame.pc # "down" /\ crashes' = crashes + 1
        /\ UNCHANGED <<session, owner, token, receipt, closed, runs, cli, resumes, outside, shown>>
    BY <1>7 DEF Crash, Idle, store, ids
  <2>2. QED
    BY <2>1, Leave DEF Dims
<1>8. CASE Recover
  BY <1>8, RecoverKeeps
<1>9. CASE Outside
  <2>1. bindings \in Nat
    BY DEF Typed, TypeOK
  <2>2. \E r \in Run, kind \in {"paused", "terminal"} : ResumeOutside(r, kind)
    BY <1>9, <2>1 DEF Outside, CliRead, CliWrite, SInv
  <2>3. QED
    BY <2>2, OutsideKeeps
<1>10. QED
  BY <1>1, <1>2, <1>3, <1>4, <1>5, <1>6, <1>7, <1>8, <1>9 DEF Next, Handler

-----------------------------------------------------------------------------
\* The whole invariant; the part about the rows as long as nobody binds from outside.
Grown == Typed /\ TokensOK /\ ReceiptsOK /\ (bindings = 0 => SInv)

LEMMA GrownInit == Init => Grown
BY InitTyped, TokensInit, ReceiptsInit, SessionInit DEF Grown

LEMMA TokensStep == Typed /\ TokensOK /\ [Next]_vars => TokensOK'
<1> SUFFICES ASSUME Typed, TokensOK, [Next]_vars PROVE TokensOK'
  OBVIOUS
<1>1. CASE UNCHANGED vars
  BY <1>1, TokensUntouched DEF vars, store, ids, history
<1>2. QED
  BY <1>1, TokensEvent, TokensHandler, TokensEnvironment DEF Next

\* Bindings are only ever counted up.
LEMMA BindingsGrow == Typed /\ [Next]_vars /\ bindings' = 0 => bindings = 0
<1> SUFFICES ASSUME Typed, [Next]_vars, bindings # 0 PROVE bindings' # 0
  OBVIOUS
<1>1. bindings \in Nat
  BY DEF Typed, TypeOK
<1>2. CASE UNCHANGED vars
  BY <1>2 DEF vars, history
<1>3. CASE Event
  BY <1>3 DEF Event, Text, New, BindCase, Status, Decide, Press, Receive, history
<1>4. CASE Handler
  BY <1>4 DEF Handler, StartRun, SendAck, RunRefused, RunSettles, SettleTerminal, MintToken,
              SavePaused, SendCard, ConsumeToken, MatchToken, AnswerCallback, Resume, ResumeRaises,
              ContinuationSettles, ExpireButtons, AbandonPaused, ResetSession, SaveCase, ShowStatus,
              history
<1>5. CASE Crash \/ Recover \/ Outside
  BY <1>1, <1>5 DEF Crash, Recover, Outside, CliRead, CliWrite, ResumeOutside
<1>6. QED
  BY <1>2, <1>3, <1>4, <1>5 DEF Next

LEMMA GrownStep == Grown /\ [Next]_vars => Grown'
<1> SUFFICES ASSUME Grown, [Next]_vars PROVE Grown'
  OBVIOUS
<1>1. Typed /\ TokensOK /\ ReceiptsOK
  BY DEF Grown
<1>2. Typed' /\ TokensOK'
  BY <1>1, StepTyped, TokensStep
<1>3. ReceiptsOK' /\ \A r \in Run : receipt[r].state # "none" => receipt'[r] = receipt[r]
  BY <1>1, ReceiptsStep
<1>4. ASSUME bindings' = 0 PROVE SInv'
  <2>1. bindings = 0 /\ SInv
    BY <1>1, <1>4, BindingsGrow DEF Grown
  <2>2. QED
    BY <1>1, <1>2, <1>3, <1>4, <2>1, SessionStep
<1>5. QED
  BY <1>2, <1>3, <1>4 DEF Grown

\* While no `bind-case` writes beside the dispatcher, every row that waits is
\* grounded in a paused receipt of its own conversation and case, no two wait on
\* the same run, and no history crosses a /new: through crashes between any two
\* commits, and whoever else resumes runs (service.py, recover_sessions).
THEOREM RowsStayGrounded == Spec => [](bindings = 0 => RowsAreGrounded)
<1>1. Grown => (bindings = 0 => RowsAreGrounded)
  BY DEF Grown, SInv, RowsAreGrounded
<1>2. QED
  BY <1>1, GrownInit, GrownStep, PTL DEF Spec

\* A button that is displayed and that the store would accept decides a run some
\* session of its chat waits on.
THEOREM LiveCardsMatch == Spec => [](bindings = 0 => LiveCardMatchesSession)
<1>1. Grown => (bindings = 0 => LiveCardMatchesSession)
  BY DEF Grown, SInv, ButtonsOK, Alive, LiveCardMatchesSession
<1>2. QED
  BY <1>1, GrownInit, GrownStep, PTL DEF Spec

\* Each crash lets a pause be resumed once more, and each resume from outside;
\* nothing else does.
THEOREM ResumesAreCounted ==
  Spec => [](bindings = 0 => \A r \in Run : resumes[r] <= 1 + crashes + outside)
<1>1. Grown => (bindings = 0 => \A r \in Run : resumes[r] <= 1 + crashes + outside)
  BY DEF Grown, SInv, ResumesOK
<1>2. QED
  BY <1>1, GrownInit, GrownStep, PTL DEF Spec

\* A run that is resumed from the gateway is the one its session waits on.
LEMMA ClosedStep ==
  Grown /\ [Next]_vars /\ bindings = 0 /\ outside' = 0 => \A r \in closed : resumes'[r] = resumes[r]
<1> SUFFICES ASSUME Grown, [Next]_vars, bindings = 0, outside' = 0, NEW r \in closed
             PROVE  resumes'[r] = resumes[r]
  OBVIOUS
<1>1. /\ Typed /\ SInv /\ closed \subseteq Run /\ resumes \in [Run -> Nat] /\ outside \in Nat
  BY DEF Grown, Typed, TypeOK
<1>2. CASE Resume
  <2>1. session[frame.session].paused = frame.from /\ frame.session \in Session
    BY <1>1, <1>2 DEF Resume, SInv, CopyOK, Typed, FrameOK
  <2>2. frame.from \notin closed
    BY <1>1, <2>1 DEF SInv, ClosedOK
  <2>3. QED
    BY <1>1, <1>2, <2>2 DEF Resume
<1>3. CASE \E p \in Run, kind \in {"paused", "terminal"} : ResumeOutside(p, kind)
  BY <1>1, <1>3 DEF ResumeOutside
<1>4. CASE UNCHANGED vars
  BY <1>4 DEF vars, history
<1>5. CASE Event
  BY <1>5 DEF Event, Text, New, BindCase, Status, Decide, Press, Receive, history
<1>6. CASE Handler /\ ~Resume
  BY <1>6 DEF Handler, StartRun, SendAck, RunRefused, RunSettles, SettleTerminal, MintToken,
              SavePaused, SendCard, ConsumeToken, MatchToken, AnswerCallback, ResumeRaises,
              ContinuationSettles, ExpireButtons, AbandonPaused, ResetSession, SaveCase, ShowStatus,
              history
<1>7. CASE \/ Crash \/ Recover \/ CliWrite \/ \E s \in Session, u \in User : CliRead(s, u)
  BY <1>7 DEF Crash, Recover, CliRead, CliWrite
<1>8. QED
  BY <1>2, <1>3, <1>4, <1>5, <1>6, <1>7 DEF Next, Outside

\* With the dispatcher alone on its state root, a pause is resumed a second time
\* only after a crash, and never once its session has stopped waiting for it
\* (continuation.py; service.py).
THEOREM SettledRunsStaySettled ==
  Spec /\ [](bindings = 0 /\ outside = 0) => SettledForGood
<1> DEFINE Alone == bindings = 0 /\ outside = 0
<1>1. Grown /\ Alone => RepeatNeedsCrash
  <2> SUFFICES ASSUME Grown, Alone, NEW r \in Run PROVE resumes[r] <= 1 + crashes
    BY DEF RepeatNeedsCrash
  <2>1. resumes[r] \in Nat /\ crashes \in Nat /\ resumes[r] <= 1 + crashes + outside
    BY DEF Grown, SInv, ResumesOK, Typed, TypeOK
  <2>2. QED
    BY <2>1
<1>2. Grown /\ [Next]_vars /\ Alone /\ Alone' => [\A r \in closed : resumes'[r] = resumes[r]]_vars
  BY ClosedStep
<1> HIDE DEF Alone
<1>3. Spec /\ []Alone => []RepeatNeedsCrash /\ [][\A r \in closed : resumes'[r] = resumes[r]]_vars
  BY <1>1, <1>2, GrownInit, GrownStep, PTL DEF Spec
<1>4. QED
  BY <1>3 DEF SettledForGood, ClosedStaysClosed, Alone

-----------------------------------------------------------------------------
(* The rows implement SessionLifecycle, step by step.                       *)

Convs == [s \in Session |-> session[s].conv]
Busys == [s \in Session |-> session[s].active # NoRun]
Gates == [s \in Session |-> session[s].paused]

LEMMA LifecycleInit == Init => Lifecycle!Init
<1> SUFFICES ASSUME Init PROVE Lifecycle!Init
  OBVIOUS
<1>1. 1 .. convs = {}
  BY DEF Init
<1>2. QED
  BY <1>1 DEF Init, Lifecycle!Init, EmptyRow

\* A step that leaves the rows, the closed waits and the conversations alone.
LEMMA Stutters ==
  ASSUME \/ UNCHANGED session
         \/ UNCHANGED <<Convs, Busys, Gates>>,
         UNCHANGED <<closed, convs>>
  PROVE  UNCHANGED Lifecycle!vars
BY DEF Lifecycle!vars, Convs, Busys, Gates

\* One row is written: what its three fields of the lifecycle become.
LEMMA OneRow ==
  ASSUME Typed, NEW s \in Session, NEW row \in Row, session'[s] = row,
         \A q \in Session : q # s => session'[q] = session[q]
  PROVE  /\ Convs' = [Convs EXCEPT ![s] = row.conv]
         /\ row.active # NoRun => Busys' = [Busys EXCEPT ![s] = TRUE]
         /\ row.active = NoRun => Busys' = [Busys EXCEPT ![s] = FALSE]
         /\ Gates' = [Gates EXCEPT ![s] = row.paused]
         /\ row.conv = session[s].conv => Convs' = Convs
         /\ (row.active # NoRun) = (session[s].active # NoRun) => Busys' = Busys
         /\ row.paused = session[s].paused => Gates' = Gates
BY DEF Convs, Busys, Gates

\* A new row and a new conversation: nothing is left behind.
LEMMA RotateLifts ==
  ASSUME Typed, Typed', NEW s \in Session, NEW row \in Row, session'[s] = row,
         \A q \in Session : q # s => session'[q] = session[q],
         convs < MaxConvs, convs' = convs + 1,
         row.conv = convs + 1, row.active = NoRun, row.paused = NoRun,
         closed' = IF session[s].paused = NoRun THEN closed ELSE closed \cup {session[s].paused}
  PROVE  Lifecycle!Rotate(s)
<1>1. convs \in 0 .. MaxConvs /\ MaxConvs \in Nat
  BY GatewayAssumption DEF Typed, TypeOK
<1>2. convs + 1 \in (1 .. MaxConvs) \ (1 .. convs) /\ 1 .. (convs + 1) = (1 .. convs) \cup {convs + 1}
  BY <1>1
<1>3. /\ Convs' = [Convs EXCEPT ![s] = convs + 1] /\ Busys' = [Busys EXCEPT ![s] = FALSE]
      /\ Gates' = [Gates EXCEPT ![s] = NoRun]
  BY OneRow
<1>4. Gates[s] = session[s].paused
  BY DEF Gates
<1>5. closed' = IF Gates[s] = NoRun THEN closed ELSE closed \cup {Gates[s]}
  BY <1>4
<1>6. QED
  BY <1>2, <1>3, <1>5 DEF Lifecycle!Rotate, Lifecycle!Left, Convs, Busys, Gates

\* A handler that writes its row: the start, the end, the wait, the reset.
LEMMA RowFacts ==
  ASSUME Typed, SInv, NEW row \in Row, SaveRow(row),
         frame.pc \in {"start", "running", "settle", "pause", "reset", "bind"}
  PROVE  /\ frame.session \in Session /\ session'[frame.session] = row
         /\ \A q \in Session : q # frame.session => session'[q] = session[q]
         /\ frame.row = session[frame.session] /\ frame.row \in Row
         /\ row.paused = frame.row.paused \/ frame.row.paused = NoRun => closed' = closed
         /\ frame.row.paused # NoRun /\ row.paused # frame.row.paused
              => closed' = closed \cup {frame.row.paused}
<1>1. frame.session \in Session /\ frame.row = session[frame.session] /\ frame.row \in Row
  BY WorkTypes DEF SInv, CopyOK
<1>2. QED
  BY <1>1, SaveFacts DEF SaveRow

LEMMA StartLifts ==
  ASSUME Typed, SInv, StartRun, frame'.pc = "ack", NEW at \in Session, at = frame.session
  PROVE  Lifecycle!Start(at)
<1> DEFINE row == [frame.row EXCEPT !.active = runs + 1]
<1>1. frame.pc = "start" /\ SaveRow(row) /\ convs' = convs /\ runs < MaxRuns
  BY DEF StartRun, Return, Idle
<1>2. runs + 1 \in Run /\ frame.row \in Row
  BY <1>1, NextRunTyped, WorkTypes
<1>3. /\ row \in Row /\ row.active # NoRun /\ row.conv = frame.row.conv /\ row.paused = frame.row.paused
  BY <1>2 DEF Row, Run, NoRun
<1> HIDE DEF row
<1>4. frame.row.paused = NoRun
  BY <1>1 DEF SInv, CopyOK
<1>5. /\ frame.session \in Session /\ session'[frame.session] = row /\ closed' = closed
      /\ \A q \in Session : q # frame.session => session'[q] = session[q]
      /\ frame.row = session[frame.session]
  BY <1>1, <1>3, <1>4, RowFacts
<1>6. Convs' = Convs /\ Gates' = Gates /\ Busys' = [Busys EXCEPT ![frame.session] = TRUE]
  BY <1>3, <1>5, OneRow
<1>7. Gates[frame.session] = NoRun
  BY <1>4, <1>5 DEF Gates
<1>8. QED
  BY <1>1, <1>5, <1>6, <1>7 DEF Lifecycle!Start, Convs, Busys, Gates

\* The row is free again: a refused run, or one that ended.
LEMMA EndLifts ==
  ASSUME Typed, SInv, RunRefused \/ (SettleTerminal /\ frame.from = NoRun),
         NEW at \in Session, at = frame.session
  PROVE  Lifecycle!Settle({at})
<1>1. /\ frame.pc \in {"running", "settle"} /\ frame.from = NoRun /\ convs' = convs
      /\ frame.row.paused = NoRun /\ frame.row \in Row /\ frame.run \in Run
  BY WorkTypes DEF RunRefused, SettleTerminal, ids, SInv, CopyOK, Busy
<1>2. \E row \in Row : /\ SaveRow(row) /\ row.active = NoRun /\ row.conv = frame.row.conv
                       /\ row.paused = frame.row.paused
  <2>1. CASE RunRefused
    <3>1. SaveRow([frame.row EXCEPT !.active = NoRun])
      BY <2>1 DEF RunRefused
    <3>2. QED
      BY <1>1, <3>1 DEF Row
  <2>2. CASE SettleTerminal
    <3> DEFINE row == [frame.row EXCEPT !.active = NoRun, !.last = frame.run]
    <3>1. SaveRow(row)
      BY <1>1, <2>2 DEF SettleTerminal
    <3>2. /\ row \in Row /\ row.active = NoRun /\ row.conv = frame.row.conv
          /\ row.paused = frame.row.paused
      BY <1>1 DEF Row
    <3> HIDE DEF row
    <3>3. QED
      BY <3>1, <3>2
  <2>3. QED
    BY <2>1, <2>2
<1>3. PICK row \in Row : /\ SaveRow(row) /\ row.active = NoRun /\ row.conv = frame.row.conv
                         /\ row.paused = frame.row.paused
  BY <1>2
<1>4. /\ frame.session \in Session /\ session'[frame.session] = row /\ closed' = closed
      /\ \A q \in Session : q # frame.session => session'[q] = session[q]
      /\ frame.row = session[frame.session]
  BY <1>1, <1>3, RowFacts
<1>5. Convs' = Convs /\ Gates' = Gates /\ Busys' = [Busys EXCEPT ![frame.session] = FALSE]
  BY <1>3, <1>4, OneRow
<1>6. Busys' = [q \in Session |-> Busys[q] /\ q \notin {frame.session}]
  BY <1>5 DEF Busys
<1>7. QED
  BY <1>1, <1>4, <1>5, <1>6 DEF Lifecycle!Settle, Convs, Busys, Gates

\* A decision was carried out: the row is free, or waits on the continuation.
LEMMA DecisionLifts ==
  ASSUME Typed, SInv, SettleTerminal \/ SavePaused, frame.from # NoRun,
         NEW at \in Session, at = frame.session
  PROVE  Lifecycle!Release(at)
<1>1. /\ frame.pc \in {"settle", "pause"} /\ convs' = convs
      /\ frame.row.paused = frame.from /\ frame.row \in Row /\ frame.run \in Run
      /\ frame.run \notin closed /\ \A s \in Session : session[s].paused # frame.run
      /\ frame.row = session[frame.session] /\ frame.session \in Session
  BY WorkTypes DEF SettleTerminal, SavePaused, ids, SInv, CopyOK, WorkOK, Busy
<1>2. frame.row.active = NoRun
  BY <1>1 DEF SInv, PausedIsGrounded
<1>3. \E row \in Row : /\ SaveRow(row) /\ row.active = NoRun /\ row.conv = frame.row.conv
                       /\ row.paused \in {NoRun, frame.run}
  <2>1. CASE SettleTerminal
    <3> DEFINE row == [frame.row EXCEPT !.paused = NoRun, !.last = frame.run]
    <3>1. SaveRow(row)
      BY <2>1 DEF SettleTerminal
    <3>2. row \in Row /\ row.active = NoRun /\ row.conv = frame.row.conv /\ row.paused = NoRun
      BY <1>1, <1>2 DEF Row
    <3> HIDE DEF row
    <3>3. QED
      BY <3>1, <3>2
  <2>2. CASE SavePaused
    <3> DEFINE row == [frame.row EXCEPT !.active = NoRun, !.paused = frame.run]
    <3>1. SaveRow(row)
      BY <2>2 DEF SavePaused
    <3>2. row \in Row /\ row.active = NoRun /\ row.conv = frame.row.conv /\ row.paused = frame.run
      BY <1>1 DEF Row
    <3> HIDE DEF row
    <3>3. QED
      BY <3>1, <3>2
  <2>3. QED
    BY <2>1, <2>2
<1>4. PICK row \in Row : /\ SaveRow(row) /\ row.active = NoRun /\ row.conv = frame.row.conv
                         /\ row.paused \in {NoRun, frame.run}
  BY <1>3
<1>5. row.paused # frame.from
  BY <1>1, <1>4
<1>6. /\ session'[frame.session] = row /\ closed' = closed \cup {frame.from}
      /\ \A q \in Session : q # frame.session => session'[q] = session[q]
  BY <1>1, <1>4, <1>5, RowFacts
<1>7. Convs' = Convs /\ Busys' = Busys /\ Gates' = [Gates EXCEPT ![frame.session] = row.paused]
  BY <1>1, <1>2, <1>4, <1>6, OneRow
<1>8. Gates[frame.session] = frame.from /\ \A s \in Session : Gates[s] # frame.run
  BY <1>1 DEF Gates
<1>9. row.paused # NoRun => row.paused \notin closed /\ \A s \in Session : Gates[s] # row.paused
  BY <1>1, <1>4, <1>8
<1>10. row.paused \in Run \cup {NoRun}
  BY DEF Row
<1>11. QED
  BY <1>1, <1>6, <1>7, <1>8, <1>9, <1>10
     DEF Lifecycle!Release, Lifecycle!Fresh, Lifecycle!Left, Convs, Busys, Gates

\* A first pause: the row waits on the run it was busy with.
LEMMA WaitLifts ==
  ASSUME Typed, SInv, SavePaused, frame.from = NoRun,
         NEW at \in Session, NEW r \in Run, at = frame.session, r = frame.run
  PROVE  Lifecycle!Wait(at, r)
<1> DEFINE row == [frame.row EXCEPT !.active = NoRun, !.paused = frame.run]
<1>1. /\ frame.pc = "pause" /\ SaveRow(row) /\ convs' = convs
      /\ frame.row.paused = NoRun /\ frame.row \in Row /\ frame.run \in Run
      /\ frame.run \notin closed /\ \A s \in Session : session[s].paused # frame.run
      /\ frame.row = session[frame.session] /\ frame.session \in Session
      /\ frame.row.active = frame.run
  BY WorkTypes DEF SavePaused, ids, SInv, CopyOK, WorkOK, Busy
<1>2. row \in Row /\ row.active = NoRun /\ row.conv = frame.row.conv /\ row.paused = frame.run
  BY <1>1 DEF Row
<1> HIDE DEF row
<1>3. /\ session'[frame.session] = row /\ closed' = closed
      /\ \A q \in Session : q # frame.session => session'[q] = session[q]
  BY <1>1, <1>2, RowFacts
<1>4. /\ Convs' = Convs /\ Busys' = [Busys EXCEPT ![frame.session] = FALSE]
      /\ Gates' = [Gates EXCEPT ![frame.session] = frame.run]
  BY <1>1, <1>2, <1>3, OneRow
<1>5. frame.run # NoRun
  BY <1>1 DEF Run, NoRun
<1>6. Busys[frame.session] /\ Gates[frame.session] = NoRun /\ \A s \in Session : Gates[s] # frame.run
  BY <1>1, <1>5 DEF Busys, Gates
<1>7. Busys' = [q \in Session |-> Busys[q] /\ q \notin {} \cup {frame.session}]
  BY <1>4 DEF Busys
<1>8. \E S \in SUBSET Session : Busys' = [q \in Session |-> Busys[q] /\ q \notin S \cup {frame.session}]
  BY <1>7
<1>9. QED
  BY <1>1, <1>3, <1>4, <1>6, <1>8 DEF Lifecycle!Wait, Lifecycle!Fresh, Convs, Busys, Gates

LEMMA ResetLifts ==
  ASSUME Typed, Typed', SInv, ResetSession, NEW at \in Session, at = frame.session
  PROVE  Lifecycle!Rotate(at)
<1> DEFINE row == [conv |-> convs + 1, case |-> frame.row.case,
                   active |-> NoRun, paused |-> NoRun, last |-> NoRun]
<1>1. frame.pc = "reset" /\ SaveRow(row) /\ convs < MaxConvs /\ convs' = convs + 1
  BY DEF ResetSession
<1>2. row \in Row
  <2>1. convs + 1 \in 0 .. MaxConvs /\ frame.row \in Row
    BY <1>1, WorkTypes, GatewayAssumption DEF Typed, TypeOK
  <2>2. QED
    BY <2>1 DEF Row
<1>3. row.conv = convs + 1 /\ row.active = NoRun /\ row.paused = NoRun
  OBVIOUS
<1> HIDE DEF row
<1>4. /\ frame.session \in Session /\ session'[frame.session] = row
      /\ \A q \in Session : q # frame.session => session'[q] = session[q]
      /\ closed' = IF session[frame.session].paused = NoRun THEN closed
                   ELSE closed \cup {session[frame.session].paused}
  BY <1>1, <1>2, <1>3, RowFacts
<1>5. QED
  BY <1>1, <1>2, <1>3, <1>4, RotateLifts

\* An event opens the row at most.
LEMMA OpenLifts ==
  ASSUME Typed, Typed', SInv, NEW s \in Session, NEW u \in User, Open(s, u), UNCHANGED closed
  PROVE  Lifecycle!Rotate(s) \/ UNCHANGED Lifecycle!vars
<1>1. CASE owner[s] = NoUser
  <2> DEFINE row == [EmptyRow EXCEPT !.conv = convs + 1]
  <2>1. convs < MaxConvs /\ convs' = convs + 1 /\ session[s] = EmptyRow
        /\ session' = [session EXCEPT ![s] = row]
    BY <1>1 DEF Open, Opened, SInv, OwnedOK
  <2>2. row \in Row
    <3>1. Opened(s) \in Row
      BY OpenTyped DEF Typed
    <3>2. QED
      BY <1>1, <3>1 DEF Opened
  <2>3. row.conv = convs + 1 /\ row.active = NoRun /\ row.paused = NoRun /\ EmptyRow.paused = NoRun
    BY DEF EmptyRow
  <2> HIDE DEF row
  <2>4. session'[s] = row /\ \A q \in Session : q # s => session'[q] = session[q]
    BY <2>1 DEF Typed, TypeOK
  <2>5. closed' = IF session[s].paused = NoRun THEN closed ELSE closed \cup {session[s].paused}
    BY <2>1, <2>3
  <2>6. QED
    BY <2>1, <2>2, <2>3, <2>4, <2>5, RotateLifts
<1>2. CASE owner[s] # NoUser
  <2>1. session' = session /\ convs' = convs
    BY <1>2 DEF Open, Opened, Typed, TypeOK
  <2>2. QED
    BY <2>1, Stutters
<1>3. QED
  BY <1>1, <1>2

\* A restart: what was active ends, and one run that had paused may be found.
LEMMA RecoverLifts ==
  ASSUME Typed, SInv, Recover
  PROVE  \/ Lifecycle!Settle(Session)
         \/ \E s \in Session, r \in Run : Lifecycle!Wait(s, r)
<1>0. /\ session \in [Session -> Row] /\ receipt \in [Run -> Receipt] /\ convs' = convs
      /\ \A s \in Session : session[s].active \in Run \cup {NoRun}
  BY WorkTypes DEF Recover, ids, Row
<1>1. /\ closed' = closed
      /\ \A s \in Session :
           /\ session'[s].conv = session[s].conv /\ session'[s].active = NoRun
           /\ session[s].active = NoRun => session'[s] = session[s]
           /\ session[s].active # NoRun =>
                /\ session[s].paused = NoRun
                /\ session'[s].paused = IF receipt[session[s].active].state = "paused"
                                        THEN session[s].active ELSE NoRun
  BY RecoverFacts
<1>2. Convs' = Convs /\ Busys' = [s \in Session |-> FALSE]
  BY <1>1 DEF Convs, Busys
<1>3. ASSUME NEW w \in Session, NEW r \in Run, r = session[w].active, receipt[r].state = "paused"
      PROVE  Lifecycle!Wait(w, r)
  <2>1. r # NoRun
    BY DEF Run, NoRun
  <2>2. \A q \in Session : Unsettled(q) => q = w
    BY <1>3, <2>1 DEF SInv, ActiveOK, Unsettled
  <2>3. r \notin closed /\ \A q \in Session : session[q].paused # r
    BY <1>3, <2>1 DEF SInv, ActiveOK
  <2>4. \A q \in Session : q # w => session'[q].paused = session[q].paused
    BY <1>1, <2>2 DEF Unsettled
  <2>5. Gates' = [Gates EXCEPT ![w] = r]
    BY <1>1, <1>3, <2>1, <2>4 DEF Gates
  <2>6. Busys[w] /\ Gates[w] = NoRun /\ \A q \in Session : Gates[q] # r
    BY <1>1, <1>3, <2>1, <2>3 DEF Busys, Gates
  <2>7. Busys' = [q \in Session |-> Busys[q] /\ q \notin Session \cup {w}]
    BY <1>2
  <2>8. \E S \in SUBSET Session : Busys' = [q \in Session |-> Busys[q] /\ q \notin S \cup {w}]
    BY <2>7
  <2>9. QED
    BY <1>0, <1>1, <1>2, <2>3, <2>5, <2>6, <2>8
       DEF Lifecycle!Wait, Lifecycle!Fresh, Convs, Busys, Gates
<1>4. ASSUME \A w \in Session : session[w].active # NoRun => receipt[session[w].active].state # "paused"
      PROVE  Lifecycle!Settle(Session)
  <2>1. Gates' = Gates
    BY <1>1, <1>4 DEF Gates
  <2>2. Busys' = [s \in Session |-> Busys[s] /\ s \notin Session]
    BY <1>2
  <2>3. QED
    BY <1>0, <1>1, <1>2, <2>1, <2>2 DEF Lifecycle!Settle, Convs, Busys, Gates
<1>5. QED
  BY <1>0, <1>3, <1>4

\* A case is bound: the lifecycle does not see it.
LEMMA BindStutters == ASSUME Typed, SInv, SaveCase PROVE UNCHANGED Lifecycle!vars
<1>1. frame.pc = "bind" /\ convs' = convs /\ frame.row \in Row
  BY WorkTypes DEF SaveCase, ids
<1>2. PICK c \in Case \cup {NoCase} : SaveRow([frame.row EXCEPT !.case = c])
  BY DEF SaveCase
<1> DEFINE row == [frame.row EXCEPT !.case = c]
<1>3. SaveRow(row)
  BY <1>2
<1>4. /\ row \in Row /\ row.active = frame.row.active /\ row.paused = frame.row.paused
      /\ row.conv = frame.row.conv
  BY <1>1 DEF Row
<1> HIDE DEF row
<1>5. /\ frame.session \in Session /\ session'[frame.session] = row /\ closed' = closed
      /\ \A q \in Session : q # frame.session => session'[q] = session[q]
      /\ frame.row = session[frame.session]
  BY <1>1, <1>3, <1>4, RowFacts
<1>6. UNCHANGED <<Convs, Busys, Gates>>
  BY <1>4, <1>5, OneRow
<1>7. QED
  BY <1>1, <1>5, <1>6, Stutters

LEMMA EventLifts ==
  ASSUME Typed, Typed', SInv, Event
  PROVE  (\E s \in Session : Lifecycle!Rotate(s)) \/ UNCHANGED Lifecycle!vars
<1>1. ASSUME NEW u \in User, NEW s \in Session, NEW pc, Receive(s, u, pc)
      PROVE  Lifecycle!Rotate(s) \/ UNCHANGED Lifecycle!vars
  BY <1>1, OpenLifts DEF Receive, history
<1>2. ASSUME NEW u \in User, NEW s \in Session, Decide(s, u) PROVE UNCHANGED Lifecycle!vars
  BY <1>2, Stutters DEF Decide, store, ids, history
<1>3. ASSUME NEW u \in User, NEW t \in Token, Press(t, u)
      PROVE  (\E s \in Session : Lifecycle!Rotate(s)) \/ UNCHANGED Lifecycle!vars
  <2>1. PICK s \in Session : s = <<token[t].channel, Main>>
    BY <1>3 DEF Press, Typed, CardsOK, Session
  <2>2. Open(s, u) /\ UNCHANGED closed
    BY <1>3, <2>1 DEF Press, history
  <2>3. QED
    BY <2>2, OpenLifts
<1>4. QED
  BY <1>1, <1>2, <1>3 DEF Event, Text, New, BindCase, Status

\* Every step of the gateway is a step of the lifecycle, or one it does not see.
LEMMA LifecycleStep ==
  ASSUME Typed, Typed', SInv, [Next]_vars, bindings' = bindings
  PROVE  [Lifecycle!Next]_Lifecycle!vars
<1>1. CASE UNCHANGED vars
  BY <1>1, Stutters DEF vars, store, ids, history
<1>2. CASE Event
  BY <1>2, EventLifts DEF Lifecycle!Next
<1>3. CASE StartRun
  <2>1. frame \in Frame
    BY DEF Typed, TypeOK
  <2>2. CASE frame'.pc = "ack"
    <3>1. PICK s \in Session : s = frame.session
      BY <1>3, WorkTypes DEF StartRun
    <3>2. Lifecycle!Start(s)
      BY <1>3, <2>2, <3>1, StartLifts
    <3>3. QED
      BY <3>2 DEF Lifecycle!Next
  <2>3. CASE frame'.pc # "ack"
    <3>1. UNCHANGED <<session, closed, convs>>
      BY <1>3, <2>1, <2>3 DEF StartRun, Frame
    <3>2. QED
      BY <3>1, Stutters
  <2>4. QED
    BY <2>2, <2>3
<1>4. CASE RunRefused \/ (SettleTerminal /\ frame.from = NoRun)
  <2>1. PICK s \in Session : s = frame.session
    BY <1>4, WorkTypes DEF RunRefused, SettleTerminal
  <2>2. Lifecycle!Settle({s})
    BY <1>4, <2>1, EndLifts
  <2>3. {s} \in SUBSET Session
    OBVIOUS
  <2>4. QED
    BY <2>2, <2>3 DEF Lifecycle!Next
<1>5. CASE (SettleTerminal \/ SavePaused) /\ frame.from # NoRun
  <2>1. PICK s \in Session : s = frame.session
    BY <1>5, WorkTypes DEF SavePaused, SettleTerminal
  <2>2. Lifecycle!Release(s)
    BY <1>5, <2>1, DecisionLifts
  <2>3. QED
    BY <2>2 DEF Lifecycle!Next
<1>6. CASE SavePaused /\ frame.from = NoRun
  <2>1. PICK s \in Session, r \in Run : s = frame.session /\ r = frame.run
    BY <1>6, WorkTypes DEF SavePaused, Busy
  <2>2. Lifecycle!Wait(s, r)
    BY <1>6, <2>1, WaitLifts
  <2>3. QED
    BY <2>2 DEF Lifecycle!Next
<1>7. CASE ResetSession
  <2>1. PICK s \in Session : s = frame.session
    BY <1>7, WorkTypes DEF ResetSession
  <2>2. Lifecycle!Rotate(s)
    BY <1>7, <2>1, ResetLifts
  <2>3. QED
    BY <2>2 DEF Lifecycle!Next
<1>8. CASE Recover
  BY <1>8, RecoverLifts DEF Lifecycle!Next
<1>9. CASE SaveCase
  BY <1>9, BindStutters
<1>10. CASE MatchToken \/ ShowStatus
  <2>1. UNCHANGED <<session, closed, convs>>
    BY <1>10, NothingStale DEF MatchToken, ShowStatus, ids
  <2>2. QED
    BY <2>1, Stutters
<1>11. CASE \/ SendAck \/ MintToken \/ SendCard \/ ConsumeToken \/ AnswerCallback
            \/ Resume \/ ResumeRaises \/ ExpireButtons \/ AbandonPaused \/ Crash
            \/ \E kind \in {"paused", "terminal"} : RunSettles(kind) \/ ContinuationSettles(kind)
  <2>1. UNCHANGED <<session, closed, convs>>
    BY <1>11 DEF SendAck, MintToken, SendCard, ConsumeToken, AnswerCallback, Resume, ResumeRaises,
                 ExpireButtons, AbandonPaused, Crash, RunSettles, ContinuationSettles,
                 store, ids, history
  <2>2. QED
    BY <2>1, Stutters
<1>12. CASE Outside
  <2>1. bindings \in Nat
    BY DEF Typed, TypeOK
  <2>2. UNCHANGED <<session, closed, convs>>
    BY <1>12, <2>1 DEF Outside, CliRead, CliWrite, ResumeOutside, SInv, store
  <2>3. QED
    BY <2>2, Stutters
<1>13. QED
  BY <1>1, <1>2, <1>3, <1>4, <1>5, <1>6, <1>7, <1>8, <1>9, <1>10, <1>11, <1>12 DEF Next, Handler

\* The rows implement the session lifecycle: a session is free, busy with one run
\* or waiting on one pause, through crashes, lost sends, recovery and whoever else
\* resumes runs, as long as no `bind-case` writes beside the dispatcher (service.py).
THEOREM RowsImplementLifecycle == Spec /\ [](bindings = 0) => ImplementsLifecycle
<1> DEFINE Unbound == bindings = 0
           LInit == Lifecycle!Init
           LStep == Lifecycle!Next
           Rows == Lifecycle!vars
<1>1. Grown /\ [Next]_vars /\ Unbound /\ Unbound' => [LStep]_Rows
  <2> SUFFICES ASSUME Grown, [Next]_vars, bindings = 0, bindings' = 0
               PROVE  [Lifecycle!Next]_Lifecycle!vars
    OBVIOUS
  <2>1. Typed /\ Typed' /\ SInv
    BY GrownStep DEF Grown
  <2>2. QED
    BY <2>1, LifecycleStep
<1>2. Init => LInit
  BY LifecycleInit
<1>3. ImplementsLifecycle <=> LInit /\ [][LStep]_Rows
  BY DEF ImplementsLifecycle, Lifecycle!Spec
<1> HIDE DEF Unbound, LInit, LStep, Rows
<1>4. Spec /\ []Unbound => LInit /\ [][LStep]_Rows
  BY <1>1, <1>2, GrownInit, GrownStep, PTL DEF Spec
<1>5. QED
  BY <1>3, <1>4 DEF Unbound
=============================================================================
