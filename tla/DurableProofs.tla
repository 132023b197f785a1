---------------------------- MODULE DurableProofs ----------------------------
(***************************************************************************)
(* The alert bridge, for any number of lines, files, days and faults, as   *)
(* long as events differ in their identity and no file is rewritten in     *)
(* place: the saved cursor never stands behind a material line that has    *)
(* not reached the chat; nothing is sent twice without a fault; a recovery *)
(* answers a loss.  Then the watchlists, one call at a time: what a user   *)
(* was told of a list stays true until somebody edits it.  Then the        *)
(* trading ledger, with overlapping processes that may die anywhere: no    *)
(* acknowledged buy is lost, alerts.jsonl tells what the files say before  *)
(* they say it, and what a human did is recorded and announced once.       *)
(***************************************************************************)
EXTENDS AlertBridge, FiniteSetTheorems, SequenceTheorems, TLAPS

State == [offset : 0 .. MaxLines, inode : 0 .. MaxFiles, ids : Seq(Event),
          pending : BOOLEAN, daily : 0 .. MaxDays]

\* The lines of one file: an event stands in it once, under its own identity.
Sound(lines) ==
  /\ lines \in Seq(Line)
  /\ \A j, k \in 1 .. Len(lines) : lines[j].event = lines[k].event => j = k
  /\ \A j \in 1 .. Len(lines) : lines[j].id = lines[j].event

\* A state stands at or before current; on current it is within the lines, and
\* what is material before it was sent, as was what it has identities of.
Cursor(s, files, now, count) ==
  /\ s \in State /\ Len(s.ids) <= Cap
  /\ s.inode <= now /\ (s.inode = 0 => s.offset = 0)
  /\ s.inode = now =>
       /\ s.offset <= Len(files[now])
       /\ \A i \in 1 .. s.offset : Material(files[now][i]) => count[files[now][i].event] > 0
  /\ \A i \in 1 .. Len(s.ids) : count[s.ids[i]] > 0

Events == {l.event : l \in Appended}

FilesOK ==
  /\ file \in [1 .. MaxFiles -> Seq(Line)] /\ current \in 1 .. MaxFiles
  /\ \A i \in 1 .. MaxFiles : Sound(file[i]) /\ (i > current => file[i] = <<>>)
  /\ \E n \in 0 .. MaxLines : Events = 1 .. n

\* What the tick reads was opened at or after the inode it noted; at a
\* checkpoint the line it stands before has been sent.
TickOK ==
  /\ opened \in 0 .. MaxFiles
  /\ pc \in {"idle", "recovery", "recovered", "daily", "summed", "stat", "open",
             "read", "checkpoint"}
  /\ pc \in {"open", "read", "checkpoint"} => st.inode > 0
  /\ pc \in {"read", "checkpoint"} => st.inode <= opened /\ opened <= current
  /\ pc = "checkpoint" => st.offset < Len(file[opened]) /\ sent[Next1.event] > 0

CountsOK ==
  /\ sent \in [Event -> Nat] /\ recovered \in Nat /\ daily \in [1 .. MaxDays -> Nat]
  /\ day \in 1 .. MaxDays /\ faults \in 0 .. MaxFaults

IInv ==
  /\ FilesOK /\ TickOK /\ CountsOK
  /\ Cursor(disk, file, current, sent) /\ Cursor(st, file, current, sent)
-----------------------------------------------------------------------------
(* Lines and files.                                                        *)

LEMMA LineFacts ==
  ASSUME NEW lines, Sound(lines)
  PROVE  /\ Len(lines) \in Nat /\ DOMAIN lines = 1 .. Len(lines)
         /\ \A j \in 1 .. Len(lines) : lines[j] \in Line /\ lines[j].event \in Event
<1>1. lines \in Seq(Line)
  BY DEF Sound
<1>2. Len(lines) \in Nat /\ DOMAIN lines = 1 .. Len(lines)
  BY <1>1, LenProperties
<1>3. \A j \in 1 .. Len(lines) : lines[j] \in Line
  BY <1>1, ElementOfSeq
<1> QED
  BY <1>2, <1>3 DEF Line

\* There are no more lines in a file than events.
LEMMA FileSize ==
  ASSUME BridgeAssumption, NEW lines, Sound(lines)
  PROVE  Len(lines) <= MaxLines
<1> DEFINE f == [j \in 1 .. Len(lines) |-> lines[j].event]
<1>1. Len(lines) \in Nat /\ \A j \in 1 .. Len(lines) : lines[j].event \in Event
  BY LineFacts
<1>2. f \in Injection(1 .. Len(lines), Event)
  BY <1>1 DEF Injection, IsInjective, Sound
<1>3. MaxLines \in Nat
  BY DEF BridgeAssumption
<1>4. IsFiniteSet(Event) /\ Cardinality(Event) = MaxLines
  BY <1>3, FS_Interval DEF Event
<1> HIDE DEF f
<1>5. Cardinality(1 .. Len(lines)) <= Cardinality(Event)
  BY <1>2, <1>4, FS_Injection
<1>6. \A n \in Nat : Cardinality(1 .. n) = n
  BY FS_Interval
<1> QED
  BY <1>1, <1>4, <1>5, <1>6

LEMMA AppendSound ==
  ASSUME NEW lines, Sound(lines), NEW e \in Event, NEW kind \in Kind,
         \A j \in 1 .. Len(lines) : lines[j].event # e
  PROVE  LET more == Append(lines, [event |-> e, id |-> e, kind |-> kind])
         IN  /\ Sound(more) /\ Len(more) = Len(lines) + 1
             /\ \A j \in 1 .. Len(lines) : more[j] = lines[j]
             /\ more[Len(lines) + 1] = [event |-> e, id |-> e, kind |-> kind]
<1> DEFINE l == [event |-> e, id |-> e, kind |-> kind]
           more == Append(lines, l)
<1>1. l \in Line /\ l.event = e /\ l.id = e
  BY DEF Line
<1>2. lines \in Seq(Line) /\ Len(lines) \in Nat
  BY LineFacts DEF Sound
<1> HIDE DEF l
<1>3. /\ more \in Seq(Line) /\ Len(more) = Len(lines) + 1
      /\ \A j \in 1 .. Len(lines) : more[j] = lines[j]
      /\ more[Len(lines) + 1] = l
  BY <1>1, <1>2, AppendProperties
<1> HIDE DEF more
<1>4. \A j \in 1 .. Len(more) : j \in 1 .. Len(lines) \/ j = Len(lines) + 1
  BY <1>2, <1>3
<1>5. Sound(more)
  BY <1>1, <1>2, <1>3, <1>4 DEF Sound
<1> QED
  BY <1>3, <1>5 DEF more, l

LEMMA KeepSound ==
  ASSUME NEW lines, Sound(lines), NEW k \in 0 .. Len(lines)
  PROVE  LET kept == SubSeq(lines, k + 1, Len(lines))
         IN  /\ Sound(kept)
             /\ \A j \in 1 .. Len(kept) : \E i \in 1 .. Len(lines) : kept[j] = lines[i]
<1> DEFINE kept == SubSeq(lines, k + 1, Len(lines))
<1>1. Len(lines) \in Nat /\ \A i \in 1 .. Len(lines) : lines[i] \in Line
  BY LineFacts
<1>2. k + 1 \in Int /\ Len(lines) \in Int /\ \A i \in k + 1 .. Len(lines) : lines[i] \in Line
  BY <1>1
<1>3. /\ kept \in Seq(Line)
      /\ Len(kept) = IF k + 1 <= Len(lines) THEN Len(lines) - (k + 1) + 1 ELSE 0
      /\ \A i \in 1 .. Len(lines) - (k + 1) + 1 : kept[i] = lines[k + 1 + i - 1]
  BY <1>2, SubSeqProperties
<1> HIDE DEF kept
<1>4. \A j \in 1 .. Len(kept) : j + k \in 1 .. Len(lines) /\ kept[j] = lines[j + k]
  BY <1>1, <1>3
<1>5. \A i, j \in 1 .. Len(kept) : j + k = i + k => i = j
  BY <1>1, <1>3
<1>6. Sound(kept)
  <2>1. ASSUME NEW i \in 1 .. Len(kept), NEW j \in 1 .. Len(kept), kept[i].event = kept[j].event
        PROVE  i = j
    <3>1. /\ i + k \in 1 .. Len(lines) /\ j + k \in 1 .. Len(lines)
          /\ lines[i + k].event = lines[j + k].event
      BY <1>4, <2>1, Zenon
    <3> QED
      BY <1>5, <3>1, Zenon DEF Sound
  <2>2. \A j \in 1 .. Len(kept) : kept[j].id = kept[j].event
    BY <1>4 DEF Sound
  <2> QED
    BY <1>3, <2>1, <2>2 DEF Sound
<1> QED
  BY <1>4, <1>6 DEF kept

LEMMA EmptySound == Sound(<<>>)
  BY EmptySeq DEF Sound

\* What has been appended is what stands in some file.
LEMMA AppendedLines ==
  ASSUME FilesOK, NEW x
  PROVE  x \in Appended <=> \E i \in 1 .. MaxFiles : \E j \in 1 .. Len(file[i]) : x = file[i][j]
<1>1. \A i \in 1 .. MaxFiles : DOMAIN file[i] = 1 .. Len(file[i])
  BY LineFacts DEF FilesOK
<1> QED
  BY <1>1 DEF Appended, ToSet

\* A cursor outlives what only adds lines to a file and sends.
LEMMA CursorKept ==
  ASSUME NEW s, NEW files, NEW now \in Nat, NEW count, Cursor(s, files, now, count),
         NEW later, NEW counted,
         count \in [Event -> Nat], counted \in [Event -> Nat],
         \A e \in Event : counted[e] >= count[e],
         Sound(files[now]), Sound(later[now]),
         Len(files[now]) <= Len(later[now]),
         \A i \in 1 .. Len(files[now]) : later[now][i] = files[now][i]
  PROVE  Cursor(s, later, now, counted)
<1>1. s \in State /\ s.ids \in Seq(Event) /\ s.offset \in Nat
  BY DEF Cursor, State
<1>2. \A i \in 1 .. Len(s.ids) : s.ids[i] \in Event
  BY <1>1, ElementOfSeq
<1>3. \A i \in 1 .. Len(s.ids) : counted[s.ids[i]] > 0
  BY <1>2 DEF Cursor
<1>4. /\ Len(files[now]) \in Nat /\ Len(later[now]) \in Nat
      /\ \A i \in 1 .. Len(files[now]) : files[now][i].event \in Event
  BY LineFacts
<1>5. s.inode = now =>
       /\ s.offset <= Len(later[now])
       /\ \A i \in 1 .. s.offset : Material(later[now][i]) => counted[later[now][i].event] > 0
  <2> SUFFICES ASSUME s.inode = now
               PROVE  /\ s.offset <= Len(later[now])
                      /\ \A i \in 1 .. s.offset :
                           Material(later[now][i]) => counted[later[now][i].event] > 0
    OBVIOUS
  <2>1. s.offset <= Len(files[now]) /\ \A i \in 1 .. s.offset : i \in 1 .. Len(files[now])
    BY <1>1, <1>4 DEF Cursor
  <2>2. \A i \in 1 .. s.offset : Material(files[now][i]) => count[files[now][i].event] > 0
    BY DEF Cursor
  <2> QED
    BY <1>1, <1>4, <2>1, <2>2
<1> QED
  BY <1>3, <1>5 DEF Cursor

LEMMA Numbers == ASSUME BridgeAssumption PROVE
  {Cap, MaxLines, MaxFiles, MaxDays, MaxFaults} \subseteq Nat /\ Cap > 0 /\ MaxFiles > 0 /\ MaxDays > 0
  BY DEF BridgeAssumption

\* A state that noted an inode moves past a line of the file it reads, once
\* that line is sent or immaterial.
LEMMA CursorMoved ==
  ASSUME BridgeAssumption,
         NEW s, NEW files, NEW now \in 1 .. MaxFiles, NEW count, Cursor(s, files, now, count),
         NEW o \in 1 .. MaxFiles, s.inode > 0, s.inode <= o, o <= now, Sound(files[o]),
         s.offset < Len(files[o]),
         Material(files[o][s.offset + 1]) => count[files[o][s.offset + 1].event] > 0
  PROVE  Cursor([s EXCEPT !.offset = @ + 1], files, now, count)
<1> DEFINE t == [s EXCEPT !.offset = @ + 1]
<1>1. s \in State /\ s.offset \in Nat /\ s.inode \in Nat
  BY Numbers DEF Cursor, State
<1>2. Len(files[o]) \in Nat /\ Len(files[o]) <= MaxLines /\ MaxLines \in Nat
  BY LineFacts, FileSize, Numbers
<1>3. /\ t \in State /\ t.offset = s.offset + 1 /\ t.inode = s.inode /\ t.ids = s.ids
  BY <1>1, <1>2 DEF State
<1> HIDE DEF t
<1>4. t.inode = now => o = now
  BY <1>1, <1>3
<1>5. ASSUME t.inode = now, NEW i \in 1 .. t.offset, Material(files[now][i])
      PROVE  count[files[now][i].event] > 0
  <2>1. i \in 1 .. s.offset \/ i = s.offset + 1
    BY <1>1, <1>3
  <2>2. CASE i \in 1 .. s.offset
    BY <1>3, <1>5, <2>2 DEF Cursor
  <2>3. CASE i = s.offset + 1
    BY <1>4, <1>5, <2>3
  <2> QED
    BY <2>1, <2>2, <2>3
<1>6. t.inode = now => t.offset <= Len(files[now])
  BY <1>1, <1>2, <1>3, <1>4
<1>7. t.inode <= now /\ (t.inode = 0 => t.offset = 0) /\ Len(t.ids) <= Cap
  BY <1>1, <1>3 DEF Cursor
<1>8. \A i \in 1 .. Len(t.ids) : count[t.ids[i]] > 0
  BY <1>3 DEF Cursor
<1> QED
  BY <1>3, <1>5, <1>6, <1>7, <1>8 DEF Cursor, t

\* The newest identities are kept, Cap at most.
LEMMA RememberNewest ==
  ASSUME BridgeAssumption, NEW ids \in Seq(Event), NEW id \in Event
  PROVE  /\ Remember(ids, id) \in Seq(Event) /\ Len(Remember(ids, id)) <= Cap
         /\ \A j \in 1 .. Len(Remember(ids, id)) :
              Remember(ids, id)[j] = id \/ \E i \in 1 .. Len(ids) : Remember(ids, id)[j] = ids[i]
<1> DEFINE all == Append(ids, id)
           first == IF Len(all) > Cap THEN Len(all) - Cap + 1 ELSE 1
           kept == SubSeq(all, first, Len(all))
<1>1. Len(ids) \in Nat /\ Cap \in Nat /\ Cap > 0
  BY LenProperties, Numbers
<1>2. /\ all \in Seq(Event) /\ Len(all) = Len(ids) + 1
      /\ \A i \in 1 .. Len(ids) : all[i] = ids[i]
      /\ all[Len(ids) + 1] = id
  BY AppendProperties
<1> HIDE DEF all
<1>3. first \in 1 .. Len(all) /\ Len(all) - first + 1 <= Cap
  BY <1>1, <1>2
<1> HIDE DEF first
<1>4. \A i \in first .. Len(all) : i \in 1 .. Len(all) /\ all[i] \in Event
  BY <1>1, <1>2, <1>3, ElementOfSeq
<1>5. first \in Int /\ Len(all) \in Int
  BY <1>1, <1>2, <1>3
<1>6. /\ kept \in Seq(Event) /\ Len(kept) = IF first <= Len(all) THEN Len(all) - first + 1 ELSE 0
      /\ \A i \in 1 .. Len(all) - first + 1 : kept[i] = all[first + i - 1]
  BY <1>4, <1>5, SubSeqProperties
<1> HIDE DEF kept
<1>7. Len(kept) <= Cap /\ Len(kept) = Len(all) - first + 1
  BY <1>1, <1>2, <1>3, <1>6
<1>8. ASSUME NEW j \in 1 .. Len(kept)
      PROVE  kept[j] = id \/ \E i \in 1 .. Len(ids) : kept[j] = ids[i]
  <2>1. kept[j] = all[first + j - 1] /\ first + j - 1 \in 1 .. Len(ids) + 1
    BY <1>1, <1>2, <1>3, <1>6, <1>7
  <2>2. first + j - 1 = Len(ids) + 1 \/ first + j - 1 \in 1 .. Len(ids)
    BY <1>1, <2>1
  <2> QED
    BY <1>2, <2>1, <2>2
<1> QED
  BY <1>6, <1>7, <1>8, Zenon DEF Remember, kept, first, all

LEMMA CursorRemembers ==
  ASSUME BridgeAssumption, NEW s, NEW files, NEW now, NEW count, Cursor(s, files, now, count),
         NEW id \in Event, count[id] > 0
  PROVE  Cursor([s EXCEPT !.ids = Remember(@, id)], files, now, count)
<1> DEFINE kept == Remember(s.ids, id)
           t == [s EXCEPT !.ids = kept]
<1>1. s \in State /\ s.ids \in Seq(Event)
  BY DEF Cursor, State
<1>2. /\ kept \in Seq(Event) /\ Len(kept) <= Cap
      /\ \A j \in 1 .. Len(kept) : kept[j] = id \/ \E i \in 1 .. Len(s.ids) : kept[j] = s.ids[i]
  BY <1>1, RememberNewest, Zenon
<1> HIDE DEF kept
<1>3. t \in State /\ t.ids = kept /\ t.inode = s.inode /\ t.offset = s.offset
  BY <1>1, <1>2, Zenon DEF State
<1> HIDE DEF t
<1>4. \A j \in 1 .. Len(kept) : count[kept[j]] > 0
  BY <1>2 DEF Cursor
<1>5. Cursor(t, files, now, count)
  BY <1>2, <1>3, <1>4 DEF Cursor
<1> QED
  BY <1>5 DEF t, kept
-----------------------------------------------------------------------------
(* The steps.                                                              *)

LEMMA InitOK == ASSUME BridgeAssumption PROVE Init => IInv
<1> SUFFICES ASSUME Init PROVE IInv
  OBVIOUS
<1>1. <<>> \in Seq(Event) /\ Len(<<>>) = 0 /\ <<>> \in Seq(Line)
  BY EmptySeq
<1>2. Fresh \in State /\ Cursor(Fresh, file, current, sent)
  BY <1>1, Numbers DEF Init, Fresh, State, Cursor
<1>3. file \in [1 .. MaxFiles -> Seq(Line)] /\ current \in 1 .. MaxFiles
  BY <1>1, Numbers DEF Init
<1>4. \A i \in 1 .. MaxFiles : Sound(file[i]) /\ file[i] = <<>> /\ ToSet(file[i]) = {}
  BY <1>1, EmptySound DEF Init, ToSet
<1>5. Events = {} /\ 1 .. 0 = {} /\ 0 \in 0 .. MaxLines
  BY <1>4, Numbers DEF Events, Appended
<1>6. FilesOK
  BY <1>3, <1>4, <1>5 DEF FilesOK
<1>7. TickOK /\ CountsOK
  BY Numbers DEF Init, TickOK, CountsOK
<1> QED
  BY <1>2, <1>6, <1>7 DEF IInv, Init

LEMMA AppendStep ==
  ASSUME BridgeAssumption, ~SharedIds, IInv, Append1
  PROVE  IInv'
<1>0. PICK kind \in Kind : \E id \in Identity(kind) :
        file' = [file EXCEPT ![current] = Append(@, [event |-> Ever + 1, id |-> id, kind |-> kind])]
  BY Zenon DEF Append1
<1>1. PICK id \in Identity(kind) :
        file' = [file EXCEPT ![current] = Append(@, [event |-> Ever + 1, id |-> id, kind |-> kind])]
  BY <1>0, Zenon
<1>2. PICK n \in 0 .. MaxLines : Events = 1 .. n
  BY DEF IInv, FilesOK
<1>3. n \in Nat /\ MaxLines \in Nat
  BY Numbers
<1>4. Cardinality(1 .. n) = n
  BY <1>3, FS_Interval
<1>5. Ever = n /\ n + 1 \in 1 .. MaxLines /\ id = n + 1
  <2>1. Ever = Cardinality(Events)
    BY DEF Ever, Events
  <2>2. Ever = n
    BY <1>2, <1>4, <2>1
  <2>3. id = Ever + 1
    BY DEF Identity
  <2> QED
    BY <1>3, <2>2, <2>3 DEF Append1
<1> DEFINE l == [event |-> n + 1, id |-> n + 1, kind |-> kind]
           more == Append(file[current], l)
<1>6. /\ FilesOK /\ current' = current /\ current \in 1 .. MaxFiles
      /\ file \in [1 .. MaxFiles -> Seq(Line)] /\ Sound(file[current])
      /\ file' = [file EXCEPT ![current] = more]
  BY <1>1, <1>5, Zenon DEF IInv, FilesOK, Append1
<1>7. \A i \in 1 .. MaxFiles : \A j \in 1 .. Len(file[i]) : file[i][j].event \in 1 .. n
  BY <1>2, <1>6, AppendedLines DEF Events
<1>8. \A j \in 1 .. Len(file[current]) : file[current][j].event # n + 1
  BY <1>3, <1>6, <1>7
<1>9. /\ Sound(more) /\ Len(more) = Len(file[current]) + 1
      /\ \A j \in 1 .. Len(file[current]) : more[j] = file[current][j]
      /\ more[Len(file[current]) + 1] = l
  BY <1>5, <1>6, <1>8, AppendSound DEF Event
<1>10. l.event = n + 1
  OBVIOUS
<1> HIDE DEF more, l
<1>11. /\ file' \in [1 .. MaxFiles -> Seq(Line)]
       /\ file'[current] = more /\ \A i \in 1 .. MaxFiles : i # current => file'[i] = file[i]
  BY <1>6, <1>9 DEF Sound
<1>12. /\ \A i \in 1 .. MaxFiles : Len(file[i]) \in Nat
  BY <1>6, LineFacts DEF FilesOK
<1>13. Appended' = Appended \cup {l}
  <2>1. \A i \in 1 .. MaxFiles : Sound(file'[i]) /\ DOMAIN file'[i] = 1 .. Len(file'[i])
    BY <1>6, <1>9, <1>11, LineFacts DEF FilesOK
  <2>2. \A x : x \in Appended' <=> \E i \in 1 .. MaxFiles : \E j \in 1 .. Len(file'[i]) : x = file'[i][j]
    BY <2>1 DEF Appended, ToSet
  <2>3. ASSUME NEW i \in 1 .. MaxFiles, NEW j \in 1 .. Len(file'[i])
        PROVE  file'[i][j] \in Appended \cup {l}
    <3>1. CASE i # current
      BY <1>6, <1>11, <3>1, AppendedLines
    <3>2. CASE i = current /\ j \in 1 .. Len(file[current])
      BY <1>6, <1>9, <1>11, <3>2, AppendedLines
    <3>3. CASE i = current /\ j = Len(file[current]) + 1
      BY <1>9, <1>11, <3>3
    <3>4. i = current => j \in 1 .. Len(file[current]) \/ j = Len(file[current]) + 1
      BY <1>6, <1>9, <1>11, <1>12
    <3> QED
      BY <3>1, <3>2, <3>3, <3>4
  <2>4. l \in Appended'
    BY <1>6, <1>9, <1>11, <1>12, <2>2
  <2>5. ASSUME NEW i \in 1 .. MaxFiles, NEW j \in 1 .. Len(file[i])
        PROVE  \E k \in 1 .. Len(file'[i]) : file[i][j] = file'[i][k]
    BY <1>6, <1>9, <1>11, <1>12
  <2>6. \A x \in Appended : x \in Appended'
    BY <1>6, <2>2, <2>5, AppendedLines
  <2> QED
    BY <2>2, <2>3, <2>4, <2>6
<1>14. Events' = 1 .. n + 1
  <2>1. Events' = Events \cup {l.event}
    BY <1>13 DEF Events
  <2> QED
    BY <1>2, <1>3, <1>10, <2>1
<1>15. FilesOK'
  BY <1>5, <1>6, <1>9, <1>11, <1>14 DEF FilesOK
<1>16. /\ sent' = sent /\ disk' = disk /\ st' = st /\ sent \in [Event -> Nat]
       /\ \A e \in Event : sent[e] \in Nat
  BY DEF Append1, IInv, CountsOK
<1>17. \A e \in Event : sent[e] >= sent[e]
  BY <1>16
<1>18. /\ Sound(file'[current]) /\ Len(file[current]) <= Len(file'[current])
       /\ \A j \in 1 .. Len(file[current]) : file'[current][j] = file[current][j]
       /\ current \in Nat
  BY <1>6, <1>9, <1>11, <1>12
<1>19. Cursor(disk, file', current, sent) /\ Cursor(st, file', current, sent)
  BY <1>6, <1>16, <1>17, <1>18, CursorKept, Zenon DEF IInv
<1>20. TickOK'
  <2>1. pc = "checkpoint" => opened \in 1 .. MaxFiles /\ st.offset + 1 \in 1 .. Len(file[opened])
    <3> SUFFICES ASSUME pc = "checkpoint"
                 PROVE  opened \in 1 .. MaxFiles /\ st.offset + 1 \in 1 .. Len(file[opened])
      OBVIOUS
    <3>1. opened \in 1 .. MaxFiles
      BY <1>6, Numbers DEF IInv, TickOK, Cursor, State
    <3> QED
      BY <1>12, <3>1 DEF IInv, TickOK, Cursor, State
  <2>2. pc = "checkpoint" => /\ Len(file[opened]) <= Len(file'[opened])
                             /\ file'[opened][st.offset + 1] = file[opened][st.offset + 1]
    BY <1>6, <1>9, <1>11, <1>12, <2>1
  <2>3. pc = "checkpoint" => st.offset < Len(file'[opened]) /\ sent[Next1.event] > 0 /\ Next1' = Next1
    BY <1>11, <1>12, <1>9, <1>16, <2>1, <2>2 DEF IInv, TickOK, Next1, Append1, Cursor, State
  <2> QED
    BY <2>3 DEF IInv, TickOK, Append1
<1>21. CountsOK'
  BY DEF IInv, CountsOK, Append1
<1> QED
  BY <1>6, <1>15, <1>16, <1>19, <1>20, <1>21 DEF IInv

LEMMA RotateStep ==
  ASSUME BridgeAssumption, ~SameInode, IInv, Rotate
  PROVE  IInv'
<1> DEFINE lines == file[current]
<1>1. /\ FilesOK /\ current \in 1 .. MaxFiles /\ file \in [1 .. MaxFiles -> Seq(Line)]
      /\ Sound(lines) /\ Len(lines) \in Nat /\ MaxFiles \in Nat
  BY LineFacts, Numbers DEF IInv, FilesOK
<1>2. PICK kept :
        /\ current < MaxFiles /\ current' = current + 1
        /\ file' = [file EXCEPT ![current + 1] = kept]
        /\ Sound(kept) /\ \A j \in 1 .. Len(kept) : \E i \in 1 .. Len(lines) : kept[j] = lines[i]
  <2>1. PICK k \in 0 .. (IF disk.inode = current /\ disk.offset <= Len(lines) THEN disk.offset ELSE 0) :
          /\ current < MaxFiles /\ current' = current + 1
          /\ file' = [file EXCEPT ![current + 1] = SubSeq(lines, k + 1, Len(lines))]
    BY Zenon DEF Rotate
  <2>2. k \in 0 .. Len(lines)
    BY <1>1 DEF IInv, Cursor, State
  <2> DEFINE rest == SubSeq(lines, k + 1, Len(lines))
  <2>3. Sound(rest) /\ \A j \in 1 .. Len(rest) : \E i \in 1 .. Len(lines) : rest[j] = lines[i]
    BY <1>1, <2>2, KeepSound
  <2> QED
    BY <2>1, <2>3, Zenon
<1> HIDE DEF lines
<1>4. current + 1 \in 1 .. MaxFiles /\ kept \in Seq(Line)
  BY <1>1, <1>2 DEF Sound
<1>6. /\ file' \in [1 .. MaxFiles -> Seq(Line)]
      /\ file'[current + 1] = kept
      /\ \A i \in 1 .. MaxFiles : i # current + 1 => file'[i] = file[i]
  BY <1>1, <1>2, <1>4
<1>7. \A i \in 1 .. MaxFiles : Sound(file'[i]) /\ (i > current + 1 => file'[i] = <<>>)
  <2>1. \A i \in 1 .. MaxFiles : i # current + 1 => Sound(file'[i])
    BY <1>1, <1>6 DEF FilesOK
  <2>2. \A i \in 1 .. MaxFiles : i > current + 1 => i # current + 1 /\ i > current
    BY <1>1
  <2> QED
    BY <1>1, <1>2, <1>6, <2>1, <2>2 DEF FilesOK
<1>8. Appended' = Appended
  <2>1. \A i \in 1 .. MaxFiles : DOMAIN file'[i] = 1 .. Len(file'[i])
    BY <1>7, LineFacts
  <2>2. \A x : x \in Appended' <=> \E i \in 1 .. MaxFiles : \E j \in 1 .. Len(file'[i]) : x = file'[i][j]
    BY <2>1 DEF Appended, ToSet
  <2>3. file[current + 1] = <<>> /\ Len(file[current + 1]) = 0
    BY <1>1, <1>4, EmptySeq DEF FilesOK
  <2>4. ASSUME NEW i \in 1 .. MaxFiles, NEW j \in 1 .. Len(file'[i])
        PROVE  file'[i][j] \in Appended
    <3>1. CASE i # current + 1
      BY <1>1, <1>6, <3>1, AppendedLines, Zenon
    <3>2. CASE i = current + 1
      <4>1. PICK m \in 1 .. Len(lines) : kept[j] = lines[m]
        BY <1>2, <1>6, <3>2
      <4> QED
        BY <1>1, <1>6, <3>2, <4>1, AppendedLines, Zenon DEF lines
    <3> QED
      BY <3>1, <3>2
  <2>5. ASSUME NEW i \in 1 .. MaxFiles, NEW j \in 1 .. Len(file[i])
        PROVE  file[i][j] \in Appended'
    BY <1>6, <2>2, <2>3
  <2> QED
    BY <1>1, <2>2, <2>4, <2>5, AppendedLines, Zenon
<1>9. FilesOK'
  BY <1>1, <1>2, <1>4, <1>6, <1>7, <1>8, Zenon DEF FilesOK, Events
<1>10. disk.inode < current' /\ st.inode < current' /\ st.inode \in Nat
  BY <1>1, <1>2 DEF IInv, Cursor, State
<1>11. disk' = disk /\ st' = st /\ sent' = sent
  BY DEF Rotate
<1>12. Cursor(disk, file', current', sent) /\ Cursor(st, file', current', sent)
  <2>1. ASSUME NEW s, Cursor(s, file, current, sent), s.inode < current'
        PROVE  Cursor(s, file', current', sent)
    BY <1>1, <1>2, <2>1 DEF Cursor, State
  <2> QED
    BY <1>10, <2>1 DEF IInv
<1>13. pc \in {"read", "checkpoint"} => opened \in 1 .. current /\ file'[opened] = file[opened]
  <2>1. pc \in {"read", "checkpoint"} => opened \in 1 .. current
    BY <1>1, <1>10 DEF IInv, TickOK
  <2> QED
    BY <1>1, <1>6, <2>1
<1>14. TickOK'
  BY <1>1, <1>2, <1>13 DEF IInv, TickOK, Rotate, Next1
<1> QED
  BY <1>9, <1>11, <1>12, <1>14 DEF IInv, CountsOK, Rotate

\* Most steps leave the files, and what has been sent, alone.
LEMMA QuietStep ==
  ASSUME IInv, UNCHANGED <<file, current, sent>>,
         Cursor(disk', file, current, sent), Cursor(st', file, current, sent), TickOK', CountsOK'
  PROVE  IInv'
<1>1. FilesOK'
  BY DEF IInv, FilesOK, Events, Appended
<1> QED
  BY <1>1 DEF IInv

LEMMA FreshCursor ==
  ASSUME BridgeAssumption, IInv
  PROVE  Cursor(Fresh, file, current, sent)
<1>1. <<>> \in Seq(Event) /\ Len(<<>>) = 0
  BY EmptySeq
<1>2. Fresh \in State
  BY <1>1, Numbers DEF Fresh, State
<1> QED
  BY <1>1, <1>2, Numbers DEF IInv, FilesOK, Fresh, Cursor

\* The flags of a state say nothing about its cursor.
LEMMA CursorFlags ==
  ASSUME NEW s, NEW files, NEW now, NEW count, Cursor(s, files, now, count),
         NEW p, NEW d
  PROVE  /\ p \in BOOLEAN => Cursor([s EXCEPT !.pending = p], files, now, count)
         /\ d \in 0 .. MaxDays => Cursor([s EXCEPT !.daily = d], files, now, count)
  BY Zenon DEF Cursor, State

LEMMA DayStep == ASSUME BridgeAssumption, IInv, DayPasses PROVE IInv'
  BY QuietStep, Numbers DEF DayPasses, IInv, TickOK, CountsOK, Next1

LEMMA StartStep == ASSUME BridgeAssumption, IInv, Start PROVE IInv'
<1>1. TickOK' /\ CountsOK'
  BY DEF Start, IInv, TickOK, CountsOK
<1> QED
  BY <1>1, QuietStep DEF Start, IInv

LEMMA DieStep == ASSUME BridgeAssumption, IInv, Die PROVE IInv'
<1>1. TickOK' /\ CountsOK'
  BY Numbers DEF Die, Gone, IInv, TickOK, CountsOK
<1> QED
  BY <1>1, QuietStep, FreshCursor DEF Die, Gone, IInv

LEMMA RecoverStep == ASSUME BridgeAssumption, IInv, Recover PROVE IInv'
<1>1. TickOK' /\ CountsOK'
  BY DEF Recover, IInv, TickOK, CountsOK
<1>2. Cursor(st', file, current, sent)
  <2>1. Cursor(Recovered, file, current, sent)
    BY CursorFlags, Zenon DEF Recovered, IInv, Cursor, State
  <2> QED
    BY <2>1 DEF Recover, IInv
<1> QED
  BY <1>1, <1>2, QuietStep DEF Recover, IInv

LEMMA DailyStep == ASSUME BridgeAssumption, IInv, Daily PROVE IInv'
<1>1. TickOK'
  BY DEF Daily, IInv, TickOK
<1>2. CountsOK'
  BY DEF Daily, IInv, CountsOK
<1>3. day \in 0 .. MaxDays
  BY Numbers DEF IInv, CountsOK
<1>4. Cursor([st EXCEPT !.daily = day], file, current, sent)
  BY <1>3, CursorFlags, Zenon DEF IInv
<1>5. Cursor(st', file, current, sent)
  BY <1>4 DEF Daily, IInv
<1> QED
  BY <1>1, <1>2, <1>5, QuietStep DEF Daily, IInv

LEMMA SaveStep == ASSUME BridgeAssumption, IInv, SaveState PROVE IInv'
<1>1. TickOK' /\ CountsOK'
  BY DEF SaveState, IInv, TickOK, CountsOK
<1> QED
  BY <1>1, QuietStep DEF SaveState, IInv

LEMMA StatStep == ASSUME BridgeAssumption, IInv, Stat PROVE IInv'
<1>1. /\ current \in 1 .. MaxFiles /\ Len(file[current]) \in Nat
      /\ st \in State /\ st.offset \in Nat /\ st.inode \in Nat /\ Cursor(st, file, current, sent)
  BY LineFacts DEF IInv, FilesOK, Cursor, State
<1>2. MaxLines \in Nat /\ MaxFiles \in Nat
  BY Numbers
<1> DEFINE t == Reset(st)
<1>3. t \in State /\ t.ids = st.ids /\ (t = st \/ t.offset = 0)
  BY <1>1, <1>2 DEF Reset, State
<1>4. t.offset # 0 => t = st /\ st.inode = current
  BY <1>1, <1>3 DEF Reset, Cursor, State
<1>5. t.offset \in Nat
  BY <1>3, <1>2 DEF State
<1> HIDE DEF t
<1> DEFINE u == [t EXCEPT !.inode = current]
<1>6. u \in State /\ u.ids = st.ids /\ u.offset = t.offset /\ u.inode = current
  BY <1>1, <1>3, <1>2 DEF State
<1> HIDE DEF u
<1>7. Cursor(u, file, current, sent)
  <2>1. u.offset <= Len(file[current])
    BY <1>1, <1>4, <1>5, <1>6 DEF Cursor
  <2>2. \A i \in 1 .. u.offset : t = st /\ st.inode = current
    BY <1>4, <1>5, <1>6
  <2>3. \A i \in 1 .. u.offset : Material(file[current][i]) => sent[file[current][i].event] > 0
    BY <1>1, <1>6, <2>2 DEF Cursor
  <2>4. Len(u.ids) <= Cap /\ \A i \in 1 .. Len(u.ids) : sent[u.ids[i]] > 0
    BY <1>1, <1>6 DEF Cursor
  <2>5. u.inode <= current /\ u.inode # 0
    BY <1>1, <1>6
  <2> QED
    BY <1>6, <2>1, <2>3, <2>4, <2>5 DEF Cursor
<1>8. st' = u
  BY DEF Stat, u, t
<1>9. TickOK' /\ CountsOK'
  BY <1>1, <1>6, <1>8 DEF Stat, IInv, TickOK, CountsOK
<1> QED
  BY <1>7, <1>8, <1>9, QuietStep DEF Stat, IInv

LEMMA OpenStep == ASSUME BridgeAssumption, IInv, Open PROVE IInv'
<1>1. TickOK'
  BY Numbers DEF Open, IInv, TickOK, FilesOK, Cursor, State
<1>2. CountsOK'
  BY DEF Open, IInv, CountsOK
<1> QED
  BY <1>1, <1>2, QuietStep DEF Open, IInv

\* Where a tick that reads stands.
LEMMA Reading ==
  ASSUME BridgeAssumption, IInv, pc \in {"read", "checkpoint"}
  PROVE  /\ current \in 1 .. MaxFiles /\ opened \in 1 .. MaxFiles /\ opened <= current
         /\ st.inode > 0 /\ st.inode <= opened /\ st.offset \in Nat
         /\ Sound(file[opened]) /\ Len(file[opened]) \in Nat
         /\ st.offset < Len(file[opened]) =>
              /\ Next1 \in Line /\ Next1.event \in Event /\ Next1.id = Next1.event
<1>1. /\ current \in 1 .. MaxFiles /\ opened <= current /\ st.inode > 0 /\ st.inode <= opened
      /\ opened \in 0 .. MaxFiles /\ st.offset \in Nat /\ st.inode \in Nat
  BY Numbers DEF IInv, FilesOK, TickOK, Cursor, State
<1>2. opened \in 1 .. MaxFiles
  BY <1>1, Numbers
<1>3. Sound(file[opened]) /\ Len(file[opened]) \in Nat
  BY <1>2, LineFacts DEF IInv, FilesOK
<1>4. st.offset < Len(file[opened]) => st.offset + 1 \in 1 .. Len(file[opened])
  BY <1>1, <1>3
<1>5. st.offset < Len(file[opened]) =>
        /\ Next1 \in Line /\ Next1.event \in Event /\ Next1.id = Next1.event
  BY <1>3, <1>4, LineFacts, Zenon DEF Next1, Sound
<1> QED
  BY <1>1, <1>2, <1>3, <1>5

\* A delivered identity was sent, and it is the event's own.
LEMMA KnownWasSent ==
  ASSUME IInv, NEW id \in ToSet(st.ids)
  PROVE  sent[id] > 0
<1>1. st.ids \in Seq(Event)
  BY DEF IInv, Cursor, State
<1>2. DOMAIN st.ids = 1 .. Len(st.ids)
  BY <1>1, LenProperties
<1> QED
  BY <1>2 DEF IInv, Cursor, ToSet

LEMMA PassStep == ASSUME BridgeAssumption, IInv, Pass PROVE IInv'
<1>1. pc = "read" /\ st.offset < Len(file[opened])
  BY Reading DEF Pass, AtEnd
<1>2. Material(Next1) => sent[Next1.event] > 0
  BY <1>1, Reading, KnownWasSent DEF Pass
<1>3. Cursor([st EXCEPT !.offset = @ + 1], file, current, sent)
  BY <1>1, <1>2, Reading, CursorMoved, Zenon DEF IInv, Next1
<1>4. Cursor(st', file, current, sent) /\ Cursor(disk', file, current, sent)
  BY <1>3 DEF Pass
<1>5. st'.inode = st.inode
  BY DEF Pass, IInv, Cursor, State
<1>6. TickOK' /\ CountsOK'
  BY <1>1, <1>5 DEF Pass, IInv, TickOK, CountsOK
<1> QED
  BY <1>4, <1>6, QuietStep DEF Pass

LEMMA CheckpointStep == ASSUME BridgeAssumption, IInv, Checkpoint PROVE IInv'
<1>1. pc = "checkpoint" /\ st.offset < Len(file[opened]) /\ sent[Next1.event] > 0
  BY DEF Checkpoint, IInv, TickOK
<1> DEFINE moved == [st EXCEPT !.offset = @ + 1]
           t == [moved EXCEPT !.ids = Remember(@, Next1.id)]
<1>2. Cursor(moved, file, current, sent)
  BY <1>1, Reading, CursorMoved, Zenon DEF IInv, Next1
<1> HIDE DEF moved
<1>3. Next1.id \in Event /\ sent[Next1.id] > 0
  BY <1>1, Reading
<1>4. Cursor(t, file, current, sent)
  BY <1>2, <1>3, CursorRemembers
<1>5. st' = t /\ disk' = t /\ st'.inode = st.inode
  <2>1. st \in State
    BY DEF IInv, Cursor
  <2>2. st' = t
    BY <2>1 DEF Checkpoint, State, moved
  <2> QED
    BY <2>1, <2>2 DEF Checkpoint, State, moved
<1>6. TickOK' /\ CountsOK'
  BY <1>1, <1>5 DEF Checkpoint, IInv, TickOK, CountsOK
<1> QED
  BY <1>4, <1>5, <1>6, QuietStep, Zenon DEF Checkpoint

LEMMA EndStep == ASSUME BridgeAssumption, IInv, EndTick PROVE IInv'
<1>1. TickOK' /\ CountsOK'
  BY Numbers DEF EndTick, Gone, IInv, TickOK, CountsOK
<1> QED
  BY <1>1, QuietStep, FreshCursor DEF EndTick, Gone, IInv
-----------------------------------------------------------------------------
(* The steps that send.                                                    *)

\* More copies of one event.
LEMMA Sending ==
  ASSUME BridgeAssumption, IInv, NEW e \in Event, NEW n \in Nat,
         sent' = [sent EXCEPT ![e] = @ + n]
  PROVE  /\ sent' \in [Event -> Nat] /\ sent'[e] = sent[e] + n
         /\ \A s : Cursor(s, file, current, sent) => Cursor(s, file, current, sent')
<1>1. /\ sent \in [Event -> Nat] /\ sent' \in [Event -> Nat] /\ sent'[e] = sent[e] + n
      /\ \A d \in Event : sent'[d] >= sent[d]
  BY DEF IInv, CountsOK
<1>2. /\ current \in Nat /\ Sound(file[current]) /\ Len(file[current]) <= Len(file[current])
      /\ \A i \in 1 .. Len(file[current]) : file[current][i] = file[current][i]
  BY LineFacts DEF IInv, FilesOK
<1> QED
  BY <1>1, <1>2, CursorKept, Zenon

LEMMA CopiesSent == \A kind : \A n \in Copies(kind) : n \in Nat /\ n > 0
  BY DEF Copies

LEMMA DispatchStep == ASSUME BridgeAssumption, IInv, Dispatch PROVE IInv'
<1>1. pc = "read" /\ st.offset < Len(file[opened])
  BY Reading DEF Dispatch, AtEnd
<1>2. PICK n \in Copies(Next1.kind) : sent' = [sent EXCEPT ![Next1.event] = @ + n]
  BY Zenon DEF Dispatch
<1>3. Next1.event \in Event /\ n \in Nat /\ n > 0
  BY <1>1, Reading, CopiesSent
<1>4. /\ sent' \in [Event -> Nat] /\ sent'[Next1.event] = sent[Next1.event] + n
      /\ \A s : Cursor(s, file, current, sent) => Cursor(s, file, current, sent')
  BY <1>2, <1>3, Sending, Zenon
<1>5. sent \in [Event -> Nat] /\ sent'[Next1.event] > 0
  BY <1>3, <1>4 DEF IInv, CountsOK
<1>6. /\ Cursor(st', file, current, sent') /\ st'.inode = st.inode /\ st'.offset = st.offset
  <2>1. (st.pending \/ Next1.kind = "lost") \in BOOLEAN
    BY DEF IInv, Cursor, State
  <2>2. Cursor([st EXCEPT !.pending = st.pending \/ Next1.kind = "lost"], file, current, sent)
    BY <2>1, CursorFlags, Zenon DEF IInv
  <2>3. st' = [st EXCEPT !.pending = st.pending \/ Next1.kind = "lost"]
    BY DEF Dispatch
  <2>4. st \in State
    BY DEF IInv, Cursor
  <2> QED
    BY <1>4, <2>2, <2>3, <2>4 DEF State
<1>7. Cursor(disk', file, current, sent')
  BY <1>4, Zenon DEF Dispatch, IInv
<1>8. Next1' = Next1
  BY <1>6 DEF Next1, Dispatch
<1>9. TickOK'
  BY <1>1, <1>5, <1>6, <1>8 DEF Dispatch, IInv, TickOK
<1>10. CountsOK' /\ FilesOK'
  BY <1>4 DEF Dispatch, IInv, CountsOK, FilesOK, Events, Appended
<1> QED
  BY <1>6, <1>7, <1>9, <1>10 DEF IInv, Dispatch

LEMMA FailStep == ASSUME BridgeAssumption, IInv, SendFails PROVE IInv'
<1>1. pc = "read" /\ st.offset < Len(file[opened])
  BY Reading DEF SendFails, AtEnd
<1>2. PICK n \in {0, 1} : sent' = [sent EXCEPT ![Next1.event] = @ + n]
  BY Zenon DEF SendFails
<1>3. Next1.event \in Event /\ n \in Nat
  BY <1>1, Reading
<1>4. /\ sent' \in [Event -> Nat]
      /\ \A s : Cursor(s, file, current, sent) => Cursor(s, file, current, sent')
  BY <1>2, <1>3, Sending, Zenon
<1>5. Cursor(st', file, current, sent') /\ Cursor(disk', file, current, sent')
  BY <1>4, FreshCursor, Zenon DEF SendFails, Gone, Unpassed, IInv
<1>6. CountsOK' /\ FilesOK' /\ TickOK'
  <2>1. CountsOK'
    BY <1>4, Numbers DEF SendFails, IInv, CountsOK
  <2>2. FilesOK'
    BY DEF SendFails, IInv, FilesOK, Events, Appended
  <2>3. TickOK'
    BY Numbers DEF SendFails, Gone, IInv, TickOK
  <2> QED
    BY <2>1, <2>2, <2>3
<1> QED
  BY <1>5, <1>6 DEF IInv, SendFails

LEMMA StutterStep == ASSUME IInv, UNCHANGED vars PROVE IInv'
<1>1. FilesOK' /\ CountsOK' /\ TickOK'
  BY DEF vars, IInv, FilesOK, Events, Appended, CountsOK, TickOK, Next1
<1> QED
  BY <1>1 DEF vars, IInv

LEMMA NextStep ==
  ASSUME BridgeAssumption, ~SharedIds, ~SameInode, IInv, [Next]_vars
  PROVE  IInv'
<1>1. CASE Tick
  BY <1>1, StartStep, RecoverStep, DailyStep, SaveStep, StatStep, OpenStep, PassStep,
     DispatchStep, CheckpointStep, EndStep DEF Tick
<1> QED
  BY <1>1, AppendStep, RotateStep, DayStep, DieStep, FailStep, StutterStep DEF Next

LEMMA Follows == ASSUME BridgeAssumption, IInv PROVE TypeOK /\ SentBeforePassed
<1>1. \A s \in State : /\ s.offset \in 0 .. MaxLines /\ s.inode \in 0 .. MaxFiles
                       /\ s.ids \in Seq(Event) /\ s.pending \in BOOLEAN /\ s.daily \in 0 .. MaxDays
  BY DEF State
<1>2. TypeOK
  BY <1>1, Zenon DEF IInv, FilesOK, TickOK, CountsOK, Cursor, TypeOK
<1>3. DOMAIN file[current] = 1 .. Len(file[current]) /\ disk.offset \in Nat
  BY LineFacts, Numbers DEF IInv, FilesOK, Cursor, State
<1>4. SentBeforePassed
  BY <1>3 DEF SentBeforePassed, IInv, Cursor
<1> QED
  BY <1>2, <1>4

\* With events that differ in their identity, and a file that is replaced and
\* not rewritten in place, the saved cursor stands behind no material line that
\* has not reached the chat, whatever rotations, failed sends and deaths come.
THEOREM CursorNeverPassesUnsent ==
  ASSUME BridgeAssumption, ~SharedIds, ~SameInode
  PROVE  Spec => [](TypeOK /\ SentBeforePassed)
<1>1. Init => IInv
  BY InitOK
<1>2. IInv /\ [Next]_vars => IInv'
  BY NextStep
<1>3. IInv => TypeOK /\ SentBeforePassed
  BY Follows
<1> QED
  BY <1>1, <1>2, <1>3, PTL DEF Spec
-----------------------------------------------------------------------------
(* Without a fault nothing is sent twice: as long as no identity is        *)
(* dropped and no agent run both delivers and fails.                       *)

NoneDropped == Cap >= MaxLines /\ "delivered_failed" \notin AgentResult

\* The saved identities differ, and are those the tick works on; at a
\* checkpoint the line's own is still to come.
IdsOK ==
  /\ \A i, j \in 1 .. Len(disk.ids) : disk.ids[i] = disk.ids[j] => i = j
  /\ pc = "checkpoint" => Next1.id \notin ToSet(disk.ids)
  /\ pc # "idle" => st.ids = disk.ids

EventsOnce ==
  faults = 0 =>
    \A e \in Event :
      sent[e] <= 1 /\ (sent[e] = 1 => e \in ToSet(disk.ids) \/ (pc = "checkpoint" /\ e = Next1.event))

SummariesOnce ==
  faults = 0 =>
    /\ \A d \in 1 .. MaxDays : daily[d] <= 1 /\ (d > day => daily[d] = 0)
    /\ daily[day] = 1 => (IF pc = "idle" THEN disk ELSE st).daily = day

Once == IdsOK /\ EventsOnce /\ SummariesOnce

\* As many identities as events fit under Cap.
LEMMA RememberAll ==
  ASSUME BridgeAssumption, NoneDropped, NEW ids \in Seq(Event), NEW id \in Event,
         \A i, j \in 1 .. Len(ids) : ids[i] = ids[j] => i = j, id \notin ToSet(ids)
  PROVE  /\ Remember(ids, id) = Append(ids, id)
         /\ \A i, j \in 1 .. Len(Append(ids, id)) : Append(ids, id)[i] = Append(ids, id)[j] => i = j
         /\ ToSet(Append(ids, id)) = ToSet(ids) \cup {id}
<1> DEFINE all == Append(ids, id)
<1>1. Len(ids) \in Nat /\ DOMAIN ids = 1 .. Len(ids) /\ Cap \in Nat /\ MaxLines \in Nat
  BY LenProperties, Numbers
<1>2. /\ all \in Seq(Event) /\ Len(all) = Len(ids) + 1
      /\ \A i \in 1 .. Len(ids) : all[i] = ids[i]
      /\ all[Len(ids) + 1] = id
  BY AppendProperties
<1> HIDE DEF all
<1>3. DOMAIN all = 1 .. Len(all) /\ \A i \in 1 .. Len(all) : all[i] \in Event
  BY <1>2, LenProperties, ElementOfSeq
<1>4. \A i \in 1 .. Len(ids) : ids[i] # id
  BY <1>1 DEF ToSet
<1>5. \A i \in 1 .. Len(all) : i \in 1 .. Len(ids) \/ i = Len(ids) + 1
  BY <1>1, <1>2
<1>6. \A i, j \in 1 .. Len(all) : all[i] = all[j] => i = j
  BY <1>2, <1>4, <1>5
<1>7. Len(all) <= MaxLines
  <2> DEFINE f == [i \in 1 .. Len(all) |-> all[i]]
  <2>1. f \in Injection(1 .. Len(all), Event)
    BY <1>3, <1>6 DEF Injection, IsInjective
  <2> HIDE DEF f
  <2>2. IsFiniteSet(Event) /\ Cardinality(Event) = MaxLines
    BY <1>1, FS_Interval DEF Event
  <2>3. Cardinality(1 .. Len(all)) <= Cardinality(Event)
    BY <2>1, <2>2, FS_Injection
  <2>4. \A n \in Nat : Cardinality(1 .. n) = n
    BY FS_Interval
  <2> QED
    BY <1>1, <1>2, <2>2, <2>3, <2>4
<1>8. ~(Len(all) > Cap)
  BY <1>1, <1>2, <1>7 DEF NoneDropped
<1>9. SubSeq(all, 1, Len(all)) = all
  BY <1>2, SubSeqFull
<1>10. Remember(ids, id) = all
  BY <1>8, <1>9 DEF Remember, all
<1>11. ToSet(all) = ToSet(ids) \cup {id}
  <2>1. \A x : x \in ToSet(all) <=> \E i \in 1 .. Len(all) : x = all[i]
    BY <1>3 DEF ToSet
  <2>2. \A x : x \in ToSet(ids) <=> \E i \in 1 .. Len(ids) : x = ids[i]
    BY <1>1 DEF ToSet
  <2>3. \A x \in ToSet(all) : x \in ToSet(ids) \cup {id}
    BY <1>2, <1>5, <2>1, <2>2
  <2>4. \A x \in ToSet(ids) : x \in ToSet(all)
    BY <1>1, <1>2, <2>1, <2>2
  <2>5. id \in ToSet(all)
    BY <1>1, <1>2, <2>1
  <2> QED
    BY <2>3, <2>4, <2>5
<1> QED
  BY <1>6, <1>10, <1>11 DEF all

LEMMA OnceInit == ASSUME BridgeAssumption, Init PROVE Once
<1>1. Len(<<>>) = 0
  BY EmptySeq
<1> QED
  BY <1>1, Numbers DEF Init, Fresh, Once, IdsOK, EventsOnce, SummariesOnce, Event

\* The bookkeeping of the tick around its lines: nothing is sent.
LEMMA OnceAtRest ==
  ASSUME BridgeAssumption, IInv, Once, IInv',
         \/ Start \/ Recover \/ SaveState \/ Stat \/ Open \/ EndTick \/ Pass
  PROVE  Once'
<1>1. st \in State /\ disk \in State
  BY DEF IInv, Cursor
<1>2. st'.ids = disk'.ids \/ pc' = "idle"
  BY <1>1, Zenon DEF Start, Recover, Recovered, SaveState, Stat, Reset, Open, EndTick, Gone, Pass, Once, IdsOK, State
<1>3. disk'.ids = disk.ids
  BY <1>1 DEF Start, Recover, SaveState, Stat, Open, EndTick, Pass, Once, IdsOK, State
<1>4. pc # "checkpoint" /\ pc' # "checkpoint"
  BY DEF Start, Recover, SaveState, Stat, Open, EndTick, Gone, Pass
<1>5. sent' = sent /\ daily' = daily /\ day' = day /\ faults' = faults
  BY DEF Start, Recover, SaveState, Stat, Open, EndTick, Pass
<1>6. (IF pc' = "idle" THEN disk' ELSE st').daily = (IF pc = "idle" THEN disk ELSE st).daily
  BY <1>1 DEF Start, Recover, Recovered, SaveState, Stat, Reset, Open, EndTick, Gone, Pass, State
<1>7. IdsOK'
  BY <1>2, <1>3, <1>4 DEF Once, IdsOK
<1>8. EventsOnce'
  BY <1>3, <1>4, <1>5 DEF Once, EventsOnce
<1>9. SummariesOnce'
  BY <1>5, <1>6 DEF Once, SummariesOnce
<1> QED
  BY <1>7, <1>8, <1>9 DEF Once

\* What is appended or moved aside is not the line a checkpoint stands before.
LEMMA LineStays ==
  ASSUME BridgeAssumption, ~SameInode, IInv, Append1 \/ Rotate, pc = "checkpoint"
  PROVE  Next1' = Next1
<1>1. /\ opened \in 1 .. MaxFiles /\ opened <= current /\ current \in 1 .. MaxFiles
      /\ st.offset + 1 \in 1 .. Len(file[opened]) /\ Len(file[opened]) \in Nat
      /\ file \in [1 .. MaxFiles -> Seq(Line)]
  BY Reading DEF IInv, TickOK, FilesOK
<1>2. CASE Rotate
  <2>1. PICK kept : file' = [file EXCEPT ![current + 1] = kept]
    BY <1>2 DEF Rotate
  <2>2. current + 1 # opened
    BY <1>1
  <2>3. file'[opened] = file[opened]
    BY <1>1, <2>1, <2>2
  <2> QED
    BY <1>2, <2>3 DEF Next1, Rotate
<1>3. CASE Append1
  <2>1. PICK x : file' = [file EXCEPT ![current] = Append(@, x)]
    BY <1>3, Zenon DEF Append1
  <2>2. file[opened] \in Seq(Line \cup {x})
    BY <1>1, SeqMonotonic
  <2>3. Append(file[opened], x)[st.offset + 1] = file[opened][st.offset + 1]
    BY <1>1, <2>2, AppendProperties
  <2>4. file'[opened][st.offset + 1] = file[opened][st.offset + 1]
    BY <1>1, <2>1, <2>3
  <2> QED
    BY <1>3, <2>4, Zenon DEF Next1, Append1
<1> QED
  BY <1>2, <1>3

LEMMA OnceOutside ==
  ASSUME BridgeAssumption, ~SameInode, IInv, Once,
         Append1 \/ Rotate \/ DayPasses \/ Die \/ SendFails \/ UNCHANGED vars
  PROVE  Once'
<1>1. CASE Append1 \/ Rotate
  <2>1. UNCHANGED <<disk, st, pc, sent, daily, day, faults>>
    BY <1>1 DEF Append1, Rotate
  <2>2. pc = "checkpoint" => Next1' = Next1
    BY <1>1, LineStays
  <2>3. IdsOK' /\ SummariesOnce'
    BY <2>1, <2>2 DEF Once, IdsOK, SummariesOnce
  <2>4. EventsOnce'
    BY <2>1, <2>2 DEF Once, EventsOnce
  <2> QED
    BY <2>3, <2>4 DEF Once
<1>2. CASE DayPasses
  <2>1. /\ pc = "idle" /\ pc' = pc /\ day < MaxDays /\ day' = day + 1 /\ day \in 1 .. MaxDays
        /\ UNCHANGED <<disk, st, sent, daily, faults>>
    BY <1>2 DEF DayPasses, IInv, CountsOK
  <2>2. IdsOK' /\ EventsOnce'
    BY <2>1 DEF Once, IdsOK, EventsOnce
  <2>3. faults = 0 => /\ \A d \in 1 .. MaxDays : d > day + 1 => d > day
                      /\ day + 1 \in 1 .. MaxDays /\ day + 1 > day
    BY <2>1, Numbers
  <2>4. SummariesOnce'
    BY <2>1, <2>3 DEF Once, SummariesOnce
  <2> QED
    BY <2>2, <2>4 DEF Once
<1>3. CASE Die \/ SendFails
  <2>1. pc' = "idle" /\ faults' # 0 /\ disk'.ids = disk.ids
    BY <1>3 DEF Die, SendFails, Gone, Unpassed, Once, IdsOK, IInv, CountsOK
  <2> QED
    BY <2>1 DEF Once, IdsOK, EventsOnce, SummariesOnce
<1>4. CASE UNCHANGED vars
  BY <1>4 DEF vars, Once, IdsOK, EventsOnce, SummariesOnce, Next1
<1> QED
  BY <1>1, <1>2, <1>3, <1>4

LEMMA OnceDaily == ASSUME BridgeAssumption, IInv, Once, Daily PROVE Once'
<1>1. /\ st \in State /\ day \in 1 .. MaxDays /\ daily \in [1 .. MaxDays -> Nat]
      /\ pc = "daily" /\ pc' # "checkpoint" /\ pc' # "idle"
      /\ disk' = disk /\ sent' = sent /\ day' = day /\ faults' = faults
  BY DEF Daily, IInv, Cursor, CountsOK
<1>2. st'.ids = st.ids
  BY <1>1 DEF Daily, State
<1>3. IdsOK' /\ EventsOnce'
  BY <1>1, <1>2 DEF Once, IdsOK, EventsOnce
<1>4. CASE st.daily # day /\ daily' = [daily EXCEPT ![day] = @ + 1] /\ st' = [st EXCEPT !.daily = day]
  <2>1. st'.daily = day /\ daily'[day] = daily[day] + 1
        /\ \A d \in 1 .. MaxDays : d # day => daily'[d] = daily[d]
    BY <1>1, <1>4 DEF State
  <2>2. faults = 0 => daily[day] = 0
    BY <1>1, <1>4 DEF Once, SummariesOnce
  <2> QED
    BY <1>1, <1>3, <2>1, <2>2 DEF Once, SummariesOnce
<1>5. CASE UNCHANGED <<daily, st>>
  BY <1>1, <1>3, <1>5 DEF Once, SummariesOnce
<1> QED
  BY <1>4, <1>5 DEF Daily

LEMMA OnceDispatch == ASSUME BridgeAssumption, NoneDropped, IInv, Once, Dispatch PROVE Once'
<1>1. pc = "read" /\ st.offset < Len(file[opened]) /\ pc' = "checkpoint"
  BY Reading DEF Dispatch, AtEnd
<1>2. Next1.event \in Event /\ Next1.id = Next1.event
  BY <1>1, Reading
<1>3. PICK n \in Copies(Next1.kind) : sent' = [sent EXCEPT ![Next1.event] = @ + n]
  BY Zenon DEF Dispatch
<1>4. n = 1
  BY <1>3 DEF Copies, NoneDropped, BridgeAssumption
<1>5. /\ st \in State /\ disk' = disk /\ UNCHANGED <<daily, day, faults>>
      /\ st'.ids = st.ids /\ st'.daily = st.daily /\ st'.offset = st.offset
  BY DEF Dispatch, IInv, Cursor, State
<1>6. Next1' = Next1
  BY <1>5 DEF Next1, Dispatch
<1>7. Next1.id \notin ToSet(disk.ids)
  BY <1>1 DEF Dispatch, Once, IdsOK
<1>8. IdsOK'
  BY <1>1, <1>5, <1>6, <1>7 DEF Once, IdsOK
<1>9. /\ sent \in [Event -> Nat] /\ sent'[Next1.event] = sent[Next1.event] + 1
      /\ \A e \in Event : e # Next1.event => sent'[e] = sent[e]
  BY <1>2, <1>3, <1>4 DEF IInv, CountsOK
<1>10. faults = 0 => sent[Next1.event] = 0
  BY <1>1, <1>2, <1>7, <1>9 DEF Once, EventsOnce
<1>11. EventsOnce'
  BY <1>1, <1>5, <1>6, <1>9, <1>10 DEF Once, EventsOnce
<1>12. SummariesOnce'
  BY <1>1, <1>5 DEF Once, SummariesOnce
<1> QED
  BY <1>8, <1>11, <1>12 DEF Once

LEMMA OnceCheckpoint == ASSUME BridgeAssumption, NoneDropped, IInv, Once, Checkpoint PROVE Once'
<1>1. pc = "checkpoint" /\ pc' = "read" /\ st.offset < Len(file[opened])
  BY DEF Checkpoint, IInv, TickOK
<1>2. Next1.event \in Event /\ Next1.id = Next1.event
  BY <1>1, Reading
<1>3. /\ st \in State /\ st.ids \in Seq(Event) /\ st.ids = disk.ids
      /\ \A i, j \in 1 .. Len(st.ids) : st.ids[i] = st.ids[j] => i = j
      /\ Next1.id \notin ToSet(st.ids)
  BY <1>1 DEF IInv, Cursor, State, Once, IdsOK
<1> DEFINE all == Append(st.ids, Next1.id)
<1>4. /\ Remember(st.ids, Next1.id) = all /\ ToSet(all) = ToSet(st.ids) \cup {Next1.id}
      /\ \A i, j \in 1 .. Len(all) : all[i] = all[j] => i = j
  BY <1>2, <1>3, RememberAll, Zenon
<1> HIDE DEF all
<1>5. st'.ids = all /\ disk' = st' /\ st'.daily = st.daily /\ UNCHANGED <<sent, daily, day, faults>>
  BY <1>3, <1>4 DEF Checkpoint, State
<1>6. IdsOK'
  BY <1>1, <1>4, <1>5 DEF IdsOK
<1>7. EventsOnce'
  BY <1>1, <1>2, <1>3, <1>4, <1>5 DEF Once, EventsOnce
<1>8. SummariesOnce'
  BY <1>1, <1>5 DEF Once, SummariesOnce
<1> QED
  BY <1>6, <1>7, <1>8 DEF Once

LEMMA OnceStep ==
  ASSUME BridgeAssumption, ~SharedIds, ~SameInode, NoneDropped, IInv, Once, [Next]_vars
  PROVE  IInv' /\ Once'
<1>1. IInv'
  BY NextStep
<1>2. Once'
  BY <1>1, OnceAtRest, OnceOutside, OnceDaily, OnceDispatch, OnceCheckpoint DEF Next, Tick
<1> QED
  BY <1>1, <1>2

\* As long as no identity is dropped and no agent run both delivers and fails,
\* no event and no summary reaches the chat twice without a death or a refused
\* send: a re-scan after a rotation finds the identities.
THEOREM NothingTwiceWithoutFault ==
  ASSUME BridgeAssumption, ~SharedIds, ~SameInode, NoneDropped
  PROVE  Spec => []RepeatNeedsFault
<1>1. Init => IInv /\ Once
  BY InitOK, OnceInit
<1>2. IInv /\ Once /\ [Next]_vars => IInv' /\ Once'
  BY OnceStep
<1>3. IInv /\ Once => RepeatNeedsFault
  <2> SUFFICES ASSUME IInv, Once PROVE RepeatNeedsFault
    OBVIOUS
  <2>1. /\ sent \in [Event -> Nat] /\ daily \in [1 .. MaxDays -> Nat] /\ faults \in Nat
    BY Numbers DEF IInv, CountsOK
  <2>2. faults = 0 => /\ \A e \in Event : ~(sent[e] > 1)
                      /\ \A d \in 1 .. MaxDays : ~(daily[d] > 1)
    BY <2>1 DEF Once, EventsOnce, SummariesOnce
  <2> QED
    BY <2>1, <2>2 DEF RepeatNeedsFault
<1> QED
  BY <1>1, <1>2, <1>3, PTL DEF Spec
-----------------------------------------------------------------------------
(* A recovery answers a loss.                                              *)

\* The losses the chat was told of.
Losses == {e \in Event : sent[e] > 0 /\ \E x \in Appended : x.event = e /\ x.kind = "lost"}

\* Those the tick knows it has told.
Settled ==
  {e \in Losses : e \in ToSet(disk.ids) \/ (pc = "checkpoint" /\ e = Next1.event)}

\* A recovery is still owed.
Owed == (IF pc = "idle" THEN disk ELSE st).pending

\* Recoveries, the one owed included, follow settled losses; only a recovery
\* that is sent and not saved leaves the saved state owing more.
RecoveryOK ==
  /\ recovered <= Cardinality(Settled) + faults
  /\ Owed => recovered + 1 <= Cardinality(Settled) + faults
  /\ disk.pending /\ pc \notin {"idle", "recovered"} => st.pending
  /\ pc = "recovered" => ~st.pending

LEMMA EventsFinite ==
  ASSUME BridgeAssumption, NEW S \in SUBSET Event
  PROVE  IsFiniteSet(S) /\ Cardinality(S) \in Nat
<1>1. MaxLines \in Nat
  BY Numbers
<1>2. IsFiniteSet(Event)
  BY <1>1, FS_Interval DEF Event
<1>3. IsFiniteSet(S)
  BY <1>2, FS_Subset
<1> QED
  BY <1>3, FS_CardinalityType

\* What a step adds to the files and to the chat only adds losses.
LEMMA LossesGrow ==
  ASSUME BridgeAssumption, ~SameInode, IInv, IInv', [Next]_vars
  PROVE  Losses \subseteq Losses'
<1>1. \A e \in Event : sent'[e] >= sent[e]
  <2>1. sent \in [Event -> Nat]
    BY DEF IInv, CountsOK
  <2>2. CASE Dispatch
    <3>1. PICK n \in Copies(Next1.kind) : sent' = [sent EXCEPT ![Next1.event] = @ + n]
      BY <2>2, Zenon DEF Dispatch
    <3> QED
      BY <2>1, <3>1, CopiesSent
  <2>3. CASE SendFails
    BY <2>1, <2>3 DEF SendFails
  <2>4. CASE sent' = sent
    BY <2>1, <2>4
  <2> QED
    BY <2>2, <2>3, <2>4 DEF Next, Tick, Append1, Rotate, DayPasses, Die, Start, Recover, Daily, SaveState,
       Stat, Open, Pass, Checkpoint, EndTick, vars
<1>2. Appended \subseteq Appended'
  <2>1. CASE file' = file
    BY <2>1 DEF Appended
  <2>2. CASE Append1
    <3>1. PICK x : file' = [file EXCEPT ![current] = Append(@, x)] /\ current \in 1 .. MaxFiles
      BY <2>2, Zenon DEF Append1, IInv, FilesOK
    <3>2. ASSUME NEW i \in 1 .. MaxFiles, NEW j \in 1 .. Len(file[i])
          PROVE  file[i][j] \in Appended'
      <4>1. file[i] \in Seq(Line \cup {x}) /\ Len(file[i]) \in Nat
        BY SeqMonotonic, LineFacts, Zenon DEF IInv, FilesOK
      <4>2. /\ Append(file[i], x) \in Seq(Line \cup {x}) /\ Len(Append(file[i], x)) = Len(file[i]) + 1
            /\ Append(file[i], x)[j] = file[i][j]
        BY <4>1, AppendProperties
      <4>3. file'[i] = file[i] \/ file'[i] = Append(file[i], x)
        <5>1. file \in [1 .. MaxFiles -> Seq(Line)]
          BY DEF IInv, FilesOK
        <5>2. i = current => file'[i] = Append(file[i], x)
          BY <3>1, <5>1
        <5>3. i # current => file'[i] = file[i]
          BY <3>1, <5>1
        <5> QED
          BY <5>2, <5>3
      <4>4. file'[i] \in Seq(Line \cup {x}) /\ file'[i][j] = file[i][j] /\ j \in 1 .. Len(file'[i])
        <5>1. CASE file'[i] = file[i]
          BY <4>1, <5>1
        <5>2. CASE file'[i] = Append(file[i], x)
          <6> DEFINE more == Append(file[i], x)
          <6>1. more \in Seq(Line \cup {x}) /\ Len(more) = Len(file[i]) + 1 /\ more[j] = file[i][j]
            BY <4>2
          <6>2. file'[i] = more
            BY <5>2
          <6> HIDE DEF more
          <6> QED
            BY <4>1, <6>1, <6>2
        <5> QED
          BY <4>3, <5>1, <5>2
      <4>5. j \in DOMAIN file'[i]
        BY <4>4, LenProperties
      <4> QED
        BY <4>4, <4>5 DEF ToSet, Appended
    <3>3. FilesOK
      BY DEF IInv
    <3> QED
      BY <3>2, <3>3, AppendedLines
  <2>3. CASE Rotate
    <3>1. PICK kept : current < MaxFiles /\ file' = [file EXCEPT ![current + 1] = kept]
      BY <2>3 DEF Rotate
    <3>2. FilesOK /\ file \in [1 .. MaxFiles -> Seq(Line)] /\ current \in 1 .. MaxFiles /\ MaxFiles \in Nat
      BY Numbers DEF IInv, FilesOK
    <3>3. file[current + 1] = <<>> /\ Len(file[current + 1]) = 0
      BY <3>1, <3>2, EmptySeq DEF FilesOK
    <3>4. ASSUME NEW i \in 1 .. MaxFiles, NEW j \in 1 .. Len(file[i])
          PROVE  file[i][j] \in Appended'
      <4>1. i # current + 1
        BY <3>3
      <4>2. file'[i] = file[i]
        BY <3>1, <3>2, <4>1
      <4>3. j \in DOMAIN file[i]
        BY <3>2, LenProperties
      <4> QED
        BY <4>2, <4>3 DEF ToSet, Appended
    <3> QED
      BY <3>2, <3>4, AppendedLines
  <2> QED
    BY <2>1, <2>2, <2>3 DEF Next, Tick, DayPasses, Die, Start, Recover, Daily, SaveState,
       Stat, Open, Pass, Dispatch, SendFails, Checkpoint, EndTick, vars
<1>3. sent \in [Event -> Nat]
  BY DEF IInv, CountsOK
<1>4. sent' \in [Event -> Nat]
  BY DEF IInv, CountsOK
<1>5. \A e \in Event : sent[e] > 0 => sent'[e] > 0
  BY <1>1, <1>3, <1>4
<1> QED
  BY <1>2, <1>5 DEF Losses

LEMMA Counted ==
  ASSUME BridgeAssumption, IInv, IInv'
  PROVE  recovered \in Nat /\ recovered' \in Nat /\ faults \in Nat /\ faults' \in Nat
<1>1. recovered \in Nat /\ faults \in 0 .. MaxFaults /\ MaxFaults \in Nat
  BY Numbers DEF IInv, CountsOK
<1>2. recovered' \in Nat /\ faults' \in 0 .. MaxFaults
  BY DEF IInv, CountsOK
<1> QED
  BY <1>1, <1>2

\* No less is settled: a recovery was owed, and what is owed anew a fault pays.
LEMMA Balance ==
  ASSUME BridgeAssumption, IInv, IInv', RecoveryOK, Settled \subseteq Settled',
         \/ recovered' = recovered /\ faults' = faults /\ (Owed' => Owed)
         \/ recovered' = recovered /\ faults' = faults + 1
         \/ recovered' = recovered + 1 /\ faults' = faults /\ Owed /\ ~Owed'
  PROVE  /\ recovered' <= Cardinality(Settled') + faults'
         /\ Owed' => recovered' + 1 <= Cardinality(Settled') + faults'
<1>1. Settled \in SUBSET Event /\ Settled' \in SUBSET Event
  BY DEF Settled, Losses
<1>2. IsFiniteSet(Settled') /\ Cardinality(Settled') \in Nat /\ Cardinality(Settled) \in Nat
  BY <1>1, EventsFinite
<1>3. Cardinality(Settled) <= Cardinality(Settled')
  BY <1>2, FS_Subset
<1>4. /\ recovered <= Cardinality(Settled) + faults
      /\ Owed => recovered + 1 <= Cardinality(Settled) + faults
  BY DEF RecoveryOK
<1> QED
  BY <1>2, <1>3, <1>4, Counted

\* The steps of a tick that stands before no sent line.
LEMMA RecoveryAtRest ==
  ASSUME BridgeAssumption, ~SameInode, IInv, IInv', Once, RecoveryOK,
         \/ Start \/ Recover \/ Daily \/ SaveState \/ Stat \/ Open \/ EndTick \/ Pass
         \/ DayPasses \/ SendFails
  PROVE  RecoveryOK'
<1>1. st \in State /\ disk \in State /\ Losses \subseteq Losses'
  BY LossesGrow DEF IInv, Cursor, Next, Tick
<1>2. pc # "checkpoint" /\ pc' # "checkpoint"
  BY DEF Start, Recover, Daily, SaveState, Stat, Open, EndTick, Gone, Pass, DayPasses, SendFails
<1>3. disk'.ids = disk.ids
  BY <1>1 DEF Start, Recover, Daily, SaveState, Stat, Open, EndTick, Pass, DayPasses, SendFails,
     Unpassed, Once, IdsOK, State
<1>4. Settled \subseteq Settled'
  BY <1>1, <1>2, <1>3 DEF Settled
<1>5. CASE Recover
  <2>1. pc = "recovery" /\ disk' = disk /\ faults' = faults
    BY <1>5 DEF Recover
  <2>2. CASE st.pending /\ recovered' = recovered + 1 /\ st' = Recovered /\ pc' = "recovered"
    <3>1. ~st'.pending /\ Owed /\ ~Owed'
      BY <1>1, <2>1, <2>2 DEF Recovered, State, Owed
    <3> QED
      BY <1>4, <2>1, <2>2, <3>1, Balance DEF RecoveryOK
  <2>3. CASE pc' = "daily" /\ UNCHANGED <<recovered, st>>
    <3>1. Owed' => Owed
      BY <2>1, <2>3 DEF Owed
    <3> QED
      BY <1>4, <2>1, <2>3, <3>1, Balance DEF RecoveryOK
  <2> QED
    BY <1>5, <2>2, <2>3 DEF Recover
<1>6. CASE Start \/ Daily \/ SaveState \/ Stat \/ Open \/ EndTick \/ Pass \/ DayPasses \/ SendFails
  <2>1. Owed' => Owed
    BY <1>1, <1>6, Zenon DEF Owed, Start, Daily, SaveState, Stat, Reset, Open, EndTick, Gone, Pass, DayPasses, SendFails,
       Unpassed, State
  <2>2. recovered' = recovered /\ (faults' = faults \/ faults' = faults + 1)
    BY <1>6 DEF Start, Daily, SaveState, Stat, Open, EndTick, Pass, DayPasses, SendFails
  <2>3. /\ disk'.pending /\ pc' \notin {"idle", "recovered"} => st'.pending
        /\ pc' # "recovered"
    BY <1>1, <1>6, Zenon DEF RecoveryOK, Start, Daily, SaveState, Stat, Reset, Open, EndTick, Gone, Pass, DayPasses,
       SendFails, State
  <2> QED
    BY <1>4, <2>1, <2>2, <2>3, Balance DEF RecoveryOK
<1> QED
  BY <1>5, <1>6

LEMMA RecoveryOutside ==
  ASSUME BridgeAssumption, ~SameInode, IInv, IInv', RecoveryOK, Append1 \/ Rotate \/ UNCHANGED vars
  PROVE  RecoveryOK'
<1>1. Losses \subseteq Losses'
  BY LossesGrow DEF Next
<1>2. UNCHANGED <<disk, st, pc, recovered, faults>>
  BY DEF Append1, Rotate, vars
<1>3. pc = "checkpoint" => Next1' = Next1
  BY LineStays DEF vars, Next1
<1>4. Settled \subseteq Settled'
  BY <1>1, <1>2, <1>3 DEF Settled
<1>5. Owed' = Owed
  BY <1>2 DEF Owed
<1> QED
  BY <1>2, <1>4, <1>5, Balance DEF RecoveryOK

\* A loss that is told is settled, and owes one recovery.
LEMMA RecoveryDispatch ==
  ASSUME BridgeAssumption, ~SameInode, IInv, IInv', Once, RecoveryOK, Dispatch
  PROVE  RecoveryOK'
<1>1. /\ pc = "read" /\ pc' = "checkpoint" /\ st.offset < Len(file[opened])
      /\ UNCHANGED <<file, opened, disk, recovered, faults>>
  BY Reading DEF Dispatch, AtEnd
<1>2. /\ Next1 \in Line /\ Next1.event \in Event /\ Next1.id = Next1.event
      /\ opened \in 1 .. MaxFiles /\ st.offset + 1 \in 1 .. Len(file[opened])
  BY <1>1, Reading
<1>3. /\ st \in State /\ st' = [st EXCEPT !.pending = st.pending \/ Next1.kind = "lost"]
      /\ Losses \subseteq Losses'
  BY LossesGrow, Zenon DEF Dispatch, IInv, Cursor, Next, Tick
<1>4. Next1' = Next1 /\ (st'.pending <=> st.pending \/ Next1.kind = "lost")
  BY <1>1, <1>3, Zenon DEF Next1, State
<1>5. Settled \subseteq Settled'
  BY <1>1, <1>3 DEF Settled
<1>6. CASE Next1.kind # "lost"
  <2>1. Owed' => Owed
    BY <1>1, <1>4, <1>6 DEF Owed
  <2>2. disk'.pending => st'.pending
    BY <1>1, <1>4 DEF RecoveryOK
  <2> QED
    BY <1>1, <1>5, <2>1, <2>2, Balance DEF RecoveryOK
<1>7. CASE Next1.kind = "lost"
  <2> DEFINE e == Next1.event
  <2>1. e \notin Settled
    BY <1>1, <1>2 DEF Dispatch, Settled, Once, IdsOK
  <2>2. sent'[e] > 0
    BY <1>1, <1>4 DEF IInv, TickOK
  <2>3. Next1 \in Appended'
    <3>1. Next1 \in Appended
      BY <1>2, AppendedLines DEF IInv, Next1
    <3> QED
      BY <1>1, <3>1 DEF Appended
  <2>4. e \in Losses'
    BY <1>2, <1>7, <2>2, <2>3 DEF Losses
  <2>5. e \in Settled'
    BY <1>1, <1>4, <2>4 DEF Settled
  <2>6. Settled \in SUBSET Event /\ Settled' \in SUBSET Event
    BY DEF Settled, Losses
  <2> HIDE DEF e
  <2>7. /\ IsFiniteSet(Settled) /\ Cardinality(Settled) \in Nat
        /\ IsFiniteSet(Settled') /\ Cardinality(Settled') \in Nat
    BY <2>6, EventsFinite
  <2>8. Cardinality(Settled \cup {e}) = Cardinality(Settled) + 1
    BY <2>1, <2>7, FS_AddElement, Zenon
  <2>9. Cardinality(Settled \cup {e}) <= Cardinality(Settled')
    BY <1>5, <2>5, <2>7, FS_Subset
  <2>10. /\ recovered' <= Cardinality(Settled') + faults'
         /\ recovered' + 1 <= Cardinality(Settled') + faults'
    BY <1>1, <2>7, <2>8, <2>9, Counted DEF RecoveryOK
  <2> QED
    BY <1>1, <1>4, <1>7, <2>10 DEF RecoveryOK
<1> QED
  BY <1>6, <1>7

LEMMA RecoveryCheckpoint ==
  ASSUME BridgeAssumption, ~SameInode, NoneDropped, IInv, IInv', Once, RecoveryOK, Checkpoint
  PROVE  RecoveryOK'
<1>1. /\ pc = "checkpoint" /\ pc' = "read" /\ st.offset < Len(file[opened])
      /\ recovered' = recovered /\ faults' = faults /\ disk' = st'
  BY DEF Checkpoint, IInv, TickOK
<1>2. Next1.event \in Event /\ Next1.id = Next1.event
  BY <1>1, Reading
<1>3. /\ st \in State /\ st.ids \in Seq(Event) /\ st.ids = disk.ids /\ Losses \subseteq Losses'
      /\ \A i, j \in 1 .. Len(st.ids) : st.ids[i] = st.ids[j] => i = j
      /\ Next1.id \notin ToSet(st.ids)
  BY <1>1, LossesGrow, Zenon DEF IInv, Cursor, State, Once, IdsOK, Next, Tick
<1>4. /\ Remember(st.ids, Next1.id) = Append(st.ids, Next1.id)
      /\ ToSet(Append(st.ids, Next1.id)) = ToSet(st.ids) \cup {Next1.id}
  BY <1>2, <1>3, RememberAll
<1>5. st'.ids = Remember(st.ids, Next1.id) /\ st'.pending = st.pending
  BY <1>3 DEF Checkpoint, State
<1>6. Settled \subseteq Settled'
  BY <1>1, <1>2, <1>3, <1>4, <1>5 DEF Settled
<1>7. Owed' = Owed
  BY <1>1, <1>5 DEF Owed
<1> QED
  BY <1>1, <1>6, <1>7, Balance DEF RecoveryOK

\* A death forgets one loss at most, or the save of one recovery.
LEMMA RecoveryDie ==
  ASSUME BridgeAssumption, ~SameInode, IInv, IInv', Once, RecoveryOK, Die
  PROVE  RecoveryOK'
<1>1. /\ pc # "idle" /\ pc' = "idle" /\ faults' = faults + 1
      /\ UNCHANGED <<disk, recovered>> /\ Losses \subseteq Losses'
  BY LossesGrow DEF Die, Gone, Next
<1>2. CASE pc # "checkpoint"
  <2>1. Settled \subseteq Settled'
    BY <1>1, <1>2 DEF Settled
  <2> QED
    BY <1>1, <2>1, Balance DEF RecoveryOK
<1>3. CASE pc = "checkpoint"
  <2> DEFINE e == Next1.event
  <2>1. Settled \subseteq Settled' \cup {e}
    BY <1>1, <1>3 DEF Settled
  <2>2. Settled \in SUBSET Event /\ Settled' \in SUBSET Event
    BY DEF Settled, Losses
  <2> HIDE DEF e
  <2>3. /\ IsFiniteSet(Settled) /\ Cardinality(Settled) \in Nat
        /\ IsFiniteSet(Settled') /\ Cardinality(Settled') \in Nat
    BY <2>2, EventsFinite
  <2>4. /\ IsFiniteSet(Settled' \cup {e})
        /\ Cardinality(Settled' \cup {e}) = IF e \in Settled' THEN Cardinality(Settled') ELSE Cardinality(Settled') + 1
    BY <2>3, FS_AddElement
  <2>5. Cardinality(Settled) <= Cardinality(Settled' \cup {e})
    BY <2>1, <2>4, FS_Subset
  <2>6. Cardinality(Settled) <= Cardinality(Settled') + 1
    BY <2>3, <2>4, <2>5
  <2>7. Owed' => Owed
    BY <1>1, <1>3 DEF Owed, RecoveryOK
  <2>8. /\ recovered' <= Cardinality(Settled') + faults'
        /\ Owed' => recovered' + 1 <= Cardinality(Settled') + faults'
    BY <1>1, <2>3, <2>6, <2>7, Counted DEF RecoveryOK
  <2> QED
    BY <1>1, <2>8 DEF RecoveryOK
<1> QED
  BY <1>2, <1>3

\* As long as no identity is dropped, SYSTEM_RECOVERED answers a loss the chat
\* was told of, once each, unless the process dies between message and save.
THEOREM RecoveryAnswersLoss ==
  ASSUME BridgeAssumption, ~SharedIds, ~SameInode, NoneDropped
  PROVE  Spec => []RecoveryFollowsLoss
<1>1. Init => IInv /\ Once /\ RecoveryOK
  <2> SUFFICES ASSUME Init PROVE IInv /\ Once /\ RecoveryOK
    OBVIOUS
  <2>1. IInv /\ Once
    BY InitOK, OnceInit
  <2>2. Settled \in SUBSET Event
    BY DEF Settled, Losses
  <2>3. Cardinality(Settled) \in Nat
    BY <2>2, EventsFinite
  <2>4. RecoveryOK
    BY <2>3 DEF Init, Fresh, RecoveryOK, Owed
  <2> QED
    BY <2>1, <2>4
<1>2. IInv /\ Once /\ RecoveryOK /\ [Next]_vars => IInv' /\ Once' /\ RecoveryOK'
  <2> SUFFICES ASSUME IInv, Once, RecoveryOK, [Next]_vars PROVE IInv' /\ Once' /\ RecoveryOK'
    OBVIOUS
  <2>1. IInv' /\ Once'
    BY OnceStep
  <2>2. RecoveryOK'
    BY <2>1, RecoveryAtRest, RecoveryOutside, RecoveryDispatch, RecoveryCheckpoint, RecoveryDie DEF Next, Tick
  <2> QED
    BY <2>1, <2>2
<1>3. IInv /\ RecoveryOK => RecoveryFollowsLoss
  <2> SUFFICES ASSUME IInv, RecoveryOK PROVE RecoveryFollowsLoss
    OBVIOUS
  <2> DEFINE losses == {l.event : l \in {x \in Appended : x.kind = "lost" /\ sent[x.event] > 0}}
  <2>1. losses = Losses
    <3>1. \A x \in Appended : x.event \in Event
      BY AppendedLines, LineFacts DEF IInv, FilesOK
    <3> QED
      BY <3>1 DEF Losses
  <2>2. Losses \in SUBSET Event /\ Settled \in SUBSET Losses /\ Settled \in SUBSET Event
    BY DEF Settled, Losses
  <2>3. IsFiniteSet(Losses) /\ Cardinality(Losses) \in Nat /\ Cardinality(Settled) \in Nat
    BY <2>2, EventsFinite
  <2>4. Cardinality(Settled) <= Cardinality(Losses)
    BY <2>2, <2>3, FS_Subset
  <2>5. recovered \in Nat /\ faults \in Nat
    BY Numbers DEF IInv, CountsOK
  <2>6. recovered <= Cardinality(Losses) + faults
    BY <2>3, <2>4, <2>5 DEF RecoveryOK
  <2> QED
    BY <2>1, <2>6 DEF RecoveryFollowsLoss
<1> QED
  BY <1>1, <1>2, <1>3, PTL DEF Spec
-----------------------------------------------------------------------------
(* The watchlists, for any scopes, symbols and number of calls, as long as *)
(* one call runs at a time and no two scopes share a name: what was told   *)
(* stays true because the call in progress has opened what it will change  *)
(* and nobody else replaces a list; a list's file is never the temporary   *)
(* one, so the one that is open is not read.                               *)

CONSTANTS Scope, Symbol, Call, Alike, MaxSymbols, MaxCalls, Torn
VARIABLES content, path, tmp, call_pc, ask, merged, changed, fd, said, calls

Lists == INSTANCE Watchlist WITH pc <- call_pc

OneAtATime == \A c, d \in Call : c = d
NamedApart == \A s, t \in Scope : Lists!Slug(s) = Lists!Slug(t) => s = t

\* What a call in progress will change, nobody has been told.
AskedOK ==
  \A c \in Call : call_pc[c] # "idle" =>
    ask[c] \in Lists!Ask /\ \A x \in ask[c].symbols : said[ask[c].scope][x] = "open"

\* Every inode has one name at most, and what is listed was filled.
InodesOK ==
  /\ \A n, m \in Lists!Name : path[n] # 0 /\ path[n] = path[m] => n = m
  /\ \A n, m \in Lists!Name : tmp[n] # 0 /\ tmp[n] = tmp[m] => n = m
  /\ \A n, m \in Lists!Name : path[n] # 0 => path[n] # tmp[m]
  /\ \A n \in Lists!Name : path[n] # 0 => content[path[n]] # Torn

\* What a call has merged still follows from the list, and it fills the
\* temporary file of its scope.
MergedOK ==
  \A c \in Call :
    /\ call_pc[c] \in {"fill", "rename"} => fd[c] # 0 /\ fd[c] = tmp[Lists!Slug(ask[c].scope)]
    /\ call_pc[c] \notin {"fill", "rename"} => fd[c] = 0
    /\ call_pc[c] = "rename" => content[fd[c]] = merged[c]
    /\ call_pc[c] \in {"open", "fill", "rename"} =>
         merged[c] = Lists!Merge(ask[c], Lists!Listed(ask[c].scope)) /\ Cardinality(merged[c]) <= MaxSymbols
    /\ call_pc[c] \in {"open", "fill", "rename", "back"} => changed[c] \subseteq ask[c].symbols
    /\ call_pc[c] = "back" => \A x \in ask[c].symbols : x \in Lists!Listed(ask[c].scope) <=> ask[c].action = "add"

\* A call takes one new inode at most.
Used == ({path[n] : n \in Lists!Name} \cup {tmp[n] : n \in Lists!Name}) \ {0}
SpareOK ==
  /\ Cardinality(Used) <= calls
  /\ \A c \in Call : call_pc[c] \in {"read", "open"} => Cardinality(Used) + 1 <= calls

ListInv == Lists!TypeOK /\ AskedOK /\ InodesOK /\ MergedOK /\ SpareOK /\ Lists!AnswerHolds

Here == Lists!WatchlistAssumption /\ OneAtATime /\ NamedApart

\* Cardinality is the same there and here.
LEMMA SameCardinality ==
  ASSUME NEW S
  PROVE  Lists!Cardinality(S) = Cardinality(S) /\ (Lists!IsFiniteSet(S) <=> IsFiniteSet(S))
<1>1. Lists!Cardinality(S) = Cardinality(S)
  BY DEF Lists!Cardinality, Cardinality
<1>2. Lists!IsFiniteSet(S) <=> IsFiniteSet(S)
  BY DEF Lists!IsFiniteSet, IsFiniteSet
<1>3. QED
  BY <1>1, <1>2

LEMMA ListFacts ==
  ASSUME Here, Lists!TypeOK
  PROVE  /\ MaxCalls \in Nat /\ MaxSymbols \in Nat /\ calls \in Nat /\ calls <= MaxCalls
         /\ Lists!Inode = 1 .. MaxCalls /\ 0 \notin Lists!Inode
         /\ (\A s \in Scope : Lists!Slug(s) \in Lists!Name)
         /\ (\A s \in Scope : Lists!Listed(s) \in SUBSET Symbol)
         /\ (\A n \in Lists!Name : path[n] \in {0} \cup Lists!Inode /\ tmp[n] \in {0} \cup Lists!Inode)
         /\ (\A S \in SUBSET Symbol : IsFiniteSet(S) /\ Cardinality(S) \in Nat /\ S # Torn)
<1>1. MaxCalls \in Nat /\ MaxSymbols \in Nat /\ IsFiniteSet(Symbol) /\ Torn \notin SUBSET Symbol
  BY SameCardinality DEF Here, Lists!WatchlistAssumption
<1>2. \A S \in SUBSET Symbol : IsFiniteSet(S) /\ Cardinality(S) \in Nat /\ S # Torn
  BY <1>1, FS_Subset, FS_CardinalityType
<1>3. \A s \in Scope : Lists!Slug(s) \in Lists!Name
  BY DEF Lists!Name
<1>4. \A s \in Scope : Lists!Listed(s) \in SUBSET Symbol
  BY <1>3 DEF Lists!Listed, Lists!TypeOK
<1>5. QED
  BY <1>1, <1>2, <1>3, <1>4 DEF Lists!Inode, Lists!TypeOK

LEMMA ListInit == ASSUME Here, Lists!Init PROVE ListInv
<1>1. MaxCalls \in Nat /\ MaxSymbols \in Nat /\ Cardinality({}) = 0
  BY FS_EmptySet DEF Here, Lists!WatchlistAssumption
<1>2. Lists!TypeOK
  <2>1. Lists!Cardinality({}) = 0
    BY <1>1, SameCardinality
  <2>2. QED
    BY <1>1, <2>1 DEF Lists!Init, Lists!TypeOK, Lists!Inode
<1>3. Used = {}
  BY DEF Lists!Init, Used
<1>4. SpareOK
  BY <1>1, <1>3 DEF SpareOK, Lists!Init
<1>5. AskedOK /\ InodesOK /\ MergedOK /\ Lists!AnswerHolds
  BY DEF Lists!Init, AskedOK, InodesOK, MergedOK, Lists!AnswerHolds, Lists!Listed, Lists!Name
<1>6. QED
  BY <1>2, <1>4, <1>5 DEF ListInv

\* Writing an inode that no list has leaves every list as it is.
LEMMA ElsewhereWritten ==
  ASSUME Here, ListInv, NEW i \in Lists!Inode, NEW v, \A n \in Lists!Name : path[n] # i,
         content' = [content EXCEPT ![i] = v], path' = path
  PROVE  \A s \in Scope : Lists!Listed(s)' = Lists!Listed(s)
<1>1. \A s \in Scope : Lists!Slug(s) \in Lists!Name /\ Lists!Slug(s)' = Lists!Slug(s)
  BY DEF Lists!Name, Lists!Slug
<1>2. \A n \in Lists!Name : path[n] # 0 => content'[path[n]] = content[path[n]]
  BY DEF ListInv, Lists!TypeOK
<1>3. QED
  BY <1>1, <1>2 DEF Lists!Listed

\* What is in use is finite.
LEMMA UsedIsFinite ==
  ASSUME Here, Lists!TypeOK
  PROVE  Used \subseteq Lists!Inode /\ IsFiniteSet(Used) /\ Cardinality(Used) \in Nat
<1>1. Used \subseteq Lists!Inode /\ Lists!Inode = 1 .. MaxCalls /\ MaxCalls \in Nat
  BY ListFacts DEF Used
<1>2. IsFiniteSet(1 .. MaxCalls)
  BY <1>1, FS_Interval
<1>3. QED
  BY <1>1, <1>2, FS_Subset, FS_CardinalityType, Zenon

\* Among the numbers up to the bound there is one that is not in use.
LEMMA SpareInode ==
  ASSUME Here, ListInv, NEW c \in Call, call_pc[c] = "open"
  PROVE  /\ Lists!NewInode \in Lists!Inode /\ Lists!NewInode \notin Used
         /\ (\A n \in Lists!Name : path[n] # Lists!NewInode /\ tmp[n] # Lists!NewInode)
<1> USE DEF ListInv
<1>1. Used \subseteq Lists!Inode
  BY ListFacts DEF Used
<1>2. IsFiniteSet(Lists!Inode) /\ Cardinality(Lists!Inode) = MaxCalls
  BY ListFacts, FS_Interval
<1>3. IsFiniteSet(Used) /\ Cardinality(Used) \in Nat /\ Cardinality(Used) < MaxCalls
  BY <1>1, <1>2, ListFacts, FS_Subset, FS_CardinalityType DEF SpareOK
<1>4. Used # Lists!Inode
  BY <1>2, <1>3, ListFacts
<1>5. PICK i \in Lists!Inode : i \notin Used
  BY <1>1, <1>4
<1>6. \A d \in Call : fd[d] = 0
  BY DEF Here, OneAtATime, MergedOK
<1>7. 0 \notin Lists!Inode
  BY ListFacts
<1>8. i \notin {path[n] : n \in Lists!Name} \cup {tmp[n] : n \in Lists!Name} \cup {fd[d] : d \in Call}
  BY <1>5, <1>6, <1>7 DEF Used
<1>9. /\ Lists!NewInode \in Lists!Inode
      /\ Lists!NewInode \notin {path[n] : n \in Lists!Name} \cup {tmp[n] : n \in Lists!Name} \cup {fd[d] : d \in Call}
  BY <1>5, <1>8 DEF Lists!NewInode
<1>10. QED
  BY <1>9 DEF Used

\* A call ends, by its answer, a refusal, a failure or its death; if it
\* answered, it told what its list says.
LEMMA CallEnds ==
  ASSUME Here, ListInv, NEW c \in Call, Lists!Done(c), UNCHANGED <<content, path, tmp, calls>>,
         Lists!AnswerHolds', said' \in [Scope -> [Symbol -> {"in", "out", "open"}]]
  PROVE  ListInv'
<1> USE DEF ListInv
<1>1. /\ call_pc' = [call_pc EXCEPT ![c] = "idle"] /\ ask' = [ask EXCEPT ![c] = Lists!NoAsk]
      /\ merged' = [merged EXCEPT ![c] = {}] /\ changed' = [changed EXCEPT ![c] = {}] /\ fd' = [fd EXCEPT ![c] = 0]
  BY DEF Lists!Done
<1>2. Lists!TypeOK'
  BY <1>1 DEF Lists!TypeOK, Lists!Inode, Lists!Name, Lists!Slug
<1>3. \A d \in Call : d = c /\ call_pc'[d] = "idle" /\ fd'[d] = 0
  BY <1>1 DEF Here, OneAtATime, Lists!TypeOK
<1>4. AskedOK' /\ MergedOK'
  BY <1>3 DEF AskedOK, MergedOK
<1>5. InodesOK'
  BY DEF InodesOK, Lists!Name, Lists!Slug
<1>6. Used' = Used
  BY DEF Used, Lists!Name, Lists!Slug
<1>7. SpareOK'
  BY <1>3, <1>6 DEF SpareOK
<1>8. QED
  BY <1>2, <1>4, <1>5, <1>7

LEMMA StartOK == ASSUME Here, ListInv, NEW c \in Call, Lists!Start(c) PROVE ListInv'
<1> USE DEF ListInv
<1>1. PICK a \in Lists!Ask :
        /\ ask' = [ask EXCEPT ![c] = a]
        /\ said' = [said EXCEPT ![a.scope] = [x \in Symbol |-> IF x \in a.symbols THEN "open" ELSE @[x]]]
  BY Zenon DEF Lists!Start
<1>2. /\ call_pc[c] = "idle" /\ calls < MaxCalls /\ calls' = calls + 1 /\ call_pc' = [call_pc EXCEPT ![c] = "read"]
      /\ UNCHANGED <<content, path, tmp, merged, changed, fd>>
  BY DEF Lists!Start
<1>3. a.scope \in Scope /\ a.symbols \subseteq Symbol
  BY DEF Lists!Ask
<1>4. /\ \A x \in Symbol : said'[a.scope][x] = IF x \in a.symbols THEN "open" ELSE said[a.scope][x]
      /\ \A s \in Scope : s # a.scope => said'[s] = said[s]
  BY <1>1, <1>3 DEF Lists!TypeOK
<1>5. said' \in [Scope -> [Symbol -> {"in", "out", "open"}]]
  BY <1>1, <1>3 DEF Lists!TypeOK
<1>6. calls' \in 0 .. MaxCalls
  BY <1>2, ListFacts
<1>7. Lists!TypeOK'
  BY <1>1, <1>2, <1>5, <1>6 DEF Lists!TypeOK, Lists!Inode, Lists!Name, Lists!Slug
<1>8. \A d \in Call : d = c /\ call_pc'[d] = "read" /\ ask'[d] = a /\ fd'[d] = fd[d]
  BY <1>1, <1>2 DEF Here, OneAtATime, Lists!TypeOK
<1>9. AskedOK'
  BY <1>3, <1>4, <1>8 DEF AskedOK, Lists!Ask
<1>10. MergedOK'
  BY <1>2, <1>8 DEF MergedOK
<1>11. InodesOK' /\ Used' = Used
  BY <1>2 DEF InodesOK, Used, Lists!Name, Lists!Slug
<1>12. SpareOK'
  <2>1. Cardinality(Used) \in Nat
    BY UsedIsFinite
  <2>2. QED
    BY <2>1, <1>2, <1>11, ListFacts DEF SpareOK
<1>13. Lists!AnswerHolds'
  <2>1. \A s \in Scope : Lists!Listed(s)' = Lists!Listed(s)
    BY <1>2 DEF Lists!Listed, Lists!Slug
  <2>2. QED
    BY <2>1, <1>4 DEF Lists!AnswerHolds
<1>14. QED
  BY <1>7, <1>9, <1>10, <1>11, <1>12, <1>13

LEMMA ReadOK == ASSUME Here, ListInv, NEW c \in Call, Lists!Read(c) PROVE ListInv'
<1> USE DEF ListInv
<1> DEFINE list == Lists!Listed(ask[c].scope)
<1>1. call_pc[c] = "read" /\ UNCHANGED <<content, path, tmp, said, calls>>
  BY DEF Lists!Read
<1>2. \A s \in Scope : Lists!Listed(s)' = Lists!Listed(s)
  BY <1>1 DEF Lists!Listed, Lists!Slug
<1>3. Lists!AnswerHolds'
  BY <1>1, <1>2 DEF Lists!AnswerHolds
<1>4. CASE Lists!Done(c)
  BY <1>1, <1>3, <1>4, CallEnds DEF Lists!TypeOK
<1>5. CASE ~ Lists!Done(c)
  <2>1. /\ ~ Lists!OverCap(ask[c], list)
        /\ merged' = [merged EXCEPT ![c] = Lists!Merge(ask[c], list)]
        /\ changed' = [changed EXCEPT ![c] = {x \in ask[c].symbols : (x \in list) # (ask[c].action = "add")}]
        /\ call_pc' = [call_pc EXCEPT ![c] = "open"] /\ UNCHANGED <<ask, fd>>
    BY <1>5 DEF Lists!Read
  <2>2. ask[c] \in Lists!Ask /\ ask[c].scope \in Scope /\ ask[c].symbols \subseteq Symbol /\ ask[c].action \in {"add", "remove"}
    BY <1>1 DEF AskedOK, Lists!Ask
  <2>3. list \in SUBSET Symbol /\ (list = {} \/ Cardinality(list) <= MaxSymbols)
    <3>1. \A i \in Lists!Inode : content[i] # Torn => Cardinality(content[i]) <= MaxSymbols
      BY SameCardinality DEF Lists!TypeOK
    <3>2. QED
      BY <3>1, <2>2, ListFacts DEF Lists!Listed, Lists!TypeOK
  <2>4. Lists!Merge(ask[c], list) \in SUBSET Symbol
    BY <2>2, <2>3 DEF Lists!Merge
  <2>5. Cardinality(Lists!Merge(ask[c], list)) <= MaxSymbols
    <3>1. Cardinality(list) <= MaxSymbols
      BY <2>3, ListFacts, FS_EmptySet
    <3>2. CASE ask[c].action = "add"
      <4>1. ~ (Cardinality(Lists!Merge(ask[c], list)) > MaxSymbols)
        BY <2>1, <3>2, SameCardinality DEF Lists!OverCap
      <4>2. QED
        BY <4>1, <2>4, ListFacts
    <3>3. CASE ask[c].action # "add"
      <4>1. Lists!Merge(ask[c], list) \subseteq list
        BY <3>3 DEF Lists!Merge
      <4>2. Cardinality(Lists!Merge(ask[c], list)) <= Cardinality(list)
        BY <4>1, <2>3, ListFacts, FS_Subset
      <4>3. QED
        BY <4>2, <3>1, <2>3, <2>4, ListFacts
    <3>4. QED
      BY <3>2, <3>3
  <2>6. Lists!TypeOK'
    <3>1. merged' \in [Call -> SUBSET Symbol] /\ changed' \in [Call -> SUBSET Symbol]
      BY <2>1, <2>2, <2>4 DEF Lists!TypeOK
    <3>2. QED
      BY <3>1, <2>1, <1>1 DEF Lists!TypeOK, Lists!Inode, Lists!Name, Lists!Slug
  <2>7. \A d \in Call : d = c /\ call_pc'[d] = "open" /\ ask'[d] = ask[c] /\ fd'[d] = fd[c]
    BY <2>1 DEF Here, OneAtATime, Lists!TypeOK
  <2>8. AskedOK'
    BY <1>1, <2>1, <2>7 DEF AskedOK
  <2>9. merged'[c] = Lists!Merge(ask[c], list) /\ changed'[c] \subseteq ask[c].symbols
    BY <2>1 DEF Lists!TypeOK
  <2>10. MergedOK'
    <3>1. fd[c] = 0
      BY <1>1 DEF MergedOK
    <3>2. Lists!Listed(ask[c].scope)' = list
      BY <1>2, <2>1, <2>2 DEF Lists!Listed, Lists!Slug
    <3>3. Lists!Merge(ask[c], Lists!Listed(ask[c].scope))' = Lists!Merge(ask[c], list)
      BY <3>2, <2>1 DEF Lists!Merge
    <3>4. Cardinality(merged'[c]) <= MaxSymbols
      BY <2>5, <2>9
    <3>5. QED
      BY <3>1, <3>3, <3>4, <2>7, <2>9 DEF MergedOK
  <2>11. InodesOK' /\ Used' = Used
    BY <1>1 DEF InodesOK, Used, Lists!Name, Lists!Slug
  <2>12. SpareOK'
    BY <1>1, <2>11, <2>7 DEF SpareOK
  <2>13. QED
    BY <1>3, <2>6, <2>8, <2>10, <2>11, <2>12
<1>6. QED
  BY <1>4, <1>5

\* A call between its read and its rename keeps what it has merged, as long as
\* the lists stay as they are.
LEMMA OpenOK == ASSUME Here, ListInv, NEW c \in Call, Lists!Open(c) PROVE ListInv'
<1> USE DEF ListInv
<1> DEFINE n == Lists!Slug(ask[c].scope)
<1>1. call_pc[c] = "open" /\ call_pc' = [call_pc EXCEPT ![c] = "fill"] /\ UNCHANGED <<path, ask, merged, changed, said, calls>>
  BY DEF Lists!Open, Lists!OpenTmp
<1>2. PICK i : /\ i = IF tmp[n] = 0 THEN Lists!NewInode ELSE tmp[n]
               /\ content' = [content EXCEPT ![i] = Torn] /\ tmp' = [tmp EXCEPT ![n] = i] /\ fd' = [fd EXCEPT ![c] = i]
  BY Zenon DEF Lists!Open, Lists!OpenTmp
<1>3. ask[c] \in Lists!Ask /\ ask[c].scope \in Scope /\ n \in Lists!Name
  BY <1>1, ListFacts DEF AskedOK, Lists!Ask
<1>4. i \in Lists!Inode /\ i # 0 /\ (\A m \in Lists!Name : path[m] # i /\ (tmp[m] = i => m = n))
  <2>1. CASE tmp[n] = 0
    BY <2>1, <1>1, <1>2, SpareInode, ListFacts
  <2>2. CASE tmp[n] # 0
    BY <2>2, <1>2, <1>3, ListFacts DEF InodesOK
  <2>3. QED
    BY <2>1, <2>2
<1>5. \A s \in Scope : Lists!Listed(s)' = Lists!Listed(s)
  BY <1>1, <1>2, <1>4, ElsewhereWritten, Zenon
<1>6. Lists!AnswerHolds'
  BY <1>1, <1>5 DEF Lists!AnswerHolds
<1>7. Lists!TypeOK'
  <2>1. content' \in [Lists!Inode -> {Torn} \cup SUBSET Symbol] /\ tmp' \in [Lists!Name -> {0} \cup Lists!Inode]
        /\ fd' \in [Call -> {0} \cup Lists!Inode] /\ call_pc' \in [Call -> {"idle", "read", "open", "fill", "rename", "back"}]
    BY <1>1, <1>2, <1>3, <1>4 DEF Lists!TypeOK
  <2>2. \A j \in Lists!Inode : content'[j] # Torn => Lists!Cardinality(content'[j]) <= MaxSymbols
    BY <1>2 DEF Lists!TypeOK
  <2>3. QED
    BY <1>1, <2>1, <2>2 DEF Lists!TypeOK, Lists!Inode, Lists!Name, Lists!Slug
<1>8. \A d \in Call : d = c /\ call_pc'[d] = "fill" /\ ask'[d] = ask[c] /\ fd'[d] = i /\ merged'[d] = merged[c]
  BY <1>1, <1>2 DEF Here, OneAtATime, Lists!TypeOK
<1>9. AskedOK'
  BY <1>1, <1>8 DEF AskedOK
<1>10. \A m \in Lists!Name : tmp'[m] = IF m = n THEN i ELSE tmp[m]
  BY <1>2 DEF Lists!TypeOK
<1>11. MergedOK'
  <2>1. n' = n /\ tmp'[n] = i
    BY <1>1, <1>3, <1>10 DEF Lists!Slug
  <2>2. Lists!Merge(ask[c], Lists!Listed(ask[c].scope))' = Lists!Merge(ask[c], Lists!Listed(ask[c].scope))
    <3>1. Lists!Listed(ask[c].scope)' = Lists!Listed(ask[c].scope)
      BY <1>1, <1>3, <1>5 DEF Lists!Listed, Lists!Slug
    <3>2. QED
      BY <3>1, <1>1 DEF Lists!Merge
  <2>3. Lists!Slug(ask[c].scope)' = n
    BY <1>1 DEF Lists!Slug
  <2>4. QED
    BY <2>1, <2>2, <2>3, <1>1, <1>4, <1>8 DEF MergedOK
<1>12. InodesOK'
  <2>1. \A m \in Lists!Name : path[m] # 0 => content'[path[m]] = content[path[m]]
    BY <1>2, <1>4, ListFacts DEF Lists!TypeOK
  <2>2. Lists!Name' = Lists!Name
    BY DEF Lists!Name, Lists!Slug
  <2>3. QED
    BY <2>1, <2>2, <1>1, <1>4, <1>10 DEF InodesOK
<1>13. SpareOK'
  <2>2. IsFiniteSet(Used) /\ Cardinality(Used) \in Nat
    BY UsedIsFinite
  <2>3. Used' \subseteq Used \cup {i}
    <3>1. Lists!Name' = Lists!Name
      BY DEF Lists!Name, Lists!Slug
    <3>2. QED
      BY <3>1, <1>1, <1>10 DEF Used
  <2>4. IsFiniteSet(Used \cup {i}) /\ Cardinality(Used \cup {i}) \in Nat /\ Cardinality(Used \cup {i}) <= Cardinality(Used) + 1
    BY <2>2, FS_AddElement, FS_CardinalityType
  <2>5. Cardinality(Used') \in Nat /\ Cardinality(Used') <= Cardinality(Used \cup {i})
    BY <2>3, <2>4, FS_Subset, FS_CardinalityType
  <2>6. Cardinality(Used') <= calls
    BY <2>2, <2>4, <2>5, <1>1, ListFacts DEF SpareOK
  <2>7. QED
    BY <2>6, <1>1, <1>8 DEF SpareOK
<1>14. QED
  BY <1>6, <1>7, <1>9, <1>11, <1>12, <1>13

LEMMA FillOK == ASSUME Here, ListInv, NEW c \in Call, Lists!Fill(c) PROVE ListInv'
<1> USE DEF ListInv
<1> DEFINE n == Lists!Slug(ask[c].scope)
<1>1. /\ call_pc[c] = "fill" /\ call_pc' = [call_pc EXCEPT ![c] = "rename"]
      /\ content' = [content EXCEPT ![fd[c]] = merged[c]] /\ UNCHANGED <<path, tmp, ask, merged, changed, fd, said, calls>>
  BY DEF Lists!Fill
<1>2. ask[c].scope \in Scope /\ n \in Lists!Name
  BY <1>1, ListFacts DEF AskedOK, Lists!Ask
<1>3. fd[c] \in Lists!Inode /\ fd[c] = tmp[n] /\ merged[c] \in SUBSET Symbol /\ Cardinality(merged[c]) <= MaxSymbols
  BY <1>1 DEF MergedOK, Lists!TypeOK
<1>4. \A m \in Lists!Name : path[m] # fd[c]
  <2>1. fd[c] # 0
    BY <1>1 DEF MergedOK
  <2>2. QED
    BY <2>1, <1>2, <1>3 DEF InodesOK
<1>5. \A s \in Scope : Lists!Listed(s)' = Lists!Listed(s)
  BY <1>1, <1>3, <1>4, ElsewhereWritten, Zenon
<1>6. Lists!AnswerHolds'
  BY <1>1, <1>5 DEF Lists!AnswerHolds
<1>7. Lists!TypeOK'
  <2>1. Lists!Cardinality(merged[c]) <= MaxSymbols
    BY <1>3, SameCardinality
  <2>2. content' \in [Lists!Inode -> {Torn} \cup SUBSET Symbol] /\ call_pc' \in [Call -> {"idle", "read", "open", "fill", "rename", "back"}]
    BY <1>1, <1>3 DEF Lists!TypeOK
  <2>3. \A j \in Lists!Inode : content'[j] # Torn => Lists!Cardinality(content'[j]) <= MaxSymbols
    BY <2>1, <1>1 DEF Lists!TypeOK
  <2>4. QED
    BY <1>1, <2>2, <2>3 DEF Lists!TypeOK, Lists!Inode, Lists!Name, Lists!Slug
<1>8. \A d \in Call : d = c /\ call_pc'[d] = "rename"
  BY <1>1 DEF Here, OneAtATime, Lists!TypeOK
<1>9. content'[fd[c]] = merged[c]
  BY <1>1, <1>3 DEF Lists!TypeOK
<1>10. AskedOK'
  BY <1>1, <1>8 DEF AskedOK
<1>11. MergedOK'
  <2>1. Lists!Merge(ask[c], Lists!Listed(ask[c].scope))' = Lists!Merge(ask[c], Lists!Listed(ask[c].scope))
    <3>1. Lists!Listed(ask[c].scope)' = Lists!Listed(ask[c].scope)
      BY <1>1, <1>2, <1>5 DEF Lists!Listed, Lists!Slug
    <3>2. QED
      BY <3>1, <1>1 DEF Lists!Merge
  <2>2. Lists!Slug(ask[c].scope)' = n
    BY <1>1 DEF Lists!Slug
  <2>3. QED
    BY <2>1, <2>2, <1>1, <1>8, <1>9 DEF MergedOK
<1>12. InodesOK'
  <2>1. \A m \in Lists!Name : path[m] # 0 => content'[path[m]] = content[path[m]]
    BY <1>1, <1>4, ListFacts DEF Lists!TypeOK
  <2>2. Lists!Name' = Lists!Name
    BY DEF Lists!Name, Lists!Slug
  <2>3. QED
    BY <2>1, <2>2, <1>1 DEF InodesOK
<1>13. SpareOK'
  <2>1. Used' = Used
    BY <1>1 DEF Used, Lists!Name, Lists!Slug
  <2>2. QED
    BY <2>1, <1>1, <1>8 DEF SpareOK
<1>14. QED
  BY <1>6, <1>7, <1>10, <1>11, <1>12, <1>13

\* The list of the scope becomes what was merged; the others keep theirs.
LEMMA RenameOK == ASSUME Here, ListInv, NEW c \in Call, Lists!Rename(c) PROVE ListInv'
<1> USE DEF ListInv
<1> DEFINE n == Lists!Slug(ask[c].scope)
<1>1. call_pc[c] = "rename" /\ UNCHANGED <<content, said, calls>>
  BY DEF Lists!Rename
<1>2. ask[c] \in Lists!Ask /\ ask[c].scope \in Scope /\ n \in Lists!Name
  BY <1>1, ListFacts DEF AskedOK, Lists!Ask
<1>3. /\ fd[c] # 0 /\ fd[c] = tmp[n] /\ content[fd[c]] = merged[c] /\ merged[c] \in SUBSET Symbol /\ fd[c] \in Lists!Inode
      /\ merged[c] = Lists!Merge(ask[c], Lists!Listed(ask[c].scope)) /\ changed[c] \subseteq ask[c].symbols
  BY <1>1 DEF MergedOK, Lists!TypeOK
<1>4. /\ path' = [path EXCEPT ![n] = tmp[n]] /\ tmp' = [tmp EXCEPT ![n] = 0] /\ fd' = [fd EXCEPT ![c] = 0]
      /\ call_pc' = [call_pc EXCEPT ![c] = "back"] /\ UNCHANGED <<ask, merged, changed>>
  BY <1>3 DEF Lists!Rename
<1>5. \A m \in Lists!Name : path'[m] = (IF m = n THEN tmp[n] ELSE path[m]) /\ tmp'[m] = (IF m = n THEN 0 ELSE tmp[m])
  BY <1>4 DEF Lists!TypeOK
<1>6. Lists!TypeOK'
  <2>1. path' \in [Lists!Name -> {0} \cup Lists!Inode] /\ tmp' \in [Lists!Name -> {0} \cup Lists!Inode]
        /\ fd' \in [Call -> {0} \cup Lists!Inode] /\ call_pc' \in [Call -> {"idle", "read", "open", "fill", "rename", "back"}]
    BY <1>2, <1>4 DEF Lists!TypeOK
  <2>2. QED
    BY <1>1, <1>4, <2>1 DEF Lists!TypeOK, Lists!Inode, Lists!Name, Lists!Slug
<1>7. \A d \in Call : d = c /\ call_pc'[d] = "back" /\ fd'[d] = 0
  BY <1>4 DEF Here, OneAtATime, Lists!TypeOK
<1>8. Lists!Listed(ask[c].scope)' = merged[c]
  <2>1. Lists!Slug(ask[c].scope)' = n /\ path'[n] = fd[c]
    BY <1>2, <1>3, <1>4, <1>5 DEF Lists!Slug
  <2>2. merged[c] # Torn
    BY <1>3, ListFacts
  <2>3. QED
    BY <2>1, <2>2, <1>1, <1>3 DEF Lists!Listed
<1>9. \A s \in Scope \ {ask[c].scope} : Lists!Listed(s)' = Lists!Listed(s)
  <2>1. \A s \in Scope \ {ask[c].scope} : Lists!Slug(s) \in Lists!Name /\ Lists!Slug(s) # n /\ Lists!Slug(s)' = Lists!Slug(s)
    BY <1>2, ListFacts DEF Here, NamedApart, Lists!Slug
  <2>2. QED
    BY <2>1, <1>1, <1>5 DEF Lists!Listed
<1>10. \A x \in Symbol : x \notin ask[c].symbols => (x \in merged[c] <=> x \in Lists!Listed(ask[c].scope))
  BY <1>3 DEF Lists!Merge
<1>11. \A x \in ask[c].symbols : x \in merged[c] <=> ask[c].action = "add"
  BY <1>2, <1>3 DEF Lists!Merge, Lists!Ask
<1>12. Lists!AnswerHolds'
  <2>1. \A x \in ask[c].symbols : said[ask[c].scope][x] = "open"
    BY <1>1 DEF AskedOK
  <2>2. \A x \in Symbol : /\ said[ask[c].scope][x] = "in" => x \in merged[c]
                          /\ said[ask[c].scope][x] = "out" => x \notin merged[c]
    BY <1>2, <1>10, <2>1 DEF Lists!AnswerHolds
  <2>3. \A s \in Scope, x \in Symbol :
          /\ said'[s][x] = "in" => x \in Lists!Listed(s)'
          /\ said'[s][x] = "out" => x \notin Lists!Listed(s)'
    <3>1. SUFFICES ASSUME NEW s \in Scope, NEW x \in Symbol
                   PROVE  /\ said[s][x] = "in" => x \in Lists!Listed(s)'
                          /\ said[s][x] = "out" => x \notin Lists!Listed(s)'
      BY <1>1
    <3>2. CASE s = ask[c].scope
      <4>1. Lists!Listed(s)' = merged[c]
        BY <3>2, <1>4, <1>8 DEF Lists!Listed, Lists!Slug
      <4>2. QED
        BY <4>1, <3>2, <2>2
    <3>3. CASE s # ask[c].scope
      BY <3>3, <1>9 DEF Lists!AnswerHolds
    <3>4. QED
      BY <3>2, <3>3
  <2>4. QED
    BY <2>3 DEF Lists!AnswerHolds
<1>13. AskedOK'
  BY <1>1, <1>4, <1>7 DEF AskedOK
<1>14. MergedOK'
  BY <1>3, <1>4, <1>7, <1>8, <1>11 DEF MergedOK
<1>15. InodesOK'
  <2>1. Lists!Name' = Lists!Name
    BY DEF Lists!Name, Lists!Slug
  <2>2. content[tmp[n]] # Torn
    BY <1>3, ListFacts
  <2>3. QED
    BY <2>1, <2>2, <1>1, <1>2, <1>3, <1>5 DEF InodesOK
<1>16. SpareOK'
  <2>2. IsFiniteSet(Used) /\ Cardinality(Used) \in Nat
    BY UsedIsFinite
  <2>3. Used' \subseteq Used
    <3>1. Lists!Name' = Lists!Name
      BY DEF Lists!Name, Lists!Slug
    <3>2. QED
      BY <3>1, <1>2, <1>5 DEF Used
  <2>4. Cardinality(Used') \in Nat /\ Cardinality(Used') <= Cardinality(Used)
    BY <2>2, <2>3, FS_Subset, FS_CardinalityType
  <2>5. Cardinality(Used') <= calls
    BY <2>2, <2>4, ListFacts DEF SpareOK
  <2>6. QED
    BY <2>5, <1>1, <1>7 DEF SpareOK
<1>17. QED
  BY <1>6, <1>12, <1>13, <1>14, <1>15, <1>16

\* The read-back shows every change, and tells what is there.
LEMMA ReadBackOK == ASSUME Here, ListInv, NEW c \in Call, Lists!ReadBack(c) PROVE ListInv'
<1> USE DEF ListInv
<1> DEFINE verified == \A x \in changed[c] : (x \in Lists!Listed(ask[c].scope)) <=> (ask[c].action = "add")
           busy == UNION {ask[d].symbols : d \in {e \in Call \ {c} : ask[e] # Lists!NoAsk /\ ask[e].scope = ask[c].scope}}
           told == [x \in Symbol |-> IF verified /\ x \in ask[c].symbols \ busy
                                     THEN IF ask[c].action = "add" THEN "in" ELSE "out" ELSE said[ask[c].scope][x]]
<1>1. /\ call_pc[c] = "back" /\ Lists!Done(c) /\ UNCHANGED <<content, path, tmp, calls>>
      /\ said' = [said EXCEPT ![ask[c].scope] = told]
  BY DEF Lists!ReadBack
<1>2. ask[c] \in Lists!Ask /\ ask[c].scope \in Scope /\ ask[c].action \in {"add", "remove"}
  BY <1>1 DEF AskedOK, Lists!Ask
<1>3. told \in [Symbol -> {"in", "out", "open"}]
  BY <1>2 DEF Lists!TypeOK
<1>4. said' \in [Scope -> [Symbol -> {"in", "out", "open"}]] /\ said'[ask[c].scope] = told
      /\ \A s \in Scope : s # ask[c].scope => said'[s] = said[s]
  BY <1>1, <1>2, <1>3, Zenon DEF Lists!TypeOK
<1>5. \A s \in Scope : Lists!Listed(s)' = Lists!Listed(s)
  BY <1>1 DEF Lists!Listed, Lists!Slug
<1>6. \A x \in Symbol : /\ told[x] = "in" => x \in Lists!Listed(ask[c].scope)
                        /\ told[x] = "out" => x \notin Lists!Listed(ask[c].scope)
  <2>1. \A x \in ask[c].symbols : x \in Lists!Listed(ask[c].scope) <=> ask[c].action = "add"
    BY <1>1 DEF MergedOK
  <2>2. QED
    BY <2>1, <1>2 DEF Lists!AnswerHolds
<1>7. Lists!AnswerHolds'
  BY <1>4, <1>5, <1>6 DEF Lists!AnswerHolds
<1>8. QED
  BY <1>1, <1>4, <1>7, CallEnds

LEMMA ListStep == ASSUME Here, ListInv, [Lists!Next]_Lists!vars PROVE ListInv'
<1>1. ASSUME NEW c \in Call, Lists!Die(c) PROVE ListInv'
  <2>1. Lists!Done(c) /\ UNCHANGED <<content, path, tmp, said, calls>>
    BY <1>1 DEF Lists!Die
  <2>2. \A s \in Scope : Lists!Listed(s)' = Lists!Listed(s)
    BY <2>1 DEF Lists!Listed, Lists!Slug
  <2>3. Lists!AnswerHolds' /\ said' \in [Scope -> [Symbol -> {"in", "out", "open"}]]
    BY <2>1, <2>2 DEF ListInv, Lists!AnswerHolds, Lists!TypeOK
  <2>4. QED
    BY <2>1, <2>3, CallEnds
<1>2. CASE UNCHANGED Lists!vars
  <2> USE <1>2 DEF ListInv, Lists!vars
  <2>1. Lists!TypeOK'
    BY DEF Lists!TypeOK, Lists!Inode, Lists!Name, Lists!Slug
  <2>2. AskedOK' /\ InodesOK'
    BY DEF AskedOK, InodesOK, Lists!Name, Lists!Slug
  <2>3. Used' = Used /\ \A s \in Scope : Lists!Listed(s)' = Lists!Listed(s)
    BY DEF Used, Lists!Name, Lists!Slug, Lists!Listed
  <2>4. SpareOK' /\ Lists!AnswerHolds'
    BY <2>3 DEF SpareOK, Lists!AnswerHolds
  <2>5. MergedOK'
    BY Zenon DEF MergedOK, Lists!Merge, Lists!Listed, Lists!Slug
  <2>6. QED
    BY <2>1, <2>2, <2>4, <2>5
<1>3. QED
  BY <1>1, <1>2, StartOK, ReadOK, OpenOK, FillOK, RenameOK, ReadBackOK DEF Lists!Next

\* A verified answer says what the list of the scope says until somebody of
\* that scope edits the symbol again, and the monitor, which takes no lock,
\* never meets half a list (watchlist.py; toolset.py, _watchlist_update).
THEOREM AnswersStayTrue ==
  ASSUME Lists!WatchlistAssumption, OneAtATime, NamedApart
  PROVE  Lists!Spec => [](Lists!TypeOK /\ Lists!AnswerHolds /\ Lists!ReadersSeeWhole)
<1>1. Here
  BY DEF Here
<1>2. Lists!Init => ListInv
  BY <1>1, ListInit
<1>3. ListInv /\ [Lists!Next]_Lists!vars => ListInv'
  BY <1>1, ListStep
<1>4. ListInv => Lists!TypeOK /\ Lists!AnswerHolds /\ Lists!ReadersSeeWhole
  BY DEF ListInv, InodesOK, Lists!ReadersSeeWhole
<1>5. QED
  BY <1>2, <1>3, <1>4, PTL DEF Lists!Spec
-----------------------------------------------------------------------------
(* The trading ledger (TradingLedger), for any symbols, acknowledging      *)
(* processes, cycles, days and deaths.  Who has the lock works on what the *)
(* files said; what it saves was told first.                               *)

CONSTANTS Client, Share, MaxAcks, MaxCycles, AfterHours
VARIABLES ledger, summary, alerts, holder, station, mem, written, fact, acks, cycles, deaths, date, done, wrecked

Ledger == INSTANCE TradingLedger WITH disk <- ledger, lock <- holder, pc <- station, faults <- deaths, day <- date

Files == {"opportunities", "positions", "forward"}
InTransaction == {"locked", "saving", "summary", "settling"}
Saving == {"saving", "settling"}

\* A store, read or to be written, a file of it being torn.
IsStore(d, tear) == DOMAIN d = Files /\ Ledger!IsLedger(d, tear)
Notice == [type : Ledger!Event, symbol : Symbol \cup {"market"}, ref : 0 .. Ledger!MaxId, day : 1 .. MaxDays]
LedgerTypes ==
  /\ IsStore(ledger, {Torn})
  /\ DOMAIN mem = Ledger!Process /\ \A p \in Ledger!Process : IsStore(mem[p], {})
  /\ summary \in Seq(1 .. Ledger!MaxId) /\ alerts \in Seq(Notice)
  /\ holder \in Ledger!Process \cup {Ledger!Free}
  /\ station \in [Ledger!Process -> {"idle", "waiting", "locked", "saving", "summary", "settling", "dead"}]
  /\ written \in [Ledger!Process -> 0 .. 6]
  /\ fact \in [Client -> Ledger!Fact \cup {Ledger!NoFact}]
  /\ acks \in 0 .. MaxAcks /\ cycles \in 0 .. MaxCycles /\ deaths \in 0 .. MaxFaults /\ date \in 1 .. MaxDays
  /\ done \subseteq Ledger!Fact /\ wrecked \subseteq Files

\* One process at a time is in a transaction, and has what the files say until
\* it saves, each file torn before it is filled.  That a file is torn is said of
\* the first two: nothing assumes that Torn is no set of observations.
FileAt(i) == Ledger!FileOrder[i]
HolderOK ==
  /\ \A p \in Ledger!Process : station[p] \in InTransaction <=> holder = p
  /\ station[Ledger!Session] \notin {"waiting", "dead"}
  /\ \A c \in Client : station[c] \notin {"summary", "settling"} /\ (station[c] # "idle" => fact[c] \in Ledger!Fact)
  /\ \A p \in Ledger!Process : station[p] \notin Saving => written[p] = 0
  /\ \A p \in Ledger!Process : station[p] \in {"locked", "summary"} =>
       \A f \in Files : mem[p][f] = IF ledger[f] = Torn THEN Ledger!Default[f] ELSE ledger[f]
  /\ \A p \in Ledger!Process : station[p] \in Saving => \A i \in 1 .. 3 :
       /\ written[p] >= 2 * i => ledger[FileAt(i)] = mem[p][FileAt(i)]
       /\ written[p] = 2 * i - 1 => ledger[FileAt(i)] = Torn
       /\ station[p] = "settling" => ledger[FileAt(i)] \in {mem[p][FileAt(i)], Torn}
  /\ \A i \in 1 .. 2 : ledger[FileAt(i)] = Torn =>
       FileAt(i) \in wrecked \/ \E p \in Ledger!Process : station[p] \in Saving /\ written[p] = 2 * i - 1
  /\ deaths = 0 => wrecked = {} /\ \A c \in Client : station[c] # "dead"

\* What holds of the positions on disk and of those in a transaction.
Rec(x) == Ledger!Elements(x.open) \cup Ledger!Elements(x.closed)
Trying == {c \in Client : station[c] \in {"waiting", "locked", "dead"}}
Told(x) ==
  /\ \A p \in Rec(x) : Ledger!Said("POSITION_OPENED", p.symbol, p.id)
  /\ \A p \in Ledger!Elements(x.closed) : Ledger!Said("POSITION_CLOSED", p.symbol, p.id)
  /\ \A p \in Ledger!Elements(x.open) : p.state = "EXIT_ALERT" => Ledger!Said("POSITION_EXIT_ALERT", p.symbol, p.id)
Numbered(x) ==
  /\ \A p \in Rec(x) : p.id < x.next
  /\ \A p, q \in Rec(x) : p.id = q.id => p.time = q.time
  /\ x.next - 1 + Cardinality(Trying) <= acks + deaths
Holding(x) == "positions" \notin wrecked =>
  \A f \in done : f.kind = "buy" => \E p \in Rec(x) : p.time = f.time /\ p.symbol = f.symbol /\ p.venue = f.venue
Pending(c) == station[c] \in {"waiting", "locked"} /\ fact[c].kind = "buy"
OnceEach(x) == deaths = 0 =>
  /\ \A i, j \in DOMAIN x.open : x.open[i].time = x.open[j].time => i = j
  /\ \A i, j \in DOMAIN x.closed : x.closed[i].time = x.closed[j].time => i = j
  /\ \A i \in DOMAIN x.open, j \in DOMAIN x.closed : x.open[i].time # x.closed[j].time
  /\ \A p \in Rec(x), c \in Client : Pending(c) => p.time # fact[c].time
PositionsOK(x) == Told(x) /\ Numbered(x) /\ Holding(x) /\ OnceEach(x) /\ \A p \in Rec(x) : p.time <= acks
FactsOK ==
  /\ IsFiniteSet(Trying) /\ Cardinality(Trying) <= acks + deaths
  /\ ledger.positions # Torn => PositionsOK(ledger.positions)
  /\ \A p \in Ledger!Process : station[p] \in InTransaction => PositionsOK(mem[p].positions)
  /\ "positions" \notin wrecked => \A c \in Client : station[c] = "saving" /\ fact[c].kind = "buy" =>
       \E p \in Rec(mem[c].positions) : p.time = fact[c].time /\ p.symbol = fact[c].symbol /\ p.venue = fact[c].venue
  /\ \A c \in Client : station[c] # "idle" => fact[c].time <= acks
  /\ \A c, d \in Client : station[c] # "idle" /\ station[d] # "idle" /\ fact[c].time = fact[d].time => c = d

\* What holds of the opportunities, on disk and in a transaction.
ReadyTold(o) == \A s \in Symbol : o[s] = "READY" => Ledger!Said("NEW_READY", s, 0)
Agree(m) == \A s \in Symbol :
  /\ m.opportunities[s] = "EXECUTED" => Ledger!Holds(m, s)
  /\ m.opportunities[s] = "READY" => ~ Ledger!Holds(m, s)
Announced(o) == \A i \in DOMAIN alerts :
  /\ alerts[i].type = "NEW_READY"
  /\ \A k \in DOMAIN alerts : k > i => alerts[k].symbol # alerts[i].symbol
  => o[alerts[i].symbol] = "READY"
InStep(m) == Agree(m) /\ Announced(m.opportunities)
ReadyOK ==
  /\ ledger.opportunities # Torn => ReadyTold(ledger.opportunities)
  /\ \A p \in Ledger!Process : station[p] \in InTransaction => ReadyTold(mem[p].opportunities)
PinnedOK == deaths = 0 =>
  /\ holder = Ledger!Free => InStep(ledger)
  /\ \A p \in Ledger!Process : holder = p => InStep(mem[p])
StreamOK ==
  /\ \A i \in DOMAIN alerts : alerts[i].type = "NEW_READY" => alerts[i].symbol \in Symbol
  /\ Ledger!RepeatNeedsFault
OpportunitiesOK == ReadyOK /\ PinnedOK /\ StreamOK

LossesOK == Ledger!OneLossADay /\ \A i \in DOMAIN alerts : alerts[i].day <= date

LedgerInv == LedgerTypes /\ HolderOK /\ FactsOK /\ OpportunitiesOK /\ LossesOK

LEMMA LedgerNumbers ==
  ASSUME Ledger!LedgerAssumption
  PROVE  /\ MaxAcks \in Nat /\ MaxCycles \in Nat /\ MaxFaults \in Nat /\ MaxDays \in Nat \ {0} /\ Share \subseteq Nat
         /\ Ledger!MaxId \in Nat /\ Ledger!MaxId = MaxAcks + MaxFaults
         /\ Ledger!Session \notin Client /\ Ledger!Session \in Ledger!Process /\ Client \subseteq Ledger!Process
         /\ Ledger!Free \notin Ledger!Process /\ Ledger!Process = Client \cup {Ledger!Session}
         /\ IsFiniteSet(Symbol)
<1>1. {MaxAcks, MaxCycles, MaxFaults, MaxDays} \cup Share \subseteq Nat /\ MaxDays > 0
  BY Zenon DEF Ledger!LedgerAssumption
<1>2. Ledger!Session \notin Client /\ Ledger!Free \notin Ledger!Process /\ IsFiniteSet(Symbol)
  BY Zenon DEF Ledger!LedgerAssumption, Ledger!IsFiniteSet, IsFiniteSet
<1>3. MaxAcks \in Nat /\ MaxCycles \in Nat /\ MaxFaults \in Nat /\ MaxDays \in Nat /\ Share \subseteq Nat
  BY <1>1
<1>4. QED
  BY <1>1, <1>2, <1>3 DEF Ledger!MaxId, Ledger!Process

LEMMA FilesAre ==
  /\ FileAt(1) = "opportunities" /\ FileAt(2) = "positions" /\ FileAt(3) = "forward"
  /\ Files = {FileAt(1), FileAt(2), FileAt(3)}
BY DEF FileAt, Files, Ledger!FileOrder

\* f is at p what it was not, or was, and elsewhere what it was.
Becomes(new, old, p, v) == new[p] = v /\ \A q \in Ledger!Process \ {p} : new[q] = old[q]

LEMMA DefaultIs ==
  /\ DOMAIN Ledger!Default = Files /\ Ledger!Default.opportunities = [s \in Symbol |-> "none"]
  /\ Ledger!Default.positions = [open |-> <<>>, closed |-> <<>>, next |-> 1] /\ Ledger!Default.forward = {}
BY DEF Ledger!Default, Files

LEMMA DefaultStore == ASSUME Ledger!LedgerAssumption PROVE IsStore(Ledger!Default, {})
<1>1. Ledger!Default.opportunities \in [Symbol -> Ledger!OppState]
  BY DefaultIs DEF Ledger!OppState
<1>2. Ledger!Default.positions \in Ledger!PositionsFile
  <2>1. <<>> \in Seq(Ledger!Position) /\ 1 \in 1 .. Ledger!MaxId + 1
    BY LedgerNumbers
  <2>2. QED
    BY <2>1, DefaultIs DEF Ledger!PositionsFile
<1>3. Ledger!Default.forward \in SUBSET Ledger!Observation
  BY DefaultIs
<1>4. QED
  BY <1>1, <1>2, <1>3, DefaultIs DEF IsStore, Ledger!IsLedger

LEMMA StoredIs ==
  ASSUME Ledger!LedgerAssumption, LedgerTypes
  PROVE  /\ DOMAIN Ledger!Stored = Files /\ IsStore(Ledger!Stored, {})
         /\ \A f \in Files : Ledger!Stored[f] = IF ledger[f] = Torn THEN Ledger!Default[f] ELSE ledger[f]
<1>1. DOMAIN Ledger!Stored = Files /\ \A f \in Files : Ledger!Stored[f] = IF ledger[f] = Torn THEN Ledger!Default[f] ELSE ledger[f]
  BY DEF Ledger!Stored, LedgerTypes, IsStore
<1>2. "opportunities" \in Files /\ "positions" \in Files /\ "forward" \in Files
  BY DEF Files
<1>3. Ledger!Stored.opportunities \in [Symbol -> Ledger!OppState]
  BY <1>1, <1>2, DefaultStore DEF LedgerTypes, IsStore, Ledger!IsLedger
<1>4. Ledger!Stored.positions \in Ledger!PositionsFile
  BY <1>1, <1>2, DefaultStore DEF LedgerTypes, IsStore, Ledger!IsLedger
<1>5. Ledger!Stored.forward \in SUBSET Ledger!Observation
  BY <1>1, <1>2, DefaultStore DEF LedgerTypes, IsStore, Ledger!IsLedger
<1>6. QED
  BY <1>1, <1>3, <1>4, <1>5 DEF IsStore, Ledger!IsLedger

LEMMA StationMoves ==
  ASSUME LedgerTypes, NEW p \in Ledger!Process, NEW at \in {"idle", "waiting", "locked", "saving", "summary", "settling", "dead"},
         station' = [station EXCEPT ![p] = at]
  PROVE  /\ Becomes(station', station, p, at)
         /\ station' \in [Ledger!Process -> {"idle", "waiting", "locked", "saving", "summary", "settling", "dead"}]
BY DEF LedgerTypes, Becomes

LEMMA MemMoves ==
  ASSUME LedgerTypes, NEW p \in Ledger!Process, NEW m, IsStore(m, {}), mem' = [mem EXCEPT ![p] = m]
  PROVE  Becomes(mem', mem, p, m) /\ DOMAIN mem' = Ledger!Process /\ \A q \in Ledger!Process : IsStore(mem'[q], {})
<1>1. Becomes(mem', mem, p, m) /\ DOMAIN mem' = Ledger!Process
  BY DEF LedgerTypes, Becomes
<1>2. QED
  BY <1>1 DEF LedgerTypes, Becomes

LEMMA LeaveIs ==
  ASSUME Ledger!LedgerAssumption, LedgerTypes, NEW p \in Ledger!Process, Ledger!Leave(p)
  PROVE  /\ holder' = Ledger!Free /\ Becomes(station', station, p, "idle") /\ Becomes(mem', mem, p, Ledger!Default)
         /\ Becomes(written', written, p, 0)
         /\ \A c \in Client : fact'[c] = IF c = p THEN Ledger!NoFact ELSE fact[c]
         /\ station' \in [Ledger!Process -> {"idle", "waiting", "locked", "saving", "summary", "settling", "dead"}]
         /\ DOMAIN mem' = Ledger!Process /\ \A q \in Ledger!Process : IsStore(mem'[q], {})
         /\ written' \in [Ledger!Process -> 0 .. 6] /\ fact' \in [Client -> Ledger!Fact \cup {Ledger!NoFact}]
<1>1. /\ holder' = Ledger!Free /\ station' = [station EXCEPT ![p] = "idle"] /\ mem' = [mem EXCEPT ![p] = Ledger!Default]
      /\ written' = [written EXCEPT ![p] = 0] /\ fact' = IF p = Ledger!Session THEN fact ELSE [fact EXCEPT ![p] = Ledger!NoFact]
  BY DEF Ledger!Leave
<1>2. Becomes(written', written, p, 0) /\ written' \in [Ledger!Process -> 0 .. 6]
  BY <1>1 DEF LedgerTypes, Becomes
<1>3. /\ \A c \in Client : fact'[c] = IF c = p THEN Ledger!NoFact ELSE fact[c]
      /\ fact' \in [Client -> Ledger!Fact \cup {Ledger!NoFact}]
  <2>1. fact \in [Client -> Ledger!Fact \cup {Ledger!NoFact}] /\ Ledger!Session \notin Client
    BY LedgerNumbers DEF LedgerTypes
  <2>2. CASE p = Ledger!Session
    BY <1>1, <2>1, <2>2
  <2>3. CASE p # Ledger!Session
    BY <1>1, <2>1, <2>3, Zenon
  <2>4. QED
    BY <2>2, <2>3
<1>4. QED
  BY <1>1, <1>2, <1>3, StationMoves, MemMoves, DefaultStore, Zenon

\* A set of numbers has a least.
LEMMA FirstIs ==
  ASSUME NEW paths \in SUBSET Nat, paths # {}
  PROVE  Ledger!Min(paths) \in paths /\ \A q \in paths : Ledger!Min(paths) <= q
<1>1. PICK R : R = OpToRel(<, Nat)
  BY Zenon
<1>2. IsWellFoundedOn(R, Nat)
  BY <1>1, NatLessThanWellFounded, Zenon
<1>3. \A x, y \in Nat : x < y => <<x, y>> \in R
  BY <1>1 DEF OpToRel
<1>4. PICK p \in paths : \A q \in paths : <<q, p>> \notin R
  <2>1. paths \subseteq Nat /\ paths # {}
    OBVIOUS
  <2>2. \E p \in paths : \A q \in paths : <<q, p>> \notin R
    BY <1>2, <2>1, WFMin, Zenon
  <2>3. QED
    BY <2>2
<1>5. \A q \in paths : p <= q
  <2>1. \A q \in paths : p \in Nat /\ q \in Nat /\ ~ (q < p)
    BY <1>3, <1>4, Zenon
  <2>2. QED
    BY <2>1
<1>6. Ledger!Min(paths) = CHOOSE x \in paths : \A y \in paths : x =< y
  BY DEF Ledger!Min
<1>7. QED
  BY <1>4, <1>5, <1>6, Zenon

\* One element taken out of a sequence.
LEMMA RemovedIs ==
  ASSUME NEW S, NEW s \in Seq(S), NEW i \in DOMAIN s
  PROVE  /\ Ledger!RemoveAt(s, i) \in Seq(S) /\ Len(Ledger!RemoveAt(s, i)) = Len(s) - 1
         /\ \A k \in DOMAIN Ledger!RemoveAt(s, i) : Ledger!RemoveAt(s, i)[k] = IF k < i THEN s[k] ELSE s[k + 1]
<1>1. PICK a : a = SubSeq(s, 1, i - 1)
  BY Zenon
<1>2. PICK b : b = SubSeq(s, i + 1, Len(s))
  BY Zenon
<1>3. Len(s) \in Nat /\ i \in 1 .. Len(s)
  OBVIOUS
<1>4. a \in Seq(S) /\ Len(a) = i - 1 /\ \A k \in 1 .. i - 1 : a[k] = s[k]
  BY <1>1, <1>3, SubSeqProperties
<1>5. b \in Seq(S) /\ Len(b) = Len(s) - i /\ \A k \in 1 .. Len(s) - i : b[k] = s[i + k]
  <2>1. i + 1 \in 1 .. Len(s) + 1 /\ Len(s) \in i + 1 - 1 .. Len(s)
    BY <1>3
  <2>2. b \in Seq(S) /\ Len(b) = IF i + 1 <= Len(s) THEN Len(s) - (i + 1) + 1 ELSE 0
    BY <1>2, <1>3, <2>1, SubSeqProperties
  <2>3. \A k \in 1 .. Len(s) - i : b[k] = s[i + k]
    BY <1>2, <1>3, <2>1
  <2>4. QED
    BY <1>3, <2>2, <2>3
<1>6. Ledger!RemoveAt(s, i) = a \o b
  BY <1>1, <1>2 DEF Ledger!RemoveAt
<1>7. a \o b \in Seq(S) /\ Len(a \o b) = Len(s) - 1
  BY <1>3, <1>4, <1>5
<1>8. \A k \in 1 .. Len(s) - 1 : (a \o b)[k] = IF k < i THEN s[k] ELSE s[k + 1]
  <2> SUFFICES ASSUME NEW k \in 1 .. Len(s) - 1 PROVE (a \o b)[k] = IF k < i THEN s[k] ELSE s[k + 1]
    BY Zenon
  <2>1. CASE k < i
    BY <1>3, <1>4, <1>5, <2>1
  <2>2. CASE ~ (k < i)
    <3>1. k - (i - 1) \in 1 .. Len(s) - i /\ k - (i - 1) + i = k + 1
      BY <1>3, <2>2
    <3>2. (a \o b)[k] = b[k - (i - 1)]
      BY <1>3, <1>4, <1>5, <2>2
    <3>3. b[k - (i - 1)] = s[i + (k - (i - 1))]
      BY <1>5, <3>1
    <3>4. i + (k - (i - 1)) = k + 1
      BY <1>3
    <3>5. QED
      BY <2>2, <3>2, <3>3, <3>4
  <2>3. QED
    BY <2>1, <2>2, Zenon
<1>9. DOMAIN (a \o b) = 1 .. Len(s) - 1
  BY <1>3, <1>7, LenProperties
<1>10. QED
  BY <1>6, <1>7, <1>8, <1>9, Zenon

\* What holds of 1, and of a number if of the one before, holds up to n.
LEMMA Climb ==
  ASSUME NEW n \in Nat, NEW good, n > 0 => 1 \in good, \A k \in 1 .. n : k > 1 /\ k - 1 \in good => k \in good
  PROVE  \A k \in 1 .. n : k \in good
<1> SUFFICES ASSUME NEW m \in 1 .. n, m \notin good PROVE FALSE
  OBVIOUS
<1>1. (1 .. n) \ good \in SUBSET Nat /\ (1 .. n) \ good # {}
  OBVIOUS
<1>2. PICK k \in (1 .. n) \ good : \A j \in (1 .. n) \ good : k <= j
  BY <1>1, FirstIs, Zenon
<1>3. k # 1
  BY <1>2
<1>4. k - 1 \in 1 .. n /\ ~ (k <= k - 1)
  BY <1>2, <1>3
<1>5. k - 1 \in good
  BY <1>2, <1>4
<1>6. QED
  BY <1>2, <1>3, <1>5

\* Sequences of at most one element, put one behind the other.
LEMMA FlattenStarts ==
  ASSUME NEW n \in Nat, NEW seqs, NEW m \in 1 .. n
  PROVE  \E f : f = [i \in 1 .. m |-> IF i = 1 THEN seqs[i] ELSE f[i - 1] \o seqs[i]]
<1> DEFINE Made(k) == \E f : f = [i \in 1 .. k |-> IF i = 1 THEN seqs[i] ELSE f[i - 1] \o seqs[i]]
<1> SUFFICES ASSUME ~ Made(m) PROVE FALSE
  BY Zenon
<1>1. PICK bad : bad = {k \in 1 .. n : ~ Made(k)}
  BY Zenon
<1>2. bad \in SUBSET Nat /\ bad # {}
  <2>1. m \in bad
    BY <1>1, Zenon
  <2>2. bad \subseteq 1 .. n
    BY <1>1, Zenon
  <2>3. QED
    BY <2>1, <2>2
<1>3. PICK k \in bad : \A j \in bad : k <= j
  BY <1>2, FirstIs, Zenon
<1>4. k \in 1 .. n /\ ~ Made(k)
  BY <1>1, <1>3, Zenon
<1>5. CASE k = 1
  <2>1. PICK f : f = [i \in 1 .. 1 |-> seqs[1]]
    BY Zenon
  <2>2. f = [i \in 1 .. 1 |-> IF i = 1 THEN seqs[i] ELSE f[i - 1] \o seqs[i]]
    BY <2>1
  <2>3. Made(1)
    BY <2>2
  <2>4. QED
    BY <1>4, <1>5, <2>3
<1>6. CASE k # 1
  <2>1. k - 1 \in 1 .. n /\ ~ (k <= k - 1)
    BY <1>4, <1>6
  <2>2. Made(k - 1)
    BY <1>1, <1>3, <2>1, Zenon
  <2>3. PICK g : g = [i \in 1 .. k - 1 |-> IF i = 1 THEN seqs[i] ELSE g[i - 1] \o seqs[i]]
    BY <2>2, Zenon
  <2>4. PICK f : f = [i \in 1 .. k |-> IF i < k THEN g[i] ELSE g[k - 1] \o seqs[k]]
    BY Zenon
  <2>5. \A i \in 1 .. k : f[i] = IF i = 1 THEN seqs[i] ELSE f[i - 1] \o seqs[i]
    <3> SUFFICES ASSUME NEW i \in 1 .. k PROVE f[i] = IF i = 1 THEN seqs[i] ELSE f[i - 1] \o seqs[i]
      OBVIOUS
    <3>1. CASE i < k
      <4>1. i \in 1 .. k - 1 /\ f[i] = g[i]
        BY <1>4, <2>4, <3>1
      <4>2. g[i] = IF i = 1 THEN seqs[i] ELSE g[i - 1] \o seqs[i]
        BY <2>3, <4>1, Zenon
      <4>3. i # 1 => f[i - 1] = g[i - 1]
        BY <1>4, <2>4, <3>1
      <4>4. QED
        BY <4>1, <4>2, <4>3
    <3>2. CASE i = k
      <4>0. k \in 1 .. k /\ k - 1 \in 1 .. k /\ k - 1 < k /\ ~ (k < k)
        BY <1>4, <1>6
      <4>1. f[k] = g[k - 1] \o seqs[k] /\ f[k - 1] = g[k - 1]
        BY <2>4, <4>0, Zenon
      <4>2. QED
        BY <1>6, <3>2, <4>1, Zenon
    <3>3. QED
      BY <1>4, <3>1, <3>2
  <2>6. f = [i \in 1 .. k |-> IF i = 1 THEN seqs[i] ELSE f[i - 1] \o seqs[i]]
    BY <2>4, <2>5, Zenon
  <2>7. QED
    BY <1>4, <2>6, Zenon
<1>7. QED
  BY <1>5, <1>6

LEMMA FlattenIs ==
  ASSUME NEW n \in Nat \ {0}, NEW seqs, Len(seqs) = n
  PROVE  \E f : f = [i \in 1 .. n |-> IF i = 1 THEN seqs[i] ELSE f[i - 1] \o seqs[i]] /\ Ledger!FlattenSeq(seqs) = f[n]
<1>1. n \in 1 .. n
  OBVIOUS
<1>2. \E f : f = [i \in 1 .. n |-> IF i = 1 THEN seqs[i] ELSE f[i - 1] \o seqs[i]]
  BY <1>1, FlattenStarts, Zenon
<1>3. PICK f : f = CHOOSE g : g = [i \in 1 .. n |-> IF i = 1 THEN seqs[i] ELSE g[i - 1] \o seqs[i]]
  OBVIOUS
<1>4. f = [i \in 1 .. n |-> IF i = 1 THEN seqs[i] ELSE f[i - 1] \o seqs[i]]
  BY <1>2, <1>3, Zenon
<1>5. Ledger!FlattenSeq(seqs) = f[n]
  BY <1>3 DEF Ledger!FlattenSeq
<1>6. QED
  BY <1>4, <1>5, Zenon

\* Each element of the whole is of one of the sequences, and none is lost.
Laid(whole, seqs, m, E) ==
  /\ whole \in Seq(E)
  /\ \E at \in [DOMAIN whole -> 1 .. m] :
       /\ \A k \in DOMAIN whole : Len(seqs[at[k]]) = 1 /\ whole[k] = seqs[at[k]][1]
       /\ \A j, k \in DOMAIN whole : at[j] = at[k] => j = k
       /\ \A i \in 1 .. m : Len(seqs[i]) = 1 => \E k \in DOMAIN whole : at[k] = i

LEMMA LaidOn ==
  ASSUME NEW E, NEW n \in Nat, NEW seqs \in [1 .. n -> Seq(E)], \A i \in 1 .. n : Len(seqs[i]) <= 1,
         NEW m \in 1 .. n, m > 1, NEW whole, Laid(whole, seqs, m - 1, E)
  PROVE  Laid(whole \o seqs[m], seqs, m, E)
<1>1. whole \in Seq(E) /\ seqs[m] \in Seq(E) /\ Len(whole) \in Nat /\ DOMAIN whole = 1 .. Len(whole)
  BY DEF Laid
<1>2. PICK at \in [DOMAIN whole -> 1 .. m - 1] :
       /\ \A k \in DOMAIN whole : Len(seqs[at[k]]) = 1 /\ whole[k] = seqs[at[k]][1]
       /\ \A j, k \in DOMAIN whole : at[j] = at[k] => j = k
       /\ \A i \in 1 .. m - 1 : Len(seqs[i]) = 1 => \E k \in DOMAIN whole : at[k] = i
  BY Zenon DEF Laid
<1>3. CASE Len(seqs[m]) = 0
  <2>1. whole \o seqs[m] = whole
    BY <1>1, <1>3
  <2>2. at \in [DOMAIN whole -> 1 .. m]
    BY <1>2
  <2>3. \A i \in 1 .. m : Len(seqs[i]) = 1 => \E k \in DOMAIN whole : at[k] = i
    BY <1>2, <1>3
  <2>4. Laid(whole, seqs, m, E)
    BY <1>1, <1>2, <2>2, <2>3, Zenon DEF Laid
  <2>5. QED
    BY <2>1, <2>4
<1>4. CASE Len(seqs[m]) = 1
  <2>1. PICK more : more = whole \o seqs[m]
    BY Zenon
  <2>2. /\ more \in Seq(E) /\ DOMAIN more = 1 .. Len(whole) + 1
        /\ more[Len(whole) + 1] = seqs[m][1] /\ \A k \in DOMAIN whole : more[k] = whole[k]
    <3>1. PICK s : s = seqs[m]
      OBVIOUS
    <3>2. s \in Seq(E) /\ Len(s) = 1
      BY <1>1, <1>4, <3>1
    <3>3. more = whole \o s
      BY <2>1, <3>1, Zenon
    <3>4. more \in Seq(E) /\ Len(more) = Len(whole) + 1 /\ DOMAIN more = 1 .. Len(whole) + 1
      <4>1. PICK w : w = whole
        OBVIOUS
      <4>2. w \in Seq(E) /\ more = w \o s /\ Len(w) \in Nat
        BY <1>1, <3>3, <4>1, Zenon
      <4>3. w \o s \in Seq(E) /\ Len(w \o s) = Len(w) + Len(s)
        BY <3>2, <4>2, ConcatProperties, Zenon
      <4>4. more \in Seq(E) /\ Len(more) = Len(w) + 1
        BY <3>2, <4>2, <4>3, Zenon
      <4>5. DOMAIN more = 1 .. Len(more)
        BY <4>4, LenProperties, Zenon
      <4>6. QED
        BY <4>1, <4>4, <4>5, Zenon
    <3>5. more[Len(whole) + 1] = s[1] /\ \A k \in DOMAIN whole : more[k] = whole[k]
      <4>1. PICK w : w = whole
        OBVIOUS
      <4>2. w \in Seq(E) /\ more = w \o s /\ Len(w) \in Nat /\ DOMAIN w = 1 .. Len(w)
        BY <1>1, <3>3, <4>1, Zenon
      <4>3. PICK k : k = Len(w) + 1
        OBVIOUS
      <4>4. more[k] = s[1]
        <5>1. \A i \in 1 .. Len(w) + Len(s) : more[i] = IF i <= Len(w) THEN w[i] ELSE s[i - Len(w)]
          BY <3>2, <4>2, ConcatProperties, Zenon
        <5>2. k \in 1 .. Len(w) + Len(s) /\ ~ (k <= Len(w)) /\ k - Len(w) = 1
          BY <3>2, <4>2, <4>3
        <5>3. more[k] = s[k - Len(w)]
          BY <5>1, <5>2, Zenon
        <5>4. QED
          BY <5>2, <5>3, Zenon
      <4>5. more[Len(w) + 1] = s[1]
        BY <4>3, <4>4, Zenon
      <4>6. \A j \in DOMAIN w : more[j] = w[j]
        BY <3>2, <4>2
      <4>7. QED
        BY <4>1, <4>5, <4>6, Zenon
    <3>6. QED
      BY <3>1, <3>4, <3>5
  <2>3. PICK new : new = [k \in 1 .. Len(whole) + 1 |-> IF k = Len(whole) + 1 THEN m ELSE at[k]]
    BY Zenon
  <2>4. new \in [DOMAIN more -> 1 .. m]
    BY <1>1, <1>2, <2>2, <2>3
  <2>5. \A k \in DOMAIN more : Len(seqs[new[k]]) = 1 /\ more[k] = seqs[new[k]][1]
    BY <1>1, <1>2, <1>4, <2>2, <2>3
  <2>6. \A j, k \in DOMAIN more : new[j] = new[k] => j = k
    BY <1>1, <1>2, <2>2, <2>3
  <2>7. \A i \in 1 .. m : Len(seqs[i]) = 1 => \E k \in DOMAIN more : new[k] = i
    <3> SUFFICES ASSUME NEW i \in 1 .. m, Len(seqs[i]) = 1 PROVE \E k \in DOMAIN more : new[k] = i
      OBVIOUS
    <3>1. CASE i = m
      <4>1. Len(whole) + 1 \in DOMAIN more /\ new[Len(whole) + 1] = m
        BY <1>1, <2>2, <2>3
      <4>2. QED
        BY <3>1, <4>1
    <3>2. CASE i # m
      <4>1. i \in 1 .. m - 1
        BY <3>2
      <4>2. PICK k \in DOMAIN whole : at[k] = i
        BY <1>2, <4>1
      <4>3. k \in DOMAIN more /\ new[k] = i
        BY <1>1, <2>2, <2>3, <4>2
      <4>4. QED
        BY <4>3
    <3>3. QED
      BY <3>1, <3>2
  <2>8. Laid(more, seqs, m, E)
    <3>1. more \in Seq(E)
      BY <2>2
    <3>2. QED
      BY <2>4, <2>5, <2>6, <2>7, <3>1, Zenon DEF Laid
  <2>9. QED
    BY <2>1, <2>8
<1>5. Len(seqs[m]) \in {0, 1}
  <2>1. PICK l : l = Len(seqs[m])
    BY Zenon
  <2>2. l \in Nat /\ l <= 1
    BY <1>1, <2>1, LenProperties
  <2>3. l \in {0, 1}
    BY <2>2
  <2>4. QED
    BY <2>1, <2>3, Zenon
<1>6. QED
  BY <1>3, <1>4, <1>5

LEMMA FlattenFacts ==
  ASSUME NEW E, NEW n \in Nat, NEW seqs \in [1 .. n -> Seq(E)], \A i \in 1 .. n : Len(seqs[i]) <= 1
  PROVE  Laid(Ledger!FlattenSeq(seqs), seqs, n, E)
<1>0. seqs \in Seq(Seq(E)) /\ Len(seqs) = n
  OBVIOUS
<1>1. CASE n = 0
  <2>1. Ledger!FlattenSeq(seqs) = seqs
    BY <1>0, <1>1 DEF Ledger!FlattenSeq
  <2>2. seqs \in Seq(E) /\ DOMAIN seqs = {}
    BY <1>0, <1>1
  <2>3. PICK at : at = [k \in {} |-> 1]
    OBVIOUS
  <2>4. at \in [DOMAIN seqs -> 1 .. n]
    BY <2>2, <2>3
  <2>5. QED
    BY <1>1, <2>1, <2>2, <2>4, Zenon DEF Laid
<1>2. CASE n # 0
  <2>1. PICK f : f = [i \in 1 .. n |-> IF i = 1 THEN seqs[i] ELSE f[i - 1] \o seqs[i]] /\ Ledger!FlattenSeq(seqs) = f[n]
    BY <1>0, <1>2, FlattenIs, Zenon
  <2>2. PICK good : good = {m \in 1 .. n : Laid(f[m], seqs, m, E)}
    BY Zenon
  <2>3. 1 \in good
    <3>1. f[1] = seqs[1] /\ seqs[1] \in Seq(E) /\ Len(seqs[1]) \in {0, 1} /\ DOMAIN seqs[1] = 1 .. Len(seqs[1])
      <4>1. 1 \in 1 .. n
        BY <1>2
      <4>2. f[1] = seqs[1]
        BY <2>1, <4>1
      <4>3. seqs[1] \in Seq(E) /\ Len(seqs[1]) <= 1
        BY <4>1
      <4>4. Len(seqs[1]) \in Nat /\ DOMAIN seqs[1] = 1 .. Len(seqs[1])
        BY <4>3, LenProperties
      <4>5. PICK l : l = Len(seqs[1])
        OBVIOUS
      <4>6. l \in Nat /\ l <= 1
        BY <4>3, <4>4, <4>5
      <4>7. l \in {0, 1}
        BY <4>6
      <4>8. QED
        BY <4>2, <4>3, <4>4, <4>5, <4>7, Zenon
    <3>2. PICK at : at = [k \in DOMAIN seqs[1] |-> 1]
      BY Zenon
    <3>3. at \in [DOMAIN seqs[1] -> 1 .. 1]
      BY <3>2
    <3>4. \A k \in DOMAIN seqs[1] : at[k] = 1 /\ k = 1 /\ Len(seqs[1]) = 1
      BY <3>1, <3>2
    <3>5. \A i \in 1 .. 1 : Len(seqs[i]) = 1 => \E k \in DOMAIN seqs[1] : at[k] = i
      <4>1. Len(seqs[1]) = 1 => 1 \in DOMAIN seqs[1]
        BY <3>1
      <4>2. Len(seqs[1]) = 1 => at[1] = 1
        BY <3>2, <4>1
      <4>3. \A i \in 1 .. 1 : i = 1
        OBVIOUS
      <4>4. QED
        BY <4>1, <4>2, <4>3
    <3>6. Laid(seqs[1], seqs, 1, E)
      BY <3>1, <3>3, <3>4, <3>5 DEF Laid
    <3>7. QED
      BY <1>2, <2>2, <3>1, <3>6
  <2>4. ASSUME NEW k \in 1 .. n, k > 1, k - 1 \in good PROVE k \in good
    <3>1. f[k] = f[k - 1] \o seqs[k]
      <4>1. f[k] = IF k = 1 THEN seqs[k] ELSE f[k - 1] \o seqs[k]
        BY <2>1, Zenon
      <4>2. k # 1
        BY <2>4
      <4>3. QED
        BY <4>1, <4>2, Zenon
    <3>2. Laid(f[k - 1], seqs, k - 1, E)
      BY <2>2, <2>4
    <3>3. QED
      BY <2>2, <2>4, <3>1, <3>2, LaidOn, Zenon
  <2>5. n \in 1 .. n /\ n > 0
    BY <1>2
  <2>6. n \in good
    BY <2>3, <2>4, <2>5, Climb, Zenon
  <2>7. QED
    BY <2>1, <2>2, <2>6
<1>3. QED
  BY <1>1, <1>2

\* What each action does.
Stations == {"idle", "waiting", "locked", "saving", "summary", "settling", "dead"}

LEMMA StartAckIs ==
  ASSUME Ledger!LedgerAssumption, LedgerTypes, NEW c \in Client, Ledger!StartAck(c)
  PROVE  /\ station[c] = "idle" /\ Becomes(station', station, c, "waiting") /\ Becomes(mem', mem, c, Ledger!Stored)
         /\ acks' = acks + 1 /\ acks < MaxAcks
         /\ fact'[c] \in Ledger!Fact /\ fact'[c].time = acks' /\ \A d \in Client : d # c => fact'[d] = fact[d]
         /\ UNCHANGED <<ledger, summary, alerts, holder, written, cycles, deaths, date, done, wrecked>>
         /\ LedgerTypes'
<1>1. /\ station[c] = "idle" /\ acks < MaxAcks /\ acks' = acks + 1 /\ mem' = [mem EXCEPT ![c] = Ledger!Stored]
      /\ station' = [station EXCEPT ![c] = "waiting"]
      /\ UNCHANGED <<ledger, summary, alerts, holder, written, cycles, deaths, date, done, wrecked>>
  BY DEF Ledger!StartAck
<1>2. PICK f : f \in Ledger!Fact /\ f.time = acks + 1 /\ fact' = [fact EXCEPT ![c] = f]
  <2>1. PICK kind \in {"buy", "sell", "skip"}, s \in Symbol, n \in Share, v \in Ledger!Venue :
          fact' = [fact EXCEPT ![c] = [kind |-> kind, symbol |-> s, shares |-> n, venue |-> v, time |-> acks + 1]]
    BY Zenon DEF Ledger!StartAck
  <2>2. acks + 1 \in 1 .. MaxAcks
    BY <1>1, LedgerNumbers DEF LedgerTypes
  <2>3. [kind |-> kind, symbol |-> s, shares |-> n, venue |-> v, time |-> acks + 1] \in Ledger!Fact
    BY <2>2 DEF Ledger!Fact
  <2>4. QED
    BY <2>1, <2>3, Zenon
<1>3. c \in Ledger!Process
  BY LedgerNumbers
<1>4. fact' \in [Client -> Ledger!Fact \cup {Ledger!NoFact}] /\ fact'[c] = f /\ \A d \in Client : d # c => fact'[d] = fact[d]
  BY <1>2 DEF LedgerTypes
<1>5. acks' \in 0 .. MaxAcks
  BY <1>1, LedgerNumbers DEF LedgerTypes
<1>6. Becomes(station', station, c, "waiting") /\ station' \in [Ledger!Process -> {"idle", "waiting", "locked", "saving", "summary", "settling", "dead"}]
  BY <1>1, <1>3, StationMoves, Zenon
<1>7. Becomes(mem', mem, c, Ledger!Stored) /\ DOMAIN mem' = Ledger!Process /\ \A q \in Ledger!Process : IsStore(mem'[q], {})
  BY <1>1, <1>3, MemMoves, StoredIs, Zenon
<1>8. LedgerTypes'
  BY <1>1, <1>4, <1>5, <1>6, <1>7 DEF LedgerTypes
<1>9. QED
  BY <1>1, <1>2, <1>4, <1>6, <1>7, <1>8

LEMMA RetryAckIs ==
  ASSUME Ledger!LedgerAssumption, LedgerTypes, NEW c \in Client, Ledger!RetryAck(c)
  PROVE  /\ station[c] = "dead"
         /\ \/ Becomes(station', station, c, "waiting") /\ UNCHANGED fact /\ Becomes(mem', mem, c, Ledger!Stored)
            \/ /\ Becomes(station', station, c, "idle") /\ UNCHANGED mem
               /\ \A d \in Client : d # c => fact'[d] = fact[d]
         /\ UNCHANGED <<ledger, summary, alerts, holder, written, acks, cycles, deaths, date, done, wrecked>>
         /\ LedgerTypes'
<1>1. /\ station[c] = "dead"
      /\ UNCHANGED <<ledger, summary, alerts, holder, written, acks, cycles, deaths, date, done, wrecked>>
  BY DEF Ledger!RetryAck
<1>2. c \in Ledger!Process
  BY LedgerNumbers
<1>3. CASE mem' = [mem EXCEPT ![c] = Ledger!Stored] /\ station' = [station EXCEPT ![c] = "waiting"] /\ UNCHANGED fact
  <2>1. Becomes(station', station, c, "waiting") /\ station' \in [Ledger!Process -> {"idle", "waiting", "locked", "saving", "summary", "settling", "dead"}]
    BY <1>2, <1>3, StationMoves, Zenon
  <2>2. Becomes(mem', mem, c, Ledger!Stored) /\ DOMAIN mem' = Ledger!Process /\ \A q \in Ledger!Process : IsStore(mem'[q], {})
    BY <1>2, <1>3, MemMoves, StoredIs, Zenon
  <2>3. LedgerTypes'
    BY <1>1, <1>3, <2>1, <2>2 DEF LedgerTypes
  <2>4. QED
    BY <1>1, <1>3, <2>1, <2>2, <2>3
<1>4. CASE station' = [station EXCEPT ![c] = "idle"] /\ fact' = [fact EXCEPT ![c] = Ledger!NoFact] /\ UNCHANGED mem
  <2>1. Becomes(station', station, c, "idle") /\ station' \in [Ledger!Process -> {"idle", "waiting", "locked", "saving", "summary", "settling", "dead"}]
    BY <1>2, <1>4, StationMoves, Zenon
  <2>2. fact' \in [Client -> Ledger!Fact \cup {Ledger!NoFact}] /\ \A d \in Client : d # c => fact'[d] = fact[d]
    BY <1>4 DEF LedgerTypes
  <2>3. LedgerTypes'
    BY <1>1, <1>4, <2>1, <2>2 DEF LedgerTypes
  <2>4. QED
    BY <1>1, <1>4, <2>1, <2>2, <2>3
<1>5. QED
  BY <1>3, <1>4 DEF Ledger!RetryAck

\* A process takes the lock and reads the files.
LEMMA EnterIs ==
  ASSUME Ledger!LedgerAssumption, LedgerTypes, NEW p \in Ledger!Process, Ledger!Enter(p),
         station' = [station EXCEPT ![p] = "locked"], cycles' \in 0 .. MaxCycles,
         UNCHANGED <<ledger, summary, alerts, written, fact, acks, deaths, date, done, wrecked>>
  PROVE  /\ holder = Ledger!Free /\ holder' = p /\ Becomes(station', station, p, "locked") /\ Becomes(mem', mem, p, Ledger!Stored)
         /\ LedgerTypes'
<1>1. holder = Ledger!Free /\ holder' = p /\ mem' = [mem EXCEPT ![p] = Ledger!Stored]
  BY DEF Ledger!Enter
<1>2. Becomes(station', station, p, "locked") /\ station' \in [Ledger!Process -> {"idle", "waiting", "locked", "saving", "summary", "settling", "dead"}]
  BY StationMoves, Zenon
<1>3. Becomes(mem', mem, p, Ledger!Stored) /\ DOMAIN mem' = Ledger!Process /\ \A q \in Ledger!Process : IsStore(mem'[q], {})
  BY <1>1, MemMoves, StoredIs, Zenon
<1>4. LedgerTypes'
  BY <1>1, <1>2, <1>3 DEF LedgerTypes
<1>5. QED
  BY <1>1, <1>2, <1>3, <1>4

\* A process has worked on its store, told what it did, and saves.
LEMMA CommitIs ==
  ASSUME Ledger!LedgerAssumption, LedgerTypes, NEW p \in Ledger!Process, NEW m, IsStore(m, {}), mem' = [mem EXCEPT ![p] = m],
         NEW more \in Seq(Notice), alerts' = alerts \o more, station' = [station EXCEPT ![p] = "saving"],
         UNCHANGED <<ledger, summary, holder, written, fact, acks, cycles, deaths, date, done, wrecked>>
  PROVE  /\ Becomes(station', station, p, "saving") /\ Becomes(mem', mem, p, m)
         /\ LedgerTypes'
<1>1. Becomes(station', station, p, "saving") /\ station' \in [Ledger!Process -> {"idle", "waiting", "locked", "saving", "summary", "settling", "dead"}]
  BY StationMoves, Zenon
<1>2. Becomes(mem', mem, p, m) /\ DOMAIN mem' = Ledger!Process /\ \A q \in Ledger!Process : IsStore(mem'[q], {})
  BY MemMoves, Zenon
<1>3. alerts' \in Seq(Notice)
  BY DEF LedgerTypes
<1>4. LedgerTypes'
  BY <1>1, <1>2, <1>3 DEF LedgerTypes
<1>5. QED
  BY <1>1, <1>2, <1>4

\* A process gives the lock back; nothing else changes but what it told, what
\* it has done and, if it raised, the count of faults.
LEMMA LeaveTypes ==
  ASSUME Ledger!LedgerAssumption, LedgerTypes, NEW p \in Ledger!Process, Ledger!Leave(p), alerts' \in Seq(Notice),
         deaths' \in 0 .. MaxFaults, done' \subseteq Ledger!Fact,
         UNCHANGED <<ledger, summary, acks, cycles, date, wrecked>>
  PROVE  LedgerTypes'
<1>1. holder' \in Ledger!Process \cup {Ledger!Free}
  BY LeaveIs
<1>2. QED
  BY <1>1, LeaveIs, Zenon DEF LedgerTypes

\* File f is torn, or filled with what the process has.
LEMMA SaveStepIs ==
  ASSUME Ledger!LedgerAssumption, LedgerTypes, NEW p \in Ledger!Process, Ledger!SaveStep(p)
  PROVE  /\ station[p] \in Saving /\ written[p] < 6 /\ Becomes(written', written, p, written[p] + 1)
         /\ \E i \in 1 .. 3 :
              /\ written[p] \in {2 * i - 2, 2 * i - 1}
              /\ \A j \in 1 .. 3 : ledger'[FileAt(j)] = IF j # i THEN ledger[FileAt(j)]
                                                        ELSE IF written[p] = 2 * i - 2 THEN Torn ELSE mem[p][FileAt(j)]
         /\ UNCHANGED <<summary, alerts, holder, station, mem, fact, acks, cycles, deaths, date, done, wrecked>>
         /\ LedgerTypes'
<1>1. PICK f : f = Ledger!FileOrder[written[p] \div 2 + 1]
  OBVIOUS
<1>2. /\ station[p] \in Saving /\ written[p] < 6 /\ written' = [written EXCEPT ![p] = @ + 1]
      /\ ledger' = [ledger EXCEPT ![f] = IF written[p] % 2 = 0 THEN Torn ELSE mem[p][f]]
      /\ UNCHANGED <<summary, alerts, holder, station, mem, fact, acks, cycles, deaths, date, done, wrecked>>
  BY <1>1 DEF Ledger!SaveStep, Saving
<1>3. written[p] \in 0 .. 5 /\ Becomes(written', written, p, written[p] + 1) /\ written' \in [Ledger!Process -> 0 .. 6]
  BY <1>2 DEF LedgerTypes, Becomes
<1>4. PICK i \in 1 .. 3 : /\ written[p] \in {2 * i - 2, 2 * i - 1} /\ written[p] \div 2 + 1 = i
                          /\ (written[p] % 2 = 0 <=> written[p] = 2 * i - 2)
  <2>1. PICK w \in 0 .. 5 : w = written[p]
    BY <1>3
  <2>2. \E i \in 1 .. 3 : w \in {2 * i - 2, 2 * i - 1} /\ w \div 2 + 1 = i /\ (w % 2 = 0 <=> w = 2 * i - 2)
    <3>1. CASE w \in {0, 1}
      <4>1. 1 \in 1 .. 3 /\ w \in {2 * 1 - 2, 2 * 1 - 1} /\ w \div 2 + 1 = 1 /\ (w % 2 = 0 <=> w = 2 * 1 - 2)
        BY <3>1
      <4>2. QED
        BY <4>1
    <3>2. CASE w \in {2, 3}
      <4>1. 2 \in 1 .. 3 /\ w \in {2 * 2 - 2, 2 * 2 - 1} /\ w \div 2 + 1 = 2 /\ (w % 2 = 0 <=> w = 2 * 2 - 2)
        BY <3>2
      <4>2. QED
        BY <4>1
    <3>3. CASE w \in {4, 5}
      <4>1. 3 \in 1 .. 3 /\ w \in {2 * 3 - 2, 2 * 3 - 1} /\ w \div 2 + 1 = 3 /\ (w % 2 = 0 <=> w = 2 * 3 - 2)
        BY <3>3
      <4>2. QED
        BY <4>1
    <3>4. w \in {0, 1} \/ w \in {2, 3} \/ w \in {4, 5}
      BY <2>1
    <3>5. QED
      BY <3>1, <3>2, <3>3, <3>4
  <2>3. QED
    BY <2>1, <2>2
<1>5. f = FileAt(i)
  BY <1>1, <1>4 DEF FileAt
<1>6. DOMAIN ledger = Files /\ \A j \in 1 .. 3 : FileAt(j) \in Files /\ \A k \in 1 .. 3 : FileAt(j) = FileAt(k) => j = k
  <2>1. \A j \in 1 .. 3 : j = 1 \/ j = 2 \/ j = 3
    OBVIOUS
  <2>2. QED
    BY <2>1, FilesAre DEF LedgerTypes, IsStore
<1>7. \A j \in 1 .. 3 : ledger'[FileAt(j)] = IF j # i THEN ledger[FileAt(j)]
                                              ELSE IF written[p] = 2 * i - 2 THEN Torn ELSE mem[p][FileAt(j)]
  <2> SUFFICES ASSUME NEW j \in 1 .. 3
               PROVE ledger'[FileAt(j)] = IF j # i THEN ledger[FileAt(j)]
                                          ELSE IF written[p] = 2 * i - 2 THEN Torn ELSE mem[p][FileAt(j)]
    OBVIOUS
  <2>1. CASE j = i
    BY <1>2, <1>4, <1>5, <1>6, <2>1
  <2>2. CASE j # i
    BY <1>2, <1>4, <1>5, <1>6, <2>2
  <2>3. QED
    BY <2>1, <2>2
<1>8. IsStore(ledger', {Torn})
  <2>1. DOMAIN ledger' = Files
    BY <1>2, <1>6
  <2>2. IsStore(ledger, {Torn}) /\ IsStore(mem[p], {})
    BY DEF LedgerTypes
  <2>3. \A j \in 1 .. 3 : ledger'[FileAt(j)] = ledger[FileAt(j)] \/ ledger'[FileAt(j)] = Torn \/ ledger'[FileAt(j)] = mem[p][FileAt(j)]
    BY <1>7
  <2>4. ledger'.opportunities = ledger.opportunities \/ ledger'.opportunities = Torn \/ ledger'.opportunities = mem[p].opportunities
    BY <2>3, FilesAre
  <2>5. ledger'.positions = ledger.positions \/ ledger'.positions = Torn \/ ledger'.positions = mem[p].positions
    BY <2>3, FilesAre
  <2>6. ledger'.forward = ledger.forward \/ ledger'.forward = Torn \/ ledger'.forward = mem[p].forward
    BY <2>3, FilesAre
  <2>7. ledger'.opportunities \in [Symbol -> Ledger!OppState] \cup {Torn}
    BY <2>2, <2>4 DEF IsStore, Ledger!IsLedger
  <2>8. ledger'.positions \in Ledger!PositionsFile \cup {Torn}
    BY <2>2, <2>5 DEF IsStore, Ledger!IsLedger
  <2>9. ledger'.forward \in (SUBSET Ledger!Observation) \cup {Torn}
    BY <2>2, <2>6 DEF IsStore, Ledger!IsLedger
  <2>10. QED
    BY <2>1, <2>7, <2>8, <2>9 DEF IsStore, Ledger!IsLedger
<1>9. LedgerTypes'
  BY <1>2, <1>3, <1>8 DEF LedgerTypes
<1>10. QED
  BY <1>2, <1>3, <1>4, <1>7, <1>9

LEMMA DieIs ==
  ASSUME Ledger!LedgerAssumption, LedgerTypes, NEW p \in Ledger!Process, Ledger!Die(p)
  PROVE  /\ station[p] \notin {"idle", "dead"} /\ deaths' = deaths + 1
         /\ Becomes(station', station, p, IF p = Ledger!Session THEN "idle" ELSE "dead")
         /\ holder' = (IF holder = p THEN Ledger!Free ELSE holder) /\ Becomes(mem', mem, p, Ledger!Default)
         /\ Becomes(written', written, p, 0) /\ wrecked \subseteq wrecked'
         /\ \A i \in 1 .. 3 : written[p] = 2 * i - 1 => FileAt(i) \in wrecked'
         /\ UNCHANGED <<ledger, summary, alerts, fact, acks, cycles, date, done>>
         /\ LedgerTypes'
<1>1. PICK at : at = IF p = Ledger!Session THEN "idle" ELSE "dead"
  OBVIOUS
<1>2. /\ station[p] \notin {"idle", "dead"} /\ deaths < MaxFaults /\ deaths' = deaths + 1
      /\ station' = [station EXCEPT ![p] = at] /\ holder' = (IF holder = p THEN Ledger!Free ELSE holder)
      /\ mem' = [mem EXCEPT ![p] = Ledger!Default] /\ written' = [written EXCEPT ![p] = 0]
      /\ wrecked' = IF written[p] % 2 = 1 THEN wrecked \cup {Ledger!FileOrder[written[p] \div 2 + 1]} ELSE wrecked
      /\ UNCHANGED <<ledger, summary, alerts, fact, acks, cycles, date, done>>
  BY <1>1 DEF Ledger!Die
<1>3. at \in {"idle", "dead"}
  BY <1>1
<1>4. Becomes(station', station, p, at) /\ station' \in [Ledger!Process -> {"idle", "waiting", "locked", "saving", "summary", "settling", "dead"}]
  BY <1>2, <1>3, StationMoves, Zenon
<1>5. Becomes(mem', mem, p, Ledger!Default) /\ DOMAIN mem' = Ledger!Process /\ \A q \in Ledger!Process : IsStore(mem'[q], {})
  BY <1>2, MemMoves, DefaultStore, Zenon
<1>6. Becomes(written', written, p, 0) /\ written' \in [Ledger!Process -> 0 .. 6]
  BY <1>2 DEF LedgerTypes, Becomes
<1>7. PICK w \in 0 .. 6 : w = written[p]
  BY DEF LedgerTypes
<1>8. wrecked \subseteq wrecked'
  BY <1>2
<1>9. \A i \in 1 .. 3 : w = 2 * i - 1 => w % 2 = 1 /\ w \div 2 + 1 = i
  <2>1. \A i \in 1 .. 3 : i = 1 \/ i = 2 \/ i = 3
    OBVIOUS
  <2>2. 1 % 2 = 1 /\ 3 % 2 = 1 /\ 5 % 2 = 1 /\ 1 \div 2 + 1 = 1 /\ 3 \div 2 + 1 = 2 /\ 5 \div 2 + 1 = 3
    OBVIOUS
  <2>3. QED
    BY <2>1, <2>2
<1>10. \A i \in 1 .. 3 : written[p] = 2 * i - 1 => FileAt(i) \in wrecked'
  BY <1>2, <1>7, <1>9 DEF FileAt
<1>11. wrecked' \subseteq Files
  <2>1. w % 2 = 1 => w \div 2 + 1 \in 1 .. 3
    OBVIOUS
  <2>2. \A i \in 1 .. 3 : FileAt(i) \in Files
    <3>1. \A i \in 1 .. 3 : i = 1 \/ i = 2 \/ i = 3
      OBVIOUS
    <3>2. QED
      BY <3>1, FilesAre
  <2>3. QED
    BY <1>2, <1>7, <2>1, <2>2, Zenon DEF FileAt, LedgerTypes
<1>12. deaths' \in 0 .. MaxFaults
  BY <1>2, LedgerNumbers DEF LedgerTypes
<1>13. holder' \in Ledger!Process \cup {Ledger!Free}
  BY <1>2 DEF LedgerTypes
<1>14. LedgerTypes'
  BY <1>2, <1>4, <1>5, <1>6, <1>11, <1>12, <1>13 DEF LedgerTypes
<1>15. QED
  BY <1>1, <1>2, <1>4, <1>5, <1>6, <1>8, <1>10, <1>14

LEMMA WriteSummaryIs ==
  ASSUME Ledger!LedgerAssumption, LedgerTypes, Ledger!WriteSummary
  PROVE  /\ station[Ledger!Session] = "summary" \/ (station[Ledger!Session] = "saving" /\ written[Ledger!Session] = 6)
         /\ Becomes(station', station, Ledger!Session, "settling") /\ Becomes(written', written, Ledger!Session, 0)
         /\ UNCHANGED <<ledger, alerts, holder, mem, fact, acks, cycles, deaths, date, done, wrecked>>
         /\ LedgerTypes'
<1>1. Ledger!Session \in Ledger!Process
  BY LedgerNumbers
<1>2. /\ station[Ledger!Session] = "summary" \/ (station[Ledger!Session] = "saving" /\ written[Ledger!Session] = 6)
      /\ summary' = [i \in DOMAIN mem[Ledger!Session].positions.open |-> mem[Ledger!Session].positions.open[i].id]
      /\ station' = [station EXCEPT ![Ledger!Session] = "settling"] /\ written' = [written EXCEPT ![Ledger!Session] = 0]
      /\ UNCHANGED <<ledger, alerts, holder, mem, fact, acks, cycles, deaths, date, done, wrecked>>
  BY DEF Ledger!WriteSummary, Ledger!Saved
<1>3. Becomes(station', station, Ledger!Session, "settling")
      /\ station' \in [Ledger!Process -> {"idle", "waiting", "locked", "saving", "summary", "settling", "dead"}]
  BY <1>1, <1>2, StationMoves, Zenon
<1>4. Becomes(written', written, Ledger!Session, 0) /\ written' \in [Ledger!Process -> 0 .. 6]
  BY <1>1, <1>2 DEF LedgerTypes, Becomes
<1>5. summary' \in Seq(1 .. Ledger!MaxId)
  <2>1. PICK s : s = mem[Ledger!Session].positions.open
    OBVIOUS
  <2>2. mem[Ledger!Session].positions \in Ledger!PositionsFile
    BY <1>1 DEF LedgerTypes, IsStore, Ledger!IsLedger
  <2>3. s \in Seq(Ledger!Position)
    BY <2>1, <2>2 DEF Ledger!PositionsFile
  <2>4. \A i \in DOMAIN s : s[i].id \in 1 .. Ledger!MaxId
    <3>1. \A i \in DOMAIN s : s[i] \in Ledger!Position
      BY <2>3
    <3>2. QED
      BY <3>1 DEF Ledger!Position
  <2>5. summary' = [i \in 1 .. Len(s) |-> s[i].id] /\ Len(s) \in Nat
    BY <1>2, <2>1, <2>3
  <2>6. QED
    BY <2>3, <2>4, <2>5
<1>6. LedgerTypes'
  BY <1>2, <1>3, <1>4, <1>5 DEF LedgerTypes
<1>7. QED
  BY <1>2, <1>3, <1>4, <1>6

\* The store after a buy, a sell, a skip.
Bought(m, f) ==
  [Ledger!OpenPosition(m, f) EXCEPT
     !.opportunities[f.symbol] = IF @ \in {"NEAR", "READY", "WATCH"} THEN "EXECUTED" ELSE @,
     !.forward = @ \cup {[kind |-> "EXECUTED", symbol |-> f.symbol, ref |-> m.positions.next]}]
Sold(m, f, i) ==
  [Ledger!Reopened(Ledger!ClosePosition(m, i), f.symbol) EXCEPT
     !.forward = @ \cup {[kind |-> "CLOSED", symbol |-> f.symbol, ref |-> m.positions.open[i].id]}]
Skipped(m, f) == [m EXCEPT !.forward = @ \cup {[kind |-> "SKIP", symbol |-> f.symbol, ref |-> 0]}]
Placed(m, f) == [id |-> m.positions.next, symbol |-> f.symbol, shares |-> f.shares, venue |-> f.venue, time |-> f.time, state |-> "HOLD"]

LEMMA StoreFacts ==
  ASSUME NEW m, IsStore(m, {})
  PROVE  /\ DOMAIN m = Files /\ "opportunities" \in Files /\ "positions" \in Files /\ "forward" \in Files
         /\ m.opportunities \in [Symbol -> Ledger!OppState] /\ m.forward \in SUBSET Ledger!Observation
         /\ m.positions \in Ledger!PositionsFile
         /\ m.positions.open \in Seq(Ledger!Position) /\ m.positions.closed \in Seq(Ledger!Position)
         /\ m.positions.next \in 1 .. Ledger!MaxId + 1
         /\ DOMAIN m.positions = {"open", "closed", "next"}
<1>1. m.positions \in Ledger!PositionsFile
  BY DEF IsStore, Ledger!IsLedger
<1>2. /\ m.positions.open \in Seq(Ledger!Position) /\ m.positions.closed \in Seq(Ledger!Position)
      /\ m.positions.next \in 1 .. Ledger!MaxId + 1 /\ DOMAIN m.positions = {"open", "closed", "next"}
  BY <1>1 DEF Ledger!PositionsFile
<1>3. QED
  BY <1>1, <1>2 DEF IsStore, Ledger!IsLedger, Files

LEMMA StoreIs ==
  ASSUME NEW m, DOMAIN m = Files, m.opportunities \in [Symbol -> Ledger!OppState], m.forward \in SUBSET Ledger!Observation,
         m.positions \in Ledger!PositionsFile
  PROVE  IsStore(m, {})
BY DEF IsStore, Ledger!IsLedger

LEMMA BoughtIs ==
  ASSUME Ledger!LedgerAssumption, NEW m, IsStore(m, {}), NEW f \in Ledger!Fact, m.positions.next <= Ledger!MaxId
  PROVE  /\ IsStore(Bought(m, f), {}) /\ Placed(m, f) \in Ledger!Position
         /\ Bought(m, f).positions.open = Append(m.positions.open, Placed(m, f))
         /\ Bought(m, f).positions.closed = m.positions.closed /\ Bought(m, f).positions.next = m.positions.next + 1
         /\ \A s \in Symbol : Bought(m, f).opportunities[s] =
              IF s = f.symbol /\ m.opportunities[s] \in {"NEAR", "READY", "WATCH"} THEN "EXECUTED" ELSE m.opportunities[s]
<1> DEFINE g == [kind |-> "EXECUTED", symbol |-> f.symbol, ref |-> m.positions.next]
<1>1. f.symbol \in Symbol /\ f.shares \in Share /\ f.venue \in Ledger!Venue /\ f.time \in 1 .. MaxAcks
  BY DEF Ledger!Fact
<1>2. m.positions.next \in 1 .. Ledger!MaxId /\ m.positions.next + 1 \in 1 .. Ledger!MaxId + 1
  BY StoreFacts, LedgerNumbers
<1>3. Placed(m, f) \in Ledger!Position
  BY <1>1, <1>2 DEF Placed, Ledger!Position
<1>4. PICK o : o = Ledger!OpenPosition(m, f)
  OBVIOUS
<1>5. /\ DOMAIN o = Files /\ o.opportunities = m.opportunities /\ o.forward = m.forward
      /\ DOMAIN o.positions = {"open", "closed", "next"}
      /\ o.positions.open = Append(m.positions.open, Placed(m, f)) /\ o.positions.closed = m.positions.closed
      /\ o.positions.next = m.positions.next + 1
  <2>1. PICK x : x = Placed(m, f)
    OBVIOUS
  <2>2. o = [m EXCEPT !.positions.next = @ + 1, !.positions.open = Append(@, x)]
    BY <1>4, <2>1 DEF Ledger!OpenPosition, Placed
  <2>3. o = [m EXCEPT !.positions = [[m.positions EXCEPT !.next = @ + 1] EXCEPT !.open = Append(@, x)]]
    BY <2>2, StoreFacts, Zenon
  <2>4. PICK y : y = [m.positions EXCEPT !.next = @ + 1]
    BY Zenon
  <2>5. DOMAIN y = {"open", "closed", "next"} /\ y.open = m.positions.open /\ y.closed = m.positions.closed
        /\ y.next = m.positions.next + 1
    BY <2>4, StoreFacts
  <2>6. o = [m EXCEPT !.positions = [y EXCEPT !.open = Append(@, x)]]
    BY <2>3, <2>4
  <2>7. PICK z : z = [y EXCEPT !.open = Append(@, x)]
    BY Zenon
  <2>8. DOMAIN z = {"open", "closed", "next"} /\ z.open = Append(m.positions.open, x) /\ z.closed = m.positions.closed
        /\ z.next = m.positions.next + 1
    BY <2>5, <2>7
  <2>9. o = [m EXCEPT !.positions = z]
    BY <2>6, <2>7
  <2>10. DOMAIN o = Files /\ o.positions = z /\ o.opportunities = m.opportunities /\ o.forward = m.forward
    BY <2>9, StoreFacts
  <2>11. QED
    BY <2>1, <2>8, <2>10
<1>6. /\ DOMAIN Bought(m, f) = Files /\ Bought(m, f).positions = o.positions /\ Bought(m, f).forward = m.forward \cup {g}
      /\ Bought(m, f).opportunities = [m.opportunities EXCEPT ![f.symbol] = IF @ \in {"NEAR", "READY", "WATCH"} THEN "EXECUTED" ELSE @]
  <2>1. PICK v : v = [o EXCEPT !.opportunities[f.symbol] = IF @ \in {"NEAR", "READY", "WATCH"} THEN "EXECUTED" ELSE @]
    BY Zenon
  <2>2. /\ DOMAIN v = Files /\ v.positions = o.positions /\ v.forward = m.forward
        /\ v.opportunities = [m.opportunities EXCEPT ![f.symbol] = IF @ \in {"NEAR", "READY", "WATCH"} THEN "EXECUTED" ELSE @]
    BY <1>5, <2>1, StoreFacts
  <2>3. Bought(m, f) = [v EXCEPT !.forward = @ \cup {g}]
    BY <1>4, <2>1 DEF Bought
  <2>4. QED
    BY <2>2, <2>3, StoreFacts
<1>7. Bought(m, f).positions \in Ledger!PositionsFile
  <2>1. PICK y : y = o.positions
    OBVIOUS
  <2>0. Append(m.positions.open, Placed(m, f)) \in Seq(Ledger!Position)
    BY <1>3, StoreFacts, AppendProperties, Zenon
  <2>2. DOMAIN y = {"open", "closed", "next"} /\ y.open \in Seq(Ledger!Position) /\ y.closed \in Seq(Ledger!Position)
        /\ y.next \in 1 .. Ledger!MaxId + 1
    <3>1. y.closed = m.positions.closed /\ y.next = m.positions.next + 1 /\ y.open = Append(m.positions.open, Placed(m, f))
          /\ DOMAIN y = {"open", "closed", "next"}
      BY <1>5, <2>1, Zenon
    <3>2. m.positions.closed \in Seq(Ledger!Position)
      BY StoreFacts, Zenon
    <3>3. QED
      BY <1>2, <2>0, <3>1, <3>2, Zenon
  <2>3. y = [open |-> y.open, closed |-> y.closed, next |-> y.next]
    <3>1. PICK k : k = Bought(m, f).positions
      OBVIOUS
    <3>2. o = [m EXCEPT !.positions.next = @ + 1, !.positions.open = Append(@, Placed(m, f))]
      BY <1>4 DEF Ledger!OpenPosition, Placed
    <3>3. y = [[m.positions EXCEPT !.next = @ + 1] EXCEPT !.open = Append(@, Placed(m, f))]
      BY <2>1, <3>2, StoreFacts
    <3>4. QED
      BY <2>2, <3>3, StoreFacts, Zenon DEF Ledger!PositionsFile
  <2>4. y \in Ledger!PositionsFile
    BY <2>2, <2>3 DEF Ledger!PositionsFile
  <2>5. QED
    BY <1>6, <2>1, <2>4
<1>8. g \in Ledger!Observation
  BY <1>1, <1>2 DEF Ledger!Observation
<1>9. Bought(m, f).forward \in SUBSET Ledger!Observation
  <2>1. m.forward \in SUBSET Ledger!Observation
    BY StoreFacts
  <2>2. QED
    BY <1>6, <1>8, <2>1
<1>10. Bought(m, f).opportunities \in [Symbol -> Ledger!OppState]
  BY <1>1, <1>6, StoreFacts DEF Ledger!OppState
<1>11. IsStore(Bought(m, f), {})
  BY <1>6, <1>7, <1>9, <1>10, StoreIs
<1>12. \A s \in Symbol : Bought(m, f).opportunities[s] =
              IF s = f.symbol /\ m.opportunities[s] \in {"NEAR", "READY", "WATCH"} THEN "EXECUTED" ELSE m.opportunities[s]
  BY <1>1, <1>6, StoreFacts
<1>13. QED
  BY <1>3, <1>5, <1>6, <1>11, <1>12

LEMMA SoldIs ==
  ASSUME Ledger!LedgerAssumption, NEW m, IsStore(m, {}), NEW f \in Ledger!Fact, NEW i \in DOMAIN m.positions.open
  PROVE  /\ IsStore(Sold(m, f, i), {}) /\ m.positions.open[i] \in Ledger!Position
         /\ Sold(m, f, i).positions.open = Ledger!RemoveAt(m.positions.open, i)
         /\ Sold(m, f, i).positions.closed = Append(m.positions.closed, [m.positions.open[i] EXCEPT !.state = "CLOSED"])
         /\ Sold(m, f, i).positions.next = m.positions.next
         /\ \A s \in Symbol : Sold(m, f, i).opportunities[s] =
              IF s = f.symbol /\ m.opportunities[s] = "EXECUTED" THEN "WATCH" ELSE m.opportunities[s]
<1> DEFINE g == [kind |-> "CLOSED", symbol |-> f.symbol, ref |-> m.positions.open[i].id]
<1>1. f.symbol \in Symbol
  BY DEF Ledger!Fact
<1>2. m.positions.open[i] \in Ledger!Position /\ m.positions.open[i].id \in 1 .. Ledger!MaxId
  <2>1. PICK s : s = m.positions.open
    OBVIOUS
  <2>2. s \in Seq(Ledger!Position) /\ i \in DOMAIN s
    BY <2>1, StoreFacts
  <2>3. s[i] \in Ledger!Position
    BY <2>2
  <2>4. QED
    BY <2>1, <2>3 DEF Ledger!Position
<1>3. PICK x : x = [m.positions.open[i] EXCEPT !.state = "CLOSED"]
  BY Zenon
<1>4. x \in Ledger!Position
  BY <1>2, <1>3 DEF Ledger!Position
<1>5. PICK o : o = Ledger!ClosePosition(m, i)
  OBVIOUS
<1>6. PICK r : r = Ledger!RemoveAt(m.positions.open, i)
  OBVIOUS
<1>7. PICK y : y = [m.positions EXCEPT !.open = r]
  BY Zenon
<1>8. PICK z : z = [y EXCEPT !.closed = Append(@, x)]
  BY Zenon
<1>9. DOMAIN z = {"open", "closed", "next"} /\ z.open = r /\ z.closed = Append(m.positions.closed, x) /\ z.next = m.positions.next
  <2>1. DOMAIN y = {"open", "closed", "next"} /\ y.open = r /\ y.closed = m.positions.closed /\ y.next = m.positions.next
    BY <1>7, StoreFacts
  <2>2. QED
    BY <1>8, <2>1
<1>10. o = [m EXCEPT !.positions = z]
  <2>1. o = [m EXCEPT !.positions.open = r, !.positions.closed = Append(@, x)]
    BY <1>3, <1>5, <1>6 DEF Ledger!ClosePosition
  <2>2. o = [m EXCEPT !.positions = [[m.positions EXCEPT !.open = r] EXCEPT !.closed = Append(@, x)]]
    BY <2>1, StoreFacts, Zenon
  <2>3. QED
    BY <1>7, <1>8, <2>2
<1>11. DOMAIN o = Files /\ o.positions = z /\ o.opportunities = m.opportunities /\ o.forward = m.forward
  BY <1>10, StoreFacts
<1>12. PICK v : v = Ledger!Reopened(o, f.symbol)
  OBVIOUS
<1>13. /\ DOMAIN v = Files /\ v.positions = z /\ v.forward = m.forward
       /\ v.opportunities = [m.opportunities EXCEPT ![f.symbol] = IF @ = "EXECUTED" THEN "WATCH" ELSE @]
  <2>1. v = [o EXCEPT !.opportunities[f.symbol] = IF @ = "EXECUTED" THEN "WATCH" ELSE @]
    BY <1>12 DEF Ledger!Reopened
  <2>2. QED
    BY <1>11, <2>1, StoreFacts
<1>14. /\ DOMAIN Sold(m, f, i) = Files /\ Sold(m, f, i).positions = z /\ Sold(m, f, i).forward = m.forward \cup {g}
       /\ Sold(m, f, i).opportunities = v.opportunities
  <2>1. Sold(m, f, i) = [v EXCEPT !.forward = @ \cup {g}]
    BY <1>5, <1>12 DEF Sold
  <2>2. QED
    BY <1>13, <2>1, StoreFacts
<1>15. z \in Ledger!PositionsFile
  <2>1. r \in Seq(Ledger!Position)
    BY <1>6, RemovedIs, StoreFacts
  <2>2. Append(m.positions.closed, x) \in Seq(Ledger!Position)
    BY <1>4, StoreFacts, AppendProperties, Zenon
  <2>3. m.positions.next \in 1 .. Ledger!MaxId + 1
    BY StoreFacts
  <2>4. y \in Ledger!PositionsFile
    BY <1>7, <2>1, StoreFacts, Zenon DEF Ledger!PositionsFile
  <2>5. QED
    BY <1>8, <1>9, <2>2, <2>4, Zenon DEF Ledger!PositionsFile
<1>16. Sold(m, f, i).forward \in SUBSET Ledger!Observation
  <2>1. g \in Ledger!Observation
    BY <1>1, <1>2 DEF Ledger!Observation
  <2>2. m.forward \in SUBSET Ledger!Observation
    BY StoreFacts
  <2>3. QED
    BY <1>14, <2>1, <2>2
<1>17. Sold(m, f, i).opportunities \in [Symbol -> Ledger!OppState]
  BY <1>1, <1>13, <1>14, StoreFacts DEF Ledger!OppState
<1>18. IsStore(Sold(m, f, i), {})
  BY <1>14, <1>15, <1>16, <1>17, StoreIs
<1>19. \A s \in Symbol : Sold(m, f, i).opportunities[s] =
              IF s = f.symbol /\ m.opportunities[s] = "EXECUTED" THEN "WATCH" ELSE m.opportunities[s]
  BY <1>1, <1>13, <1>14, StoreFacts
<1>20. QED
  BY <1>2, <1>3, <1>6, <1>9, <1>14, <1>18, <1>19

LEMMA SkippedIs ==
  ASSUME Ledger!LedgerAssumption, NEW m, IsStore(m, {}), NEW f \in Ledger!Fact
  PROVE  /\ IsStore(Skipped(m, f), {})
         /\ Skipped(m, f).positions = m.positions /\ Skipped(m, f).opportunities = m.opportunities
<1>1. PICK g : g = [kind |-> "SKIP", symbol |-> f.symbol, ref |-> 0]
  BY Zenon
<1>2. g \in Ledger!Observation
  BY <1>1, LedgerNumbers DEF Ledger!Fact, Ledger!Observation
<1>3. /\ DOMAIN Skipped(m, f) = Files /\ Skipped(m, f).positions = m.positions
      /\ Skipped(m, f).opportunities = m.opportunities /\ Skipped(m, f).forward = m.forward \cup {g}
  BY <1>1, StoreFacts DEF Skipped
<1>4. Skipped(m, f).forward \in SUBSET Ledger!Observation
  <2>1. m.forward \in SUBSET Ledger!Observation
    BY StoreFacts
  <2>2. QED
    BY <1>2, <1>3, <2>1
<1>5. QED
  BY <1>3, <1>4, StoreIs, StoreFacts

\* One more alert.
TellsOf(type, s, ref) ==
  \E a \in Notice : a.type = type /\ a.symbol = s /\ a.ref = ref /\ a.day = date /\ alerts' = alerts \o <<a>>

LEMMA TellIs ==
  ASSUME Ledger!LedgerAssumption, LedgerTypes, NEW type \in Ledger!Event, NEW s \in Symbol \cup {"market"}, NEW ref \in 0 .. Ledger!MaxId,
         alerts' = Ledger!Alerted(<<Ledger!Alert(type, s, ref)>>)
  PROVE  TellsOf(type, s, ref) /\ \E more \in Seq(Notice) : alerts' = alerts \o more
<1>1. PICK a : a = Ledger!Alert(type, s, ref)
  OBVIOUS
<1>2. a \in Notice /\ a.type = type /\ a.symbol = s /\ a.ref = ref /\ a.day = date
  BY <1>1 DEF Ledger!Alert, Notice, LedgerTypes
<1>3. alerts' = alerts \o <<a>>
  BY <1>1 DEF Ledger!Alerted
<1>4. <<a>> \in Seq(Notice)
  BY <1>2
<1>5. QED
  BY <1>2, <1>3, <1>4, Zenon DEF TellsOf

LEMMA FactIs ==
  ASSUME LedgerTypes, NEW c \in Client, fact[c].kind \in {"buy", "sell", "skip"}
  PROVE  fact[c] \in Ledger!Fact /\ fact[c].symbol \in Symbol
<1>1. fact[c] \in Ledger!Fact \cup {Ledger!NoFact}
  BY DEF LedgerTypes
<1>2. fact[c] # Ledger!NoFact
  BY DEF Ledger!NoFact
<1>3. QED
  BY <1>1, <1>2 DEF Ledger!Fact

LEMMA AckBuyIs ==
  ASSUME Ledger!LedgerAssumption, LedgerTypes, NEW c \in Client, Ledger!AckBuy(c), mem[c].positions.next <= Ledger!MaxId
  PROVE  /\ station[c] = "locked" /\ fact[c].kind = "buy" /\ fact[c] \in Ledger!Fact
         /\ Becomes(station', station, c, "saving") /\ Becomes(mem', mem, c, Bought(mem[c], fact[c]))
         /\ TellsOf("POSITION_OPENED", fact[c].symbol, mem[c].positions.next)
         /\ UNCHANGED <<ledger, summary, holder, written, fact, acks, cycles, deaths, date, done, wrecked>>
         /\ LedgerTypes'
<1>1. PICK m : m = Bought(mem[c], fact[c])
  OBVIOUS
<1>2. /\ station[c] = "locked" /\ fact[c].kind = "buy" /\ mem' = [mem EXCEPT ![c] = m]
      /\ alerts' = Ledger!Alerted(<<Ledger!Alert("POSITION_OPENED", fact[c].symbol, mem[c].positions.next)>>)
      /\ station' = [station EXCEPT ![c] = "saving"]
      /\ UNCHANGED <<ledger, summary, holder, written, fact, acks, cycles, deaths, date, done, wrecked>>
  BY <1>1 DEF Ledger!AckBuy, Ledger!Commit, Bought
<1>3. c \in Ledger!Process
  BY LedgerNumbers
<1>4. fact[c] \in Ledger!Fact /\ fact[c].symbol \in Symbol
  BY <1>2, FactIs
<1>5. IsStore(mem[c], {})
  BY <1>3 DEF LedgerTypes
<1>6. IsStore(m, {})
  BY <1>1, <1>4, <1>5, BoughtIs
<1>7. mem[c].positions.next \in 0 .. Ledger!MaxId
  BY <1>5, StoreFacts, LedgerNumbers
<1>8. "POSITION_OPENED" \in Ledger!Event
  BY DEF Ledger!Event
<1>9. TellsOf("POSITION_OPENED", fact[c].symbol, mem[c].positions.next) /\ \E more \in Seq(Notice) : alerts' = alerts \o more
  BY <1>2, <1>4, <1>7, <1>8, TellIs, Zenon
<1>10. PICK more \in Seq(Notice) : alerts' = alerts \o more
  BY <1>9
<1>11. Becomes(station', station, c, "saving") /\ Becomes(mem', mem, c, m) /\ LedgerTypes'
  BY <1>2, <1>3, <1>6, <1>10, CommitIs, Zenon
<1>12. QED
  BY <1>1, <1>2, <1>4, <1>9, <1>11

LEMMA AckSellIs ==
  ASSUME Ledger!LedgerAssumption, LedgerTypes, NEW c \in Client, Ledger!AckSell(c)
  PROVE  /\ station[c] = "locked" /\ fact[c].kind = "sell" /\ fact[c] \in Ledger!Fact
         /\ \/ Ledger!Leave(c) /\ UNCHANGED alerts
            \/ /\ Becomes(station', station, c, "saving") /\ UNCHANGED <<holder, written, fact>>
               /\ \E i \in DOMAIN mem[c].positions.open :
                    /\ mem[c].positions.open[i].symbol = fact[c].symbol
                    /\ Becomes(mem', mem, c, Sold(mem[c], fact[c], i))
                    /\ TellsOf("POSITION_CLOSED", fact[c].symbol, mem[c].positions.open[i].id)
         /\ UNCHANGED <<ledger, summary, acks, cycles, deaths, date, done, wrecked>>
         /\ LedgerTypes'
<1>1. station[c] = "locked" /\ fact[c].kind = "sell"
  BY DEF Ledger!AckSell
<1>2. c \in Ledger!Process
  BY LedgerNumbers
<1>3. fact[c] \in Ledger!Fact /\ fact[c].symbol \in Symbol
  BY <1>1, FactIs
<1>4. IsStore(mem[c], {})
  BY <1>2 DEF LedgerTypes
<1>5. PICK held : held = Ledger!HeldAt(mem[c], fact[c].symbol)
  OBVIOUS
<1>6. PICK i : i = Ledger!FirstHeld(mem[c], fact[c].symbol)
  OBVIOUS
<1>7. CASE Ledger!Leave(c) /\ UNCHANGED <<ledger, summary, alerts, acks, cycles, deaths, date, done, wrecked>>
  <2>1. alerts' \in Seq(Notice) /\ deaths' \in 0 .. MaxFaults /\ done' \subseteq Ledger!Fact
    BY <1>7 DEF LedgerTypes
  <2>2. LedgerTypes'
    BY <1>2, <1>7, <2>1, LeaveTypes
  <2>3. QED
    BY <1>1, <1>3, <1>7, <2>2
<1>8. CASE /\ held # {} /\ mem' = [mem EXCEPT ![c] = Sold(mem[c], fact[c], i)]
           /\ alerts' = Ledger!Alerted(<<Ledger!Alert("POSITION_CLOSED", fact[c].symbol, mem[c].positions.open[i].id)>>)
           /\ station' = [station EXCEPT ![c] = "saving"]
           /\ UNCHANGED <<ledger, summary, holder, written, fact, acks, cycles, deaths, date, done, wrecked>>
  <2>1. i \in DOMAIN mem[c].positions.open /\ mem[c].positions.open[i].symbol = fact[c].symbol
    <3>1. held \in SUBSET Nat
      <4>1. PICK s : s = mem[c].positions.open
        OBVIOUS
      <4>2. s \in Seq(Ledger!Position)
        BY <1>4, <4>1, StoreFacts
      <4>3. DOMAIN s \subseteq Nat
        BY <4>2
      <4>4. QED
        BY <1>5, <4>1, <4>3 DEF Ledger!HeldAt
    <3>2. i = Ledger!Min(held)
      BY <1>5, <1>6 DEF Ledger!FirstHeld
    <3>3. i \in held
      BY <1>8, <3>1, <3>2, FirstIs
    <3>4. QED
      BY <1>5, <3>3 DEF Ledger!HeldAt
  <2>2. PICK m : m = Sold(mem[c], fact[c], i)
    OBVIOUS
  <2>3. IsStore(m, {}) /\ mem[c].positions.open[i] \in Ledger!Position
    BY <1>3, <1>4, <2>1, <2>2, SoldIs, Zenon
  <2>4. mem[c].positions.open[i].id \in 0 .. Ledger!MaxId
    BY <2>3, LedgerNumbers DEF Ledger!Position
  <2>5. "POSITION_CLOSED" \in Ledger!Event
    BY DEF Ledger!Event
  <2>6. TellsOf("POSITION_CLOSED", fact[c].symbol, mem[c].positions.open[i].id) /\ \E more \in Seq(Notice) : alerts' = alerts \o more
    BY <1>3, <1>8, <2>4, <2>5, TellIs, Zenon
  <2>7. PICK more \in Seq(Notice) : alerts' = alerts \o more
    BY <2>6
  <2>8. Becomes(station', station, c, "saving") /\ Becomes(mem', mem, c, m) /\ LedgerTypes'
    BY <1>2, <1>8, <2>2, <2>3, <2>7, CommitIs, Zenon
  <2>9. QED
    BY <1>1, <1>3, <1>8, <2>1, <2>2, <2>6, <2>8, Zenon
<1>9. QED
  BY <1>5, <1>6, <1>7, <1>8, Zenon DEF Ledger!AckSell, Ledger!Commit, Sold

LEMMA SkipIs ==
  ASSUME Ledger!LedgerAssumption, LedgerTypes, NEW c \in Client, Ledger!Skip(c)
  PROVE  /\ station[c] = "locked" /\ fact[c].kind = "skip" /\ fact[c] \in Ledger!Fact
         /\ Becomes(station', station, c, "saving") /\ Becomes(mem', mem, c, Skipped(mem[c], fact[c]))
         /\ TellsOf("HUMAN_SKIP", fact[c].symbol, 0)
         /\ UNCHANGED <<ledger, summary, holder, written, fact, acks, cycles, deaths, date, done, wrecked>>
         /\ LedgerTypes'
<1>1. PICK m : m = Skipped(mem[c], fact[c])
  OBVIOUS
<1>2. /\ station[c] = "locked" /\ fact[c].kind = "skip" /\ mem' = [mem EXCEPT ![c] = m]
      /\ alerts' = Ledger!Alerted(<<Ledger!Alert("HUMAN_SKIP", fact[c].symbol, 0)>>)
      /\ station' = [station EXCEPT ![c] = "saving"]
      /\ UNCHANGED <<ledger, summary, holder, written, fact, acks, cycles, deaths, date, done, wrecked>>
  BY <1>1 DEF Ledger!Skip, Ledger!Commit, Skipped
<1>3. c \in Ledger!Process
  BY LedgerNumbers
<1>4. fact[c] \in Ledger!Fact /\ fact[c].symbol \in Symbol
  BY <1>2, FactIs
<1>5. IsStore(mem[c], {})
  BY <1>3 DEF LedgerTypes
<1>6. IsStore(m, {})
  BY <1>1, <1>4, <1>5, SkippedIs
<1>7. 0 \in 0 .. Ledger!MaxId /\ "HUMAN_SKIP" \in Ledger!Event
  BY LedgerNumbers DEF Ledger!Event
<1>8. TellsOf("HUMAN_SKIP", fact[c].symbol, 0) /\ \E more \in Seq(Notice) : alerts' = alerts \o more
  BY <1>2, <1>4, <1>7, TellIs, Zenon
<1>9. PICK more \in Seq(Notice) : alerts' = alerts \o more
  BY <1>8, Zenon
<1>10. Becomes(station', station, c, "saving") /\ Becomes(mem', mem, c, m) /\ LedgerTypes'
  BY <1>2, <1>3, <1>6, <1>9, CommitIs, Zenon
<1>11. QED
  BY <1>1, <1>2, <1>4, <1>8, <1>10

LEMMA QuietCycleIs ==
  ASSUME Ledger!LedgerAssumption, LedgerTypes, Ledger!QuietCycle
  PROVE  /\ station[Ledger!Session] = "locked" /\ Becomes(station', station, Ledger!Session, "summary")
         /\ \/ UNCHANGED alerts
            \/ Ledger!AlertsToday("LIVE_CONNECTION_LOST") = {} /\ TellsOf("LIVE_CONNECTION_LOST", "market", 0)
         /\ UNCHANGED <<ledger, summary, holder, mem, written, fact, acks, cycles, deaths, date, done, wrecked>>
         /\ LedgerTypes'
<1>1. /\ station[Ledger!Session] = "locked" /\ station' = [station EXCEPT ![Ledger!Session] = "summary"]
      /\ alerts' = Ledger!Alerted(Ledger!AlertOncePerDay("LIVE_CONNECTION_LOST")) \/ UNCHANGED alerts
      /\ UNCHANGED <<ledger, summary, holder, mem, written, fact, acks, cycles, deaths, date, done, wrecked>>
  BY DEF Ledger!QuietCycle
<1>2. Ledger!Session \in Ledger!Process
  BY LedgerNumbers
<1>3. Becomes(station', station, Ledger!Session, "summary")
      /\ station' \in [Ledger!Process -> {"idle", "waiting", "locked", "saving", "summary", "settling", "dead"}]
  BY <1>1, <1>2, StationMoves, Zenon
<1>4. CASE UNCHANGED alerts
  <2>1. LedgerTypes'
    BY <1>1, <1>3, <1>4 DEF LedgerTypes
  <2>2. QED
    BY <1>1, <1>3, <1>4, <2>1
<1>5. CASE Ledger!AlertsToday("LIVE_CONNECTION_LOST") = {}
           /\ alerts' = Ledger!Alerted(<<Ledger!Alert("LIVE_CONNECTION_LOST", "market", 0)>>)
  <2>1. 0 \in 0 .. Ledger!MaxId /\ "LIVE_CONNECTION_LOST" \in Ledger!Event /\ "market" \in Symbol \cup {"market"}
    BY LedgerNumbers DEF Ledger!Event
  <2>2. TellsOf("LIVE_CONNECTION_LOST", "market", 0) /\ \E more \in Seq(Notice) : alerts' = alerts \o more
    BY <1>5, <2>1, TellIs, Zenon
  <2>3. alerts' \in Seq(Notice)
    BY <2>2 DEF LedgerTypes
  <2>4. LedgerTypes'
    BY <1>1, <1>3, <2>3 DEF LedgerTypes
  <2>5. QED
    BY <1>1, <1>3, <1>5, <2>2, <2>4
<1>6. CASE Ledger!AlertsToday("LIVE_CONNECTION_LOST") # {} /\ alerts' = Ledger!Alerted(<<>>)
  <2>1. alerts' = alerts \o <<>>
    BY <1>6 DEF Ledger!Alerted
  <2>2. alerts \in Seq(Notice)
    BY DEF LedgerTypes
  <2>3. UNCHANGED alerts
    BY <2>1, <2>2
  <2>4. QED
    BY <1>4, <2>3
<1>7. QED
  BY <1>1, <1>4, <1>5, <1>6 DEF Ledger!AlertOncePerDay

\* The symbols in the order the cycle visits them: each once.
LEMMA SymbolsAre ==
  ASSUME Ledger!LedgerAssumption
  PROVE  \E n \in Nat : /\ Ledger!SymbolSeq \in [1 .. n -> Symbol]
                        /\ \A i, j \in 1 .. n : Ledger!SymbolSeq[i] = Ledger!SymbolSeq[j] => i = j
                        /\ \A s \in Symbol : \E i \in 1 .. n : Ledger!SymbolSeq[i] = s
<1>1. IsFiniteSet(Symbol)
  BY LedgerNumbers
<1>2. PICK n \in Nat : n = Cardinality(Symbol) /\ ExistsBijection(1 .. n, Symbol)
  BY <1>1, FS_CardinalityType
<1>3. PICK g : g \in Bijection(1 .. n, Symbol)
  BY <1>2 DEF ExistsBijection
<1>4. g \in [1 .. n -> Symbol] /\ Ledger!IsInjective(g)
  BY <1>3 DEF Bijection, Injection, IsInjective, Ledger!IsInjective
<1>5. PICK q : q = Ledger!SymbolSeq
  OBVIOUS
<1>6. q = CHOOSE f \in [1 .. n -> Symbol] : Ledger!IsInjective(f)
  <2>1. Ledger!Cardinality(Symbol) = n
    BY <1>2 DEF Ledger!Cardinality, Cardinality
  <2>2. QED
    BY <1>5, <2>1 DEF Ledger!SymbolSeq, Ledger!SetToSeq
<1>7. q \in [1 .. n -> Symbol] /\ Ledger!IsInjective(q)
  BY <1>4, <1>6
<1>8. \A i, j \in 1 .. n : q[i] = q[j] => i = j
  BY <1>7 DEF Ledger!IsInjective
<1>9. q \in Injection(1 .. n, Symbol)
  BY <1>7, <1>8 DEF Injection, IsInjective
<1>10. Cardinality(1 .. n) = Cardinality(Symbol)
  <2>1. Cardinality(1 .. n) = IF 1 > n THEN 0 ELSE n - 1 + 1
    BY FS_Interval
  <2>2. QED
    BY <1>2, <2>1
<1>11. q \in Surjection(1 .. n, Symbol)
  BY <1>1, <1>9, <1>10, FS_Injection
<1>12. \A s \in Symbol : \E i \in 1 .. n : q[i] = s
  BY <1>11 DEF Surjection
<1>13. QED
  BY <1>5, <1>7, <1>8, <1>12

LEMMA AlertIs ==
  ASSUME Ledger!LedgerAssumption, LedgerTypes, NEW type \in Ledger!Event, NEW s \in Symbol \cup {"market"}, NEW ref \in 0 .. Ledger!MaxId
  PROVE  /\ Ledger!Alert(type, s, ref) \in Notice /\ Ledger!Alert(type, s, ref).type = type
         /\ Ledger!Alert(type, s, ref).symbol = s /\ Ledger!Alert(type, s, ref).ref = ref /\ Ledger!Alert(type, s, ref).day = date
BY DEF Ledger!Alert, Notice, LedgerTypes

LEMMA OneAlert ==
  ASSUME Ledger!LedgerAssumption, LedgerTypes, NEW type \in Ledger!Event, NEW s \in Symbol \cup {"market"}, NEW ref \in 0 .. Ledger!MaxId
  PROVE  /\ <<Ledger!Alert(type, s, ref)>> \in Seq(Notice) /\ Len(<<Ledger!Alert(type, s, ref)>>) = 1
         /\ <<Ledger!Alert(type, s, ref)>>[1].type = type /\ <<Ledger!Alert(type, s, ref)>>[1].symbol = s
         /\ <<Ledger!Alert(type, s, ref)>>[1].ref = ref /\ <<Ledger!Alert(type, s, ref)>>[1].day = date
<1>1. PICK a : a = Ledger!Alert(type, s, ref)
  OBVIOUS
<1>2. a \in Notice /\ a.type = type /\ a.symbol = s /\ a.ref = ref /\ a.day = date
  BY <1>1, AlertIs
<1>3. QED
  BY <1>1, <1>2

\* The event of a move, at most one.
LEMMA TransitionIs ==
  ASSUME Ledger!LedgerAssumption, LedgerTypes, NEW prev \in Ledger!OppState, NEW next \in Ledger!OppState, NEW s \in Symbol
  PROVE  /\ Ledger!Transition(prev, next, s) \in Seq(Notice) /\ Len(Ledger!Transition(prev, next, s)) <= 1
         /\ prev # next /\ next \in {"READY", "NEAR", "INVALIDATED"} => Len(Ledger!Transition(prev, next, s)) = 1
         /\ Len(Ledger!Transition(prev, next, s)) = 1 =>
              /\ prev # next /\ Ledger!Transition(prev, next, s)[1].type \in {"NEW_READY", "NEW_NEAR", "READY_INVALIDATED"}
              /\ Ledger!Transition(prev, next, s)[1].symbol = s /\ Ledger!Transition(prev, next, s)[1].ref = 0
              /\ Ledger!Transition(prev, next, s)[1].day = date
              /\ Ledger!Transition(prev, next, s)[1].type = "NEW_READY" <=> next = "READY"
<1>0. s \in Symbol \cup {"market"} /\ 0 \in 0 .. Ledger!MaxId /\ {"NEW_READY", "NEW_NEAR", "READY_INVALIDATED"} \subseteq Ledger!Event
  BY LedgerNumbers DEF Ledger!Event
<1>1. PICK t : t = Ledger!Transition(prev, next, s)
  OBVIOUS
<1> DEFINE Goal ==
      /\ t \in Seq(Notice) /\ Len(t) <= 1
      /\ prev # next /\ next \in {"READY", "NEAR", "INVALIDATED"} => Len(t) = 1
      /\ Len(t) = 1 =>
           /\ prev # next /\ t[1].type \in {"NEW_READY", "NEW_NEAR", "READY_INVALIDATED"}
           /\ t[1].symbol = s /\ t[1].ref = 0 /\ t[1].day = date
           /\ t[1].type = "NEW_READY" <=> next = "READY"
<1>2. CASE prev # next /\ next = "READY"
  <2>1. t = <<Ledger!Alert("NEW_READY", s, 0)>>
    BY <1>1, <1>2 DEF Ledger!Transition
  <2>2. t \in Seq(Notice) /\ Len(t) = 1 /\ t[1].type = "NEW_READY" /\ t[1].symbol = s /\ t[1].ref = 0 /\ t[1].day = date
    BY <1>0, <2>1, OneAlert
  <2>3. Len(t) <= 1
    BY <2>2
  <2>4. Goal
    BY <1>2, <2>2, <2>3
  <2>5. QED
    BY <1>1, <2>4, Zenon
<1>3. CASE prev # next /\ next = "NEAR"
  <2>1. t = <<Ledger!Alert("NEW_NEAR", s, 0)>>
    BY <1>1, <1>3 DEF Ledger!Transition
  <2>2. t \in Seq(Notice) /\ Len(t) = 1 /\ t[1].type = "NEW_NEAR" /\ t[1].symbol = s /\ t[1].ref = 0 /\ t[1].day = date
    BY <1>0, <2>1, OneAlert
  <2>3. Len(t) <= 1
    BY <2>2
  <2>4. Goal
    BY <1>3, <2>2, <2>3
  <2>5. QED
    BY <1>1, <2>4, Zenon
<1>4. CASE prev # next /\ next = "INVALIDATED"
  <2>1. t = <<Ledger!Alert("READY_INVALIDATED", s, 0)>>
    BY <1>1, <1>4 DEF Ledger!Transition
  <2>2. t \in Seq(Notice) /\ Len(t) = 1 /\ t[1].type = "READY_INVALIDATED" /\ t[1].symbol = s /\ t[1].ref = 0 /\ t[1].day = date
    BY <1>0, <2>1, OneAlert
  <2>3. Len(t) <= 1
    BY <2>2
  <2>4. Goal
    BY <1>4, <2>2, <2>3
  <2>5. QED
    BY <1>1, <2>4, Zenon
<1>5. CASE prev = next \/ next \notin {"READY", "NEAR", "INVALIDATED"}
  <2>1. t = <<>>
    BY <1>1, <1>5 DEF Ledger!Transition
  <2>2. t \in Seq(Notice) /\ Len(t) = 0
    BY <2>1
  <2>3. QED
    BY <1>1, <1>5, <2>2
<1>6. QED
  BY <1>2, <1>3, <1>4, <1>5

\* Two sequences, one behind the other.
LEMMA Joined ==
  ASSUME NEW E, NEW a \in Seq(E), NEW b \in Seq(E), NEW w, w = a \o b, NEW x, x = Len(a), NEW y, y = Len(b)
  PROVE  /\ w \in Seq(E) /\ x \in Nat /\ y \in Nat /\ Len(w) = x + y
         /\ DOMAIN a = 1 .. x /\ DOMAIN b = 1 .. y /\ DOMAIN w = 1 .. x + y
         /\ \A k \in 1 .. x : w[k] = a[k]
         /\ \A k \in 1 .. y : x + k \in 1 .. x + y /\ w[x + k] = b[k]
         /\ \A k \in 1 .. x + y : k > x => k - x \in 1 .. y /\ w[k] = b[k - x]
<1>1. /\ w \in Seq(E) /\ Len(w) = x + y /\ \A i \in 1 .. x + y : w[i] = IF i <= x THEN a[i] ELSE b[i - x]
  BY ConcatProperties, Zenon
<1>2. x \in Nat /\ y \in Nat /\ DOMAIN a = 1 .. x /\ DOMAIN b = 1 .. y
  BY LenProperties, Zenon
<1>3. DOMAIN w = 1 .. x + y
  BY <1>1, LenProperties, Zenon
<1>7. \A k \in 1 .. x : w[k] = a[k]
  <2> SUFFICES ASSUME NEW k \in 1 .. x PROVE w[k] = a[k]
    OBVIOUS
  <2>1. k \in 1 .. x + y /\ k <= x
    BY <1>2
  <2>2. QED
    BY <1>1, <2>1, Zenon
<1>8. \A k \in 1 .. x + y : k > x => k - x \in 1 .. y /\ w[k] = b[k - x]
  <2> SUFFICES ASSUME NEW k \in 1 .. x + y, k > x PROVE k - x \in 1 .. y /\ w[k] = b[k - x]
    OBVIOUS
  <2>1. ~ (k <= x) /\ k - x \in 1 .. y
    BY <1>2
  <2>2. QED
    BY <1>1, <2>1, Zenon
<1>9. \A k \in 1 .. y : x + k \in 1 .. x + y /\ w[x + k] = b[k]
  <2> SUFFICES ASSUME NEW k \in 1 .. y PROVE x + k \in 1 .. x + y /\ w[x + k] = b[k]
    OBVIOUS
  <2>1. PICK j : j = x + k
    OBVIOUS
  <2>2. j \in 1 .. x + y /\ j > x /\ j - x = k
    BY <1>2, <2>1
  <2>3. w[j] = b[j - x]
    BY <1>8, <2>2
  <2>4. QED
    BY <2>1, <2>2, <2>3, Zenon
<1>10. QED
  BY <1>1, <1>2, <1>3, <1>7, <1>8, <1>9, Zenon

\* The events of the moves from old to new, and of what the positions say.
MovesOf(old, new) ==
  Ledger!FlattenSeq([i \in DOMAIN Ledger!SymbolSeq |->
    Ledger!Transition(old[Ledger!SymbolSeq[i]], new[Ledger!SymbolSeq[i]], Ledger!SymbolSeq[i])])
ExitsOf(old, open) ==
  Ledger!FlattenSeq([i \in DOMAIN open |->
    IF open[i].state = old[i].state THEN <<>>
    ELSE <<Ledger!Alert(IF open[i].state = "HOLD" THEN "POSITION_EXIT_CLEARED" ELSE "POSITION_EXIT_ALERT", open[i].symbol, open[i].id)>>])

Moved(moves, old, new) ==
  /\ moves \in Seq(Notice)
  /\ \A k \in DOMAIN moves :
       /\ moves[k].type \in {"NEW_READY", "NEW_NEAR", "READY_INVALIDATED"} /\ moves[k].symbol \in Symbol /\ moves[k].day = date
       /\ moves[k].type = "NEW_READY" => new[moves[k].symbol] = "READY" /\ old[moves[k].symbol] # "READY"
  /\ \A j, k \in DOMAIN moves : moves[j].symbol = moves[k].symbol => j = k
  /\ \A s \in Symbol : old[s] # new[s] /\ new[s] \in {"READY", "NEAR", "INVALIDATED"} =>
       \E k \in DOMAIN moves : moves[k].symbol = s /\ moves[k].ref = 0 /\ (new[s] = "READY" => moves[k].type = "NEW_READY")

\* The moves of the opportunities: at most one event of each symbol.
LEMMA MovesAre ==
  ASSUME Ledger!LedgerAssumption, LedgerTypes, NEW old \in [Symbol -> Ledger!OppState], NEW new \in [Symbol -> Ledger!OppState],
         NEW moves, moves = MovesOf(old, new)
  PROVE  Moved(moves, old, new)
<1>0. PICK q : q = Ledger!SymbolSeq
  OBVIOUS
<1>1. PICK n \in Nat : /\ q \in [1 .. n -> Symbol] /\ \A i, j \in 1 .. n : q[i] = q[j] => i = j
                       /\ \A s \in Symbol : \E i \in 1 .. n : q[i] = s
  BY <1>0, SymbolsAre, Zenon
<1>2. PICK seqs : seqs = [i \in 1 .. n |-> Ledger!Transition(old[q[i]], new[q[i]], q[i])]
  BY Zenon
<1>3. \A i \in 1 .. n : /\ seqs[i] \in Seq(Notice) /\ Len(seqs[i]) <= 1
                        /\ old[q[i]] # new[q[i]] /\ new[q[i]] \in {"READY", "NEAR", "INVALIDATED"} => Len(seqs[i]) = 1
                        /\ Len(seqs[i]) = 1 =>
                             /\ old[q[i]] # new[q[i]] /\ seqs[i][1].type \in {"NEW_READY", "NEW_NEAR", "READY_INVALIDATED"}
                             /\ seqs[i][1].symbol = q[i] /\ seqs[i][1].ref = 0 /\ seqs[i][1].day = date
                             /\ seqs[i][1].type = "NEW_READY" <=> new[q[i]] = "READY"
  <2> TAKE i \in 1 .. n
  <2>1. q[i] \in Symbol /\ old[q[i]] \in Ledger!OppState /\ new[q[i]] \in Ledger!OppState
    BY <1>1
  <2>2. seqs[i] = Ledger!Transition(old[q[i]], new[q[i]], q[i])
    BY <1>2
  <2>3. QED
    BY <2>1, <2>2, TransitionIs
<1>4. moves = Ledger!FlattenSeq(seqs)
  <2>1. DOMAIN q = 1 .. n
    BY <1>1
  <2>2. QED
    BY <1>0, <1>2, <2>1 DEF MovesOf
<1>5. seqs \in [1 .. n -> Seq(Notice)]
  BY <1>2, <1>3
<1>6. Laid(moves, seqs, n, Notice)
  BY <1>3, <1>4, <1>5, FlattenFacts, Zenon
<1>7. moves \in Seq(Notice)
  BY <1>6 DEF Laid
<1>8. PICK at \in [DOMAIN moves -> 1 .. n] :
       /\ \A k \in DOMAIN moves : Len(seqs[at[k]]) = 1 /\ moves[k] = seqs[at[k]][1]
       /\ \A j, k \in DOMAIN moves : at[j] = at[k] => j = k
       /\ \A i \in 1 .. n : Len(seqs[i]) = 1 => \E k \in DOMAIN moves : at[k] = i
  BY <1>6, Zenon DEF Laid
<1>9. \A k \in DOMAIN moves :
              /\ moves[k].type \in {"NEW_READY", "NEW_NEAR", "READY_INVALIDATED"} /\ moves[k].symbol = q[at[k]] /\ moves[k].day = date
              /\ moves[k].ref = 0 /\ old[q[at[k]]] # new[q[at[k]]] /\ (moves[k].type = "NEW_READY" <=> new[q[at[k]]] = "READY")
  <2> TAKE k \in DOMAIN moves
  <2>1. PICK i \in 1 .. n : i = at[k]
    BY <1>8
  <2>2. Len(seqs[i]) = 1 /\ moves[k] = seqs[i][1]
    BY <1>8, <2>1
  <2>3. QED
    BY <1>3, <2>1, <2>2, Zenon
<1>10. \A k \in DOMAIN moves : moves[k].symbol \in Symbol /\
              (moves[k].type = "NEW_READY" => new[moves[k].symbol] = "READY" /\ old[moves[k].symbol] # "READY")
  <2> TAKE k \in DOMAIN moves
  <2>1. at[k] \in 1 .. n /\ q[at[k]] \in Symbol
    BY <1>1, <1>8
  <2>2. QED
    BY <1>9, <2>1
<1>11. \A j, k \in DOMAIN moves : moves[j].symbol = moves[k].symbol => j = k
  <2> SUFFICES ASSUME NEW j \in DOMAIN moves, NEW k \in DOMAIN moves, moves[j].symbol = moves[k].symbol PROVE j = k
    OBVIOUS
  <2>1. q[at[j]] = q[at[k]] /\ at[j] \in 1 .. n /\ at[k] \in 1 .. n
    BY <1>8, <1>9
  <2>2. at[j] = at[k]
    BY <1>1, <2>1, Zenon
  <2>3. QED
    BY <1>8, <2>2
<1>12. \A s \in Symbol : old[s] # new[s] /\ new[s] \in {"READY", "NEAR", "INVALIDATED"} =>
              \E k \in DOMAIN moves : moves[k].symbol = s /\ moves[k].ref = 0 /\ (new[s] = "READY" => moves[k].type = "NEW_READY")
  <2> SUFFICES ASSUME NEW s \in Symbol, old[s] # new[s], new[s] \in {"READY", "NEAR", "INVALIDATED"}
               PROVE \E k \in DOMAIN moves : moves[k].symbol = s /\ moves[k].ref = 0 /\ (new[s] = "READY" => moves[k].type = "NEW_READY")
    OBVIOUS
  <2>1. PICK i \in 1 .. n : q[i] = s
    BY <1>1
  <2>2. Len(seqs[i]) = 1
    BY <1>3, <2>1
  <2>3. PICK k \in DOMAIN moves : at[k] = i
    BY <1>8, <2>2
  <2>4. QED
    BY <1>9, <2>1, <2>3
<1>13. QED
  BY <1>7, <1>9, <1>10, <1>11, <1>12 DEF Moved

\* What the positions said that changed.
LEMMA ExitsAre ==
  ASSUME Ledger!LedgerAssumption, LedgerTypes, NEW n \in Nat, NEW old, NEW open \in [1 .. n -> Ledger!Position],
         NEW exits, exits = ExitsOf(old, open)
  PROVE  /\ exits \in Seq(Notice)
         /\ \A k \in DOMAIN exits : exits[k].type \in {"POSITION_EXIT_CLEARED", "POSITION_EXIT_ALERT"} /\ exits[k].day = date
         /\ \A i \in 1 .. n : open[i].state = "EXIT_ALERT" /\ old[i].state # "EXIT_ALERT" =>
              \E k \in DOMAIN exits : exits[k].type = "POSITION_EXIT_ALERT" /\ exits[k].symbol = open[i].symbol /\ exits[k].ref = open[i].id
<1> DEFINE Type(i) == IF open[i].state = "HOLD" THEN "POSITION_EXIT_CLEARED" ELSE "POSITION_EXIT_ALERT"
<1>1. PICK seqs : seqs = [i \in 1 .. n |-> IF open[i].state = old[i].state THEN <<>> ELSE <<Ledger!Alert(Type(i), open[i].symbol, open[i].id)>>]
  BY Zenon
<1>2. \A i \in 1 .. n : /\ seqs[i] \in Seq(Notice) /\ Len(seqs[i]) <= 1
                        /\ open[i].state # old[i].state => Len(seqs[i]) = 1
                        /\ Len(seqs[i]) = 1 => /\ seqs[i][1].type = Type(i) /\ seqs[i][1].day = date
                                               /\ seqs[i][1].symbol = open[i].symbol /\ seqs[i][1].ref = open[i].id
  <2> TAKE i \in 1 .. n
  <2>1. open[i].symbol \in Symbol \cup {"market"} /\ open[i].id \in 0 .. Ledger!MaxId /\ Type(i) \in Ledger!Event
    BY LedgerNumbers DEF Ledger!Position, Ledger!Event
  <2>2. CASE open[i].state = old[i].state
    <3>1. seqs[i] = <<>>
      BY <1>1, <2>2
    <3>2. seqs[i] \in Seq(Notice) /\ Len(seqs[i]) = 0
      BY <3>1
    <3>3. QED
      BY <2>2, <3>2
  <2>3. CASE open[i].state # old[i].state
    <3>1. PICK type : type = Type(i)
      OBVIOUS
    <3>2. PICK s, r : s = open[i].symbol /\ r = open[i].id
      OBVIOUS
    <3>3. PICK q : q = seqs[i]
      OBVIOUS
    <3>4. q = <<Ledger!Alert(type, s, r)>>
      BY <1>1, <2>3, <3>1, <3>2, <3>3
    <3>5. s \in Symbol \cup {"market"} /\ r \in 0 .. Ledger!MaxId /\ type \in Ledger!Event
      BY <2>1, <3>1, <3>2, Zenon
    <3>6. q \in Seq(Notice) /\ Len(q) = 1 /\ q[1].type = type /\ q[1].day = date /\ q[1].symbol = s /\ q[1].ref = r
      BY <3>4, <3>5, OneAlert
    <3>7. Len(q) <= 1
      BY <3>6
    <3>8. QED
      BY <3>1, <3>2, <3>3, <3>6, <3>7, Zenon
  <2>4. QED
    BY <2>2, <2>3
<1>3. exits = Ledger!FlattenSeq(seqs)
  <2>1. DOMAIN open = 1 .. n
    OBVIOUS
  <2>2. QED
    BY <1>1, <2>1 DEF ExitsOf
<1>4. seqs \in [1 .. n -> Seq(Notice)]
  BY <1>1, <1>2
<1>5. Laid(exits, seqs, n, Notice)
  BY <1>2, <1>3, <1>4, FlattenFacts, Zenon
<1>6. exits \in Seq(Notice)
  BY <1>5 DEF Laid
<1>7. PICK at \in [DOMAIN exits -> 1 .. n] :
       /\ \A k \in DOMAIN exits : Len(seqs[at[k]]) = 1 /\ exits[k] = seqs[at[k]][1]
       /\ \A i \in 1 .. n : Len(seqs[i]) = 1 => \E k \in DOMAIN exits : at[k] = i
  BY <1>5 DEF Laid
<1>8. \A k \in DOMAIN exits : /\ exits[k].type = Type(at[k]) /\ exits[k].day = date /\ exits[k].symbol = open[at[k]].symbol
                              /\ exits[k].ref = open[at[k]].id
  <2> TAKE k \in DOMAIN exits
  <2>1. PICK i \in 1 .. n : i = at[k]
    BY <1>7
  <2>2. Len(seqs[i]) = 1 /\ exits[k] = seqs[i][1]
    BY <1>7, <2>1
  <2>3. QED
    BY <1>2, <2>1, <2>2, Zenon
<1>9. \A i \in 1 .. n : open[i].state = "EXIT_ALERT" /\ old[i].state # "EXIT_ALERT" =>
              \E k \in DOMAIN exits : exits[k].type = "POSITION_EXIT_ALERT" /\ exits[k].symbol = open[i].symbol /\ exits[k].ref = open[i].id
  <2> SUFFICES ASSUME NEW i \in 1 .. n, open[i].state = "EXIT_ALERT", old[i].state # "EXIT_ALERT"
               PROVE \E k \in DOMAIN exits : exits[k].type = "POSITION_EXIT_ALERT" /\ exits[k].symbol = open[i].symbol /\ exits[k].ref = open[i].id
    OBVIOUS
  <2>1. Len(seqs[i]) = 1
    BY <1>2
  <2>2. PICK k \in DOMAIN exits : at[k] = i
    BY <1>7, <2>1
  <2>3. Type(i) = "POSITION_EXIT_ALERT"
    OBVIOUS
  <2>4. exits[k].type = Type(i) /\ exits[k].symbol = open[i].symbol /\ exits[k].ref = open[i].id
    BY <1>8, <2>2, Zenon
  <2>5. QED
    BY <2>3, <2>4
<1>10. QED
  BY <1>6, <1>8, <1>9

\* The events of a cycle tell what it changes, and nothing else.
Tells(ev, was, opp, before, open) ==
  /\ \A k \in DOMAIN ev : /\ ev[k].day = date /\ ev[k].type # "LIVE_CONNECTION_LOST"
                          /\ ev[k].type = "NEW_READY" => ev[k].symbol \in Symbol /\ opp[ev[k].symbol] = "READY" /\ was[ev[k].symbol] # "READY"
  /\ \A j, k \in DOMAIN ev : ev[j].type = "NEW_READY" /\ ev[k].type = "NEW_READY" /\ ev[j].symbol = ev[k].symbol => j = k
  /\ \A s \in Symbol : was[s] # opp[s] /\ opp[s] \in {"READY", "NEAR", "INVALIDATED"} =>
       \E k \in DOMAIN ev : ev[k].symbol = s /\ ev[k].ref = 0 /\ (opp[s] = "READY" => ev[k].type = "NEW_READY")
  /\ \A i \in DOMAIN open : open[i].state = "EXIT_ALERT" /\ before[i].state # "EXIT_ALERT" =>
       \E k \in DOMAIN ev : ev[k].type = "POSITION_EXIT_ALERT" /\ ev[k].symbol = open[i].symbol /\ ev[k].ref = open[i].id

LEMMA WarningIs ==
  ASSUME Ledger!LedgerAssumption, LedgerTypes, NEW suppressed \in BOOLEAN,
         NEW first, first = IF suppressed THEN Ledger!AlertOncePerDay("DATA_UNTRUSTED") ELSE <<>>
  PROVE  first \in Seq(Notice) /\ \A k \in DOMAIN first : first[k].type = "DATA_UNTRUSTED" /\ first[k].day = date
<1>1. CASE first = <<>>
  <2>1. PICK w : w = <<>>
    OBVIOUS
  <2>2. w \in Seq(Notice) /\ DOMAIN w = {}
    BY <2>1
  <2>3. QED
    BY <1>1, <2>1, <2>2, Zenon
<1>2. CASE first = <<Ledger!Alert("DATA_UNTRUSTED", "market", 0)>>
  <2>1. "market" \in Symbol \cup {"market"} /\ 0 \in 0 .. Ledger!MaxId /\ "DATA_UNTRUSTED" \in Ledger!Event
    BY LedgerNumbers DEF Ledger!Event
  <2>2. PICK w : w = <<Ledger!Alert("DATA_UNTRUSTED", "market", 0)>>
    BY Zenon
  <2>3. w \in Seq(Notice) /\ Len(w) = 1 /\ w[1].type = "DATA_UNTRUSTED" /\ w[1].day = date
    BY <2>1, <2>2, OneAlert
  <2>4. DOMAIN w = {1}
    BY <2>3
  <2>5. QED
    BY <1>2, <2>2, <2>3, <2>4, Zenon
<1>3. QED
  BY <1>1, <1>2 DEF Ledger!AlertOncePerDay

LEMMA EventsAre ==
  ASSUME Ledger!LedgerAssumption, LedgerTypes, NEW m, IsStore(m, {}), NEW opp \in [Symbol -> Ledger!OppState],
         NEW open \in [DOMAIN m.positions.open -> Ledger!Position], NEW suppressed \in BOOLEAN
  PROVE  /\ Ledger!Events(m, opp, open, suppressed) \in Seq(Notice)
         /\ Tells(Ledger!Events(m, opp, open, suppressed), m.opportunities, opp, m.positions.open, open)
<1>1. PICK first : first = IF suppressed THEN Ledger!AlertOncePerDay("DATA_UNTRUSTED") ELSE <<>>
  OBVIOUS
<1>2. PICK moves : moves = MovesOf(m.opportunities, opp)
  OBVIOUS
<1>3. PICK exits : exits = ExitsOf(m.positions.open, open)
  OBVIOUS
<1>4. PICK ev : ev = Ledger!Events(m, opp, open, suppressed)
  OBVIOUS
<1>5. PICK start : start = first \o moves
  BY Zenon
<1>6. ev = start \o exits
  BY <1>1, <1>2, <1>3, <1>4, <1>5, Zenon DEF Ledger!Events, MovesOf, ExitsOf
<1>7. PICK was, before : was = m.opportunities /\ before = m.positions.open
  OBVIOUS
<1>8. was \in [Symbol -> Ledger!OppState] /\ before \in Seq(Ledger!Position)
  BY <1>7, StoreFacts
<1>9. PICK n \in Nat : DOMAIN before = 1 .. n
  BY <1>8
<1>10. first \in Seq(Notice) /\ \A k \in DOMAIN first : first[k].type = "DATA_UNTRUSTED" /\ first[k].day = date
  BY <1>1, WarningIs, Zenon
<1>11. /\ moves \in Seq(Notice)
       /\ \A k \in DOMAIN moves :
            /\ moves[k].type \in {"NEW_READY", "NEW_NEAR", "READY_INVALIDATED"} /\ moves[k].symbol \in Symbol /\ moves[k].day = date
            /\ moves[k].type = "NEW_READY" => opp[moves[k].symbol] = "READY" /\ was[moves[k].symbol] # "READY"
       /\ \A j, k \in DOMAIN moves : moves[j].symbol = moves[k].symbol => j = k
       /\ \A s \in Symbol : was[s] # opp[s] /\ opp[s] \in {"READY", "NEAR", "INVALIDATED"} =>
            \E k \in DOMAIN moves : moves[k].symbol = s /\ moves[k].ref = 0 /\ (opp[s] = "READY" => moves[k].type = "NEW_READY")
  <2>1. moves = MovesOf(was, opp)
    BY <1>2, <1>7
  <2>2. was \in [Symbol -> Ledger!OppState] /\ opp \in [Symbol -> Ledger!OppState]
    BY <1>8
  <2>3. Moved(moves, was, opp)
    BY <2>1, <2>2, MovesAre, Zenon
  <2>4. QED
    BY <2>3 DEF Moved
<1>12. /\ exits \in Seq(Notice)
       /\ \A k \in DOMAIN exits : exits[k].type \in {"POSITION_EXIT_CLEARED", "POSITION_EXIT_ALERT"} /\ exits[k].day = date
       /\ \A i \in DOMAIN open : open[i].state = "EXIT_ALERT" /\ before[i].state # "EXIT_ALERT" =>
              \E k \in DOMAIN exits : exits[k].type = "POSITION_EXIT_ALERT" /\ exits[k].symbol = open[i].symbol /\ exits[k].ref = open[i].id
  <2>1. open \in [1 .. n -> Ledger!Position] /\ DOMAIN open = 1 .. n
    BY <1>7, <1>9
  <2>2. exits = ExitsOf(before, open)
    BY <1>3, <1>7
  <2>3. QED
    BY <2>1, <2>2, ExitsAre
<1>13. PICK a, b, c : a = Len(first) /\ b = Len(moves) /\ c = Len(exits)
  BY Zenon
<1>14. /\ start \in Seq(Notice) /\ a \in Nat /\ b \in Nat /\ Len(start) = a + b /\ DOMAIN start = 1 .. a + b
       /\ DOMAIN first = 1 .. a /\ DOMAIN moves = 1 .. b
       /\ \A k \in 1 .. a : start[k] = first[k]
       /\ \A k \in 1 .. b : a + k \in 1 .. a + b /\ start[a + k] = moves[k]
       /\ \A k \in 1 .. a + b : k > a => k - a \in 1 .. b /\ start[k] = moves[k - a]
  <2>1. first \in Seq(Notice) /\ moves \in Seq(Notice)
    BY <1>10, <1>11
  <2>2. QED
    BY <1>5, <1>13, <2>1, Joined
<1>15. PICK l : l = a + b
  OBVIOUS
<1>16. /\ ev \in Seq(Notice) /\ c \in Nat /\ DOMAIN ev = 1 .. l + c /\ DOMAIN exits = 1 .. c
       /\ \A k \in 1 .. l : ev[k] = start[k]
       /\ \A k \in 1 .. c : l + k \in 1 .. l + c /\ ev[l + k] = exits[k]
       /\ \A k \in 1 .. l + c : k > l => k - l \in 1 .. c /\ ev[k] = exits[k - l]
  <2>1. start \in Seq(Notice) /\ exits \in Seq(Notice) /\ l = Len(start)
    BY <1>12, <1>14, <1>15
  <2>2. DOMAIN start = 1 .. l
    BY <1>14, <1>15
  <2>3. QED
    BY <1>6, <1>13, <2>1, <2>2, Joined
<1>17. \A k \in DOMAIN ev : \/ k \in 1 .. a /\ ev[k] = first[k]
                            \/ k - a \in 1 .. b /\ ev[k] = moves[k - a]
                            \/ k - l \in 1 .. c /\ ev[k] = exits[k - l]
  <2> TAKE k \in DOMAIN ev
  <2>1. CASE k > l
    BY <1>16, <2>1
  <2>2. CASE k <= l
    <3>1. k \in 1 .. a + b /\ ev[k] = start[k]
      BY <1>14, <1>15, <1>16, <2>2
    <3>2. CASE k > a
      BY <1>14, <3>1, <3>2
    <3>3. CASE ~ (k > a)
      <4>1. k \in 1 .. a
        BY <1>14, <3>1, <3>3
      <4>2. QED
        BY <1>14, <3>1, <4>1
    <3>4. QED
      BY <3>2, <3>3
  <2>3. l \in Nat /\ k \in Nat
    BY <1>14, <1>15, <1>16
  <2>4. QED
    BY <2>1, <2>2, <2>3
<1>18. \A k \in DOMAIN moves : a + k \in DOMAIN ev /\ ev[a + k] = moves[k]
  <2> TAKE k \in DOMAIN moves
  <2>1. PICK j : j = a + k
    OBVIOUS
  <2>2. j \in 1 .. l /\ start[j] = moves[k]
    BY <1>14, <1>15, <2>1
  <2>3. ev[j] = moves[k] /\ j \in 1 .. l + c
    BY <1>14, <1>15, <1>16, <2>2
  <2>4. QED
    BY <1>16, <2>1, <2>3, Zenon
<1>19. \A k \in DOMAIN exits : l + k \in DOMAIN ev /\ ev[l + k] = exits[k]
  BY <1>16, Zenon
<1>20. \A k \in DOMAIN ev : /\ ev[k].day = date /\ ev[k].type # "LIVE_CONNECTION_LOST"
                            /\ ev[k].type = "NEW_READY" => /\ k - a \in DOMAIN moves /\ ev[k] = moves[k - a]
                                                           /\ ev[k].symbol \in Symbol /\ opp[ev[k].symbol] = "READY" /\ was[ev[k].symbol] # "READY"
  <2> TAKE k \in DOMAIN ev
  <2>1. CASE k \in 1 .. a /\ ev[k] = first[k]
    BY <1>10, <1>14, <2>1
  <2>2. CASE k - a \in 1 .. b /\ ev[k] = moves[k - a]
    <3>1. PICK i \in 1 .. b : i = k - a
      BY <2>2
    <3>2. ev[k] = moves[i] /\ i \in DOMAIN moves
      BY <1>14, <2>2, <3>1
    <3>3. /\ moves[i].day = date /\ moves[i].type # "LIVE_CONNECTION_LOST"
          /\ moves[i].type = "NEW_READY" => moves[i].symbol \in Symbol /\ opp[moves[i].symbol] = "READY" /\ was[moves[i].symbol] # "READY"
      BY <1>11, <3>2
    <3>4. QED
      BY <3>1, <3>2, <3>3, Zenon
  <2>3. CASE k - l \in 1 .. c /\ ev[k] = exits[k - l]
    <3>1. PICK i \in 1 .. c : i = k - l
      BY <2>3
    <3>2. ev[k] = exits[i] /\ i \in DOMAIN exits
      BY <1>16, <2>3, <3>1
    <3>3. exits[i].day = date /\ exits[i].type # "LIVE_CONNECTION_LOST" /\ exits[i].type # "NEW_READY"
      BY <1>12, <3>2
    <3>4. QED
      BY <3>2, <3>3, Zenon
  <2>4. QED
    BY <1>17, <2>1, <2>2, <2>3
<1>21. \A j, k \in DOMAIN ev : ev[j].type = "NEW_READY" /\ ev[k].type = "NEW_READY" /\ ev[j].symbol = ev[k].symbol => j = k
  <2> SUFFICES ASSUME NEW j \in DOMAIN ev, NEW k \in DOMAIN ev, ev[j].type = "NEW_READY", ev[k].type = "NEW_READY",
                      ev[j].symbol = ev[k].symbol PROVE j = k
    OBVIOUS
  <2>1. PICK x, y : x = j - a /\ y = k - a
    OBVIOUS
  <2>2. x \in DOMAIN moves /\ y \in DOMAIN moves /\ moves[x].symbol = moves[y].symbol
    BY <1>20, <2>1, Zenon
  <2>3. x = y
    BY <1>11, <2>2
  <2>4. QED
    BY <1>14, <1>16, <2>1, <2>3
<1>22. \A s \in Symbol : was[s] # opp[s] /\ opp[s] \in {"READY", "NEAR", "INVALIDATED"} =>
       \E k \in DOMAIN ev : ev[k].symbol = s /\ ev[k].ref = 0 /\ (opp[s] = "READY" => ev[k].type = "NEW_READY")
  <2> SUFFICES ASSUME NEW s \in Symbol, was[s] # opp[s], opp[s] \in {"READY", "NEAR", "INVALIDATED"}
               PROVE  \E k \in DOMAIN ev : ev[k].symbol = s /\ ev[k].ref = 0 /\ (opp[s] = "READY" => ev[k].type = "NEW_READY")
    OBVIOUS
  <2>1. PICK k \in DOMAIN moves : moves[k].symbol = s /\ moves[k].ref = 0 /\ (opp[s] = "READY" => moves[k].type = "NEW_READY")
    BY <1>11
  <2>2. a + k \in DOMAIN ev /\ ev[a + k] = moves[k]
    BY <1>18
  <2>3. QED
    BY <2>1, <2>2, Zenon
<1>23. \A i \in DOMAIN open : open[i].state = "EXIT_ALERT" /\ before[i].state # "EXIT_ALERT" =>
       \E k \in DOMAIN ev : ev[k].type = "POSITION_EXIT_ALERT" /\ ev[k].symbol = open[i].symbol /\ ev[k].ref = open[i].id
  <2> SUFFICES ASSUME NEW i \in DOMAIN open, open[i].state = "EXIT_ALERT", before[i].state # "EXIT_ALERT"
               PROVE \E k \in DOMAIN ev : ev[k].type = "POSITION_EXIT_ALERT" /\ ev[k].symbol = open[i].symbol /\ ev[k].ref = open[i].id
    OBVIOUS
  <2>1. PICK k \in DOMAIN exits : exits[k].type = "POSITION_EXIT_ALERT" /\ exits[k].symbol = open[i].symbol /\ exits[k].ref = open[i].id
    BY <1>12
  <2>2. l + k \in DOMAIN ev /\ ev[l + k] = exits[k]
    BY <1>19
  <2>3. QED
    BY <2>1, <2>2, Zenon
<1>24. Tells(ev, was, opp, before, open)
  <2>1. \A k \in DOMAIN ev : /\ ev[k].day = date /\ ev[k].type # "LIVE_CONNECTION_LOST"
                             /\ ev[k].type = "NEW_READY" => ev[k].symbol \in Symbol /\ opp[ev[k].symbol] = "READY" /\ was[ev[k].symbol] # "READY"
    BY <1>20, Zenon
  <2>2. QED
    BY <1>21, <1>22, <1>23, <2>1, Zenon DEF Tells
<1>25. QED
  BY <1>4, <1>7, <1>16, <1>24, Zenon

\* The same positions in other states; the opportunities that follow.
SamePositions(old, new) ==
  /\ DOMAIN new = DOMAIN old
  /\ \A i \in DOMAIN old : /\ new[i].id = old[i].id /\ new[i].symbol = old[i].symbol
                           /\ new[i].venue = old[i].venue /\ new[i].time = old[i].time
FollowsOn(m, opp) ==
  \A s \in Symbol : /\ opp[s] = "EXECUTED" => Ledger!Holds(m, s) \/ m.opportunities[s] = "EXECUTED"
                    /\ opp[s] = "READY" /\ Ledger!Holds(m, s) => m.opportunities[s] = "READY"
                    /\ m.opportunities[s] = "READY" /\ ~ Ledger!Holds(m, s) => opp[s] \in {"READY", "NEAR", "INVALIDATED"}

LEMMA NextOpenIs ==
  ASSUME NEW m, IsStore(m, {}), NEW exit
  PROVE  /\ Ledger!NextOpen(m, exit) \in [DOMAIN m.positions.open -> Ledger!Position]
         /\ SamePositions(m.positions.open, Ledger!NextOpen(m, exit))
<1>1. PICK old : old = m.positions.open
  OBVIOUS
<1>2. PICK new : new = Ledger!NextOpen(m, exit)
  OBVIOUS
<1>3. old \in Seq(Ledger!Position)
  BY <1>1, StoreFacts
<1>4. DOMAIN new = DOMAIN old
  BY <1>1, <1>2 DEF Ledger!NextOpen
<1>5. \A i \in DOMAIN old : /\ new[i] \in Ledger!Position /\ new[i].id = old[i].id /\ new[i].symbol = old[i].symbol
                            /\ new[i].venue = old[i].venue /\ new[i].time = old[i].time
  <2> TAKE i \in DOMAIN old
  <2>1. PICK p : p = old[i]
    OBVIOUS
  <2>2. p \in Ledger!Position
    BY <1>3, <2>1
  <2>3. new[i] = p \/ new[i] = [p EXCEPT !.state = "EXIT_ALERT"] \/ new[i] = [p EXCEPT !.state = "HOLD"]
    BY <1>1, <1>2, <2>1 DEF Ledger!NextOpen
  <2>4. \A to \in {"HOLD", "EXIT_ALERT"} : LET r == [p EXCEPT !.state = to] IN
          r \in Ledger!Position /\ r.id = p.id /\ r.symbol = p.symbol /\ r.venue = p.venue /\ r.time = p.time
    BY <2>2 DEF Ledger!Position
  <2>5. QED
    BY <2>1, <2>2, <2>3, <2>4, Zenon
<1>6. new = [i \in DOMAIN old |-> new[i]]
  BY <1>1, <1>2 DEF Ledger!NextOpen
<1>7. new \in [DOMAIN old -> Ledger!Position]
  BY <1>5, <1>6
<1>8. QED
  BY <1>1, <1>2, <1>4, <1>5, <1>7 DEF SamePositions

LEMMA NextOpportunityIs ==
  ASSUME NEW m, IsStore(m, {}), NEW seen \in [Symbol -> {"skip", "far", "near", "trigger"}], NEW suppressed \in BOOLEAN
  PROVE  /\ Ledger!NextOpportunity(m, seen, suppressed) \in [Symbol -> Ledger!OppState]
         /\ FollowsOn(m, Ledger!NextOpportunity(m, seen, suppressed))
<1>1. PICK opp : opp = Ledger!NextOpportunity(m, seen, suppressed)
  OBVIOUS
<1>2. m.opportunities \in [Symbol -> Ledger!OppState]
  BY StoreFacts
<1>3. \A s \in Symbol :
        /\ opp[s] \in Ledger!OppState
        /\ opp[s] = "EXECUTED" => Ledger!Holds(m, s) \/ m.opportunities[s] = "EXECUTED"
        /\ opp[s] = "READY" /\ Ledger!Holds(m, s) => m.opportunities[s] = "READY"
        /\ m.opportunities[s] = "READY" /\ ~ Ledger!Holds(m, s) => opp[s] \in {"READY", "NEAR", "INVALIDATED"}
  <2> TAKE s \in Symbol
  <2>1. PICK prev \in Ledger!OppState : prev = m.opportunities[s]
    BY <1>2
  <2>2. PICK near \in BOOLEAN : near = (seen[s] = "near")
    BY Zenon
  <2>3. PICK ready \in BOOLEAN : ready = (seen[s] = "trigger" /\ ~suppressed)
    BY Zenon
  <2>4. CASE seen[s] = "skip"
    <3>1. opp[s] = prev
      BY <1>1, <2>1, <2>4 DEF Ledger!NextOpportunity
    <3>2. QED
      BY <2>1, <3>1
  <2>5. CASE seen[s] # "skip" /\ Ledger!Holds(m, s)
    <3>1. opp[s] = "EXECUTED"
      BY <1>1, <2>5 DEF Ledger!NextOpportunity
    <3>2. QED
      BY <2>5, <3>1 DEF Ledger!OppState
  <2>6. CASE seen[s] # "skip" /\ ~ Ledger!Holds(m, s)
    <3>1. opp[s] = Ledger!Classify(prev, near, ready)
      BY <1>1, <2>1, <2>2, <2>3, <2>6 DEF Ledger!NextOpportunity
    <3>2. CASE ready
      <4>1. opp[s] = "READY"
        BY <3>1, <3>2 DEF Ledger!Classify
      <4>2. QED
        BY <2>6, <4>1 DEF Ledger!OppState
    <3>3. CASE ~ready /\ near
      <4>1. opp[s] = "NEAR"
        BY <3>1, <3>3 DEF Ledger!Classify
      <4>2. QED
        BY <2>6, <4>1 DEF Ledger!OppState
    <3>4. CASE ~ready /\ ~near /\ prev \in {"NEAR", "READY"}
      <4>1. opp[s] = "INVALIDATED"
        BY <3>1, <3>4 DEF Ledger!Classify
      <4>2. QED
        BY <2>6, <4>1 DEF Ledger!OppState
    <3>5. CASE ~ready /\ ~near /\ prev \notin {"NEAR", "READY"}
      <4>1. opp[s] = IF prev = "none" THEN "WATCH" ELSE prev
        BY <3>1, <3>5 DEF Ledger!Classify
      <4>2. QED
        BY <2>1, <2>6, <3>5, <4>1 DEF Ledger!OppState
    <3>6. QED
      BY <3>2, <3>3, <3>4, <3>5
  <2>7. QED
    BY <2>4, <2>5, <2>6
<1>4. opp \in [Symbol -> Ledger!OppState]
  <2>1. opp = [s \in Symbol |-> opp[s]]
    BY <1>1 DEF Ledger!NextOpportunity
  <2>2. QED
    BY <1>3, <2>1
<1>5. QED
  BY <1>1, <1>3, <1>4 DEF FollowsOn

\* A cycle that worked, or raised after the first n of its events.
Cycled(m, opp, open, ev) ==
  /\ opp \in [Symbol -> Ledger!OppState] /\ open \in [DOMAIN m.positions.open -> Ledger!Position]
  /\ FollowsOn(m, opp) /\ SamePositions(m.positions.open, open)
  /\ ev \in Seq(Notice) /\ Tells(ev, m.opportunities, opp, m.positions.open, open)

LEMMA RunCycleIs ==
  ASSUME Ledger!LedgerAssumption, LedgerTypes, Ledger!RunCycle
  PROVE  /\ station[Ledger!Session] = "locked"
         /\ \E opp, open, ev :
              /\ Cycled(mem[Ledger!Session], opp, open, ev)
              /\ \/ /\ alerts' = alerts \o ev
                    /\ \E m : /\ IsStore(m, {}) /\ Becomes(mem', mem, Ledger!Session, m) /\ m.opportunities = opp
                              /\ m.positions.open = open /\ m.positions.closed = mem[Ledger!Session].positions.closed
                              /\ m.positions.next = mem[Ledger!Session].positions.next
                    /\ Becomes(station', station, Ledger!Session, "saving")
                    /\ UNCHANGED <<holder, written, fact, deaths>>
                 \/ /\ deaths' = deaths + 1 /\ Ledger!Leave(Ledger!Session)
                    /\ \E n \in 0 .. Len(ev) : alerts' = alerts \o SubSeq(ev, 1, n)
         /\ UNCHANGED <<ledger, summary, acks, cycles, date, done, wrecked>>
         /\ LedgerTypes'
<1> DEFINE p == Ledger!Session
           m == mem[Ledger!Session]
           Made(opp, open, was) == [was EXCEPT !.opportunities = opp, !.positions.open = open,
                !.forward = @ \cup {[kind |-> "READY", symbol |-> s, ref |-> 0] : s \in {s \in Symbol : opp[s] = "READY" /\ was.opportunities[s] # "READY"}}]
<1>1. p \in Ledger!Process
  BY LedgerNumbers
<1>2. IsStore(m, {})
  BY <1>1 DEF LedgerTypes
<1>3. station[p] = "locked" /\ UNCHANGED <<ledger, summary, acks, cycles, date, done, wrecked>>
  BY DEF Ledger!RunCycle
<1>4. PICK seen \in [Symbol -> {"skip", "far", "near", "trigger"}], exit \in [Symbol -> {"skip", "hold", "exit"}], suppressed \in BOOLEAN :
        LET opp == Ledger!NextOpportunity(m, seen, suppressed)
            open == Ledger!NextOpen(m, exit)
            ev == Ledger!Events(m, opp, open, suppressed)
        IN  \/ /\ mem' = [mem EXCEPT ![p] = Made(opp, open, m)] /\ alerts' = Ledger!Alerted(ev)
               /\ station' = [station EXCEPT ![p] = "saving"] /\ UNCHANGED <<holder, written, fact, deaths>>
            \/ /\ deaths < MaxFaults /\ deaths' = deaths + 1
               /\ \E n \in 0 .. Len(ev) : alerts' = Ledger!Alerted(SubSeq(ev, 1, n))
               /\ Ledger!Leave(p)
  BY Zenon DEF Ledger!RunCycle
<1>5. PICK opp, open : opp = Ledger!NextOpportunity(m, seen, suppressed) /\ open = Ledger!NextOpen(m, exit)
  OBVIOUS
<1>6. PICK ev : ev = Ledger!Events(m, opp, open, suppressed)
  OBVIOUS
<1>7. opp \in [Symbol -> Ledger!OppState] /\ FollowsOn(m, opp)
  BY <1>2, <1>5, NextOpportunityIs
<1>8. open \in [DOMAIN m.positions.open -> Ledger!Position] /\ SamePositions(m.positions.open, open)
  BY <1>2, <1>5, NextOpenIs
<1>9. ev \in Seq(Notice) /\ Tells(ev, m.opportunities, opp, m.positions.open, open)
  BY <1>2, <1>6, <1>7, <1>8, EventsAre
<1>10. Cycled(m, opp, open, ev)
  BY <1>7, <1>8, <1>9, Zenon DEF Cycled
<1>11. CASE /\ mem' = [mem EXCEPT ![p] = Made(opp, open, m)] /\ alerts' = Ledger!Alerted(ev)
            /\ station' = [station EXCEPT ![p] = "saving"] /\ UNCHANGED <<holder, written, fact, deaths>>
  <2>1. PICK more : more = {[kind |-> "READY", symbol |-> s, ref |-> 0] : s \in {s \in Symbol : opp[s] = "READY" /\ m.opportunities[s] # "READY"}}
    BY Zenon
  <2>2. PICK n : n = Made(opp, open, m)
    BY Zenon
  <2>3. n = [m EXCEPT !.opportunities = opp, !.positions.open = open, !.forward = @ \cup more]
    BY <2>1, <2>2, Zenon
  <2>4. /\ DOMAIN n = Files /\ n.opportunities = opp /\ n.forward = m.forward \cup more
        /\ n.positions = [m.positions EXCEPT !.open = open]
    <3>1. PICK was : was = m
      OBVIOUS
    <3>2. IsStore(was, {}) /\ n = [was EXCEPT !.opportunities = opp, !.positions.open = open, !.forward = @ \cup more]
      BY <1>2, <2>3, <3>1, Zenon
    <3>3. /\ DOMAIN n = Files /\ n.opportunities = opp /\ n.forward = was.forward \cup more
          /\ n.positions = [was.positions EXCEPT !.open = open]
      BY <3>2, StoreFacts
    <3>4. QED
      BY <3>1, <3>3, Zenon
  <2>5. open \in Seq(Ledger!Position)
    <3>1. PICK was : was = m.positions.open
      OBVIOUS
    <3>2. was \in Seq(Ledger!Position) /\ open \in [DOMAIN was -> Ledger!Position]
      BY <1>2, <1>8, <3>1, StoreFacts, Zenon
    <3>3. Len(was) \in Nat /\ open \in [1 .. Len(was) -> Ledger!Position]
      BY <3>2
    <3>4. QED
      BY <3>3
  <2>6. m.positions \in Ledger!PositionsFile /\ DOMAIN m.positions = {"open", "closed", "next"}
    BY <1>2, StoreFacts
  <2>7. n.positions \in Ledger!PositionsFile
    BY <2>4, <2>5, <2>6, Zenon DEF Ledger!PositionsFile
  <2>8. n.positions.open = open /\ n.positions.closed = m.positions.closed /\ n.positions.next = m.positions.next
    BY <2>4, <2>6
  <2>9. more \subseteq Ledger!Observation
    <3>1. 0 \in 0 .. Ledger!MaxId
      BY LedgerNumbers
    <3>2. QED
      BY <2>1, <3>1 DEF Ledger!Observation
  <2>10. n.forward \in SUBSET Ledger!Observation
    <3>1. m.forward \in SUBSET Ledger!Observation
      BY <1>2, StoreFacts
    <3>2. QED
      BY <2>4, <2>9, <3>1
  <2>11. IsStore(n, {})
    BY <1>7, <2>4, <2>7, <2>10, StoreIs
  <2>12. alerts' = alerts \o ev
    BY <1>11 DEF Ledger!Alerted
  <2>13. Becomes(station', station, p, "saving") /\ Becomes(mem', mem, p, n) /\ LedgerTypes'
    BY <1>1, <1>3, <1>9, <1>11, <2>2, <2>11, <2>12, CommitIs, Zenon
  <2>14. UNCHANGED <<holder, written, fact, deaths>>
    BY <1>11
  <2>15. \E k : /\ IsStore(k, {}) /\ Becomes(mem', mem, p, k) /\ k.opportunities = opp
                /\ k.positions.open = open /\ k.positions.closed = m.positions.closed /\ k.positions.next = m.positions.next
    BY <2>4, <2>8, <2>11, <2>13, Zenon
  <2>16. QED
    BY <1>3, <1>10, <2>12, <2>13, <2>14, <2>15, Zenon
<1>12. CASE /\ deaths < MaxFaults /\ deaths' = deaths + 1
            /\ \E n \in 0 .. Len(ev) : alerts' = Ledger!Alerted(SubSeq(ev, 1, n))
            /\ Ledger!Leave(p)
  <2>1. PICK n \in 0 .. Len(ev) : alerts' = alerts \o SubSeq(ev, 1, n)
    BY <1>12 DEF Ledger!Alerted
  <2>2. alerts' \in Seq(Notice)
    <3>1. SubSeq(ev, 1, n) \in Seq(Notice)
      BY <1>9
    <3>2. alerts \in Seq(Notice)
      BY DEF LedgerTypes
    <3>3. QED
      BY <2>1, <3>1, <3>2, ConcatProperties
  <2>3. deaths' \in 0 .. MaxFaults /\ done' \subseteq Ledger!Fact
    BY <1>3, <1>12, LedgerNumbers DEF LedgerTypes
  <2>4. LedgerTypes'
    BY <1>1, <1>3, <1>12, <2>2, <2>3, LeaveTypes
  <2>5. QED
    BY <1>3, <1>10, <1>12, <2>1, <2>4, Zenon
<1>13. QED
  BY <1>4, <1>5, <1>6, <1>11, <1>12, Zenon

\* Who holds the lock: one process at a time, with what the files say.
OutsideSame(p) ==
  /\ \A q \in Ledger!Process : q # p => mem'[q] = mem[q]
  /\ \A d \in Client : d # p => fact'[d] = fact[d]

LEMMA HolderFacts ==
  ASSUME Ledger!LedgerAssumption, LedgerTypes, HolderOK, NEW p \in Ledger!Process
  PROVE  /\ station[p] \in Stations /\ p # Ledger!Free /\ (station[p] \in InTransaction => holder = p)
         /\ \A q \in Ledger!Process : q # p /\ holder = p => station[q] \notin InTransaction
         /\ \A q \in Ledger!Process : holder = Ledger!Free => station[q] \notin InTransaction
<1>1. station[p] \in Stations /\ p # Ledger!Free
  BY LedgerNumbers, Zenon DEF LedgerTypes, Stations
<1>2. \A q \in Ledger!Process : q # Ledger!Free /\ (station[q] \in InTransaction <=> holder = q)
  BY LedgerNumbers DEF HolderOK
<1>3. QED
  BY <1>1, <1>2

LEMMA OutsideHolder ==
  ASSUME Ledger!LedgerAssumption, LedgerTypes, HolderOK, NEW c \in Client, station[c] \in {"idle", "waiting", "dead"},
         NEW at \in {"idle", "waiting", "dead"}, Becomes(station', station, c, at), at # "idle" => fact'[c] \in Ledger!Fact,
         OutsideSame(c), \A q \in Ledger!Process : written'[q] = written[q], wrecked \subseteq wrecked',
         deaths' = 0 => deaths = 0 /\ wrecked' = wrecked /\ at # "dead", UNCHANGED <<holder, ledger>>
  PROVE  HolderOK'
<1>0. c \in Ledger!Process /\ c # Ledger!Session /\ Ledger!Session \in Ledger!Process /\ Client \subseteq Ledger!Process
  BY LedgerNumbers
<1>1. /\ station[c] \notin InTransaction /\ station'[c] = at /\ at \notin InTransaction /\ at \notin Saving /\ station[c] \notin Saving
      /\ \A q \in Ledger!Process : q # c => station'[q] = station[q]
  BY <1>0 DEF Becomes, InTransaction, Saving
<1>2. (\A p \in Ledger!Process : station[p] \in InTransaction <=> holder = p)'
  BY <1>0, <1>1 DEF HolderOK, InTransaction
<1>3. (station[Ledger!Session] \notin {"waiting", "dead"})'
  BY <1>0, <1>1 DEF HolderOK
<1>4. (\A d \in Client : station[d] \notin {"summary", "settling"} /\ (station[d] # "idle" => fact[d] \in Ledger!Fact))'
  <2> SUFFICES ASSUME NEW d \in Client
               PROVE station'[d] \notin {"summary", "settling"} /\ (station'[d] # "idle" => fact'[d] \in Ledger!Fact)
    BY DEF Ledger!Fact
  <2>1. CASE d = c
    BY <1>1, <2>1
  <2>2. CASE d # c
    BY <1>0, <1>1, <2>2 DEF HolderOK, OutsideSame
  <2>3. QED
    BY <2>1, <2>2
<1>5. (\A p \in Ledger!Process : station[p] \notin Saving => written[p] = 0)'
  BY <1>0, <1>1 DEF HolderOK, Saving
<1>6. (\A p \in Ledger!Process : station[p] \in {"locked", "summary"} =>
         \A f \in Files : mem[p][f] = IF ledger[f] = Torn THEN Ledger!Default[f] ELSE ledger[f])'
  <2> SUFFICES ASSUME NEW p \in Ledger!Process, station'[p] \in {"locked", "summary"}, NEW f \in Files
               PROVE mem'[p][f] = IF ledger'[f] = Torn THEN Ledger!Default[f] ELSE ledger'[f]
    BY Zenon DEF Files, Ledger!Default
  <2>1. p # c /\ station[p] \in {"locked", "summary"}
    BY <1>1
  <2>2. mem[p][f] = IF ledger[f] = Torn THEN Ledger!Default[f] ELSE ledger[f]
    BY <2>1 DEF HolderOK
  <2>3. QED
    BY <2>1, <2>2 DEF OutsideSame
<1>7. (\A p \in Ledger!Process : station[p] \in Saving => \A i \in 1 .. 3 :
       /\ written[p] >= 2 * i => ledger[FileAt(i)] = mem[p][FileAt(i)]
       /\ written[p] = 2 * i - 1 => ledger[FileAt(i)] = Torn
       /\ station[p] = "settling" => ledger[FileAt(i)] \in {mem[p][FileAt(i)], Torn})'
  <2> SUFFICES ASSUME NEW p \in Ledger!Process, station'[p] \in Saving, NEW i \in 1 .. 3
               PROVE /\ written'[p] >= 2 * i => ledger'[FileAt(i)] = mem'[p][FileAt(i)]
                     /\ written'[p] = 2 * i - 1 => ledger'[FileAt(i)] = Torn
                     /\ station'[p] = "settling" => ledger'[FileAt(i)] \in {mem'[p][FileAt(i)], Torn}
    BY DEF FileAt, Saving
  <2>1. p # c /\ station[p] \in Saving /\ station'[p] = station[p] /\ mem'[p] = mem[p]
    BY <1>1 DEF OutsideSame
  <2>2. QED
    BY <2>1 DEF HolderOK
<1>8. (\A i \in 1 .. 2 : ledger[FileAt(i)] = Torn =>
       FileAt(i) \in wrecked \/ \E p \in Ledger!Process : station[p] \in Saving /\ written[p] = 2 * i - 1)'
  <2> SUFFICES ASSUME NEW i \in 1 .. 2, ledger[FileAt(i)] = Torn, FileAt(i) \notin wrecked'
               PROVE \E p \in Ledger!Process : station'[p] \in Saving /\ written'[p] = 2 * i - 1
    BY DEF FileAt
  <2>1. PICK p \in Ledger!Process : station[p] \in Saving /\ written[p] = 2 * i - 1
    BY DEF HolderOK
  <2>2. p # c
    BY <1>1, <2>1
  <2>3. QED
    BY <1>1, <2>1, <2>2
<1>9. (deaths = 0 => wrecked = {} /\ \A d \in Client : station[d] # "dead")'
  BY <1>0, <1>1 DEF HolderOK
<1>10. QED
  BY <1>2, <1>3, <1>4, <1>5, <1>6, <1>7, <1>8, <1>9 DEF HolderOK

\* The steps of the process that has the lock, takes it or frees it.
LEMMA InsideHolder ==
  ASSUME Ledger!LedgerAssumption, LedgerTypes, HolderOK, NEW p \in Ledger!Process,
         \A q \in Ledger!Process : q # p => station[q] \notin InTransaction, holder \in {p, Ledger!Free},
         \A q \in Ledger!Process : q # p => station'[q] = station[q] /\ written'[q] = written[q],
         OutsideSame(p), station'[p] \in Stations,
         holder' = (IF station'[p] \in InTransaction THEN p ELSE Ledger!Free),
         p = Ledger!Session => station'[p] \notin {"waiting", "dead"},
         p # Ledger!Session => station'[p] \notin {"summary", "settling"} /\ (station'[p] # "idle" => fact'[p] \in Ledger!Fact),
         station'[p] \notin Saving => written'[p] = 0,
         station'[p] \in {"locked", "summary"} =>
           \A f \in Files : mem'[p][f] = IF ledger'[f] = Torn THEN Ledger!Default[f] ELSE ledger'[f],
         station'[p] \in Saving => \A i \in 1 .. 3 :
           /\ written'[p] >= 2 * i => ledger'[FileAt(i)] = mem'[p][FileAt(i)]
           /\ written'[p] = 2 * i - 1 => ledger'[FileAt(i)] = Torn
           /\ station'[p] = "settling" => ledger'[FileAt(i)] \in {mem'[p][FileAt(i)], Torn},
         \A i \in 1 .. 2 : ledger'[FileAt(i)] = Torn =>
           FileAt(i) \in wrecked' \/ (station'[p] \in Saving /\ written'[p] = 2 * i - 1),
         deaths' = 0 => deaths = 0 /\ wrecked' = wrecked /\ station'[p] # "dead"
  PROVE  HolderOK'
<1>0. Ledger!Session \in Ledger!Process /\ Client \subseteq Ledger!Process /\ Ledger!Session \notin Client
      /\ \A q \in Ledger!Process : q # Ledger!Free
  BY LedgerNumbers
<1>1. (\A q \in Ledger!Process : station[q] \in InTransaction <=> holder = q)'
  <2> SUFFICES ASSUME NEW q \in Ledger!Process PROVE station'[q] \in InTransaction <=> holder' = q
    BY DEF InTransaction
  <2>1. CASE q = p
    BY <1>0, <2>1
  <2>2. CASE q # p
    <3>1. station'[q] \notin InTransaction /\ holder' \in {p, Ledger!Free} /\ q # Ledger!Free
      BY <1>0, <2>2
    <3>2. QED
      BY <2>2, <3>1
  <2>3. QED
    BY <2>1, <2>2
<1>2. (station[Ledger!Session] \notin {"waiting", "dead"})'
  <2>1. CASE p = Ledger!Session
    BY <2>1
  <2>2. CASE p # Ledger!Session
    BY <1>0, <2>2 DEF HolderOK
  <2>3. QED
    BY <2>1, <2>2
<1>3. (\A d \in Client : station[d] \notin {"summary", "settling"} /\ (station[d] # "idle" => fact[d] \in Ledger!Fact))'
  <2> SUFFICES ASSUME NEW d \in Client
               PROVE station'[d] \notin {"summary", "settling"} /\ (station'[d] # "idle" => fact'[d] \in Ledger!Fact)
    BY DEF Ledger!Fact
  <2>1. CASE d = p
    BY <1>0, <2>1
  <2>2. CASE d # p
    BY <1>0, <2>2 DEF HolderOK, OutsideSame
  <2>3. QED
    BY <2>1, <2>2
<1>4. (\A q \in Ledger!Process : station[q] \notin Saving => written[q] = 0)'
  <2> SUFFICES ASSUME NEW q \in Ledger!Process, station'[q] \notin Saving PROVE written'[q] = 0
    BY DEF Saving
  <2>1. CASE q # p
    BY <2>1 DEF HolderOK
  <2>2. QED
    BY <2>1
<1>5. (\A q \in Ledger!Process : station[q] \in {"locked", "summary"} =>
         \A f \in Files : mem[q][f] = IF ledger[f] = Torn THEN Ledger!Default[f] ELSE ledger[f])'
  <2> SUFFICES ASSUME NEW q \in Ledger!Process, station'[q] \in {"locked", "summary"}, NEW f \in Files
               PROVE mem'[q][f] = IF ledger'[f] = Torn THEN Ledger!Default[f] ELSE ledger'[f]
    BY Zenon DEF Files, Ledger!Default
  <2>1. q = p
    BY DEF InTransaction
  <2>2. QED
    BY <2>1
<1>6. (\A q \in Ledger!Process : station[q] \in Saving => \A i \in 1 .. 3 :
       /\ written[q] >= 2 * i => ledger[FileAt(i)] = mem[q][FileAt(i)]
       /\ written[q] = 2 * i - 1 => ledger[FileAt(i)] = Torn
       /\ station[q] = "settling" => ledger[FileAt(i)] \in {mem[q][FileAt(i)], Torn})'
  <2> SUFFICES ASSUME NEW q \in Ledger!Process, station'[q] \in Saving, NEW i \in 1 .. 3
               PROVE /\ written'[q] >= 2 * i => ledger'[FileAt(i)] = mem'[q][FileAt(i)]
                     /\ written'[q] = 2 * i - 1 => ledger'[FileAt(i)] = Torn
                     /\ station'[q] = "settling" => ledger'[FileAt(i)] \in {mem'[q][FileAt(i)], Torn}
    BY DEF FileAt, Saving
  <2>1. q = p
    BY DEF InTransaction, Saving
  <2>2. QED
    BY <2>1
<1>7. (\A i \in 1 .. 2 : ledger[FileAt(i)] = Torn =>
       FileAt(i) \in wrecked \/ \E q \in Ledger!Process : station[q] \in Saving /\ written[q] = 2 * i - 1)'
  <2> SUFFICES ASSUME NEW i \in 1 .. 2, ledger'[FileAt(i)] = Torn, FileAt(i) \notin wrecked'
               PROVE \E q \in Ledger!Process : station'[q] \in Saving /\ written'[q] = 2 * i - 1
    BY DEF FileAt, Saving
  <2>1. station'[p] \in Saving /\ written'[p] = 2 * i - 1
    OBVIOUS
  <2>2. QED
    BY <2>1
<1>8. (deaths = 0 => wrecked = {} /\ \A d \in Client : station[d] # "dead")'
  BY <1>0 DEF HolderOK
<1>9. QED
  BY <1>1, <1>2, <1>3, <1>4, <1>5, <1>6, <1>7, <1>8 DEF HolderOK

LEMMA StartAckHolder ==
  ASSUME Ledger!LedgerAssumption, LedgerTypes, HolderOK, NEW c \in Client, Ledger!StartAck(c)
  PROVE  HolderOK'
<1>1. c \in Ledger!Process
  BY LedgerNumbers
<1>2. /\ station[c] = "idle" /\ Becomes(station', station, c, "waiting") /\ fact'[c] \in Ledger!Fact /\ OutsideSame(c)
      /\ UNCHANGED <<holder, written, ledger, wrecked, deaths>>
  BY <1>1, StartAckIs DEF OutsideSame, Becomes
<1>3. /\ station[c] \in {"idle", "waiting", "dead"} /\ "waiting" \in {"idle", "waiting", "dead"} /\ "waiting" # "dead"
      /\ \A q \in Ledger!Process : written'[q] = written[q]
  BY <1>2
<1>4. QED
  BY <1>2, <1>3, OutsideHolder

LEMMA RetryAckHolder ==
  ASSUME Ledger!LedgerAssumption, LedgerTypes, HolderOK, NEW c \in Client, Ledger!RetryAck(c)
  PROVE  HolderOK'
<1>1. c \in Ledger!Process
  BY LedgerNumbers
<1>2. PICK at \in {"idle", "waiting"} :
        /\ Becomes(station', station, c, at) /\ (at = "waiting" => UNCHANGED fact) /\ OutsideSame(c)
  BY <1>1, RetryAckIs DEF OutsideSame, Becomes
<1>3. station[c] = "dead" /\ UNCHANGED <<holder, written, ledger, wrecked, deaths>>
  BY RetryAckIs
<1>4. fact[c] \in Ledger!Fact
  BY <1>3 DEF HolderOK
<1>5. /\ at # "idle" => fact'[c] \in Ledger!Fact
      /\ station[c] \in {"idle", "waiting", "dead"} /\ at \in {"idle", "waiting", "dead"} /\ at # "dead"
      /\ \A q \in Ledger!Process : written'[q] = written[q]
  BY <1>2, <1>3, <1>4
<1>6. QED
  BY <1>2, <1>3, <1>5, OutsideHolder

LEMMA EnterHolder ==
  ASSUME Ledger!LedgerAssumption, LedgerTypes, HolderOK, NEW p \in Ledger!Process, holder = Ledger!Free, holder' = p,
         station[p] \in {"idle", "waiting"}, p # Ledger!Session => station[p] = "waiting",
         Becomes(station', station, p, "locked"), Becomes(mem', mem, p, Ledger!Stored),
         UNCHANGED <<fact, written, ledger, wrecked, deaths>>
  PROVE  HolderOK'
<1>1. \A q \in Ledger!Process : station[q] \notin InTransaction
  BY HolderFacts
<1>2. station'[p] = "locked" /\ OutsideSame(p) /\ \A q \in Ledger!Process : q # p => station'[q] = station[q] /\ written'[q] = written[q]
  BY DEF OutsideSame, Becomes
<1>3. p # Ledger!Session => fact'[p] \in Ledger!Fact
  <2>1. p # Ledger!Session => p \in Client
    BY LedgerNumbers
  <2>2. QED
    BY <2>1 DEF HolderOK
<1>4. written'[p] = 0
  BY DEF HolderOK, Saving
<1>5. \A f \in Files : mem'[p][f] = IF ledger'[f] = Torn THEN Ledger!Default[f] ELSE ledger'[f]
  BY StoredIs DEF Becomes
<1>6. \A i \in 1 .. 2 : ledger'[FileAt(i)] = Torn => FileAt(i) \in wrecked'
  BY <1>1 DEF HolderOK, Saving, InTransaction
<1>7. deaths' = 0 => deaths = 0 /\ wrecked' = wrecked
  OBVIOUS
<1>8. /\ station'[p] \in Stations /\ station'[p] \in InTransaction /\ station'[p] \notin Saving
      /\ station'[p] \notin {"waiting", "dead", "summary", "settling"}
  BY <1>2 DEF Stations, InTransaction, Saving
<1>9. QED
  BY <1>1, <1>2, <1>3, <1>4, <1>5, <1>6, <1>7, <1>8, InsideHolder

LEMMA CommitHolder ==
  ASSUME Ledger!LedgerAssumption, LedgerTypes, HolderOK, NEW p \in Ledger!Process, station[p] = "locked",
         Becomes(station', station, p, "saving"), NEW m, Becomes(mem', mem, p, m),
         UNCHANGED <<holder, fact, written, ledger, wrecked, deaths>>
  PROVE  HolderOK'
<1>1. holder = p /\ \A q \in Ledger!Process : q # p => station[q] \notin InTransaction
  BY HolderFacts DEF InTransaction
<1>2. station'[p] = "saving" /\ OutsideSame(p) /\ \A q \in Ledger!Process : q # p => station'[q] = station[q] /\ written'[q] = written[q]
  BY DEF OutsideSame, Becomes
<1>3. p # Ledger!Session => fact'[p] \in Ledger!Fact
  <2>1. p # Ledger!Session => p \in Client
    BY LedgerNumbers
  <2>2. QED
    BY <2>1 DEF HolderOK
<1>4. written'[p] = 0
  BY DEF HolderOK, Saving
<1>5. \A i \in 1 .. 3 : ~ (0 >= 2 * i) /\ 0 # 2 * i - 1
  OBVIOUS
<1>6. \A i \in 1 .. 2 : ledger'[FileAt(i)] = Torn => FileAt(i) \in wrecked'
  <2> SUFFICES ASSUME NEW i \in 1 .. 2, ledger[FileAt(i)] = Torn, FileAt(i) \notin wrecked PROVE FALSE
    OBVIOUS
  <2>1. PICK q \in Ledger!Process : station[q] \in Saving /\ written[q] = 2 * i - 1
    BY DEF HolderOK
  <2>2. q # p
    BY <2>1 DEF Saving
  <2>3. QED
    BY <1>1, <2>1, <2>2 DEF Saving, InTransaction
<1>7. deaths' = 0 => deaths = 0 /\ wrecked' = wrecked
  OBVIOUS
<1>8. /\ station'[p] \in Stations /\ station'[p] \in InTransaction /\ station'[p] \in Saving
      /\ station'[p] \notin {"waiting", "dead", "summary", "settling", "locked"}
  BY <1>2 DEF Stations, InTransaction, Saving
<1>9. station'[p] \in Saving => \A i \in 1 .. 3 :
           /\ written'[p] >= 2 * i => ledger'[FileAt(i)] = mem'[p][FileAt(i)]
           /\ written'[p] = 2 * i - 1 => ledger'[FileAt(i)] = Torn
           /\ station'[p] = "settling" => ledger'[FileAt(i)] \in {mem'[p][FileAt(i)], Torn}
  BY <1>2, <1>4, <1>5
<1>10. holder' = (IF station'[p] \in InTransaction THEN p ELSE Ledger!Free) /\ holder \in {p, Ledger!Free}
  BY <1>1, <1>8
<1>11. QED
  BY <1>1, <1>2, <1>3, <1>6, <1>7, <1>8, <1>9, <1>10, InsideHolder

LEMMA QuietHolder ==
  ASSUME Ledger!LedgerAssumption, LedgerTypes, HolderOK, Ledger!QuietCycle
  PROVE  HolderOK'
<1> DEFINE p == Ledger!Session
<1>1. p \in Ledger!Process
  BY LedgerNumbers
<1>2. station[p] = "locked" /\ Becomes(station', station, p, "summary") /\ UNCHANGED <<holder, mem, fact, written, ledger, wrecked, deaths>>
  BY QuietCycleIs
<1>3. holder = p /\ \A q \in Ledger!Process : q # p => station[q] \notin InTransaction
  BY <1>1, <1>2, HolderFacts DEF InTransaction
<1>4. station'[p] = "summary" /\ OutsideSame(p) /\ \A q \in Ledger!Process : q # p => station'[q] = station[q] /\ written'[q] = written[q]
  BY <1>2 DEF OutsideSame, Becomes
<1>5. written'[p] = 0
  BY <1>1, <1>2 DEF HolderOK, Saving
<1>6. \A f \in Files : mem'[p][f] = IF ledger'[f] = Torn THEN Ledger!Default[f] ELSE ledger'[f]
  BY <1>1, <1>2 DEF HolderOK
<1>7. \A i \in 1 .. 2 : ledger'[FileAt(i)] = Torn => FileAt(i) \in wrecked'
  <2> SUFFICES ASSUME NEW i \in 1 .. 2, ledger[FileAt(i)] = Torn, FileAt(i) \notin wrecked PROVE FALSE
    BY <1>2
  <2>1. PICK q \in Ledger!Process : station[q] \in Saving /\ written[q] = 2 * i - 1
    BY DEF HolderOK
  <2>2. q # p
    BY <1>2, <2>1 DEF Saving
  <2>3. QED
    BY <1>3, <2>1, <2>2 DEF Saving, InTransaction
<1>8. deaths' = 0 => deaths = 0 /\ wrecked' = wrecked
  BY <1>2
<1>9. /\ station'[p] \in Stations /\ station'[p] \in InTransaction /\ station'[p] \notin Saving
      /\ station'[p] \notin {"waiting", "dead"}
  BY <1>4 DEF Stations, InTransaction, Saving
<1>10. holder' = (IF station'[p] \in InTransaction THEN p ELSE Ledger!Free) /\ holder \in {p, Ledger!Free}
  BY <1>2, <1>3, <1>9
<1>11. QED
  BY <1>1, <1>3, <1>4, <1>5, <1>6, <1>7, <1>8, <1>9, <1>10, InsideHolder

LEMMA LeaveHolder ==
  ASSUME Ledger!LedgerAssumption, LedgerTypes, HolderOK, NEW p \in Ledger!Process, Ledger!Leave(p),
         station[p] = "locked" \/ (station[p] \in Saving /\ written[p] = 6),
         deaths' = 0 => deaths = 0, UNCHANGED <<ledger, wrecked>>
  PROVE  HolderOK'
<1>1. holder = p /\ \A q \in Ledger!Process : q # p => station[q] \notin InTransaction
  BY HolderFacts DEF InTransaction, Saving
<1>2. /\ holder' = Ledger!Free /\ station'[p] = "idle" /\ written'[p] = 0 /\ OutsideSame(p)
      /\ \A q \in Ledger!Process : q # p => station'[q] = station[q] /\ written'[q] = written[q]
  BY LeaveIs DEF OutsideSame, Becomes
<1>3. \A i \in 1 .. 2 : ledger'[FileAt(i)] = Torn => FileAt(i) \in wrecked'
  <2> SUFFICES ASSUME NEW i \in 1 .. 2, ledger[FileAt(i)] = Torn, FileAt(i) \notin wrecked PROVE FALSE
    OBVIOUS
  <2>1. PICK q \in Ledger!Process : station[q] \in Saving /\ written[q] = 2 * i - 1
    BY DEF HolderOK
  <2>2. 6 # 2 * i - 1
    OBVIOUS
  <2>3. q # p
    BY <2>1, <2>2 DEF Saving
  <2>4. QED
    BY <1>1, <2>1, <2>3 DEF Saving, InTransaction
<1>4. /\ station'[p] \in Stations /\ station'[p] \notin InTransaction /\ station'[p] \notin Saving
      /\ station'[p] \notin {"waiting", "dead", "summary", "settling", "locked"}
  BY <1>2 DEF Stations, InTransaction, Saving
<1>5. holder' = (IF station'[p] \in InTransaction THEN p ELSE Ledger!Free) /\ holder \in {p, Ledger!Free}
  BY <1>1, <1>2, <1>4
<1>6. deaths' = 0 => deaths = 0 /\ wrecked' = wrecked
  OBVIOUS
<1>7. QED
  BY <1>1, <1>2, <1>3, <1>4, <1>5, <1>6, InsideHolder

LEMMA SaveHolder ==
  ASSUME Ledger!LedgerAssumption, LedgerTypes, HolderOK, NEW p \in Ledger!Process, Ledger!SaveStep(p)
  PROVE  HolderOK'
<1>1. /\ station[p] \in Saving /\ written[p] < 6 /\ Becomes(written', written, p, written[p] + 1)
      /\ UNCHANGED <<holder, station, mem, fact, deaths, wrecked>>
  BY SaveStepIs
<1>2. PICK i \in 1 .. 3 :
        /\ written[p] \in {2 * i - 2, 2 * i - 1}
        /\ \A j \in 1 .. 3 : ledger'[FileAt(j)] = IF j # i THEN ledger[FileAt(j)]
                                                  ELSE IF written[p] = 2 * i - 2 THEN Torn ELSE mem[p][FileAt(j)]
  BY SaveStepIs
<1>3. PICK w \in 0 .. 5 : w = written[p]
  BY <1>1 DEF LedgerTypes
<1>4. holder = p /\ \A q \in Ledger!Process : q # p => station[q] \notin InTransaction
  BY <1>1, HolderFacts DEF InTransaction, Saving
<1>5. written'[p] = w + 1 /\ OutsideSame(p) /\ \A q \in Ledger!Process : q # p => station'[q] = station[q] /\ written'[q] = written[q]
  BY <1>1, <1>3 DEF OutsideSame, Becomes
<1>6. \A j \in 1 .. 3 :
           /\ w + 1 >= 2 * j => ledger'[FileAt(j)] = mem[p][FileAt(j)]
           /\ w + 1 = 2 * j - 1 => ledger'[FileAt(j)] = Torn
           /\ station[p] = "settling" => ledger'[FileAt(j)] \in {mem[p][FileAt(j)], Torn}
  <2> TAKE j \in 1 .. 3
  <2>1. /\ w >= 2 * j => ledger[FileAt(j)] = mem[p][FileAt(j)]
        /\ station[p] = "settling" => ledger[FileAt(j)] \in {mem[p][FileAt(j)], Torn}
    BY <1>1, <1>3 DEF HolderOK
  <2>2. CASE j = i /\ w = 2 * i - 2
    <3>1. ledger'[FileAt(j)] = Torn /\ ~ (w + 1 >= 2 * j)
      BY <1>2, <1>3, <2>2
    <3>2. QED
      BY <3>1
  <2>3. CASE j = i /\ w = 2 * i - 1
    <3>1. ledger'[FileAt(j)] = mem[p][FileAt(j)] /\ w + 1 # 2 * j - 1
      BY <1>2, <1>3, <2>3
    <3>2. QED
      BY <3>1
  <2>4. CASE j # i
    <3>1. ledger'[FileAt(j)] = ledger[FileAt(j)]
      BY <1>2, <2>4
    <3>2. w + 1 # 2 * j - 1 /\ (w + 1 >= 2 * j => w >= 2 * j)
      BY <1>2, <1>3, <2>4
    <3>3. QED
      BY <2>1, <3>1, <3>2
  <2>5. QED
    BY <1>2, <1>3, <2>2, <2>3, <2>4
<1>7. \A j \in 1 .. 2 : ledger'[FileAt(j)] = Torn => FileAt(j) \in wrecked' \/ w + 1 = 2 * j - 1
  <2> SUFFICES ASSUME NEW j \in 1 .. 2, ledger'[FileAt(j)] = Torn, FileAt(j) \notin wrecked PROVE w + 1 = 2 * j - 1
    BY <1>1
  <2>1. mem[p].opportunities # Torn /\ mem[p].positions # Torn
    <3>1. IsStore(mem[p], {})
      BY DEF LedgerTypes
    <3>2. Torn \notin [Symbol -> Ledger!OppState] /\ Torn \notin Ledger!PositionsFile
      BY Zenon DEF Ledger!LedgerAssumption
    <3>3. QED
      BY <3>1, <3>2, StoreFacts
  <2>2. mem[p][FileAt(j)] # Torn
    <3>1. j = 1 \/ j = 2
      OBVIOUS
    <3>2. QED
      BY <2>1, <3>1, FilesAre
  <2>3. CASE j = i /\ w = 2 * i - 2
    BY <2>3
  <2>4. CASE j = i /\ w = 2 * i - 1
    <3>1. ledger'[FileAt(j)] = mem[p][FileAt(j)]
      BY <1>2, <1>3, <2>4
    <3>2. QED
      BY <2>2, <3>1
  <2>5. CASE j # i
    <3>1. ledger[FileAt(j)] = Torn
      BY <1>2, <2>5
    <3>2. PICK q \in Ledger!Process : station[q] \in Saving /\ written[q] = 2 * j - 1
      BY <3>1 DEF HolderOK
    <3>3. q = p
      BY <1>4, <3>2 DEF Saving, InTransaction
    <3>4. QED
      BY <1>2, <1>3, <2>5, <3>2, <3>3
  <2>6. QED
    BY <1>2, <1>3, <2>3, <2>4, <2>5
<1>8. p # Ledger!Session => fact'[p] \in Ledger!Fact /\ station'[p] \notin {"summary", "settling"}
  <2>1. p # Ledger!Session => p \in Client
    BY LedgerNumbers
  <2>2. QED
    BY <1>1, <2>1 DEF HolderOK, Saving
<1>9. /\ station'[p] \in Stations /\ station'[p] \in InTransaction /\ station'[p] \in Saving
      /\ station'[p] \notin {"waiting", "dead", "summary", "locked"}
  BY <1>1 DEF Stations, InTransaction, Saving
<1>10. holder' = (IF station'[p] \in InTransaction THEN p ELSE Ledger!Free) /\ holder \in {p, Ledger!Free}
  BY <1>1, <1>4, <1>9
<1>11. deaths' = 0 => deaths = 0 /\ wrecked' = wrecked
  BY <1>1
<1>12. \A j \in 1 .. 3 :
           /\ written'[p] >= 2 * j => ledger'[FileAt(j)] = mem'[p][FileAt(j)]
           /\ written'[p] = 2 * j - 1 => ledger'[FileAt(j)] = Torn
           /\ station'[p] = "settling" => ledger'[FileAt(j)] \in {mem'[p][FileAt(j)], Torn}
  BY <1>1, <1>5, <1>6
<1>13. \A j \in 1 .. 2 : ledger'[FileAt(j)] = Torn =>
           FileAt(j) \in wrecked' \/ (station'[p] \in Saving /\ written'[p] = 2 * j - 1)
  BY <1>5, <1>7, <1>9
<1>14. QED
  BY <1>4, <1>5, <1>8, <1>9, <1>10, <1>11, <1>12, <1>13, InsideHolder

LEMMA SummaryHolder ==
  ASSUME Ledger!LedgerAssumption, LedgerTypes, HolderOK, Ledger!WriteSummary
  PROVE  HolderOK'
<1> DEFINE p == Ledger!Session
<1>1. p \in Ledger!Process
  BY LedgerNumbers
<1>2. /\ station[p] = "summary" \/ (station[p] = "saving" /\ written[p] = 6)
      /\ Becomes(station', station, p, "settling") /\ Becomes(written', written, p, 0)
      /\ UNCHANGED <<ledger, holder, mem, fact, deaths, wrecked>>
  BY WriteSummaryIs
<1>3. holder = p /\ \A q \in Ledger!Process : q # p => station[q] \notin InTransaction
  BY <1>1, <1>2, HolderFacts DEF InTransaction
<1>4. /\ station'[p] = "settling" /\ written'[p] = 0 /\ OutsideSame(p)
      /\ \A q \in Ledger!Process : q # p => station'[q] = station[q] /\ written'[q] = written[q]
  BY <1>2 DEF OutsideSame, Becomes
<1>5. \A i \in 1 .. 3 : FileAt(i) \in Files
  <2>1. \A i \in 1 .. 3 : i = 1 \/ i = 2 \/ i = 3
    OBVIOUS
  <2>2. QED
    BY <2>1, FilesAre
<1>6. \A i \in 1 .. 3 : ledger[FileAt(i)] \in {mem[p][FileAt(i)], Torn}
  <2> TAKE i \in 1 .. 3
  <2>1. CASE station[p] = "summary"
    BY <1>1, <1>5, <2>1 DEF HolderOK
  <2>2. CASE station[p] = "saving" /\ written[p] = 6
    <3>1. 6 >= 2 * i
      OBVIOUS
    <3>2. QED
      BY <1>1, <2>2, <3>1 DEF HolderOK, Saving
  <2>3. QED
    BY <1>2, <2>1, <2>2
<1>7. \A i \in 1 .. 3 : ~ (0 >= 2 * i) /\ 0 # 2 * i - 1
  OBVIOUS
<1>8. \A i \in 1 .. 2 : ledger'[FileAt(i)] = Torn => FileAt(i) \in wrecked'
  <2> SUFFICES ASSUME NEW i \in 1 .. 2, ledger[FileAt(i)] = Torn, FileAt(i) \notin wrecked PROVE FALSE
    BY <1>2
  <2>1. PICK q \in Ledger!Process : station[q] \in Saving /\ written[q] = 2 * i - 1
    BY DEF HolderOK
  <2>2. 6 # 2 * i - 1
    OBVIOUS
  <2>3. q # p
    BY <1>2, <2>1, <2>2 DEF Saving
  <2>4. QED
    BY <1>3, <2>1, <2>3 DEF Saving, InTransaction
<1>9. /\ station'[p] \in Stations /\ station'[p] \in InTransaction /\ station'[p] \in Saving
      /\ station'[p] \notin {"waiting", "dead", "summary", "locked"}
  BY <1>4 DEF Stations, InTransaction, Saving
<1>10. holder' = (IF station'[p] \in InTransaction THEN p ELSE Ledger!Free) /\ holder \in {p, Ledger!Free}
  BY <1>2, <1>3, <1>9
<1>11. deaths' = 0 => deaths = 0 /\ wrecked' = wrecked
  BY <1>2
<1>12. \A j \in 1 .. 3 :
           /\ written'[p] >= 2 * j => ledger'[FileAt(j)] = mem'[p][FileAt(j)]
           /\ written'[p] = 2 * j - 1 => ledger'[FileAt(j)] = Torn
           /\ station'[p] = "settling" => ledger'[FileAt(j)] \in {mem'[p][FileAt(j)], Torn}
  BY <1>2, <1>4, <1>6, <1>7
<1>13. QED
  BY <1>1, <1>3, <1>4, <1>8, <1>9, <1>10, <1>11, <1>12, InsideHolder

LEMMA DieHolder ==
  ASSUME Ledger!LedgerAssumption, LedgerTypes, HolderOK, NEW p \in Ledger!Process, Ledger!Die(p)
  PROVE  HolderOK'
<1>1. PICK at : at = IF p = Ledger!Session THEN "idle" ELSE "dead"
  OBVIOUS
<1>2. /\ station[p] \notin {"idle", "dead"} /\ deaths' = deaths + 1 /\ Becomes(station', station, p, at)
      /\ holder' = (IF holder = p THEN Ledger!Free ELSE holder) /\ Becomes(mem', mem, p, Ledger!Default)
      /\ Becomes(written', written, p, 0) /\ wrecked \subseteq wrecked'
      /\ \A i \in 1 .. 3 : written[p] = 2 * i - 1 => FileAt(i) \in wrecked'
      /\ UNCHANGED <<ledger, fact>>
  BY <1>1, DieIs
<1>3. deaths' # 0
  BY <1>2 DEF LedgerTypes
<1>4. OutsideSame(p) /\ station'[p] = at /\ written'[p] = 0
      /\ \A q \in Ledger!Process : q # p => station'[q] = station[q] /\ written'[q] = written[q]
  BY <1>2 DEF OutsideSame, Becomes
<1>5. station[p] \in {"waiting", "locked", "saving", "summary", "settling"}
  BY <1>2, HolderFacts DEF Stations
<1>6. p # Ledger!Session => p \in Client /\ fact[p] \in Ledger!Fact
  <2>1. p # Ledger!Session => p \in Client
    BY LedgerNumbers
  <2>2. QED
    BY <1>2, <2>1 DEF HolderOK
<1>7. CASE station[p] = "waiting"
  <2>1. p \in Client /\ p # Ledger!Session /\ at = "dead"
    BY <1>1, <1>6, <1>7 DEF HolderOK
  <2>2. holder # p
    BY <1>7 DEF HolderOK, InTransaction
  <2>3. written[p] = 0
    BY <1>7 DEF HolderOK, Saving
  <2>4. \A q \in Ledger!Process : written'[q] = written[q]
    BY <1>4, <2>3
  <2>5. "dead" \in {"idle", "waiting", "dead"} /\ station[p] \in {"idle", "waiting", "dead"}
    BY <1>7
  <2>6. fact'[p] \in Ledger!Fact /\ UNCHANGED <<holder, ledger>> /\ Becomes(station', station, p, "dead")
    BY <1>2, <1>6, <2>1, <2>2
  <2>7. QED
    BY <1>2, <1>3, <1>4, <2>1, <2>4, <2>5, <2>6, OutsideHolder
<1>8. CASE station[p] # "waiting"
  <2>1. holder = p /\ \A q \in Ledger!Process : q # p => station[q] \notin InTransaction
    BY <1>5, <1>8, HolderFacts DEF InTransaction
  <2>2. /\ station'[p] \in Stations /\ station'[p] \notin InTransaction /\ station'[p] \notin Saving
        /\ station'[p] \notin {"waiting", "locked", "summary", "settling"} /\ (p = Ledger!Session => station'[p] # "dead")
    BY <1>1, <1>4 DEF Stations, InTransaction, Saving
  <2>3. holder' = (IF station'[p] \in InTransaction THEN p ELSE Ledger!Free) /\ holder \in {p, Ledger!Free}
    BY <1>2, <2>1, <2>2
  <2>4. \A i \in 1 .. 2 : ledger'[FileAt(i)] = Torn => FileAt(i) \in wrecked'
    <3> SUFFICES ASSUME NEW i \in 1 .. 2, ledger[FileAt(i)] = Torn, FileAt(i) \notin wrecked' PROVE FALSE
      BY <1>2
    <3>1. FileAt(i) \notin wrecked
      BY <1>2
    <3>2. PICK q \in Ledger!Process : station[q] \in Saving /\ written[q] = 2 * i - 1
      BY <3>1 DEF HolderOK
    <3>3. q = p
      BY <2>1, <3>2 DEF Saving, InTransaction
    <3>4. QED
      BY <1>2, <3>2, <3>3
  <2>5. p # Ledger!Session => fact'[p] \in Ledger!Fact
    BY <1>2, <1>6
  <2>6. QED
    BY <1>3, <1>4, <2>1, <2>2, <2>3, <2>4, <2>5, InsideHolder
<1>9. QED
  BY <1>7, <1>8

\* Who tries a fact, and how many.
LEMMA TryingMoves ==
  ASSUME Ledger!LedgerAssumption, IsFiniteSet(Trying), NEW p \in Ledger!Process, NEW at, Becomes(station', station, p, at)
  PROVE  /\ IsFiniteSet(Trying') /\ Cardinality(Trying) \in Nat /\ Cardinality(Trying') \in Nat
         /\ Cardinality(Trying') <= Cardinality(Trying) + 1
         /\ ~ (p \in Client /\ at \in {"waiting", "locked", "dead"} /\ station[p] \notin {"waiting", "locked", "dead"}) =>
              Cardinality(Trying') <= Cardinality(Trying)
         /\ (p \in Client /\ at \notin {"waiting", "locked", "dead"} /\ station[p] \in {"waiting", "locked", "dead"}) =>
              Cardinality(Trying') + 1 = Cardinality(Trying)
<1>0. Client \subseteq Ledger!Process
  BY LedgerNumbers
<1>1. PICK T : T = Trying
  OBVIOUS
<1>2. PICK U : U = Trying'
  OBVIOUS
<1>3. IsFiniteSet(T) /\ Cardinality(T) \in Nat
  BY <1>1, FS_CardinalityType
<1>4. \A c \in Client : c # p => (c \in T <=> c \in U)
  BY <1>0, <1>1, <1>2 DEF Trying, Becomes
<1>5. T \subseteq Client /\ U \subseteq Client
  BY <1>1, <1>2 DEF Trying
<1>6. p \in T <=> p \in Client /\ station[p] \in {"waiting", "locked", "dead"}
  BY <1>1 DEF Trying
<1>7. p \in U <=> p \in Client /\ at \in {"waiting", "locked", "dead"}
  BY <1>2 DEF Trying, Becomes
<1> DEFINE Goal == /\ IsFiniteSet(U) /\ Cardinality(U) \in Nat /\ Cardinality(U) <= Cardinality(T) + 1
                   /\ p \notin U \/ p \in T => Cardinality(U) <= Cardinality(T)
                   /\ p \notin U /\ p \in T => Cardinality(U) + 1 = Cardinality(T)
<1>8. ASSUME p \in U <=> p \in T PROVE Goal
  <2>1. U = T
    BY <1>4, <1>5, <1>8
  <2>2. QED
    BY <1>3, <1>8, <2>1
<1>9. ASSUME p \in U, p \notin T PROVE Goal
  <2>1. U = T \cup {p}
    BY <1>4, <1>5, <1>9
  <2>2. IsFiniteSet(U) /\ Cardinality(U) = Cardinality(T) + 1
    BY <1>3, <1>9, <2>1, FS_AddElement
  <2>3. QED
    BY <1>3, <1>9, <2>2
<1>10. ASSUME p \notin U, p \in T PROVE Goal
  <2>1. U = T \ {p}
    BY <1>4, <1>5, <1>10
  <2>2. IsFiniteSet(U) /\ Cardinality(U) = Cardinality(T) - 1
    BY <1>3, <1>10, <2>1, FS_RemoveElement
  <2>3. QED
    BY <1>3, <1>10, <2>2, FS_CardinalityType
<1>11. Goal
  BY <1>8, <1>9, <1>10
<1>12. QED
  BY <1>1, <1>2, <1>3, <1>6, <1>7, <1>11

\* What was said stays said.
Grows == \A type, s, ref : Ledger!Said(type, s, ref) => Ledger!Said(type, s, ref)'

LEMMA SaidGrows ==
  ASSUME NEW E, alerts \in Seq(E), NEW more \in Seq(E), alerts' = alerts \o more
  PROVE  Grows
<1>1. PICK a : a = alerts
  OBVIOUS
<1>2. PICK w : w = alerts'
  OBVIOUS
<1>3. PICK x, y : x = Len(a) /\ y = Len(more)
  BY Zenon
<1>4. a \in Seq(E) /\ w = a \o more
  BY <1>1, <1>2
<1>5. /\ DOMAIN a = 1 .. x /\ DOMAIN w = 1 .. x + y /\ x \in Nat /\ y \in Nat
      /\ \A k \in 1 .. x : w[k] = a[k]
  BY <1>3, <1>4, Joined
<1>6. \A k \in 1 .. x : k \in 1 .. x + y
  BY <1>5
<1>7. \A k \in DOMAIN a : k \in DOMAIN w /\ w[k] = a[k]
  BY <1>5, <1>6
<1>8. QED
  BY <1>1, <1>2, <1>7 DEF Grows, Ledger!Said

LEMMA SaidStays == ASSUME UNCHANGED alerts PROVE Grows
BY DEF Grows, Ledger!Said

\* A process moves: what a step must leave as it was, or bring.
Moving(p, at) ==
  /\ Becomes(station', station, p, at) /\ OutsideSame(p) /\ Grows
  /\ wrecked \subseteq wrecked' /\ deaths <= deaths' /\ acks <= acks'
  /\ p \in Client =>
       /\ at # "idle" => (station[p] # "idle" /\ fact'[p] = fact[p]) \/ (fact'[p].time = acks' /\ acks' = acks + 1)
       /\ at \in {"waiting", "locked"} => deaths' > 0 \/ station[p] \in {"idle", "waiting", "locked"}
       /\ at \in {"waiting", "locked", "dead"} /\ station[p] \notin {"waiting", "locked", "dead"} =>
            acks + deaths < acks' + deaths'
Ahead ==
  /\ Grows /\ wrecked \subseteq wrecked' /\ deaths <= deaths' /\ acks <= acks'
  /\ acks + deaths + Cardinality(Trying') <= acks' + deaths' + Cardinality(Trying)
  /\ \A c \in Client : Pending(c)' => deaths' > 0 \/ (Pending(c) /\ fact'[c] = fact[c]) \/ fact'[c].time > acks

LEMMA AheadIs ==
  ASSUME Ledger!LedgerAssumption, LedgerTypes, LedgerTypes', FactsOK, NEW p \in Ledger!Process, NEW at, Moving(p, at)
  PROVE  Ahead /\ IsFiniteSet(Trying') /\ Cardinality(Trying) \in Nat /\ Cardinality(Trying') \in Nat
         /\ Cardinality(Trying') <= acks' + deaths'
<1>1. IsFiniteSet(Trying) /\ Cardinality(Trying) <= acks + deaths /\ Becomes(station', station, p, at)
  BY DEF FactsOK, Moving
<1>2. acks \in Nat /\ acks' \in Nat /\ deaths \in Nat /\ deaths' \in Nat
  BY DEF LedgerTypes
<1>3. PICK n \in Nat : n = Cardinality(Trying)
  BY <1>1, TryingMoves
<1>4. PICK k \in Nat : k = Cardinality(Trying')
  BY <1>1, TryingMoves
<1> DEFINE Joins == p \in Client /\ at \in {"waiting", "locked", "dead"} /\ station[p] \notin {"waiting", "locked", "dead"}
<1>5. IsFiniteSet(Trying') /\ k <= n + 1 /\ (~ Joins => k <= n)
  BY <1>1, <1>3, <1>4, TryingMoves
<1>6. deaths <= deaths' /\ acks <= acks' /\ (Joins => acks + deaths < acks' + deaths')
  BY DEF Moving
<1>7. acks + deaths + k <= acks' + deaths' + n /\ k <= acks' + deaths'
  <2>1. PICK a \in Nat, b \in Nat, x \in Nat, y \in Nat : a = acks /\ b = acks' /\ x = deaths /\ y = deaths'
    BY <1>2
  <2>2. x <= y /\ a <= b /\ n <= a + x
    BY <1>1, <1>3, <1>6, <2>1
  <2>3. CASE Joins
    <3>1. a + x < b + y /\ k <= n + 1
      BY <1>5, <1>6, <2>1, <2>3, Zenon
    <3>2. a + x + k <= b + y + n /\ k <= b + y
      BY <2>2, <3>1
    <3>3. QED
      BY <2>1, <3>2, Zenon
  <2>4. CASE ~ Joins
    <3>1. k <= n
      BY <1>5, <2>4
    <3>2. a + x + k <= b + y + n /\ k <= b + y
      BY <2>2, <3>1
    <3>3. QED
      BY <2>1, <3>2, Zenon
  <2>5. QED
    BY <2>3, <2>4
<1>9. \A c \in Client : Pending(c)' => deaths' > 0 \/ (Pending(c) /\ fact'[c] = fact[c]) \/ fact'[c].time > acks
  <2> SUFFICES ASSUME NEW c \in Client, Pending(c)'
               PROVE deaths' > 0 \/ (Pending(c) /\ fact'[c] = fact[c]) \/ fact'[c].time > acks
    OBVIOUS
  <2>1. station'[c] \in {"waiting", "locked"} /\ fact'[c].kind = "buy" /\ c \in Ledger!Process
    BY LedgerNumbers DEF Pending
  <2>2. CASE c # p
    <3>1. station'[c] = station[c] /\ fact'[c] = fact[c]
      BY <2>1, <2>2 DEF Moving, Becomes, OutsideSame
    <3>2. QED
      BY <2>1, <3>1 DEF Pending
  <2>3. CASE c = p
    <3>1. at = station'[c]
      BY <2>3 DEF Moving, Becomes
    <3>2. CASE station[c] # "idle" /\ fact'[c] = fact[c]
      <4>1. deaths' > 0 \/ station[c] \in {"waiting", "locked"}
        BY <2>1, <2>3, <3>1, <3>2 DEF Moving
      <4>2. QED
        BY <2>1, <3>2, <4>1 DEF Pending
    <3>3. CASE fact'[c].time = acks' /\ acks' = acks + 1
      BY <1>2, <3>3
    <3>4. QED
      BY <2>1, <2>3, <3>1, <3>2, <3>3 DEF Moving
  <2>4. QED
    BY <2>2, <2>3
<1>10. Grows /\ wrecked \subseteq wrecked'
  BY DEF Moving
<1>11. QED
  BY <1>3, <1>4, <1>5, <1>6, <1>7, <1>9, <1>10 DEF Ahead

\* A positions file that was right is right after the step.
Fits(x, f) == \E p \in Rec(x) : p.time = f.time /\ p.symbol = f.symbol /\ p.venue = f.venue

LEMMA RecIs ==
  ASSUME NEW x \in Ledger!PositionsFile
  PROVE  /\ x.open \in Seq(Ledger!Position) /\ x.closed \in Seq(Ledger!Position) /\ x.next \in 1 .. Ledger!MaxId + 1
         /\ \A p \in Rec(x) : p \in Ledger!Position
         /\ \A i \in DOMAIN x.open : x.open[i] \in Rec(x) /\ x.open[i] \in Ledger!Position
         /\ \A i \in DOMAIN x.closed : x.closed[i] \in Rec(x) /\ x.closed[i] \in Ledger!Position
<1>1. x.open \in Seq(Ledger!Position) /\ x.closed \in Seq(Ledger!Position) /\ x.next \in 1 .. Ledger!MaxId + 1
  BY DEF Ledger!PositionsFile
<1>2. PICK a, b : a = x.open /\ b = x.closed
  OBVIOUS
<1>3. (\A i \in DOMAIN a : a[i] \in Ledger!Position) /\ (\A i \in DOMAIN b : b[i] \in Ledger!Position)
  BY <1>1, <1>2
<1>4. Rec(x) = {a[i] : i \in DOMAIN a} \cup {b[i] : i \in DOMAIN b}
  BY <1>2 DEF Rec, Ledger!Elements
<1>5. QED
  BY <1>1, <1>2, <1>3, <1>4

LEMMA StillOK ==
  ASSUME Ledger!LedgerAssumption, LedgerTypes, LedgerTypes', NEW x \in Ledger!PositionsFile, PositionsOK(x), Ahead,
         Cardinality(Trying) \in Nat, Cardinality(Trying') \in Nat,
         "positions" \notin wrecked' => \A f \in done' \ done : f.kind = "buy" => Fits(x, f)
  PROVE  PositionsOK(x)'
<1>1. acks \in Nat /\ acks' \in Nat /\ deaths \in Nat /\ deaths' \in Nat
  BY DEF LedgerTypes
<1>2. (\A p \in Rec(x) : p.time \in Nat) /\ x.next \in Nat
  BY RecIs, LedgerNumbers DEF Ledger!Position
<1>3. Told(x)'
  <2>1. \A type, s, ref : Ledger!Said(type, s, ref) => Ledger!Said(type, s, ref)'
    BY Zenon DEF Ahead, Grows
  <2>2. Told(x)
    BY DEF PositionsOK
  <2>3. (\A p \in Rec(x) : Ledger!Said("POSITION_OPENED", p.symbol, p.id)')
    BY <2>1, <2>2, Zenon DEF Told
  <2>4. (\A p \in Ledger!Elements(x.closed) : Ledger!Said("POSITION_CLOSED", p.symbol, p.id)')
    BY <2>1, <2>2, Zenon DEF Told
  <2>5. (\A p \in Ledger!Elements(x.open) : p.state = "EXIT_ALERT" => Ledger!Said("POSITION_EXIT_ALERT", p.symbol, p.id)')
    BY <2>1, <2>2, Zenon DEF Told
  <2>6. QED
    BY <2>3, <2>4, <2>5, Zenon DEF Told, Rec, Ledger!Elements
<1>4. Numbered(x)'
  <2>0. PICK a \in Nat, b \in Nat, d \in Nat, e \in Nat : a = acks /\ b = acks' /\ d = deaths /\ e = deaths'
    BY <1>1
  <2>1. PICK n \in Nat : n = Cardinality(Trying)
    OBVIOUS
  <2>2. PICK k \in Nat : k = Cardinality(Trying')
    OBVIOUS
  <2>3. x.next - 1 + n <= a + d /\ a + d + k <= b + e + n
    <3>1. x.next - 1 + Cardinality(Trying) <= acks + deaths
      BY Zenon DEF PositionsOK, Numbered
    <3>2. acks + deaths + Cardinality(Trying') <= acks' + deaths' + Cardinality(Trying)
      BY Zenon DEF Ahead
    <3>3. QED
      BY <2>0, <2>1, <2>2, <3>1, <3>2
  <2>4. x.next - 1 + k <= acks' + deaths'
    <3>1. x.next - 1 + k <= b + e
      BY <1>2, <2>3
    <3>2. QED
      BY <2>0, <3>1
  <2>5. (\A p \in Rec(x) : p.id < x.next) /\ (\A p, q \in Rec(x) : p.id = q.id => p.time = q.time)
    BY DEF PositionsOK, Numbered
  <2>6. QED
    BY <2>2, <2>4, <2>5 DEF Numbered, Rec, Ledger!Elements
<1>5. Holding(x)'
  <2> SUFFICES ASSUME "positions" \notin wrecked', NEW f \in done', f.kind = "buy"
               PROVE \E p \in Rec(x) : p.time = f.time /\ p.symbol = f.symbol /\ p.venue = f.venue
    BY DEF Holding, Rec, Ledger!Elements
  <2>1. "positions" \notin wrecked
    BY DEF Ahead
  <2>2. CASE f \in done
    BY <2>1, <2>2 DEF PositionsOK, Holding
  <2>3. CASE f \notin done
    BY <2>3 DEF Fits
  <2>4. QED
    BY <2>2, <2>3
<1>6. OnceEach(x)'
  <2> SUFFICES ASSUME deaths' = 0
               PROVE  /\ \A i, j \in DOMAIN x.open : x.open[i].time = x.open[j].time => i = j
                      /\ \A i, j \in DOMAIN x.closed : x.closed[i].time = x.closed[j].time => i = j
                      /\ \A i \in DOMAIN x.open, j \in DOMAIN x.closed : x.open[i].time # x.closed[j].time
                      /\ \A p \in Rec(x), c \in Client : Pending(c)' => p.time # fact'[c].time
    BY DEF OnceEach, Rec, Ledger!Elements, Pending
  <2>1. deaths = 0
    BY <1>1 DEF Ahead
  <2>2. /\ \A i, j \in DOMAIN x.open : x.open[i].time = x.open[j].time => i = j
        /\ \A i, j \in DOMAIN x.closed : x.closed[i].time = x.closed[j].time => i = j
        /\ \A i \in DOMAIN x.open, j \in DOMAIN x.closed : x.open[i].time # x.closed[j].time
        /\ \A p \in Rec(x), c \in Client : Pending(c) => p.time # fact[c].time
    BY <2>1, Zenon DEF PositionsOK, OnceEach
  <2>3. \A p \in Rec(x), c \in Client : Pending(c)' => p.time # fact'[c].time
    <3> SUFFICES ASSUME NEW p \in Rec(x), NEW c \in Client, Pending(c)' PROVE p.time # fact'[c].time
      OBVIOUS
    <3>1. p.time <= acks /\ p.time \in Nat
      BY <1>2 DEF PositionsOK
    <3>2. (Pending(c) /\ fact'[c] = fact[c]) \/ fact'[c].time > acks
      BY <1>1 DEF Ahead
    <3>3. CASE Pending(c) /\ fact'[c] = fact[c]
      BY <2>2, <3>3
    <3>4. CASE fact'[c].time > acks
      <4>1. ~ (p.time > acks)
        BY <1>1, <3>1
      <4>2. QED
        BY <3>4, <4>1
    <3>5. QED
      BY <3>2, <3>3, <3>4
  <2>4. QED
    BY <2>2, <2>3
<1>7. \A p \in Rec(x) : p.time <= acks'
  <2>1. acks <= acks' /\ \A p \in Rec(x) : p.time <= acks
    BY DEF Ahead, PositionsOK
  <2>2. QED
    BY <1>1, <1>2, <2>1
<1>8. QED
  BY <1>3, <1>4, <1>5, <1>6, <1>7 DEF PositionsOK, Rec, Ledger!Elements

\* No positions at all are right when the file was lost, or nothing was done.
LEMMA DefaultOK ==
  ASSUME Ledger!LedgerAssumption, LedgerTypes, "positions" \in wrecked \/ done = {},
         Cardinality(Trying) \in Nat, Cardinality(Trying) <= acks + deaths
  PROVE  Ledger!Default.positions \in Ledger!PositionsFile /\ PositionsOK(Ledger!Default.positions)
<1>1. PICK x : x = Ledger!Default.positions
  OBVIOUS
<1>2. x.open = <<>> /\ x.closed = <<>> /\ x.next = 1
  BY <1>1, DefaultIs
<1>3. Ledger!Elements(x.open) = {} /\ Ledger!Elements(x.closed) = {} /\ Rec(x) = {}
  BY <1>2 DEF Ledger!Elements, Rec
<1>4. DOMAIN x.open = {} /\ DOMAIN x.closed = {}
  BY <1>2
<1>5. x.next - 1 + Cardinality(Trying) <= acks + deaths
  <2>1. PICK n \in Nat : n = Cardinality(Trying)
    OBVIOUS
  <2>2. 1 - 1 + n = n
    OBVIOUS
  <2>3. QED
    BY <1>2, <2>1, <2>2
<1>6. Told(x) /\ OnceEach(x)
  BY <1>3, <1>4 DEF Told, OnceEach
<1>7. Numbered(x) /\ Holding(x)
  BY <1>3, <1>5 DEF Numbered, Holding
<1>8. x \in Ledger!PositionsFile
  BY <1>1, DefaultStore, StoreFacts
<1>9. QED
  BY <1>1, <1>3, <1>6, <1>7, <1>8 DEF PositionsOK

LEMMA StoredOK ==
  ASSUME Ledger!LedgerAssumption, LedgerTypes, HolderOK, FactsOK, holder = Ledger!Free
  PROVE  Ledger!Stored.positions \in Ledger!PositionsFile /\ PositionsOK(Ledger!Stored.positions)
<1>1. Ledger!Stored.positions = IF ledger.positions = Torn THEN Ledger!Default.positions ELSE ledger.positions
  BY StoredIs DEF Files
<1>2. Ledger!Stored.positions \in Ledger!PositionsFile
  BY StoredIs, StoreFacts
<1>3. CASE ledger.positions # Torn
  <2>1. PositionsOK(ledger.positions)
    BY <1>3 DEF FactsOK
  <2>2. Ledger!Stored.positions = ledger.positions
    BY <1>1, <1>3
  <2>3. PICK x : x = ledger.positions
    OBVIOUS
  <2>4. PositionsOK(x)
    BY <2>1, <2>3
  <2>5. QED
    BY <1>2, <2>2, <2>3, <2>4
<1>4. CASE ledger.positions = Torn
  <2>1. ledger[FileAt(2)] = Torn
    BY <1>4, FilesAre
  <2>2. FileAt(2) \in wrecked
    <3>1. FileAt(2) \in wrecked \/ \E p \in Ledger!Process : station[p] \in Saving /\ written[p] = 2 * 2 - 1
      BY <2>1 DEF HolderOK
    <3>2. \A p \in Ledger!Process : station[p] \notin InTransaction
      BY LedgerNumbers, HolderFacts
    <3>3. QED
      BY <3>1, <3>2 DEF Saving, InTransaction
  <2>3. "positions" \in wrecked /\ IsFiniteSet(Trying) /\ Cardinality(Trying) <= acks + deaths
    BY <2>2, FilesAre DEF FactsOK
  <2>4. PositionsOK(Ledger!Default.positions)
    BY <2>3, DefaultOK, FS_CardinalityType
  <2>5. Ledger!Stored.positions = Ledger!Default.positions
    BY <1>1, <1>4
  <2>6. PICK x : x = Ledger!Default.positions
    OBVIOUS
  <2>7. PositionsOK(x)
    BY <2>4, <2>6
  <2>8. QED
    BY <1>2, <2>5, <2>6, <2>7
<1>5. QED
  BY <1>3, <1>4

\* No two facts in flight are of one time, and none is of a time to come.
TimesOK ==
  /\ \A c \in Client : station[c] # "idle" => fact[c].time <= acks
  /\ \A c, d \in Client : station[c] # "idle" /\ station[d] # "idle" /\ fact[c].time = fact[d].time => c = d

LEMMA TimesStep ==
  ASSUME Ledger!LedgerAssumption, LedgerTypes, LedgerTypes', HolderOK, FactsOK, NEW p \in Ledger!Process, NEW at,
         Becomes(station', station, p, at), OutsideSame(p), acks <= acks',
         p \in Client /\ at # "idle" => (station[p] # "idle" /\ fact'[p] = fact[p]) \/ (fact'[p].time = acks' /\ acks' = acks + 1)
  PROVE  TimesOK'
<1>1. PICK a \in Nat, b \in Nat : a = acks /\ b = acks' /\ a <= b
  BY DEF LedgerTypes
<1>2. \A c \in Client : station[c] # "idle" => fact[c].time <= a /\ fact[c].time \in Nat
  <2> SUFFICES ASSUME NEW c \in Client, station[c] # "idle" PROVE fact[c].time <= a /\ fact[c].time \in Nat
    OBVIOUS
  <2>1. fact[c] \in Ledger!Fact
    BY DEF HolderOK
  <2>2. fact[c].time \in Nat
    BY <2>1, LedgerNumbers DEF Ledger!Fact
  <2>3. QED
    BY <1>1, <2>2 DEF FactsOK
<1>3. \A c \in Client : c # p => station'[c] = station[c] /\ fact'[c] = fact[c]
  BY LedgerNumbers DEF Becomes, OutsideSame
<1>4. \A c \in Client : station'[c] # "idle" => (station[c] # "idle" /\ fact'[c] = fact[c]) \/ (c = p /\ fact'[c].time = a + 1 /\ b = a + 1)
  BY <1>1, <1>3 DEF Becomes
<1>5. \A c, d \in Client : station[c] # "idle" /\ station[d] # "idle" /\ fact[c].time = fact[d].time => c = d
  BY DEF FactsOK
<1>6. \A c \in Client : station'[c] # "idle" => fact'[c].time <= b
  <2> SUFFICES ASSUME NEW c \in Client, station'[c] # "idle" PROVE fact'[c].time <= b
    OBVIOUS
  <2>1. CASE station[c] # "idle" /\ fact'[c] = fact[c]
    <3>1. fact[c].time <= a /\ fact[c].time \in Nat
      BY <1>2, <2>1
    <3>2. fact[c].time <= b
      BY <1>1, <3>1
    <3>3. QED
      BY <2>1, <3>2
  <2>2. CASE fact'[c].time = a + 1 /\ b = a + 1
    BY <1>1, <2>2
  <2>3. QED
    BY <1>4, <2>1, <2>2
<1>7. \A c, d \in Client : station'[c] # "idle" /\ station'[d] # "idle" /\ fact'[c].time = fact'[d].time => c = d
  <2> SUFFICES ASSUME NEW c \in Client, NEW d \in Client, station'[c] # "idle", station'[d] # "idle", fact'[c].time = fact'[d].time
               PROVE c = d
    OBVIOUS
  <2>1. \A e \in Client : station[e] # "idle" => fact[e].time # a + 1
    <3>1. \A t \in Nat : t <= a => t # a + 1
      OBVIOUS
    <3>2. QED
      BY <1>2, <3>1
  <2>2. CASE /\ station[c] # "idle" /\ fact'[c] = fact[c] /\ station[d] # "idle" /\ fact'[d] = fact[d]
    BY <1>5, <2>2
  <2>3. CASE /\ station[c] # "idle" /\ fact'[c] = fact[c] /\ d = p /\ fact'[d].time = a + 1
    BY <2>1, <2>3
  <2>4. CASE /\ station[d] # "idle" /\ fact'[d] = fact[d] /\ c = p /\ fact'[c].time = a + 1
    BY <2>1, <2>4
  <2>5. QED
    BY <1>4, <2>2, <2>3, <2>4
<1>8. QED
  BY <1>1, <1>6, <1>7 DEF TimesOK

\* A process moves, nothing is finished: what it holds was right, or has been
\* made right, and so has what it filled.
LEMMA FactsStep ==
  ASSUME Ledger!LedgerAssumption, LedgerTypes, LedgerTypes', HolderOK, FactsOK, NEW p \in Ledger!Process, NEW at, Moving(p, at),
         UNCHANGED done,
         ledger'.positions # Torn => \E x \in Ledger!PositionsFile : x = ledger'.positions /\ PositionsOK(x),
         at \in InTransaction => \E x \in Ledger!PositionsFile : x = mem'[p].positions /\ (PositionsOK(x) \/ PositionsOK(x)'),
         "positions" \notin wrecked' /\ p \in Client /\ at = "saving" /\ fact'[p].kind = "buy" =>
           (station[p] = "saving" /\ mem'[p] = mem[p] /\ fact'[p] = fact[p]) \/ Fits(mem'[p].positions, fact'[p])
  PROVE  FactsOK'
<1>1. /\ Ahead /\ IsFiniteSet(Trying') /\ Cardinality(Trying) \in Nat /\ Cardinality(Trying') \in Nat
      /\ Cardinality(Trying') <= acks' + deaths'
  BY AheadIs
<1>2. /\ Becomes(station', station, p, at) /\ OutsideSame(p) /\ wrecked \subseteq wrecked' /\ acks <= acks'
      /\ p \in Client /\ at # "idle" => (station[p] # "idle" /\ fact'[p] = fact[p]) \/ (fact'[p].time = acks' /\ acks' = acks + 1)
  BY DEF Moving
<1>3. \A x \in Ledger!PositionsFile : PositionsOK(x) => PositionsOK(x)'
  <2> SUFFICES ASSUME NEW x \in Ledger!PositionsFile, PositionsOK(x) PROVE PositionsOK(x)'
    OBVIOUS
  <2>1. "positions" \notin wrecked' => \A f \in done' \ done : f.kind = "buy" => Fits(x, f)
    OBVIOUS
  <2>2. QED
    BY <1>1, <2>1, StillOK
<1>4. (ledger.positions # Torn => PositionsOK(ledger.positions))'
  <2> SUFFICES ASSUME ledger'.positions # Torn PROVE PositionsOK(ledger.positions)'
    OBVIOUS
  <2>1. PICK x \in Ledger!PositionsFile : x = ledger'.positions /\ PositionsOK(x)
    OBVIOUS
  <2>2. PositionsOK(x)'
    BY <1>3, <2>1
  <2>3. QED
    BY <2>1, <2>2
<1>5. (\A q \in Ledger!Process : station[q] \in InTransaction => PositionsOK(mem[q].positions))'
  <2> SUFFICES ASSUME NEW q \in Ledger!Process, station'[q] \in InTransaction PROVE PositionsOK(mem[q].positions)'
    BY DEF InTransaction
  <2>1. \E x \in Ledger!PositionsFile : x = mem'[q].positions /\ PositionsOK(x)'
    <3>1. CASE q = p
      <4>1. at \in InTransaction
        BY <1>2, <3>1 DEF Becomes
      <4>2. PICK x \in Ledger!PositionsFile : x = mem'[p].positions /\ (PositionsOK(x) \/ PositionsOK(x)')
        BY <4>1
      <4>3. PositionsOK(x)'
        BY <1>3, <4>2
      <4>4. QED
        BY <3>1, <4>2, <4>3
    <3>2. CASE q # p
      <4>1. station'[q] = station[q] /\ mem'[q] = mem[q]
        BY <1>2, <3>2 DEF Becomes, OutsideSame
      <4>2. PICK x : x = mem[q].positions
        OBVIOUS
      <4>3. PositionsOK(x) /\ x \in Ledger!PositionsFile
        <5>1. PositionsOK(mem[q].positions)
          BY <4>1 DEF FactsOK
        <5>2. IsStore(mem[q], {})
          BY DEF LedgerTypes
        <5>3. QED
          BY <4>2, <5>1, <5>2, StoreFacts
      <4>4. PositionsOK(x)' /\ x = mem'[q].positions
        BY <1>3, <4>1, <4>2, <4>3
      <4>5. QED
        BY <4>3, <4>4
    <3>3. QED
      BY <3>1, <3>2
  <2>2. PICK x \in Ledger!PositionsFile : x = mem'[q].positions /\ PositionsOK(x)'
    BY <2>1
  <2>3. QED
    BY <2>2
<1>6. ("positions" \notin wrecked => \A c \in Client : station[c] = "saving" /\ fact[c].kind = "buy" =>
         \E r \in Rec(mem[c].positions) : r.time = fact[c].time /\ r.symbol = fact[c].symbol /\ r.venue = fact[c].venue)'
  <2> SUFFICES ASSUME "positions" \notin wrecked', NEW c \in Client, station'[c] = "saving", fact'[c].kind = "buy"
               PROVE Fits(mem'[c].positions, fact'[c])
    BY DEF Fits, Rec, Ledger!Elements
  <2>1. c \in Ledger!Process /\ "positions" \notin wrecked
    BY <1>2, LedgerNumbers
  <2>2. (station[c] = "saving" /\ mem'[c] = mem[c] /\ fact'[c] = fact[c]) \/ Fits(mem'[c].positions, fact'[c])
    <3>1. CASE c = p
      <4>1. at = "saving"
        BY <1>2, <3>1 DEF Becomes
      <4>2. QED
        BY <3>1, <4>1
    <3>2. CASE c # p
      BY <1>2, <2>1, <3>2 DEF Becomes, OutsideSame
    <3>3. QED
      BY <3>1, <3>2
  <2>3. CASE station[c] = "saving" /\ mem'[c] = mem[c] /\ fact'[c] = fact[c]
    <3>1. Fits(mem[c].positions, fact[c])
      BY <2>1, <2>3 DEF FactsOK, Fits
    <3>2. QED
      BY <2>3, <3>1
  <2>4. QED
    BY <2>2, <2>3
<1>7. TimesOK'
  BY <1>2, TimesStep
<1>8. QED
  BY <1>1, <1>4, <1>5, <1>6, <1>7 DEF FactsOK, TimesOK

\* The same positions under the same numbers, in other states or places.
AsBefore(x, y) ==
  /\ \A r \in Rec(y) : \E p \in Rec(x) : p.id = r.id /\ p.symbol = r.symbol /\ p.venue = r.venue /\ p.time = r.time
  /\ \A p \in Rec(x) : \E r \in Rec(y) : p.id = r.id /\ p.symbol = r.symbol /\ p.venue = r.venue /\ p.time = r.time
Apart(x) ==
  /\ \A i, j \in DOMAIN x.open : x.open[i].time = x.open[j].time => i = j
  /\ \A i, j \in DOMAIN x.closed : x.closed[i].time = x.closed[j].time => i = j
  /\ \A i \in DOMAIN x.open, j \in DOMAIN x.closed : x.open[i].time # x.closed[j].time

LEMMA AlikeOK ==
  ASSUME Ledger!LedgerAssumption, LedgerTypes, LedgerTypes', NEW x \in Ledger!PositionsFile, NEW y \in Ledger!PositionsFile,
         PositionsOK(x), Ahead, UNCHANGED done, Cardinality(Trying) \in Nat, Cardinality(Trying') \in Nat,
         AsBefore(x, y), y.next = x.next, deaths = 0 => Apart(y),
         \A p \in Ledger!Elements(y.closed) : Ledger!Said("POSITION_CLOSED", p.symbol, p.id)',
         \A p \in Ledger!Elements(y.open) : p.state = "EXIT_ALERT" => Ledger!Said("POSITION_EXIT_ALERT", p.symbol, p.id)'
  PROVE  PositionsOK(y)'
<1>1. PositionsOK(x)'
  BY StillOK
<1>2. \A r \in Rec(y) : \E p \in Rec(x) : p.id = r.id /\ p.symbol = r.symbol /\ p.venue = r.venue /\ p.time = r.time
  BY DEF AsBefore
<1>3. \A p \in Rec(x) : \E r \in Rec(y) : p.id = r.id /\ p.symbol = r.symbol /\ p.venue = r.venue /\ p.time = r.time
  BY DEF AsBefore
<1>4. Told(y)'
  <2>1. \A p \in Rec(x) : Ledger!Said("POSITION_OPENED", p.symbol, p.id)'
    BY <1>1 DEF PositionsOK, Told, Rec, Ledger!Elements
  <2>2. \A r \in Rec(y) : Ledger!Said("POSITION_OPENED", r.symbol, r.id)'
    <3> SUFFICES ASSUME NEW r \in Rec(y) PROVE Ledger!Said("POSITION_OPENED", r.symbol, r.id)'
      OBVIOUS
    <3>1. PICK p \in Rec(x) : p.id = r.id /\ p.symbol = r.symbol
      BY <1>2
    <3>2. QED
      BY <2>1, <3>1
  <2>3. QED
    BY <2>2 DEF Told, Rec, Ledger!Elements
<1>5. Numbered(y)'
  <2>1. /\ \A p \in Rec(x) : p.id < x.next
        /\ \A p, q \in Rec(x) : p.id = q.id => p.time = q.time
        /\ x.next - 1 + Cardinality(Trying') <= acks' + deaths'
    BY <1>1, Zenon DEF PositionsOK, Numbered, Rec, Ledger!Elements
  <2>2. \A r \in Rec(y) : r.id < y.next
    BY <1>2, <2>1
  <2>3. \A r, s \in Rec(y) : r.id = s.id => r.time = s.time
    <3> SUFFICES ASSUME NEW r \in Rec(y), NEW s \in Rec(y), r.id = s.id PROVE r.time = s.time
      OBVIOUS
    <3>1. PICK p \in Rec(x) : p.id = r.id /\ p.time = r.time
      BY <1>2
    <3>2. PICK q \in Rec(x) : q.id = s.id /\ q.time = s.time
      BY <1>2
    <3>3. QED
      BY <2>1, <3>1, <3>2
  <2>4. y.next - 1 + Cardinality(Trying') <= acks' + deaths'
    BY <2>1, Zenon
  <2>5. QED
    BY <2>2, <2>3, <2>4, Zenon DEF Numbered, Rec, Ledger!Elements
<1>6. Holding(y)'
  <2> SUFFICES ASSUME "positions" \notin wrecked', NEW f \in done', f.kind = "buy"
               PROVE \E r \in Rec(y) : r.time = f.time /\ r.symbol = f.symbol /\ r.venue = f.venue
    BY DEF Holding, Rec, Ledger!Elements
  <2>1. PICK p \in Rec(x) : p.time = f.time /\ p.symbol = f.symbol /\ p.venue = f.venue
    BY <1>1 DEF PositionsOK, Holding, Rec, Ledger!Elements
  <2>2. QED
    BY <1>3, <2>1
<1>7. OnceEach(y)'
  <2> SUFFICES ASSUME deaths' = 0 PROVE Apart(y) /\ \A r \in Rec(y), c \in Client : Pending(c)' => r.time # fact'[c].time
    BY Zenon DEF OnceEach, Rec, Ledger!Elements, Pending, Apart
  <2>1. deaths = 0
    BY DEF Ahead, LedgerTypes
  <2>2. \A p \in Rec(x), c \in Client : Pending(c)' => p.time # fact'[c].time
    BY <1>1 DEF PositionsOK, OnceEach, Rec, Ledger!Elements, Pending
  <2>3. \A r \in Rec(y), c \in Client : Pending(c)' => r.time # fact'[c].time
    <3> SUFFICES ASSUME NEW r \in Rec(y), NEW c \in Client, Pending(c)' PROVE r.time # fact'[c].time
      OBVIOUS
    <3>1. PICK p \in Rec(x) : p.time = r.time
      BY <1>2
    <3>2. QED
      BY <2>2, <3>1
  <2>4. QED
    BY <2>1, <2>3
<1>8. \A r \in Rec(y) : r.time <= acks'
  <2>1. \A p \in Rec(x) : p.time <= acks'
    BY <1>1 DEF PositionsOK, Rec, Ledger!Elements
  <2>2. QED
    BY <1>2, <2>1
<1>9. QED
  BY <1>4, <1>5, <1>6, <1>7, <1>8 DEF PositionsOK, Rec, Ledger!Elements

\* The exit rules moved the states of the positions.
LEMMA CycledOK ==
  ASSUME Ledger!LedgerAssumption, LedgerTypes, LedgerTypes', NEW x \in Ledger!PositionsFile, NEW y \in Ledger!PositionsFile,
         PositionsOK(x), Ahead, UNCHANGED done, Cardinality(Trying) \in Nat, Cardinality(Trying') \in Nat,
         SamePositions(x.open, y.open), y.closed = x.closed, y.next = x.next,
         \A i \in DOMAIN y.open : y.open[i].state = "EXIT_ALERT" =>
           x.open[i].state = "EXIT_ALERT" \/ Ledger!Said("POSITION_EXIT_ALERT", y.open[i].symbol, y.open[i].id)'
  PROVE  PositionsOK(y)'
<1>1. PICK a, b, z : a = x.open /\ b = y.open /\ z = x.closed
  OBVIOUS
<1>2. Rec(x) = {a[i] : i \in DOMAIN a} \cup {z[i] : i \in DOMAIN z} /\ Rec(y) = {b[i] : i \in DOMAIN a} \cup {z[i] : i \in DOMAIN z}
  BY <1>1 DEF Rec, Ledger!Elements, SamePositions
<1>3. \A i \in DOMAIN a : b[i].id = a[i].id /\ b[i].symbol = a[i].symbol /\ b[i].venue = a[i].venue /\ b[i].time = a[i].time
  BY <1>1 DEF SamePositions
<1>4. AsBefore(x, y)
  BY <1>2, <1>3 DEF AsBefore
<1>5. deaths = 0 => Apart(y)
  <2> SUFFICES ASSUME deaths = 0 PROVE Apart(y)
    OBVIOUS
  <2>1. Apart(x)
    BY Zenon DEF PositionsOK, OnceEach, Apart
  <2>2. DOMAIN b = DOMAIN a
    BY <1>1 DEF SamePositions
  <2>3. QED
    BY <1>1, <1>3, <2>1, <2>2 DEF Apart
<1>6. \A type, s, ref : Ledger!Said(type, s, ref) => Ledger!Said(type, s, ref)'
  BY Zenon DEF Ahead, Grows
<1>7. \A p \in Ledger!Elements(y.closed) : Ledger!Said("POSITION_CLOSED", p.symbol, p.id)'
  BY <1>6, Zenon DEF PositionsOK, Told
<1>8. \A p \in Ledger!Elements(y.open) : p.state = "EXIT_ALERT" => Ledger!Said("POSITION_EXIT_ALERT", p.symbol, p.id)'
  <2> SUFFICES ASSUME NEW p \in Ledger!Elements(y.open), p.state = "EXIT_ALERT"
               PROVE Ledger!Said("POSITION_EXIT_ALERT", p.symbol, p.id)'
    OBVIOUS
  <2>1. PICK i \in DOMAIN b : p = b[i]
    BY <1>1 DEF Ledger!Elements
  <2>2. i \in DOMAIN a /\ a[i] \in Ledger!Elements(x.open)
    BY <1>1, <2>1 DEF SamePositions, Ledger!Elements
  <2>3. CASE a[i].state = "EXIT_ALERT"
    <3>1. Ledger!Said("POSITION_EXIT_ALERT", a[i].symbol, a[i].id)
      BY <2>2, <2>3 DEF PositionsOK, Told
    <3>2. a[i].symbol = p.symbol /\ a[i].id = p.id
      BY <1>3, <2>1, <2>2
    <3>3. QED
      BY <1>6, <3>1, <3>2
  <2>4. CASE a[i].state # "EXIT_ALERT"
    BY <1>1, <2>1, <2>4
  <2>5. QED
    BY <2>3, <2>4
<1>9. QED
  BY <1>4, <1>5, <1>7, <1>8, AlikeOK

\* A position was closed.
LEMMA SoldOK ==
  ASSUME Ledger!LedgerAssumption, LedgerTypes, LedgerTypes', NEW x \in Ledger!PositionsFile, NEW y \in Ledger!PositionsFile,
         PositionsOK(x), Ahead, UNCHANGED done, Cardinality(Trying) \in Nat, Cardinality(Trying') \in Nat,
         NEW i \in DOMAIN x.open, y.open = Ledger!RemoveAt(x.open, i),
         y.closed = Append(x.closed, [x.open[i] EXCEPT !.state = "CLOSED"]), y.next = x.next,
         Ledger!Said("POSITION_CLOSED", x.open[i].symbol, x.open[i].id)'
  PROVE  PositionsOK(y)'
<1>1. PICK a, b, z, w : a = x.open /\ b = y.open /\ z = x.closed /\ w = y.closed
  OBVIOUS
<1>2. PICK r : r = [a[i] EXCEPT !.state = "CLOSED"]
  BY Zenon
<1>3. a \in Seq(Ledger!Position) /\ z \in Seq(Ledger!Position) /\ i \in DOMAIN a /\ a[i] \in Ledger!Position
  BY <1>1, RecIs
<1>4. r \in Ledger!Position /\ r.id = a[i].id /\ r.symbol = a[i].symbol /\ r.venue = a[i].venue /\ r.time = a[i].time
  BY <1>2, <1>3, Zenon DEF Ledger!Position
<1>5. PICK m, n : m = Len(a) /\ n = Len(z)
  BY Zenon
<1>6. m \in Nat /\ n \in Nat /\ DOMAIN a = 1 .. m /\ DOMAIN z = 1 .. n
  BY <1>3, <1>5
<1>7. DOMAIN b = 1 .. m - 1 /\ \A k \in 1 .. m - 1 : b[k] = IF k < i THEN a[k] ELSE a[k + 1]
  <2>1. b = Ledger!RemoveAt(a, i)
    BY <1>1
  <2>2. b \in Seq(Ledger!Position) /\ Len(b) = m - 1 /\ \A k \in DOMAIN b : b[k] = IF k < i THEN a[k] ELSE a[k + 1]
    BY <1>3, <1>5, <2>1, RemovedIs, Zenon
  <2>3. QED
    BY <2>2
<1>8. DOMAIN w = 1 .. n + 1 /\ w[n + 1] = r /\ \A k \in 1 .. n : w[k] = z[k]
  <2>1. w = Append(z, r)
    BY <1>1, <1>2
  <2>2. QED
    BY <1>3, <1>4, <1>5, <1>6, <2>1
<1>9. PICK at : at = [k \in 1 .. m - 1 |-> IF k < i THEN k ELSE k + 1]
  BY Zenon
<1>10. /\ \A k \in 1 .. m - 1 : at[k] \in 1 .. m /\ at[k] # i /\ b[k] = a[at[k]]
       /\ \A j, k \in 1 .. m - 1 : at[j] = at[k] => j = k
       /\ \A j \in 1 .. m : j # i => \E k \in 1 .. m - 1 : at[k] = j
  <2>1. \A k \in 1 .. m - 1 : at[k] \in 1 .. m /\ at[k] # i /\ b[k] = a[at[k]]
    BY <1>3, <1>6, <1>7, <1>9
  <2>2. \A j, k \in 1 .. m - 1 : at[j] = at[k] => j = k
    BY <1>3, <1>6, <1>9
  <2>3. \A j \in 1 .. m : j # i => \E k \in 1 .. m - 1 : at[k] = j
    <3> SUFFICES ASSUME NEW j \in 1 .. m, j # i PROVE \E k \in 1 .. m - 1 : at[k] = j
      OBVIOUS
    <3>1. CASE j < i
      <4>1. j \in 1 .. m - 1 /\ at[j] = j
        BY <1>3, <1>6, <1>9, <3>1
      <4>2. QED
        BY <4>1
    <3>2. CASE j > i
      <4>1. j - 1 \in 1 .. m - 1 /\ at[j - 1] = j
        BY <1>3, <1>6, <1>9, <3>2
      <4>2. QED
        BY <4>1
    <3>3. QED
      BY <1>3, <1>6, <3>1, <3>2
  <2>4. QED
    BY <2>1, <2>2, <2>3
<1>11. /\ Rec(x) = {a[k] : k \in 1 .. m} \cup {z[k] : k \in 1 .. n}
       /\ Rec(y) = {b[k] : k \in 1 .. m - 1} \cup {w[k] : k \in 1 .. n + 1}
  BY <1>1, <1>6, <1>7, <1>8, Zenon DEF Rec, Ledger!Elements
<1>12. \A k \in 1 .. n + 1 : k \in 1 .. n \/ k = n + 1
  BY <1>6
<1>13. (\A k \in 1 .. n : k \in 1 .. n + 1) /\ n + 1 \in 1 .. n + 1
  BY <1>6
<1>14. AsBefore(x, y)
  <2>1. ASSUME NEW q \in Rec(y)
        PROVE \E p \in Rec(x) : p.id = q.id /\ p.symbol = q.symbol /\ p.venue = q.venue /\ p.time = q.time
    <3>1. CASE \E k \in 1 .. m - 1 : q = b[k]
      <4>1. PICK k \in 1 .. m - 1 : q = b[k]
        BY <3>1
      <4>2. q \in Rec(x)
        BY <1>10, <1>11, <4>1
      <4>3. QED
        BY <4>2
    <3>2. CASE \E k \in 1 .. n : q = z[k]
      <4>1. q \in Rec(x)
        BY <1>11, <3>2
      <4>2. QED
        BY <4>1
    <3>3. CASE q = r
      <4>1. a[i] \in Rec(x)
        BY <1>3, <1>6, <1>11
      <4>2. QED
        BY <1>4, <3>3, <4>1
    <3>4. QED
      BY <1>8, <1>11, <1>12, <3>1, <3>2, <3>3
  <2>2. ASSUME NEW p \in Rec(x)
        PROVE \E q \in Rec(y) : p.id = q.id /\ p.symbol = q.symbol /\ p.venue = q.venue /\ p.time = q.time
    <3>1. CASE \E k \in 1 .. m : k # i /\ p = a[k]
      <4>1. PICK k \in 1 .. m : k # i /\ p = a[k]
        BY <3>1
      <4>2. p \in Rec(y)
        BY <1>10, <1>11, <4>1
      <4>3. QED
        BY <4>2
    <3>2. CASE p = a[i]
      <4>1. r \in Rec(y)
        BY <1>8, <1>11, <1>13
      <4>2. QED
        BY <1>4, <3>2, <4>1
    <3>3. CASE \E k \in 1 .. n : p = z[k]
      <4>1. p \in Rec(y)
        BY <1>8, <1>11, <1>13, <3>3
      <4>2. QED
        BY <4>1
    <3>4. QED
      BY <1>11, <3>1, <3>2, <3>3
  <2>3. QED
    BY <2>1, <2>2 DEF AsBefore
<1>15. deaths = 0 => Apart(y)
  <2> SUFFICES ASSUME deaths = 0 PROVE Apart(y)
    OBVIOUS
  <2>1. Apart(x)
    BY Zenon DEF PositionsOK, OnceEach, Apart
  <2>2. /\ \A j, k \in 1 .. m : a[j].time = a[k].time => j = k
        /\ \A j, k \in 1 .. n : z[j].time = z[k].time => j = k
        /\ \A j \in 1 .. m, k \in 1 .. n : a[j].time # z[k].time
    BY <1>1, <1>6, <2>1, Zenon DEF Apart
  <2>3. \A j, k \in 1 .. m - 1 : b[j].time = b[k].time => j = k
    <3> SUFFICES ASSUME NEW j \in 1 .. m - 1, NEW k \in 1 .. m - 1, b[j].time = b[k].time PROVE j = k
      OBVIOUS
    <3>1. at[j] \in 1 .. m /\ at[k] \in 1 .. m /\ b[j] = a[at[j]] /\ b[k] = a[at[k]]
      BY <1>10, Zenon
    <3>2. a[at[j]].time = a[at[k]].time
      BY <3>1, Zenon
    <3>3. at[j] = at[k]
      BY <2>2, <3>1, <3>2, Zenon
    <3>4. QED
      BY <1>10, <3>3, Zenon
  <2>4. \A j, k \in 1 .. n + 1 : w[j].time = w[k].time => j = k
    BY <1>3, <1>4, <1>6, <1>8, <1>12, <2>2
  <2>5. \A j \in 1 .. m - 1, k \in 1 .. n + 1 : b[j].time # w[k].time
    <3> SUFFICES ASSUME NEW j \in 1 .. m - 1, NEW k \in 1 .. n + 1 PROVE b[j].time # w[k].time
      OBVIOUS
    <3>1. PICK u \in 1 .. m : u # i /\ b[j] = a[u]
      BY <1>10
    <3>2. CASE k = n + 1
      BY <1>3, <1>4, <1>6, <1>8, <2>2, <3>1, <3>2
    <3>3. CASE k \in 1 .. n
      BY <1>8, <2>2, <3>1, <3>3
    <3>4. QED
      BY <1>12, <3>2, <3>3
  <2>6. QED
    BY <1>1, <1>7, <1>8, <2>3, <2>4, <2>5, Zenon DEF Apart
<1>16. \A type, s, ref : Ledger!Said(type, s, ref) => Ledger!Said(type, s, ref)'
  BY Zenon DEF Ahead, Grows
<1>17. \A p \in Ledger!Elements(y.closed) : Ledger!Said("POSITION_CLOSED", p.symbol, p.id)'
  <2> SUFFICES ASSUME NEW p \in Ledger!Elements(y.closed) PROVE Ledger!Said("POSITION_CLOSED", p.symbol, p.id)'
    OBVIOUS
  <2>1. PICK k \in 1 .. n + 1 : p = w[k]
    BY <1>1, <1>8, Zenon DEF Ledger!Elements
  <2>2. CASE k = n + 1
    BY <1>1, <1>4, <1>8, <2>1, <2>2
  <2>3. CASE k \in 1 .. n
    <3>1. p \in Ledger!Elements(x.closed)
      BY <1>1, <1>6, <1>8, <2>1, <2>3, Zenon DEF Ledger!Elements
    <3>2. QED
      BY <1>16, <3>1, Zenon DEF PositionsOK, Told
  <2>4. QED
    BY <1>12, <2>2, <2>3
<1>18. \A p \in Ledger!Elements(y.open) : p.state = "EXIT_ALERT" => Ledger!Said("POSITION_EXIT_ALERT", p.symbol, p.id)'
  <2> SUFFICES ASSUME NEW p \in Ledger!Elements(y.open), p.state = "EXIT_ALERT"
               PROVE Ledger!Said("POSITION_EXIT_ALERT", p.symbol, p.id)'
    OBVIOUS
  <2>1. PICK k \in 1 .. m - 1 : p = b[k]
    BY <1>1, <1>7 DEF Ledger!Elements
  <2>2. p \in Ledger!Elements(x.open)
    <3>1. PICK u \in 1 .. m : b[k] = a[u]
      BY <1>10
    <3>2. QED
      BY <1>1, <1>6, <2>1, <3>1, Zenon DEF Ledger!Elements
  <2>3. QED
    BY <1>16, <2>2, Zenon DEF PositionsOK, Told
<1>19. QED
  BY <1>14, <1>15, <1>17, <1>18, AlikeOK, Zenon

\* A position was opened, under a number no other has, for a fact no other
\* position is of.
LEMMA BoughtOK ==
  ASSUME Ledger!LedgerAssumption, LedgerTypes, LedgerTypes', NEW x \in Ledger!PositionsFile, NEW y \in Ledger!PositionsFile,
         PositionsOK(x), Ahead, UNCHANGED <<done, acks, deaths>>, NEW n \in Nat, Cardinality(Trying) = n + 1, Cardinality(Trying') = n,
         NEW q \in Ledger!Position, y.open = Append(x.open, q), y.closed = x.closed, y.next = x.next + 1,
         q.id = x.next, q.state = "HOLD", NEW c \in Client, Pending(c), q.time = fact[c].time, q.time <= acks,
         \A d \in Client : Pending(d)' => q.time # fact'[d].time,
         Ledger!Said("POSITION_OPENED", q.symbol, q.id)'
  PROVE  PositionsOK(y)' /\ Rec(y) = Rec(x) \cup {q}
<1>1. PositionsOK(x)'
  BY StillOK
<1>2. PICK a, b, z : a = x.open /\ b = y.open /\ z = x.closed
  OBVIOUS
<1>3. a \in Seq(Ledger!Position) /\ x.next \in Nat /\ \A p \in Rec(x) : p \in Ledger!Position
  BY <1>2, RecIs, LedgerNumbers
<1>4. PICK m : m = Len(a)
  BY Zenon
<1>5. m \in Nat /\ DOMAIN a = 1 .. m /\ DOMAIN b = 1 .. m + 1 /\ b[m + 1] = q /\ \A k \in 1 .. m : b[k] = a[k]
  BY <1>2, <1>3, <1>4
<1>6. (\A k \in 1 .. m + 1 : k \in 1 .. m \/ k = m + 1) /\ (\A k \in 1 .. m : k \in 1 .. m + 1) /\ m + 1 \in 1 .. m + 1
  BY <1>5
<1>7. Rec(x) = {a[k] : k \in 1 .. m} \cup Ledger!Elements(z) /\ Rec(y) = {b[k] : k \in 1 .. m + 1} \cup Ledger!Elements(z)
  BY <1>2, <1>5 DEF Rec, Ledger!Elements
<1>8. Rec(y) = Rec(x) \cup {q}
  BY <1>5, <1>6, <1>7
<1>9. \A type, s, ref : Ledger!Said(type, s, ref) => Ledger!Said(type, s, ref)'
  BY Zenon DEF Ahead, Grows
<1>10. Told(y)'
  <2>1. \A p \in Rec(x) : Ledger!Said("POSITION_OPENED", p.symbol, p.id)'
    BY <1>9, Zenon DEF PositionsOK, Told
  <2>2. \A p \in Rec(y) : Ledger!Said("POSITION_OPENED", p.symbol, p.id)'
    BY <1>8, <2>1
  <2>3. \A p \in Ledger!Elements(y.closed) : Ledger!Said("POSITION_CLOSED", p.symbol, p.id)'
    BY <1>9, Zenon DEF PositionsOK, Told
  <2>4. \A p \in Ledger!Elements(y.open) : p.state = "EXIT_ALERT" => Ledger!Said("POSITION_EXIT_ALERT", p.symbol, p.id)'
    <3> SUFFICES ASSUME NEW p \in Ledger!Elements(y.open), p.state = "EXIT_ALERT"
                 PROVE Ledger!Said("POSITION_EXIT_ALERT", p.symbol, p.id)'
      OBVIOUS
    <3>1. PICK k \in 1 .. m + 1 : p = b[k]
      BY <1>2, <1>5 DEF Ledger!Elements
    <3>2. k \in 1 .. m
      BY <1>5, <1>6, <3>1
    <3>3. p \in Ledger!Elements(x.open)
      BY <1>2, <1>5, <3>1, <3>2 DEF Ledger!Elements
    <3>4. QED
      BY <1>9, <3>3, Zenon DEF PositionsOK, Told
  <2>5. QED
    BY <2>2, <2>3, <2>4 DEF Told, Rec, Ledger!Elements
<1>11. Numbered(y)'
  <2>1. /\ \A p \in Rec(x) : p.id < x.next /\ p.id \in Nat
        /\ \A p, r \in Rec(x) : p.id = r.id => p.time = r.time
    <3>1. /\ \A p \in Rec(x) : p.id < x.next
          /\ \A p, r \in Rec(x) : p.id = r.id => p.time = r.time
      BY Zenon DEF PositionsOK, Numbered
    <3>2. \A p \in Rec(x) : p.id \in Nat
      BY <1>3, LedgerNumbers DEF Ledger!Position
    <3>3. QED
      BY <3>1, <3>2
  <2>2. \A p \in Rec(x) : p.id < y.next /\ p.id # q.id
    BY <1>3, <2>1
  <2>3. \A p \in Rec(y) : p.id < y.next
    BY <1>3, <1>8, <2>2
  <2>4. \A p, r \in Rec(y) : p.id = r.id => p.time = r.time
    BY <1>8, <2>1, <2>2
  <2>5. y.next - 1 + Cardinality(Trying') <= acks' + deaths'
    <3>1. PICK d \in Nat, e \in Nat : d = acks /\ e = deaths
      BY DEF LedgerTypes
    <3>2. x.next - 1 + Cardinality(Trying) <= acks + deaths
      BY Zenon DEF PositionsOK, Numbered
    <3>3. PICK v \in Nat : v = x.next
      BY <1>3
    <3>4. v + 1 - 1 + n <= d + e
      <4>1. v - 1 + (n + 1) <= d + e
        BY <3>1, <3>2, <3>3
      <4>2. QED
        BY <4>1
    <3>5. y.next - 1 + Cardinality(Trying') <= d + e
      <4>1. PICK k, u : k = Cardinality(Trying') /\ u = y.next
        OBVIOUS
      <4>2. k = n /\ u = v + 1
        BY <3>3, <4>1
      <4>3. u - 1 + k <= d + e
        BY <3>4, <4>2
      <4>4. QED
        BY <4>1, <4>3
    <3>6. QED
      BY <3>1, <3>5, Zenon
  <2>6. QED
    BY <2>3, <2>4, <2>5, Zenon DEF Numbered, Rec, Ledger!Elements
<1>12. Holding(y)'
  <2> SUFFICES ASSUME "positions" \notin wrecked', NEW f \in done', f.kind = "buy"
               PROVE \E r \in Rec(y) : r.time = f.time /\ r.symbol = f.symbol /\ r.venue = f.venue
    BY DEF Holding, Rec, Ledger!Elements
  <2>1. PICK p \in Rec(x) : p.time = f.time /\ p.symbol = f.symbol /\ p.venue = f.venue
    BY <1>1 DEF PositionsOK, Holding, Rec, Ledger!Elements
  <2>2. QED
    BY <1>8, <2>1
<1>13. OnceEach(y)'
  <2> SUFFICES ASSUME deaths' = 0 PROVE Apart(y) /\ \A r \in Rec(y), d \in Client : Pending(d)' => r.time # fact'[d].time
    BY Zenon DEF OnceEach, Rec, Ledger!Elements, Pending, Apart
  <2>1. /\ Apart(x) /\ \A p \in Rec(x), d \in Client : Pending(d) => p.time # fact[d].time
    BY Zenon DEF PositionsOK, OnceEach, Apart
  <2>2. \A p \in Rec(x) : p.time # q.time
    BY <2>1
  <2>3. \A k \in 1 .. m : a[k] \in Rec(x)
    BY <1>7
  <2>4. \A k \in DOMAIN z : z[k] \in Rec(x)
    BY <1>7 DEF Ledger!Elements
  <2>5. /\ \A j, k \in 1 .. m : a[j].time = a[k].time => j = k
        /\ \A j, k \in DOMAIN z : z[j].time = z[k].time => j = k
        /\ \A j \in 1 .. m, k \in DOMAIN z : a[j].time # z[k].time
    <3>1. /\ \A j, k \in DOMAIN a : a[j].time = a[k].time => j = k
          /\ \A j, k \in DOMAIN z : z[j].time = z[k].time => j = k
          /\ \A j \in DOMAIN a, k \in DOMAIN z : a[j].time # z[k].time
      BY <1>2, <2>1, Zenon DEF Apart
    <3>2. DOMAIN a = 1 .. m
      BY <1>5
    <3>3. QED
      BY <3>1, <3>2, Zenon
  <2>6. \A j, k \in 1 .. m + 1 : b[j].time = b[k].time => j = k
    BY <1>5, <1>6, <2>2, <2>3, <2>5
  <2>7. \A j \in 1 .. m + 1, k \in DOMAIN z : b[j].time # z[k].time
    BY <1>5, <1>6, <2>2, <2>4, <2>5
  <2>8. Apart(y)
    BY <1>2, <1>5, <2>5, <2>6, <2>7 DEF Apart
  <2>9. \A p \in Rec(x), d \in Client : Pending(d)' => p.time # fact'[d].time
    BY <1>1 DEF PositionsOK, OnceEach, Rec, Ledger!Elements, Pending
  <2>10. QED
    BY <1>8, <2>8, <2>9
<1>14. \A r \in Rec(y) : r.time <= acks'
  BY <1>8 DEF PositionsOK
<1>15. QED
  BY <1>8, <1>10, <1>11, <1>12, <1>13, <1>14, Zenon DEF PositionsOK, Rec, Ledger!Elements

\* What is on disk, or in a transaction, is right.
LEMMA OnDisk ==
  ASSUME LedgerTypes, FactsOK, ledger.positions # Torn
  PROVE  \E x \in Ledger!PositionsFile : x = ledger.positions /\ PositionsOK(x)
<1>1. PositionsOK(ledger.positions)
  BY DEF FactsOK
<1>2. ledger.positions \in Ledger!PositionsFile
  BY DEF LedgerTypes, IsStore, Ledger!IsLedger
<1>3. PICK x : x = ledger.positions
  OBVIOUS
<1>4. QED
  BY <1>1, <1>2, <1>3

LEMMA InHand ==
  ASSUME LedgerTypes, FactsOK, NEW p \in Ledger!Process, station[p] \in InTransaction
  PROVE  \E x \in Ledger!PositionsFile : x = mem[p].positions /\ PositionsOK(x)
<1>1. PositionsOK(mem[p].positions)
  BY DEF FactsOK
<1>2. mem[p].positions \in Ledger!PositionsFile
  <2>1. IsStore(mem[p], {})
    BY DEF LedgerTypes
  <2>2. QED
    BY <2>1, StoreFacts
<1>3. PICK x : x = mem[p].positions
  OBVIOUS
<1>4. QED
  BY <1>1, <1>2, <1>3

LEMMA StillOnDisk ==
  ASSUME LedgerTypes, FactsOK, UNCHANGED ledger
  PROVE  ledger'.positions # Torn => \E x \in Ledger!PositionsFile : x = ledger'.positions /\ PositionsOK(x)
BY OnDisk

\* A number is left for who buys.
LEMMA NumberLeft ==
  ASSUME Ledger!LedgerAssumption, LedgerTypes, FactsOK, NEW c \in Client, station[c] = "locked"
  PROVE  mem[c].positions.next <= Ledger!MaxId
<1>1. c \in Ledger!Process
  BY LedgerNumbers
<1>2. PICK x \in Ledger!PositionsFile : x = mem[c].positions /\ PositionsOK(x)
  BY <1>1, InHand DEF InTransaction
<1>3. IsFiniteSet(Trying) /\ c \in Trying
  BY DEF FactsOK, Trying
<1>4. PICK n \in Nat : n = Cardinality(Trying)
  BY <1>3, FS_CardinalityType
<1>5. n # 0
  BY <1>3, <1>4, FS_EmptySet
<1>6. x.next - 1 + Cardinality(Trying) <= acks + deaths
  BY <1>2, Zenon DEF PositionsOK, Numbered
<1>7. PICK v \in Nat : v = x.next
  BY RecIs, LedgerNumbers
<1>8. PICK a \in 0 .. MaxAcks, d \in 0 .. MaxFaults : a = acks /\ d = deaths
  BY DEF LedgerTypes
<1>9. v - 1 + n <= a + d
  BY <1>4, <1>6, <1>7, <1>8
<1>10. v <= MaxAcks + MaxFaults
  BY <1>5, <1>8, <1>9, LedgerNumbers
<1>11. QED
  BY <1>2, <1>7, <1>10, LedgerNumbers

LEMMA StartAckFacts ==
  ASSUME Ledger!LedgerAssumption, LedgerTypes, HolderOK, FactsOK, NEW c \in Client, Ledger!StartAck(c)
  PROVE  FactsOK'
<1>1. c \in Ledger!Process /\ LedgerTypes'
  BY LedgerNumbers, StartAckIs
<1>2. /\ station[c] = "idle" /\ Becomes(station', station, c, "waiting") /\ OutsideSame(c) /\ acks' = acks + 1
      /\ fact'[c].time = acks' /\ UNCHANGED <<ledger, alerts, deaths, done, wrecked>>
  BY StartAckIs DEF Becomes, OutsideSame
<1>3. Grows
  BY <1>2, SaidStays
<1>4. acks + deaths < acks' + deaths' /\ acks <= acks' /\ deaths <= deaths'
  BY <1>2 DEF LedgerTypes
<1>5. Moving(c, "waiting")
  BY <1>2, <1>3, <1>4 DEF Moving
<1>6. "waiting" \notin InTransaction /\ "waiting" # "saving"
  BY DEF InTransaction
<1>7. QED
  BY <1>1, <1>2, <1>5, <1>6, StillOnDisk, FactsStep

LEMMA RetryAckFacts ==
  ASSUME Ledger!LedgerAssumption, LedgerTypes, HolderOK, FactsOK, NEW c \in Client, Ledger!RetryAck(c)
  PROVE  FactsOK'
<1>1. c \in Ledger!Process /\ LedgerTypes'
  BY LedgerNumbers, RetryAckIs
<1>2. PICK at \in {"idle", "waiting"} :
        /\ Becomes(station', station, c, at) /\ (at = "waiting" => UNCHANGED fact) /\ OutsideSame(c)
  BY <1>1, RetryAckIs DEF OutsideSame, Becomes
<1>3. station[c] = "dead" /\ UNCHANGED <<ledger, alerts, acks, deaths, done, wrecked>>
  BY RetryAckIs
<1>4. Grows
  BY <1>3, SaidStays
<1>5. deaths > 0 /\ acks <= acks /\ deaths <= deaths
  <2>1. deaths # 0
    BY <1>3 DEF HolderOK
  <2>2. QED
    BY <2>1 DEF LedgerTypes
<1>6. Moving(c, at)
  BY <1>2, <1>3, <1>4, <1>5 DEF Moving
<1>7. at \notin InTransaction /\ at # "saving"
  BY DEF InTransaction
<1>8. QED
  BY <1>1, <1>3, <1>6, <1>7, StillOnDisk, FactsStep

LEMMA EnterFacts ==
  ASSUME Ledger!LedgerAssumption, LedgerTypes, LedgerTypes', HolderOK, FactsOK, NEW p \in Ledger!Process, holder = Ledger!Free,
         station[p] \in {"idle", "waiting"}, p # Ledger!Session => station[p] = "waiting",
         Becomes(station', station, p, "locked"), Becomes(mem', mem, p, Ledger!Stored),
         UNCHANGED <<alerts, fact, acks, deaths, done, ledger, wrecked>>
  PROVE  FactsOK'
<1>1. OutsideSame(p) /\ Grows
  BY SaidStays DEF OutsideSame, Becomes
<1>2. acks <= acks /\ deaths <= deaths
  BY DEF LedgerTypes
<1>3. p \in Client => station[p] = "waiting"
  BY LedgerNumbers
<1>4. Moving(p, "locked")
  BY <1>1, <1>2, <1>3 DEF Moving
<1>5. \E x \in Ledger!PositionsFile : x = mem'[p].positions /\ PositionsOK(x)
  <2>1. PICK x : x = Ledger!Stored.positions
    OBVIOUS
  <2>2. x \in Ledger!PositionsFile /\ PositionsOK(x)
    BY <2>1, StoredOK
  <2>3. QED
    BY <2>1, <2>2 DEF Becomes
<1>6. QED
  BY <1>4, <1>5, StillOnDisk, FactsStep

\* A process that keeps what it has in hand goes on, or leaves.
LEMMA OnwardFacts ==
  ASSUME Ledger!LedgerAssumption, LedgerTypes, LedgerTypes', HolderOK, FactsOK, NEW p \in Ledger!Process, station[p] \in InTransaction,
         NEW at \in {"saving", "summary", "settling", "idle"}, Becomes(station', station, p, at), OutsideSame(p), Grows,
         deaths <= deaths', wrecked \subseteq wrecked', UNCHANGED <<acks, done, ledger>>,
         at # "idle" => mem'[p].positions = mem[p].positions /\ UNCHANGED fact,
         p \in Client /\ at = "saving" => fact[p].kind # "buy"
  PROVE  FactsOK'
<1>1. acks <= acks'
  BY DEF LedgerTypes
<1>2. station[p] # "idle" /\ at \notin {"waiting", "locked", "dead"}
  BY DEF InTransaction
<1>3. Moving(p, at)
  BY <1>1, <1>2 DEF Moving
<1>4. at \in InTransaction => \E x \in Ledger!PositionsFile : x = mem'[p].positions /\ PositionsOK(x)
  <2> SUFFICES ASSUME at \in InTransaction PROVE \E x \in Ledger!PositionsFile : x = mem'[p].positions /\ PositionsOK(x)
    OBVIOUS
  <2>1. at # "idle"
    BY DEF InTransaction
  <2>2. PICK x \in Ledger!PositionsFile : x = mem[p].positions /\ PositionsOK(x)
    BY InHand
  <2>3. QED
    BY <2>1, <2>2
<1>5. ~ (p \in Client /\ at = "saving" /\ fact'[p].kind = "buy")
  <2>1. at = "saving" => UNCHANGED fact
    OBVIOUS
  <2>2. QED
    BY <2>1
<1>6. QED
  BY <1>3, <1>4, <1>5, StillOnDisk, FactsStep

\* One more at the end.
LEMMA OneMore ==
  ASSUME NEW E, NEW old \in Seq(E), NEW a \in E, NEW new, new = old \o <<a>>, NEW x, x = Len(old)
  PROVE  /\ new \in Seq(E) /\ x \in Nat /\ DOMAIN old = 1 .. x /\ DOMAIN new = 1 .. x + 1 /\ new[x + 1] = a
         /\ \A k \in 1 .. x : new[k] = old[k]
<1>1. PICK one : one = <<a>>
  OBVIOUS
<1>2. one \in Seq(E) /\ Len(one) = 1 /\ one[1] = a
  BY <1>1
<1>3. one \in Seq(E)
  BY <1>2
<1>4. new = old \o one
  BY <1>1
<1>5. PICK y : y = Len(one)
  OBVIOUS
<1>6. y = 1
  BY <1>2, <1>5
<1>7. /\ new \in Seq(E) /\ x \in Nat /\ DOMAIN old = 1 .. x /\ DOMAIN new = 1 .. x + y
      /\ \A k \in 1 .. x : new[k] = old[k]
      /\ \A k \in 1 .. y : x + k \in 1 .. x + y /\ new[x + k] = one[k]
  BY <1>3, <1>4, <1>5, Joined
<1>8. QED
  BY <1>2, <1>6, <1>7

\* What was told is said.
LEMMA ToldIs ==
  ASSUME LedgerTypes, NEW type, NEW s, NEW ref, TellsOf(type, s, ref)
  PROVE  Grows /\ Ledger!Said(type, s, ref)'
<1>1. PICK a \in Notice : a.type = type /\ a.symbol = s /\ a.ref = ref /\ alerts' = alerts \o <<a>>
  BY Zenon DEF TellsOf
<1>2. alerts \in Seq(Notice)
  BY DEF LedgerTypes
<1>3. PICK old, new : old = alerts /\ new = alerts'
  OBVIOUS
<1>4. PICK x : x = Len(old)
  BY Zenon
<1>5. x \in Nat /\ DOMAIN new = 1 .. x + 1 /\ new[x + 1] = a
  BY <1>1, <1>2, <1>3, <1>4, OneMore
<1>6. x + 1 \in DOMAIN new
  BY <1>5
<1>7. Ledger!Said(type, s, ref)'
  <2>1. x + 1 \in DOMAIN alerts' /\ alerts'[x + 1] = a
    BY <1>3, <1>5, <1>6
  <2>2. QED
    BY <1>1, <2>1 DEF Ledger!Said
<1>8. PICK one : one = <<a>>
  BY Zenon
<1>9. one \in Seq(Notice)
  BY <1>8
<1>10. new = old \o one
  BY <1>1, <1>3, <1>8
<1>11. Grows
  BY <1>2, <1>3, <1>9, <1>10, SaidGrows, Zenon
<1>12. QED
  BY <1>7, <1>11

LEMMA AckBuyFacts ==
  ASSUME Ledger!LedgerAssumption, LedgerTypes, HolderOK, FactsOK, NEW c \in Client, Ledger!AckBuy(c)
  PROVE  FactsOK' /\ LedgerTypes'
<1>1. c \in Ledger!Process /\ Client \subseteq Ledger!Process
  BY LedgerNumbers
<1>2. station[c] = "locked" /\ fact[c].kind = "buy"
  BY DEF Ledger!AckBuy
<1>3. PICK m, f : m = mem[c] /\ f = fact[c]
  OBVIOUS
<1>4. m.positions.next <= Ledger!MaxId /\ IsStore(m, {})
  BY <1>1, <1>2, <1>3, NumberLeft DEF LedgerTypes
<1>5. /\ f \in Ledger!Fact /\ Becomes(station', station, c, "saving") /\ Becomes(mem', mem, c, Bought(m, f))
      /\ TellsOf("POSITION_OPENED", f.symbol, m.positions.next)
      /\ UNCHANGED <<ledger, holder, written, fact, acks, cycles, deaths, date, done, wrecked>>
      /\ LedgerTypes'
  BY <1>3, <1>4, AckBuyIs
<1>6. Grows /\ Ledger!Said("POSITION_OPENED", f.symbol, m.positions.next)'
  BY <1>5, ToldIs
<1>7. OutsideSame(c) /\ acks <= acks' /\ deaths <= deaths'
  BY <1>5 DEF OutsideSame, Becomes, LedgerTypes
<1>8. Moving(c, "saving")
  BY <1>2, <1>5, <1>6, <1>7 DEF Moving
<1>9. Ahead /\ Cardinality(Trying) \in Nat /\ Cardinality(Trying') \in Nat
  BY <1>1, <1>5, <1>8, AheadIs
<1>10. Cardinality(Trying') + 1 = Cardinality(Trying)
  <2>1. IsFiniteSet(Trying)
    BY DEF FactsOK
  <2>2. QED
    BY <1>1, <1>2, <1>5, <2>1, TryingMoves
<1>11. PICK x \in Ledger!PositionsFile : x = m.positions /\ PositionsOK(x)
  BY <1>1, <1>2, <1>3, InHand DEF InTransaction
<1>12. PICK q : q = Placed(m, f)
  OBVIOUS
<1>13. PICK y : y = Bought(m, f).positions
  OBVIOUS
<1>14. /\ q \in Ledger!Position /\ y \in Ledger!PositionsFile /\ y.open = Append(x.open, q) /\ y.closed = x.closed /\ y.next = x.next + 1
  <2>1. IsStore(Bought(m, f), {})
    BY <1>4, <1>5, BoughtIs
  <2>2. Bought(m, f).positions \in Ledger!PositionsFile
    BY <2>1, StoreFacts
  <2>3. QED
    BY <1>4, <1>5, <1>11, <1>12, <1>13, <2>2, BoughtIs
<1>15. q.id = x.next /\ q.state = "HOLD" /\ q.time = f.time /\ q.symbol = f.symbol /\ q.venue = f.venue
  BY <1>11, <1>12 DEF Placed
<1>16. q.time <= acks /\ Pending(c) /\ q.time = fact[c].time
  BY <1>2, <1>3, <1>15 DEF FactsOK, Pending
<1>17. \A d \in Client : Pending(d)' => q.time # fact'[d].time
  <2> SUFFICES ASSUME NEW d \in Client, Pending(d)' PROVE q.time # fact'[d].time
    OBVIOUS
  <2>1. station'[d] \in {"waiting", "locked"} /\ station'[c] = "saving"
    BY <1>5 DEF Pending, Becomes
  <2>2. d # c /\ station[d] = station'[d] /\ fact'[d] = fact[d]
    BY <1>1, <1>5, <2>1 DEF Becomes
  <2>3. QED
    BY <1>2, <1>16, <2>1, <2>2 DEF FactsOK
<1>18. Ledger!Said("POSITION_OPENED", q.symbol, q.id)'
  BY <1>6, <1>11, <1>15, Zenon
<1>19. PICK n \in Nat : n = Cardinality(Trying')
  BY <1>9
<1>20. Cardinality(Trying) = n + 1 /\ Cardinality(Trying') = n /\ UNCHANGED <<done, acks, deaths>>
  BY <1>5, <1>10, <1>19
<1>21. PositionsOK(y)' /\ Rec(y) = Rec(x) \cup {q}
  BY <1>5, <1>9, <1>11, <1>14, <1>15, <1>16, <1>17, <1>18, <1>20, BoughtOK
<1>22. y = mem'[c].positions /\ Fits(mem'[c].positions, fact'[c])
  <2>1. y = mem'[c].positions
    BY <1>5, <1>13 DEF Becomes
  <2>2. q \in Rec(y) /\ fact'[c] = f
    BY <1>3, <1>5, <1>21
  <2>3. Fits(y, f)
    BY <1>15, <2>2 DEF Fits
  <2>4. QED
    BY <2>1, <2>2, <2>3
<1>23. \E z \in Ledger!PositionsFile : z = mem'[c].positions /\ (PositionsOK(z) \/ PositionsOK(z)')
  BY <1>14, <1>21, <1>22
<1>24. FactsOK'
  BY <1>1, <1>5, <1>8, <1>22, <1>23, StillOnDisk, FactsStep
<1>25. QED
  BY <1>5, <1>24

LEMMA AckSellFacts ==
  ASSUME Ledger!LedgerAssumption, LedgerTypes, HolderOK, FactsOK, NEW c \in Client, Ledger!AckSell(c)
  PROVE  FactsOK'
<1>1. c \in Ledger!Process
  BY LedgerNumbers
<1>2. /\ station[c] = "locked" /\ fact[c].kind = "sell" /\ fact[c] \in Ledger!Fact /\ LedgerTypes'
      /\ UNCHANGED <<ledger, acks, deaths, done, wrecked>>
  BY AckSellIs
<1>3. acks <= acks' /\ deaths <= deaths' /\ station[c] \in InTransaction
  BY <1>2 DEF LedgerTypes, InTransaction
<1>4. CASE Ledger!Leave(c) /\ UNCHANGED alerts
  <2>1. Becomes(station', station, c, "idle") /\ OutsideSame(c)
    BY <1>1, <1>4, LeaveIs DEF Becomes, OutsideSame
  <2>2. Grows
    BY <1>4, SaidStays
  <2>3. QED
    BY <1>1, <1>2, <1>3, <2>1, <2>2, OnwardFacts
<1>5. CASE /\ Becomes(station', station, c, "saving") /\ UNCHANGED <<holder, written, fact>>
           /\ \E i \in DOMAIN mem[c].positions.open :
                    /\ mem[c].positions.open[i].symbol = fact[c].symbol
                    /\ Becomes(mem', mem, c, Sold(mem[c], fact[c], i))
                    /\ TellsOf("POSITION_CLOSED", fact[c].symbol, mem[c].positions.open[i].id)
  <2>1. PICK m, f : m = mem[c] /\ f = fact[c]
    OBVIOUS
  <2>2. PICK i \in DOMAIN m.positions.open :
          /\ m.positions.open[i].symbol = f.symbol /\ Becomes(mem', mem, c, Sold(m, f, i))
          /\ TellsOf("POSITION_CLOSED", f.symbol, m.positions.open[i].id)
    BY <1>5, <2>1
  <2>3. Grows /\ Ledger!Said("POSITION_CLOSED", f.symbol, m.positions.open[i].id)'
    BY <2>2, ToldIs
  <2>4. OutsideSame(c)
    BY <1>5, <2>2 DEF OutsideSame, Becomes
  <2>5. Moving(c, "saving")
    BY <1>2, <1>3, <1>5, <2>3, <2>4 DEF Moving
  <2>6. Ahead /\ Cardinality(Trying) \in Nat /\ Cardinality(Trying') \in Nat
    BY <1>1, <1>2, <2>5, AheadIs
  <2>7. PICK x \in Ledger!PositionsFile : x = m.positions /\ PositionsOK(x)
    BY <1>1, <1>3, <2>1, InHand
  <2>8. PICK y : y = Sold(m, f, i).positions
    OBVIOUS
  <2>9. /\ y \in Ledger!PositionsFile /\ y.open = Ledger!RemoveAt(x.open, i) /\ y.next = x.next
        /\ y.closed = Append(x.closed, [x.open[i] EXCEPT !.state = "CLOSED"])
    <3>1. IsStore(m, {}) /\ f \in Ledger!Fact
      BY <1>1, <1>2, <2>1 DEF LedgerTypes
    <3>2. IsStore(Sold(m, f, i), {})
      BY <3>1, SoldIs, Zenon
    <3>3. Sold(m, f, i).positions \in Ledger!PositionsFile
      BY <3>2, StoreFacts
    <3>4. QED
      BY <2>7, <2>8, <3>1, <3>3, SoldIs
  <2>10. i \in DOMAIN x.open /\ Ledger!Said("POSITION_CLOSED", x.open[i].symbol, x.open[i].id)'
    BY <2>2, <2>3, <2>7
  <2>11. PositionsOK(y)'
    BY <1>2, <2>6, <2>7, <2>9, <2>10, SoldOK, Zenon
  <2>12. y = mem'[c].positions
    BY <2>2, <2>8 DEF Becomes
  <2>13. \E z \in Ledger!PositionsFile : z = mem'[c].positions /\ (PositionsOK(z) \/ PositionsOK(z)')
    BY <2>9, <2>11, <2>12
  <2>14. fact'[c].kind # "buy"
    BY <1>2, <1>5
  <2>15. QED
    BY <1>1, <1>2, <2>5, <2>13, <2>14, StillOnDisk, FactsStep
<1>6. QED
  BY <1>4, <1>5, AckSellIs

LEMMA SkipFacts ==
  ASSUME Ledger!LedgerAssumption, LedgerTypes, HolderOK, FactsOK, NEW c \in Client, Ledger!Skip(c)
  PROVE  FactsOK'
<1>1. c \in Ledger!Process
  BY LedgerNumbers
<1>2. /\ station[c] = "locked" /\ fact[c].kind = "skip" /\ fact[c] \in Ledger!Fact /\ LedgerTypes'
      /\ Becomes(station', station, c, "saving") /\ Becomes(mem', mem, c, Skipped(mem[c], fact[c]))
      /\ TellsOf("HUMAN_SKIP", fact[c].symbol, 0)
      /\ UNCHANGED <<ledger, fact, acks, deaths, done, wrecked>>
  BY SkipIs
<1>3. deaths <= deaths' /\ station[c] \in InTransaction
  BY <1>2 DEF LedgerTypes, InTransaction
<1>4. OutsideSame(c)
  BY <1>2 DEF OutsideSame, Becomes
<1>5. Grows
  <2>1. PICK s : s = fact[c].symbol
    OBVIOUS
  <2>2. TellsOf("HUMAN_SKIP", s, 0)
    BY <1>2, <2>1
  <2>3. QED
    BY <2>2, ToldIs
<1>6. mem'[c].positions = mem[c].positions
  <2>1. PICK m, f : m = mem[c] /\ f = fact[c]
    OBVIOUS
  <2>2. IsStore(m, {}) /\ f \in Ledger!Fact
    BY <1>1, <1>2, <2>1 DEF LedgerTypes
  <2>3. Skipped(m, f).positions = m.positions
    BY <2>2, SkippedIs
  <2>4. QED
    BY <1>2, <2>1, <2>3 DEF Becomes
<1>7. fact[c].kind # "buy"
  BY <1>2
<1>8. QED
  BY <1>1, <1>2, <1>3, <1>4, <1>5, <1>6, <1>7, OnwardFacts

LEMMA SaveFacts ==
  ASSUME Ledger!LedgerAssumption, LedgerTypes, HolderOK, FactsOK, NEW p \in Ledger!Process, Ledger!SaveStep(p)
  PROVE  FactsOK'
<1>1. /\ station[p] \in Saving /\ LedgerTypes'
      /\ UNCHANGED <<alerts, holder, station, mem, fact, acks, deaths, done, wrecked>>
  BY SaveStepIs
<1>2. \E i \in 1 .. 3 : \A j \in 1 .. 3 : ledger'[FileAt(j)] = ledger[FileAt(j)] \/ (ledger'[FileAt(j)] \in {Torn, mem[p][FileAt(j)]})
  BY SaveStepIs
<1>3. ledger'.positions = ledger.positions \/ ledger'.positions = Torn \/ ledger'.positions = mem[p].positions
  BY <1>2, FilesAre
<1>4. station[p] \in InTransaction /\ station[p] \notin {"idle", "waiting", "locked", "dead"}
  BY <1>1 DEF Saving, InTransaction
<1>5. acks <= acks' /\ deaths <= deaths'
  BY <1>1 DEF LedgerTypes
<1>6. PICK at : at = station[p]
  OBVIOUS
<1>7. Becomes(station', station, p, at) /\ OutsideSame(p) /\ Grows
  BY <1>1, <1>6, SaidStays DEF Becomes, OutsideSame
<1>8. Moving(p, at)
  BY <1>1, <1>4, <1>5, <1>6, <1>7 DEF Moving
<1>9. PICK x \in Ledger!PositionsFile : x = mem[p].positions /\ PositionsOK(x)
  BY <1>4, InHand
<1>10. ledger'.positions # Torn => \E z \in Ledger!PositionsFile : z = ledger'.positions /\ PositionsOK(z)
  BY <1>3, <1>9, OnDisk
<1>11. \E z \in Ledger!PositionsFile : z = mem'[p].positions /\ PositionsOK(z)
  BY <1>1, <1>9
<1>12. p \in Client /\ at = "saving" => station[p] = "saving" /\ mem'[p] = mem[p] /\ fact'[p] = fact[p]
  BY <1>1, <1>6
<1>13. QED
  BY <1>1, <1>8, <1>10, <1>11, <1>12, FactsStep

LEMMA QuietFacts ==
  ASSUME Ledger!LedgerAssumption, LedgerTypes, HolderOK, FactsOK, Ledger!QuietCycle
  PROVE  FactsOK'
<1> DEFINE p == Ledger!Session
<1>1. p \in Ledger!Process /\ p \notin Client
  BY LedgerNumbers
<1>2. /\ station[p] = "locked" /\ Becomes(station', station, p, "summary") /\ LedgerTypes'
      /\ UNCHANGED <<ledger, mem, fact, acks, deaths, done, wrecked>>
  BY QuietCycleIs
<1>3. Grows
  <2>1. CASE UNCHANGED alerts
    BY <2>1, SaidStays
  <2>2. CASE TellsOf("LIVE_CONNECTION_LOST", "market", 0)
    BY <2>2, ToldIs
  <2>3. QED
    BY <2>1, <2>2, QuietCycleIs
<1>4. OutsideSame(p) /\ deaths <= deaths' /\ station[p] \in InTransaction /\ wrecked \subseteq wrecked'
  BY <1>2 DEF OutsideSame, LedgerTypes, InTransaction
<1>5. mem'[p].positions = mem[p].positions
  BY <1>2
<1>6. QED
  BY <1>1, <1>2, <1>3, <1>4, <1>5, OnwardFacts

LEMMA SummaryFacts ==
  ASSUME Ledger!LedgerAssumption, LedgerTypes, HolderOK, FactsOK, Ledger!WriteSummary
  PROVE  FactsOK'
<1> DEFINE p == Ledger!Session
<1>1. p \in Ledger!Process /\ p \notin Client
  BY LedgerNumbers
<1>2. /\ station[p] \in InTransaction /\ Becomes(station', station, p, "settling") /\ LedgerTypes'
      /\ UNCHANGED <<ledger, alerts, mem, fact, acks, deaths, done, wrecked>>
  BY WriteSummaryIs DEF InTransaction
<1>3. Grows
  BY <1>2, SaidStays
<1>4. OutsideSame(p) /\ deaths <= deaths' /\ wrecked \subseteq wrecked'
  BY <1>2 DEF OutsideSame, LedgerTypes
<1>5. mem'[p].positions = mem[p].positions
  BY <1>2
<1>6. QED
  BY <1>1, <1>2, <1>3, <1>4, <1>5, OnwardFacts

LEMMA FinishCycleFacts ==
  ASSUME Ledger!LedgerAssumption, LedgerTypes, HolderOK, FactsOK, Ledger!FinishCycle
  PROVE  FactsOK' /\ LedgerTypes'
<1> DEFINE p == Ledger!Session
<1>1. p \in Ledger!Process /\ p \notin Client
  BY LedgerNumbers
<1>2. /\ station[p] = "settling" /\ Ledger!Leave(p)
      /\ UNCHANGED <<ledger, summary, alerts, acks, cycles, deaths, date, done, wrecked>>
  BY DEF Ledger!FinishCycle
<1>3. LedgerTypes'
  <2>1. alerts' \in Seq(Notice) /\ deaths' \in 0 .. MaxFaults /\ done' \subseteq Ledger!Fact
    BY <1>2 DEF LedgerTypes
  <2>2. QED
    BY <1>1, <1>2, <2>1, LeaveTypes
<1>4. Becomes(station', station, p, "idle") /\ OutsideSame(p)
  BY <1>1, <1>2, LeaveIs DEF Becomes, OutsideSame
<1>5. Grows
  BY <1>2, SaidStays
<1>6. deaths <= deaths' /\ station[p] \in InTransaction /\ wrecked \subseteq wrecked'
  BY <1>2 DEF LedgerTypes, InTransaction
<1>7. FactsOK'
  BY <1>1, <1>2, <1>3, <1>4, <1>5, <1>6, OnwardFacts
<1>8. QED
  BY <1>3, <1>7

LEMMA DieFacts ==
  ASSUME Ledger!LedgerAssumption, LedgerTypes, HolderOK, FactsOK, NEW p \in Ledger!Process, Ledger!Die(p)
  PROVE  FactsOK'
<1>1. PICK at : at = IF p = Ledger!Session THEN "idle" ELSE "dead"
  OBVIOUS
<1>2. /\ station[p] \notin {"idle", "dead"} /\ deaths' = deaths + 1 /\ Becomes(station', station, p, at)
      /\ Becomes(mem', mem, p, Ledger!Default) /\ wrecked \subseteq wrecked' /\ LedgerTypes'
      /\ UNCHANGED <<ledger, alerts, fact, acks, done>>
  BY <1>1, DieIs
<1>3. OutsideSame(p) /\ Grows
  BY <1>2, SaidStays DEF OutsideSame, Becomes
<1>4. acks <= acks' /\ deaths <= deaths' /\ acks + deaths < acks' + deaths' /\ deaths' > 0
  BY <1>2 DEF LedgerTypes
<1>5. Moving(p, at)
  BY <1>1, <1>2, <1>3, <1>4 DEF Moving
<1>6. at \notin InTransaction /\ at # "saving"
  BY <1>1 DEF InTransaction
<1>7. QED
  BY <1>2, <1>5, <1>6, StillOnDisk, FactsStep

\* Nothing but the day, or the summary, or the count of cycles changed.
LEMMA SameFacts ==
  ASSUME Ledger!LedgerAssumption, LedgerTypes, LedgerTypes', HolderOK, FactsOK,
         UNCHANGED <<ledger, alerts, holder, station, mem, fact, acks, deaths, done, wrecked>>
  PROVE  FactsOK'
<1> DEFINE p == Ledger!Session
<1>1. p \in Ledger!Process /\ p \notin Client
  BY LedgerNumbers
<1>2. PICK at : at = station[p]
  OBVIOUS
<1>3. Becomes(station', station, p, at) /\ OutsideSame(p) /\ Grows
  BY <1>2, SaidStays DEF Becomes, OutsideSame
<1>4. acks <= acks' /\ deaths <= deaths' /\ wrecked \subseteq wrecked'
  BY DEF LedgerTypes
<1>5. Moving(p, at)
  BY <1>1, <1>3, <1>4 DEF Moving
<1>6. at \in InTransaction => \E z \in Ledger!PositionsFile : z = mem'[p].positions /\ PositionsOK(z)
  BY <1>1, <1>2, InHand
<1>7. QED
  BY <1>1, <1>5, <1>6, StillOnDisk, FactsStep

\* A command returned 0: what it did is on disk.
LEMMA FinishAckFacts ==
  ASSUME Ledger!LedgerAssumption, LedgerTypes, HolderOK, FactsOK, NEW c \in Client, Ledger!FinishAck(c)
  PROVE  FactsOK' /\ LedgerTypes'
<1>1. c \in Ledger!Process /\ Client \subseteq Ledger!Process
  BY LedgerNumbers
<1>2. /\ station[c] = "saving" /\ written[c] = 6 /\ Ledger!Leave(c) /\ done' = done \cup {fact[c]}
      /\ UNCHANGED <<ledger, summary, alerts, acks, cycles, deaths, date, wrecked>>
  BY DEF Ledger!FinishAck, Ledger!Saved
<1>3. LedgerTypes'
  <2>1. fact[c] \in Ledger!Fact
    BY <1>2 DEF HolderOK
  <2>2. alerts' \in Seq(Notice) /\ deaths' \in 0 .. MaxFaults /\ done' \subseteq Ledger!Fact
    BY <1>2, <2>1 DEF LedgerTypes
  <2>3. QED
    BY <1>1, <1>2, <2>2, LeaveTypes
<1>4. Becomes(station', station, c, "idle") /\ OutsideSame(c) /\ Grows
  BY <1>1, <1>2, LeaveIs, SaidStays DEF Becomes, OutsideSame
<1>5. acks <= acks' /\ deaths <= deaths' /\ wrecked \subseteq wrecked'
  BY <1>2 DEF LedgerTypes
<1>6. Moving(c, "idle")
  BY <1>4, <1>5 DEF Moving
<1>7. /\ Ahead /\ IsFiniteSet(Trying') /\ Cardinality(Trying) \in Nat /\ Cardinality(Trying') \in Nat
      /\ Cardinality(Trying') <= acks' + deaths'
  BY <1>1, <1>3, <1>6, AheadIs
<1>8. \A q \in Ledger!Process : station'[q] \notin InTransaction
  <2>1. holder = c /\ \A q \in Ledger!Process : q # c => station[q] \notin InTransaction
    BY <1>1, <1>2, HolderFacts DEF InTransaction
  <2>2. QED
    BY <1>4, <2>1 DEF Becomes, InTransaction
<1>9. PICK x \in Ledger!PositionsFile : x = mem[c].positions /\ PositionsOK(x)
  BY <1>1, <1>2, InHand DEF InTransaction
<1>10. ledger'.positions = x
  <2>1. ledger[FileAt(2)] = mem[c][FileAt(2)]
    BY <1>1, <1>2 DEF HolderOK, Saving
  <2>2. QED
    BY <1>2, <1>9, <2>1, FilesAre
<1>11. "positions" \notin wrecked' => \A f \in done' \ done : f.kind = "buy" => Fits(x, f)
  BY <1>2, <1>9 DEF FactsOK, Fits
<1>12. PositionsOK(x)'
  BY <1>3, <1>7, <1>9, <1>11, StillOK
<1>13. PositionsOK(ledger.positions)'
  BY <1>10, <1>12
<1>14. TimesOK'
  <2>1. "idle" # "idle" => FALSE
    OBVIOUS
  <2>2. QED
    BY <1>1, <1>3, <1>4, <1>5, TimesStep
<1>15. \A d \in Client : station'[d] # "saving"
  BY <1>1, <1>8 DEF InTransaction
<1>16. FactsOK'
  BY <1>7, <1>8, <1>13, <1>14, <1>15 DEF FactsOK, TimesOK, InTransaction
<1>17. QED
  BY <1>3, <1>16

LEMMA RunCycleFacts ==
  ASSUME Ledger!LedgerAssumption, LedgerTypes, HolderOK, FactsOK, Ledger!RunCycle
  PROVE  FactsOK'
<1> DEFINE p == Ledger!Session
<1>1. p \in Ledger!Process /\ p \notin Client
  BY LedgerNumbers
<1>2. station[p] = "locked" /\ LedgerTypes' /\ UNCHANGED <<ledger, acks, date, done, wrecked>>
  BY RunCycleIs
<1>3. PICK was : was = mem[p]
  OBVIOUS
<1>4. PICK opp, open, ev :
              /\ Cycled(was, opp, open, ev)
              /\ \/ /\ alerts' = alerts \o ev
                    /\ \E m : /\ IsStore(m, {}) /\ Becomes(mem', mem, p, m) /\ m.opportunities = opp
                              /\ m.positions.open = open /\ m.positions.closed = was.positions.closed
                              /\ m.positions.next = was.positions.next
                    /\ Becomes(station', station, p, "saving")
                    /\ UNCHANGED <<holder, written, fact, deaths>>
                 \/ /\ deaths' = deaths + 1 /\ Ledger!Leave(p)
                    /\ \E n \in 0 .. Len(ev) : alerts' = alerts \o SubSeq(ev, 1, n)
  BY <1>3, RunCycleIs, Zenon
<1>5. ev \in Seq(Notice) /\ alerts \in Seq(Notice)
  BY <1>4 DEF Cycled, LedgerTypes
<1>6. acks <= acks' /\ station[p] \in InTransaction /\ wrecked \subseteq wrecked'
  BY <1>2 DEF LedgerTypes, InTransaction
<1>7. CASE /\ deaths' = deaths + 1 /\ Ledger!Leave(p)
           /\ \E n \in 0 .. Len(ev) : alerts' = alerts \o SubSeq(ev, 1, n)
  <2>1. PICK n \in 0 .. Len(ev) : alerts' = alerts \o SubSeq(ev, 1, n)
    BY <1>7
  <2>2. SubSeq(ev, 1, n) \in Seq(Notice)
    BY <1>5
  <2>3. Grows
    BY <1>5, <2>1, <2>2, SaidGrows, Zenon
  <2>4. Becomes(station', station, p, "idle") /\ OutsideSame(p)
    BY <1>1, <1>7, LeaveIs DEF Becomes, OutsideSame
  <2>5. deaths <= deaths'
    BY <1>7 DEF LedgerTypes
  <2>6. QED
    BY <1>1, <1>2, <1>6, <2>3, <2>4, <2>5, OnwardFacts
<1>8. CASE /\ alerts' = alerts \o ev
           /\ \E m : /\ IsStore(m, {}) /\ Becomes(mem', mem, p, m) /\ m.opportunities = opp
                     /\ m.positions.open = open /\ m.positions.closed = was.positions.closed
                     /\ m.positions.next = was.positions.next
           /\ Becomes(station', station, p, "saving")
           /\ UNCHANGED <<holder, written, fact, deaths>>
  <2>1. PICK m : /\ IsStore(m, {}) /\ Becomes(mem', mem, p, m)
                 /\ m.positions.open = open /\ m.positions.closed = was.positions.closed
                 /\ m.positions.next = was.positions.next
    BY <1>8
  <2>2. Grows
    BY <1>5, <1>8, SaidGrows, Zenon
  <2>3. OutsideSame(p) /\ deaths <= deaths'
    BY <1>8, <2>1 DEF OutsideSame, Becomes, LedgerTypes
  <2>4. Moving(p, "saving")
    BY <1>1, <1>6, <1>8, <2>2, <2>3 DEF Moving
  <2>5. Ahead /\ Cardinality(Trying) \in Nat /\ Cardinality(Trying') \in Nat
    BY <1>1, <1>2, <2>4, AheadIs
  <2>6. PICK x \in Ledger!PositionsFile : x = was.positions /\ PositionsOK(x)
    BY <1>1, <1>3, <1>6, InHand
  <2>7. PICK y : y = m.positions
    OBVIOUS
  <2>8. y \in Ledger!PositionsFile /\ y.open = open /\ y.closed = x.closed /\ y.next = x.next
    BY <2>1, <2>6, <2>7, StoreFacts
  <2>9. SamePositions(x.open, y.open)
    BY <1>4, <2>6, <2>8 DEF Cycled
  <2>10. \A i \in DOMAIN y.open : y.open[i].state = "EXIT_ALERT" =>
           x.open[i].state = "EXIT_ALERT" \/ Ledger!Said("POSITION_EXIT_ALERT", y.open[i].symbol, y.open[i].id)'
    <3> SUFFICES ASSUME NEW i \in DOMAIN open, open[i].state = "EXIT_ALERT", was.positions.open[i].state # "EXIT_ALERT"
                 PROVE Ledger!Said("POSITION_EXIT_ALERT", open[i].symbol, open[i].id)'
      BY <2>6, <2>8
    <3>1. Tells(ev, was.opportunities, opp, was.positions.open, open)
      BY <1>4 DEF Cycled
    <3>2. PICK k \in DOMAIN ev : ev[k].type = "POSITION_EXIT_ALERT" /\ ev[k].symbol = open[i].symbol /\ ev[k].ref = open[i].id
      BY <3>1, Zenon DEF Tells
    <3>3. PICK old, new : old = alerts /\ new = alerts'
      OBVIOUS
    <3>4. PICK u, v : u = Len(old) /\ v = Len(ev)
      BY Zenon
    <3>5. /\ DOMAIN ev = 1 .. v /\ DOMAIN new = 1 .. u + v
          /\ \A j \in 1 .. v : u + j \in 1 .. u + v /\ new[u + j] = ev[j]
      BY <1>5, <1>8, <3>3, <3>4, Joined
    <3>6. u + k \in DOMAIN new /\ new[u + k] = ev[k]
      BY <3>5
    <3>7. QED
      BY <3>2, <3>3, <3>6 DEF Ledger!Said
  <2>11. PositionsOK(y)'
    BY <1>2, <2>5, <2>6, <2>8, <2>9, <2>10, CycledOK
  <2>12. y = mem'[p].positions
    BY <2>1, <2>7 DEF Becomes
  <2>13. \E z \in Ledger!PositionsFile : z = mem'[p].positions /\ (PositionsOK(z) \/ PositionsOK(z)')
    BY <2>8, <2>11, <2>12
  <2>14. QED
    BY <1>1, <1>2, <2>4, <2>13, StillOnDisk, FactsStep
<1>9. QED
  BY <1>4, <1>7, <1>8, Zenon

\* The stream goes on: what was said last of a symbol is what it is.
LEMMA AnnouncedOn ==
  ASSUME alerts \in Seq(Notice), NEW more \in Seq(Notice), alerts' = alerts \o more, NEW was, NEW opp, Announced(was),
         \A i \in DOMAIN alerts : alerts[i].type = "NEW_READY" => alerts[i].symbol \in Symbol,
         \A k \in DOMAIN more : more[k].type = "NEW_READY" => opp[more[k].symbol] = "READY",
         \A s \in Symbol : was[s] = "READY" /\ opp[s] # "READY" => \E k \in DOMAIN more : more[k].symbol = s
  PROVE  Announced(opp)'
<1>1. PICK old, new : old = alerts /\ new = alerts'
  OBVIOUS
<1>2. PICK x, y : x = Len(old) /\ y = Len(more)
  BY Zenon
<1>3. old \in Seq(Notice) /\ new = old \o more
  BY <1>1
<1>4. /\ x \in Nat /\ y \in Nat /\ DOMAIN old = 1 .. x /\ DOMAIN more = 1 .. y /\ DOMAIN new = 1 .. x + y
      /\ \A k \in 1 .. x : new[k] = old[k]
      /\ \A k \in 1 .. y : x + k \in 1 .. x + y /\ new[x + k] = more[k]
      /\ \A k \in 1 .. x + y : k > x => k - x \in 1 .. y /\ new[k] = more[k - x]
  BY <1>2, <1>3, Joined
<1>5. \A i \in 1 .. x : old[i].type = "NEW_READY" /\ (\A k \in 1 .. x : k > i => old[k].symbol # old[i].symbol) => was[old[i].symbol] = "READY"
  <2>1. \A i \in DOMAIN old : old[i].type = "NEW_READY" /\ (\A k \in DOMAIN old : k > i => old[k].symbol # old[i].symbol) => was[old[i].symbol] = "READY"
    BY <1>1, Zenon DEF Announced
  <2>2. DOMAIN old = 1 .. x
    BY <1>4
  <2>3. QED
    BY <2>1, <2>2, Zenon
<1>6. SUFFICES ASSUME NEW i \in 1 .. x + y, new[i].type = "NEW_READY", \A k \in 1 .. x + y : k > i => new[k].symbol # new[i].symbol
               PROVE  opp[new[i].symbol] = "READY"
  <2>1. DOMAIN new = 1 .. x + y
    BY <1>4
  <2>2. SUFFICES \A i \in DOMAIN new : new[i].type = "NEW_READY" /\ (\A k \in DOMAIN new : k > i => new[k].symbol # new[i].symbol) => opp[new[i].symbol] = "READY"
    BY <1>1, Zenon DEF Announced
  <2>3. QED
    BY <2>1, Zenon
<1>7. ASSUME i > x PROVE opp[new[i].symbol] = "READY"
  <2>1. i - x \in DOMAIN more /\ new[i] = more[i - x]
    BY <1>4, <1>7
  <2>2. QED
    BY <1>6, <2>1
<1>8. ASSUME ~ (i > x) PROVE opp[new[i].symbol] = "READY"
  <2>1. i \in 1 .. x /\ new[i] = old[i]
    BY <1>4, <1>8
  <2>2. \A k \in 1 .. x : k > i => old[k].symbol # old[i].symbol
    <3> SUFFICES ASSUME NEW k \in 1 .. x, k > i PROVE old[k].symbol # old[i].symbol
      OBVIOUS
    <3>1. k \in 1 .. x + y /\ new[k] = old[k]
      BY <1>4
    <3>2. QED
      BY <1>6, <2>1, <3>1
  <2>3. was[old[i].symbol] = "READY" /\ old[i].symbol \in Symbol
    BY <1>1, <1>4, <1>5, <1>6, <2>1, <2>2, Zenon
  <2>4. ASSUME opp[old[i].symbol] # "READY" PROVE FALSE
    <3>1. PICK k \in 1 .. y : more[k].symbol = old[i].symbol
      BY <1>4, <2>3, <2>4, Zenon
    <3>2. x + k \in 1 .. x + y /\ new[x + k] = more[k] /\ x + k > i
      BY <1>4, <2>1
    <3>3. QED
      BY <1>6, <2>1, <3>1, <3>2
  <2>5. QED
    BY <2>1, <2>4
<1>9. QED
  BY <1>7, <1>8

\* Two NEW_READY of a symbol have another event of it between them.
Between(a, i, j) ==
  i < j /\ a[i].type = "NEW_READY" /\ a[j].type = "NEW_READY" /\ a[i].symbol = a[j].symbol =>
    \E k \in i + 1 .. j - 1 : a[k].symbol = a[i].symbol

LEMMA StreamOn ==
  ASSUME alerts \in Seq(Notice), NEW more \in Seq(Notice), alerts' = alerts \o more, StreamOK, NEW was,
         deaths' = 0 => deaths = 0 /\ Announced(was),
         \A k \in DOMAIN more : more[k].type = "NEW_READY" => more[k].symbol \in Symbol,
         deaths' = 0 => \A k \in DOMAIN more : more[k].type = "NEW_READY" => was[more[k].symbol] # "READY",
         deaths' = 0 => \A j, k \in DOMAIN more :
           more[j].type = "NEW_READY" /\ more[k].type = "NEW_READY" /\ more[j].symbol = more[k].symbol => j = k
  PROVE  StreamOK'
<1>1. PICK old, new : old = alerts /\ new = alerts'
  OBVIOUS
<1>2. PICK x, y : x = Len(old) /\ y = Len(more)
  BY Zenon
<1>3. old \in Seq(Notice) /\ new = old \o more
  BY <1>1
<1>4. /\ x \in Nat /\ y \in Nat /\ DOMAIN old = 1 .. x /\ DOMAIN more = 1 .. y /\ DOMAIN new = 1 .. x + y
      /\ \A k \in 1 .. x : new[k] = old[k]
      /\ \A k \in 1 .. y : x + k \in 1 .. x + y /\ new[x + k] = more[k]
      /\ \A k \in 1 .. x + y : k > x => k - x \in 1 .. y /\ new[k] = more[k - x]
  BY <1>2, <1>3, Joined
<1>5. \A i \in DOMAIN new : new[i].type = "NEW_READY" => new[i].symbol \in Symbol
  <2> SUFFICES ASSUME NEW i \in 1 .. x + y, new[i].type = "NEW_READY" PROVE new[i].symbol \in Symbol
    BY <1>4
  <2>1. CASE i > x
    <3>1. i - x \in DOMAIN more /\ new[i] = more[i - x]
      BY <1>4, <2>1
    <3>2. QED
      BY <3>1
  <2>2. CASE ~ (i > x)
    <3>1. i \in DOMAIN old /\ new[i] = old[i]
      BY <1>4, <2>2
    <3>2. QED
      BY <1>1, <3>1 DEF StreamOK
  <2>3. QED
    BY <2>1, <2>2
<1>6. ASSUME deaths' = 0, NEW i \in 1 .. x + y, NEW j \in 1 .. x + y, i < j PROVE Between(new, i, j)
  <2>1. deaths = 0 /\ Announced(was)
    BY <1>6
  <2>2. \A a, b \in 1 .. x : a < b /\ old[a].type = "NEW_READY" /\ old[b].type = "NEW_READY" /\ old[a].symbol = old[b].symbol =>
          \E k \in a + 1 .. b - 1 : old[k].symbol = old[a].symbol
    BY <1>1, <1>4, <2>1, Zenon DEF StreamOK, Ledger!RepeatNeedsFault
  <2>3. \A a \in 1 .. x : old[a].type = "NEW_READY" /\ (\A k \in 1 .. x : k > a => old[k].symbol # old[a].symbol) => was[old[a].symbol] = "READY"
    BY <1>1, <1>4, <2>1, Zenon DEF Announced
  <2>4. ASSUME j <= x PROVE Between(new, i, j)
    <3>1. i \in 1 .. x /\ j \in 1 .. x /\ new[i] = old[i] /\ new[j] = old[j]
      BY <1>4, <1>6, <2>4
    <3>2. SUFFICES ASSUME old[i].type = "NEW_READY", old[j].type = "NEW_READY", old[i].symbol = old[j].symbol
                   PROVE  \E k \in i + 1 .. j - 1 : new[k].symbol = old[i].symbol
      BY <3>1 DEF Between
    <3>3. PICK k \in i + 1 .. j - 1 : old[k].symbol = old[i].symbol
      BY <1>6, <2>2, <3>1, <3>2
    <3>4. new[k] = old[k]
      BY <1>4, <3>1
    <3>5. QED
      BY <3>3, <3>4
  <2>5. ASSUME i > x PROVE Between(new, i, j)
    <3>1. i - x \in DOMAIN more /\ j - x \in DOMAIN more /\ new[i] = more[i - x] /\ new[j] = more[j - x] /\ i - x # j - x
      BY <1>4, <1>6, <2>5
    <3>2. QED
      BY <1>6, <3>1 DEF Between
  <2>6. ASSUME i <= x, j > x PROVE Between(new, i, j)
    <3>1. i \in 1 .. x /\ j - x \in DOMAIN more /\ new[i] = old[i] /\ new[j] = more[j - x]
      BY <1>4, <2>6
    <3>2. SUFFICES ASSUME old[i].type = "NEW_READY", new[j].type = "NEW_READY", old[i].symbol = new[j].symbol,
                          \A k \in i + 1 .. j - 1 : new[k].symbol # old[i].symbol
                   PROVE  FALSE
      BY <3>1 DEF Between
    <3>3. \A k \in 1 .. x : k > i => old[k].symbol # old[i].symbol
      <4> SUFFICES ASSUME NEW k \in 1 .. x, k > i PROVE old[k].symbol # old[i].symbol
        OBVIOUS
      <4>1. k \in i + 1 .. j - 1 /\ new[k] = old[k]
        BY <1>4, <2>6, <3>1
      <4>2. QED
        BY <3>2, <4>1
    <3>4. was[old[i].symbol] = "READY"
      BY <2>3, <3>1, <3>2, <3>3
    <3>5. was[more[j - x].symbol] # "READY"
      BY <1>6, <3>1, <3>2
    <3>6. QED
      BY <3>1, <3>2, <3>4, <3>5
  <2>7. QED
    BY <1>4, <2>4, <2>5, <2>6
<1>7. Ledger!RepeatNeedsFault'
  <2>1. deaths' = 0 => \A i, j \in DOMAIN new : Between(new, i, j)
    BY <1>4, <1>6, Zenon DEF Between
  <2>2. deaths' = 0 => \A i, j \in DOMAIN alerts' : Between(alerts', i, j)
    BY <1>1, <2>1
  <2>3. QED
    BY <2>2, Zenon DEF Ledger!RepeatNeedsFault, Between
<1>8. QED
  BY <1>1, <1>5, <1>7 DEF StreamOK

\* A lost connection is told once a day.
LEMMA LossesOn ==
  ASSUME alerts \in Seq(Notice), NEW more \in Seq(Notice), alerts' = alerts \o more, LossesOK, date \in Nat, date' = date,
         \A k \in DOMAIN more : more[k].day = date,
         \/ \A k \in DOMAIN more : more[k].type # "LIVE_CONNECTION_LOST"
         \/ Len(more) = 1 /\ Ledger!AlertsToday("LIVE_CONNECTION_LOST") = {}
  PROVE  LossesOK'
<1>1. PICK old, new : old = alerts /\ new = alerts'
  OBVIOUS
<1>2. PICK x, y : x = Len(old) /\ y = Len(more)
  BY Zenon
<1>3. old \in Seq(Notice) /\ new = old \o more
  BY <1>1
<1>4. /\ x \in Nat /\ y \in Nat /\ DOMAIN old = 1 .. x /\ DOMAIN more = 1 .. y /\ DOMAIN new = 1 .. x + y
      /\ \A k \in 1 .. x : new[k] = old[k]
      /\ \A k \in 1 .. y : x + k \in 1 .. x + y /\ new[x + k] = more[k]
      /\ \A k \in 1 .. x + y : k > x => k - x \in 1 .. y /\ new[k] = more[k - x]
  BY <1>2, <1>3, Joined
<1>5. \A i \in 1 .. x : old[i].day <= date
  BY <1>1, <1>4, Zenon DEF LossesOK
<1>6. \A i, j \in 1 .. x : old[i].type = "LIVE_CONNECTION_LOST" /\ old[j].type = old[i].type /\ old[i].day = old[j].day => i = j
  BY <1>1, <1>4, Zenon DEF LossesOK, Ledger!OneLossADay
<1>7. \A i \in 1 .. x : new[i] = old[i] /\ i \in 1 .. x + y
  BY <1>4
<1>8. \A i \in 1 .. x + y : i > x => /\ i - x \in 1 .. y /\ new[i] = more[i - x] /\ new[i].day = date
  <2> SUFFICES ASSUME NEW i \in 1 .. x + y, i > x PROVE i - x \in 1 .. y /\ new[i] = more[i - x] /\ new[i].day = date
    OBVIOUS
  <2>1. i - x \in DOMAIN more /\ i - x \in 1 .. y /\ new[i] = more[i - x]
    BY <1>4
  <2>2. QED
    BY <2>1
<1>9. \A i \in 1 .. x + y : new[i].day <= date
  <2> SUFFICES ASSUME NEW i \in 1 .. x + y PROVE new[i].day <= date
    BY Zenon
  <2>1. CASE i > x
    BY <1>8, <2>1
  <2>2. CASE ~ (i > x)
    <3>1. i \in 1 .. x
      BY <1>4, <2>2
    <3>2. QED
      BY <1>5, <1>7, <3>1, Zenon
  <2>3. QED
    BY <2>1, <2>2
<1>10. ASSUME NEW i \in 1 .. x + y, NEW j \in 1 .. x + y, i < j, new[i].type = "LIVE_CONNECTION_LOST",
              new[j].type = "LIVE_CONNECTION_LOST", new[i].day = new[j].day
       PROVE  FALSE
  <2>1. CASE j <= x
    <3>1. i \in 1 .. x /\ j \in 1 .. x
      BY <1>4, <1>10, <2>1
    <3>2. QED
      BY <1>6, <1>7, <1>10, <3>1
  <2>2. CASE j > x
    <3>1. j - x \in DOMAIN more /\ new[j] = more[j - x] /\ new[j].day = date
      BY <1>4, <1>8, <2>2
    <3>2. y = 1 /\ Ledger!AlertsToday("LIVE_CONNECTION_LOST") = {}
      BY <1>2, <1>10, <3>1, Zenon
    <3>3. i \in 1 .. x
      BY <1>4, <1>10, <2>2, <3>1, <3>2
    <3>4. old[i].type = "LIVE_CONNECTION_LOST" /\ old[i].day = date
      BY <1>7, <1>10, <3>1, <3>3
    <3>5. i \in Ledger!AlertsToday("LIVE_CONNECTION_LOST")
      BY <1>1, <1>4, <3>3, <3>4 DEF Ledger!AlertsToday
    <3>6. QED
      BY <3>2, <3>5
  <2>3. QED
    BY <1>4, <2>1, <2>2
<1>11. \A i, j \in 1 .. x + y : new[i].type = "LIVE_CONNECTION_LOST" /\ new[j].type = new[i].type /\ new[i].day = new[j].day => i = j
  <2> SUFFICES ASSUME NEW i \in 1 .. x + y, NEW j \in 1 .. x + y, new[i].type = "LIVE_CONNECTION_LOST", new[j].type = new[i].type,
                      new[i].day = new[j].day, i # j
               PROVE  FALSE
    OBVIOUS
  <2>1. i < j \/ j < i
    BY <1>4
  <2>2. QED
    BY <1>10, <2>1
<1>12. QED
  BY <1>1, <1>4, <1>9, <1>11, Zenon DEF LossesOK, Ledger!OneLossADay

\* A READY on disk, or in a transaction, was told.
LEMMA ReadyStays == ASSUME NEW o, ReadyTold(o), Grows PROVE ReadyTold(o)'
<1>1. \A s \in Symbol : o[s] = "READY" => Ledger!Said("NEW_READY", s, 0)
  BY Zenon DEF ReadyTold
<1>2. \A s \in Symbol : o[s] = "READY" => Ledger!Said("NEW_READY", s, 0)'
  BY <1>1, Zenon DEF Grows
<1>3. QED
  BY <1>2, Zenon DEF ReadyTold

LEMMA ReadyStep ==
  ASSUME Ledger!LedgerAssumption, LedgerTypes, LedgerTypes', ReadyOK, Grows, NEW p \in Ledger!Process, NEW at,
         Becomes(station', station, p, at), OutsideSame(p),
         ledger'.opportunities # Torn => \E o : o = ledger'.opportunities /\ (ReadyTold(o) \/ ReadyTold(o)'),
         at \in InTransaction => \E o : o = mem'[p].opportunities /\ (ReadyTold(o) \/ ReadyTold(o)')
  PROVE  ReadyOK'
<1>1. ledger'.opportunities # Torn => ReadyTold(ledger.opportunities)'
  <2> SUFFICES ASSUME ledger'.opportunities # Torn PROVE ReadyTold(ledger.opportunities)'
    OBVIOUS
  <2>1. PICK o : o = ledger'.opportunities /\ (ReadyTold(o) \/ ReadyTold(o)')
    OBVIOUS
  <2>2. ReadyTold(o)'
    BY <2>1, ReadyStays
  <2>3. QED
    BY <2>1, <2>2 DEF ReadyTold
<1>2. ASSUME NEW q \in Ledger!Process, station'[q] \in InTransaction PROVE ReadyTold(mem[q].opportunities)'
  <2>1. \E o : o = mem'[q].opportunities /\ (ReadyTold(o) \/ ReadyTold(o)')
    <3>1. CASE q = p
      BY <1>2, <3>1 DEF Becomes
    <3>2. CASE q # p
      <4>1. station'[q] = station[q] /\ mem'[q] = mem[q]
        BY <3>2 DEF Becomes, OutsideSame
      <4>2. ReadyTold(mem[q].opportunities)
        BY <1>2, <4>1 DEF ReadyOK
      <4>3. QED
        BY <4>1, <4>2
    <3>3. QED
      BY <3>1, <3>2
  <2>2. PICK o : o = mem'[q].opportunities /\ (ReadyTold(o) \/ ReadyTold(o)')
    BY <2>1
  <2>3. ReadyTold(o)'
    BY <2>2, ReadyStays
  <2>4. QED
    BY <2>2, <2>3 DEF ReadyTold
<1>3. QED
  BY <1>1, <1>2 DEF ReadyOK

\* The opportunities on disk, or in hand, are told.
LEMMA ReadyOnDisk ==
  ASSUME ReadyOK, UNCHANGED ledger
  PROVE  ledger'.opportunities # Torn => \E o : o = ledger'.opportunities /\ (ReadyTold(o) \/ ReadyTold(o)')
BY DEF ReadyOK

LEMMA ReadyInHand ==
  ASSUME ReadyOK, NEW p \in Ledger!Process, station[p] \in InTransaction
  PROVE  ReadyTold(mem[p].opportunities)
BY DEF ReadyOK

\* Without a death no file is lost: none is torn but by who saves.
LEMMA Intact ==
  ASSUME Ledger!LedgerAssumption, LedgerTypes, HolderOK, deaths = 0, \A q \in Ledger!Process : station[q] \in Saving => written[q] = 6
  PROVE  ledger.opportunities # Torn /\ ledger.positions # Torn
<1>1. wrecked = {}
  BY DEF HolderOK
<1>2. ASSUME NEW i \in 1 .. 2 PROVE ledger[FileAt(i)] # Torn
  <2>1. ledger[FileAt(i)] = Torn => FileAt(i) \in wrecked \/ \E p \in Ledger!Process : station[p] \in Saving /\ written[p] = 2 * i - 1
    BY Zenon DEF HolderOK
  <2>2. 2 * i - 1 # 6
    OBVIOUS
  <2>3. QED
    BY <1>1, <2>1, <2>2
<1>3. ledger[FileAt(1)] # Torn /\ ledger[FileAt(2)] # Torn
  BY <1>2
<1>4. QED
  BY <1>3, FilesAre

\* A store of the same positions and opportunities agrees as well.
LEMMA InStepSame ==
  ASSUME NEW m, NEW x, x.opportunities = m.opportunities, x.positions = m.positions, UNCHANGED alerts, InStep(m)
  PROVE  InStep(x)'
BY DEF InStep, Agree, Announced, Ledger!Holds, Ledger!HeldAt

\* A store a transaction makes agrees with its positions.
LEMMA BoughtAgree ==
  ASSUME Ledger!LedgerAssumption, NEW m, IsStore(m, {}), NEW f \in Ledger!Fact, m.positions.next <= Ledger!MaxId, Agree(m)
  PROVE  Agree(Bought(m, f))
<1>1. PICK y : y = Bought(m, f)
  OBVIOUS
<1>2. PICK q : q = Placed(m, f)
  OBVIOUS
<1>3. q.symbol = f.symbol /\ f.symbol \in Symbol
  BY <1>2 DEF Placed, Ledger!Fact
<1>4. PICK old \in Seq(Ledger!Position) : old = m.positions.open
  BY StoreFacts
<1>5. y.positions.open = Append(old, q)
  BY <1>1, <1>2, <1>4, BoughtIs
<1>6. \A s \in Symbol : y.opportunities[s] = IF s = f.symbol /\ m.opportunities[s] \in {"NEAR", "READY", "WATCH"} THEN "EXECUTED" ELSE m.opportunities[s]
  BY <1>1, BoughtIs
<1>7. PICK new : new = y.positions.open
  OBVIOUS
<1>8. PICK n : n = Len(old)
  OBVIOUS
<1>9. n \in Nat /\ DOMAIN old = 1 .. n /\ DOMAIN new = 1 .. n + 1 /\ new[n + 1] = q /\ \A k \in 1 .. n : new[k] = old[k]
  BY <1>4, <1>5, <1>7, <1>8
<1>10. \A s : Ledger!Holds(m, s) <=> \E k \in 1 .. n : old[k].symbol = s
  BY <1>4, <1>9 DEF Ledger!Holds, Ledger!HeldAt
<1>11. \A s : Ledger!Holds(y, s) <=> \E k \in 1 .. n + 1 : new[k].symbol = s
  BY <1>7, <1>9 DEF Ledger!Holds, Ledger!HeldAt
<1>12. \A s : Ledger!Holds(y, s) <=> Ledger!Holds(m, s) \/ s = f.symbol
  <2> SUFFICES ASSUME NEW s PROVE (\E k \in 1 .. n + 1 : new[k].symbol = s) <=> (\E k \in 1 .. n : old[k].symbol = s) \/ s = f.symbol
    BY <1>10, <1>11, Zenon
  <2>1. ASSUME NEW k \in 1 .. n + 1, new[k].symbol = s PROVE (\E j \in 1 .. n : old[j].symbol = s) \/ s = f.symbol
    <3>1. k \in 1 .. n \/ k = n + 1
      BY <1>9
    <3>2. QED
      BY <1>3, <1>9, <2>1, <3>1
  <2>2. ASSUME NEW k \in 1 .. n, old[k].symbol = s PROVE \E j \in 1 .. n + 1 : new[j].symbol = s
    <3>1. k \in 1 .. n + 1
      BY <1>9
    <3>2. QED
      BY <1>9, <2>2, <3>1
  <2>3. n + 1 \in 1 .. n + 1 /\ new[n + 1].symbol = f.symbol
    BY <1>3, <1>9
  <2>4. QED
    BY <2>1, <2>2, <2>3
<1>13. \A s \in Symbol : (m.opportunities[s] = "EXECUTED" => Ledger!Holds(m, s)) /\ (m.opportunities[s] = "READY" => ~ Ledger!Holds(m, s))
  BY DEF Agree
<1>14. \A s \in Symbol : (y.opportunities[s] = "EXECUTED" => Ledger!Holds(y, s)) /\ (y.opportunities[s] = "READY" => ~ Ledger!Holds(y, s))
  BY <1>6, <1>12, <1>13
<1>15. QED
  BY <1>1, <1>14 DEF Agree

LEMMA SoldAgree ==
  ASSUME Ledger!LedgerAssumption, NEW m, IsStore(m, {}), NEW f \in Ledger!Fact, NEW i \in DOMAIN m.positions.open,
         m.positions.open[i].symbol = f.symbol, Agree(m)
  PROVE  Agree(Sold(m, f, i))
<1>1. PICK y : y = Sold(m, f, i)
  OBVIOUS
<1>2. PICK old \in Seq(Ledger!Position) : old = m.positions.open
  BY StoreFacts
<1>3. PICK new : new = y.positions.open
  OBVIOUS
<1>4. new = Ledger!RemoveAt(old, i) /\ i \in DOMAIN old
  BY <1>1, <1>2, <1>3, SoldIs, Zenon
<1>5. \A s \in Symbol : y.opportunities[s] = IF s = f.symbol /\ m.opportunities[s] = "EXECUTED" THEN "WATCH" ELSE m.opportunities[s]
  BY <1>1, SoldIs, Zenon
<1>6. /\ new \in Seq(Ledger!Position) /\ Len(new) = Len(old) - 1
      /\ \A k \in DOMAIN new : new[k] = IF k < i THEN old[k] ELSE old[k + 1]
  BY <1>4, RemovedIs
<1>7. PICK n : n = Len(old)
  OBVIOUS
<1>8. n \in Nat /\ DOMAIN old = 1 .. n /\ Len(new) = n - 1 /\ i \in 1 .. n
  BY <1>4, <1>6, <1>7
<1>9. DOMAIN new = 1 .. n - 1
  BY <1>6, <1>8
<1>10. \A s : Ledger!Holds(m, s) <=> \E k \in 1 .. n : old[k].symbol = s
  BY <1>2, <1>8, Zenon DEF Ledger!Holds, Ledger!HeldAt
<1>11. \A s : Ledger!Holds(y, s) <=> \E k \in 1 .. n - 1 : new[k].symbol = s
  BY <1>3, <1>9 DEF Ledger!Holds, Ledger!HeldAt
<1>12. \A s : Ledger!Holds(y, s) => Ledger!Holds(m, s)
  <2> SUFFICES ASSUME NEW s, NEW k \in 1 .. n - 1, new[k].symbol = s PROVE \E j \in 1 .. n : old[j].symbol = s
    BY <1>10, <1>11
  <2>1. k \in 1 .. n /\ k + 1 \in 1 .. n /\ (new[k] = old[k] \/ new[k] = old[k + 1])
    BY <1>6, <1>8, <1>9
  <2>2. QED
    BY <2>1
<1>13. \A s : s # f.symbol /\ Ledger!Holds(m, s) => Ledger!Holds(y, s)
  <2> SUFFICES ASSUME NEW s, s # f.symbol, NEW k \in 1 .. n, old[k].symbol = s PROVE \E j \in 1 .. n - 1 : new[j].symbol = s
    BY <1>10, <1>11, Zenon
  <2>1. k # i
    BY <1>2
  <2>2. CASE k < i
    <3>1. k \in 1 .. n - 1 /\ new[k] = old[k]
      BY <1>6, <1>8, <1>9, <2>2
    <3>2. QED
      BY <3>1
  <2>3. CASE k > i
    <3>1. k - 1 \in 1 .. n - 1 /\ ~ (k - 1 < i) /\ k - 1 + 1 = k
      BY <1>8, <2>3
    <3>2. new[k - 1] = old[k]
      BY <1>6, <1>9, <3>1
    <3>3. QED
      BY <3>1, <3>2
  <2>4. QED
    BY <1>8, <2>1, <2>2, <2>3
<1>14. \A s \in Symbol : (m.opportunities[s] = "EXECUTED" => Ledger!Holds(m, s)) /\ (m.opportunities[s] = "READY" => ~ Ledger!Holds(m, s))
  BY DEF Agree
<1>15. \A s \in Symbol : (y.opportunities[s] = "EXECUTED" => Ledger!Holds(y, s)) /\ (y.opportunities[s] = "READY" => ~ Ledger!Holds(y, s))
  BY <1>5, <1>12, <1>13, <1>14
<1>16. QED
  BY <1>1, <1>15 DEF Agree

LEMMA CycledAgree ==
  ASSUME NEW m, NEW y, Agree(m), FollowsOn(m, y.opportunities), SamePositions(m.positions.open, y.positions.open)
  PROVE  Agree(y)
<1>1. \A s : Ledger!Holds(y, s) <=> Ledger!Holds(m, s)
  BY DEF SamePositions, Ledger!Holds, Ledger!HeldAt
<1>2. QED
  BY <1>1 DEF Agree, FollowsOn

\* One alert that is no NEW_READY.
LEMMA TellStep ==
  ASSUME LedgerTypes, StreamOK, LossesOK, NEW type, NEW s, NEW ref, TellsOf(type, s, ref), type # "NEW_READY",
         UNCHANGED <<deaths, date>>, NEW was, NEW opp, deaths = 0 => Announced(was),
         deaths = 0 => \A t \in Symbol : was[t] = "READY" /\ opp[t] # "READY" => t = s,
         type = "LIVE_CONNECTION_LOST" => Ledger!AlertsToday("LIVE_CONNECTION_LOST") = {}
  PROVE  (deaths = 0 => Announced(opp)') /\ StreamOK' /\ LossesOK'
<1>1. PICK a \in Notice : a.type = type /\ a.symbol = s /\ a.ref = ref /\ a.day = date /\ alerts' = alerts \o <<a>>
  BY Zenon DEF TellsOf
<1>2. PICK more : more = <<a>>
  BY Zenon
<1>3. more \in Seq(Notice)
  BY <1>2
<1>4. Len(more) = 1 /\ DOMAIN more = {1} /\ more[1] = a
  BY <1>2
<1>5. alerts' = alerts \o more /\ alerts \in Seq(Notice)
  BY <1>1, <1>2 DEF LedgerTypes
<1>6. \A k \in DOMAIN more : more[k].type # "NEW_READY" /\ more[k].symbol = s /\ more[k].day = date /\ more[k].type = type
  BY <1>1, <1>4
<1>7. \A i \in DOMAIN alerts : alerts[i].type = "NEW_READY" => alerts[i].symbol \in Symbol
  BY DEF StreamOK
<1>8. ASSUME deaths = 0 PROVE Announced(opp)'
  <2>1. \A t \in Symbol : was[t] = "READY" /\ opp[t] # "READY" => \E k \in DOMAIN more : more[k].symbol = t
    BY <1>4, <1>6, <1>8
  <2>2. Announced(was)
    BY <1>8
  <2>3. \A k \in DOMAIN more : more[k].type = "NEW_READY" => opp[more[k].symbol] = "READY"
    BY <1>6
  <2>4. QED
    BY <1>3, <1>5, <1>7, <2>1, <2>2, <2>3, AnnouncedOn, Zenon
<1>9. StreamOK'
  <2>1. deaths' = 0 => deaths = 0 /\ Announced(was)
    OBVIOUS
  <2>2. \A k \in DOMAIN more : more[k].type = "NEW_READY" => more[k].symbol \in Symbol
    BY <1>6
  <2>3. deaths' = 0 => \A k \in DOMAIN more : more[k].type = "NEW_READY" => was[more[k].symbol] # "READY"
    BY <1>6
  <2>4. deaths' = 0 => \A j, k \in DOMAIN more :
          more[j].type = "NEW_READY" /\ more[k].type = "NEW_READY" /\ more[j].symbol = more[k].symbol => j = k
    BY <1>6
  <2>5. QED
    BY <1>3, <1>5, <2>1, <2>2, <2>3, <2>4, StreamOn, Zenon
<1>10. LossesOK'
  <2>1. date \in Nat /\ date' = date
    BY DEF LedgerTypes
  <2>2. \A k \in DOMAIN more : more[k].day = date
    BY <1>6
  <2>3. \/ \A k \in DOMAIN more : more[k].type # "LIVE_CONNECTION_LOST"
        \/ Len(more) = 1 /\ Ledger!AlertsToday("LIVE_CONNECTION_LOST") = {}
    BY <1>4, <1>6
  <2>4. QED
    BY <1>3, <1>5, <2>1, <2>2, <2>3, LossesOn, Zenon
<1>11. QED
  BY <1>8, <1>9, <1>10

LEMMA StreamSame ==
  ASSUME StreamOK, LossesOK, LedgerTypes, UNCHANGED alerts, deaths' = 0 => deaths = 0, date' = date \/ date' = date + 1
  PROVE  StreamOK' /\ LossesOK'
<1>1. StreamOK'
  BY DEF StreamOK, Ledger!RepeatNeedsFault
<1>2. \A i \in DOMAIN alerts' : alerts'[i].day <= date'
  <2> SUFFICES ASSUME NEW i \in DOMAIN alerts PROVE alerts[i].day <= date'
    OBVIOUS
  <2>1. alerts[i].day <= date
    BY DEF LossesOK
  <2>2. alerts[i] \in Notice
    BY DEF LedgerTypes
  <2>3. alerts[i].day \in Nat /\ date \in Nat
    BY <2>2 DEF LedgerTypes, Notice
  <2>4. QED
    BY <2>1, <2>3
<1>3. LossesOK'
  BY <1>2 DEF LossesOK, Ledger!OneLossADay
<1>4. QED
  BY <1>1, <1>3

\* Between transactions the ledger agrees, in one the store of its process.
LEMMA OutsidePinned ==
  ASSUME Ledger!LedgerAssumption, LedgerTypes, HolderOK, PinnedOK, NEW c \in Client, station[c] \notin InTransaction, OutsideSame(c),
         UNCHANGED <<holder, ledger, alerts, deaths>>
  PROVE  PinnedOK'
<1>1. c \in Ledger!Process
  BY LedgerNumbers
<1>2. holder # c
  BY <1>1 DEF HolderOK
<1>3. SUFFICES ASSUME deaths = 0
               PROVE  (holder = Ledger!Free => InStep(ledger)') /\ \A p \in Ledger!Process : holder = p => InStep(mem[p])'
  BY DEF PinnedOK
<1>4. holder = Ledger!Free => InStep(ledger)'
  BY <1>3, InStepSame DEF PinnedOK
<1>5. ASSUME NEW p \in Ledger!Process, holder = p PROVE InStep(mem[p])'
  <2>1. mem'[p] = mem[p]
    BY <1>2, <1>5 DEF OutsideSame
  <2>2. InStep(mem[p])
    BY <1>3, <1>5 DEF PinnedOK
  <2>3. PICK m : m = mem[p]
    OBVIOUS
  <2>4. InStep(m)
    BY <2>2, <2>3
  <2>5. InStep(m)'
    BY <2>4, InStepSame
  <2>6. QED
    BY <2>1, <2>3, <2>5 DEF InStep, Agree, Announced, Ledger!Holds, Ledger!HeldAt
<1>6. QED
  BY <1>4, <1>5

LEMMA EnterPinned ==
  ASSUME Ledger!LedgerAssumption, LedgerTypes, HolderOK, PinnedOK, NEW p \in Ledger!Process, holder = Ledger!Free, holder' = p,
         Becomes(mem', mem, p, Ledger!Stored), UNCHANGED <<alerts, deaths>>
  PROVE  PinnedOK'
<1>1. p # Ledger!Free
  BY LedgerNumbers
<1>2. SUFFICES ASSUME deaths = 0 PROVE InStep(mem[p])'
  BY <1>1 DEF PinnedOK
<1>3. \A q \in Ledger!Process : station[q] \notin InTransaction
  BY HolderFacts
<1>4. ledger.opportunities # Torn /\ ledger.positions # Torn
  BY <1>2, <1>3, Intact DEF Saving, InTransaction
<1>5. mem'[p].opportunities = ledger.opportunities /\ mem'[p].positions = ledger.positions
  BY <1>4, StoredIs DEF Becomes, Files
<1>6. PICK m, x : m = ledger /\ x = mem'[p]
  OBVIOUS
<1>7. InStep(m)
  BY <1>2, <1>6 DEF PinnedOK
<1>8. InStep(x)'
  BY <1>5, <1>6, <1>7, InStepSame
<1>9. QED
  BY <1>6, <1>8 DEF InStep, Agree, Announced, Ledger!Holds, Ledger!HeldAt

LEMMA InsidePinned ==
  ASSUME Ledger!LedgerAssumption, NEW p \in Ledger!Process, holder' = p, NEW x, mem'[p] = x, deaths' = 0 => InStep(x)'
  PROVE  PinnedOK'
<1>1. p # Ledger!Free
  BY LedgerNumbers
<1>2. SUFFICES ASSUME deaths' = 0 PROVE InStep(mem[p])'
  BY <1>1 DEF PinnedOK
<1>3. QED
  BY <1>2 DEF InStep, Agree, Announced, Ledger!Holds, Ledger!HeldAt

LEMMA LeavePinned ==
  ASSUME Ledger!LedgerAssumption, LedgerTypes, HolderOK, PinnedOK, NEW p \in Ledger!Process, holder' = Ledger!Free,
         station[p] = "locked" \/ (station[p] \in Saving /\ written[p] = 6),
         UNCHANGED <<alerts, ledger>>, deaths' = 0 => deaths = 0
  PROVE  PinnedOK'
<1>1. holder = p
  BY DEF HolderOK, InTransaction, Saving
<1>2. Ledger!Free \notin Ledger!Process
  BY LedgerNumbers
<1>3. SUFFICES ASSUME deaths = 0 PROVE InStep(ledger)'
  BY <1>2 DEF PinnedOK
<1>4. \A q \in Ledger!Process : q # p => station[q] \notin InTransaction
  BY <1>1, HolderFacts
<1>5. ledger.opportunities # Torn /\ ledger.positions # Torn
  <2>1. \A q \in Ledger!Process : station[q] \in Saving => written[q] = 6
    BY <1>4 DEF Saving, InTransaction
  <2>2. QED
    BY <1>3, <2>1, Intact
<1>6. ledger.opportunities = mem[p].opportunities /\ ledger.positions = mem[p].positions
  <2>1. CASE station[p] = "locked"
    <3>1. \A f \in Files : mem[p][f] = IF ledger[f] = Torn THEN Ledger!Default[f] ELSE ledger[f]
      BY <2>1 DEF HolderOK
    <3>2. QED
      BY <1>5, <3>1 DEF Files
  <2>2. CASE station[p] \in Saving /\ written[p] = 6
    <3>1. \A i \in 1 .. 3 : written[p] >= 2 * i => ledger[FileAt(i)] = mem[p][FileAt(i)]
      BY <2>2, Zenon DEF HolderOK
    <3>2. ledger[FileAt(1)] = mem[p][FileAt(1)] /\ ledger[FileAt(2)] = mem[p][FileAt(2)]
      BY <2>2, <3>1
    <3>3. QED
      BY <3>2, FilesAre
  <2>3. QED
    BY <2>1, <2>2
<1>7. PICK m, x : m = mem[p] /\ x = ledger
  OBVIOUS
<1>8. InStep(m)
  BY <1>1, <1>3, <1>7 DEF PinnedOK
<1>9. InStep(x)'
  BY <1>6, <1>7, <1>8, InStepSame
<1>10. QED
  BY <1>7, <1>9 DEF InStep, Agree, Announced, Ledger!Holds, Ledger!HeldAt

\* The opportunities and the stream, action by action.
LEMMA StartAckOpps ==
  ASSUME Ledger!LedgerAssumption, LedgerTypes, LedgerTypes', HolderOK, OpportunitiesOK, LossesOK, NEW c \in Client, Ledger!StartAck(c)
  PROVE  OpportunitiesOK' /\ LossesOK'
<1>1. c \in Ledger!Process
  BY LedgerNumbers
<1>2. /\ station[c] = "idle" /\ Becomes(station', station, c, "waiting") /\ OutsideSame(c)
      /\ UNCHANGED <<ledger, alerts, holder, deaths, date>>
  BY <1>1, StartAckIs DEF Becomes, OutsideSame
<1>3. Grows /\ ReadyOK /\ PinnedOK /\ StreamOK
  BY <1>2, SaidStays DEF OpportunitiesOK
<1>4. ReadyOK'
  BY <1>1, <1>2, <1>3, ReadyOnDisk, ReadyStep DEF InTransaction
<1>5. PinnedOK'
  BY <1>2, <1>3, OutsidePinned DEF InTransaction
<1>6. StreamOK' /\ LossesOK'
  BY <1>2, <1>3, StreamSame
<1>7. QED
  BY <1>4, <1>5, <1>6 DEF OpportunitiesOK

LEMMA RetryAckOpps ==
  ASSUME Ledger!LedgerAssumption, LedgerTypes, LedgerTypes', HolderOK, OpportunitiesOK, LossesOK, NEW c \in Client, Ledger!RetryAck(c)
  PROVE  OpportunitiesOK' /\ LossesOK'
<1>1. c \in Ledger!Process
  BY LedgerNumbers
<1>2. /\ station[c] = "dead" /\ \E at \in {"waiting", "idle"} : Becomes(station', station, c, at)
      /\ OutsideSame(c) /\ UNCHANGED <<ledger, alerts, holder, deaths, date>>
  BY <1>1, RetryAckIs DEF Becomes, OutsideSame
<1>3. PICK at \in {"waiting", "idle"} : Becomes(station', station, c, at)
  BY <1>2
<1>4. Grows /\ ReadyOK /\ PinnedOK /\ StreamOK
  BY <1>2, SaidStays DEF OpportunitiesOK
<1>5. at \notin InTransaction
  BY DEF InTransaction
<1>6. ReadyOK'
  BY <1>1, <1>2, <1>3, <1>4, <1>5, ReadyOnDisk, ReadyStep
<1>7. PinnedOK'
  BY <1>2, <1>4, OutsidePinned DEF InTransaction
<1>8. StreamOK' /\ LossesOK'
  BY <1>2, <1>4, StreamSame
<1>9. QED
  BY <1>6, <1>7, <1>8 DEF OpportunitiesOK

LEMMA EnterOpps ==
  ASSUME Ledger!LedgerAssumption, LedgerTypes, LedgerTypes', HolderOK, OpportunitiesOK, LossesOK, NEW p \in Ledger!Process,
         holder = Ledger!Free, holder' = p, Becomes(station', station, p, "locked"), Becomes(mem', mem, p, Ledger!Stored),
         UNCHANGED <<alerts, fact, deaths, date, ledger>>
  PROVE  OpportunitiesOK' /\ LossesOK'
<1>1. OutsideSame(p) /\ Grows /\ ReadyOK /\ PinnedOK /\ StreamOK
  BY LedgerNumbers, SaidStays DEF OpportunitiesOK, OutsideSame, Becomes
<1>2. PICK o : o = Ledger!Stored.opportunities
  OBVIOUS
<1>3. ReadyTold(o)
  <2>1. CASE ledger.opportunities = Torn
    <3>1. o = [s \in Symbol |-> "none"]
      BY <1>2, <2>1, StoredIs, DefaultIs DEF Files
    <3>2. QED
      BY <3>1 DEF ReadyTold
  <2>2. CASE ledger.opportunities # Torn
    <3>1. o = ledger.opportunities
      BY <1>2, <2>2, StoredIs DEF Files
    <3>2. QED
      BY <1>1, <2>2, <3>1 DEF ReadyOK
  <2>3. QED
    BY <2>1, <2>2
<1>4. o = mem'[p].opportunities
  BY <1>2 DEF Becomes
<1>5. ReadyOK'
  BY <1>1, <1>3, <1>4, ReadyOnDisk, ReadyStep
<1>6. PinnedOK'
  BY <1>1, EnterPinned
<1>7. StreamOK' /\ LossesOK'
  BY <1>1, StreamSame
<1>8. QED
  BY <1>5, <1>6, <1>7 DEF OpportunitiesOK

\* A process goes on with the opportunities it has in hand.
LEMMA OnwardOpps ==
  ASSUME Ledger!LedgerAssumption, LedgerTypes, LedgerTypes', HolderOK, OpportunitiesOK, LossesOK, NEW p \in Ledger!Process,
         station[p] \in InTransaction, NEW at, Becomes(station', station, p, at),
         UNCHANGED <<alerts, holder, mem, fact, deaths, date>>,
         ledger'.opportunities # Torn => ledger'.opportunities \in {ledger.opportunities, mem[p].opportunities}
  PROVE  OpportunitiesOK' /\ LossesOK'
<1>1. OutsideSame(p) /\ Grows /\ ReadyOK /\ PinnedOK /\ StreamOK /\ holder = p
  BY SaidStays DEF OpportunitiesOK, OutsideSame, HolderOK
<1>2. ReadyTold(mem[p].opportunities)
  BY <1>1, ReadyInHand
<1>3. ledger'.opportunities # Torn => \E o : o = ledger'.opportunities /\ (ReadyTold(o) \/ ReadyTold(o)')
  BY <1>1, <1>2 DEF ReadyOK
<1>4. at \in InTransaction => \E o : o = mem'[p].opportunities /\ (ReadyTold(o) \/ ReadyTold(o)')
  BY <1>2
<1>5. ReadyOK'
  BY <1>1, <1>3, <1>4, ReadyStep
<1>6. PICK m : m = mem[p]
  OBVIOUS
<1>7. deaths = 0 => InStep(m)
  BY <1>1, <1>6 DEF PinnedOK
<1>8. deaths' = 0 => InStep(m)'
  BY <1>7, InStepSame
<1>9. PinnedOK'
  BY <1>1, <1>6, <1>8, InsidePinned
<1>10. StreamOK' /\ LossesOK'
  BY <1>1, StreamSame
<1>11. QED
  BY <1>5, <1>9, <1>10 DEF OpportunitiesOK

LEMMA SaveOpps ==
  ASSUME Ledger!LedgerAssumption, LedgerTypes, LedgerTypes', HolderOK, OpportunitiesOK, LossesOK, NEW p \in Ledger!Process, Ledger!SaveStep(p)
  PROVE  OpportunitiesOK' /\ LossesOK'
<1>1. /\ station[p] \in Saving /\ UNCHANGED <<alerts, holder, station, mem, fact, deaths, date>>
      /\ \E i \in 1 .. 3 : \A j \in 1 .. 3 : ledger'[FileAt(j)] = IF j # i THEN ledger[FileAt(j)]
                                              ELSE IF written[p] = 2 * i - 2 THEN Torn ELSE mem[p][FileAt(j)]
  BY SaveStepIs
<1>2. ledger'[FileAt(1)] \in {ledger[FileAt(1)], Torn, mem[p][FileAt(1)]}
  BY <1>1
<1>3. ledger'.opportunities # Torn => ledger'.opportunities \in {ledger.opportunities, mem[p].opportunities}
  BY <1>2, FilesAre
<1>4. PICK at : at = station[p] /\ at \in InTransaction
  BY <1>1 DEF Saving, InTransaction
<1>5. Becomes(station', station, p, at)
  BY <1>1, <1>4 DEF Becomes
<1>6. QED
  BY <1>1, <1>3, <1>4, <1>5, OnwardOpps

LEMMA SummaryOpps ==
  ASSUME Ledger!LedgerAssumption, LedgerTypes, LedgerTypes', HolderOK, OpportunitiesOK, LossesOK, Ledger!WriteSummary
  PROVE  OpportunitiesOK' /\ LossesOK'
<1>1. PICK p \in Ledger!Process : p = Ledger!Session
  BY LedgerNumbers
<1>2. /\ station[p] \in {"summary", "saving"} /\ Becomes(station', station, p, "settling")
      /\ UNCHANGED <<ledger, alerts, holder, mem, fact, deaths, date>>
  BY <1>1, WriteSummaryIs
<1>3. station[p] \in InTransaction /\ ledger'.opportunities \in {ledger.opportunities, mem[p].opportunities}
  BY <1>2 DEF InTransaction
<1>4. QED
  BY <1>2, <1>3, OnwardOpps

\* A process gives the lock back, the files being what it has.
LEMMA LeaveOpps ==
  ASSUME Ledger!LedgerAssumption, LedgerTypes, LedgerTypes', HolderOK, OpportunitiesOK, LossesOK, NEW p \in Ledger!Process,
         station[p] = "locked" \/ (station[p] \in Saving /\ written[p] = 6), Ledger!Leave(p),
         UNCHANGED <<ledger, alerts, deaths, date>>
  PROVE  OpportunitiesOK' /\ LossesOK'
<1>1. holder' = Ledger!Free /\ Becomes(station', station, p, "idle") /\ OutsideSame(p)
  BY LeaveIs DEF OutsideSame, Becomes
<1>2. Grows /\ ReadyOK /\ PinnedOK /\ StreamOK /\ "idle" \notin InTransaction
  BY SaidStays DEF OpportunitiesOK, InTransaction
<1>3. ReadyOK'
  BY <1>1, <1>2, ReadyOnDisk, ReadyStep
<1>4. PinnedOK'
  BY <1>1, <1>2, LeavePinned
<1>5. StreamOK' /\ LossesOK'
  BY <1>2, StreamSame
<1>6. QED
  BY <1>3, <1>4, <1>5 DEF OpportunitiesOK

LEMMA DieOpps ==
  ASSUME Ledger!LedgerAssumption, LedgerTypes, LedgerTypes', HolderOK, OpportunitiesOK, LossesOK, NEW p \in Ledger!Process, Ledger!Die(p)
  PROVE  OpportunitiesOK' /\ LossesOK'
<1>1. /\ deaths' = deaths + 1 /\ Becomes(station', station, p, IF p = Ledger!Session THEN "idle" ELSE "dead") /\ OutsideSame(p)
      /\ UNCHANGED <<ledger, alerts, date>>
  BY DieIs DEF OutsideSame, Becomes
<1>2. PICK at : at = IF p = Ledger!Session THEN "idle" ELSE "dead"
  OBVIOUS
<1>3. at \notin InTransaction /\ Becomes(station', station, p, at)
  BY <1>1, <1>2 DEF InTransaction
<1>4. Grows /\ ReadyOK /\ StreamOK /\ deaths' # 0
  BY <1>1, SaidStays DEF OpportunitiesOK, LedgerTypes
<1>5. ReadyOK'
  BY <1>1, <1>3, <1>4, ReadyOnDisk, ReadyStep
<1>6. PinnedOK'
  BY <1>4 DEF PinnedOK
<1>7. StreamOK' /\ LossesOK'
  BY <1>1, <1>4, StreamSame
<1>8. QED
  BY <1>5, <1>6, <1>7 DEF OpportunitiesOK

LEMMA SameOpps ==
  ASSUME LedgerTypes, OpportunitiesOK, LossesOK, UNCHANGED <<ledger, alerts, holder, station, mem, deaths>>, date' = date \/ date' = date + 1
  PROVE  OpportunitiesOK' /\ LossesOK'
<1>1. ReadyOK /\ PinnedOK /\ StreamOK
  BY DEF OpportunitiesOK
<1>2. StreamOK' /\ LossesOK'
  BY <1>1, StreamSame
<1>3. ReadyOK'
  BY <1>1 DEF ReadyOK, ReadyTold, Ledger!Said
<1>4. PinnedOK'
  BY <1>1 DEF PinnedOK, InStep, Agree, Announced, Ledger!Holds, Ledger!HeldAt
<1>5. QED
  BY <1>2, <1>3, <1>4 DEF OpportunitiesOK

\* A process tells what it did, and has it in hand.
LEMMA CommitOpps ==
  ASSUME Ledger!LedgerAssumption, LedgerTypes, LedgerTypes', HolderOK, OpportunitiesOK, LossesOK, NEW p \in Ledger!Process,
         station[p] = "locked", Becomes(station', station, p, "saving"), NEW y, Becomes(mem', mem, p, y),
         NEW type, NEW s, NEW ref, TellsOf(type, s, ref), type \notin {"NEW_READY", "LIVE_CONNECTION_LOST"},
         NEW m, m = mem[p], Agree(m) => Agree(y),
         \A t \in Symbol : y.opportunities[t] = "READY" => m.opportunities[t] = "READY",
         \A t \in Symbol : m.opportunities[t] = "READY" /\ y.opportunities[t] # "READY" => t = s,
         UNCHANGED <<ledger, holder, fact, deaths, date>>
  PROVE  OpportunitiesOK' /\ LossesOK'
<1>1. holder = p /\ station[p] \in InTransaction /\ OutsideSame(p) /\ ReadyOK /\ PinnedOK /\ StreamOK
  BY DEF HolderOK, InTransaction, OutsideSame, Becomes, OpportunitiesOK
<1>2. Grows
  BY ToldIs
<1>3. ReadyTold(m.opportunities)
  BY <1>1, ReadyInHand
<1>4. PICK o : o = y.opportunities
  OBVIOUS
<1>5. ReadyTold(o) /\ o = mem'[p].opportunities
  BY <1>3, <1>4 DEF ReadyTold, Becomes
<1>6. ReadyOK'
  BY <1>1, <1>2, <1>5, ReadyOnDisk, ReadyStep
<1>7. deaths = 0 => Agree(m) /\ Announced(m.opportunities)
  BY <1>1 DEF PinnedOK, InStep
<1>8. PICK was : was = m.opportunities
  OBVIOUS
<1>9. deaths = 0 => Announced(was)
  BY <1>7, <1>8
<1>10. \A t \in Symbol : was[t] = "READY" /\ o[t] # "READY" => t = s
  BY <1>4, <1>8
<1>11. (deaths = 0 => Announced(o)') /\ StreamOK' /\ LossesOK'
  BY <1>1, <1>9, <1>10, TellStep
<1>12. deaths' = 0 => InStep(y)'
  <2> SUFFICES ASSUME deaths = 0 PROVE InStep(y)'
    OBVIOUS
  <2>1. Agree(y)
    BY <1>7
  <2>2. Announced(y.opportunities)'
    BY <1>4, <1>11 DEF Announced
  <2>3. QED
    BY <2>1, <2>2 DEF InStep, Agree, Ledger!Holds, Ledger!HeldAt
<1>13. PinnedOK'
  BY <1>1, <1>12, InsidePinned DEF Becomes
<1>14. QED
  BY <1>6, <1>11, <1>13 DEF OpportunitiesOK

LEMMA AckBuyOpps ==
  ASSUME Ledger!LedgerAssumption, LedgerTypes, LedgerTypes', HolderOK, FactsOK, OpportunitiesOK, LossesOK, NEW c \in Client, Ledger!AckBuy(c)
  PROVE  OpportunitiesOK' /\ LossesOK'
<1>1. c \in Ledger!Process /\ station[c] = "locked"
  BY LedgerNumbers DEF Ledger!AckBuy
<1>2. PICK m, f : m = mem[c] /\ f = fact[c]
  OBVIOUS
<1>3. m.positions.next <= Ledger!MaxId /\ IsStore(m, {})
  BY <1>1, <1>2, NumberLeft, Zenon DEF LedgerTypes
<1>4. PICK y : y = Bought(m, f)
  OBVIOUS
<1>5. /\ f \in Ledger!Fact /\ Becomes(station', station, c, "saving") /\ Becomes(mem', mem, c, y)
      /\ TellsOf("POSITION_OPENED", f.symbol, m.positions.next) /\ UNCHANGED <<ledger, holder, fact, deaths, date>>
  BY <1>2, <1>3, <1>4, AckBuyIs
<1>6. Agree(m) => Agree(y)
  BY <1>3, <1>4, <1>5, BoughtAgree
<1>7. \A s \in Symbol : y.opportunities[s] = IF s = f.symbol /\ m.opportunities[s] \in {"NEAR", "READY", "WATCH"} THEN "EXECUTED" ELSE m.opportunities[s]
  BY <1>3, <1>4, <1>5, BoughtIs
<1>8. /\ \A t \in Symbol : y.opportunities[t] = "READY" => m.opportunities[t] = "READY"
      /\ \A t \in Symbol : m.opportunities[t] = "READY" /\ y.opportunities[t] # "READY" => t = f.symbol
  BY <1>7
<1>9. QED
  BY <1>1, <1>2, <1>5, <1>6, <1>8, CommitOpps

LEMMA AckSellOpps ==
  ASSUME Ledger!LedgerAssumption, LedgerTypes, LedgerTypes', HolderOK, FactsOK, OpportunitiesOK, LossesOK, NEW c \in Client, Ledger!AckSell(c)
  PROVE  OpportunitiesOK' /\ LossesOK'
<1>1. c \in Ledger!Process /\ station[c] = "locked" /\ UNCHANGED <<ledger, deaths, date>>
  BY LedgerNumbers, AckSellIs
<1>2. PICK m, f : m = mem[c] /\ f = fact[c]
  OBVIOUS
<1>3. IsStore(m, {}) /\ f \in Ledger!Fact
  BY <1>1, <1>2, AckSellIs DEF LedgerTypes
<1>4. \/ Ledger!Leave(c) /\ UNCHANGED alerts
      \/ /\ Becomes(station', station, c, "saving") /\ UNCHANGED <<holder, written, fact>>
         /\ \E i \in DOMAIN m.positions.open :
              /\ m.positions.open[i].symbol = f.symbol
              /\ Becomes(mem', mem, c, Sold(m, f, i))
              /\ TellsOf("POSITION_CLOSED", f.symbol, m.positions.open[i].id)
  BY <1>2, AckSellIs
<1>5. CASE Ledger!Leave(c) /\ UNCHANGED alerts
  BY <1>1, <1>5, LeaveOpps
<1>6. CASE /\ Becomes(station', station, c, "saving") /\ UNCHANGED <<holder, written, fact>>
           /\ \E i \in DOMAIN m.positions.open :
                /\ m.positions.open[i].symbol = f.symbol
                /\ Becomes(mem', mem, c, Sold(m, f, i))
                /\ TellsOf("POSITION_CLOSED", f.symbol, m.positions.open[i].id)
  <2>1. PICK i \in DOMAIN m.positions.open : /\ m.positions.open[i].symbol = f.symbol /\ Becomes(mem', mem, c, Sold(m, f, i))
                                             /\ TellsOf("POSITION_CLOSED", f.symbol, m.positions.open[i].id)
    BY <1>6
  <2>2. PICK y : y = Sold(m, f, i)
    OBVIOUS
  <2>3. Agree(m) => Agree(y)
    BY <1>3, <2>1, <2>2, SoldAgree
  <2>4. \A s \in Symbol : y.opportunities[s] = IF s = f.symbol /\ m.opportunities[s] = "EXECUTED" THEN "WATCH" ELSE m.opportunities[s]
    BY <1>3, <2>2, SoldIs, Zenon
  <2>5. /\ \A t \in Symbol : y.opportunities[t] = "READY" => m.opportunities[t] = "READY"
        /\ \A t \in Symbol : m.opportunities[t] = "READY" /\ y.opportunities[t] # "READY" => t = f.symbol
    BY <2>4
  <2>6. Becomes(mem', mem, c, y)
    BY <2>1, <2>2
  <2>7. QED
    BY <1>1, <1>2, <1>6, <2>1, <2>3, <2>5, <2>6, CommitOpps
<1>7. QED
  BY <1>4, <1>5, <1>6

LEMMA SkipOpps ==
  ASSUME Ledger!LedgerAssumption, LedgerTypes, LedgerTypes', HolderOK, OpportunitiesOK, LossesOK, NEW c \in Client, Ledger!Skip(c)
  PROVE  OpportunitiesOK' /\ LossesOK'
<1>1. c \in Ledger!Process /\ station[c] = "locked"
  BY LedgerNumbers, SkipIs
<1>2. PICK m, f : m = mem[c] /\ f = fact[c]
  OBVIOUS
<1>3. IsStore(m, {})
  BY <1>1, <1>2 DEF LedgerTypes
<1>4. PICK y : y = Skipped(m, f)
  OBVIOUS
<1>5. /\ f \in Ledger!Fact /\ Becomes(station', station, c, "saving") /\ Becomes(mem', mem, c, y)
      /\ TellsOf("HUMAN_SKIP", f.symbol, 0) /\ UNCHANGED <<ledger, holder, fact, deaths, date>>
  BY <1>2, <1>4, SkipIs
<1>6. y.positions = m.positions /\ y.opportunities = m.opportunities
  BY <1>3, <1>4, <1>5, SkippedIs
<1>7. Agree(m) => Agree(y)
  BY <1>6 DEF Agree, Ledger!Holds, Ledger!HeldAt
<1>8. QED
  BY <1>1, <1>2, <1>5, <1>6, <1>7, CommitOpps

LEMMA QuietOpps ==
  ASSUME Ledger!LedgerAssumption, LedgerTypes, LedgerTypes', HolderOK, OpportunitiesOK, LossesOK, Ledger!QuietCycle
  PROVE  OpportunitiesOK' /\ LossesOK'
<1>1. PICK p \in Ledger!Process : p = Ledger!Session
  BY LedgerNumbers
<1>2. /\ station[p] = "locked" /\ station[p] \in InTransaction /\ Becomes(station', station, p, "summary")
      /\ UNCHANGED <<ledger, holder, mem, fact, deaths, date>>
      /\ \/ UNCHANGED alerts
         \/ Ledger!AlertsToday("LIVE_CONNECTION_LOST") = {} /\ TellsOf("LIVE_CONNECTION_LOST", "market", 0)
  BY <1>1, QuietCycleIs DEF InTransaction
<1>3. CASE UNCHANGED alerts
  BY <1>2, <1>3, OnwardOpps
<1>4. CASE Ledger!AlertsToday("LIVE_CONNECTION_LOST") = {} /\ TellsOf("LIVE_CONNECTION_LOST", "market", 0)
  <2>1. holder = p /\ OutsideSame(p) /\ ReadyOK /\ PinnedOK /\ StreamOK /\ Grows
    BY <1>2, <1>4, ToldIs DEF HolderOK, OutsideSame, OpportunitiesOK
  <2>2. PICK m, o : m = mem[p] /\ o = m.opportunities
    OBVIOUS
  <2>3. ReadyTold(o) /\ o = mem'[p].opportunities
    BY <1>2, <2>1, <2>2, ReadyInHand
  <2>4. ReadyOK'
    BY <1>2, <2>1, <2>3, ReadyOnDisk, ReadyStep
  <2>5. deaths = 0 => Agree(m) /\ Announced(o)
    BY <2>1, <2>2 DEF PinnedOK, InStep
  <2>6. (deaths = 0 => Announced(o)') /\ StreamOK' /\ LossesOK'
    BY <1>2, <1>4, <2>1, <2>5, TellStep
  <2>7. deaths' = 0 => InStep(m)'
    BY <1>2, <2>2, <2>5, <2>6 DEF InStep, Agree, Announced, Ledger!Holds, Ledger!HeldAt
  <2>8. PinnedOK'
    BY <1>2, <2>1, <2>2, <2>7, InsidePinned
  <2>9. QED
    BY <2>4, <2>6, <2>8 DEF OpportunitiesOK
<1>5. QED
  BY <1>2, <1>3, <1>4

LEMMA FinishAckOpps ==
  ASSUME Ledger!LedgerAssumption, LedgerTypes, LedgerTypes', HolderOK, OpportunitiesOK, LossesOK, NEW c \in Client, Ledger!FinishAck(c)
  PROVE  OpportunitiesOK' /\ LossesOK'
<1>1. /\ station[c] \in Saving /\ written[c] = 6 /\ Ledger!Leave(c) /\ UNCHANGED <<ledger, alerts, deaths, date>>
  BY DEF Ledger!FinishAck, Ledger!Saved, Saving
<1>2. c \in Ledger!Process
  BY LedgerNumbers
<1>3. QED
  BY <1>1, <1>2, LeaveOpps

LEMMA FinishCycleOpps ==
  ASSUME Ledger!LedgerAssumption, LedgerTypes, LedgerTypes', HolderOK, OpportunitiesOK, LossesOK, Ledger!FinishCycle
  PROVE  OpportunitiesOK' /\ LossesOK'
<1>1. PICK p \in Ledger!Process : p = Ledger!Session
  BY LedgerNumbers
<1>2. /\ station[p] \in Saving /\ written[p] = 6 /\ Ledger!Leave(p) /\ UNCHANGED <<ledger, alerts, deaths, date>>
  BY <1>1 DEF Ledger!FinishCycle, Ledger!Saved, Saving
<1>3. QED
  BY <1>2, LeaveOpps

LEMMA SaidNow ==
  ASSUME alerts \in Seq(Notice), NEW more \in Seq(Notice), alerts' = alerts \o more, NEW k \in DOMAIN more
  PROVE  Ledger!Said(more[k].type, more[k].symbol, more[k].ref)'
<1>1. PICK old, new : old = alerts /\ new = alerts'
  BY Zenon
<1>2. PICK u, v : u = Len(old) /\ v = Len(more)
  BY Zenon
<1>3. old \in Seq(Notice) /\ new = old \o more
  BY <1>1
<1>4. /\ DOMAIN more = 1 .. v /\ DOMAIN new = 1 .. u + v
      /\ \A j \in 1 .. v : u + j \in 1 .. u + v /\ new[u + j] = more[j]
  BY <1>2, <1>3, Joined
<1>5. u + k \in DOMAIN new /\ new[u + k] = more[k]
  BY <1>4
<1>6. QED
  BY <1>1, <1>5, Zenon DEF Ledger!Said

\* A cycle tells what it changes, or raises.
LEMMA RaisedOpps ==
  ASSUME Ledger!LedgerAssumption, LedgerTypes, LedgerTypes', HolderOK, OpportunitiesOK, LossesOK, NEW p \in Ledger!Process, Ledger!Leave(p),
         NEW m, NEW opp, NEW open, NEW ev, Cycled(m, opp, open, ev), NEW n \in 0 .. Len(ev), alerts' = alerts \o SubSeq(ev, 1, n),
         deaths' = deaths + 1, UNCHANGED <<ledger, date>>
  PROVE  OpportunitiesOK' /\ LossesOK'
<1>1. ev \in Seq(Notice) /\ alerts \in Seq(Notice) /\ Tells(ev, m.opportunities, opp, m.positions.open, open)
  BY DEF Cycled, LedgerTypes
<1>2. PICK more : more = SubSeq(ev, 1, n)
  BY Zenon
<1>3. more \in Seq(Notice) /\ \A k \in DOMAIN more : k \in DOMAIN ev /\ more[k] = ev[k]
  BY <1>1, <1>2
<1>4. alerts' = alerts \o more /\ alerts \in Seq(Notice) /\ more \in Seq(Notice)
  BY <1>1, <1>2, <1>3
<1>5. \A k \in DOMAIN ev : /\ ev[k].day = date /\ ev[k].type # "LIVE_CONNECTION_LOST"
                           /\ ev[k].type = "NEW_READY" => ev[k].symbol \in Symbol
  BY <1>1, Zenon DEF Tells
<1>6. \A k \in DOMAIN more : /\ more[k].day = date /\ more[k].type # "LIVE_CONNECTION_LOST"
                             /\ more[k].type = "NEW_READY" => more[k].symbol \in Symbol
  BY <1>3, <1>5
<1>7. Becomes(station', station, p, "idle") /\ OutsideSame(p) /\ Grows /\ "idle" \notin InTransaction /\ deaths' # 0
  <2>1. Grows
    BY <1>4, SaidGrows, Zenon
  <2>2. deaths' # 0
    BY DEF LedgerTypes
  <2>3. QED
    BY <2>1, <2>2, LeaveIs DEF Becomes, OutsideSame, InTransaction
<1>8. ReadyOK /\ StreamOK
  BY DEF OpportunitiesOK
<1>9. ReadyOK'
  BY <1>7, <1>8, ReadyOnDisk, ReadyStep
<1>10. PinnedOK'
  BY <1>7 DEF PinnedOK
<1>11. StreamOK'
  <2>1. PICK was : was = opp
    OBVIOUS
  <2>2. \A k \in DOMAIN more : more[k].type = "NEW_READY" => more[k].symbol \in Symbol
    BY <1>6
  <2>3. QED
    BY <1>4, <1>7, <1>8, <2>2, StreamOn, Zenon
<1>12. LossesOK'
  <2>1. date \in Nat /\ date' = date
    BY DEF LedgerTypes
  <2>2. \A k \in DOMAIN more : more[k].day = date
    BY <1>6
  <2>3. \A k \in DOMAIN more : more[k].type # "LIVE_CONNECTION_LOST"
    BY <1>6
  <2>4. QED
    BY <1>4, <2>1, <2>2, <2>3, LossesOn, Zenon
<1>13. QED
  BY <1>9, <1>10, <1>11, <1>12 DEF OpportunitiesOK

LEMMA CycledOpps ==
  ASSUME Ledger!LedgerAssumption, LedgerTypes, LedgerTypes', HolderOK, OpportunitiesOK, LossesOK, NEW p \in Ledger!Process,
         station[p] = "locked", Becomes(station', station, p, "saving"), NEW m, m = mem[p], NEW opp, NEW open, NEW ev,
         Cycled(m, opp, open, ev), alerts' = alerts \o ev, NEW y, Becomes(mem', mem, p, y), y.opportunities = opp, y.positions.open = open,
         UNCHANGED <<ledger, holder, fact, deaths, date>>
  PROVE  OpportunitiesOK' /\ LossesOK'
<1>1. ev \in Seq(Notice) /\ alerts \in Seq(Notice) /\ Tells(ev, m.opportunities, opp, m.positions.open, open)
  BY DEF Cycled, LedgerTypes
<1>2. holder = p /\ station[p] \in InTransaction /\ OutsideSame(p) /\ ReadyOK /\ PinnedOK /\ StreamOK
  BY DEF HolderOK, InTransaction, OutsideSame, Becomes, OpportunitiesOK
<1>3. Grows
  BY <1>1, SaidGrows, Zenon
<1>4. PICK was : was = m.opportunities
  OBVIOUS
<1>5. /\ \A k \in DOMAIN ev : /\ ev[k].day = date /\ ev[k].type # "LIVE_CONNECTION_LOST"
                              /\ ev[k].type = "NEW_READY" => ev[k].symbol \in Symbol /\ opp[ev[k].symbol] = "READY" /\ was[ev[k].symbol] # "READY"
      /\ \A j, k \in DOMAIN ev : ev[j].type = "NEW_READY" /\ ev[k].type = "NEW_READY" /\ ev[j].symbol = ev[k].symbol => j = k
      /\ \A s \in Symbol : was[s] # opp[s] /\ opp[s] \in {"READY", "NEAR", "INVALIDATED"} =>
           \E k \in DOMAIN ev : ev[k].symbol = s /\ ev[k].ref = 0 /\ (opp[s] = "READY" => ev[k].type = "NEW_READY")
  BY <1>1, <1>4, Zenon DEF Tells
<1>6. ReadyTold(opp)'
  <2> SUFFICES ASSUME NEW s \in Symbol, opp[s] = "READY" PROVE Ledger!Said("NEW_READY", s, 0)'
    BY DEF ReadyTold
  <2>1. CASE was[s] = "READY"
    <3>1. ReadyTold(m.opportunities)
      BY <1>2, ReadyInHand
    <3>2. Ledger!Said("NEW_READY", s, 0)
      BY <1>4, <2>1, <3>1 DEF ReadyTold
    <3>3. QED
      BY <1>3, <3>2, Zenon DEF Grows
  <2>2. CASE was[s] # "READY"
    <3>1. PICK k \in DOMAIN ev : ev[k].symbol = s /\ ev[k].ref = 0 /\ ev[k].type = "NEW_READY"
      BY <1>5, <2>2
    <3>2. Ledger!Said(ev[k].type, ev[k].symbol, ev[k].ref)'
      BY <1>1, SaidNow, Zenon
    <3>3. QED
      BY <3>1, <3>2, Zenon
  <2>3. QED
    BY <2>1, <2>2
<1>7. ReadyOK'
  <2>1. opp = mem'[p].opportunities
    BY DEF Becomes
  <2>2. QED
    BY <1>2, <1>3, <1>6, <2>1, ReadyOnDisk, ReadyStep
<1>8. deaths = 0 => Agree(m) /\ Announced(was)
  BY <1>2, <1>4 DEF PinnedOK, InStep
<1>9. FollowsOn(m, opp) /\ SamePositions(m.positions.open, open)
  BY DEF Cycled
<1>10. deaths' = 0 => InStep(y)'
  <2> SUFFICES ASSUME deaths = 0 PROVE InStep(y)'
    OBVIOUS
  <2>1. Agree(y)
    BY <1>8, <1>9, CycledAgree
  <2>2. \A s \in Symbol : was[s] = "READY" /\ opp[s] # "READY" => \E k \in DOMAIN ev : ev[k].symbol = s
    <3> SUFFICES ASSUME NEW s \in Symbol, was[s] = "READY", opp[s] # "READY" PROVE \E k \in DOMAIN ev : ev[k].symbol = s
      OBVIOUS
    <3>1. ~ Ledger!Holds(m, s)
      BY <1>4, <1>8 DEF Agree
    <3>2. opp[s] \in {"READY", "NEAR", "INVALIDATED"}
      BY <1>4, <1>9, <3>1 DEF FollowsOn
    <3>3. QED
      BY <1>5, <3>2
  <2>3. \A k \in DOMAIN ev : ev[k].type = "NEW_READY" => opp[ev[k].symbol] = "READY"
    BY <1>5
  <2>4. \A i \in DOMAIN alerts : alerts[i].type = "NEW_READY" => alerts[i].symbol \in Symbol
    BY <1>2 DEF StreamOK
  <2>5. Announced(was)
    BY <1>8
  <2>6. ev \in Seq(Notice) /\ alerts \in Seq(Notice)
    BY <1>1
  <2>7. Announced(opp)'
    BY <2>2, <2>3, <2>4, <2>5, <2>6, AnnouncedOn, Zenon
  <2>8. QED
    BY <2>1, <2>7, Zenon DEF InStep, Agree, Announced, Ledger!Holds, Ledger!HeldAt
<1>11. PinnedOK'
  BY <1>2, <1>10, InsidePinned DEF Becomes
<1>12. StreamOK'
  <2>1. deaths' = 0 => deaths = 0 /\ Announced(was)
    BY <1>8
  <2>2. \A k \in DOMAIN ev : ev[k].type = "NEW_READY" => ev[k].symbol \in Symbol
    BY <1>5
  <2>3. deaths' = 0 => \A k \in DOMAIN ev : ev[k].type = "NEW_READY" => was[ev[k].symbol] # "READY"
    BY <1>5
  <2>4. deaths' = 0 => \A j, k \in DOMAIN ev :
          ev[j].type = "NEW_READY" /\ ev[k].type = "NEW_READY" /\ ev[j].symbol = ev[k].symbol => j = k
    BY <1>5
  <2>5. ev \in Seq(Notice) /\ alerts \in Seq(Notice)
    BY <1>1
  <2>6. QED
    BY <1>2, <2>1, <2>2, <2>3, <2>4, <2>5, StreamOn, Zenon
<1>13. LossesOK'
  <2>1. date \in Nat /\ date' = date
    BY DEF LedgerTypes
  <2>2. \A k \in DOMAIN ev : ev[k].day = date
    BY <1>5
  <2>3. \A k \in DOMAIN ev : ev[k].type # "LIVE_CONNECTION_LOST"
    BY <1>5
  <2>4. ev \in Seq(Notice) /\ alerts \in Seq(Notice)
    BY <1>1
  <2>5. QED
    BY <2>1, <2>2, <2>3, <2>4, LossesOn, Zenon
<1>14. QED
  BY <1>7, <1>11, <1>12, <1>13 DEF OpportunitiesOK

LEMMA RunCycleOpps ==
  ASSUME Ledger!LedgerAssumption, LedgerTypes, LedgerTypes', HolderOK, OpportunitiesOK, LossesOK, Ledger!RunCycle
  PROVE  OpportunitiesOK' /\ LossesOK'
<1>1. PICK p \in Ledger!Process : p = Ledger!Session
  BY LedgerNumbers
<1>2. station[p] = "locked" /\ UNCHANGED <<ledger, date>>
  BY <1>1, RunCycleIs
<1>3. PICK m : m = mem[p]
  OBVIOUS
<1>4. PICK opp, open, ev :
              /\ Cycled(m, opp, open, ev)
              /\ \/ /\ alerts' = alerts \o ev
                    /\ \E y : /\ IsStore(y, {}) /\ Becomes(mem', mem, p, y) /\ y.opportunities = opp
                              /\ y.positions.open = open /\ y.positions.closed = m.positions.closed
                              /\ y.positions.next = m.positions.next
                    /\ Becomes(station', station, p, "saving")
                    /\ UNCHANGED <<holder, written, fact, deaths>>
                 \/ /\ deaths' = deaths + 1 /\ Ledger!Leave(p)
                    /\ \E n \in 0 .. Len(ev) : alerts' = alerts \o SubSeq(ev, 1, n)
  BY <1>1, <1>3, RunCycleIs, Zenon
<1>5. CASE /\ deaths' = deaths + 1 /\ Ledger!Leave(p)
           /\ \E n \in 0 .. Len(ev) : alerts' = alerts \o SubSeq(ev, 1, n)
  <2>1. PICK n \in 0 .. Len(ev) : alerts' = alerts \o SubSeq(ev, 1, n)
    BY <1>5, Zenon
  <2>2. QED
    BY <1>2, <1>4, <1>5, <2>1, RaisedOpps, Zenon
<1>6. CASE /\ alerts' = alerts \o ev
           /\ \E y : /\ IsStore(y, {}) /\ Becomes(mem', mem, p, y) /\ y.opportunities = opp
                     /\ y.positions.open = open /\ y.positions.closed = m.positions.closed
                     /\ y.positions.next = m.positions.next
           /\ Becomes(station', station, p, "saving")
           /\ UNCHANGED <<holder, written, fact, deaths>>
  <2>1. PICK y : Becomes(mem', mem, p, y) /\ y.opportunities = opp /\ y.positions.open = open
    BY <1>6
  <2>2. QED
    BY <1>2, <1>3, <1>4, <1>6, <2>1, CycledOpps, Zenon
<1>7. QED
  BY <1>4, <1>5, <1>6, Zenon

\* Who has the lock, in a step that leaves that alone.
LEMMA SameHolder ==
  ASSUME HolderOK, UNCHANGED <<ledger, holder, station, mem, written, fact, deaths, wrecked>>
  PROVE  HolderOK'
BY DEF HolderOK

LEMMA LedgerInit ==
  ASSUME Ledger!LedgerAssumption, Ledger!Init
  PROVE  LedgerInv
<1>1. /\ ledger = Ledger!Default /\ summary = <<>> /\ alerts = <<>> /\ holder = Ledger!Free
      /\ station = [p \in Ledger!Process |-> "idle"] /\ mem = [p \in Ledger!Process |-> Ledger!Default]
      /\ written = [p \in Ledger!Process |-> 0] /\ fact = [c \in Client |-> Ledger!NoFact]
      /\ acks = 0 /\ cycles = 0 /\ deaths = 0 /\ date = 1 /\ done = {} /\ wrecked = {}
  BY DEF Ledger!Init
<1>2. IsStore(Ledger!Default, {})
  BY DefaultStore
<1>3. LedgerTypes
  <2>1. IsStore(ledger, {Torn})
    BY <1>1, <1>2 DEF IsStore, Ledger!IsLedger
  <2>2. DOMAIN mem = Ledger!Process /\ \A p \in Ledger!Process : IsStore(mem[p], {})
    BY <1>1, <1>2
  <2>3. summary \in Seq(1 .. Ledger!MaxId) /\ alerts \in Seq(Notice)
    BY <1>1
  <2>4. /\ holder \in Ledger!Process \cup {Ledger!Free}
        /\ station \in [Ledger!Process -> {"idle", "waiting", "locked", "saving", "summary", "settling", "dead"}]
        /\ fact \in [Client -> Ledger!Fact \cup {Ledger!NoFact}]
    BY <1>1
  <2>5. /\ written \in [Ledger!Process -> 0 .. 6] /\ acks \in 0 .. MaxAcks /\ cycles \in 0 .. MaxCycles
        /\ deaths \in 0 .. MaxFaults /\ date \in 1 .. MaxDays
    BY <1>1, LedgerNumbers
  <2>6. done \subseteq Ledger!Fact /\ wrecked \subseteq Files
    BY <1>1
  <2>7. QED
    BY <2>1, <2>2, <2>3, <2>4, <2>5, <2>6 DEF LedgerTypes
<1>4. \A p \in Ledger!Process : station[p] = "idle" /\ written[p] = 0
  BY <1>1
<1>5. HolderOK
  <2>1. Ledger!Session \in Ledger!Process /\ Client \subseteq Ledger!Process /\ Ledger!Free \notin Ledger!Process
    BY LedgerNumbers
  <2>2. \A i \in 1 .. 2 : ledger[FileAt(i)] # Torn
    <3>1. Ledger!Default.opportunities # Torn /\ Ledger!Default.positions # Torn
      BY <1>2, StoreFacts DEF Ledger!LedgerAssumption
    <3>2. ledger[FileAt(1)] # Torn /\ ledger[FileAt(2)] # Torn
      BY <1>1, <3>1, FilesAre
    <3>3. QED
      BY <3>2
  <2>3. /\ \A p \in Ledger!Process : station[p] \in InTransaction <=> holder = p
        /\ station[Ledger!Session] \notin {"waiting", "dead"}
        /\ \A c \in Client : station[c] \notin {"summary", "settling"} /\ (station[c] # "idle" => fact[c] \in Ledger!Fact)
        /\ \A p \in Ledger!Process : station[p] \notin Saving => written[p] = 0
        /\ \A c \in Client : station[c] # "dead"
        /\ \A p \in Ledger!Process : station[p] \notin {"locked", "summary"} /\ station[p] \notin Saving
    BY <1>1, <1>4, <2>1 DEF InTransaction, Saving
  <2>4. QED
    BY <1>1, <2>2, <2>3 DEF HolderOK
<1>6. Trying = {}
  BY <1>4, LedgerNumbers DEF Trying
<1>7. IsFiniteSet(Trying) /\ Cardinality(Trying) = 0
  BY <1>6, FS_EmptySet
<1>8. FactsOK
  <2>1. PICK x : x = ledger.positions
    OBVIOUS
  <2>2. PositionsOK(Ledger!Default.positions)
    BY <1>1, <1>3, <1>7, DefaultOK
  <2>3. PositionsOK(ledger.positions)
    BY <1>1, <2>2
  <2>4. \A p \in Ledger!Process : station[p] \notin InTransaction
    BY <1>4 DEF InTransaction
  <2>5. \A c \in Client : station[c] = "idle"
    BY <1>4, LedgerNumbers
  <2>6. Cardinality(Trying) <= acks + deaths
    BY <1>1, <1>7
  <2>7. QED
    BY <1>7, <2>3, <2>4, <2>5, <2>6 DEF FactsOK
<1>9. OpportunitiesOK
  <2>1. \A s \in Symbol : ledger.opportunities[s] = "none"
    BY <1>1, DefaultIs
  <2>2. \A p \in Ledger!Process : holder # p /\ station[p] \notin InTransaction
    BY <1>1, <1>4, LedgerNumbers DEF InTransaction
  <2>3. ReadyOK
    BY <2>1, <2>2 DEF ReadyOK, ReadyTold
  <2>4. DOMAIN alerts = {}
    BY <1>1
  <2>5. PinnedOK
    BY <2>1, <2>2, <2>4 DEF PinnedOK, InStep, Agree, Announced
  <2>6. StreamOK
    BY <2>4 DEF StreamOK, Ledger!RepeatNeedsFault
  <2>7. QED
    BY <2>3, <2>5, <2>6 DEF OpportunitiesOK
<1>10. LossesOK
  <2>1. DOMAIN alerts = {}
    BY <1>1
  <2>2. QED
    BY <2>1 DEF LossesOK, Ledger!OneLossADay
<1>11. QED
  BY <1>3, <1>5, <1>8, <1>9, <1>10 DEF LedgerInv

\* What a process does outside its transaction, in it and at its end.
LEMMA StartsStep ==
  ASSUME Ledger!LedgerAssumption, LedgerInv, NEW c \in Client, Ledger!StartAck(c) \/ Ledger!RetryAck(c)
  PROVE  LedgerInv'
<1>1. LedgerTypes /\ HolderOK /\ FactsOK /\ OpportunitiesOK /\ LossesOK
  BY DEF LedgerInv
<1>2. CASE Ledger!StartAck(c)
  <2>1. LedgerTypes'
    BY <1>1, <1>2, StartAckIs
  <2>2. HolderOK' /\ FactsOK'
    BY <1>1, <1>2, StartAckHolder, StartAckFacts
  <2>3. OpportunitiesOK' /\ LossesOK'
    BY <1>1, <1>2, <2>1, StartAckOpps
  <2>4. QED
    BY <2>1, <2>2, <2>3 DEF LedgerInv
<1>3. CASE Ledger!RetryAck(c)
  <2>1. LedgerTypes'
    BY <1>1, <1>3, RetryAckIs
  <2>2. HolderOK' /\ FactsOK'
    BY <1>1, <1>3, RetryAckHolder, RetryAckFacts
  <2>3. OpportunitiesOK' /\ LossesOK'
    BY <1>1, <1>3, <2>1, RetryAckOpps
  <2>4. QED
    BY <2>1, <2>2, <2>3 DEF LedgerInv
<1>4. QED
  BY <1>2, <1>3

LEMMA EnterStep ==
  ASSUME Ledger!LedgerAssumption, LedgerInv, NEW p \in Ledger!Process, station[p] \in {"idle", "waiting"},
         p # Ledger!Session => station[p] = "waiting", Ledger!Enter(p), station' = [station EXCEPT ![p] = "locked"], cycles' \in 0 .. MaxCycles,
         UNCHANGED <<ledger, summary, alerts, written, fact, acks, deaths, date, done, wrecked>>
  PROVE  LedgerInv'
<1>1. LedgerTypes /\ HolderOK /\ FactsOK /\ OpportunitiesOK /\ LossesOK
  BY DEF LedgerInv
<1>2. /\ holder = Ledger!Free /\ holder' = p /\ Becomes(station', station, p, "locked") /\ Becomes(mem', mem, p, Ledger!Stored)
      /\ LedgerTypes'
  BY <1>1, EnterIs, Zenon
<1>3. HolderOK'
  BY <1>1, <1>2, EnterHolder, Zenon
<1>4. FactsOK'
  BY <1>1, <1>2, EnterFacts, Zenon
<1>5. OpportunitiesOK' /\ LossesOK'
  BY <1>1, <1>2, EnterOpps, Zenon
<1>6. QED
  BY <1>2, <1>3, <1>4, <1>5 DEF LedgerInv

LEMMA EntersStep ==
  ASSUME Ledger!LedgerAssumption, LedgerInv, Ledger!EnterCycle \/ \E c \in Client : Ledger!EnterAck(c)
  PROVE  LedgerInv'
<1>1. CASE Ledger!EnterCycle
  <2>1. PICK p \in Ledger!Process : p = Ledger!Session
    BY LedgerNumbers
  <2>2. cycles' \in 0 .. MaxCycles
    BY <1>1, LedgerNumbers DEF LedgerInv, LedgerTypes, Ledger!EnterCycle
  <2>3. /\ station[p] = "idle" /\ Ledger!Enter(p) /\ station' = [station EXCEPT ![p] = "locked"]
        /\ UNCHANGED <<ledger, summary, alerts, written, fact, acks, deaths, date, done, wrecked>>
    BY <1>1, <2>1 DEF Ledger!EnterCycle
  <2>4. QED
    BY <2>1, <2>2, <2>3, EnterStep, Zenon
<1>2. ASSUME NEW c \in Client, Ledger!EnterAck(c) PROVE LedgerInv'
  <2>1. c \in Ledger!Process
    BY LedgerNumbers
  <2>2. /\ station[c] = "waiting" /\ Ledger!Enter(c) /\ station' = [station EXCEPT ![c] = "locked"]
        /\ UNCHANGED <<ledger, summary, alerts, written, fact, acks, deaths, date, done, wrecked>>
    BY <1>2 DEF Ledger!EnterAck
  <2>3. cycles' \in 0 .. MaxCycles
    BY <1>2 DEF LedgerInv, LedgerTypes, Ledger!EnterAck
  <2>4. QED
    BY <2>1, <2>2, <2>3, EnterStep, Zenon
<1>3. QED
  BY <1>1, <1>2

LEMMA AckBuyStep ==
  ASSUME Ledger!LedgerAssumption, LedgerInv, NEW c \in Client, Ledger!AckBuy(c)
  PROVE  LedgerInv'
<1>1. LedgerTypes /\ HolderOK /\ FactsOK /\ OpportunitiesOK /\ LossesOK /\ c \in Ledger!Process
  BY LedgerNumbers DEF LedgerInv
<1>2. FactsOK' /\ LedgerTypes'
  BY <1>1, AckBuyFacts
<1>3. HolderOK'
  <2>1. station[c] = "locked"
    BY DEF Ledger!AckBuy
  <2>2. mem[c].positions.next <= Ledger!MaxId
    BY <1>1, <2>1, NumberLeft
  <2>3. PICK m : m = Bought(mem[c], fact[c])
    OBVIOUS
  <2>4. /\ Becomes(station', station, c, "saving") /\ Becomes(mem', mem, c, m)
        /\ UNCHANGED <<holder, fact, written, ledger, wrecked, deaths>>
    BY <1>1, <2>2, <2>3, AckBuyIs
  <2>5. QED
    BY <1>1, <2>1, <2>4, CommitHolder
<1>4. OpportunitiesOK' /\ LossesOK'
  BY <1>1, <1>2, AckBuyOpps
<1>5. QED
  BY <1>2, <1>3, <1>4 DEF LedgerInv

LEMMA AckSellStep ==
  ASSUME Ledger!LedgerAssumption, LedgerInv, NEW c \in Client, Ledger!AckSell(c)
  PROVE  LedgerInv'
<1>1. LedgerTypes /\ HolderOK /\ FactsOK /\ OpportunitiesOK /\ LossesOK /\ c \in Ledger!Process
  BY LedgerNumbers DEF LedgerInv
<1>2. station[c] = "locked" /\ UNCHANGED <<ledger, deaths, wrecked>> /\ LedgerTypes'
  BY <1>1, AckSellIs
<1>3. HolderOK'
  <2>1. CASE Ledger!Leave(c)
    BY <1>1, <1>2, <2>1, LeaveHolder
  <2>2. ASSUME NEW i, Becomes(station', station, c, "saving"), UNCHANGED <<holder, written, fact>>,
               Becomes(mem', mem, c, Sold(mem[c], fact[c], i))
        PROVE  HolderOK'
    <3>1. PICK m : m = Sold(mem[c], fact[c], i)
      OBVIOUS
    <3>2. Becomes(mem', mem, c, m)
      BY <2>2, <3>1
    <3>3. QED
      BY <1>1, <1>2, <2>2, <3>2, CommitHolder
  <2>3. QED
    BY <1>1, <2>1, <2>2, AckSellIs
<1>4. FactsOK'
  BY <1>1, AckSellFacts
<1>5. OpportunitiesOK' /\ LossesOK'
  BY <1>1, <1>2, AckSellOpps
<1>6. QED
  BY <1>2, <1>3, <1>4, <1>5 DEF LedgerInv

LEMMA SkipStep ==
  ASSUME Ledger!LedgerAssumption, LedgerInv, NEW c \in Client, Ledger!Skip(c)
  PROVE  LedgerInv'
<1>1. LedgerTypes /\ HolderOK /\ FactsOK /\ OpportunitiesOK /\ LossesOK /\ c \in Ledger!Process
  BY LedgerNumbers DEF LedgerInv
<1>2. PICK m : m = Skipped(mem[c], fact[c])
  OBVIOUS
<1>3. /\ station[c] = "locked" /\ Becomes(station', station, c, "saving") /\ Becomes(mem', mem, c, m)
      /\ UNCHANGED <<holder, fact, written, ledger, wrecked, deaths>> /\ LedgerTypes'
  BY <1>1, <1>2, SkipIs
<1>4. HolderOK'
  BY <1>1, <1>3, CommitHolder
<1>5. FactsOK'
  BY <1>1, SkipFacts
<1>6. OpportunitiesOK' /\ LossesOK'
  BY <1>1, <1>3, SkipOpps
<1>7. QED
  BY <1>3, <1>4, <1>5, <1>6 DEF LedgerInv

LEMMA SavesStep ==
  ASSUME Ledger!LedgerAssumption, LedgerInv, NEW p \in Ledger!Process, Ledger!SaveStep(p)
  PROVE  LedgerInv'
<1>1. LedgerTypes /\ HolderOK /\ FactsOK /\ OpportunitiesOK /\ LossesOK
  BY DEF LedgerInv
<1>2. LedgerTypes'
  BY <1>1, SaveStepIs
<1>3. HolderOK' /\ FactsOK'
  BY <1>1, SaveHolder, SaveFacts
<1>4. OpportunitiesOK' /\ LossesOK'
  BY <1>1, <1>2, SaveOpps
<1>5. QED
  BY <1>2, <1>3, <1>4 DEF LedgerInv

LEMMA FinishAckStep ==
  ASSUME Ledger!LedgerAssumption, LedgerInv, NEW c \in Client, Ledger!FinishAck(c)
  PROVE  LedgerInv'
<1>1. LedgerTypes /\ HolderOK /\ FactsOK /\ OpportunitiesOK /\ LossesOK /\ c \in Ledger!Process
  BY LedgerNumbers DEF LedgerInv
<1>2. /\ station[c] \in Saving /\ written[c] = 6 /\ Ledger!Leave(c) /\ UNCHANGED <<ledger, deaths, wrecked>>
  BY DEF Ledger!FinishAck, Ledger!Saved, Saving
<1>3. FactsOK' /\ LedgerTypes'
  BY <1>1, FinishAckFacts
<1>4. HolderOK'
  BY <1>1, <1>2, LeaveHolder
<1>5. OpportunitiesOK' /\ LossesOK'
  BY <1>1, <1>3, FinishAckOpps
<1>6. QED
  BY <1>3, <1>4, <1>5 DEF LedgerInv

LEMMA SessionStep ==
  ASSUME Ledger!LedgerAssumption, LedgerInv, Ledger!QuietCycle \/ Ledger!WriteSummary \/ Ledger!FinishCycle
  PROVE  LedgerInv'
<1>1. LedgerTypes /\ HolderOK /\ FactsOK /\ OpportunitiesOK /\ LossesOK
  BY DEF LedgerInv
<1>2. PICK p \in Ledger!Process : p = Ledger!Session
  BY LedgerNumbers
<1>3. CASE Ledger!QuietCycle
  <2>1. LedgerTypes'
    BY <1>1, <1>3, QuietCycleIs
  <2>2. HolderOK' /\ FactsOK'
    BY <1>1, <1>3, QuietHolder, QuietFacts
  <2>3. OpportunitiesOK' /\ LossesOK'
    BY <1>1, <1>3, <2>1, QuietOpps
  <2>4. QED
    BY <2>1, <2>2, <2>3 DEF LedgerInv
<1>4. CASE Ledger!WriteSummary
  <2>1. LedgerTypes'
    BY <1>1, <1>4, WriteSummaryIs
  <2>2. HolderOK' /\ FactsOK'
    BY <1>1, <1>4, SummaryHolder, SummaryFacts
  <2>3. OpportunitiesOK' /\ LossesOK'
    BY <1>1, <1>4, <2>1, SummaryOpps
  <2>4. QED
    BY <2>1, <2>2, <2>3 DEF LedgerInv
<1>5. CASE Ledger!FinishCycle
  <2>1. /\ station[p] \in Saving /\ written[p] = 6 /\ Ledger!Leave(p) /\ UNCHANGED <<ledger, deaths, wrecked>>
    BY <1>2, <1>5 DEF Ledger!FinishCycle, Ledger!Saved, Saving
  <2>2. FactsOK' /\ LedgerTypes'
    BY <1>1, <1>5, FinishCycleFacts
  <2>3. HolderOK'
    BY <1>1, <2>1, LeaveHolder
  <2>4. OpportunitiesOK' /\ LossesOK'
    BY <1>1, <1>5, <2>2, FinishCycleOpps
  <2>5. QED
    BY <2>2, <2>3, <2>4 DEF LedgerInv
<1>6. QED
  BY <1>3, <1>4, <1>5

LEMMA RunCycleStep ==
  ASSUME Ledger!LedgerAssumption, LedgerInv, Ledger!RunCycle
  PROVE  LedgerInv'
<1>1. LedgerTypes /\ HolderOK /\ FactsOK /\ OpportunitiesOK /\ LossesOK
  BY DEF LedgerInv
<1>2. PICK p \in Ledger!Process : p = Ledger!Session
  BY LedgerNumbers
<1>3. station[p] = "locked" /\ UNCHANGED <<ledger, wrecked>> /\ LedgerTypes'
  BY <1>1, <1>2, RunCycleIs
<1>4. HolderOK'
  <2>1. ASSUME deaths' = deaths + 1, Ledger!Leave(p) PROVE HolderOK'
    <3>1. deaths' = 0 => deaths = 0
      BY <1>1, <2>1 DEF LedgerTypes
    <3>2. QED
      BY <1>1, <1>3, <2>1, <3>1, LeaveHolder
  <2>2. ASSUME NEW m, Becomes(mem', mem, p, m), Becomes(station', station, p, "saving"), UNCHANGED <<holder, written, fact, deaths>>
        PROVE  HolderOK'
    BY <1>1, <1>3, <2>2, CommitHolder
  <2>3. \/ deaths' = deaths + 1 /\ Ledger!Leave(p)
        \/ (\E m : Becomes(mem', mem, p, m)) /\ Becomes(station', station, p, "saving") /\ UNCHANGED <<holder, written, fact, deaths>>
    BY <1>1, <1>2, RunCycleIs
  <2>4. QED
    BY <2>1, <2>2, <2>3
<1>5. FactsOK'
  BY <1>1, RunCycleFacts
<1>6. OpportunitiesOK' /\ LossesOK'
  BY <1>1, <1>3, RunCycleOpps
<1>7. QED
  BY <1>3, <1>4, <1>5, <1>6 DEF LedgerInv

LEMMA DiesStep ==
  ASSUME Ledger!LedgerAssumption, LedgerInv, NEW p \in Ledger!Process, Ledger!Die(p)
  PROVE  LedgerInv'
<1>1. LedgerTypes /\ HolderOK /\ FactsOK /\ OpportunitiesOK /\ LossesOK
  BY DEF LedgerInv
<1>2. LedgerTypes'
  BY <1>1, DieIs
<1>3. HolderOK' /\ FactsOK'
  BY <1>1, DieHolder, DieFacts
<1>4. OpportunitiesOK' /\ LossesOK'
  BY <1>1, <1>2, DieOpps
<1>5. QED
  BY <1>2, <1>3, <1>4 DEF LedgerInv

\* A day passes, or nothing happens.
LEMMA RestStep ==
  ASSUME Ledger!LedgerAssumption, LedgerInv, Ledger!DayPasses \/ UNCHANGED Ledger!vars
  PROVE  LedgerInv'
<1>1. LedgerTypes /\ HolderOK /\ FactsOK /\ OpportunitiesOK /\ LossesOK
  BY DEF LedgerInv
<1>2. /\ UNCHANGED <<ledger, summary, alerts, holder, station, mem, written, fact, acks, cycles, deaths, done, wrecked>>
      /\ date' = date \/ (date < MaxDays /\ date' = date + 1)
  BY DEF Ledger!DayPasses, Ledger!vars
<1>3. LedgerTypes'
  <2>1. date' \in 1 .. MaxDays
    BY <1>1, <1>2, LedgerNumbers DEF LedgerTypes
  <2>2. QED
    BY <1>1, <1>2, <2>1 DEF LedgerTypes, IsStore, Ledger!IsLedger
<1>4. HolderOK'
  BY <1>1, <1>2, SameHolder
<1>5. FactsOK'
  BY <1>1, <1>2, <1>3, SameFacts
<1>6. OpportunitiesOK' /\ LossesOK'
  BY <1>1, <1>2, SameOpps
<1>7. QED
  BY <1>3, <1>4, <1>5, <1>6 DEF LedgerInv

LEMMA LedgerStep ==
  ASSUME Ledger!LedgerAssumption, LedgerInv, [Ledger!Next]_Ledger!vars
  PROVE  LedgerInv'
<1>1. Ledger!Session \in Ledger!Process /\ Client \subseteq Ledger!Process
  BY LedgerNumbers
<1>2. CASE Ledger!EnterCycle \/ Ledger!CycleStep \/ Ledger!DayPasses
  BY <1>1, <1>2, EntersStep, RunCycleStep, SessionStep, SavesStep, RestStep DEF Ledger!CycleStep
<1>3. ASSUME NEW c \in Client, Ledger!StartAck(c) \/ Ledger!RetryAck(c) \/ Ledger!AckStep(c) PROVE LedgerInv'
  BY <1>1, <1>3, StartsStep, EntersStep, AckBuyStep, AckSellStep, SkipStep, SavesStep, FinishAckStep DEF Ledger!AckStep
<1>4. ASSUME NEW p \in Ledger!Process, Ledger!Die(p) PROVE LedgerInv'
  BY <1>4, DiesStep
<1>5. QED
  BY <1>2, <1>3, <1>4, RestStep DEF Ledger!Next

\* As many times as positions, each having its own.
LEMMA TimesCount ==
  ASSUME NEW s \in Seq(Ledger!Position), \A i, j \in DOMAIN s : s[i].time = s[j].time => i = j,
         NEW times, times = {s[i].time : i \in DOMAIN s}
  PROVE  IsFiniteSet(times) /\ Cardinality(times) = Len(s) /\ Len(s) \in Nat
<1>1. PICK n : n = Len(s)
  OBVIOUS
<1>2. n \in Nat /\ DOMAIN s = 1 .. n
  BY <1>1
<1>3. IsFiniteSet(1 .. n) /\ Cardinality(1 .. n) = n
  <2>1. 1 \in Int /\ n \in Int /\ n - 1 + 1 = n /\ (1 > n => n = 0)
    BY <1>2
  <2>2. QED
    BY <2>1, FS_Interval
<1>4. [i \in 1 .. n |-> s[i].time] \in Bijection(1 .. n, times)
  BY <1>2 DEF Bijection, Injection, Surjection, IsInjective
<1>5. QED
  BY <1>1, <1>2, <1>3, <1>4, FS_Bijection DEF ExistsBijection

LEMMA EachOnce ==
  ASSUME NEW x \in Ledger!PositionsFile, Apart(x)
  PROVE  Len(x.open) + Len(x.closed) = Cardinality({p.time : p \in Rec(x)})
<1>1. x.open \in Seq(Ledger!Position) /\ x.closed \in Seq(Ledger!Position)
  BY RecIs
<1>2. PICK now : now = {x.open[i].time : i \in DOMAIN x.open}
  BY Zenon
<1>3. PICK gone : gone = {x.closed[i].time : i \in DOMAIN x.closed}
  BY Zenon
<1>4. IsFiniteSet(now) /\ Cardinality(now) = Len(x.open) /\ Len(x.open) \in Nat
  BY <1>1, <1>2, TimesCount DEF Apart
<1>5. IsFiniteSet(gone) /\ Cardinality(gone) = Len(x.closed) /\ Len(x.closed) \in Nat
  BY <1>1, <1>3, TimesCount DEF Apart
<1>6. now \cap gone = {}
  BY <1>2, <1>3 DEF Apart
<1>7. Cardinality(now \cup gone) = Cardinality(now) + Cardinality(gone)
  <2>1. Cardinality(now \cap gone) = 0
    BY <1>6, FS_EmptySet
  <2>2. Cardinality(now \cup gone) = Cardinality(now) + Cardinality(gone) - Cardinality(now \cap gone)
    BY <1>4, <1>5, FS_Union
  <2>3. QED
    BY <1>4, <1>5, <2>1, <2>2
<1>8. {p.time : p \in Rec(x)} = now \cup gone
  BY <1>2, <1>3 DEF Rec, Ledger!Elements
<1>9. QED
  BY <1>4, <1>5, <1>7, <1>8, Zenon

\* What a transaction is for holds on disk.
LEMMA LedgerKeeps ==
  ASSUME Ledger!LedgerAssumption, LedgerInv
  PROVE  Ledger!TypeOK /\ Ledger!NoBuyLost /\ Ledger!StreamLeadsLedger
<1>1. LedgerTypes /\ HolderOK /\ FactsOK /\ OpportunitiesOK /\ LossesOK
  BY DEF LedgerInv
<1>2. Ledger!TypeOK
  <2>1. \A i \in DOMAIN alerts : alerts[i].type \in Ledger!Event /\ alerts[i].day \in 1 .. MaxDays
    <3> SUFFICES ASSUME NEW i \in DOMAIN alerts PROVE alerts[i].type \in Ledger!Event /\ alerts[i].day \in 1 .. MaxDays
      OBVIOUS
    <3>1. alerts[i] \in Notice
      BY <1>1 DEF LedgerTypes
    <3>2. QED
      BY <3>1 DEF Notice
  <2>2. wrecked \subseteq {Ledger!FileOrder[i] : i \in DOMAIN Ledger!FileOrder}
    <3>1. DOMAIN Ledger!FileOrder = 1 .. 3
      BY DEF Ledger!FileOrder
    <3>2. Files = {Ledger!FileOrder[1], Ledger!FileOrder[2], Ledger!FileOrder[3]}
      BY FilesAre DEF FileAt
    <3>3. QED
      BY <1>1, <3>1, <3>2 DEF LedgerTypes
  <2>3. Ledger!IsLedger(ledger, {Torn}) /\ \A p \in Ledger!Process : Ledger!IsLedger(mem[p], {})
    BY <1>1 DEF LedgerTypes, IsStore
  <2>4. QED
    BY <1>1, <2>1, <2>2, <2>3 DEF LedgerTypes, Ledger!TypeOK
<1>3. ASSUME Ledger!Whole("positions")
      PROVE  \E x \in Ledger!PositionsFile : x = ledger.positions /\ PositionsOK(x) /\ Ledger!Recorded = Rec(x)
  <2>1. ledger.positions # Torn
    BY <1>3 DEF Ledger!Whole
  <2>2. QED
    BY <1>1, <2>1, OnDisk DEF Ledger!Recorded, Rec
<1>4. Ledger!NoBuyLost
  <2> SUFFICES ASSUME wrecked = {}, Ledger!Whole("positions")
               PROVE  /\ \A f \in done : f.kind = "buy" => \E p \in Ledger!Recorded : p.time = f.time /\ p.symbol = f.symbol /\ p.venue = f.venue
                      /\ \A p, q \in Ledger!Recorded : p.id = q.id => p.time = q.time
    BY DEF Ledger!NoBuyLost, Ledger!AckedBuysKept
  <2>1. PICK x \in Ledger!PositionsFile : PositionsOK(x) /\ Ledger!Recorded = Rec(x)
    BY <1>3
  <2>2. QED
    BY <2>1 DEF PositionsOK, Holding, Numbered
<1>5. Ledger!StreamLeadsLedger
  <2>1. ASSUME Ledger!Whole("positions")
        PROVE  /\ \A p \in Ledger!Recorded : Ledger!Said("POSITION_OPENED", p.symbol, p.id)
               /\ \A p \in Ledger!Elements(ledger.positions.closed) : Ledger!Said("POSITION_CLOSED", p.symbol, p.id)
               /\ \A p \in Ledger!Elements(ledger.positions.open) :
                    p.state = "EXIT_ALERT" => Ledger!Said("POSITION_EXIT_ALERT", p.symbol, p.id)
    <3>1. PICK x \in Ledger!PositionsFile : x = ledger.positions /\ PositionsOK(x) /\ Ledger!Recorded = Rec(x)
      BY <1>3, <2>1
    <3>2. Told(x)
      BY <3>1 DEF PositionsOK
    <3>3. QED
      BY <3>1, <3>2, Zenon DEF Told
  <2>2. ASSUME Ledger!Whole("opportunities")
        PROVE  \A s \in Symbol : ledger.opportunities[s] = "READY" => Ledger!Said("NEW_READY", s, 0)
    <3>1. ReadyTold(ledger.opportunities)
      BY <1>1, <2>2 DEF OpportunitiesOK, ReadyOK, Ledger!Whole
    <3>2. QED
      BY <3>1, Zenon DEF ReadyTold
  <2>3. QED
    BY <2>1, <2>2, Zenon DEF Ledger!StreamLeadsLedger
<1>6. QED
  BY <1>2, <1>4, <1>5

LEMMA LedgerAgrees ==
  ASSUME Ledger!LedgerAssumption, LedgerInv
  PROVE  Ledger!PinnedUnlessFault /\ Ledger!FactRecordedOnce
<1>1. LedgerTypes /\ HolderOK /\ FactsOK /\ OpportunitiesOK
  BY DEF LedgerInv
<1>2. Ledger!PinnedUnlessFault
  <2> SUFFICES ASSUME deaths = 0, holder = Ledger!Free, NEW s \in Symbol, ledger.opportunities[s] = "EXECUTED"
               PROVE  Ledger!Holds(ledger, s)
    BY DEF Ledger!PinnedUnlessFault, Ledger!ExecutedHasPosition
  <2>1. Agree(ledger)
    BY <1>1 DEF OpportunitiesOK, PinnedOK, InStep
  <2>2. QED
    BY <2>1 DEF Agree
<1>3. Ledger!FactRecordedOnce
  <2> SUFFICES ASSUME deaths = 0, Ledger!Whole("positions")
               PROVE  Len(ledger.positions.open) + Len(ledger.positions.closed) = Ledger!Cardinality({p.time : p \in Ledger!Recorded})
    BY Zenon DEF Ledger!FactRecordedOnce
  <2>1. ledger.positions # Torn
    BY DEF Ledger!Whole
  <2>2. PICK x \in Ledger!PositionsFile : x = ledger.positions /\ PositionsOK(x)
    BY <1>1, <2>1, OnDisk
  <2>3. Apart(x) /\ Ledger!Recorded = Rec(x)
    BY <2>2 DEF PositionsOK, OnceEach, Apart, Rec, Ledger!Recorded
  <2>4. Len(x.open) + Len(x.closed) = Cardinality({p.time : p \in Rec(x)})
    BY <2>3, EachOnce, Zenon
  <2>5. \A S : Ledger!Cardinality(S) = Cardinality(S)
    BY DEF Ledger!Cardinality, Cardinality
  <2>6. QED
    BY <2>2, <2>3, <2>4, <2>5, Zenon
<1>4. QED
  BY <1>2, <1>3

\* Whatever processes overlap, retry, raise or die, the ledger on disk has
\* every buy that returned 0, under an id of its own, and no state that
\* alerts.jsonl does not already tell (monitor.py, Store.transaction).
THEOREM NoBuyIsLost ==
  ASSUME Ledger!LedgerAssumption
  PROVE  Ledger!Spec => [](Ledger!TypeOK /\ Ledger!NoBuyLost /\ Ledger!StreamLeadsLedger)
<1>1. Ledger!Init => LedgerInv
  BY LedgerInit
<1>2. LedgerInv /\ [Ledger!Next]_Ledger!vars => LedgerInv'
  BY LedgerStep
<1>3. LedgerInv => Ledger!TypeOK /\ Ledger!NoBuyLost /\ Ledger!StreamLeadsLedger
  BY LedgerKeeps
<1>4. QED
  BY <1>1, <1>2, <1>3, PTL DEF Ledger!Spec

\* Without a death and without a cycle that raised: an EXECUTED opportunity
\* has its position, and a human fact makes one position (monitor.py,
\* run_cycle, open_position, close_position).
THEOREM FactsMakeOnePosition ==
  ASSUME Ledger!LedgerAssumption
  PROVE  Ledger!Spec => [](Ledger!PinnedUnlessFault /\ Ledger!FactRecordedOnce)
<1>1. Ledger!Init => LedgerInv
  BY LedgerInit
<1>2. LedgerInv /\ [Ledger!Next]_Ledger!vars => LedgerInv'
  BY LedgerStep
<1>3. LedgerInv => Ledger!PinnedUnlessFault /\ Ledger!FactRecordedOnce
  BY LedgerAgrees
<1>4. QED
  BY <1>1, <1>2, <1>3, PTL DEF Ledger!Spec

\* READY is announced once per change of the opportunity unless something
\* failed, and a lost connection once a day whatever fails (monitor.py,
\* classify_opportunity and run_cycle).
THEOREM AnnouncedOnce ==
  ASSUME Ledger!LedgerAssumption
  PROVE  Ledger!Spec => [](Ledger!RepeatNeedsFault /\ Ledger!OneLossADay)
<1>1. Ledger!Init => LedgerInv
  BY LedgerInit
<1>2. LedgerInv /\ [Ledger!Next]_Ledger!vars => LedgerInv'
  BY LedgerStep
<1>3. LedgerInv => Ledger!RepeatNeedsFault /\ Ledger!OneLossADay
  BY DEF LedgerInv, OpportunitiesOK, StreamOK, LossesOK
<1>4. QED
  BY <1>1, <1>2, <1>3, PTL DEF Ledger!Spec
=============================================================================
