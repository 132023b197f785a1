------------------------------ MODULE Watchlist ------------------------------
(***************************************************************************)
(* The analysis watchlist (zuaef_quant/watchlist.py) and the tool that     *)
(* edits it (toolset.py, _watchlist_update): read the list of a scope,     *)
(* merge, fill a temporary file, rename it, read back.  No lock: tool      *)
(* calls of one model answer run in threads, runs of other chats may be    *)
(* bound to the same scope.  Files are inodes with names.                  *)
(***************************************************************************)
EXTENDS Naturals, FiniteSets

CONSTANTS
  Scope, Symbol,
  Call,        \* the tool calls that may run at once
  Alike,       \* scopes that scope_slug gives one name
  MaxSymbols,  \* MAX_SYMBOLS
  MaxCalls,    \* bound on calls
  Torn         \* a file opened for writing and not filled

WatchlistAssumption ==
  /\ Alike \subseteq Scope /\ IsFiniteSet(Symbol) /\ (\A symbols \in SUBSET Symbol : symbols # Torn)
  /\ {MaxSymbols, MaxCalls} \subseteq Nat \ {0}

VARIABLES
  content,   \* of each inode
  path, tmp, \* the inode of <name>.json and of <name>.json.tmp, 0 for none
  pc, ask, merged, changed, fd,   \* of each call
  said,      \* what a user was last told of a symbol: in, out, or open
  calls

vars == <<content, path, tmp, pc, ask, merged, changed, fd, said, calls>>

Inode == 1 .. MaxCalls
NoAsk == [action |-> "none"]
Ask == [action : {"add", "remove"}, scope : Scope, symbols : (SUBSET Symbol) \ {{}}]

\* scope_slug: the stripped and cut name of an opaque binding.
Slug(s) == IF s \in Alike THEN "alike" ELSE s
Name == {Slug(s) : s \in Scope}

TypeOK ==
  /\ content \in [Inode -> {Torn} \cup SUBSET Symbol]
  /\ \A i \in Inode : content[i] # Torn => Cardinality(content[i]) <= MaxSymbols
  /\ path \in [Name -> {0} \cup Inode] /\ tmp \in [Name -> {0} \cup Inode]
  /\ pc \in [Call -> {"idle", "read", "open", "fill", "rename", "back"}]
  /\ ask \in [Call -> Ask \cup {NoAsk}]
  /\ merged \in [Call -> SUBSET Symbol] /\ changed \in [Call -> SUBSET Symbol]
  /\ fd \in [Call -> {0} \cup Inode]
  /\ said \in [Scope -> [Symbol -> {"in", "out", "open"}]]
  /\ calls \in 0 .. MaxCalls

Init ==
  /\ content = [i \in Inode |-> {}]
  /\ path = [n \in Name |-> 0] /\ tmp = [n \in Name |-> 0]
  /\ pc = [c \in Call |-> "idle"] /\ ask = [c \in Call |-> NoAsk]
  /\ merged = [c \in Call |-> {}] /\ changed = merged /\ fd = [c \in Call |-> 0]
  /\ said = [s \in Scope |-> [x \in Symbol |-> "out"]]
  /\ calls = 0

\* _read: a missing or unreadable file is an empty list.
Listed(s) ==
  LET i == path[Slug(s)] IN IF i = 0 \/ content[i] = Torn THEN {} ELSE content[i]

\* An inode that no name and no open file holds.
NewInode ==
  CHOOSE i \in Inode : i \notin {path[n] : n \in Name} \cup {tmp[n] : n \in Name} \cup {fd[c] : c \in Call}
-----------------------------------------------------------------------------
Start(c) ==
  /\ pc[c] = "idle" /\ calls < MaxCalls
  /\ \E a \in Ask :
       /\ ask' = [ask EXCEPT ![c] = a]
       /\ said' = [said EXCEPT ![a.scope] = [x \in Symbol |-> IF x \in a.symbols THEN "open" ELSE @[x]]]
  /\ calls' = calls + 1
  /\ pc' = [pc EXCEPT ![c] = "read"]
  /\ UNCHANGED <<content, path, tmp, merged, changed, fd>>

Done(c) ==
  /\ pc' = [pc EXCEPT ![c] = "idle"]
  /\ ask' = [ask EXCEPT ![c] = NoAsk]
  /\ merged' = [merged EXCEPT ![c] = {}] /\ changed' = [changed EXCEPT ![c] = {}]
  /\ fd' = [fd EXCEPT ![c] = 0]

\* (mutant) the list becomes what was asked for.
MergeFresh(a, current) == IF a.action = "add" THEN a.symbols ELSE current \ a.symbols

Merge(a, current) ==
  IF a.action = "add" THEN current \cup a.symbols ELSE current \ a.symbols

OverCap(a, current) == a.action = "add" /\ Cardinality(Merge(a, current)) > MaxSymbols

\* The list is read once; an addition past the cap is refused.
Read(c) ==
  /\ pc[c] = "read"
  /\ LET current == Listed(ask[c].scope)
     IN  IF OverCap(ask[c], current)
         THEN Done(c)
         ELSE /\ merged' = [merged EXCEPT ![c] = Merge(ask[c], current)]
              /\ changed' = [changed EXCEPT ![c] =
                   {x \in ask[c].symbols : (x \in current) # (ask[c].action = "add")}]
              /\ pc' = [pc EXCEPT ![c] = "open"]
              /\ UNCHANGED <<ask, fd>>
  /\ UNCHANGED <<content, path, tmp, said, calls>>

\* The temporary file, one name for every writer: created or truncated.
OpenTmp(c) ==
  LET n == Slug(ask[c].scope)
  IN  \E i \in {IF tmp[n] = 0 THEN NewInode ELSE tmp[n]} :
        /\ content' = [content EXCEPT ![i] = Torn]
        /\ tmp' = [tmp EXCEPT ![n] = i]
        /\ fd' = [fd EXCEPT ![c] = i]
        /\ UNCHANGED path

Open(c) ==
  /\ pc[c] = "open"
  /\ OpenTmp(c)
  /\ pc' = [pc EXCEPT ![c] = "fill"]
  /\ UNCHANGED <<ask, merged, changed, said, calls>>

Fill(c) ==
  /\ pc[c] = "fill"
  /\ content' = [content EXCEPT ![fd[c]] = merged[c]]
  /\ pc' = [pc EXCEPT ![c] = "rename"]
  /\ UNCHANGED <<path, tmp, ask, merged, changed, fd, said, calls>>

\* tmp.replace(path); when another call has renamed it, the call fails.
Rename(c) ==
  /\ pc[c] = "rename"
  /\ LET n == Slug(ask[c].scope)
     IN  IF tmp[n] = 0
         THEN Done(c) /\ UNCHANGED <<path, tmp>>
         ELSE /\ path' = [path EXCEPT ![n] = tmp[n]]
              /\ tmp' = [tmp EXCEPT ![n] = 0]
              /\ fd' = [fd EXCEPT ![c] = 0]
              /\ pc' = [pc EXCEPT ![c] = "back"]
              /\ UNCHANGED <<ask, merged, changed>>
  /\ UNCHANGED <<content, said, calls>>

\* The read-back: a change that the list does not show is not claimed.  A
\* symbol that another call is editing stays open.
ReadBack(c) ==
  /\ pc[c] = "back"
  /\ LET a == ask[c]
         verified == \A x \in changed[c] : (x \in Listed(a.scope)) <=> (a.action = "add")
         busy == UNION {ask[d].symbols : d \in {e \in Call \ {c} : ask[e] # NoAsk /\ ask[e].scope = a.scope}}
     IN  said' = [said EXCEPT ![a.scope] = [x \in Symbol |->
            IF verified /\ x \in a.symbols \ busy
            THEN IF a.action = "add" THEN "in" ELSE "out" ELSE @[x]]]
  /\ Done(c)
  /\ UNCHANGED <<content, path, tmp, calls>>

\* The process is killed between two steps.
Die(c) ==
  /\ pc[c] # "idle"
  /\ Done(c)
  /\ UNCHANGED <<content, path, tmp, said, calls>>

Next == \E c \in Call : Start(c) \/ Read(c) \/ Open(c) \/ Fill(c) \/ Rename(c) \/ ReadBack(c) \/ Die(c)

Spec == Init /\ [][Next]_vars
-----------------------------------------------------------------------------
\* _watchlist_update: what a verified answer told the user is what the list
\* of the scope says until somebody of that scope edits the symbol again.
AnswerHolds ==
  \A s \in Scope, x \in Symbol :
    /\ said[s][x] = "in" => x \in Listed(s)
    /\ said[s][x] = "out" => x \notin Listed(s)

\* The monitor, which reads every list without a lock, never meets one that
\* is only half written.
ReadersSeeWhole == \A n \in Name : path[n] = 0 \/ content[path[n]] # Torn
=============================================================================
