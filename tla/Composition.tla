----------------------------- MODULE Composition -----------------------------
(***************************************************************************)
(* How an agent is composed (composition.py, profiles.py, plugin_api.py,   *)
(* config.py, core.py, continuation.py).  A profile is read, resolved      *)
(* against the installed plugins and frozen; the agent is built from the   *)
(* snapshot, and so is the continuation of a run that paused.  Meanwhile   *)
(* profiles are edited, plugins are installed and the host is restarted    *)
(* with other settings.                                                    *)
(***************************************************************************)
EXTENDS Naturals, Sequences, FiniteSets

CONSTANTS
  Plugin,     \* plugin ids
  Release,    \* what an entry point may resolve to, see TypeOK
  Document,   \* what a profile file may hold, see TypeOK
  Host,       \* the settings a process may start with: sets of flags
  Absent,
  MaxEdits    \* changes to the world around the runs

VARIABLES
  pc,
  profile, installed, settings,        \* the file, the entry points, the process
  purpose,                             \* of the command: check, run or resume
  asked, refs, authorized, snapshot,   \* on the way to an agent
  agent,
  receipt,                             \* the composition in the pause receipt
  first,                               \* (history) the agent the run began with
  edits

vars == <<pc, profile, installed, settings, purpose, asked, refs, authorized, snapshot, agent, receipt, first, edits>>
world == <<profile, installed, settings, edits>>

\* GENERALIST_FLAGS as far as the code tells them apart; `persistence` and
\* `skills` are settings no profile can ask for.
Generalist == {"tool_search", "conversation_search", "shell"}
Flag == Generalist \cup {"persistence", "skills"}

Row == [id : Plugin, allow : BOOLEAN, defer : BOOLEAN, secret : BOOLEAN]
Ref == [id : Plugin, version : Nat, entry : STRING, allow : BOOLEAN, defer : BOOLEAN]
Snapshot == [plugins : Seq(Ref), generalist : (SUBSET Generalist) \cup {Absent}]
Agent == [plugins : Seq(Ref), releases : Seq(Release), flags : SUBSET Flag, capabilities : SUBSET (Flag \cup Plugin), skills : SUBSET Plugin]

CompositionAssumption ==
  /\ \A r \in Release :
       /\ r.version \in Nat /\ r.entry \in STRING /\ {r.capability, r.marked} \subseteq BOOLEAN
       /\ r.makes \in {"bundle", "error", "import error"} /\ r.skills \in {"none", "there", "missing"}
  /\ \A d \in Document :
       /\ d.form \in {"valid", "broken"} /\ d.named \in BOOLEAN
       /\ d.rows \in Seq(Row) /\ d.generalist \in (SUBSET Generalist) \cup {Absent}
  /\ Host \subseteq SUBSET Flag /\ MaxEdits \in Nat /\ Plugin \cap Flag = {}
  /\ Absent \notin Document \cup Release /\ Absent \notin Snapshot /\ Absent \notin Agent /\ \A flags \in SUBSET Flag : flags # Absent

TypeOK ==
  /\ pc \in {"idle", "read", "resolved", "frozen", "running", "paused", "refused", "raised", "finished"}
  /\ profile \in Document \cup {Absent} /\ installed \in [Plugin -> Release \cup {Absent}] /\ settings \in Host
  /\ purpose \in {"check", "run", "resume"}
  /\ asked \in Document \cup {Absent} /\ refs \in Seq(Ref) /\ authorized \in (SUBSET Generalist) \cup {Absent}
  /\ {snapshot, receipt} \subseteq Snapshot \cup {Absent} /\ {agent, first} \subseteq Agent \cup {Absent}
  /\ edits \in 0 .. MaxEdits

Init ==
  /\ pc = "idle" /\ profile \in Document \cup {Absent} /\ settings \in Host
  /\ \E r \in Release : installed \in [Plugin -> {r}]
  /\ purpose = "check" /\ asked = Absent /\ refs = <<>> /\ authorized = Absent /\ snapshot = Absent
  /\ agent = Absent /\ receipt = Absent /\ first = Absent /\ edits = 0

\* CompositionError ends a command before there is a run.
Refuse(how) == pc' = how /\ UNCHANGED <<purpose, asked, refs, authorized, snapshot, agent, receipt, first>>
-----------------------------------------------------------------------------
Distinct(rows) == Cardinality({rows[i].id : i \in DOMAIN rows}) = Len(rows)
Admitted(d) ==
  /\ d # Absent /\ d.form = "valid" /\ d.named
  /\ Distinct(d.rows) /\ \A i \in DOMAIN d.rows : ~d.rows[i].secret

\* load_profile: any problem of the file refuses the name.
LoadProfile(why) ==
  /\ pc = "idle" /\ UNCHANGED world
  /\ IF Admitted(profile)
       THEN /\ pc' = "read" /\ asked' = profile /\ purpose' = why
            /\ UNCHANGED <<refs, authorized, snapshot, agent, receipt, first>>
       ELSE Refuse("refused")

\* _effective_generalist: host ceiling and request, or no policy at all.
Effective(request) == IF request = Absent THEN Absent ELSE request \cap settings
Authorizes(policy) == policy # Absent /\ "tool_search" \in policy

\* resolve_profile up to its bundles: one reference per row.
RefOf(row) == [id |-> row.id, version |-> installed[row.id].version, entry |-> installed[row.id].entry, allow |-> row.allow, defer |-> row.defer]
Resolve ==
  /\ pc = "read" /\ UNCHANGED world
  /\ LET rows == asked.rows
         policy == Effective(asked.generalist)
     IN IF \/ \E i \in DOMAIN rows : installed[rows[i].id] = Absent
           \/ \E i \in DOMAIN rows : rows[i].defer /\ ~Authorizes(policy)
          THEN Refuse("refused")
          ELSE /\ pc' = "resolved" /\ refs' = [i \in DOMAIN rows |-> RefOf(rows[i])] /\ authorized' = policy
               /\ UNCHANGED <<purpose, asked, snapshot, agent, receipt, first>>
-----------------------------------------------------------------------------
\* _resolve_bundles: what is installed now, against the references.
Drifted(ref) == LET r == installed[ref.id] IN r = Absent \/ r.entry # ref.entry \/ r.version # ref.version
Unmade(ref) == installed[ref.id].makes = "error"
Ungranted(ref) == installed[ref.id].capability /\ ~ref.allow
Untaught(ref) == installed[ref.id].skills = "missing"
Unfindable(ref, policy) == installed[ref.id].marked /\ ~Authorizes(policy)
\* entry_point.load() is outside the conversion to CompositionError.
Unimportable(ref) == ~Drifted(ref) /\ installed[ref.id].makes = "import error"
\* How the first plugin that fails ends the command.
Fault(plugins, policy) ==
  LET Fails(ref) == Drifted(ref) \/ Unimportable(ref) \/ Unmade(ref) \/ Ungranted(ref) \/ Untaught(ref) \/ Unfindable(ref, policy)
      failing == {i \in DOMAIN plugins : Fails(plugins[i])}
      at == CHOOSE i \in failing : \A j \in failing : i <= j
  IN IF failing = {} THEN "none" ELSE IF Unimportable(plugins[at]) THEN "raised" ELSE "refused"

\* The rest of resolve_profile: the bundles are made once to see that they
\* can be, and the snapshot is frozen.
Freeze ==
  /\ pc = "resolved" /\ purpose = "run" /\ UNCHANGED world
  /\ LET fault == Fault(refs, authorized) IN
       IF fault # "none" THEN Refuse(fault)
       ELSE /\ pc' = "frozen" /\ snapshot' = [plugins |-> refs, generalist |-> authorized]
            /\ UNCHANGED <<purpose, asked, refs, authorized, agent, receipt, first>>

\* `profile check`, and the switch of the gateway: nothing is kept.
Check ==
  /\ pc = "resolved" /\ purpose = "check" /\ UNCHANGED world
  /\ LET fault == Fault(refs, authorized) IN Refuse(IF fault = "none" THEN "idle" ELSE fault)

\* (mutant) a frozen policy is cut by the host again.
AppliedAsRequest(policy) == IF policy = Absent THEN settings ELSE (settings \ Generalist) \cup (policy \cap settings)
\* apply_generalist_policy with a frozen policy: exactly that policy.
Applied(policy) == IF policy = Absent THEN settings ELSE (settings \ Generalist) \cup policy
\* generalist_capabilities: past runs are searched in the persisted steps.
Capabilities(flags) == IF "persistence" \in flags THEN flags ELSE flags \ {"conversation_search"}
\* build_agent.
Built(plugins, policy) ==
  LET flags == Applied(policy)
      releases == [i \in DOMAIN plugins |-> installed[plugins[i].id]]
      contributing == {plugins[i].id : i \in {j \in DOMAIN plugins : releases[j].capability}}
      teaching == {plugins[i].id : i \in {j \in DOMAIN plugins : releases[j].skills = "there"}}
  IN [plugins |-> plugins, releases |-> releases, flags |-> flags,
      capabilities |-> Capabilities(flags) \cup contributing,
      skills |-> IF "skills" \in flags THEN teaching ELSE {}]
Runs(built) ==
  /\ pc' = "running" /\ agent' = built
  /\ first' = IF purpose' = "resume" THEN first ELSE built

\* build_agent_from_snapshot.
Build ==
  /\ pc = "frozen" /\ UNCHANGED world
  /\ LET fault == Fault(snapshot.plugins, snapshot.generalist) IN
       IF fault # "none" THEN Refuse(fault)
       ELSE UNCHANGED <<purpose, asked, refs, authorized, snapshot, receipt>> /\ Runs(Built(snapshot.plugins, snapshot.generalist))

\* A run without a profile: the core agent, and no snapshot.
StartCore ==
  /\ pc = "idle" /\ purpose' = "run" /\ snapshot' = Absent
  /\ Runs(Built(<<>>, Absent)) /\ UNCHANGED <<world, asked, refs, authorized, receipt>>
-----------------------------------------------------------------------------
Pause ==
  /\ pc = "running" /\ pc' = "paused" /\ receipt' = snapshot
  /\ UNCHANGED <<world, purpose, asked, refs, authorized, snapshot, agent, first>>

Finish ==
  /\ pc = "running" /\ pc' = "finished"
  /\ UNCHANGED <<world, purpose, asked, refs, authorized, snapshot, agent, receipt, first>>

\* resume_paused_run: from the receipt, never from the profile.
Resume ==
  /\ pc = "paused" /\ purpose' = "resume" /\ snapshot' = receipt
  /\ IF receipt = Absent THEN Runs(Built(<<>>, Absent)) ELSE pc' = "frozen" /\ UNCHANGED <<agent, first>>
  /\ UNCHANGED <<world, asked, refs, authorized, receipt>>

\* A refused continuation leaves the run paused, a refused command nothing.
TryAgain ==
  /\ pc \in {"refused", "raised"} /\ pc' = IF purpose = "resume" THEN "paused" ELSE "idle"
  /\ UNCHANGED <<world, purpose, asked, refs, authorized, snapshot, agent, receipt, first>>

Changes == edits < MaxEdits /\ edits' = edits + 1 /\ UNCHANGED <<pc, purpose, asked, refs, authorized, snapshot, agent, receipt, first>>
EditProfile == Changes /\ profile' \in (Document \cup {Absent}) \ {profile} /\ UNCHANGED <<installed, settings>>
Install == Changes /\ UNCHANGED <<profile, settings>> /\ \E p \in Plugin, r \in Release \cup {Absent} : installed' = [installed EXCEPT ![p] = r]
\* A command runs under the settings its process started with.
Restart == Changes /\ pc \in {"idle", "paused"} /\ settings' \in Host \ {settings} /\ UNCHANGED <<profile, installed>>

Next ==
  \/ \E why \in {"check", "run"} : LoadProfile(why)
  \/ Resolve \/ Freeze \/ Check \/ Build \/ StartCore \/ Pause \/ Finish \/ Resume \/ TryAgain
  \/ EditProfile \/ Install \/ Restart

Spec == Init /\ [][Next]_vars
-----------------------------------------------------------------------------
Composed == agent # Absent /\ pc \in {"running", "paused", "finished"}
Deferred(a) == {i \in DOMAIN a.plugins : a.plugins[i].defer \/ a.releases[i].marked}

\* Tools that are hidden until they are searched for can be searched for: no
\* agent, new or resumed, hides a plugin's tools without ToolSearch.
HiddenIsFindable == Composed /\ Deferred(agent) # {} => "tool_search" \in agent.capabilities

\* A continuation runs the plugins, in their versions, and under the policy
\* that were frozen, whatever became of the profile and of the host.
FrozenStands ==
  Composed /\ purpose = "resume" /\ receipt # Absent =>
    /\ agent.plugins = first.plugins
    /\ \A i \in DOMAIN agent.plugins :
         /\ agent.releases[i].version = first.releases[i].version
         /\ agent.releases[i].entry = first.releases[i].entry
    /\ receipt.generalist # Absent => agent.flags \cap Generalist = first.flags \cap Generalist

\* What a run may do was allowed by the host it began under, asked for by its
\* profile, and granted plugin by plugin.
NothingUnasked ==
  /\ pc = "running" /\ snapshot # Absent /\ purpose = "run" =>
       /\ agent.flags \subseteq settings
       /\ asked.generalist # Absent => agent.flags \cap Generalist \subseteq asked.generalist
  /\ Composed =>
       \A i \in DOMAIN agent.plugins : agent.plugins[i].id \in agent.capabilities => agent.plugins[i].allow

\* A continuation is refused only when a plugin is no longer what it was.
RefusedForCause ==
  [][pc' \in {"refused", "raised"} /\ purpose' = "resume" /\ pc = "frozen"
       => \E i \in DOMAIN first.plugins : installed[first.plugins[i].id] # first.releases[i]]_vars

\* Refuted, see the README: a plugin edited under the same version is resumed
\* as it is now, a run whose profile has no [generalist] section is resumed
\* under the settings of today, and a frozen permission outlives the host's.
SameContents == Composed /\ purpose = "resume" => agent.releases = first.releases
HostStands == Composed /\ purpose = "resume" => agent.flags \cap Generalist = first.flags \cap Generalist
CeilingHolds == Composed => agent.flags \subseteq settings
FailuresAreRefusals == pc # "raised"
=============================================================================
