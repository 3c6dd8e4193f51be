--------------------------- MODULE ExperienceStore ---------------------------
(***************************************************************************)
(* The canonical store of compiled Experiences and templates               *)
(* (experience-core, store.rs): two ordered lists, the metadata that is    *)
(* addressed by name, the four lookup indexes, and the file the store is   *)
(* saved to and opened from.                                               *)
(*                                                                         *)
(* `insert` and `insert_template` maintain the indexes incrementally while *)
(* every other operation rebuilds them (`reindex`), and `open` replays the *)
(* saved lists through `insert`: three ways to compute the same thing.     *)
(***************************************************************************)
EXTENDS ExperienceDomain, Naturals, Sequences

CONSTANTS
    Name,         \* artifact names; experiences and templates share the space
    Body,         \* executable bodies: trigger, workflow, conditions
    Tool,         \* trigger tools
    ToolOf,       \* ToolOf[b]: the trigger tool of a body
    Malformed,    \* the bodies that have a schema issue
    Scope,        \* scenes
    MaxArtifacts  \* bound on each list

ASSUME ConstantsAssumption ==
    /\ ToolOf \in [Body -> Tool]
    /\ Malformed \subseteq Body
    /\ MaxArtifacts \in Nat

VARIABLES
    experiences,               \* Vec<Experience>, insertion order
    templates,                 \* Vec<ExperienceTemplate>, insertion order
    meta,                      \* metadata by name, see Metadata
    by_name,                   \* name -> position in experiences
    active_by_tool,            \* tool -> names of the ACTIVE experiences
    templates_by_name,         \* name -> position in templates
    active_templates_by_tool   \* tool -> names of the ACTIVE templates

lists   == <<experiences, templates>>
indexes == <<by_name, active_by_tool, templates_by_name, active_templates_by_tool>>
vars    == <<lists, meta, indexes>>
-----------------------------------------------------------------------------
(* Data *)

Artifact == [name : Name, body : Body, status : ExperienceStatus]

Usage == {"allow", "deny"}

\* A name without an entry in a map.
None == "none"

(***************************************************************************)
(* Of user_usage only "deny" is told apart ("auto" and "allow" both let    *)
(* the experience be used).  display_names and user_confidence have the    *)
(* same operations: labels stands for either, as the set of names with an  *)
(* entry, and so does origins for candidate_origins.                       *)
(***************************************************************************)
Metadata ==
    [pinned     : SUBSET Name,
     scopes     : [Name -> Scope \cup {None}],
     user_usage : [Name -> Usage \cup {None}],
     labels     : SUBSET Name,
     origins    : SUBSET Name]

EmptyMeta ==
    [pinned     |-> {},
     scopes     |-> [n \in Name |-> None],
     user_usage |-> [n \in Name |-> None],
     labels     |-> {},
     origins    |-> {}]

\* Mutant of Forget: the user's usage decision is left behind.
ForgetKeepsUsage(m, n) ==
    [m EXCEPT !.pinned = @ \ {n}, !.scopes[n] = None,
              !.labels = @ \ {n}, !.origins = @ \ {n}]

\* What `remove` and `remove_template` leave of the metadata.
Forget(m, n) ==
    [pinned     |-> m.pinned \ {n},
     scopes     |-> [m.scopes EXCEPT ![n] = None],
     user_usage |-> [m.user_usage EXCEPT ![n] = None],
     labels     |-> m.labels \ {n},
     origins    |-> m.origins \ {n}]

\* The names that users decided something about: a pin, a label, a scene, a usage.
Decided(m) ==
    m.pinned \cup m.labels
      \cup {n \in Name : m.scopes[n] # None \/ m.user_usage[n] # None}

NamesIn(list) == {list[i].name : i \in DOMAIN list}

\* Vec::remove: the elements after position i move down by one.
RemoveAt(list, i) ==
    [j \in 1..(Len(list) - 1) |-> IF j < i THEN list[j] ELSE list[j + 1]]

-----------------------------------------------------------------------------
(* Indexes *)

\* `reindex` for one list, by name: a later entry overwrites an earlier one.
NameIndex(list) ==
    [n \in NamesIn(list) |->
        CHOOSE i \in DOMAIN list :
            /\ list[i].name = n
            /\ \A j \in DOMAIN list : list[j].name = n => j <= i]

(***************************************************************************)
(* `reindex` for one list, by tool.  The code's per-tool Vec lists names   *)
(* in the order of the list itself (both writers append in that order), so *)
(* the set of names is the whole of its information.                       *)
(***************************************************************************)
ToolIndex(list) ==
    [t \in Tool |->
        {list[i].name : i \in {j \in DOMAIN list :
                                 /\ list[j].status = "active"
                                 /\ ToolOf[list[j].body] = t}}]

\* `reindex`: all four indexes are cleared and rebuilt from the lists.
Reindex(exps, tpls) ==
    /\ by_name' = NameIndex(exps)
    /\ active_by_tool' = ToolIndex(exps)
    /\ templates_by_name' = NameIndex(tpls)
    /\ active_templates_by_tool' = ToolIndex(tpls)

\* The incremental update of a by-name index in `insert`.
WithName(index, n, position) ==
    [m \in DOMAIN index \cup {n} |-> IF m = n THEN position ELSE index[m]]

\* Mutant of WithActive: the tool is pushed where the name belongs.
WithActiveTool(index, a) ==
    IF a.status = "active"
    THEN [index EXCEPT ![ToolOf[a.body]] = @ \cup {ToolOf[a.body]}]
    ELSE index

\* Mutant of WithActive: the status is not looked at.
WithActiveAnyStatus(index, a) ==
    [index EXCEPT ![ToolOf[a.body]] = @ \cup {a.name}]

\* The incremental update of a by-tool index in `insert`.
WithActive(index, a) ==
    IF a.status = "active"
    THEN [index EXCEPT ![ToolOf[a.body]] = @ \cup {a.name}]
    ELSE index

-----------------------------------------------------------------------------
(* The file *)

\* `from_json` succeeds when replaying `insert` over a saved list does.
Loads(list) ==
    /\ \A i \in DOMAIN list : list[i].body \notin Malformed
    /\ \A i, j \in DOMAIN list : list[i].name = list[j].name => i = j

-----------------------------------------------------------------------------
(* Operations.  A refused call (an Err) changes nothing and is no step. *)

Contains(n) == n \in DOMAIN by_name \/ n \in DOMAIN templates_by_name

Init ==
    /\ experiences = <<>>
    /\ templates = <<>>
    /\ meta = EmptyMeta
    /\ by_name = NameIndex(<<>>)
    /\ active_by_tool = [t \in Tool |-> {}]
    /\ templates_by_name = NameIndex(<<>>)
    /\ active_templates_by_tool = [t \in Tool |-> {}]

Insert(a) ==
    /\ a.body \notin Malformed
    /\ a.name \notin DOMAIN by_name
    /\ Len(experiences) < MaxArtifacts
    /\ by_name' = WithName(by_name, a.name, Len(experiences) + 1)
    /\ active_by_tool' = WithActive(active_by_tool, a)
    /\ experiences' = Append(experiences, a)
    /\ UNCHANGED <<templates, meta, templates_by_name, active_templates_by_tool>>

InsertTemplate(a) ==
    /\ a.body \notin Malformed
    /\ a.name \notin DOMAIN templates_by_name
    /\ Len(templates) < MaxArtifacts
    /\ templates_by_name' = WithName(templates_by_name, a.name, Len(templates) + 1)
    /\ active_templates_by_tool' = WithActive(active_templates_by_tool, a)
    /\ templates' = Append(templates, a)
    /\ UNCHANGED <<experiences, meta, by_name, active_by_tool>>

TransitionStatus(n, action) ==
    /\ n \in DOMAIN by_name
    /\ LET i == by_name[n]
       IN  /\ CanTransition(experiences[i].status, action)
           /\ experiences' = [experiences EXCEPT ![i].status = Target(action)]
    /\ Reindex(experiences', templates)
    /\ UNCHANGED <<templates, meta>>

TransitionTemplateStatus(n, action) ==
    /\ n \in DOMAIN templates_by_name
    /\ LET i == templates_by_name[n]
       IN  /\ CanTransition(templates[i].status, action)
           /\ templates' = [templates EXCEPT ![i].status = Target(action)]
    /\ Reindex(experiences, templates')
    /\ UNCHANGED <<experiences, meta>>

\* Mutant of ReplaceExisting: the replacement's schema is not checked.
ReplaceExistingUnchecked(n, b) ==
    /\ n \in DOMAIN by_name
    /\ experiences' = [experiences EXCEPT ![by_name[n]].body = b]
    /\ Reindex(experiences', templates)
    /\ UNCHANGED <<templates, meta>>

\* The body is replaced; name, status and metadata are kept.
ReplaceExisting(n, b) ==
    /\ n \in DOMAIN by_name
    /\ b \notin Malformed
    /\ experiences' = [experiences EXCEPT ![by_name[n]].body = b]
    /\ Reindex(experiences', templates)
    /\ UNCHANGED <<templates, meta>>

Remove(n) ==
    /\ n \in DOMAIN by_name
    /\ meta' = Forget(meta, n)
    /\ experiences' = RemoveAt(experiences, by_name[n])
    /\ Reindex(experiences', templates)
    /\ UNCHANGED <<templates>>

RemoveTemplate(n) ==
    /\ n \in DOMAIN templates_by_name
    /\ meta' = Forget(meta, n)
    /\ templates' = RemoveAt(templates, templates_by_name[n])
    /\ Reindex(experiences, templates')
    /\ UNCHANGED <<experiences>>

Pin(n) ==
    /\ Contains(n)
    /\ meta' = [meta EXCEPT !.pinned = @ \cup {n}]
    /\ UNCHANGED <<lists, indexes>>

Unpin(n) ==
    /\ meta' = [meta EXCEPT !.pinned = @ \ {n}]
    /\ UNCHANGED <<lists, indexes>>

\* set_scope: a scene, or None to clear.
SetScope(n, s) ==
    /\ Contains(n)
    /\ meta' = [meta EXCEPT !.scopes[n] = s]
    /\ UNCHANGED <<lists, indexes>>

\* set_user_usage: experiences only.
SetUserUsage(n, u) ==
    /\ n \in DOMAIN by_name
    /\ meta' = [meta EXCEPT !.user_usage[n] = u]
    /\ UNCHANGED <<lists, indexes>>

\* set_display_name and set_user_confidence: set or clear the entry.
SetLabel(n, present) ==
    /\ Contains(n)
    /\ meta' = [meta EXCEPT !.labels = IF present THEN @ \cup {n} ELSE @ \ {n}]
    /\ UNCHANGED <<lists, indexes>>

(***************************************************************************)
(* set_candidate_origin checks nothing, and the name may be nobody's: the  *)
(* server takes it from the task (l1_sink_session, main.rs:2828), while an *)
(* LLM distiller may have named the draft that was inserted otherwise.     *)
(***************************************************************************)
SetCandidateOrigin(n) ==
    /\ meta' = [meta EXCEPT !.origins = @ \cup {n}]
    /\ UNCHANGED <<lists, indexes>>

(***************************************************************************)
(* `save`, a restart, and `open`: the lists and the metadata come back as  *)
(* they were saved, and `insert` is replayed over the lists.               *)
(***************************************************************************)
Reopen ==
    /\ Loads(experiences)
    /\ Loads(templates)
    /\ Reindex(experiences, templates)
    /\ UNCHANGED <<lists, meta>>

ListNext ==
    \/ \E a \in Artifact : Insert(a) \/ InsertTemplate(a)
    \/ \E n \in Name, action \in QualificationAction :
          TransitionStatus(n, action) \/ TransitionTemplateStatus(n, action)
    \/ \E n \in Name, b \in Body : ReplaceExisting(n, b)
    \/ \E n \in Name : Remove(n) \/ RemoveTemplate(n)
    \/ Reopen

MetaNext ==
    \/ \E n \in Name : Pin(n) \/ Unpin(n) \/ SetCandidateOrigin(n)
    \/ \E n \in Name, s \in Scope \cup {None} : SetScope(n, s)
    \/ \E n \in Name, u \in Usage \cup {None} : SetUserUsage(n, u)
    \/ \E n \in Name, p \in BOOLEAN : SetLabel(n, p)

Next == ListNext \/ MetaNext

Spec == Init /\ [][Next]_vars
-----------------------------------------------------------------------------
(* Properties *)

(***************************************************************************)
(* Every variable has its type.                                            *)
(***************************************************************************)
TypeOK ==
    /\ experiences \in Seq(Artifact)
    /\ templates \in Seq(Artifact)
    /\ meta \in Metadata
    /\ DOMAIN by_name \subseteq Name
    /\ DOMAIN templates_by_name \subseteq Name
    /\ active_by_tool \in [Tool -> SUBSET Name]
    /\ active_templates_by_tool \in [Tool -> SUBSET Name]

(***************************************************************************)
(* The lookup indexes, however they were last maintained (appended to by   *)
(* `insert`, rebuilt by `reindex`), are the ones the lists determine: the  *)
(* gate matches exactly the ACTIVE artifacts under their current trigger   *)
(* tool, and `get` never returns another artifact's position.              *)
(***************************************************************************)
IndexesFaithful ==
    /\ by_name = NameIndex(experiences)
    /\ active_by_tool = ToolIndex(experiences)
    /\ templates_by_name = NameIndex(templates)
    /\ active_templates_by_tool = ToolIndex(templates)

(***************************************************************************)
(* Whatever sequence of operations ran, a store saved now opens again:     *)
(* `from_json` refuses a file with a duplicate name or a malformed body    *)
(* and the host then has no store at all.                                  *)
(***************************************************************************)
SavedStoreOpens == Loads(experiences) /\ Loads(templates)

(***************************************************************************)
(* What users decided about an artifact goes with it: a name that is       *)
(* removed and inserted again starts with no pin, label, scene or usage of *)
(* the old.                                                                *)
(***************************************************************************)
NoOrphanMetadata ==
    Decided(meta) \subseteq NamesIn(experiences) \cup NamesIn(templates)

(***************************************************************************)
(* "attach provenance to an auto-learned candidate" (store.rs:619): an     *)
(* origin belongs to a stored artifact.  An origin recorded under another  *)
(* name than the draft's refutes it, and what is inserted under that name  *)
(* later has the origin.                                                   *)
(***************************************************************************)
OriginsHaveArtifacts ==
    meta.origins \subseteq NamesIn(experiences) \cup NamesIn(templates)
=============================================================================
