----------------------- MODULE ExperienceStoreProofs -----------------------
(***************************************************************************)
(* For every set of names, bodies, tools and scenes and every bound on the *)
(* lists: the indexes of the store stay the ones the lists determine, a    *)
(* saved store opens again, and no metadata outlives its artifact.         *)
(*                                                                         *)
(* The three are proved together (StoreInv).  IndexesFaithful alone is not *)
(* inductive: `insert` extends the by-name index correctly only if the     *)
(* name is new, and it looks for the name in the index, so uniqueness and  *)
(* faithfulness of the index need each other; and `remove` takes the last  *)
(* trace of a name out of the lists only because names are unique.         *)
(***************************************************************************)
EXTENDS ExperienceStore, TLAPS

ListOK(list) == list \in Seq(Artifact) /\ Loads(list)

StoreInv ==
    /\ TypeOK
    /\ IndexesFaithful
    /\ SavedStoreOpens
    /\ NoOrphanMetadata

-----------------------------------------------------------------------------
(* Lemmas about the list helpers *)

\* Looking a name up in the index of a list finds the artifact of that name.
LEMMA NameIndexLookup ==
    ASSUME NEW list, ListOK(list)
    PROVE  /\ DOMAIN NameIndex(list) = NamesIn(list)
           /\ NamesIn(list) \subseteq Name
           /\ \A n \in NamesIn(list) :
                 /\ NameIndex(list)[n] \in 1..Len(list)
                 /\ NameIndex(list)[n] \in DOMAIN list
                 /\ list[NameIndex(list)[n]].name = n
           /\ \A i \in DOMAIN list : NameIndex(list)[list[i].name] = i
<1>1. DOMAIN NameIndex(list) = NamesIn(list)
  BY DEF NameIndex
<1>2. NamesIn(list) \subseteq Name
  <2>1. \A i \in DOMAIN list : list[i] \in Artifact
    BY DEF ListOK
  <2>2. \A i \in DOMAIN list : list[i].name \in Name
    BY <2>1 DEF Artifact
  <2> QED
    BY <2>2 DEF NamesIn
<1>3. DOMAIN list = 1..Len(list) /\ Len(list) \in Nat
  BY DEF ListOK
<1>4. ASSUME NEW i \in DOMAIN list
      PROVE  NameIndex(list)[list[i].name] = i
  <2>1. list[i].name \in NamesIn(list)
    BY DEF NamesIn
  <2>2. \A j \in DOMAIN list : list[j].name = list[i].name => j = i
    BY DEF ListOK, Loads
  <2>3. \A j \in DOMAIN list : list[j].name = list[i].name => j <= i
    BY <2>2, <1>3
  <2>4. NameIndex(list)[list[i].name]
          = CHOOSE k \in DOMAIN list :
              /\ list[k].name = list[i].name
              /\ \A j \in DOMAIN list : list[j].name = list[i].name => j <= k
    BY <2>1 DEF NameIndex
  <2> QED
    BY <2>2, <2>3, <2>4
<1>5. ASSUME NEW n \in NamesIn(list)
      PROVE  /\ NameIndex(list)[n] \in DOMAIN list
             /\ list[NameIndex(list)[n]].name = n
  <2>1. PICK i \in DOMAIN list : list[i].name = n
    BY DEF NamesIn
  <2> QED
    BY <2>1, <1>4
<1> QED
  BY <1>1, <1>2, <1>3, <1>4, <1>5

\* Appending an artifact with a new name and a well-formed body.
LEMMA AppendOK ==
    ASSUME NEW list, ListOK(list), NEW a \in Artifact,
           a.body \notin Malformed, a.name \notin NamesIn(list)
    PROVE  /\ ListOK(Append(list, a))
           /\ NamesIn(Append(list, a)) = NamesIn(list) \cup {a.name}
           /\ NameIndex(Append(list, a))
                = WithName(NameIndex(list), a.name, Len(list) + 1)
           /\ ToolIndex(Append(list, a)) = WithActive(ToolIndex(list), a)
<1> DEFINE more == Append(list, a)
<1>1. /\ more \in Seq(Artifact)
      /\ Len(list) \in Nat
      /\ DOMAIN list = 1..Len(list)
      /\ DOMAIN more = 1..(Len(list) + 1)
      /\ \A i \in DOMAIN list : i \in DOMAIN more /\ more[i] = list[i]
      /\ Len(list) + 1 \in DOMAIN more
      /\ more[Len(list) + 1] = a
      /\ \A i \in DOMAIN more : i \in DOMAIN list \/ i = Len(list) + 1
  BY DEF ListOK
<1> HIDE DEF more
<1>2. Loads(more)
  <2>1. \A i \in DOMAIN more : more[i].body \notin Malformed
    BY <1>1 DEF ListOK, Loads
  <2>2. \A i \in DOMAIN list : list[i].name # a.name
    BY DEF NamesIn
  <2>3. ASSUME NEW i \in DOMAIN more, NEW j \in DOMAIN more,
               more[i].name = more[j].name
        PROVE  i = j
    BY <1>1, <2>2, <2>3 DEF ListOK, Loads
  <2> QED
    BY <2>1, <2>3 DEF Loads
<1>3. ListOK(more)
  BY <1>1, <1>2 DEF ListOK
<1>4. NamesIn(more) = NamesIn(list) \cup {a.name}
  BY <1>1 DEF NamesIn
<1>5. NameIndex(more) = WithName(NameIndex(list), a.name, Len(list) + 1)
  <2> DEFINE f == NameIndex(more)
             g == WithName(NameIndex(list), a.name, Len(list) + 1)
  <2>1. DOMAIN f = NamesIn(more) /\ DOMAIN g = NamesIn(more)
    BY <1>3, <1>4, NameIndexLookup DEF WithName
  <2>2. ASSUME NEW n \in NamesIn(more)
        PROVE  f[n] = g[n]
    <3>1. CASE n = a.name
      BY <3>1, <1>1, <1>3, <1>4, NameIndexLookup DEF WithName
    <3>2. CASE n # a.name
      <4>1. n \in NamesIn(list)
        BY <3>2, <1>4
      <4>2. PICK i \in DOMAIN list : list[i].name = n
        BY <4>1 DEF NamesIn
      <4>3. NameIndex(list)[n] = i
        BY <4>2, NameIndexLookup
      <4>4. f[n] = i
        BY <4>2, <1>1, <1>3, NameIndexLookup
      <4>5. g[n] = NameIndex(list)[n]
        BY <4>1, <3>2, NameIndexLookup DEF WithName
      <4> QED
        BY <4>3, <4>4, <4>5
    <3> QED
      BY <3>1, <3>2
  <2>3. f = [n \in NamesIn(more) |-> f[n]] /\ g = [n \in NamesIn(more) |-> g[n]]
    BY <2>1 DEF NameIndex, WithName
  <2> QED
    BY <2>2, <2>3
<1>6. ToolIndex(more) = WithActive(ToolIndex(list), a)
  <2> DEFINE f == ToolIndex(more)
             g == WithActive(ToolIndex(list), a)
  <2>1. f = [t \in Tool |-> f[t]] /\ g = [t \in Tool |-> g[t]]
    BY DEF ToolIndex, WithActive
  <2>2. ASSUME NEW t \in Tool
        PROVE  f[t] = g[t]
    <3>1. f[t] = {more[i].name : i \in {j \in DOMAIN more :
                     more[j].status = "active" /\ ToolOf[more[j].body] = t}}
      BY DEF ToolIndex
    <3>2. ToolIndex(list)[t] = {list[i].name : i \in {j \in DOMAIN list :
                     list[j].status = "active" /\ ToolOf[list[j].body] = t}}
      BY DEF ToolIndex
    <3>3. CASE a.status = "active" /\ ToolOf[a.body] = t
      <4>1. g[t] = ToolIndex(list)[t] \cup {a.name}
        BY <3>3 DEF WithActive, ToolIndex
      <4> QED
        BY <3>1, <3>2, <3>3, <4>1, <1>1
    <3>4. CASE ~(a.status = "active" /\ ToolOf[a.body] = t)
      <4>1. g[t] = ToolIndex(list)[t]
        BY <3>4, ConstantsAssumption DEF WithActive, ToolIndex, Artifact
      <4> QED
        BY <3>1, <3>2, <3>4, <4>1, <1>1
    <3> QED
      BY <3>3, <3>4
  <2> QED
    BY <2>1, <2>2
<1> QED
  BY <1>3, <1>4, <1>5, <1>6 DEF more

\* Replacing one artifact by a well-formed one of the same name.
LEMMA UpdateOK ==
    ASSUME NEW list, ListOK(list), NEW i \in DOMAIN list,
           NEW x \in Artifact, x.name = list[i].name, x.body \notin Malformed
    PROVE  /\ ListOK([list EXCEPT ![i] = x])
           /\ NamesIn([list EXCEPT ![i] = x]) = NamesIn(list)
<1> DEFINE new == [list EXCEPT ![i] = x]
<1>1. new \in Seq(Artifact) /\ DOMAIN new = DOMAIN list
  BY DEF ListOK
<1>2. \A j \in DOMAIN list :
        /\ new[j].name = list[j].name
        /\ new[j].body \notin Malformed
  BY DEF ListOK, Loads
<1> HIDE DEF new
<1>3. Loads(new)
  BY <1>1, <1>2 DEF ListOK, Loads
<1>4. NamesIn(new) = NamesIn(list)
  BY <1>1, <1>2 DEF NamesIn
<1> QED
  BY <1>1, <1>3, <1>4 DEF ListOK, new

\* A status transition changes no name and no body.
LEMMA StatusOK ==
    ASSUME NEW list, ListOK(list), NEW i \in DOMAIN list, NEW s \in ExperienceStatus
    PROVE  /\ ListOK([list EXCEPT ![i].status = s])
           /\ NamesIn([list EXCEPT ![i].status = s]) = NamesIn(list)
<1>1. list[i] \in Artifact /\ list[i].body \notin Malformed
  BY DEF ListOK, Loads
<1>2. /\ [list[i] EXCEPT !.status = s] \in Artifact
      /\ [list[i] EXCEPT !.status = s].name = list[i].name
      /\ [list[i] EXCEPT !.status = s].body = list[i].body
  BY <1>1 DEF Artifact
<1>3. [list EXCEPT ![i].status = s] = [list EXCEPT ![i] = [list[i] EXCEPT !.status = s]]
  OBVIOUS
<1> QED
  BY <1>1, <1>2, <1>3, UpdateOK

\* Replacing a body changes no name.
LEMMA BodyOK ==
    ASSUME NEW list, ListOK(list), NEW i \in DOMAIN list,
           NEW b \in Body, b \notin Malformed
    PROVE  /\ ListOK([list EXCEPT ![i].body = b])
           /\ NamesIn([list EXCEPT ![i].body = b]) = NamesIn(list)
<1>1. list[i] \in Artifact
  BY DEF ListOK
<1>2. /\ [list[i] EXCEPT !.body = b] \in Artifact
      /\ [list[i] EXCEPT !.body = b].name = list[i].name
      /\ [list[i] EXCEPT !.body = b].body = b
  BY <1>1 DEF Artifact
<1> DEFINE x == [list[i] EXCEPT !.body = b]
<1>3. [list EXCEPT ![i].body = b] = [list EXCEPT ![i] = x]
  OBVIOUS
<1>4. x \in Artifact /\ x.name = list[i].name /\ x.body \notin Malformed
  BY <1>2
<1> HIDE DEF x
<1>5. ListOK([list EXCEPT ![i] = x]) /\ NamesIn([list EXCEPT ![i] = x]) = NamesIn(list)
  BY <1>4, UpdateOK
<1> QED
  BY <1>3, <1>5

\* Removing the artifact at a position removes its name and no other.
LEMMA RemoveOK ==
    ASSUME NEW list, ListOK(list), NEW i \in DOMAIN list
    PROVE  /\ ListOK(RemoveAt(list, i))
           /\ NamesIn(RemoveAt(list, i)) = NamesIn(list) \ {list[i].name}
<1> DEFINE less == RemoveAt(list, i)
<1>1. /\ Len(list) \in Nat
      /\ DOMAIN list = 1..Len(list)
      /\ i \in 1..Len(list)
      /\ Len(list) - 1 \in Nat
      /\ DOMAIN less = 1..(Len(list) - 1)
  BY DEF ListOK, RemoveAt
<1>2. \A j \in DOMAIN less :
         /\ j < i => j \in DOMAIN list /\ less[j] = list[j]
         /\ ~(j < i) => j + 1 \in DOMAIN list /\ less[j] = list[j + 1]
  BY <1>1 DEF RemoveAt
<1>3. less \in Seq(Artifact)
  <2>1. \A j \in DOMAIN list : list[j] \in Artifact
    BY DEF ListOK
  <2>2. \A j \in 1..(Len(list) - 1) : less[j] \in Artifact
    BY <1>1, <1>2, <2>1
  <2>3. less = [j \in 1..(Len(list) - 1) |-> less[j]]
    BY DEF RemoveAt
  <2> HIDE DEF less
  <2> QED
    BY <1>1, <2>2, <2>3
<1> HIDE DEF less
<1>4. ASSUME NEW j \in DOMAIN less, NEW k \in DOMAIN less,
             less[j].name = less[k].name
      PROVE  j = k
  <2>1. \A p, q \in DOMAIN list : list[p].name = list[q].name => p = q
    BY DEF ListOK, Loads
  <2> DEFINE at(x) == IF x < i THEN x ELSE x + 1
  <2>2. /\ at(j) \in DOMAIN list /\ less[j] = list[at(j)]
        /\ at(k) \in DOMAIN list /\ less[k] = list[at(k)]
    BY <1>2
  <2>3. at(j) = at(k)
    BY <2>1, <2>2, <1>4
  <2> QED
    BY <2>3, <1>1
<1>5. \A j \in DOMAIN less : less[j].body \notin Malformed
  BY <1>2 DEF ListOK, Loads
<1>6. ListOK(less)
  BY <1>3, <1>4, <1>5 DEF ListOK, Loads
<1>7. NamesIn(less) = NamesIn(list) \ {list[i].name}
  <2>1. ASSUME NEW j \in DOMAIN less
        PROVE  less[j].name \in NamesIn(list) \ {list[i].name}
    <3>1. \A p \in DOMAIN list : list[p].name = list[i].name => p = i
      BY DEF ListOK, Loads
    <3>2. CASE j < i
      BY <3>1, <3>2, <1>1, <1>2 DEF NamesIn
    <3>3. CASE ~(j < i)
      <4>1. j + 1 \in DOMAIN list /\ less[j] = list[j + 1] /\ j + 1 # i
        BY <3>3, <1>1, <1>2
      <4> QED
        BY <4>1, <3>1 DEF NamesIn
    <3> QED
      BY <3>2, <3>3
  <2>2. ASSUME NEW p \in DOMAIN list, p # i
        PROVE  list[p].name \in NamesIn(less)
    <3>1. CASE p < i
      <4>1. p \in DOMAIN less /\ less[p] = list[p]
        BY <3>1, <1>1, <1>2
      <4> QED
        BY <4>1 DEF NamesIn
    <3>2. CASE ~(p < i)
      <4>1. p - 1 \in DOMAIN less /\ ~(p - 1 < i) /\ (p - 1) + 1 = p
        BY <3>2, <2>2, <1>1
      <4>2. less[p - 1] = list[p]
        BY <4>1, <1>2
      <4> QED
        BY <4>1, <4>2 DEF NamesIn
    <3> QED
      BY <3>1, <3>2
  <2> QED
    BY <2>1, <2>2 DEF NamesIn
<1> QED
  BY <1>6, <1>7 DEF less

-----------------------------------------------------------------------------
(* The invariant *)

\* What each action has to establish for the lists and the indexes.
ListsAndIndexesOK ==
    /\ ListOK(experiences)
    /\ ListOK(templates)
    /\ IndexesFaithful

LEMMA InvMeaning ==
    StoreInv <=> ListsAndIndexesOK /\ meta \in Metadata /\ NoOrphanMetadata
<1>1. ASSUME ListsAndIndexesOK, meta \in Metadata
      PROVE  TypeOK /\ SavedStoreOpens
  <2>1. /\ DOMAIN by_name \subseteq Name
        /\ DOMAIN templates_by_name \subseteq Name
    BY <1>1, NameIndexLookup DEF ListsAndIndexesOK, IndexesFaithful
  <2>2. ASSUME NEW list, ListOK(list)
        PROVE  ToolIndex(list) \in [Tool -> SUBSET Name]
    <3>1. NamesIn(list) \subseteq Name
      BY <2>2, NameIndexLookup
    <3>2. \A i \in DOMAIN list : list[i].name \in Name
      BY <3>1 DEF NamesIn
    <3> QED
      BY <3>2 DEF ToolIndex
  <2>3. /\ active_by_tool \in [Tool -> SUBSET Name]
        /\ active_templates_by_tool \in [Tool -> SUBSET Name]
    BY <1>1, <2>2 DEF ListsAndIndexesOK, IndexesFaithful
  <2> QED
    BY <1>1, <2>1, <2>3 DEF ListsAndIndexesOK, TypeOK, SavedStoreOpens, ListOK
<1> QED
  BY <1>1 DEF StoreInv, ListsAndIndexesOK, TypeOK, SavedStoreOpens, ListOK

\* `reindex` leaves faithful indexes whatever they were before.
LEMMA ReindexFaithful ==
    ASSUME Reindex(experiences', templates')
    PROVE  IndexesFaithful'
  BY DEF Reindex, IndexesFaithful

\* Dropping the metadata of a name whose artifact leaves one list.
LEMMA ForgetOK ==
    ASSUME NEW m \in Metadata, NEW n \in Name
    PROVE  Forget(m, n) \in Metadata /\ Decided(Forget(m, n)) \subseteq Decided(m) \ {n}
<1>1. Forget(m, n) \in Metadata
  BY DEF Forget, Metadata
<1>2. ASSUME NEW x \in Decided(Forget(m, n))
      PROVE  x \in Decided(m) \ {n}
  BY DEF Decided, Forget, Metadata
<1> QED
  BY <1>1, <1>2

\* An empty store satisfies the invariant.
LEMMA InitInv == Init => StoreInv
<1> SUFFICES ASSUME Init PROVE StoreInv
  OBVIOUS
<1>1. ListOK(<<>>) /\ NamesIn(<<>>) = {}
  BY DEF ListOK, Loads, NamesIn
<1>2. ToolIndex(<<>>) = [t \in Tool |-> {}]
  BY DEF ToolIndex
<1>3. ListsAndIndexesOK
  BY <1>1, <1>2 DEF Init, ListsAndIndexesOK, IndexesFaithful
<1>4. meta \in Metadata /\ Decided(meta) = {}
  BY DEF Init, EmptyMeta, Metadata, Decided
<1> QED
  BY <1>3, <1>4, InvMeaning DEF NoOrphanMetadata

\* Every operation keeps the invariant: one case per operation.
LEMMA NextInv == StoreInv /\ [Next]_vars => StoreInv'
<1> SUFFICES ASSUME StoreInv, [Next]_vars PROVE StoreInv'
  OBVIOUS
<1>0. /\ ListOK(experiences)
      /\ ListOK(templates)
      /\ IndexesFaithful
      /\ meta \in Metadata
      /\ Decided(meta) \subseteq NamesIn(experiences) \cup NamesIn(templates)
      /\ DOMAIN by_name = NamesIn(experiences)
      /\ DOMAIN templates_by_name = NamesIn(templates)
  BY InvMeaning, NameIndexLookup DEF ListsAndIndexesOK, IndexesFaithful, NoOrphanMetadata
<1> DEFINE After ==
      /\ ListOK(experiences')
      /\ ListOK(templates')
      /\ IndexesFaithful'
      /\ meta' \in Metadata
      /\ Decided(meta') \subseteq NamesIn(experiences') \cup NamesIn(templates')
<1> SUFFICES After
  <2>1. ListOK(experiences)' <=> ListOK(experiences')
    BY DEF ListOK, Loads
  <2>2. ListOK(templates)' <=> ListOK(templates')
    BY DEF ListOK, Loads
  <2>3. NoOrphanMetadata' <=>
          Decided(meta') \subseteq NamesIn(experiences') \cup NamesIn(templates')
    BY DEF NoOrphanMetadata, Decided, NamesIn
  <2>4. StoreInv' <=> (ListsAndIndexesOK /\ meta \in Metadata /\ NoOrphanMetadata)'
    BY InvMeaning, PTL
  <2> QED
    BY <2>1, <2>2, <2>3, <2>4 DEF ListsAndIndexesOK, Metadata
<1>lookup. /\ \A n \in DOMAIN by_name :
                /\ n \in Name
                /\ by_name[n] \in DOMAIN experiences
                /\ experiences[by_name[n]].name = n
           /\ \A n \in DOMAIN templates_by_name :
                /\ n \in Name
                /\ templates_by_name[n] \in DOMAIN templates
                /\ templates[templates_by_name[n]].name = n
  BY <1>0, NameIndexLookup DEF IndexesFaithful
<1>targets. \A action \in QualificationAction : Target(action) \in ExperienceStatus
  BY DEF QualificationAction, Target, ExperienceStatus
<1>1. ASSUME NEW a \in Artifact, Insert(a)
      PROVE  After
  <2>1. ListOK(experiences') /\ NamesIn(experiences') = NamesIn(experiences) \cup {a.name}
    BY <1>0, <1>1, AppendOK DEF Insert
  <2>2. by_name' = NameIndex(experiences') /\ active_by_tool' = ToolIndex(experiences')
    BY <1>0, <1>1, AppendOK DEF Insert, IndexesFaithful
  <2> QED
    BY <1>0, <1>1, <2>1, <2>2 DEF Insert, IndexesFaithful
<1>2. ASSUME NEW a \in Artifact, InsertTemplate(a)
      PROVE  After
  <2>1. ListOK(templates') /\ NamesIn(templates') = NamesIn(templates) \cup {a.name}
    BY <1>0, <1>2, AppendOK DEF InsertTemplate
  <2>2. /\ templates_by_name' = NameIndex(templates')
        /\ active_templates_by_tool' = ToolIndex(templates')
    BY <1>0, <1>2, AppendOK DEF InsertTemplate, IndexesFaithful
  <2> QED
    BY <1>0, <1>2, <2>1, <2>2 DEF InsertTemplate, IndexesFaithful
<1>3. ASSUME NEW n \in Name, NEW action \in QualificationAction,
             TransitionStatus(n, action)
      PROVE  After
  <2> DEFINE i == by_name[n]
  <2>1. /\ i \in DOMAIN experiences
        /\ experiences' = [experiences EXCEPT ![i].status = Target(action)]
        /\ Reindex(experiences', templates') /\ UNCHANGED <<templates, meta>>
    BY <1>3, <1>lookup DEF TransitionStatus
  <2>2. ListOK(experiences') /\ NamesIn(experiences') = NamesIn(experiences)
    BY <2>1, <1>0, <1>targets, StatusOK
  <2> QED
    BY <1>0, <2>1, <2>2, ReindexFaithful
<1>4. ASSUME NEW n \in Name, NEW action \in QualificationAction,
             TransitionTemplateStatus(n, action)
      PROVE  After
  <2> DEFINE i == templates_by_name[n]
  <2>1. /\ i \in DOMAIN templates
        /\ templates' = [templates EXCEPT ![i].status = Target(action)]
        /\ Reindex(experiences', templates') /\ UNCHANGED <<experiences, meta>>
    BY <1>4, <1>lookup DEF TransitionTemplateStatus
  <2>2. ListOK(templates') /\ NamesIn(templates') = NamesIn(templates)
    BY <2>1, <1>0, <1>targets, StatusOK
  <2> QED
    BY <1>0, <2>1, <2>2, ReindexFaithful
<1>5. ASSUME NEW n \in Name, NEW b \in Body, ReplaceExisting(n, b)
      PROVE  After
  <2> DEFINE i == by_name[n]
  <2>1. /\ i \in DOMAIN experiences /\ b \notin Malformed
        /\ experiences' = [experiences EXCEPT ![i].body = b]
        /\ Reindex(experiences', templates') /\ UNCHANGED <<templates, meta>>
    BY <1>5, <1>lookup DEF ReplaceExisting
  <2>2. ListOK(experiences') /\ NamesIn(experiences') = NamesIn(experiences)
    BY <2>1, <1>0, BodyOK
  <2> QED
    BY <1>0, <2>1, <2>2, ReindexFaithful
<1>6. ASSUME NEW n \in Name, Remove(n)
      PROVE  After
  <2>1. /\ by_name[n] \in DOMAIN experiences
        /\ experiences[by_name[n]].name = n
        /\ experiences' = RemoveAt(experiences, by_name[n])
        /\ meta' = Forget(meta, n)
        /\ Reindex(experiences', templates') /\ UNCHANGED templates
    BY <1>6, <1>lookup DEF Remove
  <2>2. ListOK(experiences') /\ NamesIn(experiences') = NamesIn(experiences) \ {n}
    BY <2>1, <1>0, RemoveOK
  <2>3. meta' \in Metadata /\ Decided(meta') \subseteq Decided(meta) \ {n}
    BY <2>1, <1>0, ForgetOK
  <2> QED
    BY <1>0, <2>1, <2>2, <2>3, ReindexFaithful
<1>7. ASSUME NEW n \in Name, RemoveTemplate(n)
      PROVE  After
  <2>1. /\ templates_by_name[n] \in DOMAIN templates
        /\ templates[templates_by_name[n]].name = n
        /\ templates' = RemoveAt(templates, templates_by_name[n])
        /\ meta' = Forget(meta, n)
        /\ Reindex(experiences', templates') /\ UNCHANGED experiences
    BY <1>7, <1>lookup DEF RemoveTemplate
  <2>2. ListOK(templates') /\ NamesIn(templates') = NamesIn(templates) \ {n}
    BY <2>1, <1>0, RemoveOK
  <2>3. meta' \in Metadata /\ Decided(meta') \subseteq Decided(meta) \ {n}
    BY <2>1, <1>0, ForgetOK
  <2> QED
    BY <1>0, <2>1, <2>2, <2>3, ReindexFaithful
<1>8. ASSUME Reopen
      PROVE  After
  <2>1. Reindex(experiences', templates') /\ UNCHANGED <<experiences, templates, meta>>
    BY <1>8 DEF Reopen, lists
  <2> QED
    BY <1>0, <2>1, ReindexFaithful
<1>9. ASSUME NEW n \in Name, n \in NamesIn(experiences) \cup NamesIn(templates),
             meta' \in Metadata, Decided(meta') \subseteq Decided(meta) \cup {n},
             UNCHANGED <<lists, indexes>>
      PROVE  After
  BY <1>0, <1>9 DEF lists, indexes, IndexesFaithful
<1>10. ASSUME MetaNext
       PROVE  After
  <2>1. ASSUME NEW n \in Name, Pin(n) PROVE After
    <3>1. meta' \in Metadata /\ Decided(meta') \subseteq Decided(meta) \cup {n}
      BY <2>1, <1>0 DEF Pin, Metadata, Decided
    <3> QED BY <2>1, <3>1, <1>0, <1>9 DEF Pin, Contains
  <2>2. ASSUME NEW n \in Name, Unpin(n) PROVE After
    <3>1. meta' \in Metadata /\ Decided(meta') \subseteq Decided(meta)
      BY <2>2, <1>0 DEF Unpin, Metadata, Decided
    <3> QED BY <2>2, <3>1, <1>0 DEF Unpin, lists, indexes, IndexesFaithful
  <2>3. ASSUME NEW n \in Name, SetCandidateOrigin(n) PROVE After
    <3>1. meta' \in Metadata /\ Decided(meta') = Decided(meta)
      BY <2>3, <1>0 DEF SetCandidateOrigin, Metadata, Decided
    <3> QED BY <2>3, <3>1, <1>0 DEF SetCandidateOrigin, lists, indexes, IndexesFaithful
  <2>4. ASSUME NEW n \in Name, NEW s \in Scope \cup {None}, SetScope(n, s) PROVE After
    <3>1. meta' \in Metadata /\ Decided(meta') \subseteq Decided(meta) \cup {n}
      BY <2>4, <1>0 DEF SetScope, Metadata, Decided
    <3> QED BY <2>4, <3>1, <1>0, <1>9 DEF SetScope, Contains
  <2>5. ASSUME NEW n \in Name, NEW u \in Usage \cup {None}, SetUserUsage(n, u) PROVE After
    <3>1. meta' \in Metadata /\ Decided(meta') \subseteq Decided(meta) \cup {n}
      BY <2>5, <1>0 DEF SetUserUsage, Metadata, Decided
    <3> QED BY <2>5, <3>1, <1>0, <1>9 DEF SetUserUsage
  <2>6. ASSUME NEW n \in Name, NEW p \in BOOLEAN, SetLabel(n, p) PROVE After
    <3>1. meta' \in Metadata /\ Decided(meta') \subseteq Decided(meta) \cup {n}
      BY <2>6, <1>0 DEF SetLabel, Metadata, Decided
    <3> QED BY <2>6, <3>1, <1>0, <1>9 DEF SetLabel, Contains
  <2> HIDE DEF After
  <2> QED
    BY <1>10, <2>1, <2>2, <2>3, <2>4, <2>5, <2>6 DEF MetaNext
<1>11. ASSUME UNCHANGED vars
       PROVE  After
  BY <1>0, <1>11 DEF vars, lists, indexes, IndexesFaithful
<1> HIDE DEF After
<1> QED
  BY <1>1, <1>2, <1>3, <1>4, <1>5, <1>6, <1>7, <1>8, <1>10, <1>11 DEF Next, ListNext

-----------------------------------------------------------------------------
(* The theorems *)

\* Every reachable store has all four parts of the invariant.
THEOREM StoreInvariant == Spec => []StoreInv
  BY InitInv, NextInv, PTL DEF Spec

\* Type correctness of the store.
THEOREM StoreTypeOK == Spec => []TypeOK
<1>1. StoreInv => TypeOK
  BY DEF StoreInv
<1> QED
  BY <1>1, StoreInvariant, PTL

\* The gate's matching surface is exactly the ACTIVE artifacts, for every
\* sequence of store operations (insert, transition, replace, remove, reopen).
THEOREM StoreIndexesFaithful == Spec => []IndexesFaithful
<1>1. StoreInv => IndexesFaithful
  BY DEF StoreInv
<1> QED
  BY <1>1, StoreInvariant, PTL

\* No sequence of operations produces a store file that `from_json` refuses.
THEOREM StoreReopens == Spec => []SavedStoreOpens
<1>1. StoreInv => SavedStoreOpens
  BY DEF StoreInv
<1> QED
  BY <1>1, StoreInvariant, PTL

\* A pin, a label, a scene or a usage never outlives the artifact it is about.
THEOREM StoreNoOrphanMetadata == Spec => []NoOrphanMetadata
<1>1. StoreInv => NoOrphanMetadata
  BY DEF StoreInv
<1> QED
  BY <1>1, StoreInvariant, PTL
=============================================================================
