------------------------- MODULE MCExperienceStore -------------------------
(***************************************************************************)
(* The TLC instance of ExperienceStore.  Every property relates one list,  *)
(* its indexes and one entry of metadata, so the interesting stores are    *)
(* small: the two lists and the metadata together hold at most MaxEntries. *)
(***************************************************************************)
EXTENDS ExperienceStore, FiniteSets

CONSTANTS n1, n2, bodyA, bodyB, bodyBad, toolA, toolB, sceneA, MaxEntries

MCName      == {n1, n2}
MCBody      == {bodyA, bodyB, bodyBad}
MCTool      == {toolA, toolB}
MCToolOf    == [b \in MCBody |-> IF b = bodyA THEN toolA ELSE toolB]
MCMalformed == {bodyBad}
MCScope     == {sceneA}

\* The number of entries in the maps and sets of the metadata.
MetaEntries ==
    Cardinality(meta.pinned) + Cardinality(meta.labels) + Cardinality(meta.origins)
      + Cardinality({n \in Name : meta.scopes[n] # None})
      + Cardinality({n \in Name : meta.user_usage[n] # None})

SmallStore == Len(experiences) + Len(templates) + MetaEntries <= MaxEntries
============================================================================
