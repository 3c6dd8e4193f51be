-------------------------- MODULE ExperienceDomain --------------------------
(***************************************************************************)
(* The lifecycle vocabulary of an Experience (experience-core, domain/):   *)
(* the statuses, the qualification actions, and the one transition table   *)
(* every management surface must go through.                               *)
(***************************************************************************)

\* ExperienceStatus.
ExperienceStatus ==
    {"draft", "candidate", "validated", "active", "decaying", "disabled"}

\* QualificationAction.
QualificationAction ==
    {"validate", "activate", "force_activate", "invalidate",
     "disable", "revalidate", "decay"}

\* The statuses from which `transition` accepts an action (it is Err elsewhere).
Sources(action) ==
    CASE action \in {"validate", "invalidate"}       -> {"candidate"}
      [] action \in {"activate", "force_activate"}   -> {"validated"}
      [] action = "disable"                          -> ExperienceStatus
      [] action = "revalidate"                       -> {"disabled", "decaying"}
      [] action = "decay"                            -> {"active"}

\* The status an accepted action leads to.
Target(action) ==
    CASE action \in {"validate", "revalidate"}       -> "validated"
      [] action \in {"activate", "force_activate"}   -> "active"
      [] action \in {"invalidate", "disable"}        -> "disabled"
      [] action = "decay"                            -> "decaying"

\* Is `status.transition(action)` Ok?
CanTransition(status, action) == status \in Sources(action)
=============================================================================
