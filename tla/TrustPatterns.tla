--------------------------- MODULE TrustPatterns ---------------------------
(***************************************************************************)
(* The four decision patterns a trust surface can be bound to, as          *)
(* transition functions over the replies of the model gateway              *)
(* (src/src/trust).  A pattern run is one string: the step it is awaiting, *)
(* or, once it has ended, the autonomyStatus of its PatternResult.         *)
(*                                                                         *)
(* A reply is abstracted to what the code compares: "confident" is a reply *)
(* that meets the binding's threshold (for the reviewer: it agrees and the *)
(* average meets the threshold), "unsure" one that does not, "error" a     *)
(* rejected promise.  The assessors of a tribunal run under one            *)
(* Promise.all, so they reply once: "agree", "split" or "error".           *)
(***************************************************************************)
Patterns == {"single_model", "primary_reviewer", "tribunal", "a5_hybrid"}

Roles == {"primary", "reviewer", "assessor1", "assessor2", "arbiter", "challenger", "judge"}

PatternSteps == {"primary", "reviewer", "assessors", "arbiter", "challenger1", "challenger2", "judge"}

AutonomyStatuses == {"verified_autonomous", "safe_block", "failed"}

\* SurfaceBinding: the roles it configures and tribunalConfig.arbiterOnDisagreementOnly.
Bindings == [pattern : Patterns, roles : SUBSET Roles, lazy : BOOLEAN]

\* A surface for which TrustPolicyLoader.getBinding returns null.
NoBinding == [pattern |-> "none", roles |-> {}, lazy |-> FALSE]

Replies == {"confident", "unsure", "error", "agree", "split"}

\* The replies the code tells apart at a step.
RepliesAt(step) == IF step = "assessors" THEN {"agree", "split", "error"}
                                         ELSE {"confident", "unsure", "error"}

\* The roles without which a pattern fails closed before any model call.
RequiredRoles(pattern) ==
  CASE pattern = "single_model"     -> {"primary"}
    [] pattern = "primary_reviewer" -> {"primary", "reviewer"}
    [] pattern = "tribunal"         -> {"assessor1", "assessor2", "arbiter"}
    [] OTHER                        -> {"primary"}

\* SurfaceResolver.resolve, executePattern: no binding or a missing role is a safe_block.
FirstStep(binding) ==
  IF binding.pattern \notin Patterns \/ ~(RequiredRoles(binding.pattern) \subseteq binding.roles)
  THEN "safe_block"
  ELSE IF binding.pattern = "tribunal" THEN "assessors" ELSE "primary"

\* A last model: its threshold decides, its failure is a failed run.
Settled(reply) ==
  IF reply = "confident" THEN "verified_autonomous"
  ELSE IF reply = "unsure" THEN "safe_block" ELSE "failed"

AfterReviewed(step, reply) ==
  IF step = "primary"
  THEN IF reply = "error" THEN "failed" ELSE "reviewer"
  ELSE IF reply = "confident" THEN "verified_autonomous" ELSE "safe_block"

AfterTribunal(lazy, step, reply) ==
  IF step = "assessors"
  THEN IF reply = "error" THEN "failed"
       ELSE IF lazy /\ reply = "agree" THEN "verified_autonomous" ELSE "arbiter"
  ELSE Settled(reply)

\* Mutant of AfterHybrid: without MAX_CHALLENGERS an unsure challenger is challenged again.
AfterHybrid_unbounded(roles, step, reply) ==
  CASE reply = "confident"                             -> "verified_autonomous"
    [] reply = "error" /\ step = "primary"             -> "failed"
    [] step = "challenger1"                            -> "challenger2"
    [] step # "judge" /\ "challenger" \in roles        -> "challenger1"
    [] OTHER                                           -> "safe_block"

\* Escalation primary -> two challengers -> judge; only the primary's error fails the run.
AfterHybrid(roles, step, reply) ==
  LET last == IF "judge" \in roles THEN "judge" ELSE "safe_block" IN
  IF reply = "confident" THEN "verified_autonomous"
  ELSE CASE step = "primary"     -> IF reply = "error" THEN "failed"
                                    ELSE IF "challenger" \in roles THEN "challenger1" ELSE last
         [] step = "challenger1" -> "challenger2"
         [] step = "challenger2" -> last
         [] OTHER                -> "safe_block"

\* Where a pattern run goes when the model call it awaits settles.
AfterReply(binding, step, reply) ==
  CASE binding.pattern = "single_model"     -> Settled(reply)
    [] binding.pattern = "primary_reviewer" -> AfterReviewed(step, reply)
    [] binding.pattern = "tribunal"         -> AfterTribunal(binding.lazy, step, reply)
    [] OTHER                                -> AfterHybrid(binding.roles, step, reply)

=============================================================================
