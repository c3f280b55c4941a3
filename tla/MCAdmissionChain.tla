-------------------------- MODULE MCAdmissionChain --------------------------
(***************************************************************************)
(* A chain of four plugins over three operations and three objects, two   *)
(* requests.  The objects stand for a pod's image pull policy: "unset",   *)
(* "always", "never".                                                     *)
(*   defaulter   mutating, Create: defaults an unset policy to "never"    *)
(*   pullAlways  mutating and validating, Create/Update: the              *)
(*               AlwaysPullImages plugin, sets and requires "always"      *)
(*   webhook     mutating, fallible, Update/Delete: a webhook that swaps  *)
(*               "unset" and "never" and leaves "always" alone            *)
(*   quota       validating, Create/Delete: refuses "never"               *)
(* Connect is handled by nobody.  Every other operation meets a different subset of the chain, and requests    *)
(* end admitted and rejected in both phases.                              *)
(***************************************************************************)
EXTENDS AdmissionChain

MCOperations == {"Create", "Update", "Delete", "Connect"}
MCPlugins == {"defaulter", "pullAlways", "webhook", "quota"}
MCChain == <<"defaulter", "pullAlways", "webhook", "quota">>
MCHandledOps == [p \in MCPlugins |->
                   CASE p = "defaulter"  -> {"Create"}
                     [] p = "pullAlways" -> {"Create", "Update"}
                     [] p = "webhook"    -> {"Update", "Delete"}
                     [] p = "quota"      -> {"Create", "Delete"}]
MCMutators == {"defaulter", "pullAlways", "webhook"}
MCValidators == {"pullAlways", "quota"}
MCObjects == {"unset", "always", "never"}
MCMutate == [p \in MCPlugins |-> [o \in MCOperations |-> [x \in MCObjects |->
               CASE p = "defaulter"  -> (IF x = "unset" THEN "never" ELSE x)
                 [] p = "pullAlways" -> "always"
                 [] p = "webhook"    -> (CASE x = "unset" -> "never"
                                             [] x = "never" -> "unset"
                                             [] OTHER -> x)
                 [] p = "quota"      -> x]]]
MCAdmitFails == [p \in MCPlugins |-> [o \in MCOperations |-> {}]]
MCAccepts == [p \in MCPlugins |-> [o \in MCOperations |->
                IF p = "pullAlways" THEN {"always"}
                ELSE IF p = "quota" THEN {"unset", "always"}
                ELSE MCObjects]]
MCFallible == {"webhook"}
MCRequests == {"r1", "r2"}

=============================================================================
