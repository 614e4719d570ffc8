-------------------------- MODULE ReleaseRegister --------------------------
(***************************************************************************)
(* What knowledge publication promises a reader, whatever happens inside   *)
(* the worker, the operator CLI, Redis or the database: one register names *)
(* the release queries are answered from and the one it replaced.  The     *)
(* register only ever names validated releases, it changes in one step,    *)
(* and the replaced release is never forgotten by the step that replaces   *)
(* it.  KnowledgePublication implements this specification.                *)
(***************************************************************************)
CONSTANTS Builds,   \* identities a build may get
          None      \* "no release"

VARIABLES validated,  \* builds whose immutable descriptor exists
          current,    \* the build queries are answered from
          previous    \* the build current replaced

regVars == <<validated, current, previous>>

Init == /\ validated = {}
        /\ current = None
        /\ previous = None

(* A build passes its checks; nothing becomes visible.                     *)
Validate(b) == /\ b \notin validated
               /\ validated' = validated \cup {b}
               /\ UNCHANGED <<current, previous>>

(* A validated build becomes the visible one: a publication, or the        *)
(* restoration of an older release.                                        *)
MakeCurrent(b) == /\ b \in validated
                  /\ current' = b
                  /\ previous' = current
                  /\ UNCHANGED validated

Next == \E b \in Builds : Validate(b) \/ MakeCurrent(b)

Spec == Init /\ [][Next]_regVars
=============================================================================
