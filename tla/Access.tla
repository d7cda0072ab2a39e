-------------------------------- MODULE Access --------------------------------
(***************************************************************************)
(* api/auth.py: which role a request has.  The keys are two variables of   *)
(* the process's environment; the request's is its X-API-Key header.       *)
(***************************************************************************)
CONSTANTS
    Keys,       \* keys that can be configured, or sent
    Unset,      \* a variable that is not set, a header that is not sent
    Empty       \* the empty string

ASSUME AccessAssumption == Unset \notin Keys /\ Empty \notin Keys /\ Unset # Empty

SentKeys == Keys \cup {Unset, Empty}
Environment == [admin : SentKeys, reviewer : SentKeys]

\* Fault: a variable that is set to nothing counts as a key.
ConfiguredKeysUnchecked(env) ==
    [k \in {env.admin, env.reviewer} \ {Unset} |->
        IF k = env.reviewer THEN "reviewer" ELSE "admin"]

\* The role each configured key stands for.  A key configured for both roles
\* is the reviewer's, which is entered last.
ConfiguredKeys(env) ==
    [k \in {env.admin, env.reviewer} \ {Unset, Empty} |->
        IF k = env.reviewer THEN "reviewer" ELSE "admin"]

\* Without any configured key everybody is an admin (dev mode).
RoleOf(env, key) ==
    LET keys == ConfiguredKeys(env)
    IN  CASE DOMAIN keys = {} -> "admin"
          [] key \in DOMAIN keys -> keys[key]
          [] OTHER -> "refused"

\* What the handlers ask for: require_admin, or require_reviewer_or_admin.
AdminOperations == {"assign", "pause", "resume"}

Permitted(env, op, key) ==
    \/ RoleOf(env, key) = "admin"
    \/ RoleOf(env, key) = "reviewer" /\ op \notin AdminOperations
===============================================================================
