----------------------------- MODULE Offboarding -----------------------------
(***************************************************************************)
(* Deactivation and sign-in, on top of DirectorySync: the request (or the  *)
(* lifecycle job, or a deactivate rule) commits the status change with its *)
(* outbox event and then, outside any transaction or lock, disables the    *)
(* account and revokes its sessions at the identity provider itself.       *)
(***************************************************************************)
EXTENDS DirectorySync

VARIABLES
    inline,     \* what the deactivating caller has still to do for each user
    sessions    \* users signed in at the identity provider

ovars == <<dvars, inline, sessions>>

OffboardingTypeOK ==
    /\ DirectoryTypeOK
    /\ inline \in [Users -> {"nothing", "disable", "revoke"}]
    /\ sessions \subseteq Users

(* A worker, a producer or the queue moves; a commit that deactivates      *)
(* leaves its caller with the inline calls to make.                        *)
SyncStep ==
    /\ DirectoryNext
    /\ inline' = [u \in Users |-> IF u \in active \ active' THEN "disable" ELSE inline[u]]
    /\ UNCHANGED sessions

(* setEnabled(username, false).                                            *)
DisableInline(u) ==
    /\ inline[u] = "disable"
    /\ remote' = [remote EXCEPT ![u].enabled = FALSE]
    /\ inline' = [inline EXCEPT ![u] = "revoke"]
    /\ UNCHANGED <<vars, store, local, crashes, sessions>>

(* revokeSessions(username).                                               *)
RevokeInline(u) ==
    /\ inline[u] = "revoke"
    /\ sessions' = sessions \ {u}
    /\ inline' = [inline EXCEPT ![u] = "nothing"]
    /\ UNCHANGED dvars

(* Either call throws - the error is logged and dropped, as it always is   *)
(* for a tenant's user, whom the master realm does not know - or the       *)
(* process dies after its commit.                                          *)
GiveUpInline(u) ==
    /\ inline[u] # "nothing"
    /\ inline' = [inline EXCEPT ![u] = "nothing"]
    /\ UNCHANGED <<dvars, sessions>>

(* The identity provider lets an enabled account sign in.                  *)
SignIn(u) ==
    /\ remote[u].enabled
    /\ sessions' = sessions \cup {u}
    /\ UNCHANGED <<dvars, inline>>

OffboardingInit ==
    /\ DirectoryInit
    /\ inline = [u \in Users |-> "nothing"]
    /\ sessions = {}

OffboardingNext ==
    \/ SyncStep
    \/ \E u \in Users :
          DisableInline(u) \/ RevokeInline(u) \/ GiveUpInline(u) \/ SignIn(u)

OffboardingSpec == OffboardingInit /\ [][OffboardingNext]_ovars

-----------------------------------------------------------------------------
(* The outbox event is the durability fallback of an offboarding whose     *)
(* inline calls failed, or were undone by a worker that had read the user  *)
(* before: a deactivated user can sign in only while an event about the    *)
(* user is queued or is a dead letter.                                     *)
SignInOnlyWhileOwed ==
    [][\A u \in Users \ active : u \in sessions' \ sessions => Owed(u)]_ovars

(* docs/07-admin-guide.md, Deactivate: sign-in is blocked immediately.     *)
(* Once the account of a deactivated user is disabled it stays disabled.   *)
DisabledStaysDisabled ==
    [][\A u \in Users \ active :
          ~remote[u].enabled => ~remote'[u].enabled]_ovars

(* The log line of revokeKeycloakAccess: "the outbox event will retry it"  *)
(* - it being setEnabled and revokeSessions.  When the inline calls are    *)
(* over and every event about a deactivated user is done, no session of    *)
(* the user survives.                                                      *)
SessionsEndWithTheEvents ==
    \A u \in Users \ active :
        inline[u] = "nothing" /\ ~Owed(u) => u \notin sessions
=============================================================================
