-------------------------- MODULE ConnectorRegistry --------------------------
(***************************************************************************)
(* The configured targets and the connector instance they share.  A slot   *)
(* is an (organization, target) pair whose configuration is one row; every  *)
(* slot of a kind is served by one long-lived connector, which resolve      *)
(* binds to the slot's row and which reads that binding again before each  *)
(* request.  Calls of one process interleave at every await.                *)
(***************************************************************************)
EXTENDS Naturals, FiniteSets

CONSTANTS
    Slots, NoSlot,
    Keys, Settings, NoSetting,   \* configuration keys an administrator sets
    Patches,               \* bound: configuration patches, Unset to remove a key
    Calls,                 \* calls that resolve a connector
    Patchers,                 \* PATCH requests
    MaxRequests, MaxExpiries, MaxPatches   \* bounds

ASSUME RegistryAssumption ==
    /\ NoSetting \notin Settings
    /\ \A patch \in Patches : \E keys \in SUBSET Keys : patch \in [keys -> Settings \cup {NoSetting}]
    /\ MaxRequests \in Nat /\ MaxExpiries \in Nat /\ MaxPatches \in Nat

VARIABLES
    config,     \* connector_targets.config of each slot
    patching,       \* each PATCH request
    given,      \* history: the patches committed to each slot's row, applied one after the other
    patches,      \* PATCH requests begun
    bound,      \* the slot whose row the connector was last given
    cached,     \* the slot the cached token was issued for, or NoSlot
    call,       \* each call's progress
    sent,       \* history: the requests sent
    expiries    \* tokens refused by a service

cvars == <<config, patching, given, patches, bound, cached, call, sent, expiries>>

NoEdit == [at |-> "idle"]
NoCall == [at |-> "idle", slot |-> NoSlot, url |-> NoSlot, token |-> NoSlot, left |-> 0, again |-> FALSE]

RegistryTypeOK ==
    /\ config \in [Slots -> [Keys -> Settings \cup {NoSetting}]]
    /\ bound \in Slots \cup {NoSlot} /\ cached \in Slots \cup {NoSlot}
    /\ \A c \in Calls : call[c].at \in {"idle", "load", "ready", "fetch", "send"}
    /\ \A s \in sent : s.slot \in Slots /\ s.url \in Slots /\ s.token \in Slots
    /\ patches \in 0..MaxPatches /\ expiries \in 0..MaxExpiries

-----------------------------------------------------------------------------
(* PATCH /connectors/:target.                                              *)

(* The row with a patch merged in; a null removes its key.                 *)
Merged(row, patch) == [k \in Keys |-> IF k \in DOMAIN patch THEN patch[k] ELSE row[k]]

Holders(s) == {e \in Patchers : patching[e].at = "locked" /\ patching[e].slot = s}

(* Mutant of Lockable: the advisory lock keeps nobody out.                 *)
AlwaysLockable(s) == TRUE

(* pg_advisory_xact_lock over the organization and the target.             *)
Lockable(s) == Holders(s) = {}

(* The transaction takes the lock, then reads the row.                     *)
BeginEdit(e) ==
    /\ patching[e] = NoEdit /\ patches < MaxPatches
    /\ \E s \in Slots, patch \in Patches :
         /\ Lockable(s)
         /\ patching' = [patching EXCEPT ![e] = [at |-> "locked", slot |-> s, patch |-> patch, read |-> config[s]]]
    /\ patches' = patches + 1
    /\ UNCHANGED <<config, given, bound, cached, call, sent, expiries>>

(* It writes the merged row and commits.                                   *)
CommitEdit(e) ==
    /\ patching[e].at = "locked"
    /\ LET s == patching[e].slot IN
         /\ config' = [config EXCEPT ![s] = Merged(patching[e].read, patching[e].patch)]
         /\ given' = [given EXCEPT ![s] = Merged(@, patching[e].patch)]
    /\ patching' = [patching EXCEPT ![e] = NoEdit]
    /\ UNCHANGED <<patches, bound, cached, call, sent, expiries>>

-----------------------------------------------------------------------------
(* resolve and the requests of the connector it returns.                   *)

(* A list or health request, a reconcile, a queue event: each names the    *)
(* slot it is for and makes some requests.                                 *)
StartCall(c) ==
    /\ call[c] = NoCall
    /\ \E s \in Slots :
         call' = [call EXCEPT ![c] = [NoCall EXCEPT !.at = "load", !.slot = s, !.left = MaxRequests]]
    /\ UNCHANGED <<config, patching, given, patches, bound, cached, sent, expiries>>

(* The row has been read: configure rebinds the shared instance.           *)
Configure(c) ==
    /\ call[c].at = "load"
    /\ bound' = call[c].slot
    /\ call' = [call EXCEPT ![c].at = "ready"]
    /\ UNCHANGED <<config, patching, given, patches, cached, sent, expiries>>

(* Mutant of CachedFits: the cached token is used whatever it is for.      *)
AnyCachedFits == cached # NoSlot

(* The cached token was issued for what the connector is bound to now.     *)
CachedFits == cached = bound

(* A request reads the binding: the service's address, and the cached      *)
(* token or the need for one.                                              *)
BeginRequest(c) ==
    /\ call[c].at = "ready" /\ call[c].left > 0
    /\ call' = [call EXCEPT ![c].url = bound, ![c].again = FALSE,
                            ![c].at = IF CachedFits THEN "send" ELSE "fetch",
                            ![c].token = IF CachedFits THEN cached ELSE bound]
    /\ UNCHANGED <<config, patching, given, patches, bound, cached, sent, expiries>>

(* The token endpoint answers: the token is cached with what it is for.    *)
FetchToken(c) ==
    /\ call[c].at = "fetch"
    /\ cached' = call[c].token
    /\ call' = [call EXCEPT ![c].at = "send"]
    /\ UNCHANGED <<config, patching, given, patches, bound, sent, expiries>>

Sent(c) == sent' = sent \cup
    {[slot |-> call[c].slot, url |-> call[c].url, token |-> call[c].token, again |-> call[c].again]}

Answered(c) ==
    /\ call[c].at = "send"
    /\ Sent(c)
    /\ call' = [call EXCEPT ![c].at = "ready", ![c].left = @ - 1]
    /\ UNCHANGED <<config, patching, given, patches, bound, cached, expiries>>

(* 401, once per request: a new token is fetched, for what the connector   *)
(* is bound to by then, and the request sent again.                        *)
Unauthorized(c) ==
    /\ call[c].at = "send" /\ ~call[c].again /\ expiries < MaxExpiries
    /\ expiries' = expiries + 1
    /\ Sent(c)
    /\ call' = [call EXCEPT ![c].at = "fetch", ![c].again = TRUE, ![c].token = bound]
    /\ UNCHANGED <<config, patching, given, patches, bound, cached>>

Finish(c) ==
    /\ call[c].at = "ready" /\ call[c].left = 0
    /\ call' = [call EXCEPT ![c] = NoCall]
    /\ UNCHANGED <<config, patching, given, patches, bound, cached, sent, expiries>>

RegistryInit ==
    /\ config = [s \in Slots |-> [k \in Keys |-> NoSetting]]
    /\ given = config
    /\ patching = [e \in Patchers |-> NoEdit] /\ patches = 0
    /\ bound = NoSlot /\ cached = NoSlot
    /\ call = [c \in Calls |-> NoCall]
    /\ sent = {} /\ expiries = 0

CallStep(c) ==
    \/ StartCall(c) \/ Configure(c) \/ BeginRequest(c) \/ FetchToken(c)
    \/ Answered(c) \/ Unauthorized(c) \/ Finish(c)

RegistryNext ==
    \/ \E e \in Patchers : BeginEdit(e) \/ CommitEdit(e)
    \/ \E c \in Calls : CallStep(c)

RegistrySpec == RegistryInit /\ [][RegistryNext]_cvars

-----------------------------------------------------------------------------
(* Properties.                                                             *)

(* Patches of one row never undo each other: the row is what the patches   *)
(* committed to it make one after the other.                               *)
NoPatchIsLost == config = given

(* However the calls interleave, a request first goes out with a token for *)
(* the service it is addressed to.                                         *)
FirstTokenFitsTheService == \A s \in sent : ~s.again => s.token = s.url

(* connector-registry.ts:231-233 "Safe because `configure` replaces the    *)
(* whole config snapshot and `getToken` re-validates its cached token      *)
(* against the freshly-bound identity, so one slot can never serve         *)
(* another's token".                                                       *)
NoSlotServesAnothersToken == \A s \in sent : s.token = s.url

(* connector-registry.ts:365-371 resolving "another organization's         *)
(* credentials and estate ... is the exact cross-tenant account-creation   *)
(* bug the (organization_id, target) key exists to prevent".               *)
RequestsGoWhereTheyWereResolved == \A s \in sent : s.url = s.slot
=============================================================================
