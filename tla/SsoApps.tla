------------------------------- MODULE SsoApps -------------------------------
(***************************************************************************)
(* Applications registered as Keycloak clients: rows edited by operators,  *)
(* events that deliver each row as it is when it is read, with no lock     *)
(* across the reading and the writing, and clients that Keycloak's own     *)
(* administrators rename or delete.                                        *)
(***************************************************************************)
EXTENDS Integers, Sequences, FiniteSets

CONSTANTS
    Apps,
    SamlApps,        \* those of protocol saml; the others are OIDC
    Contents,        \* what a row may say: names, descriptions, addresses
    NoClient,
    SsoWorkers,
    Hardships,       \* what may go wrong: faults, revivals, renames, deletions
    MaxSsoEvents, MaxClients, MaxSsoAttempts   \* bounds

ASSUME SsoAssumption ==
    /\ SamlApps \subseteq Apps
    /\ NoClient \notin Nat /\ NoClient \notin Apps
    /\ Hardships \subseteq [faults : Nat, revivals : Nat, renames : Nat, deletions : Nat]
    /\ {MaxSsoEvents, MaxClients, MaxSsoAttempts} \subseteq Nat

VARIABLES
    app,      \* sso_apps
    ssoEvent, \* outbox_events of each application, eldest first
    ident,    \* external_sso_app_identities
    registered,   \* Keycloak's clients, in the order they were created
    ssoJob,   \* what each worker delivers
    ssoLeft   \* faults, and what Keycloak's administrators may still do

svars == <<app, ssoEvent, ident, registered, ssoJob, ssoLeft>>

(* A row.  extra stands for publicClient of an OIDC application and for    *)
(* the certificate of a SAML one: each is shown as a client attribute.     *)
Rows == [enabled : BOOLEAN, groupsClaim : BOOLEAN, extra : BOOLEAN, content : Contents]

NoSsoJob == [app |-> NoClient, event |-> 0, row |-> NoClient, known |-> NoClient,
          found |-> NoClient, step |-> "free"]

RegisteredIds == DOMAIN registered

-----------------------------------------------------------------------------
(* Operators.                                                              *)
Queued(a) == ssoEvent' = [ssoEvent EXCEPT ![a] = Append(@, [state |-> "pending", attempts |-> 0])]

CreateApp(a, row) ==
    /\ app[a] = NoClient /\ row.enabled
    /\ app' = [app EXCEPT ![a] = row]
    /\ Queued(a)
    /\ UNCHANGED <<ident, registered, ssoJob, ssoLeft>>

(* Mutant of PatchApp: the event is left out when the flag alone changes.  *)
PatchSilently(a, row) ==
    /\ app[a] # NoClient /\ Len(ssoEvent[a]) < MaxSsoEvents
    /\ row.enabled = app[a].enabled /\ row # app[a]
    /\ app' = [app EXCEPT ![a] = row]
    /\ IF row = [app[a] EXCEPT !.groupsClaim = row.groupsClaim]
       THEN UNCHANGED ssoEvent ELSE Queued(a)
    /\ UNCHANGED <<ident, registered, ssoJob, ssoLeft>>

(* Neither the protocol nor the client id is ever patched.                 *)
PatchApp(a, row) ==
    /\ app[a] # NoClient /\ Len(ssoEvent[a]) < MaxSsoEvents
    /\ row.enabled = app[a].enabled /\ row # app[a]
    /\ app' = [app EXCEPT ![a] = row]
    /\ Queued(a)
    /\ UNCHANGED <<ident, registered, ssoJob, ssoLeft>>

SetAppEnabled(a) ==
    /\ app[a] # NoClient /\ Len(ssoEvent[a]) < MaxSsoEvents
    /\ app' = [app EXCEPT ![a].enabled = ~@]
    /\ Queued(a)
    /\ UNCHANGED <<ident, registered, ssoJob, ssoLeft>>

(* An operator revives a dead letter.                                      *)
ReviveApp(a, i) ==
    /\ ssoEvent[a][i].state = "failed" /\ ssoLeft.revivals > 0
    /\ ssoEvent' = [ssoEvent EXCEPT ![a][i] = [state |-> "pending", attempts |-> 0]]
    /\ ssoLeft' = [ssoLeft EXCEPT !.revivals = @ - 1]
    /\ UNCHANGED <<app, ident, registered, ssoJob>>

-----------------------------------------------------------------------------
(* A worker claims the eldest pending event that nobody holds, unless an   *)
(* elder one is pending.                                                   *)
ClaimableApp(a, i) ==
    /\ ssoEvent[a][i].state = "pending"
    /\ \A w \in SsoWorkers : ~(ssoJob[w].app = a /\ ssoJob[w].event = i)
    /\ \A j \in 1..(i - 1) : ssoEvent[a][j].state # "pending"

(* reconcileSsoApp reads the row and the identity as they are now.         *)
ClaimApp(w, a, i) ==
    /\ ssoJob[w] = NoSsoJob /\ ClaimableApp(a, i)
    /\ ssoJob' = [ssoJob EXCEPT ![w] =
          [NoSsoJob EXCEPT !.app = a, !.event = i, !.row = app[a], !.known = ident[a],
                        !.step = "find"]]
    /\ UNCHANGED <<app, ssoEvent, ident, registered, ssoLeft>>

Named(a) == {c \in RegisteredIds : registered[c].exists /\ registered[c].clientId = a}

(* findExisting: the stored id, or the clientId when there is none.        *)
Existing(w) ==
    IF ssoJob[w].known # NoClient
    THEN {c \in RegisteredIds : c = ssoJob[w].known /\ registered[c].exists}
    ELSE Named(ssoJob[w].app)

SsoFails(w, i) ==
    LET a == ssoJob[w].app
        n == ssoEvent[a][i].attempts + 1
    IN /\ ssoEvent' = [ssoEvent EXCEPT ![a][i] =
              [state |-> IF n >= MaxSsoAttempts THEN "failed" ELSE "pending", attempts |-> n]]
       /\ ssoJob' = [ssoJob EXCEPT ![w] = NoSsoJob]

(* Mutant of FindClient: correlated by clientId.                           *)
FindClientByName(w) ==
    /\ ssoJob[w].step = "find"
    /\ LET found == Named(ssoJob[w].app)
       IN ssoJob' = IF found = {} THEN [ssoJob EXCEPT ![w].step = "create"]
                    ELSE [ssoJob EXCEPT ![w].found = CHOOSE c \in found : TRUE,
                                        ![w].step = "update"]
    /\ UNCHANGED <<app, ssoEvent, ident, registered, ssoLeft>>

(* getClient of a client that is gone throws.                              *)
FindClient(w) ==
    /\ ssoJob[w].step = "find"
    /\ IF Existing(w) # {} THEN
          /\ \E c \in Existing(w) :
                ssoJob' = [ssoJob EXCEPT ![w].found = c, ![w].step = "update"]
          /\ UNCHANGED ssoEvent
       ELSE IF ssoJob[w].known # NoClient THEN SsoFails(w, ssoJob[w].event)
       ELSE /\ ssoJob' = [ssoJob EXCEPT ![w].step = "create"]
            /\ UNCHANGED ssoEvent
    /\ UNCHANGED <<app, ident, registered, ssoLeft>>

(* merge and mergeSaml: what is managed is overlaid; an OIDC client keeps  *)
(* the PKCE attribute it once got, a SAML client's certificate is cleared. *)
MergedClient(a, rep, row) ==
    [rep EXCEPT !.clientId = a, !.enabled = row.enabled, !.content = row.content,
                !.extra = IF a \in SamlApps THEN row.extra ELSE @ \/ row.extra]

Blank(a) == [exists |-> TRUE, clientId |-> a, enabled |-> FALSE, content |-> NoClient,
             extra |-> FALSE, mapper |-> FALSE]

(* POST /clients: Keycloak refuses a second client of one clientId.        *)
CreateClient(w) ==
    /\ ssoJob[w].step = "create"
    /\ LET a == ssoJob[w].app
       IN IF Named(a) # {}
          THEN SsoFails(w, ssoJob[w].event) /\ UNCHANGED registered
          ELSE /\ Len(registered) < MaxClients
               /\ registered' = Append(registered, MergedClient(a, Blank(a), ssoJob[w].row))
               /\ ssoJob' = [ssoJob EXCEPT ![w].found = Len(registered) + 1, ![w].step = "mapper"]
               /\ UNCHANGED ssoEvent
    /\ UNCHANGED <<app, ident, ssoLeft>>

(* PUT with what the worker read of the client; Keycloak merges, so what   *)
(* is not managed stays as it is now.                                      *)
UpdateClient(w) ==
    /\ ssoJob[w].step = "update"
    /\ LET a == ssoJob[w].app
           c == ssoJob[w].found
       IN IF ~registered[c].exists \/ Named(a) \ {c} # {}
          THEN SsoFails(w, ssoJob[w].event) /\ UNCHANGED registered
          ELSE /\ registered' = [registered EXCEPT ![c] = MergedClient(a, @, ssoJob[w].row)]
               /\ ssoJob' = [ssoJob EXCEPT ![w].step = "mapper"]
               /\ UNCHANGED ssoEvent
    /\ UNCHANGED <<app, ident, ssoLeft>>

(* assertGroupsMapper: there when it is wanted, and never taken away.      *)
AssertMapper(w) ==
    /\ ssoJob[w].step = "mapper"
    /\ LET c == ssoJob[w].found
       IN IF ssoJob[w].row.groupsClaim /\ ~registered[c].exists
          THEN SsoFails(w, ssoJob[w].event) /\ UNCHANGED registered
          ELSE /\ registered' = [registered EXCEPT ![c].mapper = @ \/ ssoJob[w].row.groupsClaim]
               /\ ssoJob' = [ssoJob EXCEPT ![w].step = "commit"]
               /\ UNCHANGED ssoEvent
    /\ UNCHANGED <<app, ident, ssoLeft>>

CommitApp(w) ==
    /\ ssoJob[w].step = "commit"
    /\ ident' = [ident EXCEPT ![ssoJob[w].app] = ssoJob[w].found]
    /\ ssoEvent' = [ssoEvent EXCEPT ![ssoJob[w].app][ssoJob[w].event].state = "done"]
    /\ ssoJob' = [ssoJob EXCEPT ![w] = NoSsoJob]
    /\ UNCHANGED <<app, registered, ssoLeft>>

(* A call that fails, or whose answer is lost, ends the attempt; a worker  *)
(* that dies leaves the event as it was.                                   *)
SsoCallFails(w) ==
    /\ ssoJob[w].step \in {"find", "create", "update", "mapper"} /\ ssoLeft.faults > 0
    /\ SsoFails(w, ssoJob[w].event)
    /\ ssoLeft' = [ssoLeft EXCEPT !.faults = @ - 1]
    /\ UNCHANGED <<app, ident, registered>>

SsoWorkerDies(w) ==
    /\ ssoJob[w] # NoSsoJob /\ ssoLeft.faults > 0
    /\ ssoJob' = [ssoJob EXCEPT ![w] = NoSsoJob]
    /\ ssoLeft' = [ssoLeft EXCEPT !.faults = @ - 1]
    /\ UNCHANGED <<app, ssoEvent, ident, registered>>

(* Keycloak's own administrators.                                          *)
RenameClient(c) ==
    /\ registered[c].exists /\ registered[c].clientId \in Apps /\ ssoLeft.renames > 0
    /\ registered' = [registered EXCEPT ![c].clientId = NoClient]
    /\ ssoLeft' = [ssoLeft EXCEPT !.renames = @ - 1]
    /\ UNCHANGED <<app, ssoEvent, ident, ssoJob>>

DeleteClient(c) ==
    /\ registered[c].exists /\ ssoLeft.deletions > 0
    /\ registered' = [registered EXCEPT ![c].exists = FALSE]
    /\ ssoLeft' = [ssoLeft EXCEPT !.deletions = @ - 1]
    /\ UNCHANGED <<app, ssoEvent, ident, ssoJob>>

-----------------------------------------------------------------------------
SsoInit ==
    /\ app = [a \in Apps |-> NoClient]
    /\ ssoEvent = [a \in Apps |-> << >>]
    /\ ident = [a \in Apps |-> NoClient]
    /\ registered = << >>
    /\ ssoJob = [w \in SsoWorkers |-> NoSsoJob]
    /\ ssoLeft \in Hardships

DeliverApp(w) ==
    \/ \E a \in Apps : \E i \in 1..Len(ssoEvent[a]) : ClaimApp(w, a, i)
    \/ FindClient(w) \/ CreateClient(w) \/ UpdateClient(w) \/ AssertMapper(w) \/ CommitApp(w)

SsoNext ==
    \/ \E a \in Apps :
          \/ \E row \in Rows : CreateApp(a, row) \/ PatchApp(a, row)
          \/ SetAppEnabled(a)
          \/ \E i \in 1..Len(ssoEvent[a]) : ReviveApp(a, i)
    \/ \E w \in SsoWorkers : DeliverApp(w) \/ SsoCallFails(w) \/ SsoWorkerDies(w)
    \/ \E c \in RegisteredIds : RenameClient(c) \/ DeleteClient(c)

SsoSpec == SsoInit /\ [][SsoNext]_svars

-----------------------------------------------------------------------------
AppSettled(a) == \A i \in 1..Len(ssoEvent[a]) : ssoEvent[a][i].state = "done"

(* What a client shows of a row, as far as the connector ever takes it.    *)
Shows(a, c) ==
    /\ registered[c].enabled = app[a].enabled /\ registered[c].content = app[a].content
    /\ app[a].groupsClaim => registered[c].mapper
    /\ app[a].extra => registered[c].extra
    /\ a \in SamlApps /\ registered[c].extra => app[a].extra

(* Once an application's events are all delivered its client shows its row *)
(* - an application disabled since is disabled there - whatever was read   *)
(* before an edit and written after it, delivered twice or half.           *)
AppsAreShown ==
    \A a \in Apps : app[a] # NoClient /\ AppSettled(a) =>
        ident[a] # NoClient /\ (registered[ident[a]].exists => Shows(a, ident[a]))

(* An application keeps the client it was first linked to: no rename at    *)
(* Keycloak, lost answer or second worker gives it another.                *)
ClientsAreKept ==
    [][\A a \in Apps : ident[a] # NoClient => ident'[a] = ident[a]]_svars

(* What a row withdraws, its client loses.  The code breaks it: the mapper *)
(* is asserted and never removed, and so is the PKCE attribute.            *)
WithdrawnIsGone ==
    \A a \in Apps : app[a] # NoClient /\ AppSettled(a) /\ registered[ident[a]].exists =>
        registered[ident[a]].mapper = app[a].groupsClaim

(* A client deleted at Keycloak comes back with the next delivery.  The    *)
(* code breaks it: it is looked for by its id and every attempt fails.     *)
DeletedClientsComeBack ==
    \A a \in Apps : app[a] # NoClient /\ ident[a] # NoClient /\ AppSettled(a) =>
        registered[ident[a]].exists
=============================================================================
