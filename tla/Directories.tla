----------------------------- MODULE Directories -----------------------------
(***************************************************************************)
(* One target whose accounts and groups are reached over HTTP, a request   *)
(* per step: Keycloak, Entra ID, Google Workspace and SCIM services.  A    *)
(* job brings one person's account to what the person's row asked for when *)
(* the job read it; any request may fail, after which the queue runs the   *)
(* job again from the start.  Nothing locks the target: two people's jobs  *)
(* and the target's own administrators interleave request by request.      *)
(***************************************************************************)
EXTENDS Naturals, FiniteSets, Sequences

CONSTANTS
    Subjects, Names,    \* Names: of groups
    EmailOf,          \* Google Workspace: the address derived from a group's name
    Managed,          \* remote attributes some definition maps to
    Foreign,          \* remote attributes this system never writes
    AttrValues, NoAttr,
    NoId,
    Wants,            \* bound: what people's rows may ask for
    Start,            \* bound: what they ask for at first
    Kinds,            \* bound: the kinds of target
    GroupsAtFirst,      \* bound: groups the target has at first, of names nobody's row asks for
    MaxAccounts, MaxGroups,   \* bounds
    Budgets           \* bound: how many edits, faults and hand changes a behaviour has

Want == [attrs : [Managed -> AttrValues \cup {NoAttr}], enabled : BOOLEAN, groups : SUBSET Names]

AllKinds == {"keycloak", "entra", "google", "scim_patch", "scim_put"}

ASSUME DirectoriesAssumption ==
    /\ Kinds \subseteq AllKinds /\ Wants \subseteq Want /\ Start \in [Subjects -> Wants]
    /\ Managed \cap Foreign = {} /\ NoAttr \notin AttrValues
    /\ NoId \notin Nat
    /\ DOMAIN EmailOf = Names
    /\ GroupsAtFirst \in Seq([name : Names, email : {EmailOf[n] : n \in Names}, members : {{}}])

VARIABLES
    kind,       \* which connector the target has
    wanted,     \* what each person's row asks for
    pending,    \* people with an event in the queue
    link,       \* external_identities: the account's id, or NoId
    job,        \* the job each person's lock holds, if any
    accounts,   \* the target's accounts, by id
    groups,     \* the target's groups, by id
    touched,    \* history: people whose account an administrator touched since their last job started
    budget      \* edits, faults and meddling left

dvars == <<kind, wanted, pending, link, job, accounts, groups, touched, budget>>

NoJob == [at |-> "idle"]
AttrKeys == Managed \cup Foreign
Ids == DOMAIN accounts

DirectoriesTypeOK ==
    /\ kind \in Kinds
    /\ wanted \in [Subjects -> Wants]
    /\ pending \subseteq Subjects /\ touched \subseteq Subjects
    /\ \A i \in Ids : accounts[i].user \in Subjects /\ accounts[i].attrs \in [AttrKeys -> AttrValues \cup {NoAttr}]
    /\ \A p \in Subjects : link[p] \in Ids \cup {NoId}
    /\ \A g \in DOMAIN groups : groups[g].name \in Names /\ groups[g].members \subseteq Ids
    /\ \A p \in Subjects : job[p].at \in
         {"idle", "find", "write", "enable", "ensure", "create", "read", "members", "commit"}

-----------------------------------------------------------------------------
(* What the target holds.                                                  *)

Live(i) == i \in Ids /\ accounts[i].live
AccountsOf(p) == {i \in Ids : Live(i) /\ accounts[i].user = p}
Called(n) == {g \in DOMAIN groups : groups[g].name = n}
Addressed(n) == {g \in DOMAIN groups : groups[g].email = EmailOf[n]}
GroupsOf(i) == {g \in DOMAIN groups : i \in groups[g].members}
NamesOf(i) == {groups[g].name : g \in GroupsOf(i)}

(* The account a target finds for p: by the id stored for p where it has   *)
(* one the target still knows, by user name otherwise.                     *)
ByIdThenName(p, id) ==
    IF id # NoId /\ Live(id) THEN {id} ELSE IF AccountsOf(p) = {} THEN {NoId} ELSE AccountsOf(p)

ByName(p) == IF AccountsOf(p) = {} THEN {NoId} ELSE AccountsOf(p)

(* Keycloak's connector looks only at the user name.                       *)
FindExisting(p, id) == IF kind = "keycloak" THEN ByName(p) ELSE ByIdThenName(p, id)

-----------------------------------------------------------------------------
(* What plan() reports: which of the account's parts differ.               *)

ProfileDiffers(account, want) ==
    \E k \in Managed : account.attrs[k] # want.attrs[k]

KeycloakPlan(i, want) ==
    {part \in {"profile", "enabled", "groups"} :
        \/ part = "profile" /\ \/ ProfileDiffers(accounts[i], want)
                               \/ \E k \in Foreign : accounts[i].attrs[k] # NoAttr
        \/ part = "enabled" /\ accounts[i].enabled # want.enabled
        \/ part = "groups" /\ NamesOf(i) # want.groups}

(* Mutant of EntraPlan: the memberships are announced whatever they are.   *)
EntraPlanAlways(i, want) ==
    {part \in {"profile", "enabled", "groups"} :
        \/ part = "profile" /\ ProfileDiffers(accounts[i], want)
        \/ part = "enabled" /\ accounts[i].enabled # want.enabled
        \/ part = "groups" /\ want.groups # {}}

EntraPlan(i, want) ==
    {part \in {"profile", "enabled", "groups"} :
        \/ part = "profile" /\ ProfileDiffers(accounts[i], want)
        \/ part = "enabled" /\ accounts[i].enabled # want.enabled
        \/ part = "groups" /\ NamesOf(i) # want.groups}

GooglePlan(i, want) == EntraPlan(i, want)

(* SCIM announces the update whatever the account holds.                   *)
ScimPlan(i, want) == {"profile"} \cup {n \in {"groups"} : want.groups # {}}

PlanFor(i, want) ==
    CASE kind = "keycloak" -> KeycloakPlan(i, want)
      [] kind = "entra" -> EntraPlan(i, want)
      [] kind = "google" -> GooglePlan(i, want)
      [] OTHER -> ScimPlan(i, want)

(* plan() as target reconciliation calls it.                               *)
Plan(p) ==
    LET found == CHOOSE id \in FindExisting(p, link[p]) : TRUE IN
    IF found = NoId THEN {"create"} ELSE PlanFor(found, wanted[p])

-----------------------------------------------------------------------------
(* A job's requests.                                                       *)

(* The queue claims p's event; the job reads the row and the stored id.    *)
StartJob(p) ==
    /\ p \in pending /\ job[p] = NoJob
    /\ job' = [job EXCEPT ![p] =
          [at |-> "find", want |-> wanted[p], ext |-> link[p], id |-> NoId, seen |-> NoAttr,
           todo |-> {}, ids |-> {}, creating |-> NoAttr, add |-> {}, drop |-> {}]]
    /\ pending' = pending \ {p}
    /\ touched' = touched \ {p}
    /\ UNCHANGED <<kind, wanted, link, accounts, groups, budget>>

(* The account and, in the same step, what the connector reads of it.      *)
Find(p) ==
    /\ job[p].at = "find"
    /\ \E id \in FindExisting(p, job[p].ext) :
         job' = [job EXCEPT ![p].at = "write", ![p].id = id,
                            ![p].seen = IF id = NoId THEN NoAttr ELSE accounts[id]]
    /\ UNCHANGED <<kind, wanted, pending, link, accounts, groups, touched, budget>>

(* The connector throws: the transaction rolls back and the event goes     *)
(* back to the queue.                                                      *)
FailJob(p) ==
    /\ job' = [job EXCEPT ![p] = NoJob]
    /\ pending' = pending \cup {p}
    /\ UNCHANGED <<kind, wanted, link, accounts, groups, touched>>

(* Where a job goes once the account is written.                           *)
AfterWrite ==
    CASE kind = "keycloak" -> "enable"
      [] kind \in {"entra", "google"} -> "ensure"
      [] OTHER -> "read"

NewAttrs(w) == [k \in AttrKeys |-> IF k \in Managed THEN w.attrs[k] ELSE NoAttr]

(* POST: user names are unique at the target.                              *)
CreateAccount(p) ==
    /\ job[p].at = "write" /\ job[p].id = NoId
    /\ AccountsOf(p) = {} /\ Cardinality(Ids) < MaxAccounts
    /\ LET id == Cardinality(Ids) + 1
           w == job[p].want
       IN /\ accounts' = Append(accounts,
               [user |-> p, live |-> TRUE, attrs |-> NewAttrs(w), enabled |-> w.enabled])
          /\ job' = [job EXCEPT ![p].id = id, ![p].todo = w.groups,
                        ![p].at = IF kind = "keycloak" THEN "ensure" ELSE AfterWrite]
    /\ UNCHANGED <<kind, wanted, pending, link, groups, touched, budget>>

(* PUT of the profile with the whole attribute map.                        *)
KeycloakWritten(account, seen, w) == [account EXCEPT !.attrs = NewAttrs(w)]

(* PATCH of what the read said differs; a mapped attribute the person no   *)
(* longer has is cleared where it was seen set.                            *)
EntraWritten(account, seen, w) ==
    [account EXCEPT !.enabled = IF seen.enabled # w.enabled THEN w.enabled ELSE @,
                    !.attrs = [k \in AttrKeys |->
                        IF k \in Managed /\ seen.attrs[k] # w.attrs[k] THEN w.attrs[k] ELSE @[k]]]

GoogleWritten(account, seen, w) == EntraWritten(account, seen, w)

(* PATCH that replaces everything mapped and removes what was seen set.    *)
ScimPatched(account, seen, w) ==
    [account EXCEPT !.enabled = w.enabled,
                    !.attrs = [k \in AttrKeys |->
                        IF k \in Managed /\ (w.attrs[k] # NoAttr \/ seen.attrs[k] # NoAttr)
                        THEN w.attrs[k] ELSE @[k]]]

(* PUT of the resource as it was read, with the mapped attributes changed. *)
ScimPut(account, seen, w) ==
    [account EXCEPT !.enabled = w.enabled,
                    !.attrs = [k \in AttrKeys |-> IF k \in Managed THEN w.attrs[k] ELSE seen.attrs[k]]]

Written(account, seen, w) ==
    CASE kind = "keycloak" -> KeycloakWritten(account, seen, w)
      [] kind = "entra" -> EntraWritten(account, seen, w)
      [] kind = "google" -> GoogleWritten(account, seen, w)
      [] kind = "scim_patch" -> ScimPatched(account, seen, w)
      [] OTHER -> ScimPut(account, seen, w)

UpdateAccount(p) ==
    /\ job[p].at = "write" /\ job[p].id # NoId /\ Live(job[p].id)
    /\ accounts' = [accounts EXCEPT ![job[p].id] = Written(@, job[p].seen, job[p].want)]
    /\ job' = [job EXCEPT ![p].at = AfterWrite, ![p].todo = job[p].want.groups]
    /\ UNCHANGED <<kind, wanted, pending, link, groups, touched, budget>>

(* Keycloak: the enabled flag is a request of its own.                     *)
SetEnabled(p) ==
    /\ job[p].at = "enable" /\ Live(job[p].id)
    /\ accounts' = [accounts EXCEPT ![job[p].id].enabled = job[p].want.enabled]
    /\ job' = [job EXCEPT ![p].at = "ensure"]
    /\ UNCHANGED <<kind, wanted, pending, link, groups, touched, budget>>

-----------------------------------------------------------------------------
(* Groups.  ensureGroup looks a group up, then creates it if it is not     *)
(* there: two requests.                                                    *)

Found(n) == IF kind = "google" THEN Addressed(n) ELSE Called(n)

Scim == kind \in {"scim_patch", "scim_put"}

(* Keycloak, Entra and Google first find a group for every name; SCIM      *)
(* joins each group as soon as it has found it.                            *)
Got(p, n, g) ==
    job' = [job EXCEPT ![p].todo = @ \ {n}, ![p].creating = NoAttr,
                       ![p].at = IF Scim THEN "members" ELSE "ensure",
                       ![p].ids = IF Scim THEN @ ELSE @ \cup {g},
                       ![p].add = IF Scim THEN {g} ELSE @]

FindGroup(p) ==
    /\ job[p].at = "ensure"
    /\ \E n \in job[p].todo :
         \/ \E g \in Found(n) : Got(p, n, g)
         \/ Found(n) = {} /\ job' = [job EXCEPT ![p].at = "create", ![p].creating = n]
    /\ UNCHANGED <<kind, wanted, pending, link, accounts, groups, touched, budget>>

NewGroup(n) == Append(groups, [name |-> n, email |-> EmailOf[n], members |-> {}])

(* Entra ID and SCIM take any number of groups of one name; Google refuses *)
(* a second group of one address.                                          *)
CreateTargetGroup(p) ==
    /\ job[p].at = "create" /\ kind # "keycloak" /\ Len(groups) < MaxGroups
    /\ kind = "google" => Addressed(job[p].creating) = {}
    /\ groups' = NewGroup(job[p].creating)
    /\ Got(p, job[p].creating, Len(groups) + 1)
    /\ UNCHANGED <<kind, wanted, pending, link, accounts, touched, budget>>

(* Keycloak refuses a second group of one name; the client then takes the  *)
(* one there is.                                                           *)
KeycloakCreateGroup(p) ==
    /\ job[p].at = "create" /\ kind = "keycloak" /\ Len(groups) < MaxGroups
    /\ \/ /\ Called(job[p].creating) = {}
          /\ groups' = NewGroup(job[p].creating)
          /\ Got(p, job[p].creating, Len(groups) + 1)
       \/ \E g \in Called(job[p].creating) :
            Got(p, job[p].creating, g) /\ UNCHANGED groups
    /\ UNCHANGED <<kind, wanted, pending, link, accounts, touched, budget>>

(* Mutant of Superfluous: memberships are only ever added.                 *)
NothingSuperfluous(now, wantedIds) == {}

Superfluous(now, wantedIds) == now \ wantedIds

(* The account's groups are read once and compared by id.                  *)
ReadMemberships(p) ==
    /\ job[p].at = "ensure" /\ job[p].todo = {} /\ ~Scim /\ Live(job[p].id)
    /\ LET now == GroupsOf(job[p].id) IN
         job' = [job EXCEPT ![p].at = "members", ![p].add = job[p].ids \ now,
                            ![p].drop = Superfluous(now, job[p].ids)]
    /\ UNCHANGED <<kind, wanted, pending, link, accounts, groups, touched, budget>>

(* SCIM compares them by name, before it looks for the groups missing.     *)
ScimReadMemberships(p) ==
    /\ job[p].at = "read" /\ Live(job[p].id)
    /\ LET missing == job[p].want.groups \ NamesOf(job[p].id) IN
         job' = [job EXCEPT ![p].at = IF missing = {} THEN "members" ELSE "ensure",
                            ![p].todo = missing,
                            ![p].drop = {g \in GroupsOf(job[p].id) : groups[g].name \notin job[p].want.groups}]
    /\ UNCHANGED <<kind, wanted, pending, link, accounts, groups, touched, budget>>

(* One edge per request, additions first.                                  *)
AddAtTarget(p) ==
    /\ job[p].at = "members" /\ Live(job[p].id)
    /\ \E g \in job[p].add :
         /\ kind \in {"entra", "google"} => job[p].id \notin groups[g].members
         /\ groups' = [groups EXCEPT ![g].members = @ \cup {job[p].id}]
         /\ job' = [job EXCEPT ![p].add = @ \ {g}, ![p].at = IF job[p].todo = {} THEN "members" ELSE "ensure"]
    /\ UNCHANGED <<kind, wanted, pending, link, accounts, touched, budget>>

RemoveAtTarget(p) ==
    /\ job[p].at = "members" /\ job[p].add = {} /\ Live(job[p].id)
    /\ \E g \in job[p].drop :
         /\ groups' = [groups EXCEPT ![g].members = @ \ {job[p].id}]
         /\ job' = [job EXCEPT ![p].drop = @ \ {g}]
    /\ UNCHANGED <<kind, wanted, pending, link, accounts, touched, budget>>

(* The transaction commits with the id the target answered.                *)
CommitJob(p) ==
    /\ job[p].at = "members" /\ job[p].add = {} /\ job[p].drop = {}
    /\ link' = [link EXCEPT ![p] = job[p].id]
    /\ job' = [job EXCEPT ![p] = NoJob]
    /\ UNCHANGED <<kind, wanted, pending, accounts, groups, touched, budget>>

(* An answer of 404 or 409 that the connector turns into an error.         *)
Refused(p) ==
    /\ LET j == job[p] IN
       \/ j.at = "write" /\ j.id = NoId /\ AccountsOf(p) # {}
       \/ j.at \in {"write", "enable", "read", "members"} /\ j.id # NoId /\ ~Live(j.id)
       \/ j.at = "ensure" /\ j.todo = {} /\ ~Live(j.id)
       \/ j.at = "create" /\ kind = "google" /\ Addressed(j.creating) # {}
       \/ j.at = "members" /\ kind \in {"entra", "google"} /\ \E g \in j.add : j.id \in groups[g].members
    /\ FailJob(p)
    /\ UNCHANGED budget

(* A request fails, with or without its effect: an answer lost after the   *)
(* effect is the step that has it followed by this one.                    *)
RequestFails(p) ==
    /\ job[p] # NoJob /\ budget.faults > 0
    /\ budget' = [budget EXCEPT !.faults = @ - 1]
    /\ FailJob(p)

-----------------------------------------------------------------------------
(* Around the jobs.                                                        *)

(* A person's row comes to ask for something else; the write queues an     *)
(* event.                                                                  *)
EditPerson(p) ==
    /\ budget.edits > 0
    /\ budget' = [budget EXCEPT !.edits = @ - 1]
    /\ \E w \in Wants \ {wanted[p]} : wanted' = [wanted EXCEPT ![p] = w]
    /\ pending' = pending \cup {p}
    /\ UNCHANGED <<kind, link, job, accounts, groups, touched>>

(* An administrator of the target deletes an account, writes an attribute  *)
(* of it this system does not manage, or puts it into a group.             *)
MeddleWithTarget(p) ==
    /\ budget.meddling > 0
    /\ budget' = [budget EXCEPT !.meddling = @ - 1]
    /\ \E i \in AccountsOf(p) :
         \/ /\ accounts' = [accounts EXCEPT ![i].live = FALSE]
            /\ groups' = [g \in DOMAIN groups |-> [groups[g] EXCEPT !.members = @ \ {i}]]
         \/ /\ \E k \in Foreign, v \in AttrValues : accounts' = [accounts EXCEPT ![i].attrs[k] = v]
            /\ UNCHANGED groups
         \/ /\ \E g \in DOMAIN groups \ GroupsOf(i) : groups' = [groups EXCEPT ![g].members = @ \cup {i}]
            /\ UNCHANGED accounts
    /\ touched' = touched \cup {p}
    /\ UNCHANGED <<kind, wanted, pending, link, job>>

JobStep(p) ==
    \/ Find(p) \/ CreateAccount(p) \/ UpdateAccount(p) \/ SetEnabled(p)
    \/ FindGroup(p) \/ CreateTargetGroup(p) \/ KeycloakCreateGroup(p)
    \/ ReadMemberships(p) \/ ScimReadMemberships(p)
    \/ AddAtTarget(p) \/ RemoveAtTarget(p) \/ CommitJob(p) \/ Refused(p)

DirectoriesInit ==
    /\ kind \in Kinds
    /\ wanted = Start
    /\ pending = Subjects
    /\ link = [p \in Subjects |-> NoId]
    /\ job = [p \in Subjects |-> NoJob]
    /\ accounts = << >>
    /\ groups = GroupsAtFirst
    /\ touched = {}
    /\ budget \in Budgets

DirectoriesNext == \E p \in Subjects : StartJob(p) \/ JobStep(p) \/ RequestFails(p) \/ EditPerson(p) \/ MeddleWithTarget(p)

DirectoriesSpec == DirectoriesInit /\ [][DirectoriesNext]_dvars

-----------------------------------------------------------------------------
(* Properties.                                                             *)

(* p's last job ended well and nothing changed since it began.             *)
LeftAlone(p) == p \notin pending \cup touched /\ job[p] = NoJob

(* One group found for each name, and no other.                            *)
BelongsAsWanted(i, w) ==
    /\ \A n \in w.groups : Found(n) \cap GroupsOf(i) # {}
    /\ GroupsOf(i) \subseteq UNION {Found(n) : n \in w.groups}

(* Once a person's job has ended well the target shows what the person's   *)
(* row asks for, whatever other jobs, failed attempts and lost answers came *)
(* in between: apply of every connector.                                   *)
SyncedMeansShown ==
    \A p \in Subjects : LeftAlone(p) =>
        /\ Live(link[p]) /\ accounts[link[p]].user = p
        /\ accounts[link[p]].enabled = wanted[p].enabled
        /\ ~ProfileDiffers(accounts[link[p]], wanted[p])
        /\ BelongsAsWanted(link[p], wanted[p])

(* plan() announces nothing for a person whose job ended well (connectors  *)
(* other than SCIM; with Google Workspace, unless two groups derive one    *)
(* address).                                                               *)
ManagedNames == UNION {w.groups : w \in Wants}

OneAddressEach == \A m, n \in ManagedNames : EmailOf[m] = EmailOf[n] => m = n

PlansAreQuietOnceSynced ==
    \A p \in Subjects :
        LeftAlone(p) /\ ~Scim /\ (kind = "google" => OneAddressEach) => Plan(p) = {}

(* google-workspace.connector.ts:829 "Reconciles this user's group         *)
(* membership to EXACTLY `desiredGroupNames`".  Refuted for Google         *)
(* Workspace once two groups derive one address: whoever is in either is   *)
(* in the one group there is.                                              *)
MembershipIsExactly ==
    \A p \in Subjects : LeftAlone(p) => NamesOf(link[p]) = wanted[p].groups

(* scim.connector.ts:623-625 of the removals: "A group this system does    *)
(* not manage at all never appears in `desired.groups`, so this only ever  *)
(* removes what it once added."                                            *)
OnlyRemovesWhatItAdded ==
    [][\A g \in DOMAIN groups : groups[g].name \notin ManagedNames =>
          {i \in groups[g].members : accounts'[i].live} \subseteq groups'[g].members]_dvars

(* Attributes outside the mapping stay as the target's administrators      *)
(* wrote them.  Refuted for Keycloak, whose map is replaced, and for SCIM  *)
(* services written with PUT, whose body is the resource read a request    *)
(* earlier.                                                                *)
ForeignAttributesSurvive ==
    [][\A p \in Subjects : UpdateAccount(p) =>
          \A k \in Foreign : accounts'[job[p].id].attrs[k] = accounts[job[p].id].attrs[k]]_dvars

(* People whose jobs ended well and who want one group are in one group.   *)
(* Refuted for Entra ID and SCIM: two jobs that find no group of a name    *)
(* each create one.                                                        *)
TeamsMeet ==
    \A p, q \in Subjects : LeftAlone(p) /\ LeftAlone(q) =>
        \A n \in wanted[p].groups \cap wanted[q].groups :
            GroupsOf(link[p]) \cap GroupsOf(link[q]) \cap Found(n) # {}
=============================================================================
