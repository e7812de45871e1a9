-------------------------------- MODULE Console --------------------------------
(***************************************************************************)
(* The administration console: one administrator at one page of it, the    *)
(* loads and the commands the page has under way, and the service behind   *)
(* them, which others change too.  A load reads at one moment and arrives  *)
(* at a later one; a command is taken or refused at one moment, and its    *)
(* answer comes later or not at all.                                       *)
(***************************************************************************)
EXTENDS ConsolePeople, ConsoleSystem

CONSTANTS
    MaxSends,   \* commands the page sends
    MaxEdits,   \* changes others make
    MaxAsks     \* loads under way at once on a page that drops none

VARIABLES
    page,       \* which page it is
    view,       \* what it is: Opened of ConsoleState
    asks,       \* the loads under way: whose rows, and what was read of them
    sent,       \* the commands under way, and what has become of them
    service,    \* the rows of every topic, as they are
    unseen,     \* the topics changed behind the page's back and not read since
    budget      \* what is left of MaxSends and MaxEdits

pvars == <<page, view, asks, sent, service, unseen, budget>>

PageLoads ==
    [people |-> PeopleLoads, person |-> PersonLoads, personRoles |-> RolesTabLoads,
     members |-> MembersLoads, nested |-> NestedLoads, group |-> GroupLoads,
     units |-> UnitsLoads, organizations |-> OrganizationsLoads, reviews |-> ReviewsLoads,
     campaigns |-> CampaignsLoads, import |-> ImportLoads, combobox |-> ComboboxLoads,
     self |-> SelfLoads, rules |-> RulesLoads, app |-> AppLoads, sources |-> SourcesLoads,
     audit |-> AuditLoads, letters |-> DeadLettersLoads, connectors |-> ConnectorsLoads,
     roles |-> RolesLoads, conflicts |-> ConflictsLoads, role |-> RoleDetailLoads,
     exceptions |-> RoleDetailLoads, attributes |-> AttributesLoads,
     migration |-> MigrationLoads, campaign |-> CampaignLoads, catalogue |-> CatalogueLoads]

Pages == DOMAIN PageLoads

Gestures(pg, p) ==
    CASE pg = "people" -> PeoplePage(p)
      [] pg = "person" -> PersonPage(p)
      [] pg = "personRoles" -> RolesPage(p)
      [] pg = "members" -> MembersPage(p)
      [] pg = "nested" -> NestedPage(p)
      [] pg = "group" -> GroupPage(p)
      [] pg = "units" -> UnitsPage(p)
      [] pg = "organizations" -> OrganizationsPage(p)
      [] pg = "reviews" -> ReviewsTable(p)
      [] pg = "campaigns" -> CampaignForm(p) \cup CampaignsTable(p)
      [] pg = "import" -> ImportPage(p)
      [] pg = "combobox" -> ComboboxPage(p)
      [] pg = "self" -> SelfForm(p)
      [] pg = "rules" -> RulesPage(p)
      [] pg = "app" -> AppPage(p)
      [] pg = "sources" -> SourcesPage(p)
      [] pg = "audit" -> AuditPage(p)
      [] pg = "letters" -> DeadLettersPage(p)
      [] pg = "connectors" -> ConnectorsPage(p)
      [] pg = "roles" -> RolesListPage(p)
      [] pg = "conflicts" -> ConflictsPage(p)
      [] pg = "role" -> RoleDetailPage(p)
      [] pg = "exceptions" -> ExceptionsPage(p)
      [] pg = "attributes" -> AttributesPage(p)
      [] pg = "migration" -> MigrationPage(p)
      [] pg = "campaign" -> CampaignPage(p)
      [] pg = "catalogue" -> CataloguePage(p)

(* What the handler of a command makes of its answer.                      *)
Answered(p, c, ok, got) ==
    CASE c.op = "transferPerson" -> PersonTransferred(p, c, ok, got)
      [] c.op = "activatePerson" -> PersonActivated(p, c, ok, got)
      [] c.op = "deactivatePerson" -> PersonDeactivated(p, c, ok, got)
      [] c.op = "grantRole" -> RoleGranted(p, c, ok)
      [] c.op = "revokeRole" -> RoleRevoked(p, c, ok)
      [] c.op = "addMember" -> MemberAdded(p, c, ok)
      [] c.op = "removeMember" -> MemberRemoved(p, c, ok)
      [] c.op = "nestGroup" -> GroupNested(p, c, ok)
      [] c.op = "unnestGroup" -> GroupUnnested(p, c, ok)
      [] c.op = "createUnit" -> CreateUnitAnswered(p, c, ok)
      [] c.op = "renameUnit" -> UnitRenamed(p, c, ok)
      [] c.op = "deleteUnit" -> DeleteUnitAnswered(p, c, ok)
      [] c.op = "createOrganization" -> OrganizationCreated(p, c, ok)
      [] c.op = "toggleOrganization" -> OrganizationToggled(p, c, ok)
      [] c.op = "decide" -> ReviewDecided(p, c, ok)
      [] c.op = "createCampaign" -> CampaignCreated(p, c, ok)
      [] c.op = "previewImport" -> ImportPreviewed(p, c, ok, got)
      [] c.op = "commitImport" -> ImportCommitted(p, c, ok)
      [] c.op = "saveProfile" -> SelfSaved(p, c, ok, got)
      [] c.op = "createRule" -> RuleCreated(p, c, ok)
      [] c.op = "previewRule" -> RulePreviewed(p, c, ok, got)
      [] c.op = "enableRule" -> RuleEnabled(p, c, ok)
      [] c.op = "toggleRule" -> RuleToggled(p, c, ok)
      [] c.op = "saveApp" -> AppSaved(p, c, ok, got)
      [] c.op = "toggleApp" -> AppToggled(p, c, ok, got)
      [] c.op = "mintSecret" -> SecretMinted(p, c, ok)
      [] c.op = "createSource" -> SourceCreated(p, c, ok)
      [] c.op = "saveSource" -> SourceSaved(p, c, ok)
      [] c.op = "previewSource" -> SourcePreviewed(p, c, ok, got)
      [] c.op = "commitSource" -> SourceCommitted(p, c, ok, got)
      [] c.op = "retryLetter" -> LetterRetried(p, c, ok)
      [] c.op = "createRole" -> RoleCreated(p, c, ok)
      [] c.op = "createConflict" -> ConflictCreated(p, c, ok)
      [] c.op = "switchConflict" -> ConflictSwitched(p, c, ok)
      [] c.op = "saveDraft" -> DraftSaved(p, c, ok, got)
      [] c.op = "simulateRole" -> RoleSimulated(p, c, ok, got)
      [] c.op = "publishRole" -> RolePublished(p, c, ok, got)
      [] c.op = "toggleRequestable" -> RequestableToggled(p, c, ok)
      [] c.op = "enableRole" -> RoleEnabled(p, c, ok, got)
      [] c.op = "disableRole" -> RoleDisabled(p, c, ok, got)
      [] c.op = "addException" -> ExceptionAdded(p, c, ok)
      [] c.op = "removeException" -> ExceptionRemoved(p, c, ok)
      [] c.op \in {"createAttribute", "editAttribute"} -> AttributeSubmitted(p, c, ok)
      [] c.op = "toggleAttribute" -> AttributeToggled(p, c, ok)
      [] c.op = "previewMigration" -> MigrationPreviewed(p, c, ok, got)
      [] c.op = "commitMigration" -> MigrationCommitted(p, c, ok)
      [] c.op = "openCampaign" -> CampaignOpened(p, c, ok, got)
      [] c.op = "closeCampaign" -> CampaignClosed(p, c, ok)
      [] c.op = "decideItem" -> ItemDecided(p, c, ok)
      [] c.op = "request" -> RequestSubmitted(p, c, ok)
      [] c.op = "cancelRequest" -> RequestCancelled(p, c, ok)

-----------------------------------------------------------------------------
Loading(trait) == trait \in PageLoads[page]

Starts(q) ==
    \/ q.again \notin {Nothing, "stop"}
    \/ q.topic # view.topic /\ q.again = Nothing /\ ~Loading("asked") /\ ~Loading("none")

(* The page becomes q; what q wants read again, or what it has come to be  *)
(* about, is asked for.                                                    *)
Turn(q) ==
    /\ view' = LET r == [q EXCEPT !.again = Nothing]
               IN IF ~Starts(q) THEN r
                  ELSE [r EXCEPT !.loading = TRUE,
                                 !.error = @ /\ ~Loading("clears"),
                                 !.rows = IF Loading("wipes") THEN Nothing ELSE @,
                                 !.busy = IF Loading("unmounts") THEN {} ELSE @]
    /\ asks' = IF q.again = "stop" THEN {}
               ELSE IF ~Starts(q) THEN asks
               ELSE (IF Loading("guarded") THEN {} ELSE asks)
                    \cup {[of |-> IF q.again = Nothing THEN q.topic ELSE q.again, got |-> Nothing]}
    /\ Cardinality(asks') <= MaxAsks

Contents == [Rows -> {"absent", "a", "b"}]

ConsoleInit ==
    /\ page \in Pages
    /\ \E s \in Topics :
          LET none == Loading("none") \/ Loading("asked")
          IN /\ view = [Opened(s) EXCEPT !.loading = ~none]
             /\ asks = IF none THEN {} ELSE {[of |-> s, got |-> Nothing]}
    /\ sent = {}
    /\ service \in [Topics -> [Rows -> {"absent", "a"}]]
    /\ unseen = {}
    /\ budget = [sends |-> MaxSends, edits |-> MaxEdits]

(* The administrator does something on the page.                           *)
Gesture ==
    \E q \in Gestures(page, view) :
        LET new == q.busy \ view.busy
        IN /\ Cardinality(new) <= budget.sends
           /\ Turn(q)
           /\ sent' = sent \cup {[cmd |-> c, answer |-> "none", got |-> Nothing] : c \in new}
           /\ budget' = [budget EXCEPT !.sends = @ - Cardinality(new)]
           /\ UNCHANGED <<page, service, unseen>>

Read ==
    \E a \in asks :
        /\ a.got = Nothing
        /\ asks' = (asks \ {a}) \cup {[a EXCEPT !.got = service[a.of]]}
        /\ unseen' = unseen \ {a.of}
        /\ UNCHANGED <<page, view, sent, service, budget>>

Arrive ==
    \E a \in asks :
        /\ a.got # Nothing
        /\ asks' = asks \ {a}
        /\ view' = LET q == [view EXCEPT !.rows = a.got, !.of = a.of, !.loading = FALSE,
                                         !.error = FALSE]
                   IN IF Loading("forgets") THEN RoleLoaded(q) ELSE q
        /\ UNCHANGED <<page, sent, service, unseen, budget>>

LoadFails ==
    \E a \in asks :
        /\ asks' = asks \ {a}
        /\ view' = [view EXCEPT !.loading = FALSE, !.error = TRUE,
                                !.rows = IF Loading("drops") THEN Nothing ELSE @]
        /\ UNCHANGED <<page, sent, service, unseen, budget>>

(* The service takes a command, and its answer sets out or is lost.        *)
Perform ==
    \E m \in sent :
        /\ m.answer = "none"
        /\ service' = [service EXCEPT ![m.cmd.of] = Applied(@, m.cmd)]
        /\ \/ /\ sent' = (sent \ {m}) \cup
                    {[m EXCEPT !.answer = "ok", !.got = service'[m.cmd.of]]}
              /\ UNCHANGED unseen
           \/ /\ sent' = (sent \ {m}) \cup {[m EXCEPT !.answer = "lost"]}
              /\ unseen' = unseen \cup {m.cmd.of}
        /\ UNCHANGED <<page, view, asks, budget>>

Refuse ==
    \E m \in sent :
        /\ m.answer = "none"
        /\ sent' = (sent \ {m}) \cup {[m EXCEPT !.answer = "refused"]}
        /\ UNCHANGED <<page, view, asks, service, unseen, budget>>

Return ==
    \E m \in sent :
        /\ m.answer # "none"
        /\ Turn(IF m.answer = "ok" THEN Answered(view, m.cmd, TRUE, m.got)
                ELSE Answered(view, m.cmd, FALSE, m.answer))
        /\ sent' = sent \ {m}
        /\ UNCHANGED <<page, service, unseen, budget>>

(* Somebody else changes what a page is about.                             *)
Edit ==
    /\ budget.edits > 0
    /\ \E s \in Topics, rows \in Contents :
          /\ rows # service[s]
          /\ service' = [service EXCEPT ![s] = rows]
          /\ unseen' = unseen \cup {s}
    /\ budget' = [budget EXCEPT !.edits = @ - 1]
    /\ UNCHANGED <<page, view, asks, sent>>

ConsoleNext ==
    Gesture \/ Read \/ Arrive \/ LoadFails \/ Perform \/ Refuse \/ Return \/ Edit

ConsoleSpec == ConsoleInit /\ [][ConsoleNext]_pvars

-----------------------------------------------------------------------------
(* Pages on which one load can overtake another, or a load and the answer  *)
(* to a command each other: not what was read last is what stays.          *)
Overtakable ==
    {"person", "personRoles", "members", "nested", "units", "organizations", "combobox",
     "app", "sources", "conflicts", "role", "campaign", "catalogue"}

(* The other pages, when they wait for nothing, show what the service has  *)
(* of what they are about, but for what others changed since it was read:  *)
(* the answer of no earlier load is left in its place, and no command of   *)
(* the page's own is left out.                                             *)
SettledPagesAreCurrent ==
    (/\ page \notin Overtakable
     /\ asks = {} /\ sent = {} /\ view.pending = Nothing
     /\ Loaded(view) /\ ~view.error
     /\ view.topic \notin unseen)
    => view.of = view.topic /\ view.rows = service[view.topic]

(* What a page waits for is under way: a button, a form or a dialog that   *)
(* waits is given back by an answer, whichever it is and whatever has been *)
(* done meanwhile; but for the two whose handlers do not.                  *)
WaitsEnd ==
    /\ \A c \in view.busy : c.op # "nestGroup" => \E m \in sent : m.cmd = c
    /\ view.held /\ view.dialog # "transferPerson"
          => \E m \in sent : m.cmd.op = view.dialog
=============================================================================
