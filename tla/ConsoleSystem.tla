---------------------------- MODULE ConsoleSystem ----------------------------
(***************************************************************************)
(* The pages of the console about lifecycle rules, HR feeds, applications, *)
(* the audit trail, dead letters, connectors, business roles, custom       *)
(* attributes, campaigns and one's own access requests, in the terms that  *)
(* ConsolePeople explains.                                                 *)
(***************************************************************************)
EXTENDS ConsoleState

-----------------------------------------------------------------------------
(* LifecycleRulesPage.  "a" is a rule that is off, "b" one that is live.   *)
(* Every row's buttons wait for the one enabling, disabling or preview.    *)

RulesLoads == {"guarded", "clears"}

RuleCreated(w, c, ok) ==
    LET p == Done(w, c) IN IF ok THEN Again(Close(p, "createRule")) ELSE p

(* The answer is shown whatever has been previewed or closed meanwhile.    *)
RulePreviewed(w, c, ok, got) ==
    LET p == Done(w, c)
    IN IF ok THEN [p EXCEPT !.preview = [of |-> c.of, row |-> c.row, rows |-> got]] ELSE p

RuleEnabled(w, c, ok) == LET p == Done(w, c) IN IF ok THEN Again(Forget(p)) ELSE p

RuleToggled(w, c, ok) == LET p == Done(w, c) IN IF ok THEN Again(p) ELSE p

RuleForm(p) ==
    IF "createRule" \in p.forms
    THEN If(Idle(p, "createRule"),
            {Close(p, "createRule")} \cup Offer(p, "createRule", "add", Missing(p)))
    ELSE {Open(p, "createRule")}

RulesFailed(p) == If(p.error, {Again(p)})

RuleQuiet(p) == Idle(p, "toggleRule") /\ Idle(p, "enableRule")

RulesTable(p) ==
    If(RuleQuiet(p),
       Offer(p, "toggleRule", "change", Shown(p)) \cup
       If(Idle(p, "previewRule"), {Forget(q) : q \in Offer(p, "previewRule", "look", Shown(p))}))

(* What is reviewed is acknowledged and enabled: two calls, one after the  *)
(* other.                                                                  *)
RulePreview(p) ==
    If(p.preview # Nothing,
       {Forget(p)} \cup If(RuleQuiet(p), Offer(p, "enableRule", "mark", {p.preview.row})))

RulesPage(p) == RulesFailed(p) \cup RuleForm(p) \cup RulesTable(p) \cup RulePreview(p)

-----------------------------------------------------------------------------
(* SsoAppDetailPage.  Saving has a flag of its own; enabling and minting a *)
(* secret share one.  Each answer replaces the application.                *)

AppLoads == {}

AppEditing(p) == Open(p, "editApp")

AppSaved(w, c, ok, got) ==
    LET p == Done(w, c) IN IF ok THEN Close(Replace(p, c, got), "editApp") ELSE p

AppToggled(w, c, ok, got) == LET p == Done(w, c) IN IF ok THEN Replace(p, c, got) ELSE p

SecretMinted(w, c, ok) ==
    LET p == Done(w, c) IN IF ok THEN [p EXCEPT !.preview = c.of] ELSE p

AppForm(p) ==
    IF "editApp" \in p.forms
    THEN If(Idle(p, "saveApp"),
            {Close(p, "editApp")} \cup Offer(p, "saveApp", "change", Shown(p)))
    ELSE {AppEditing(p)}

AppActions(p) ==
    If(Idle(p, "toggleApp") /\ Idle(p, "mintSecret"),
       Offer(p, "toggleApp", "change", Shown(p)) \cup Offer(p, "mintSecret", "look", {Nothing}))
    \cup If(p.preview # Nothing, {Forget(p)})

AppPage(p) == If(Loaded(p), AppForm(p) \cup AppActions(p))

-----------------------------------------------------------------------------
(* HrSourcesPage.  "a" is a source that is disabled, "b" an enabled one.   *)
(* The panel of the selected source stands on a draft of it; without the   *)
(* draft, no panel.  Its loads are not guarded.                            *)

SourcesLoads == {}

(* The draft is made when the selection changes, of what the list then     *)
(* holds.                                                                  *)
SourceSelected(p, r) ==
    [Forget(p) EXCEPT !.at = r, !.forms = (@ \ {"source"}) \cup If(r \in Shown(p), {"source"})]

SourceCreated(w, c, ok) ==
    LET p == Done(w, c) IN IF ok THEN SourceSelected(Again(Close(p, "createSource")), c.row) ELSE p

SourceSaved(w, c, ok) == LET p == Done(w, c) IN IF ok THEN Again(p) ELSE p

(* A report is shown under whichever source is selected when it comes.     *)
SourceReported(p, c, got) == [p EXCEPT !.preview = [of |-> c.of, row |-> c.row, rows |-> got]]

SourcePreviewed(w, c, ok, got) ==
    LET p == Again(Done(w, c)) IN IF ok THEN SourceReported(p, c, got) ELSE p

SourceCommitted(w, c, ok, got) ==
    LET p == Again(Done(w, c)) IN IF ok THEN SourceReported(p, c, got) ELSE p

SourceForm(p) ==
    IF "createSource" \in p.forms
    THEN {Close(p, "createSource")} \cup
         If(Idle(p, "createSource"), Offer(p, "createSource", "add", Missing(p)))
    ELSE {Open(p, "createSource")}

SourcesTable(p) ==
    {SourceSelected(p, r) : r \in Shown(p) \ {p.at}} \cup
    If(p.at # Nothing, {SourceSelected(p, Nothing)})

SourceButtons(p) ==
    If(Idle(p, "previewSource"), {Forget(q) : q \in Offer(p, "previewSource", "look", {p.at})})
    \cup If(Idle(p, "previewSource") /\ Idle(p, "commitSource") /\ p.preview # Nothing
            /\ p.at \in With(p, "b"), {Ask(p, "commitSource")})

(* The dialog is gone before the commit goes out.                          *)
SourceCommit(p) ==
    {Dismiss(p)} \cup {Dismiss(q) : q \in Offer(p, "commitSource", "look", {p.at})}

SourceEdit(p) == If(Idle(p, "saveSource"), Offer(p, "saveSource", "change", {p.at}))

SourcesPage(p) ==
    IF p.dialog # Nothing THEN SourceCommit(p)
    ELSE If(p.error, {Again(p)}) \cup SourceForm(p) \cup SourcesTable(p)
         \cup If("source" \in p.forms /\ p.at \in Shown(p), SourceButtons(p) \cup SourceEdit(p))

-----------------------------------------------------------------------------
(* AuditLogTable.  The topic is the filters and the page; entries can be   *)
(* unfolded.                                                               *)

AuditLoads == {"guarded", "clears"}

AuditTyping(p) == Types(p)

EntryUnfolded(p, r) ==
    IF r \in p.forms THEN Close(p, r) ELSE Open(p, r)

(* The search that is still pending is not cleared.                        *)
AuditClear(p) == [p EXCEPT !.topic = Whole]

AuditFilters(p) == AuditTyping(p) \cup Turns(p)

AuditTable(p) ==
    IF p.error THEN {Again(p)}
    ELSE If(Settled(p) /\ Shown(p) = {} /\ p.topic # Whole, {AuditClear(p)})
         \cup If(Settled(p), {EntryUnfolded(p, r) : r \in Shown(p)})

AuditPages(p) == If(Settled(p) /\ Shown(p) # {}, Turns(p))

AuditPage(p) == AuditFilters(p) \cup Elapses(p) \cup AuditTable(p) \cup AuditPages(p)

-----------------------------------------------------------------------------
(* DeadLettersTab.  A retry takes the event off the list.                  *)

DeadLettersLoads == {"guarded", "clears"}

LetterRetried(w, c, ok) == LET p == Done(w, c) IN IF ok THEN Again(p) ELSE p

DeadLettersFilter(p) == Turns(p)

DeadLettersTable(p) ==
    IF p.error THEN {Again(p)}
    ELSE If(Settled(p) /\ Idle(p, "retryLetter"), Offer(p, "retryLetter", "remove", Shown(p)))

DeadLettersPages(p) == If(Settled(p) /\ Shown(p) # {}, Turns(p))

DeadLettersPage(p) == DeadLettersFilter(p) \cup DeadLettersTable(p) \cup DeadLettersPages(p)

-----------------------------------------------------------------------------
(* ConnectorsListPage.  The topic is the organization; at is the tab.      *)

ConnectorsLoads == {"guarded", "clears"}

ConnectorsFailed(p) == If(p.error, {Again(p)})

ConnectorsOrganization(p) == Turns(p)

ConnectorsTab(p) == {[p EXCEPT !.at = r] : r \in Rows \ {p.at}}

ConnectorsPage(p) == ConnectorsFailed(p) \cup ConnectorsOrganization(p) \cup ConnectorsTab(p)
-----------------------------------------------------------------------------
(* BusinessRolesPage, and ConflictsSection below its table.                *)

RolesLoads == {"guarded", "clears"}

(* On success the page is left for the role that was created, and shows a  *)
(* fresh list when it is come back to.                                     *)
RoleCreated(w, c, ok) ==
    LET p == Done(w, c) IN IF ok THEN Again(Close(p, "createRole")) ELSE p

RoleForm(p) ==
    IF "createRole" \in p.forms
    THEN If(Idle(p, "createRole"),
            {Close(p, "createRole")} \cup Offer(p, "createRole", "add", Missing(p)))
    ELSE {Open(p, "createRole")}

RolesTable(p) == If(p.error, {Again(p)})

RolesListPage(p) == RoleForm(p) \cup RolesTable(p)

ConflictsLoads == {"clears"}

ConflictCreated(w, c, ok) ==
    LET p == Done(w, c) IN IF ok THEN Again(Close(p, "createConflict")) ELSE p

ConflictSwitched(w, c, ok) ==
    LET p == [Done(w, c) EXCEPT !.at = Nothing] IN IF ok THEN Again(p) ELSE p

ConflictForm(p) ==
    IF "createConflict" \in p.forms
    THEN If(Idle(p, "createConflict"),
            {Close(p, "createConflict")} \cup Offer(p, "createConflict", "add", Missing(p)))
    ELSE {Open(p, "createConflict")}

ConflictsTable(p) == Clicks(p, "switchConflict", "change")

ConflictsPage(p) == ConflictForm(p) \cup ConflictsTable(p)

-----------------------------------------------------------------------------
(* BusinessRoleDetailPage.  A row is a draft of the role's: "a" one that   *)
(* waits for its simulation, "b" one that has been simulated, "absent"     *)
(* none.  The form "definition" is open while the editor differs from it.  *)

RoleDetailLoads == {"guarded", "clears", "forgets"}

(* The editor shows what was loaded, and the report is gone.               *)
Reseeded(p) == Close(p, "definition")
RoleLoaded(p) == Forget(Reseeded(p))

DraftState(p, r) ==
    CASE p.rows[r] = "absent" -> "none"
      [] p.rows[r] = "a" -> "pending-simulation"
      [] p.rows[r] = "b" -> "ready-to-publish"

DraftSaved(w, c, ok, got) ==
    LET p == Done(w, c) IN IF ok THEN RoleLoaded(Replace(p, c, got)) ELSE p

(* What was edited while the simulation ran is gone with its answer.       *)
RoleSimulated(w, c, ok, got) ==
    LET p == Done(w, c)
    IN IF ok THEN [Reseeded(Replace(p, c, got)) EXCEPT !.preview = c.of] ELSE p

(* A refusal has the role read again; no answer at all does not.           *)
RolePublished(w, c, ok, got) ==
    LET p == Done(w, c)
    IN IF ok THEN RoleLoaded(Replace(p, c, got)) ELSE IF got = "lost" THEN p ELSE Again(p)

RequestableToggled(w, c, ok) == Done(w, c)

RoleEnabled(w, c, ok, got) ==
    LET p == Done(w, c) IN IF ok THEN Reseeded(Replace(p, c, got)) ELSE p

RoleDisabled(w, c, ok, got) ==
    LET p == Done(w, c) IN IF ok THEN Dismiss(Reseeded(Replace(p, c, got))) ELSE Threw(p)

RoleReadable(p) == Loaded(p) /\ ~p.loading

RoleHeader(p) ==
    LET drafts(state) == {r \in Rows : DraftState(p, r) = state}
        dirty == "definition" \in p.forms
    IN If(~dirty /\ Idle(p, "simulateRole"),
          Offer(p, "simulateRole", "mark", drafts("pending-simulation")))
       \cup If(~dirty /\ Idle(p, "publishRole"),
               Offer(p, "publishRole", "remove", drafts("ready-to-publish")))
       \cup If(Idle(p, "enableRole"), Offer(p, "enableRole", "look", {Nothing}))
       \cup If(Idle(p, "toggleRequestable"), Offer(p, "toggleRequestable", "look", {Nothing}))
       \cup {Ask(p, "disableRole")}

DisableDialog(p) == Dismissal(p) \cup Confirmation(p, "disableRole", "look", {Nothing})

DefinitionTab(p) ==
    IF "definition" \in p.forms
    THEN If(Idle(p, "saveDraft"), {Reseeded(p)} \cup Offer(p, "saveDraft", "put", Rows))
    ELSE {Open(p, "definition")}

RoleDetailPage(p) ==
    If(RoleReadable(p),
       IF p.dialog # Nothing THEN DisableDialog(p) ELSE RoleHeader(p) \cup DefinitionTab(p))

-----------------------------------------------------------------------------
(* BusinessRoleExceptionsTab: its changes have the whole role read again.  *)

ExceptionAdded(w, c, ok) ==
    LET p == Done(w, c) IN IF ok THEN Again(Close(p, "addException")) ELSE p

ExceptionRemoved(w, c, ok) ==
    LET p == [Done(w, c) EXCEPT !.at = Nothing] IN IF ok THEN Again(p) ELSE p

ExceptionForm(p) ==
    IF "addException" \in p.forms
    THEN If(Idle(p, "addException"),
            {Close(p, "addException")} \cup Offer(p, "addException", "add", Missing(p)))
    ELSE {Open(p, "addException")}

ExceptionsTable(p) == Clicks(p, "removeException", "remove")

(* While the role is read again, the skeleton stands in place of the tabs. *)
ExceptionsPage(p) == If(RoleReadable(p), ExceptionForm(p) \cup ExceptionsTable(p))

-----------------------------------------------------------------------------
(* AttributeDefinitionsPage.  The topic is whose attributes they are; one  *)
(* form is open at a time.  "b" is a definition that has been deactivated. *)

AttributesLoads == {"guarded", "clears"}

(* Submitting is over for the page, if not for the service.                *)
CloseForms(p) == [p EXCEPT !.forms = {}, !.busy = {c \in @ : c.op = "toggleAttribute"}]

ScopeActivated(p) == {CloseForms(q) : q \in Turns(p)}

StartOnly(p, f) == [p EXCEPT !.forms = {f}]

AttributeStarts(p) ==
    {StartOnly(p, f) : f \in {"editAttribute", "migrateAttribute"} \ p.forms}
    \cup If(p.forms \cap {"createAttribute", "editAttribute"} = {}, {StartOnly(p, "createAttribute")})

(* The answer closes whichever form is open by then.                       *)
AttributeSubmitted(w, c, ok) ==
    LET p == Done(w, c) IN IF ok THEN Again(CloseForms(p)) ELSE p

AttributeToggled(w, c, ok) ==
    LET p == [Done(w, c) EXCEPT !.at = Nothing] IN IF ok THEN Again(p) ELSE p

AttributeForm(p) ==
    LET idle == \A c \in p.busy : c.op \notin {"createAttribute", "editAttribute"}
    IN If(idle /\ "createAttribute" \in p.forms,
          {CloseForms(p)} \cup Offer(p, "createAttribute", "add", Missing(p)))
       \cup If(idle /\ "editAttribute" \in p.forms,
               {CloseForms(p)} \cup Offer(p, "editAttribute", "change", Shown(p)))

MigrationPanel(p) ==
    If("migrateAttribute" \in p.forms, {CloseForms(p), Again(CloseForms(p))})

AttributesTable(p) ==
    IF p.error THEN {Again(p)}
    ELSE If(Settled(p), Clicks(p, "toggleAttribute", "change"))

AttributesPage(p) ==
    ScopeActivated(p) \cup AttributeStarts(p) \cup AttributeForm(p) \cup MigrationPanel(p)
    \cup AttributesTable(p)

-----------------------------------------------------------------------------
(* AttributeMigrationPanel.  The topic is the new type chosen; at is       *)
(* "done" when the migration has been committed.                           *)

MigrationLoads == {"none"}

ChooseDataType(p, s) == [Forget(p) EXCEPT !.topic = s, !.busy = {}]

(* The answer is shown for whichever type is chosen by then; the service   *)
(* refuses a commit whose hash is not of the type it names.                *)
MigrationPreviewed(w, c, ok, got) ==
    [Done(w, c) EXCEPT !.preview = IF ok THEN [of |-> c.of, rows |-> got] ELSE Nothing]

MigrationCommitted(w, c, ok) ==
    LET p == Done(w, c) IN IF ok THEN [p EXCEPT !.at = "done"] ELSE p

MigrationChoices(p) ==
    If(p.at # "done",
       {ChooseDataType(p, s) : s \in Topics} \cup
       If(Idle(p, "previewMigration"),
          {Forget(q) : q \in Offer(p, "previewMigration", "look", {Nothing})}))

MigrationReport(p) ==
    If(p.preview # Nothing /\ p.at # "done" /\ Idle(p, "commitMigration"),
       Offer(p, "commitMigration", "look", {Nothing}))

MigrationPage(p) == MigrationChoices(p) \cup MigrationReport(p)

-----------------------------------------------------------------------------
(* RecertCampaignDetailPage.  "a" is an item still to be decided.          *)

CampaignLoads == {"guarded", "clears"}

CampaignOpened(w, c, ok, got) == LET p == Done(w, c) IN IF ok THEN Replace(p, c, got) ELSE p

CampaignClosed(w, c, ok) == LET p == Done(w, c) IN IF ok THEN Again(p) ELSE p

ItemDecided(w, c, ok) == LET p == Done(w, c) IN IF ok THEN Again(p) ELSE p

CampaignFailed(p) == If(p.error, {Again(p)})

(* A campaign without items is the draft of one.                           *)
CampaignHeader(p) ==
    If(Loaded(p) /\ ~p.error /\ Idle(p, "openCampaign") /\ Idle(p, "closeCampaign"),
       IF Shown(p) = {} THEN Offer(p, "openCampaign", "put", Rows)
       ELSE Offer(p, "closeCampaign", "look", {Nothing}))

CampaignItems(p) ==
    If(~p.error /\ Idle(p, "decideItem"), Offer(p, "decideItem", "change", With(p, "a")))

CampaignPage(p) == CampaignFailed(p) \cup CampaignHeader(p) \cup CampaignItems(p)

-----------------------------------------------------------------------------
(* CatalogueSection: the roles one can ask for; a row is one's request.    *)

CatalogueLoads == {"clears"}

RequestSubmitted(w, c, ok) ==
    LET p == Done(w, c) IN IF ok THEN Again(Close(p, "request")) ELSE p

RequestCancelled(w, c, ok) ==
    LET p == [Done(w, c) EXCEPT !.at = Nothing] IN IF ok THEN Again(p) ELSE p

RequestForm(p) ==
    IF "request" \in p.forms
    THEN {Close(p, "request")} \cup
         If(Idle(p, "request"), Offer(p, "request", "add", Missing(p)))
    ELSE {Open(p, "request")}

RequestsTable(p) == Clicks(p, "cancelRequest", "remove")

CataloguePage(p) == If(Loaded(p) /\ ~p.error, RequestForm(p) \cup RequestsTable(p))
=============================================================================
