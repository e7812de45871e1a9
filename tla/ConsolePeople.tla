---------------------------- MODULE ConsolePeople ----------------------------
(***************************************************************************)
(* The pages of the console about people, units, organizations, groups,    *)
(* imports and reviews.  Of each page: how it loads, what can be done in   *)
(* each of its parts (the set of the states the page may be in next), and  *)
(* what its handlers do with the answer to a command.  A load is "guarded" *)
(* when it drops the answers of earlier ones, "clears" the error before,   *)
(* "wipes" the rows for a skeleton, which "unmounts" the forms it stands   *)
(* in place of, "drops" the rows when it fails; it is "asked" for when the *)
(* page does not follow its topic, and there is "none" on some pages.      *)
(***************************************************************************)
EXTENDS ConsoleState

-----------------------------------------------------------------------------
(* PeopleListPage.  The topic is the query: search, filters, offset and    *)
(* organization.                                                           *)

(* Mutant of PeopleLoads: the answer to the query before comes through.    *)
PeopleLoadsLate == {"clears"}

PeopleLoads == {"guarded", "clears"}

PeopleTyping(p) == Types(p)

PeopleQuery(p, s) == [p EXCEPT !.topic = s]

(* The search that is still pending is not cleared.                        *)
PeopleClear(p) == PeopleQuery(p, Whole)

PeopleFilters(p) == PeopleTyping(p) \cup {PeopleQuery(p, s) : s \in Topics \ {p.topic}}

PeopleTable(p) ==
    If(p.error, {Again(p)}) \cup
    If(Settled(p) /\ Shown(p) = {} /\ p.topic # Whole, {PeopleClear(p)})

PeoplePages(p) ==
    If(Settled(p) /\ Shown(p) # {}, {PeopleQuery(p, s) : s \in Topics \ {p.topic}})

PeoplePage(p) == PeopleFilters(p) \cup Elapses(p) \cup PeopleTable(p) \cup PeoplePages(p)

-----------------------------------------------------------------------------
(* PersonDetailPage.  The page of another person is the same page with     *)
(* another id; the person before stays on it until the load arrives.       *)

PersonLoads == {"guarded", "clears"}

PersonReadable(p) == ~p.error /\ Loaded(p)

PersonTransferred(w, c, ok, got) ==
    LET p == Done(w, c) IN IF ok THEN Dismiss(Replace(p, c, got)) ELSE p

(* Mutant of PersonDeactivated: a refusal is swallowed.                    *)
PersonDeactivatedQuietly(w, c, ok, got) ==
    LET p == Done(w, c) IN IF ok THEN Dismiss(Replace(p, c, got)) ELSE p

PersonDeactivated(w, c, ok, got) ==
    LET p == Done(w, c) IN IF ok THEN Dismiss(Replace(p, c, got)) ELSE Threw(p)

PersonActivated(w, c, ok, got) ==
    LET p == Done(w, c) IN IF ok THEN Dismiss(Replace(p, c, got)) ELSE Threw(p)

(* Of one person, the first row; "b" is one who may be activated.          *)
PersonHeader(p) ==
    If(p.dialog = Nothing,
       {Ask(p, "transferPerson")} \cup
       If(With(p, "b") # {}, {Ask(p, "activatePerson")}) \cup
       If(With(p, "a") # {}, {Ask(p, "deactivatePerson")}))

(* Moving without having chosen a unit returns before anything is sent.    *)
PersonDialogs(p) ==
    Dismissal(p)
    \cup Confirmation(p, "transferPerson", "change", Shown(p))
    \cup If(p.dialog = "transferPerson" /\ ~p.held, {Confirmed(p)})
    \cup Confirmation(p, "activatePerson", "change", With(p, "b"))
    \cup Confirmation(p, "deactivatePerson", "change", With(p, "a"))

(* The profile links to the person's manager.                              *)
PersonProfile(p) == If(p.dialog = Nothing, Turns(p))

PersonPage(p) ==
    If(PersonReadable(p), PersonHeader(p) \cup PersonDialogs(p) \cup PersonProfile(p))

-----------------------------------------------------------------------------
(* PersonRolesTab and the tabs of GroupDetailPage.  Their loads are not    *)
(* guarded, and a handler reads again whom it was given for.               *)

RolesTabLoads == {"wipes", "unmounts", "clears", "drops"}

GrantForm(p) ==
    If("grantRole" \in p.forms /\ Idle(p, "grantRole"),
       {Close(p, "grantRole")} \cup Offer(p, "grantRole", "add", Missing(p)))

(* The form is gone with the skeleton that a load shows; its answer is not.*)
RoleGranted(w, c, ok) ==
    LET p == Done(w, c) IN IF ok THEN AgainOf(Close(p, "grantRole"), c.of) ELSE p

RoleRevoked(w, c, ok) ==
    LET p == Done(w, c) IN IF ok THEN AgainOf(Dismiss(p), c.of) ELSE Threw(p)

RolesTab(p) ==
    If(p.dialog = Nothing,
       {[Ask(p, "revokeRole") EXCEPT !.at = r] : r \in Shown(p)} \cup {Open(p, "grantRole")})
    \cup Dismissal(p) \cup Confirmation(p, "revokeRole", "remove", {p.at} \cap Rows)

(* The tab is about the person of the page's address.                      *)
RolesPage(p) ==
    If(Settled(p), GrantForm(p) \cup RolesTab(p)) \cup If(p.dialog = Nothing, Turns(p))

MembersLoads == {"wipes", "unmounts", "clears", "drops"}

AddMemberForm(p) ==
    If("addMember" \in p.forms /\ Idle(p, "addMember"),
       {Close(p, "addMember")} \cup Offer(p, "addMember", "add", Missing(p)))

MemberList(p) == Clicks(p, "removeMember", "remove")

MemberRemoved(w, c, ok) ==
    LET p == [Done(w, c) EXCEPT !.at = Nothing] IN IF ok THEN AgainOf(p, c.of) ELSE p

MemberAdded(w, c, ok) ==
    LET p == Done(w, c) IN IF ok THEN AgainOf(Close(p, "addMember"), c.of) ELSE p

MembersPage(p) ==
    If(Settled(p), MemberList(p) \cup AddMemberForm(p) \cup {Open(p, "addMember")}) \cup Turns(p)

NestedLoads == {"wipes", "clears", "drops"}

(* A group that was nested leaves the form waiting, and the form's waiting *)
(* outlives the skeleton.                                                  *)
GroupNested(p, c, ok) ==
    IF ok THEN AgainOf(Close(p, "nestGroup"), c.of) ELSE Done(p, c)

GroupUnnested(w, c, ok) ==
    LET p == [Done(w, c) EXCEPT !.at = Nothing] IN IF ok THEN AgainOf(p, c.of) ELSE p

NestForm(p) ==
    {Open(p, "nestGroup")} \cup
    If("nestGroup" \in p.forms /\ Idle(p, "nestGroup"),
       {Close(p, "nestGroup")} \cup Offer(p, "nestGroup", "add", Missing(p)))

ChildGroups(p) == Clicks(p, "unnestGroup", "remove")

NestedPage(p) == If(Settled(p), ChildGroups(p) \cup NestForm(p)) \cup Turns(p)

(* GroupDetailPage itself: the group before stays until the load arrives.  *)
GroupLoads == {"guarded", "clears"}

GroupPage(p) == If(~p.error /\ Loaded(p), Turns(p))

-----------------------------------------------------------------------------
(* OrgUnitsPage.  The topic is the organization selected, the rows are the *)
(* units of its tree; one unit is selected.                                *)

UnitsLoads == {"guarded", "drops"}

(* The list on hand takes in a unit, whatever organization it belongs to.  *)
AddOrgUnit(p, c) == IF p.error THEN p ELSE Patched(p, c)

OrganizationSwitch(p) == {Select(q, Nothing) : q \in Turns(p)}

UnitCreated(p, c) == Select(AddOrgUnit(p, c), c.row)

CreateUnitAnswered(w, c, ok) ==
    LET p == Done(w, c) IN IF ok THEN UnitCreated(Close(p, "createUnit"), c) ELSE p

(* A rename whose pane is gone still has the list read again.              *)
UnitRenamed(w, c, ok) ==
    LET p == Done(w, c) IN IF ok THEN Again(Close(p, "renameUnit")) ELSE p

UnitDeleted(p) == Again(Select(p, Nothing))

DeleteUnitAnswered(w, c, ok) ==
    LET p == Dismiss(Done(w, c)) IN IF ok THEN UnitDeleted(p) ELSE p

CreateUnitForm(p) ==
    If("createUnit" \in p.forms /\ Idle(p, "createUnit"),
       {Close(p, "createUnit")} \cup Offer(p, "createUnit", "add", Missing(p)))

UnitTree(p) == {Select(p, r) : r \in Shown(p) \ {p.at}}

UnitHeading(p) == {Open(p, "renameUnit"), Ask(p, "deleteUnit")}

RenameForm(p) ==
    If("renameUnit" \in p.forms /\ Idle(p, "renameUnit"),
       {Close(p, "renameUnit")} \cup Offer(p, "renameUnit", "change", {p.at}))

DeleteUnitDialog(p) == Dismissal(p) \cup Confirmation(p, "deleteUnit", "remove", {p.at})

UnitChildren(p) == {Open(p, "createUnit")} \cup CreateUnitForm(p)

UnitsPage(p) ==
    IF p.dialog # Nothing THEN DeleteUnitDialog(p)
    ELSE OrganizationSwitch(p) \cup If(~p.error, UnitTree(p))
         \cup If(~p.error /\ p.at \in Shown(p), UnitHeading(p) \cup RenameForm(p) \cup UnitChildren(p))

-----------------------------------------------------------------------------
(* OrganizationsPage.  "a" is an active organization, "b" a suspended one. *)
(* The list is read again by the handlers, whose loads are not guarded.    *)

OrganizationsLoads == {}

OrganizationCreated(w, c, ok) ==
    LET p == Done(w, c) IN IF ok THEN Again(Close(p, "createOrganization")) ELSE p

OrganizationToggled(w, c, ok) ==
    LET p == [Done(w, c) EXCEPT !.at = Nothing] IN IF ok THEN Again(p) ELSE p

OrganizationForm(p) ==
    IF "createOrganization" \in p.forms
    THEN {Close(p, "createOrganization")} \cup
         If(Idle(p, "createOrganization"), Offer(p, "createOrganization", "add", Missing(p)))
    ELSE {Open(p, "createOrganization")}

OrganizationTable(p) == Clicks(p, "toggleOrganization", "change")

OrganizationsPage(p) == OrganizationForm(p) \cup OrganizationTable(p)

-----------------------------------------------------------------------------
(* RecertificationPage: what waits for one's decision, and the campaigns.  *)

ReviewsLoads == {"guarded", "clears"}

ReviewDecided(w, c, ok) == LET p == Done(w, c) IN IF ok THEN Patched(p, c) ELSE p

ReviewsTable(p) ==
    IF p.error THEN {Again(p)}
    ELSE If(Idle(p, "decide"), Offer(p, "decide", "remove", Shown(p)))

CampaignsLoads == {"guarded", "clears"}

(* The page is left for the campaign that was created.                     *)
CampaignCreated(w, c, ok) ==
    LET p == Done(w, c) IN IF ok THEN Again(Close(p, "createCampaign")) ELSE p

CampaignForm(p) ==
    IF "createCampaign" \in p.forms
    THEN If(Idle(p, "createCampaign"),
            {Close(p, "createCampaign")} \cup Offer(p, "createCampaign", "add", Missing(p)))
    ELSE {Open(p, "createCampaign")}

CampaignsTable(p) == If(p.error, {Again(p)})

-----------------------------------------------------------------------------
(* ImportPage.  The topic is the file chosen; what is previewed is kept    *)
(* with the file it was asked for.                                         *)

ImportLoads == {"none"}

FileChosen(p, s) == [Forget(p) EXCEPT !.topic = s, !.at = Nothing, !.busy = {}]

(* Whichever file has been chosen meanwhile.                               *)
ImportPreviewed(w, c, ok, got) ==
    [Done(w, c) EXCEPT !.preview = IF ok THEN [of |-> c.of, rows |-> got] ELSE Nothing]

ImportCommitted(w, c, ok) == [Done(w, c) EXCEPT !.at = IF ok THEN "done" ELSE Nothing]

ImportStartOver(p) == FileChosen(p, p.topic)

ImportUpload(p) ==
    If(p.at # "done",
       {FileChosen(p, s) : s \in Topics \ {p.topic}} \cup
       If(Idle(p, "previewImport"),
          {Forget(q) : q \in Offer(p, "previewImport", "look", {Nothing})}))

ImportPreview(p) ==
    If(p.preview # Nothing /\ p.at # "done" /\ Idle(p, "commitImport"),
       {ImportStartOver(p)} \cup Offer(p, "commitImport", "put", Rows))

ImportResult(p) == If(p.at = "done", {ImportStartOver(p)})

ImportPage(p) == ImportUpload(p) \cup ImportPreview(p) \cup ImportResult(p)

-----------------------------------------------------------------------------
(* Combobox: a search field with its list of options.  The topic is what   *)
(* was typed; Whole is too short to be searched for.                       *)

ComboboxLoads == {"guarded", "clears", "asked"}

ComboboxEmptied(p) ==
    Stop([p EXCEPT !.forms = {}, !.rows = Nothing, !.pending = Nothing, !.loading = FALSE])

(* What is typed is searched for later; the answer to what was typed       *)
(* before, when it comes meanwhile, is taken for it.                       *)
ComboboxTyped(p, s) ==
    IF s = Whole THEN ComboboxEmptied([p EXCEPT !.topic = s])
    ELSE [Open(p, "options") EXCEPT !.topic = s, !.pending = s, !.loading = TRUE]

ComboboxSearch(p) == AgainOf([p EXCEPT !.pending = Nothing], p.pending)

ComboboxOpened(p) == If(p.topic # Whole /\ p.forms = {}, {Again(Open(p, "options"))})

ComboboxChosen(p, r) == [ComboboxEmptied(p) EXCEPT !.at = r]

ComboboxLeft(p) == ComboboxEmptied(p)

(* Clearing leaves the search under way and the one that is pending.       *)
ComboboxCleared(p) ==
    [p EXCEPT !.topic = Whole, !.at = Nothing, !.forms = {}, !.rows = Nothing]

ComboboxKeys(p) ==
    ComboboxOpened(p) \cup {ComboboxLeft(p)} \cup
    If("options" \in p.forms, {ComboboxChosen(p, r) : r \in Shown(p)})

ComboboxPage(p) ==
    {ComboboxTyped(p, s) : s \in Topics} \cup ComboboxKeys(p) \cup {ComboboxCleared(p)}
    \cup If(p.pending # Nothing, {ComboboxSearch(p)})

-----------------------------------------------------------------------------
(* SelfServicePage: one's own profile.                                     *)

SelfLoads == {"guarded", "clears"}

SelfSaved(w, c, ok, got) == LET p == Done(w, c) IN IF ok THEN Replace(p, c, got) ELSE p

SelfForm(p) == If(~p.error /\ Idle(p, "saveProfile"), Offer(p, "saveProfile", "change", Shown(p)))
=============================================================================
