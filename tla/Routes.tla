------------------------------- MODULE Routes -------------------------------
(***************************************************************************)
(* The routes of the controllers and the roles they name, in the order in  *)
(* which the framework registers them: the modules as their imports are    *)
(* scanned, the handlers of a controller as they are declared.  The first  *)
(* route that matches a request takes it.                                  *)
(***************************************************************************)
EXTENDS Naturals, Sequences, SequencesExt

-----------------------------------------------------------------------------
(* Roles. *)

OPERATIONAL_ROLES == {"LOGISTICS_MANAGER", "LOGISTICS_EXECUTIVE", "ACCOUNTS_EXECUTIVE", "QC"}
SALES_MODULE_ROLES ==
  {"SUPERADMIN", "SALES_MANAGER", "SALES_AGENT", "CUSTOMER_SERVICE_AGENT", "MARKETING_ANALYST"}
UserRole == OPERATIONAL_ROLES \cup SALES_MODULE_ROLES

Admin == {"SUPERADMIN"}
REASSIGN_ROLES == {"SUPERADMIN", "SALES_MANAGER"}
PIPELINE_MOVE_ROLES == {"SUPERADMIN", "SALES_MANAGER"}
STAGE_ROLES == {"SUPERADMIN", "SALES_MANAGER"}

QC_ROLES == {"QC", "SUPERADMIN"}
SHIPMENT_ROLES == {"LOGISTICS_MANAGER", "LOGISTICS_EXECUTIVE", "SUPERADMIN"}
MANAGER_ROLES == {"LOGISTICS_MANAGER", "SUPERADMIN"}
RESUBMIT_ROLES == {"SALES_MANAGER", "SUPERADMIN"}
DELIVERY_DATE_ROLES == {"SALES_AGENT", "SALES_MANAGER", "SUPERADMIN"}
DELIVERY_DATE_CORRECTION_ROLES == {"LOGISTICS_MANAGER", "LOGISTICS_EXECUTIVE", "SUPERADMIN"}
EXPORT_ROLES == SHIPMENT_ROLES
LOGISTICS_READ_ROLES ==
  SALES_MODULE_ROLES \cup {"LOGISTICS_MANAGER", "LOGISTICS_EXECUTIVE", "QC", "ACCOUNTS_EXECUTIVE"}
ACCOUNTS_READ_ROLES == {"ACCOUNTS_EXECUTIVE", "SUPERADMIN"}
ACCOUNTS_MOVE_ROLES == {"ACCOUNTS_EXECUTIVE", "SUPERADMIN"}
ACCOUNTS_CORRECTION_ROLES == {"SUPERADMIN"}

-----------------------------------------------------------------------------
(* Routes. *)

NoRoles == {}   \* none named
Public == {"PUBLIC"}

Route(verb, path) == [verb |-> verb, path |-> path, roles |-> NoRoles]
Get(path) == Route("GET", path)
Post(path) == Route("POST", path)
Put(path) == Route("PUT", path)
Patch(path) == Route("PATCH", path)
Delete(path) == Route("DELETE", path)
By(roles, route) == [route EXCEPT !.roles = roles]

\* The decorator of a handler overrides that of its class.
Controller(base, class, routes) ==
  [i \in DOMAIN routes |->
     [routes[i] EXCEPT !.path = base \o @, !.roles = IF @ = NoRoles THEN class ELSE @]]

ById == <<":id">>
Editable == <<Get(<<>>), Post(<<>>), Patch(ById), Delete(ById)>>

AppController == Controller(<<>>, Public, <<Get(<<>>)>>)
HealthController == Controller(<<"health">>, Public, <<Get(<<>>)>>)

AuthController ==
  Controller(<<"auth">>, Public,
    <<Post(<<"login">>), Post(<<"refresh">>), Post(<<"logout">>), Post(<<"forgot-password">>),
      Post(<<"reset-password">>)>>)

UsersController ==
  Controller(<<"users">>, Admin,
    <<Get(<<>>), Get(<<"roles">>), Get(<<"lead-forms">>), Get(<<"permission-catalog">>),
      Get(ById), Post(<<>>), Post(<<":id", "avatar">>), Patch(ById), Patch(<<":id", "password">>),
      Delete(ById)>>)

TeamsController ==
  Controller(<<"teams">>, Admin,
    <<Get(<<>>), Post(<<>>), Post(<<"rename">>), Post(<<"assign">>)>>)

MovableTree == <<Get(<<>>), Post(<<>>), Patch(ById), Patch(<<":id", "move">>), Delete(ById)>>
RolesController == Controller(<<"roles">>, Admin, MovableTree)
CategoriesController == Controller(<<"categories">>, Admin, MovableTree)

LeadSourcesController == Controller(<<"lead-sources">>, Admin, Editable)
MessageTemplatesController == Controller(<<"message-templates">>, Admin, Editable)

PipelinesController ==
  Controller(<<"pipelines">>, Admin,
    <<Get(<<>>), Post(<<>>), Patch(<<":id", "default">>), Patch(ById), Delete(ById)>>)

StagesController ==
  Controller(<<"stages">>, NoRoles,
    <<Get(<<>>), By(STAGE_ROLES, Post(<<>>)), By(STAGE_ROLES, Patch(<<"reorder">>)),
      By(STAGE_ROLES, Patch(ById)), By(STAGE_ROLES, Delete(ById))>>)

AssignmentRulesController ==
  Controller(<<"assignment-rules">>, Admin,
    <<Get(<<>>), Get(ById), Post(<<>>), Patch(ById), Delete(ById)>>)

TagsController ==
  Controller(<<"tags">>, Admin,
    <<Get(<<>>), By(SALES_MODULE_ROLES, Post(<<>>)), Patch(ById), Delete(ById)>>)

TagAccessController ==
  Controller(<<"tag-access">>, Admin,
    <<By(SALES_MODULE_ROLES, Get(<<"me">>)), Get(<<>>), Put(<<"teams">>), Delete(<<"teams">>),
      Put(<<"users", ":userId">>), Delete(<<"users", ":userId">>)>>)

LeadFormsController ==
  Controller(<<"lead-forms">>, Admin,
    <<Get(<<>>), By(SALES_MODULE_ROLES, Get(<<"default">>)), Get(<<"fields">>), Get(ById),
      Post(<<>>), Patch(ById), Delete(ById)>>)

LeadCustomFieldsController ==
  Controller(<<"lead-custom-fields">>, NoRoles,
    <<Get(<<>>), By(Admin, Get(<<"page">>)), Post(<<>>), By(Admin, Patch(ById)),
      By(Admin, Delete(ById))>>)

IntegrationsController ==
  Controller(<<"integrations">>, NoRoles, <<Get(<<>>), By(Admin, Patch(ById))>>)

LookupsController == Controller(<<"lookups">>, NoRoles, <<Get(<<":type">>)>>)

\* A screen of settings is read and saved whole.
Screen(path) == <<Get(path), Put(path)>>

SettingsController ==
  Controller(<<"settings">>, Admin,
    Screen(<<"organization", "general">>) \o Screen(<<"organization", "company-details">>)
    \o <<Get(<<"organization", "host-mapping">>),
         Post(<<"organization", "host-mapping", "domains">>),
         Delete(<<"organization", "host-mapping", "domains", ":id">>)>>
    \o Screen(<<"communication", "alerts">>) \o Screen(<<"assignment", "general">>)
    \o Screen(<<"call-tracking", "general">>)
    \o <<Get(<<"call-tracking", "call-statuses">>),
         Patch(<<"call-tracking", "call-statuses", ":providerStatus">>)>>)

PolicyController ==
  Controller(<<"settings">>, Admin,
    Screen(<<"activity-reminders", "general">>)
    \o <<Get(<<"activity-reminders", "follow-up-types">>),
         Post(<<"activity-reminders", "follow-up-types">>),
         Patch(<<"activity-reminders", "follow-up-types", ":id">>),
         Delete(<<"activity-reminders", "follow-up-types", ":id">>),
         By(SALES_MODULE_ROLES, Get(<<"activity-reminders", "workflow">>))>>
    \o Screen(<<"sales-crm", "duplicate">>) \o Screen(<<"sales-crm", "general">>)
    \o Screen(<<"application-controls", "general">>)
    \o <<Get(<<"application-controls", "dashboard">>),
         Get(<<"application-controls", "dashboard", "fields">>),
         Put(<<"application-controls", "dashboard">>)>>)

LoginPolicyController ==
  Controller(<<"settings", "application-controls">>, Public, <<Get(<<"login-policy">>)>>)

LeadsBoardController == Controller(<<"leads", "board">>, NoRoles, <<Get(<<>>)>>)
LeadStageController == Controller(<<"leads">>, NoRoles, <<Patch(<<":id", "stage">>)>>)

LeadsBulkController ==
  Controller(<<"leads", "bulk">>, NoRoles,
    <<By(REASSIGN_ROLES, Post(<<"reassign">>)), Post(<<"delete">>)>>)

LeadsExportController == Controller(<<"leads", "export">>, NoRoles, <<Get(<<>>)>>)

LeadsImportController ==
  Controller(<<"leads", "import">>, NoRoles,
    <<Get(<<"fields">>), Get(<<"sample">>), Get(<<"history">>), Get(<<":jobId", "errors">>),
      Get(<<":jobId">>), Post(<<"parse">>), Post(<<"validate">>), Post(<<>>)>>)

LeadRowActionsController ==
  Controller(<<"leads">>, NoRoles,
    <<Post(<<":id", "duplicate">>), By(REASSIGN_ROLES, Post(<<":id", "reassign">>)),
      Post(<<":id", "status">>), Post(<<":id", "email">>), Post(<<":id", "notes">>),
      By(PIPELINE_MOVE_ROLES, Post(<<":id", "pipeline">>)), Post(<<":id", "archive">>),
      Post(<<":id", "unarchive">>), Delete(ById)>>)

LeadTagsController ==
  Controller(<<"leads">>, NoRoles, <<Post(<<":id", "tags">>), Delete(<<":id", "tags", ":tagId">>)>>)

\* Mutant: GET /leads/:id stands before the paths it would match.
LeadByIdFirst ==
  Controller(<<"leads">>, NoRoles, <<Get(ById), Get(<<"filter-options">>), Get(<<"assignable-agents">>)>>)

LeadsController ==
  Controller(<<"leads">>, NoRoles,
    <<Get(<<"filter-options">>), Get(<<"assignable-agents">>), Get(<<"duplicate-check">>),
      Get(<<>>), Post(<<>>), Post(<<":id", "pin">>), Delete(<<":id", "pin">>),
      Get(<<":id", "edit">>), Put(ById), Get(<<":id", "timeline">>), Get(<<":id", "duplicates">>),
      Get(<<":id", "activities">>), Get(ById)>>)

ActivitiesController ==
  Controller(<<"activities">>, NoRoles,
    <<Get(<<>>), Post(<<>>), Post(<<":id", "duplicate">>), Patch(<<":id", "complete">>), Patch(ById),
      Delete(ById)>>)

CallsController ==
  Controller(<<"calls">>, NoRoles,
    <<Get(<<"summary">>), Get(<<"leaderboard">>), Get(<<"log">>), Get(<<"analytics">>),
      Patch(<<":id", "flag">>)>>)

DocumentsController ==
  Controller(<<"documents">>, SALES_MODULE_ROLES \cup OPERATIONAL_ROLES,
    <<Get(<<>>), Get(ById), Patch(ById), Delete(ById), Post(<<"bulk", "delete">>), Post(<<>>)>>)

AuditEventsController ==
  Controller(<<"audit", "events">>, NoRoles, <<By(LOGISTICS_READ_ROLES, Get(<<>>))>>)
AuditLogController ==
  Controller(<<"audit", "log">>, Admin, <<Get(<<>>), Get(<<"filter-options">>)>>)

LogisticsOrdersController ==
  LET Read(path) == By(LOGISTICS_READ_ROLES, Get(path))
      Move(roles, action) == By(roles, Post(<<":id", action>>))
  IN Controller(<<"logistics", "orders">>, NoRoles,
       <<Read(<<>>), Read(<<"summary">>), Read(<<"delivery-schedule">>), Read(<<"filter-options">>),
         By(EXPORT_ROLES, Get(<<"export">>)), Read(ById),
         Move(QC_ROLES, "qc-verify"), Move(QC_ROLES, "qc-reject"), Move(RESUBMIT_ROLES, "resubmit"),
         Move(SHIPMENT_ROLES, "dispatch"), Move(SHIPMENT_ROLES, "deliver"),
         Move(SHIPMENT_ROLES, "cancel"), Move(MANAGER_ROLES, "rto"), By(MANAGER_ROLES, Patch(ById)),
         By(MANAGER_ROLES, Patch(<<":id", "awb">>)),
         By(DELIVERY_DATE_ROLES, Patch(<<":id", "delivery-date">>)),
         By(DELIVERY_DATE_CORRECTION_ROLES, Patch(<<":id", "delivery-date-correction">>))>>)

AccountsRecordsController ==
  LET Read(path) == By(ACCOUNTS_READ_ROLES, Get(path)) IN
  Controller(<<"accounts", "records">>, NoRoles,
    <<Read(<<>>), Read(<<"summary">>), Read(<<"filter-options">>), Read(ById),
      By(ACCOUNTS_MOVE_ROLES, Post(<<":id", "status">>)),
      By(ACCOUNTS_CORRECTION_ROLES, Post(<<":id", "correction">>))>>)

DashboardController ==
  Controller(<<"dashboard">>, NoRoles,
    <<Get(<<"kpis">>), Get(<<"summary">>), Get(<<"team-revenue">>), Get(<<"leaderboard">>),
      Get(<<"call-activity">>), Get(<<"hot-leads">>), Get(<<"leads-attention">>),
      Get(<<"activities">>), Get(<<"lead-source-summary">>), Get(<<"leads-conversion">>),
      Get(<<"sales-pipeline">>)>>)

SavedFiltersController == Controller(<<"saved-filters">>, NoRoles, Editable)

ViewPreferencesController ==
  Controller(<<"view-preferences">>, NoRoles,
    Screen(<<"kanban-pins">>) \o Screen(<<"lead-aging-thresholds">>)
    \o Screen(<<"lead-first-response-settings">>) \o Screen(<<":viewKey">>))

\* The reports: a list, and what each has besides.
Report(path, also) ==
  Controller(<<"reports">> \o path, NoRoles, <<Get(<<>>)>> \o [i \in DOMAIN also |-> Get(<<also[i]>>)])

ReportsController == Report(<<"leads", "no-activity">>, <<"summary", "export">>)
TodayLeadsController == Report(<<"leads", "today">>, <<"summary", "export">>)
LeadsByStatusController == Report(<<"leads", "by-status">>, <<"summary", "filter-options", "export">>)
LeadsBySourceController == Report(<<"leads", "by-source">>, <<"summary", "filter-options", "export">>)
LeadsByOwnershipController ==
  Report(<<"leads", "by-ownership">>, <<"summary", "filter-options", "export">>)
ConvertedLeadsController == Report(<<"leads", "converted">>, <<"export">>)
LostLeadsController == Report(<<"leads", "lost">>, <<"summary", "filter-options", "export">>)
LeadAgingController == Report(<<"leads", "aging">>, <<"summary", "export">>)
LeadFirstResponseController == Report(<<"leads", "first-response">>, <<"summary", "export">>)
DuplicateEnquiriesController == Report(<<"leads", "duplicate-enquiries">>, <<"summary">>)
OverdueFollowUpsController ==
  Report(<<"follow-ups", "overdue">>, <<"summary", "filter-options", "export">>)
TodaysFollowUpsController == Report(<<"follow-ups", "today">>, <<"export">>)
UpcomingFollowUpsController == Report(<<"follow-ups", "upcoming">>, <<"export">>)
TeamPerformanceController == Report(<<"team-performance">>, <<"filter-options">>)
SalesFunnelController == Report(<<"sales-funnel">>, <<"export">>)
SalesPipelineController == Report(<<"sales-pipeline">>, <<"export">>)
RevenueController == Report(<<"revenue">>, <<"deals", "export">>)

-----------------------------------------------------------------------------
(* Registration. *)

Module(imports, controllers) == [imports |-> imports, routes |-> FlattenSeq(controllers)]

AppImports ==
  <<"Roles", "Accounts", "Activities", "Categories", "Pipelines", "LeadSources",
    "AssignmentRules", "MessageTemplates", "Tags", "TagAccess", "Audit", "Auth", "Calls",
    "Dashboard", "Documents", "Health", "Integrations", "LeadsBoard", "LeadsBulk", "LeadsExport",
    "LeadsImport", "LeadsRowActions", "LeadsTags", "Logistics", "Leads", "LeadCustomFields",
    "LeadForms", "Lookups", "Reports", "SavedFilters", "Settings", "Stages", "Users",
    "ViewPreferences">>

ReportsControllers ==
  <<ReportsController, TodayLeadsController, LeadsByStatusController, LeadsBySourceController,
    LeadsByOwnershipController, ConvertedLeadsController, LostLeadsController, LeadAgingController,
    LeadFirstResponseController, DuplicateEnquiriesController, OverdueFollowUpsController,
    TodaysFollowUpsController, UpcomingFollowUpsController, TeamPerformanceController,
    SalesFunnelController, SalesPipelineController, RevenueController>>

Modules ==
  [App |-> Module(AppImports, <<AppController>>), Roles |-> Module(<<"Auth">>, <<RolesController>>),
   Auth |-> Module(<<>>, <<AuthController>>),
   Accounts |-> Module(<<>>, <<AccountsRecordsController>>),
   Activities |-> Module(<<"Settings">>, <<ActivitiesController>>),
   Settings |-> Module(<<"Auth">>, <<SettingsController, PolicyController, LoginPolicyController>>),
   Categories |-> Module(<<"Auth">>, <<CategoriesController>>),
   Pipelines |-> Module(<<"Auth">>, <<PipelinesController>>),
   LeadSources |-> Module(<<"Auth">>, <<LeadSourcesController>>),
   AssignmentRules |-> Module(<<"Auth", "Settings">>, <<AssignmentRulesController>>),
   MessageTemplates |-> Module(<<"Auth">>, <<MessageTemplatesController>>),
   Tags |-> Module(<<"TagAccess">>, <<TagsController>>),
   TagAccess |-> Module(<<>>, <<TagAccessController>>),
   Audit |-> Module(<<>>, <<AuditEventsController, AuditLogController>>),
   Calls |-> Module(<<>>, <<CallsController>>),
   Dashboard |-> Module(<<"Settings", "Calls">>, <<DashboardController>>),
   Documents |-> Module(<<>>, <<DocumentsController>>), Health |-> Module(<<>>, <<HealthController>>),
   Integrations |-> Module(<<>>, <<IntegrationsController>>),
   LeadsBoard |-> Module(<<"Stages">>, <<LeadsBoardController, LeadStageController>>),
   Stages |-> Module(<<>>, <<StagesController>>), LeadsBulk |-> Module(<<>>, <<LeadsBulkController>>),
   LeadsExport |-> Module(<<"LeadCustomFields">>, <<LeadsExportController>>),
   LeadCustomFields |-> Module(<<>>, <<LeadCustomFieldsController>>),
   LeadsImport |-> Module(<<"Lookups", "Stages", "Settings">>, <<LeadsImportController>>),
   Lookups |-> Module(<<>>, <<LookupsController>>),
   LeadsRowActions |-> Module(<<"LeadsBulk", "TagAccess">>, <<LeadRowActionsController>>),
   LeadsTags |-> Module(<<"TagAccess">>, <<LeadTagsController>>),
   Logistics |-> Module(<<>>, <<LogisticsOrdersController>>),
   Leads |-> Module(<<"LeadCustomFields", "Settings", "AssignmentRules", "TagAccess">>,
                   <<LeadsController>>),
   LeadForms |-> Module(<<"Auth">>, <<LeadFormsController>>),
   Reports |-> Module(<<"Stages">>, ReportsControllers),
   SavedFilters |-> Module(<<>>, <<SavedFiltersController>>),
   Users |-> Module(<<>>, <<UsersController, TeamsController>>),
   ViewPreferences |-> Module(<<>>, <<ViewPreferencesController>>)]

\* A module comes before its imports, and where it is met first; no chain of imports is longer.
Scan[depth \in 0 .. 4] ==
  [m \in DOMAIN Modules |->
     IF depth = 0 THEN <<m>>
     ELSE <<m>> \o FlattenSeq([i \in DOMAIN Modules[m].imports |->
                                 Scan[depth - 1][Modules[m].imports[i]]])]
Once(found, m) == IF m \in ToSet(found) THEN found ELSE Append(found, m)
Order == FoldLeft(Once, <<>>, Scan[4]["App"])

Registered == FlattenSeq([i \in DOMAIN Order |-> Modules[Order[i]].routes])
Routes == ToSet(Registered)

Parameters == {":id", ":jobId", ":type", ":viewKey", ":providerStatus", ":userId", ":tagId"}

\* Whatever matches the second path matches the first.
Covers(p, q) == Len(p) = Len(q) /\ \A k \in DOMAIN p : p[k] \in Parameters \/ p[k] = q[k]

\* RolesGuard.  No roles named: every role but the operational ones.
Admits(route, role) ==
  IF route.roles = NoRoles THEN role \notin OPERATIONAL_ROLES ELSE role \in route.roles

-----------------------------------------------------------------------------
(* Properties. *)

\* No route is taken by one registered before it: each can be reached.
EachIsReached ==
  LET routes == Registered IN
  \A i, j \in DOMAIN routes :
    i < j /\ routes[i].verb = routes[j].verb => ~Covers(routes[i].path, routes[j].path)

\* A post-sale role reaches documents, orders, payment records and the journey alone.
OperationalShut ==
  LET theirs == ToSet(DocumentsController \o LogisticsOrdersController
                        \o AccountsRecordsController \o AuditEventsController) IN
  \A r \in Routes : \A role \in OPERATIONAL_ROLES :
    r.roles # Public /\ Admits(r, role) => r \in theirs

\* Whoever may change a record may read the list that shows it; only a tag is created by a role
\* that does not manage tags.
ReadsWhatItChanges ==
  LET routes == Routes IN
  \A r \in routes \ ToSet(TagsController) : \A role \in UserRole :
    r.verb # "GET" /\ r.roles # Public /\ Admits(r, role) =>
      \E list \in routes : /\ list.verb = "GET"
                          /\ IsPrefix(<<r.path[1]>>, list.path)
                          /\ Admits(list, role)
=============================================================================
