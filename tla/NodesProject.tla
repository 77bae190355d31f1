------------------------------ MODULE NodesProject ------------------------------
(* The task, table and document nodes.
   For each node: the form its specification declares (XForm), what each
   request builder needs and reads (XRequest), and how the node resolves its
   credential and judges an answer (XCall).  The constructors are in
   NodeTables. *)
EXTENDS NodeTables

-----------------------------------------------------------------------------
AirtableForm ==
  Form("list_records", {"base_id", "table"},
    [list_records   |-> {"view", "filter_by_formula", "page_size", "max_records",
          "offset"},
     get_record     |-> {"record_id"},
     create_records |-> {"records", "typecast"},
     update_record  |-> {"record_id", "fields", "typecast"},
     delete_record  |-> {"record_id"}])
AirtableRequest ==
  [list_records   |-> Op({"base_id", "table"}, {"filter_by_formula", "max_records",
        "offset", "page_size", "view"}),
   get_record     |-> Op({"base_id", "record_id", "table"}, {}),
   create_records |-> Op({"base_id", "records", "table"}, {"typecast"}),
   update_record  |-> Op({"base_id", "fields", "record_id", "table"}, {"typecast"}),
   delete_record  |-> Op({"base_id", "record_id", "table"}, {})]
AirtableCall == Call("list_records", {"bearer_token"}, {"token"})

-----------------------------------------------------------------------------
AsanaForm ==
  Form("list_tasks", {},
    [list_tasks  |-> {"project", "assignee", "workspace", "completed_since",
          "limit", "offset", "opt_fields"},
     get_task    |-> {"task_id", "opt_fields"},
     create_task |-> {"document"},
     update_task |-> {"task_id", "document"},
     delete_task |-> {"task_id"},
     add_comment |-> {"task_id", "text", "html_text", "is_pinned"}])
AsanaRequest ==
  [list_tasks  |-> OneOf(Op({}, {"assignee", "completed_since", "limit", "offset",
        "opt_fields", "project", "workspace"}), {{"assignee", "project"},
        {"project", "workspace"}}),
   get_task    |-> Op({"task_id"}, {"opt_fields"}),
   create_task |-> Op({"document"}, {}),
   update_task |-> Op({"document", "task_id"}, {}),
   delete_task |-> Op({"task_id"}, {}),
   add_comment |-> OneOf(Op({"task_id"}, {"html_text", "is_pinned", "text"}),
        {{"html_text", "text"}})]
AsanaCall == Call("list_tasks", {"asana_api"}, {"access_token"})

-----------------------------------------------------------------------------
ClickupForm ==
  Form("list_tasks", {},
    [create_task |-> {"list_id", "name", "description", "status", "priority",
          "assignees", "extra_fields"},
     get_task    |-> {"task_id"},
     update_task |-> {"task_id", "fields"},
     delete_task |-> {"task_id"},
     list_tasks  |-> {"list_id", "archived", "page", "order_by", "subtasks",
          "statuses"}])
ClickupRequest ==
  [create_task |-> Op({"list_id", "name"}, {"assignees", "description",
        "extra_fields", "priority", "status"}),
   get_task    |-> Op({"task_id"}, {}),
   update_task |-> Op({"fields", "task_id"}, {}),
   delete_task |-> Op({"task_id"}, {}),
   list_tasks  |-> Op({"list_id"}, {"archived", "order_by", "page", "statuses",
        "subtasks"})]
ClickupCall == Call("list_tasks", {"clickup_api"}, {"api_token"})

-----------------------------------------------------------------------------
GoogleSheetsForm ==
  Form("read_range", {"spreadsheet_id", "range", "values", "value_input_option"},
       <<>>)
GoogleSheetsRequest ==
  [read_range   |-> Op({"range", "spreadsheet_id"}, {}),
   append_row   |-> Op({"range", "spreadsheet_id", "values"},
        {"value_input_option"}),
   update_range |-> Op({"range", "spreadsheet_id", "values"},
        {"value_input_option"})]
GoogleSheetsCall == Call("read_range", {"google_sheets_oauth2"}, {"access_token"})

-----------------------------------------------------------------------------
HarvestForm ==
  Form("list_time_entries", {},
    [list_time_entries |-> {"project_id", "user_id", "from", "to", "page",
          "per_page"},
     create_time_entry |-> {"project_id", "task_id", "spent_date", "hours",
          "started_time", "ended_time", "notes", "user_id"},
     list_projects     |-> {"is_active", "client_id", "updated_since", "page",
          "per_page"}])
HarvestRequest ==
  [list_time_entries |-> Op({}, {"client_id", "from", "page", "per_page",
        "project_id", "to", "user_id"}),
   create_time_entry |-> OneOf(Op({"project_id", "spent_date", "task_id"},
        {"ended_time", "hours", "notes", "started_time", "user_id"}), {{"hours",
        "started_time"}}),
   list_projects     |-> Op({}, {"client_id", "is_active", "page", "per_page",
        "updated_since"}),
   get_user_me       |-> Op({}, {})]
HarvestCall == Call("list_time_entries", {"harvest_api"}, {"access_token",
      "account_id"})

-----------------------------------------------------------------------------
JiraForm ==
  Form("get_issue", {"fields"},
    [get_issue     |-> {"issue_key", "expand"},
     create_issue  |-> {"project_key", "summary", "issue_type", "extra_fields"},
     update_issue  |-> {"issue_key"},
     delete_issue  |-> {"issue_key", "delete_subtasks"},
     search_issues |-> {"jql", "max_results", "start_at"},
     add_comment   |-> {"issue_key", "body"}])
JiraRequest ==
  [get_issue     |-> Op({"issue_key"}, {"expand", "fields"}),
   create_issue  |-> Op({"issue_type", "project_key", "summary"}, {"extra_fields"}),
   update_issue  |-> Op({"fields", "issue_key"}, {}),
   delete_issue  |-> Op({"issue_key"}, {"delete_subtasks"}),
   search_issues |-> Op({"jql"}, {"fields", "max_results", "start_at"}),
   add_comment   |-> Op({"body", "issue_key"}, {})]
JiraCall == Call("get_issue", {"jira_cloud"}, {"site", "email", "api_token"})

-----------------------------------------------------------------------------
LinearForm ==
  Form("list_issues", {},
    [list_issues   |-> {"filter", "first", "after"},
     get_issue     |-> {"issue_id"},
     create_issue  |-> {"team_id", "title", "description", "extra"},
     update_issue  |-> {"issue_id", "fields"},
     list_teams    |-> {"first", "after"},
     list_projects |-> {"first", "after"}])
LinearRequest ==
  [list_issues   |-> Op({}, {"after", "filter", "first"}),
   get_issue     |-> Op({"issue_id"}, {}),
   create_issue  |-> Op({"team_id", "title"}, {"description", "extra"}),
   update_issue  |-> Op({"fields", "issue_id"}, {}),
   list_teams    |-> Op({}, {"after", "first"}),
   list_projects |-> Op({}, {"after", "first"})]
LinearCall == ReadsBody(Call("list_issues", {"linear_api"}, {"api_key"}), DOMAIN
      LinearRequest)

-----------------------------------------------------------------------------
MondayForm ==
  Form("get_boards", {},
    [get_boards         |-> {"limit"},
     get_board          |-> {"board_id"},
     get_items          |-> {"board_id", "limit"},
     create_item        |-> {"board_id", "item_name", "group_id", "column_values"},
     change_column_values |-> {"board_id", "item_id", "column_values"},
     create_update      |-> {"item_id", "body"}])
MondayRequest ==
  [get_boards         |-> Op({}, {"limit"}),
   get_board          |-> Op({"board_id"}, {}),
   get_items          |-> Op({"board_id"}, {"limit"}),
   create_item        |-> Op({"board_id", "item_name"}, {"column_values",
        "group_id"}),
   change_column_values |-> Op({"board_id", "column_values", "item_id"}, {}),
   create_update      |-> Op({"body", "item_id"}, {})]
MondayCall == ReadsBody(Call("get_boards", {"monday_api"}, {"api_token"}), DOMAIN
      MondayRequest)

-----------------------------------------------------------------------------
NotionForm ==
  Form("query_database", {},
    [query_database |-> {"database_id", "filter", "sorts", "page_size",
          "start_cursor"},
     create_page    |-> {"parent_database_id", "parent_page_id", "properties",
          "children"},
     retrieve_page  |-> {"page_id"}])
NotionRequest ==
  [query_database |-> Op({"database_id"}, {"filter", "page_size", "sorts",
        "start_cursor"}),
   create_page    |-> OneOf(Op({"properties"}, {"children", "parent_database_id",
        "parent_page_id"}), {{"parent_database_id", "parent_page_id"}}),
   retrieve_page  |-> Op({"page_id"}, {})]
NotionCall == Call("query_database", {"notion_api"}, {"access_token"})

-----------------------------------------------------------------------------
TrelloForm ==
  Form("list_cards", {},
    [get_board   |-> {"board_id"},
     list_cards  |-> {"board_id", "filter"},
     get_card    |-> {"card_id"},
     create_card |-> {"list_id", "name", "extra_fields"},
     update_card |-> {"card_id", "fields"},
     delete_card |-> {"card_id"}])
TrelloRequest ==
  [get_board   |-> Op({"board_id"}, {}),
   list_cards  |-> Op({"board_id"}, {"filter"}),
   get_card    |-> Op({"card_id"}, {}),
   create_card |-> Op({"list_id", "name"}, {"extra_fields"}),
   update_card |-> Op({"card_id", "fields"}, {}),
   delete_card |-> Op({"card_id"}, {})]
TrelloCall == Call("list_cards", {"trello_api"}, {"api_key", "api_token"})

-----------------------------------------------------------------------------
ProjectForms == [airtable |-> AirtableForm, asana |-> AsanaForm, clickup |->
    ClickupForm, google_sheets |-> GoogleSheetsForm, harvest |-> HarvestForm, jira
    |-> JiraForm, linear |-> LinearForm, monday |-> MondayForm, notion |->
    NotionForm, trello |-> TrelloForm]
ProjectRequests == [airtable |-> AirtableRequest, asana |-> AsanaRequest, clickup
    |-> ClickupRequest, google_sheets |-> GoogleSheetsRequest, harvest |->
    HarvestRequest, jira |-> JiraRequest, linear |-> LinearRequest, monday |->
    MondayRequest, notion |-> NotionRequest, trello |-> TrelloRequest]
ProjectCalls == [airtable |-> AirtableCall, asana |-> AsanaCall, clickup |->
    ClickupCall, google_sheets |-> GoogleSheetsCall, harvest |-> HarvestCall, jira
    |-> JiraCall, linear |-> LinearCall, monday |-> MondayCall, notion |->
    NotionCall, trello |-> TrelloCall]
=============================================================================
