------------------------------ MODULE NodesDeveloper ------------------------------
(* The developer, operations and database nodes.
   For each node: the form its specification declares (XForm), what each
   request builder needs and reads (XRequest), and how the node resolves its
   credential and judges an answer (XCall).  The constructors are in
   NodeTables. *)
EXTENDS NodeTables

-----------------------------------------------------------------------------
AlgoliaForm ==
  Form("search", {},
    [search        |-> {"index_name", "query", "filters", "page", "hits_per_page",
          "extra_params"},
     add_object    |-> {"index_name", "object"},
     update_object |-> {"index_name", "object_id", "object"},
     get_object    |-> {"index_name", "object_id"},
     delete_object |-> {"index_name", "object_id"}])
AlgoliaRequest ==
  [search        |-> Op({"index_name"}, {"extra_params", "filters",
        "hits_per_page", "page", "query"}),
   add_object    |-> Op({"index_name", "object"}, {}),
   update_object |-> Op({"index_name", "object", "object_id"}, {}),
   get_object    |-> Op({"index_name", "object_id"}, {}),
   delete_object |-> Op({"index_name", "object_id"}, {}),
   list_indices  |-> Op({}, {})]
AlgoliaCall == Call("search", {"algolia_api"}, {"application_id", "api_key"})

-----------------------------------------------------------------------------
AscForm ==
  Form("list_apps", {},
    [list_apps         |-> {"limit"},
     get_app           |-> {"app_id"},
     list_builds       |-> {"app_id", "limit"},
     list_beta_testers |-> {"limit"}])
AscRequest ==
  [list_apps         |-> Op({}, {"limit"}),
   get_app           |-> Op({"app_id"}, {}),
   list_builds       |-> Op({}, {"app_id", "limit"}),
   list_beta_testers |-> Op({}, {"limit"})]
AscCall == Call("list_apps", {"asc_api"}, {"issuer_id", "key_id", "private_key"})

-----------------------------------------------------------------------------
BitbucketForm ==
  Form("list_repositories", {"workspace"},
    [list_repositories  |-> {"role", "q", "page", "pagelen"},
     get_repository     |-> {"repo_slug"},
     list_pull_requests |-> {"repo_slug", "state", "pagelen"},
     get_pull_request   |-> {"repo_slug", "pull_request_id"},
     create_pull_request |-> {"repo_slug", "title", "source_branch",
          "destination_branch", "description", "close_source_branch"},
     list_issues        |-> {"repo_slug", "q", "pagelen"},
     create_issue       |-> {"repo_slug", "title", "content", "kind", "priority"}])
BitbucketRequest ==
  [list_repositories  |-> Op({"workspace"}, {"page", "pagelen", "q", "role"}),
   get_repository     |-> Op({"workspace", "repo_slug"}, {}),
   list_pull_requests |-> Op({"workspace", "repo_slug"}, {"pagelen", "state"}),
   get_pull_request   |-> Op({"workspace", "pull_request_id", "repo_slug"}, {}),
   create_pull_request |-> Op({"workspace", "repo_slug", "source_branch", "title"},
        {"close_source_branch", "description", "destination_branch"}),
   list_issues        |-> Op({"workspace", "repo_slug"}, {"pagelen", "q"}),
   create_issue       |-> Op({"workspace", "repo_slug", "title"}, {"content",
        "kind", "priority"})]
BitbucketCall == StandIn(Call("list_repositories", {"bitbucket_api"}, {"username",
      "app_password"}), [workspace |-> "workspace"])

-----------------------------------------------------------------------------
CloudflareForm ==
  Form("list_zones", {},
    [list_zones        |-> {"name", "status", "per_page", "page"},
     get_zone          |-> {"zone_id"},
     list_dns_records  |-> {"zone_id", "type", "name", "per_page", "page"},
     create_dns_record |-> {"zone_id", "type", "name", "content", "ttl", "proxied",
          "priority"},
     update_dns_record |-> {"zone_id", "record_id", "fields"},
     delete_dns_record |-> {"zone_id", "record_id"}])
CloudflareRequest ==
  [list_zones        |-> Op({}, {"name", "page", "per_page", "status"}),
   get_zone          |-> Op({"zone_id"}, {}),
   list_dns_records  |-> Op({"zone_id"}, {"name", "page", "per_page", "type"}),
   create_dns_record |-> Op({"content", "name", "type", "zone_id"}, {"priority",
        "proxied", "ttl"}),
   update_dns_record |-> Op({"fields", "record_id", "zone_id"}, {}),
   delete_dns_record |-> Op({"record_id", "zone_id"}, {})]
CloudflareCall == Call("list_zones", {"cloudflare_api"}, {"api_email", "api_key"})

-----------------------------------------------------------------------------
DatadogForm ==
  Form("post_event", {},
    [post_event    |-> {"title", "text", "alert_type", "priority",
          "source_type_name", "aggregation_key", "tags"},
     list_events   |-> {"priority", "tags", "start", "end", "sources",
          "unaggregated"},
     get_monitor   |-> {"monitor_id", "group_states"},
     list_monitors |-> {"name", "monitor_tags", "page", "page_size"},
     query_metrics |-> {"query", "from_ts", "to_ts"},
     submit_metric |-> {"tags", "metric", "metric_type", "points", "unit"}])
DatadogRequest ==
  [post_event    |-> Op({"text", "title"}, {"aggregation_key", "alert_type",
        "priority", "source_type_name", "tags"}),
   list_events   |-> Op({"end", "start"}, {"priority", "sources", "tags",
        "unaggregated"}),
   get_monitor   |-> Op({"monitor_id"}, {"group_states"}),
   list_monitors |-> Op({}, {"monitor_tags", "name", "page", "page_size"}),
   query_metrics |-> Op({"from_ts", "query", "to_ts"}, {}),
   submit_metric |-> Op({"metric", "points"}, {"metric_type", "tags", "unit"})]
DatadogCall == Call("post_event", {"datadog_api"}, {"api_key", "site"})

-----------------------------------------------------------------------------
ElasticsearchForm ==
  Form("search", {"index"},
    [search |-> {"query", "size", "from_", "sort"},
     index  |-> {"id", "document", "refresh"},
     get    |-> {"id"},
     update |-> {"id", "document", "script", "refresh"},
     delete |-> {"id", "refresh"},
     bulk   |-> {"actions", "refresh"}])
ElasticsearchRequest ==
  [search |-> Op({"index"}, {"from_", "query", "size", "sort"}),
   index  |-> Op({"document", "index"}, {"id", "refresh"}),
   get    |-> Op({"id", "index"}, {}),
   update |-> OneOf(Op({"id", "index"}, {"document", "refresh", "script"}),
        {{"document", "script"}}),
   delete |-> Op({"id", "index"}, {"refresh"}),
   bulk   |-> Op({"actions"}, {"index"})]
ElasticsearchCall == Call("search", {"elasticsearch_api"}, {"api_key_id",
      "api_key", "base_url"})

-----------------------------------------------------------------------------
GithubForm ==
  Form("create_issue", {"owner", "repo"},
    [create_issue   |-> {"title", "body", "labels", "assignees"},
     list_issues    |-> {"labels", "state", "per_page", "page"},
     create_comment |-> {"body", "issue_number"}])
GithubRequest ==
  [create_issue   |-> Op({"owner", "repo", "title"}, {"assignees", "body",
        "labels"}),
   list_issues    |-> Op({"owner", "repo"}, {"labels", "page", "per_page",
        "state"}),
   get_repo       |-> Op({"owner", "repo"}, {}),
   create_comment |-> Op({"body", "issue_number", "owner", "repo"}, {})]
GithubCall == Call("create_issue", {"bearer_token"}, {"token"})

-----------------------------------------------------------------------------
GitlabForm ==
  Form("get_issue", {"project_id"},
    [get_issue          |-> {"issue_iid"},
     create_issue       |-> {"title", "description", "labels", "assignee_ids"},
     update_issue       |-> {"issue_iid", "fields"},
     list_issues        |-> {"labels", "state", "search", "per_page"},
     add_comment        |-> {"issue_iid", "body"},
     list_merge_requests |-> {"state", "target_branch", "per_page"}])
GitlabRequest ==
  [get_issue          |-> Op({"issue_iid", "project_id"}, {}),
   create_issue       |-> Op({"project_id", "title"}, {"assignee_ids",
        "description", "labels"}),
   update_issue       |-> Op({"fields", "issue_iid", "project_id"}, {}),
   list_issues        |-> Op({"project_id"}, {"labels", "per_page", "search",
        "state"}),
   add_comment        |-> Op({"body", "issue_iid", "project_id"}, {}),
   list_merge_requests |-> Op({"project_id"}, {"per_page", "state",
        "target_branch"})]
GitlabCall == Call("get_issue", {"gitlab_token"}, {"access_token"})

-----------------------------------------------------------------------------
HasuraForm ==
  Form("run_query", {"role"},
    [run_query    |-> {"query", "variables", "operation_name"},
     run_mutation |-> {"query", "variables", "operation_name"}])
HasuraRequest ==
  [run_query    |-> Op({"query"}, {"operation_name", "variables"}),
   run_mutation |-> Op({"query"}, {"operation_name", "variables"}),
   introspect   |-> Op({}, {})]
HasuraCall == NodeReads(ReadsBody(Call("run_query", {"hasura_api"}, {"base_url",
      "admin_secret"}), DOMAIN HasuraRequest), [op \in DOMAIN HasuraRequest |->
      {"role"}])

-----------------------------------------------------------------------------
MongodbAtlasForm ==
  Form("list_projects", {},
    [list_projects |-> {"page_num", "items_per_page"},
     list_clusters |-> {"group_id", "page_num", "items_per_page"},
     get_cluster   |-> {"group_id", "cluster_name"},
     list_db_users |-> {"group_id", "page_num", "items_per_page"}])
MongodbAtlasRequest ==
  [list_projects |-> Op({}, {"items_per_page", "page_num"}),
   list_clusters |-> Op({"group_id"}, {"items_per_page", "page_num"}),
   get_cluster   |-> Op({"cluster_name", "group_id"}, {}),
   list_db_users |-> Op({"group_id"}, {"items_per_page", "page_num"})]
(* One call of the client per item: that httpx.DigestAuth repeats the first GET
   with an Authorization header once it was challenged is inside the client. *)
MongodbAtlasCall == Call("list_projects", {"mongodb_atlas_api"}, {"public_key",
      "private_key"})

-----------------------------------------------------------------------------
PagerdutyForm ==
  Form("list_incidents", {"from_email"},
    [list_incidents  |-> {"statuses", "urgencies", "service_ids", "limit",
          "offset"},
     get_incident    |-> {"incident_id"},
     create_incident |-> {"title", "service_id", "urgency", "body"},
     update_incident |-> {"incident_id", "fields"},
     add_note        |-> {"incident_id", "content"}])
PagerdutyRequest ==
  [list_incidents  |-> Op({}, {"limit", "offset", "service_ids", "statuses",
        "urgencies"}),
   get_incident    |-> Op({"incident_id"}, {}),
   create_incident |-> Op({"service_id", "title"}, {"body", "urgency"}),
   update_incident |-> Op({"fields", "incident_id"}, {}),
   add_note        |-> Op({"content", "incident_id"}, {})]
PagerdutyCall == NodeReads(NodeNeeds(StandIn(Call("list_incidents",
      {"pagerduty_api"}, {"api_key"}), [from_email |-> "from_email"]), [op \in
      {"create_incident", "update_incident", "add_note"} |-> {"from_email"}]), [op
      \in {"list_incidents", "get_incident"} |-> {"from_email"}])

-----------------------------------------------------------------------------
SnowflakeForm ==
  Form("execute", {},
    [execute    |-> {"statement", "warehouse", "database", "schema", "role",
          "timeout", "bindings", "async_exec", "request_id"},
     get_status |-> {"statement_handle", "partition", "page_size"},
     cancel     |-> {"statement_handle"}])
SnowflakeRequest ==
  [execute    |-> Op({"statement"}, {"async_exec", "bindings", "database",
        "request_id", "role", "schema", "timeout", "warehouse"}),
   get_status |-> Op({"statement_handle"}, {"page_size", "partition"}),
   cancel     |-> Op({"statement_handle"}, {})]
SnowflakeCall == Call("execute", {"snowflake_api"}, {"account", "token",
      "token_type"})

-----------------------------------------------------------------------------
SupabaseForm ==
  Form("select", {"table"},
    [select |-> {"filters", "select", "order", "limit", "offset"},
     insert |-> {"rows", "return_representation"},
     update |-> {"filters", "fields", "return_representation"},
     delete |-> {"filters", "return_representation"},
     upsert |-> {"rows", "on_conflict", "return_representation"}])
SupabaseRequest ==
  [select |-> Op({"table"}, {"filters", "limit", "offset", "order", "select"}),
   insert |-> OneOf(Op({"table"}, {"row", "rows"}), {{"row", "rows"}}),
   update |-> Op({"fields", "filters", "table"}, {}),
   delete |-> Op({"filters", "table"}, {}),
   upsert |-> OneOf(Op({"table"}, {"on_conflict", "row", "rows"}), {{"row",
        "rows"}})]
SupabaseCall == NodeReads(Call("select", {"supabase_api"}, {"service_role_key",
      "project_url"}), [op \in {"insert", "update", "delete", "upsert"} |->
      {"return_representation"}])

-----------------------------------------------------------------------------
DeveloperForms == [algolia |-> AlgoliaForm, asc |-> AscForm, bitbucket |->
    BitbucketForm, cloudflare |-> CloudflareForm, datadog |-> DatadogForm,
    elasticsearch |-> ElasticsearchForm, github |-> GithubForm, gitlab |->
    GitlabForm, hasura |-> HasuraForm, mongodb_atlas |-> MongodbAtlasForm,
    pagerduty |-> PagerdutyForm, snowflake |-> SnowflakeForm, supabase |->
    SupabaseForm]
DeveloperRequests == [algolia |-> AlgoliaRequest, asc |-> AscRequest, bitbucket |->
    BitbucketRequest, cloudflare |-> CloudflareRequest, datadog |-> DatadogRequest,
    elasticsearch |-> ElasticsearchRequest, github |-> GithubRequest, gitlab |->
    GitlabRequest, hasura |-> HasuraRequest, mongodb_atlas |-> MongodbAtlasRequest,
    pagerduty |-> PagerdutyRequest, snowflake |-> SnowflakeRequest, supabase |->
    SupabaseRequest]
DeveloperCalls == [algolia |-> AlgoliaCall, asc |-> AscCall, bitbucket |->
    BitbucketCall, cloudflare |-> CloudflareCall, datadog |-> DatadogCall,
    elasticsearch |-> ElasticsearchCall, github |-> GithubCall, gitlab |->
    GitlabCall, hasura |-> HasuraCall, mongodb_atlas |-> MongodbAtlasCall,
    pagerduty |-> PagerdutyCall, snowflake |-> SnowflakeCall, supabase |->
    SupabaseCall]
=============================================================================
