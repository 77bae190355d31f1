--------------------------- MODULE MCIntegrationNode ---------------------------
(* IntegrationNode over the tables of all nodes and credential types. *)
EXTENDS IntegrationNode, NodesCommerce, NodesMessaging, NodesMarketing, NodesCrm,
        NodesProject, NodesDeveloper, NodesStorage, NodesModels, CredentialTypes, TLC

FormsOfAll ==
  CommerceForms @@ MessagingForms @@ MarketingForms @@ CrmForms @@ ProjectForms
    @@ DeveloperForms @@ StorageForms @@ ModelsForms
RequestsOfAll ==
  CommerceRequests @@ MessagingRequests @@ MarketingRequests @@ CrmRequests
    @@ ProjectRequests @@ DeveloperRequests @@ StorageRequests @@ ModelsRequests
CallsOfAll ==
  CommerceCalls @@ MessagingCalls @@ MarketingCalls @@ CrmCalls @@ ProjectCalls
    @@ DeveloperCalls @@ StorageCalls @@ ModelsCalls
(* TLC evaluates a definition once, but the definition a configuration names for a
   constant at every use: so the configuration names these. *)
AllForms == FormsOfAll
AllRequests == RequestsOfAll
AllCalls == CallsOfAll
AllTypes == RegisteredTypes
AllNodes == DOMAIN FormsOfAll

(* Parameters that an operation uses although the form shows them only for
   another one. *)
KnownShared ==
  {<<"harvest", "list_time_entries", "client_id">>,
   <<"onedrive", "get_item", "file_path">>,
   <<"onedrive", "download_item", "file_path">>,
   <<"onedrive", "delete_item", "file_path">>,
   <<"openai", "create_image", "model">>,
   <<"pipedrive", "create_person", "owner_id">>,
   <<"pipedrive", "create_activity", "deal_id">>,
   <<"zoho_crm", "list_records", "fields">>}

(* DocuSign asks for the account's base URL, Mixpanel's import for the project
   secret; the tests of their credential types do not. *)
KnownLate == {<<"docusign", "account_base_url">>, <<"mixpanel", "api_secret">>}
=============================================================================
