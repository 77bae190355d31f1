------------------------------ MODULE NodesCrm ------------------------------
(* The customer, support and directory nodes.
   For each node: the form its specification declares (XForm), what each
   request builder needs and reads (XRequest), and how the node resolves its
   credential and judges an answer (XCall).  The constructors are in
   NodeTables. *)
EXTENDS NodeTables

-----------------------------------------------------------------------------
FreshdeskForm ==
  Form("list_tickets", {},
    [list_tickets   |-> {"per_page", "page", "updated_since"},
     get_ticket     |-> {"ticket_id"},
     create_ticket  |-> {"subject", "description", "email", "priority", "status",
          "source", "type", "tags"},
     update_ticket  |-> {"ticket_id", "fields"},
     list_contacts  |-> {"email", "per_page", "page"},
     create_contact |-> {"email", "name", "phone", "mobile", "company_id"}])
FreshdeskRequest ==
  [list_tickets   |-> Op({}, {"page", "per_page", "updated_since"}),
   get_ticket     |-> Op({"ticket_id"}, {}),
   create_ticket  |-> Op({"description", "email", "subject"}, {"priority",
        "source", "status", "tags", "type"}),
   update_ticket  |-> Op({"fields", "ticket_id"}, {}),
   list_contacts  |-> Op({}, {"email", "page", "per_page"}),
   create_contact |-> OneOf(Op({"name"}, {"company_id", "email", "mobile",
        "phone"}), {{"email", "mobile", "phone"}})]
FreshdeskCall == Call("list_tickets", {"freshdesk_api"}, {"api_key", "subdomain"})

-----------------------------------------------------------------------------
HubspotForm ==
  Form("get_contact", {"properties"},
    [update_contact  |-> {"contact_id"},
     get_contact     |-> {"contact_id"},
     delete_contact  |-> {"contact_id"},
     search_contacts |-> {"query", "filter_groups", "sorts", "limit", "after"}])
HubspotRequest ==
  [create_contact  |-> Op({"properties"}, {}),
   update_contact  |-> Op({"contact_id", "properties"}, {}),
   get_contact     |-> Op({"contact_id"}, {"properties"}),
   delete_contact  |-> Op({"contact_id"}, {}),
   search_contacts |-> Op({}, {"after", "filter_groups", "limit", "properties",
        "query", "sorts"})]
HubspotCall == Call("get_contact", {"hubspot_private_app"}, {"access_token"})

-----------------------------------------------------------------------------
IntercomForm ==
  Form("get_contact", {},
    [create_contact     |-> {"role", "email", "external_id", "phone", "name",
          "custom_attributes"},
     update_contact     |-> {"contact_id", "fields"},
     get_contact        |-> {"contact_id"},
     search_contacts    |-> {"query", "per_page"},
     create_conversation |-> {"contact_id", "contact_type", "body"},
     reply_conversation |-> {"conversation_id", "reply_type", "message_type",
          "admin_id", "user_id", "body"}])
IntercomRequest ==
  [create_contact     |-> OneOf(Op({}, {"custom_attributes", "email",
        "external_id", "name", "phone", "role"}), {{"email", "external_id",
        "phone"}}),
   update_contact     |-> Op({"contact_id", "fields"}, {}),
   get_contact        |-> Op({"contact_id"}, {}),
   search_contacts    |-> Op({"query"}, {"per_page"}),
   create_conversation |-> Op({"body", "contact_id"}, {"contact_type"}),
   reply_conversation |-> Cases(Op({"conversation_id", "body"}, {"admin_id",
        "message_type", "reply_type", "user_id"}), {{}, {{"admin_id"}}})]
IntercomCall == Call("get_contact", {"intercom_api"}, {"access_token"})

-----------------------------------------------------------------------------
MicrosoftGraphForm ==
  Form("list_users", {},
    [list_users    |-> {"select", "filter", "search", "order_by", "count", "top",
          "skip_token"},
     get_user      |-> {"user_id", "select"},
     list_messages |-> {"user_id", "select", "filter", "search", "order_by",
          "count", "top", "skip_token"},
     send_mail     |-> {"user_id", "message", "save_to_sent_items"},
     list_events   |-> {"user_id", "select", "filter", "search", "order_by",
          "count", "top", "skip_token"},
     create_event  |-> {"user_id", "event"}])
MicrosoftGraphRequest ==
  [list_users    |-> Op({}, {"count", "filter", "order_by", "search", "select",
        "skip_token", "top"}),
   get_user      |-> Op({"user_id"}, {"select"}),
   list_messages |-> Op({}, {"count", "filter", "order_by", "search", "select",
        "skip_token", "top", "user_id"}),
   send_mail     |-> Op({"message"}, {"save_to_sent_items", "user_id"}),
   list_events   |-> Op({}, {"count", "filter", "order_by", "search", "select",
        "skip_token", "top", "user_id"}),
   create_event  |-> Op({"event"}, {"user_id"})]
MicrosoftGraphCall == Call("list_users", {"microsoft_graph"}, {"access_token"})

-----------------------------------------------------------------------------
OktaForm ==
  Form("list_users", {},
    [list_users      |-> {"search", "filter", "after", "limit"},
     get_user        |-> {"user_id"},
     create_user     |-> {"profile", "password", "group_ids", "activate"},
     update_user     |-> {"user_id", "profile"},
     deactivate_user |-> {"user_id", "send_email"},
     list_groups     |-> {"q", "filter", "after", "limit"}])
OktaRequest ==
  [list_users      |-> Op({}, {"after", "filter", "limit", "search"}),
   get_user        |-> Op({"user_id"}, {}),
   create_user     |-> Op({"profile"}, {"activate", "group_ids", "password"}),
   update_user     |-> Op({"profile", "user_id"}, {}),
   deactivate_user |-> Op({"user_id"}, {"send_email"}),
   list_groups     |-> Op({}, {"after", "filter", "limit", "q"})]
OktaCall == Call("list_users", {"okta_api"}, {"api_token", "org_url"})

-----------------------------------------------------------------------------
PipedriveForm ==
  Form("list_deals", {},
    [list_deals      |-> {"status", "limit", "start", "owner_id"},
     get_deal        |-> {"deal_id"},
     create_deal     |-> {"title", "value", "currency", "status", "person_id",
          "org_id", "stage_id", "user_id"},
     update_deal     |-> {"deal_id", "fields"},
     create_person   |-> {"org_id", "name", "emails", "phones"},
     create_activity |-> {"person_id", "org_id", "user_id", "subject", "type",
          "due_date", "due_time", "duration", "note"}])
PipedriveRequest ==
  [list_deals      |-> Op({}, {"limit", "owner_id", "start", "status"}),
   get_deal        |-> Op({"deal_id"}, {}),
   create_deal     |-> Op({"title"}, {"currency", "org_id", "person_id",
        "stage_id", "status", "user_id", "value"}),
   update_deal     |-> Op({"deal_id", "fields"}, {}),
   create_person   |-> Op({"name"}, {"emails", "org_id", "owner_id", "phones"}),
   create_activity |-> Op({"subject", "type"}, {"deal_id", "due_date", "due_time",
        "duration", "note", "org_id", "person_id", "user_id"})]
PipedriveCall == Call("list_deals", {"pipedrive_api"}, {"api_token",
      "company_domain"})

-----------------------------------------------------------------------------
SalesforceForm ==
  Form("list_records", {"api_version"},
    [list_records  |-> {"sobject", "fields", "where", "order_by", "limit"},
     get_record    |-> {"sobject", "record_id", "fields"},
     create_record |-> {"sobject", "document"},
     update_record |-> {"sobject", "record_id", "document"},
     delete_record |-> {"sobject", "record_id"},
     query         |-> {"soql"}])
SalesforceRequest ==
  [list_records  |-> Op({"sobject"}, {"api_version", "fields", "limit", "order_by",
        "where"}),
   get_record    |-> Op({"record_id", "sobject"}, {"api_version", "fields"}),
   create_record |-> Op({"document", "sobject"}, {"api_version"}),
   update_record |-> Op({"document", "record_id", "sobject"}, {"api_version"}),
   delete_record |-> Op({"record_id", "sobject"}, {"api_version"}),
   query         |-> Op({"soql"}, {"api_version"})]
SalesforceCall == Call("list_records", {"salesforce_api"}, {"access_token",
      "instance_url"})

-----------------------------------------------------------------------------
ZendeskForm ==
  Form("get_ticket", {},
    [get_ticket    |-> {"ticket_id"},
     create_ticket |-> {"subject", "comment", "priority", "extra_fields"},
     update_ticket |-> {"ticket_id", "fields"},
     list_tickets  |-> {"per_page", "page"},
     add_comment   |-> {"ticket_id", "comment", "public"},
     search        |-> {"per_page", "query", "sort_by", "sort_order"}])
ZendeskRequest ==
  [get_ticket    |-> Op({"ticket_id"}, {}),
   create_ticket |-> Op({"comment", "subject"}, {"extra_fields", "priority"}),
   update_ticket |-> Op({"fields", "ticket_id"}, {}),
   list_tickets  |-> Op({}, {"page", "per_page"}),
   add_comment   |-> Op({"comment", "ticket_id"}, {"public"}),
   search        |-> Op({"query"}, {"per_page", "sort_by", "sort_order"})]
ZendeskCall == Call("get_ticket", {"zendesk_api"}, {"subdomain", "email",
      "api_token"})

-----------------------------------------------------------------------------
ZohoCrmForm ==
  Form("list_records", {"module"},
    [list_records   |-> {"per_page", "page", "sort_by", "sort_order",
          "fields_filter"},
     get_record     |-> {"record_id"},
     create_record  |-> {"fields", "trigger"},
     update_record  |-> {"record_id", "fields"},
     delete_record  |-> {"record_id"},
     search_records |-> {"criteria", "email", "phone", "word", "per_page", "page"}])
ZohoCrmRequest ==
  [list_records   |-> Op({"module"}, {"fields", "page", "per_page", "sort_by",
        "sort_order"}),
   get_record     |-> Op({"module", "record_id"}, {}),
   create_record  |-> Op({"fields", "module"}, {"trigger"}),
   update_record  |-> Op({"fields", "module", "record_id"}, {}),
   delete_record  |-> Op({"module", "record_id"}, {}),
   search_records |-> OnlyOne(OneOf(Op({"module"}, {"criteria", "email", "page",
        "per_page", "phone", "word"}), {{"criteria", "email", "phone", "word"}}),
        {"criteria", "email", "phone", "word"})]
ZohoCrmCall == NodeReads(Call("list_records", {"zoho_crm_oauth2"},
      {"access_token"}), [list_records |-> {"fields_filter"}])

-----------------------------------------------------------------------------
CrmForms == [freshdesk |-> FreshdeskForm, hubspot |-> HubspotForm, intercom |->
    IntercomForm, microsoft_graph |-> MicrosoftGraphForm, okta |-> OktaForm,
    pipedrive |-> PipedriveForm, salesforce |-> SalesforceForm, zendesk |->
    ZendeskForm, zoho_crm |-> ZohoCrmForm]
CrmRequests == [freshdesk |-> FreshdeskRequest, hubspot |-> HubspotRequest,
    intercom |-> IntercomRequest, microsoft_graph |-> MicrosoftGraphRequest, okta
    |-> OktaRequest, pipedrive |-> PipedriveRequest, salesforce |->
    SalesforceRequest, zendesk |-> ZendeskRequest, zoho_crm |-> ZohoCrmRequest]
CrmCalls == [freshdesk |-> FreshdeskCall, hubspot |-> HubspotCall, intercom |->
    IntercomCall, microsoft_graph |-> MicrosoftGraphCall, okta |-> OktaCall,
    pipedrive |-> PipedriveCall, salesforce |-> SalesforceCall, zendesk |->
    ZendeskCall, zoho_crm |-> ZohoCrmCall]
=============================================================================
