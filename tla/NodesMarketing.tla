------------------------------ MODULE NodesMarketing ------------------------------
(* The marketing, analytics, publishing and media nodes.
   For each node: the form its specification declares (XForm), what each
   request builder needs and reads (XRequest), and how the node resolves its
   credential and judges an answer (XCall).  The constructors are in
   NodeTables. *)
EXTENDS NodeTables

-----------------------------------------------------------------------------
ActivecampaignForm ==
  Form("list_contacts", {},
    [list_contacts      |-> {"list_id", "email", "search", "limit", "offset"},
     get_contact        |-> {"contact_id"},
     create_contact     |-> {"document"},
     update_contact     |-> {"contact_id", "document"},
     delete_contact     |-> {"contact_id"},
     add_contact_to_list |-> {"contact_id", "list_id", "status"},
     add_tag_to_contact |-> {"contact_id", "tag_id"},
     list_tags          |-> {"search", "limit", "offset"}])
ActivecampaignRequest ==
  [list_contacts      |-> Op({}, {"email", "limit", "list_id", "offset", "search"}),
   get_contact        |-> Op({"contact_id"}, {}),
   create_contact     |-> Op({"document"}, {}),
   update_contact     |-> Op({"contact_id", "document"}, {}),
   delete_contact     |-> Op({"contact_id"}, {}),
   add_contact_to_list |-> Op({"contact_id", "list_id"}, {"status"}),
   add_tag_to_contact |-> Op({"contact_id", "tag_id"}, {}),
   list_tags          |-> Op({}, {"limit", "offset", "search"})]
ActivecampaignCall == Call("list_contacts", {"activecampaign_api"}, {"api_url",
      "api_token"})

-----------------------------------------------------------------------------
CloudinaryForm ==
  Form("upload", {"resource_type"},
    [upload         |-> {"file", "public_id", "folder", "tags", "context"},
     destroy        |-> {"public_id", "invalidate"},
     list_resources |-> {"max_results", "prefix", "next_cursor"},
     get_resource   |-> {"public_id", "delivery_type"}])
CloudinaryRequest ==
  [upload         |-> Op({"file"}, {"context", "folder", "public_id",
        "resource_type", "tags"}),
   destroy        |-> Op({"public_id"}, {"invalidate", "resource_type"}),
   list_resources |-> Op({}, {"max_results", "next_cursor", "prefix",
        "resource_type"}),
   get_resource   |-> Op({"public_id"}, {"delivery_type", "resource_type"})]
CloudinaryCall == Call("upload", {"cloudinary_api"}, {"cloud_name", "api_key",
      "api_secret"})

-----------------------------------------------------------------------------
ContentfulForm ==
  Form("list_entries", {"space_id", "environment"},
    [get_entry     |-> {"entry_id"},
     list_entries  |-> {"content_type", "filters", "limit", "skip", "order"},
     create_entry  |-> {"content_type", "fields"},
     update_entry  |-> {"entry_id", "fields", "version"},
     publish_entry |-> {"entry_id", "version"},
     delete_entry  |-> {"entry_id", "version"},
     get_asset     |-> {"asset_id"}])
ContentfulRequest ==
  [get_entry     |-> Op({"space_id", "entry_id"}, {"environment"}),
   list_entries  |-> Op({"space_id"}, {"content_type", "environment", "filters",
        "limit", "order", "skip"}),
   create_entry  |-> Op({"space_id", "content_type", "fields"}, {"environment"}),
   update_entry  |-> Op({"space_id", "entry_id", "fields", "version"},
        {"environment"}),
   publish_entry |-> Op({"space_id", "entry_id", "version"}, {"environment"}),
   delete_entry  |-> Op({"space_id", "entry_id", "version"}, {"environment"}),
   get_asset     |-> Op({"space_id", "asset_id"}, {"environment"})]
ContentfulCall == StandIn(Call("list_entries", {"contentful_api"}, {"api_token"}),
      [space_id |-> "space_id", environment |-> "environment"])

-----------------------------------------------------------------------------
FacebookForm ==
  Form("get_me", {},
    [get_me      |-> {"fields"},
     get_node    |-> {"node_id", "fields"},
     list_edge   |-> {"node_id", "edge", "fields", "limit", "after", "before"},
     create_edge |-> {"node_id", "edge", "body"},
     delete_node |-> {"node_id"}])
FacebookRequest ==
  [get_me      |-> Op({}, {"fields"}),
   get_node    |-> Op({"node_id"}, {"fields"}),
   list_edge   |-> Op({"edge", "node_id"}, {"after", "before", "fields", "limit"}),
   create_edge |-> Op({"body", "edge", "node_id"}, {}),
   delete_node |-> Op({"node_id"}, {})]
FacebookCall == Call("get_me", {"facebook_graph"}, {"access_token"})

-----------------------------------------------------------------------------
Ga4Form ==
  Form("track_event", {"client_id", "user_id", "timestamp_micros",
       "non_personalized_ads"},
    [track_event     |-> {"event_name", "event_params"},
     track_events    |-> {"events"},
     validate_event  |-> {"event_name", "event_params"},
     user_properties |-> {"user_properties"}])
Ga4Request ==
  [track_event     |-> Op({"client_id", "event_name"}, {"event_params",
        "non_personalized_ads", "timestamp_micros", "user_id"}),
   track_events    |-> Op({"client_id", "events"}, {"non_personalized_ads",
        "timestamp_micros", "user_id"}),
   validate_event  |-> Op({"client_id", "event_name"}, {"event_params",
        "non_personalized_ads", "timestamp_micros", "user_id"}),
   user_properties |-> Op({"client_id", "user_properties"},
        {"non_personalized_ads", "timestamp_micros", "user_id"})]
Ga4Call == Call("track_event", {"ga4_measurement"}, {"measurement_id",
      "api_secret"})

-----------------------------------------------------------------------------
GhostForm ==
  Form("list_posts", {},
    [list_posts    |-> {"limit", "page", "filter"},
     get_post      |-> {"post_id"},
     create_post   |-> {"title", "html", "lexical", "status", "tags"},
     update_post   |-> {"post_id", "html", "lexical", "status", "tags",
          "updated_at"},
     delete_post   |-> {"post_id"},
     list_members  |-> {"limit", "page", "filter"},
     create_member |-> {"email", "name", "labels"}])
GhostRequest ==
  [list_posts    |-> Op({}, {"fields", "filter", "include", "limit", "order",
        "page"}),
   get_post      |-> Op({"post_id"}, {"include"}),
   create_post   |-> Op({"title"}, {"custom_excerpt", "featured", "html",
        "lexical", "slug", "status", "tags", "visibility"}),
   update_post   |-> OneOf(Op({"post_id", "updated_at"}, {"custom_excerpt",
        "featured", "html", "lexical", "slug", "status", "tags", "visibility"}),
        {{"html", "lexical", "status", "slug", "custom_excerpt", "featured",
        "visibility", "tags"}}),
   delete_post   |-> Op({"post_id"}, {}),
   list_members  |-> Op({}, {"fields", "filter", "include", "limit", "order",
        "page"}),
   create_member |-> Op({"email"}, {"labels", "name", "note"})]
GhostCall == Call("list_posts", {"ghost_admin"}, {"base_url", "admin_api_key"})

-----------------------------------------------------------------------------
KlaviyoForm ==
  Form("create_event", {},
    [create_event       |-> {"metric_name", "profile", "properties", "value"},
     create_profile     |-> {"attributes"},
     get_profile        |-> {"profile_id"},
     add_profile_to_list |-> {"list_id", "profile_ids"}])
KlaviyoRequest ==
  [create_event       |-> Op({"metric_name", "profile"}, {"properties", "value"}),
   create_profile     |-> Op({"attributes"}, {}),
   get_profile        |-> Op({"profile_id"}, {}),
   add_profile_to_list |-> Op({"list_id", "profile_ids"}, {})]
KlaviyoCall == Call("create_event", {"klaviyo_api"}, {"api_key"})

-----------------------------------------------------------------------------
MailchimpForm ==
  Form("list_lists", {},
    [list_lists    |-> {"count", "offset"},
     get_list      |-> {"list_id"},
     add_member    |-> {"list_id", "email", "status", "merge_fields", "tags"},
     update_member |-> {"list_id", "email", "fields"},
     get_member    |-> {"list_id", "email"},
     tag_member    |-> {"list_id", "email", "add_tags", "remove_tags"}])
MailchimpRequest ==
  [list_lists    |-> Op({}, {"count", "offset"}),
   get_list      |-> Op({"list_id"}, {}),
   add_member    |-> Op({"email", "list_id"}, {"merge_fields", "status", "tags"}),
   update_member |-> Op({"email", "fields", "list_id"}, {}),
   get_member    |-> Op({"email", "list_id"}, {}),
   tag_member    |-> OneOf(Op({"email", "list_id"}, {"add_tags", "remove_tags"}),
        {{"add_tags", "remove_tags"}})]
MailchimpCall == Call("list_lists", {"mailchimp_api"}, {"api_key"})

-----------------------------------------------------------------------------
MapboxForm ==
  Form("forward_geocode", {},
    [forward_geocode |-> {"endpoint", "search_text"},
     reverse_geocode |-> {"endpoint", "longitude", "latitude"},
     directions      |-> {"profile", "coordinates"},
     matrix          |-> {"profile", "coordinates"},
     isochrone       |-> {"profile", "coordinates", "contours_minutes",
          "contours_meters"}])
MapboxRequest ==
  [forward_geocode |-> Op({"search_text"}, {"autocomplete", "bbox", "country",
        "endpoint", "language", "limit", "proximity", "types"}),
   reverse_geocode |-> Op({"latitude", "longitude"}, {"endpoint", "language",
        "limit", "types"}),
   directions      |-> Op({"coordinates"}, {"alternatives", "annotations",
        "exclude", "geometries", "language", "overview", "profile", "steps"}),
   matrix          |-> Op({"coordinates"}, {"annotations", "destinations",
        "profile", "sources"}),
   isochrone       |-> OneOf(Op({"coordinates"}, {"contours_colors",
        "contours_meters", "contours_minutes", "denoise", "generalize", "polygons",
        "profile"}), {{"contours_meters", "contours_minutes"}})]
MapboxCall == Call("forward_geocode", {"mapbox_api"}, {"access_token"})

-----------------------------------------------------------------------------
MixpanelForm ==
  Form("track_event", {},
    [track_event   |-> {"distinct_id", "event", "properties"},
     engage_user   |-> {"distinct_id", "properties", "set_verb"},
     update_group  |-> {"properties", "set_verb", "group_key", "group_id"},
     import_events |-> {"events", "project_id"}])
MixpanelRequest ==
  [track_event   |-> Op({"distinct_id", "event"}, {"properties"}),
   engage_user   |-> Op({"distinct_id", "properties"}, {"set_verb"}),
   update_group  |-> Op({"group_id", "group_key", "properties"}, {"set_verb"}),
   import_events |-> Op({"events"}, {"project_id"})]
MixpanelCall == SecretFor(Confirmed(Call("track_event", {"mixpanel_api"},
      {"project_token"}), {"track_event", "engage_user", "update_group"}),
      [import_events |-> {"api_secret"}])

-----------------------------------------------------------------------------
PosthogForm ==
  Form("capture", {},
    [capture  |-> {"distinct_id", "event", "properties", "timestamp"},
     identify |-> {"distinct_id", "properties", "set", "set_once", "timestamp"},
     alias    |-> {"distinct_id", "alias", "properties", "timestamp"},
     batch    |-> {"events"},
     decide   |-> {"distinct_id", "groups", "person_properties"}])
PosthogRequest ==
  [capture  |-> Op({"distinct_id", "event"}, {"properties", "timestamp"}),
   identify |-> Op({"distinct_id"}, {"properties", "set", "set_once", "timestamp"}),
   alias    |-> Op({"alias", "distinct_id"}, {"properties", "timestamp"}),
   batch    |-> Op({"events"}, {}),
   decide   |-> Op({"distinct_id"}, {"groups", "person_properties"})]
PosthogCall == Call("capture", {"posthog_api"}, {"project_api_key"})

-----------------------------------------------------------------------------
RedditForm ==
  Form("get_me", {},
    [submit_post   |-> {"subreddit", "title", "kind", "url", "text", "nsfw"},
     get_subreddit |-> {"subreddit"},
     list_hot      |-> {"subreddit", "limit", "after"}])
RedditRequest ==
  [get_me        |-> Op({}, {}),
   submit_post   |-> Cases(Op({"subreddit", "title"}, {"kind", "nsfw", "text",
        "url"}), {{}, {{"url"}}}),
   get_subreddit |-> Op({"subreddit"}, {}),
   list_hot      |-> Op({"subreddit"}, {"after", "limit"})]
RedditCall == Call("get_me", {"reddit_oauth2"}, {"access_token"})

-----------------------------------------------------------------------------
SegmentForm ==
  Form("track", {"userId", "anonymousId", "context", "timestamp"},
    [track    |-> {"event", "properties"},
     identify |-> {"traits"},
     group    |-> {"groupId", "traits"},
     page     |-> {"properties", "name", "category"},
     alias    |-> {"previousId"}])
SegmentRequest ==
  [track    |-> OneOf(Op({"event"}, {"anonymousId", "context", "properties",
        "timestamp", "userId"}), {{"anonymousId", "userId"}}),
   identify |-> OneOf(Op({}, {"anonymousId", "context", "timestamp", "traits",
        "userId"}), {{"anonymousId", "userId"}}),
   group    |-> OneOf(Op({"groupId"}, {"anonymousId", "context", "timestamp",
        "traits", "userId"}), {{"anonymousId", "userId"}}),
   page     |-> OneOf(Op({}, {"anonymousId", "category", "context", "name",
        "properties", "timestamp", "userId"}), {{"anonymousId", "userId"}}),
   alias    |-> Op({"previousId", "userId"}, {"context", "timestamp"})]
SegmentCall == Call("track", {"segment_write_key"}, {"write_key"})

-----------------------------------------------------------------------------
TwitchForm ==
  Form("get_users", {},
    [get_users       |-> {"user_ids", "logins"},
     get_channel     |-> {"broadcaster_id"},
     get_streams     |-> {"user_ids", "user_logins", "game_ids", "language",
          "first", "after"},
     get_videos      |-> {"video_ids", "user_id", "game_id", "first", "after"},
     get_followers   |-> {"broadcaster_id", "user_id", "first", "after"},
     search_channels |-> {"query", "live_only", "first", "after"}])
TwitchRequest ==
  [get_users       |-> OneOf(Op({}, {"logins", "user_ids"}), {{"logins",
        "user_ids"}}),
   get_channel     |-> Op({"broadcaster_id"}, {}),
   get_streams     |-> Op({}, {"after", "first", "game_ids", "language",
        "user_ids", "user_logins"}),
   get_videos      |-> OneOf(Op({}, {"after", "first", "game_id", "user_id",
        "video_ids"}), {{"game_id", "user_id", "video_ids"}}),
   get_followers   |-> Op({"broadcaster_id"}, {"after", "first", "user_id"}),
   search_channels |-> Op({"query"}, {"after", "first", "live_only"})]
TwitchCall == Call("get_users", {"twitch_api"}, {"access_token", "client_id"})

-----------------------------------------------------------------------------
MarketingForms == [activecampaign |-> ActivecampaignForm, cloudinary |->
    CloudinaryForm, contentful |-> ContentfulForm, facebook |-> FacebookForm, ga4
    |-> Ga4Form, ghost |-> GhostForm, klaviyo |-> KlaviyoForm, mailchimp |->
    MailchimpForm, mapbox |-> MapboxForm, mixpanel |-> MixpanelForm, posthog |->
    PosthogForm, reddit |-> RedditForm, segment |-> SegmentForm, twitch |->
    TwitchForm]
MarketingRequests == [activecampaign |-> ActivecampaignRequest, cloudinary |->
    CloudinaryRequest, contentful |-> ContentfulRequest, facebook |->
    FacebookRequest, ga4 |-> Ga4Request, ghost |-> GhostRequest, klaviyo |->
    KlaviyoRequest, mailchimp |-> MailchimpRequest, mapbox |-> MapboxRequest,
    mixpanel |-> MixpanelRequest, posthog |-> PosthogRequest, reddit |->
    RedditRequest, segment |-> SegmentRequest, twitch |-> TwitchRequest]
MarketingCalls == [activecampaign |-> ActivecampaignCall, cloudinary |->
    CloudinaryCall, contentful |-> ContentfulCall, facebook |-> FacebookCall, ga4
    |-> Ga4Call, ghost |-> GhostCall, klaviyo |-> KlaviyoCall, mailchimp |->
    MailchimpCall, mapbox |-> MapboxCall, mixpanel |-> MixpanelCall, posthog |->
    PosthogCall, reddit |-> RedditCall, segment |-> SegmentCall, twitch |->
    TwitchCall]
=============================================================================
