------------------------------ MODULE NodesMessaging ------------------------------
(* The mail, chat, text-message and meeting nodes.
   For each node: the form its specification declares (XForm), what each
   request builder needs and reads (XRequest), and how the node resolves its
   credential and judges an answer (XCall).  The constructors are in
   NodeTables. *)
EXTENDS NodeTables

-----------------------------------------------------------------------------
BrevoForm ==
  Form("send_email", {},
    [send_email         |-> {"sender", "to", "cc", "bcc", "reply_to", "subject",
          "html_content", "text_content", "tags"},
     create_contact     |-> {"email", "attributes", "list_ids", "update_enabled"},
     update_contact     |-> {"email", "attributes", "list_ids", "unlink_list_ids"},
     get_contact        |-> {"email"},
     add_contact_to_list |-> {"list_id", "emails"}])
BrevoRequest ==
  [send_email         |-> OneOf(Op({"sender", "subject", "to"}, {"bcc", "cc",
        "html_content", "reply_to", "tags", "text_content"}), {{"html_content",
        "text_content"}}),
   create_contact     |-> Op({"email"}, {"attributes", "list_ids",
        "update_enabled"}),
   update_contact     |-> OneOf(Op({"email"}, {"attributes", "list_ids",
        "unlink_list_ids"}), {{"attributes", "list_ids", "unlink_list_ids"}}),
   get_contact        |-> Op({"email"}, {}),
   add_contact_to_list |-> Op({"emails", "list_id"}, {}),
   get_account        |-> Op({}, {})]
BrevoCall == Call("send_email", {"brevo_api"}, {"api_key"})

-----------------------------------------------------------------------------
DiscordForm ==
  Form("send_message", {"channel_id"},
    [send_message   |-> {"content", "embeds", "tts"},
     edit_message   |-> {"message_id", "content", "embeds", "tts"},
     delete_message |-> {"message_id"}])
DiscordRequest ==
  [send_message   |-> OneOf(Op({"channel_id"}, {"content", "embeds", "tts"}),
        {{"content", "embeds"}}),
   get_channel    |-> Op({"channel_id"}, {}),
   edit_message   |-> OneOf(Op({"channel_id", "message_id"}, {"content", "embeds",
        "tts"}), {{"content", "embeds"}}),
   delete_message |-> Op({"channel_id", "message_id"}, {})]
DiscordCall == Call("send_message", {"discord_bot"}, {"bot_token"})

-----------------------------------------------------------------------------
GmailForm ==
  Form("send_message", {},
    [send_message  |-> {"to", "subject", "body", "cc", "bcc", "from", "raw",
          "thread_id"},
     list_messages |-> {"q", "labelIds", "maxResults", "pageToken",
          "includeSpamTrash"},
     get_message   |-> {"message_id", "format"},
     trash_message |-> {"message_id"},
     add_label     |-> {"message_id", "add_label_ids", "remove_label_ids"}])
GmailRequest ==
  [send_message  |-> OneOf(Op({}, {"bcc", "body", "cc", "from", "raw", "subject",
        "thread_id", "to"}), {{"body", "raw"}, {"raw", "subject"}, {"raw", "to"}}),
   list_messages |-> Op({}, {"includeSpamTrash", "labelIds", "maxResults",
        "pageToken", "q"}),
   get_message   |-> Op({"message_id"}, {"format"}),
   trash_message |-> Op({"message_id"}, {}),
   add_label     |-> OneOf(Op({"message_id"}, {"add_label_ids",
        "remove_label_ids"}), {{"add_label_ids", "remove_label_ids"}})]
GmailCall == Call("send_message", {"gmail_oauth2"}, {"access_token"})

-----------------------------------------------------------------------------
MailgunForm ==
  Form("send_email", {"domain", "region", "from_address", "to", "cc", "bcc",
       "subject", "text", "html", "tags", "tracking"},
       <<>>)
MailgunRequest ==
  [send_email |-> OneOf(Op({"domain", "from_address", "subject", "to"}, {"text",
        "html", "region", "cc", "bcc", "tags", "tracking"}), {{"text", "html"}})]
MailgunCall == Call("send_email", {"basic_auth"}, {"username", "password"})

-----------------------------------------------------------------------------
MattermostForm ==
  Form("post_message", {},
    [post_message       |-> {"channel_id", "message", "root_id", "props",
          "file_ids"},
     update_post        |-> {"post_id", "fields"},
     delete_post        |-> {"post_id"},
     get_channel        |-> {"channel_id"},
     list_channels_for_user |-> {"user_id", "team_id"},
     get_user_by_username |-> {"username"}])
MattermostRequest ==
  [post_message       |-> Op({"channel_id", "message"}, {"file_ids", "props",
        "root_id"}),
   update_post        |-> Op({"fields", "post_id"}, {}),
   delete_post        |-> Op({"post_id"}, {}),
   get_channel        |-> Op({"channel_id"}, {}),
   list_channels_for_user |-> Op({"team_id"}, {"user_id"}),
   get_user_by_username |-> Op({"username"}, {})]
MattermostCall == Call("post_message", {"mattermost_api"}, {"access_token",
      "base_url"})

-----------------------------------------------------------------------------
PushoverForm ==
  Form("send_notification", {},
    [send_notification |-> {"message", "title", "url", "url_title", "priority",
          "retry", "expire", "sound", "device", "html"},
     send_glance       |-> {"title", "device", "text", "subtext", "count",
          "percent"}])
PushoverRequest ==
  [send_notification |-> Cases(Op({"message"}, {"device", "expire", "html",
        "priority", "retry", "sound", "title", "url", "url_title"}), {{},
        {{"retry"}, {"expire"}}}),
   send_glance       |-> OneOf(Op({}, {"count", "device", "percent", "subtext",
        "text", "title"}), {{"text", "subtext", "title", "count", "percent",
        "device"}})]
PushoverCall == RefusesRedirect(ReadsBody(Call("send_notification",
      {"pushover_api"}, {"app_token", "user_key"}), DOMAIN PushoverRequest))

-----------------------------------------------------------------------------
RocketChatForm ==
  Form("post_message", {},
    [post_message   |-> {"room_id", "text", "alias", "emoji", "attachments"},
     update_message |-> {"room_id", "text", "message_id"},
     delete_message |-> {"room_id", "message_id"},
     list_channels  |-> {"count", "offset"},
     create_channel |-> {"name", "members", "read_only"},
     get_user       |-> {"user_id", "username"}])
RocketChatRequest ==
  [post_message   |-> Op({"room_id", "text"}, {"alias", "attachments", "avatar",
        "emoji"}),
   update_message |-> Op({"message_id", "room_id", "text"}, {}),
   delete_message |-> Op({"message_id", "room_id"}, {"as_user"}),
   list_channels  |-> Op({}, {"count", "offset", "sort"}),
   create_channel |-> Op({"name"}, {"members", "read_only"}),
   get_user       |-> OneOf(Op({}, {"user_id", "username"}), {{"user_id",
        "username"}})]
RocketChatCall == ReadsBody(Call("post_message", {"rocket_chat_api"}, {"base_url",
      "user_id", "auth_token"}), DOMAIN RocketChatRequest)

-----------------------------------------------------------------------------
SendgridForm ==
  Form("send_email", {"from_email", "from_name", "to", "cc", "bcc", "reply_to",
       "subject", "text", "html"},
       <<>>)
SendgridRequest ==
  [send_email |-> OneOf(Op({"from_email", "subject", "to"}, {"from_name", "text",
        "html", "cc", "bcc", "reply_to"}), {{"text", "html"}})]
SendgridCall == RefusesRedirect(Call("send_email", {"bearer_token"}, {"token"}))

-----------------------------------------------------------------------------
SlackForm ==
  Form("post_message", {},
    [post_message       |-> {"channel", "text", "blocks", "thread_ts",
          "as_markdown", "unfurl_links"},
     update_message     |-> {"channel", "text", "blocks", "ts", "as_markdown"},
     delete_message     |-> {"channel", "ts"},
     list_channels      |-> {"limit", "cursor", "types", "exclude_archived"},
     get_channel_history |-> {"channel", "oldest", "latest", "inclusive", "limit",
          "cursor"},
     add_reaction       |-> {"channel", "ts", "emoji"},
     list_users         |-> {"include_locale", "limit", "cursor"}])
SlackRequest ==
  [post_message       |-> OneOf(Op({"channel"}, {"as_markdown", "blocks", "text",
        "thread_ts", "unfurl_links"}), {{"blocks", "text"}}),
   update_message     |-> OneOf(Op({"channel", "ts"}, {"blocks", "text"}),
        {{"blocks", "text"}}),
   delete_message     |-> Op({"channel", "ts"}, {}),
   list_channels      |-> Op({}, {"cursor", "exclude_archived", "limit", "types"}),
   get_channel_history |-> Op({"channel"}, {"cursor", "inclusive", "latest",
        "limit", "oldest"}),
   add_reaction       |-> Op({"channel", "emoji", "ts"}, {}),
   list_users         |-> Op({}, {"cursor", "include_locale", "limit"})]
SlackCall == StandIn(RefusesRedirect(ReadsBody(Call("post_message", {"slack_api",
      "slack_oauth2"}, {"access_token"}), DOMAIN SlackRequest)), [channel |->
      "default_channel"])

-----------------------------------------------------------------------------
TelegramForm ==
  Form("send_message", {},
    [send_message      |-> {"chat_id", "text", "parse_mode",
          "disable_notification", "disable_web_page_preview",
          "reply_to_message_id"},
     send_photo        |-> {"chat_id", "photo", "caption", "parse_mode",
          "disable_notification"},
     edit_message_text |-> {"chat_id", "text", "message_id", "parse_mode"},
     delete_message    |-> {"chat_id", "message_id"},
     get_updates       |-> {"offset", "limit", "long_poll_timeout"}])
TelegramRequest ==
  [send_message      |-> Op({"chat_id", "text"}, {"disable_notification",
        "disable_web_page_preview", "parse_mode", "reply_to_message_id"}),
   send_photo        |-> Op({"chat_id", "photo"}, {"caption",
        "disable_notification", "parse_mode"}),
   edit_message_text |-> Op({"chat_id", "message_id", "text"}, {"parse_mode"}),
   delete_message    |-> Op({"chat_id", "message_id"}, {}),
   get_updates       |-> Op({}, {"limit", "long_poll_timeout", "offset"})]
TelegramCall == RefusesRedirect(ReadsBody(Call("send_message", {"telegram_bot"},
      {"bot_token"}), DOMAIN TelegramRequest))

-----------------------------------------------------------------------------
TwilioForm ==
  Form("send_sms", {},
    [send_sms       |-> {"to", "from", "messaging_service_sid", "body",
          "media_urls"},
     get_message    |-> {"message_sid"},
     list_messages  |-> {"to", "from", "page_size", "date_sent"},
     delete_message |-> {"message_sid"}])
TwilioRequest ==
  [send_sms       |-> OneOf(Op({"body", "to"}, {"from", "media_urls",
        "messaging_service_sid"}), {{"from", "messaging_service_sid"}}),
   get_message    |-> Op({"message_sid"}, {}),
   list_messages  |-> Op({}, {"date_sent", "from", "page_size", "to"}),
   delete_message |-> Op({"message_sid"}, {})]
TwilioCall == Call("send_sms", {"twilio_api"}, {"account_sid", "auth_token"})

-----------------------------------------------------------------------------
ZoomForm ==
  Form("list_meetings", {},
    [list_meetings      |-> {"user_id", "list_type", "page_size",
          "next_page_token"},
     get_meeting        |-> {"meeting_id"},
     create_meeting     |-> {"user_id", "topic", "type", "start_time", "duration",
          "timezone", "agenda", "password", "settings"},
     update_meeting     |-> {"meeting_id", "document"},
     delete_meeting     |-> {"meeting_id", "occurrence_id"},
     list_past_participants |-> {"meeting_id", "page_size", "next_page_token"}])
ZoomRequest ==
  [list_meetings      |-> Op({}, {"list_type", "next_page_token", "page_size",
        "user_id"}),
   get_meeting        |-> Op({"meeting_id"}, {}),
   create_meeting     |-> Op({"topic"}, {"agenda", "duration", "password",
        "settings", "start_time", "timezone", "type", "user_id"}),
   update_meeting     |-> Op({"document", "meeting_id"}, {}),
   delete_meeting     |-> Op({"meeting_id"}, {"occurrence_id"}),
   list_past_participants |-> Op({"meeting_id"}, {"next_page_token", "page_size"})]
ZoomCall == Call("list_meetings", {"zoom_api"}, {"access_token"})

-----------------------------------------------------------------------------
MessagingForms == [brevo |-> BrevoForm, discord |-> DiscordForm, gmail |->
    GmailForm, mailgun |-> MailgunForm, mattermost |-> MattermostForm, pushover |->
    PushoverForm, rocket_chat |-> RocketChatForm, sendgrid |-> SendgridForm, slack
    |-> SlackForm, telegram |-> TelegramForm, twilio |-> TwilioForm, zoom |->
    ZoomForm]
MessagingRequests == [brevo |-> BrevoRequest, discord |-> DiscordRequest, gmail |->
    GmailRequest, mailgun |-> MailgunRequest, mattermost |-> MattermostRequest,
    pushover |-> PushoverRequest, rocket_chat |-> RocketChatRequest, sendgrid |->
    SendgridRequest, slack |-> SlackRequest, telegram |-> TelegramRequest, twilio
    |-> TwilioRequest, zoom |-> ZoomRequest]
MessagingCalls == [brevo |-> BrevoCall, discord |-> DiscordCall, gmail |->
    GmailCall, mailgun |-> MailgunCall, mattermost |-> MattermostCall, pushover |->
    PushoverCall, rocket_chat |-> RocketChatCall, sendgrid |-> SendgridCall, slack
    |-> SlackCall, telegram |-> TelegramCall, twilio |-> TwilioCall, zoom |->
    ZoomCall]
=============================================================================
