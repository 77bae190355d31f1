------------------------------ MODULE CredentialTypes ------------------------------
(* The credential types: which fields each declares, which it marks required,
   which inject() puts on a request, and which test() refuses to do without. *)
EXTENDS NodeTables

ActivecampaignApi == Credential({"api_url", "api_token"}, {"api_url", "api_token"},
      {"api_token"}, {"api_url", "api_token"})
AlgoliaApi == Credential({"application_id", "api_key"}, {"application_id",
      "api_key"}, {"application_id", "api_key"}, {"application_id", "api_key"})
AlpacaApi == Credential({"api_key_id", "api_secret_key", "environment"},
      {"api_key_id", "api_secret_key", "environment"}, {"api_key_id",
      "api_secret_key"}, {"api_key_id", "api_secret_key"})
AnthropicApi == Credential({"api_key", "anthropic_version", "anthropic_beta"},
      {"api_key", "anthropic_version"}, {"api_key", "anthropic_version",
      "anthropic_beta"}, {"api_key"})
ApiKeyHeader == Credential({"header_name", "api_key"}, {"header_name", "api_key"},
      {"header_name", "api_key"}, {"header_name", "api_key"})
ApiKeyQuery == Credential({"param_name", "api_key"}, {"param_name", "api_key"},
      {"param_name", "api_key"}, {"param_name", "api_key"})
AsanaApi == Credential({"access_token", "enable_flags"}, {"access_token"},
      {"access_token", "enable_flags"}, {"access_token"})
AscApi == RaisesWithout(Credential({"issuer_id", "key_id", "private_key"},
      {"issuer_id", "key_id", "private_key"}, {"issuer_id", "key_id",
      "private_key"}, {"issuer_id", "key_id", "private_key"}), {"issuer_id",
      "key_id", "private_key"})
AwsS3 == RaisesWithout(Credential({"access_key_id", "secret_access_key", "region",
      "session_token"}, {"access_key_id", "secret_access_key", "region"},
      {"access_key_id", "secret_access_key", "region", "session_token"},
      {"access_key_id", "secret_access_key", "region"}), {"access_key_id",
      "secret_access_key"})
AzureStorageSharedKey == Credential({"account_name", "account_key", "api_version"},
      {"account_name", "account_key"}, {"account_name", "account_key",
      "api_version"}, {"account_name", "account_key"})
BackblazeB2 == Credential({"key_id", "application_key"}, {"key_id",
      "application_key"}, {}, {"key_id", "application_key"})
BasicAuth == Credential({"username", "password"}, {"username", "password"},
      {"username", "password"}, {"username", "password"})
BearerToken == Credential({"token"}, {"token"}, {"token"}, {"token"})
BinanceApi == Credential({"api_key", "api_secret", "environment"}, {"api_key",
      "api_secret", "environment"}, {"api_key"}, {"api_key", "api_secret"})
BitbucketApi == Credential({"username", "app_password", "workspace"}, {"username",
      "app_password", "workspace"}, {"username", "app_password"}, {"username",
      "app_password"})
BoxApi == Credential({"access_token", "as_user_id"}, {"access_token"},
      {"access_token", "as_user_id"}, {"access_token"})
BrevoApi == Credential({"api_key"}, {"api_key"}, {"api_key"}, {"api_key"})
ChromaApi == Credential({"base_url", "token", "tenant", "database"}, {}, {"token"},
      {})
ClickupApi == Credential({"api_token"}, {"api_token"}, {"api_token"},
      {"api_token"})
CloudflareApi == Credential({"api_email", "api_key"}, {"api_email", "api_key"},
      {"api_email", "api_key"}, {"api_email", "api_key"})
CloudinaryApi == Credential({"cloud_name", "api_key", "api_secret"}, {"cloud_name",
      "api_key", "api_secret"}, {"api_key", "api_secret"}, {"cloud_name",
      "api_key", "api_secret"})
CoinbaseExchange == Credential({"api_key", "api_secret", "passphrase"}, {"api_key",
      "api_secret", "passphrase"}, {"api_key", "api_secret", "passphrase"},
      {"api_key", "api_secret", "passphrase"})
ContentfulApi == Credential({"api_token", "space_id", "environment"}, {"api_token",
      "space_id", "environment"}, {"api_token"}, {"api_token", "space_id"})
DatadogApi == Credential({"api_key", "application_key", "site"}, {"api_key",
      "site"}, {"api_key", "application_key"}, {"api_key", "site"})
DiscordBot == Credential({"bot_token"}, {"bot_token"}, {"bot_token"},
      {"bot_token"})
DocusignJwt == Credential({"integration_key", "user_id", "private_key",
      "environment", "account_base_url"}, {"integration_key", "user_id",
      "private_key", "environment", "account_base_url"}, {}, {"integration_key",
      "user_id", "private_key"})
DropboxApi == Credential({"access_token"}, {"access_token"}, {"access_token"},
      {"access_token"})
ElasticsearchApi == Credential({"api_key_id", "api_key", "base_url"},
      {"api_key_id", "api_key", "base_url"}, {"api_key_id", "api_key"},
      {"api_key_id", "api_key", "base_url"})
FacebookGraph == Credential({"access_token", "app_secret", "api_version"},
      {"access_token"}, {"access_token", "app_secret"}, {"access_token"})
FreshdeskApi == Credential({"api_key", "subdomain"}, {"api_key", "subdomain"},
      {"api_key"}, {"api_key", "subdomain"})
Ga4Measurement == Credential({"measurement_id", "api_secret"}, {"measurement_id",
      "api_secret"}, {"measurement_id", "api_secret"}, {"measurement_id",
      "api_secret"})
GcpServiceAccount == Credential({"client_email", "private_key", "scope",
      "subject"}, {"client_email", "private_key"}, {}, {"client_email",
      "private_key"})
GhostAdmin == RaisesWithout(Credential({"base_url", "admin_api_key"}, {"base_url",
      "admin_api_key"}, {"admin_api_key"}, {"base_url", "admin_api_key"}),
      {"admin_api_key"})
GitlabToken == Credential({"base_url", "access_token"}, {"access_token"},
      {"access_token"}, {"access_token"})
GmailOauth2 == Credential({"authorization_url", "token_url", "client_id",
      "client_secret", "scope", "access_token", "refresh_token", "expires_at"},
      {"authorization_url", "token_url", "client_id", "client_secret"},
      {"access_token"}, {"access_token"})
GoogleDriveOauth2 == Credential({"authorization_url", "token_url", "client_id",
      "client_secret", "scope", "access_token", "refresh_token", "expires_at"},
      {"authorization_url", "token_url", "client_id", "client_secret"},
      {"access_token"}, {"access_token"})
GoogleGenaiApi == Credential({"api_key"}, {"api_key"}, {"api_key"}, {"api_key"})
GoogleSheetsOauth2 == Credential({"authorization_url", "token_url", "client_id",
      "client_secret", "scope", "access_token", "refresh_token", "expires_at"},
      {"authorization_url", "token_url", "client_id", "client_secret"},
      {"access_token"}, {"access_token"})
HarvestApi == Credential({"access_token", "account_id"}, {"access_token",
      "account_id"}, {"access_token", "account_id"}, {"access_token",
      "account_id"})
HasuraApi == Credential({"base_url", "admin_secret", "role"}, {"base_url",
      "admin_secret"}, {"admin_secret", "role"}, {"base_url", "admin_secret"})
HubspotPrivateApp == Credential({"access_token"}, {"access_token"},
      {"access_token"}, {"access_token"})
IntercomApi == Credential({"access_token", "api_version"}, {"access_token"},
      {"access_token", "api_version"}, {"access_token"})
JiraCloud == Credential({"site", "email", "api_token"}, {"site", "email",
      "api_token"}, {"email", "api_token"}, {"site", "email", "api_token"})
KlaviyoApi == Credential({"api_key", "revision"}, {"api_key", "revision"},
      {"api_key", "revision"}, {"api_key"})
LinearApi == Credential({"api_key"}, {"api_key"}, {"api_key"}, {"api_key"})
MailchimpApi == Credential({"api_key"}, {"api_key"}, {"api_key"}, {"api_key"})
MapboxApi == Credential({"access_token"}, {"access_token"}, {"access_token"},
      {"access_token"})
MattermostApi == Credential({"access_token", "base_url"}, {"access_token",
      "base_url"}, {"access_token"}, {"access_token", "base_url"})
MicrosoftGraph == Credential({"access_token", "tenant_id"}, {"access_token",
      "tenant_id"}, {"access_token"}, {"access_token", "tenant_id"})
MistralApi == Credential({"api_key"}, {"api_key"}, {"api_key"}, {"api_key"})
MixpanelApi == Credential({"project_token", "api_secret"}, {"project_token"}, {},
      {"project_token"})
MondayApi == Credential({"api_token"}, {"api_token"}, {"api_token"}, {"api_token"})
MongodbAtlasApi == Credential({"public_key", "private_key"}, {"public_key",
      "private_key"}, {}, {"public_key", "private_key"})
NetsuiteApi == RaisesWithout(Credential({"account_id", "consumer_key",
      "consumer_secret", "token_id", "token_secret"}, {"account_id",
      "consumer_key", "consumer_secret", "token_id", "token_secret"},
      {"account_id", "consumer_key", "consumer_secret", "token_id",
      "token_secret"}, {"account_id", "consumer_key", "consumer_secret",
      "token_id", "token_secret"}), {"account_id", "consumer_key",
      "consumer_secret", "token_id", "token_secret"})
NotionApi == Credential({"access_token", "notion_version"}, {"access_token"},
      {"access_token", "notion_version"}, {"access_token"})
Oauth2Generic == Credential({"authorization_url", "token_url", "client_id",
      "client_secret", "scope", "access_token", "refresh_token", "expires_at"},
      {"authorization_url", "token_url", "client_id", "client_secret"},
      {"access_token"}, {"access_token"})
OktaApi == Credential({"api_token", "org_url"}, {"api_token", "org_url"},
      {"api_token"}, {"api_token", "org_url"})
OllamaApi == Credential({"base_url", "api_key"}, {}, {"api_key"}, {})
OpenaiApi == Credential({"api_key", "organization_id", "project_id"}, {"api_key"},
      {"api_key", "organization_id", "project_id"}, {"api_key"})
PagerdutyApi == Credential({"api_key", "from_email"}, {"api_key"}, {"api_key",
      "from_email"}, {"api_key"})
PaypalApi == Credential({"client_id", "client_secret", "environment"},
      {"client_id", "client_secret", "environment"}, {}, {"client_id",
      "client_secret"})
PineconeApi == Credential({"api_key"}, {"api_key"}, {"api_key"}, {"api_key"})
PipedriveApi == Credential({"api_token", "company_domain"}, {"api_token",
      "company_domain"}, {"api_token"}, {"api_token", "company_domain"})
PlaidApi == Credential({"client_id", "secret", "environment"}, {"client_id",
      "secret", "environment"}, {}, {"client_id", "secret"})
PostgresDsn == Credential({"dsn"}, {"dsn"}, {}, {"dsn"})
PosthogApi == Credential({"project_api_key", "personal_api_key", "host"},
      {"project_api_key"}, {}, {"project_api_key"})
PushoverApi == Credential({"app_token", "user_key"}, {"app_token", "user_key"}, {},
      {"app_token", "user_key"})
QdrantApi == Credential({"base_url", "api_key"}, {}, {"api_key"}, {})
QuickbooksOauth2 == Credential({"access_token", "realm_id", "environment",
      "minor_version"}, {"access_token", "realm_id", "environment"},
      {"access_token"}, {"access_token", "realm_id"})
RedditOauth2 == Credential({"access_token", "platform", "app_id", "version",
      "username"}, {"access_token", "platform", "app_id", "version", "username"},
      {"access_token", "platform", "app_id", "version", "username"},
      {"access_token"})
RocketChatApi == Credential({"base_url", "user_id", "auth_token"}, {"base_url",
      "user_id", "auth_token"}, {"user_id", "auth_token"}, {"base_url", "user_id",
      "auth_token"})
SalesforceApi == Credential({"access_token", "instance_url"}, {"access_token",
      "instance_url"}, {"access_token"}, {"access_token", "instance_url"})
SegmentWriteKey == Credential({"write_key"}, {"write_key"}, {"write_key"},
      {"write_key"})
ShopifyAdmin == Credential({"shop", "access_token", "api_version"}, {"shop",
      "access_token"}, {"access_token"}, {"shop", "access_token"})
SlackApi == Credential({"access_token", "default_channel"}, {"access_token"},
      {"access_token"}, {"access_token"})
SlackOauth2 == Credential({"authorization_url", "token_url", "client_id",
      "client_secret", "scope", "default_channel", "access_token", "refresh_token",
      "expires_at"}, {"authorization_url", "token_url", "client_id",
      "client_secret"}, {"access_token"}, {"access_token"})
SnowflakeApi == RaisesWithout(Credential({"account", "token", "token_type"},
      {"account", "token", "token_type"}, {"token", "token_type"}, {"account",
      "token", "token_type"}), {"token_type"})
SquareApi == Credential({"access_token", "api_version", "environment"},
      {"access_token", "api_version", "environment"}, {"access_token",
      "api_version"}, {"access_token", "api_version"})
SupabaseApi == Credential({"service_role_key", "project_url"}, {"service_role_key",
      "project_url"}, {"service_role_key"}, {"service_role_key", "project_url"})
TelegramBot == Credential({"bot_token"}, {"bot_token"}, {}, {"bot_token"})
TrelloApi == Credential({"api_key", "api_token"}, {"api_key", "api_token"},
      {"api_key", "api_token"}, {"api_key", "api_token"})
TwilioApi == Credential({"account_sid", "auth_token"}, {"account_sid",
      "auth_token"}, {"account_sid", "auth_token"}, {"account_sid", "auth_token"})
TwitchApi == Credential({"access_token", "client_id"}, {"access_token",
      "client_id"}, {"access_token", "client_id"}, {"access_token", "client_id"})
XeroApi == Credential({"access_token", "tenant_id"}, {"access_token", "tenant_id"},
      {"access_token", "tenant_id"}, {"access_token", "tenant_id"})
ZendeskApi == Credential({"subdomain", "email", "api_token"}, {"subdomain",
      "email", "api_token"}, {"email", "api_token"}, {"subdomain", "email",
      "api_token"})
ZohoCrmOauth2 == Credential({"access_token", "datacenter"}, {"access_token",
      "datacenter"}, {"access_token"}, {"access_token"})
ZoomApi == Credential({"access_token", "account_id"}, {"access_token",
      "account_id"}, {"access_token"}, {"access_token", "account_id"})

-----------------------------------------------------------------------------
\* CredentialTypeRegistry, by the slug each type is registered under.
RegisteredTypes == [activecampaign_api |-> ActivecampaignApi, algolia_api |->
    AlgoliaApi, alpaca_api |-> AlpacaApi, anthropic_api |-> AnthropicApi,
    api_key_header |-> ApiKeyHeader, api_key_query |-> ApiKeyQuery, asana_api |->
    AsanaApi, asc_api |-> AscApi, aws_s3 |-> AwsS3, azure_storage_shared_key |->
    AzureStorageSharedKey, backblaze_b2 |-> BackblazeB2, basic_auth |-> BasicAuth,
    bearer_token |-> BearerToken, binance_api |-> BinanceApi, bitbucket_api |->
    BitbucketApi, box_api |-> BoxApi, brevo_api |-> BrevoApi, chroma |-> ChromaApi,
    clickup_api |-> ClickupApi, cloudflare_api |-> CloudflareApi, cloudinary_api
    |-> CloudinaryApi, coinbase_exchange |-> CoinbaseExchange, contentful_api |->
    ContentfulApi, datadog_api |-> DatadogApi, discord_bot |-> DiscordBot,
    docusign_jwt |-> DocusignJwt, dropbox_api |-> DropboxApi, elasticsearch_api |->
    ElasticsearchApi, facebook_graph |-> FacebookGraph, freshdesk_api |->
    FreshdeskApi, ga4_measurement |-> Ga4Measurement, gcp_service_account |->
    GcpServiceAccount, ghost_admin |-> GhostAdmin, gitlab_token |-> GitlabToken,
    gmail_oauth2 |-> GmailOauth2, google_drive_oauth2 |-> GoogleDriveOauth2,
    google_genai_api |-> GoogleGenaiApi, google_sheets_oauth2 |->
    GoogleSheetsOauth2, harvest_api |-> HarvestApi, hasura_api |-> HasuraApi,
    hubspot_private_app |-> HubspotPrivateApp, intercom_api |-> IntercomApi,
    jira_cloud |-> JiraCloud, klaviyo_api |-> KlaviyoApi, linear_api |-> LinearApi,
    mailchimp_api |-> MailchimpApi, mapbox_api |-> MapboxApi, mattermost_api |->
    MattermostApi, microsoft_graph |-> MicrosoftGraph, mistral_api |-> MistralApi,
    mixpanel_api |-> MixpanelApi, monday_api |-> MondayApi, mongodb_atlas_api |->
    MongodbAtlasApi, netsuite_api |-> NetsuiteApi, notion_api |-> NotionApi,
    oauth2_generic |-> Oauth2Generic, okta_api |-> OktaApi, ollama_api |->
    OllamaApi, openai_api |-> OpenaiApi, pagerduty_api |-> PagerdutyApi, paypal_api
    |-> PaypalApi, pinecone_api |-> PineconeApi, pipedrive_api |-> PipedriveApi,
    plaid_api |-> PlaidApi, postgres_dsn |-> PostgresDsn, posthog_api |->
    PosthogApi, pushover_api |-> PushoverApi, qdrant_api |-> QdrantApi,
    quickbooks_oauth2 |-> QuickbooksOauth2, reddit_oauth2 |-> RedditOauth2,
    rocket_chat_api |-> RocketChatApi, salesforce_api |-> SalesforceApi,
    segment_write_key |-> SegmentWriteKey, shopify_admin |-> ShopifyAdmin,
    slack_api |-> SlackApi, slack_oauth2 |-> SlackOauth2, snowflake_api |->
    SnowflakeApi, square_api |-> SquareApi, supabase_api |-> SupabaseApi,
    telegram_bot |-> TelegramBot, trello_api |-> TrelloApi, twilio_api |->
    TwilioApi, twitch_api |-> TwitchApi, xero_api |-> XeroApi, zendesk_api |->
    ZendeskApi, zoho_crm_oauth2 |-> ZohoCrmOauth2, zoom_api |-> ZoomApi]
=============================================================================
