------------------------------ MODULE NodesCommerce ------------------------------
(* The payment, trading, accounting and signature nodes.
   For each node: the form its specification declares (XForm), what each
   request builder needs and reads (XRequest), and how the node resolves its
   credential and judges an answer (XCall).  The constructors are in
   NodeTables. *)
EXTENDS NodeTables

-----------------------------------------------------------------------------
AlpacaForm ==
  Form("get_account", {},
    [place_order |-> {"symbol", "side", "order_type", "qty", "notional",
          "limit_price", "time_in_force", "client_order_id"}])
AlpacaRequest ==
  [get_account    |-> Op({}, {}),
   list_positions |-> Op({}, {}),
   place_order    |-> Cases(Op({"symbol", "side"}, {"client_order_id",
        "limit_price", "notional", "order_type", "qty", "time_in_force"}),
        {{{"qty", "notional"}}, {{"qty", "notional"}, {"limit_price"}}}),
   get_clock      |-> Op({}, {})]
AlpacaCall == Call("get_account", {"alpaca_api"}, {"api_key_id", "api_secret_key"})

-----------------------------------------------------------------------------
BinanceForm ==
  Form("account_info", {},
    [account_info     |-> {"recv_window"},
     get_ticker_price |-> {"symbol"},
     place_order      |-> {"symbol", "side", "order_type", "price", "quantity",
          "quote_order_qty", "time_in_force", "client_order_id", "recv_window"},
     cancel_order     |-> {"symbol", "order_id", "orig_client_order_id",
          "recv_window"}])
BinanceRequest ==
  [account_info     |-> Op({}, {}),
   get_ticker_price |-> Op({}, {"symbol"}),
   place_order      |-> Cases(Op({"symbol", "side"}, {"client_order_id",
        "order_type", "price", "quantity", "quote_order_qty", "time_in_force"}),
        {{{"price"}, {"quantity"}}, {{"quantity", "quote_order_qty"}}}),
   cancel_order     |-> OneOf(Op({"symbol"}, {"order_id", "orig_client_order_id"}),
        {{"order_id", "orig_client_order_id"}})]
BinanceCall == NodeReads(Call("account_info", {"binance_api"}, {"api_key",
      "api_secret"}), [op \in {"account_info", "place_order", "cancel_order"} |->
      {"recv_window"}])

-----------------------------------------------------------------------------
CoinbaseForm ==
  Form("list_accounts", {},
    [get_product_ticker |-> {"product_id"},
     place_order        |-> {"product_id", "side", "order_type", "price", "size",
          "funds", "time_in_force", "client_oid"},
     cancel_order       |-> {"order_id"}])
CoinbaseRequest ==
  [list_accounts      |-> Op({}, {}),
   get_product_ticker |-> Op({"product_id"}, {}),
   place_order        |-> Cases(Op({"product_id", "side"}, {"client_oid", "funds",
        "order_type", "price", "size", "time_in_force"}), {{{"price"}, {"size"}},
        {{"size", "funds"}}}),
   cancel_order       |-> Op({"order_id"}, {})]
CoinbaseCall == Call("list_accounts", {"coinbase_exchange"}, {"api_key",
      "api_secret", "passphrase"})

-----------------------------------------------------------------------------
DocusignForm ==
  Form("list_envelopes", {"account_id"},
    [list_envelopes  |-> {"from_date", "status"},
     get_envelope    |-> {"envelope_id"},
     create_envelope |-> {"email_subject", "email_message", "status",
          "template_id", "template_roles", "documents", "recipients"}])
DocusignRequest ==
  [list_envelopes  |-> Op({}, {"from_date", "status"}),
   get_envelope    |-> Op({"envelope_id"}, {}),
   create_envelope |-> OneOf(Op({"email_subject"}, {"documents", "email_message",
        "recipients", "status", "template_id", "template_roles"}), {{"documents",
        "template_id"}}),
   list_templates  |-> Op({}, {})]
DocusignCall == NodeNeeds(Exchanging(Call("list_envelopes", {"docusign_jwt"},
      {"integration_key", "user_id", "private_key", "account_base_url"})), [op \in
      DOMAIN DocusignRequest |-> {"account_id"}])

-----------------------------------------------------------------------------
NetsuiteForm ==
  Form("suiteql_query", {},
    [suiteql_query |-> {"query", "limit", "offset"},
     record_get    |-> {"record_type", "record_id"},
     record_create |-> {"record_type", "document"},
     record_delete |-> {"record_type", "record_id"}])
NetsuiteRequest ==
  [suiteql_query |-> Op({"query"}, {"limit", "offset"}),
   record_get    |-> Op({"record_id", "record_type"}, {}),
   record_create |-> Op({"document", "record_type"}, {}),
   record_delete |-> Op({"record_id", "record_type"}, {})]
NetsuiteCall == Call("suiteql_query", {"netsuite_api"}, {"account_id",
      "consumer_key", "consumer_secret", "token_id", "token_secret"})

-----------------------------------------------------------------------------
PaypalForm ==
  Form("create_order", {},
    [create_order   |-> {"intent", "currency", "amount", "reference_id",
          "request_id"},
     get_order      |-> {"order_id"},
     capture_order  |-> {"order_id", "request_id"},
     refund_capture |-> {"currency", "amount", "capture_id", "note_to_payer",
          "request_id"},
     list_invoices  |-> {"page", "page_size", "total_required"},
     get_invoice    |-> {"invoice_id"}])
PaypalRequest ==
  [create_order   |-> Op({"amount", "currency"}, {"intent", "reference_id",
        "request_id"}),
   get_order      |-> Op({"order_id"}, {}),
   capture_order  |-> Op({"order_id"}, {"request_id"}),
   refund_capture |-> Op({"capture_id"}, {"amount", "currency", "note_to_payer",
        "request_id"}),
   list_invoices  |-> Op({}, {"page", "page_size", "total_required"}),
   get_invoice    |-> Op({"invoice_id"}, {})]
PaypalCall == Exchanging(Call("create_order", {"paypal_api"}, {"client_id",
      "client_secret"}))

-----------------------------------------------------------------------------
PlaidForm ==
  Form("link_token_create", {},
    [link_token_create |-> {"client_name", "client_user_id", "products",
          "country_codes", "language", "webhook"},
     item_get          |-> {"access_token"},
     accounts_get      |-> {"access_token", "account_ids"},
     transactions_sync |-> {"access_token", "cursor", "count"}])
PlaidRequest ==
  [link_token_create |-> Op({"client_name", "client_user_id", "country_codes",
        "products"}, {"language", "webhook"}),
   item_get          |-> Op({"access_token"}, {}),
   accounts_get      |-> Op({"access_token"}, {"account_ids"}),
   transactions_sync |-> Op({"access_token"}, {"count", "cursor"})]
PlaidCall == Call("link_token_create", {"plaid_api"}, {"client_id", "secret"})

-----------------------------------------------------------------------------
QuickbooksForm ==
  Form("query", {},
    [query           |-> {"query"},
     get_invoice     |-> {"invoice_id"},
     create_invoice  |-> {"invoice_id", "document"},
     get_customer    |-> {"customer_id"},
     create_customer |-> {"customer_id", "document"}])
QuickbooksRequest ==
  [query           |-> Op({"query"}, {}),
   get_invoice     |-> Op({"invoice_id"}, {}),
   create_invoice  |-> Op({"document"}, {}),
   get_customer    |-> Op({"customer_id"}, {}),
   create_customer |-> Op({"document"}, {})]
QuickbooksCall == Call("query", {"quickbooks_oauth2"}, {"access_token",
      "realm_id"})

-----------------------------------------------------------------------------
ShopifyForm ==
  Form("list_products", {},
    [list_products  |-> {"limit", "since_id", "vendor"},
     get_product    |-> {"product_id"},
     create_product |-> {"product"},
     update_product |-> {"product_id", "product"},
     list_orders    |-> {"limit", "since_id", "status"},
     get_order      |-> {"order_id"}])
ShopifyRequest ==
  [list_products  |-> Op({}, {"limit", "since_id", "vendor"}),
   get_product    |-> Op({"product_id"}, {}),
   create_product |-> Op({"product"}, {}),
   update_product |-> Op({"product", "product_id"}, {}),
   list_orders    |-> Op({}, {"limit", "since_id", "status"}),
   get_order      |-> Op({"order_id"}, {})]
ShopifyCall == Call("list_products", {"shopify_admin"}, {"shop", "access_token"})

-----------------------------------------------------------------------------
SquareForm ==
  Form("list_customers", {},
    [list_customers  |-> {"cursor", "limit"},
     get_customer    |-> {"customer_id"},
     create_customer |-> {"document"},
     list_payments   |-> {"cursor", "limit", "begin_time", "end_time",
          "location_id"},
     create_payment  |-> {"location_id", "source_id", "amount", "currency",
          "idempotency_key"},
     search_orders   |-> {"cursor", "limit", "location_ids", "query"}])
SquareRequest ==
  [list_customers  |-> Op({}, {"cursor", "limit"}),
   get_customer    |-> Op({"customer_id"}, {}),
   create_customer |-> Op({"document"}, {}),
   list_payments   |-> Op({}, {"begin_time", "cursor", "end_time", "limit",
        "location_id"}),
   create_payment  |-> Op({"amount", "currency", "source_id"}, {"idempotency_key",
        "location_id"}),
   search_orders   |-> Op({"location_ids"}, {"cursor", "limit", "query"})]
SquareCall == Call("list_customers", {"square_api"}, {"access_token",
      "api_version"})

-----------------------------------------------------------------------------
StripeForm ==
  Form("create_customer", {"idempotency_key"},
    [create_customer    |-> {"email", "name", "description", "metadata"},
     list_customers     |-> {"email", "limit", "starting_after"},
     create_payment_intent |-> {"description", "metadata", "amount", "currency",
          "customer", "payment_method_types"}])
StripeRequest ==
  [create_customer    |-> OneOf(Op({}, {"description", "email", "metadata",
        "name"}), {{"description", "email", "name"}}),
   list_customers     |-> Op({}, {"email", "limit", "starting_after"}),
   create_payment_intent |-> Op({"amount", "currency"}, {"customer", "description",
        "metadata", "payment_method_types"})]
StripeCall == NodeReads(Call("create_customer", {"bearer_token"}, {"token"}), [op
      \in DOMAIN StripeRequest |-> {"idempotency_key"}])

-----------------------------------------------------------------------------
XeroForm ==
  Form("list_invoices", {},
    [list_invoices  |-> {"where", "order", "statuses", "page", "page_size"},
     get_invoice    |-> {"invoice_id"},
     create_invoice |-> {"document"},
     update_invoice |-> {"invoice_id", "document"},
     list_contacts  |-> {"where", "order", "ids", "page"},
     list_accounts  |-> {"where", "order"}])
XeroRequest ==
  [list_invoices  |-> Op({}, {"order", "page", "page_size", "statuses", "where"}),
   get_invoice    |-> Op({"invoice_id"}, {}),
   create_invoice |-> Op({"document"}, {}),
   update_invoice |-> Op({"document", "invoice_id"}, {}),
   list_contacts  |-> Op({}, {"ids", "order", "page", "where"}),
   list_accounts  |-> Op({}, {"order", "where"})]
XeroCall == Call("list_invoices", {"xero_api"}, {"access_token", "tenant_id"})

-----------------------------------------------------------------------------
CommerceForms == [alpaca |-> AlpacaForm, binance |-> BinanceForm, coinbase |->
    CoinbaseForm, docusign |-> DocusignForm, netsuite |-> NetsuiteForm, paypal |->
    PaypalForm, plaid |-> PlaidForm, quickbooks |-> QuickbooksForm, shopify |->
    ShopifyForm, square |-> SquareForm, stripe |-> StripeForm, xero |-> XeroForm]
CommerceRequests == [alpaca |-> AlpacaRequest, binance |-> BinanceRequest, coinbase
    |-> CoinbaseRequest, docusign |-> DocusignRequest, netsuite |->
    NetsuiteRequest, paypal |-> PaypalRequest, plaid |-> PlaidRequest, quickbooks
    |-> QuickbooksRequest, shopify |-> ShopifyRequest, square |-> SquareRequest,
    stripe |-> StripeRequest, xero |-> XeroRequest]
CommerceCalls == [alpaca |-> AlpacaCall, binance |-> BinanceCall, coinbase |->
    CoinbaseCall, docusign |-> DocusignCall, netsuite |-> NetsuiteCall, paypal |->
    PaypalCall, plaid |-> PlaidCall, quickbooks |-> QuickbooksCall, shopify |->
    ShopifyCall, square |-> SquareCall, stripe |-> StripeCall, xero |-> XeroCall]
=============================================================================
