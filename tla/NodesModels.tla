------------------------------ MODULE NodesModels ------------------------------
(* The language-model and vector-store nodes.
   For each node: the form its specification declares (XForm), what each
   request builder needs and reads (XRequest), and how the node resolves its
   credential and judges an answer (XCall).  The constructors are in
   NodeTables. *)
EXTENDS NodeTables

-----------------------------------------------------------------------------
AnthropicForm ==
  Form("create_message", {},
    [create_message |-> {"model", "messages", "system", "max_tokens",
          "temperature", "metadata"},
     count_tokens   |-> {"model", "messages", "system"},
     get_model      |-> {"model_id"}])
AnthropicRequest ==
  [create_message |-> Op({"messages"}, {"max_tokens", "metadata", "model",
        "system", "temperature"}),
   count_tokens   |-> Op({"messages"}, {"model", "system"}),
   list_models    |-> Op({}, {}),
   get_model      |-> Op({"model_id"}, {})]
AnthropicCall == Call("create_message", {"anthropic_api"}, {"api_key"})

-----------------------------------------------------------------------------
GoogleGenaiForm ==
  Form("generate_content", {},
    [generate_content |-> {"model", "contents", "system", "temperature",
          "max_output_tokens", "top_p", "top_k", "safety_settings"},
     count_tokens     |-> {"model", "contents"},
     get_model        |-> {"model_id"}])
GoogleGenaiRequest ==
  [generate_content |-> Op({"contents"}, {"max_output_tokens", "model",
        "safety_settings", "system", "temperature", "top_k", "top_p"}),
   count_tokens     |-> Op({"contents"}, {"model"}),
   list_models      |-> Op({}, {}),
   get_model        |-> Op({"model_id"}, {})]
GoogleGenaiCall == Call("generate_content", {"google_genai_api"}, {"api_key"})

-----------------------------------------------------------------------------
MistralForm ==
  Form("chat_completion", {},
    [chat_completion  |-> {"model", "messages", "temperature", "top_p",
          "max_tokens", "response_format", "tools", "safe_prompt"},
     fim_completion   |-> {"model", "prompt", "suffix", "temperature", "top_p",
          "max_tokens"},
     create_embedding |-> {"model", "input"}])
MistralRequest ==
  [chat_completion  |-> Op({"messages"}, {"max_tokens", "model", "response_format",
        "safe_prompt", "temperature", "tools", "top_p"}),
   fim_completion   |-> Op({"prompt"}, {"max_tokens", "model", "suffix",
        "temperature", "top_p"}),
   create_embedding |-> Op({"input"}, {"model"}),
   list_models      |-> Op({}, {})]
MistralCall == Call("chat_completion", {"mistral_api"}, {"api_key"})

-----------------------------------------------------------------------------
OllamaForm ==
  Form("chat", {},
    [chat       |-> {"model", "messages", "format", "options"},
     generate   |-> {"model", "prompt", "system", "format", "options"},
     embeddings |-> {"model", "prompt", "options"}])
OllamaRequest ==
  [chat        |-> Op({"messages"}, {"format", "model", "options"}),
   generate    |-> Op({"prompt"}, {"format", "model", "options", "system"}),
   embeddings  |-> Op({"prompt"}, {"model", "options"}),
   list_models |-> Op({}, {})]
OllamaCall == Optional(Call("chat", {"ollama_api"}, {}))

-----------------------------------------------------------------------------
OpenaiForm ==
  Form("chat_completion", {},
    [chat_completion   |-> {"model", "messages", "temperature", "top_p",
          "max_tokens", "response_format", "tools"},
     create_embedding  |-> {"model", "input", "dimensions"},
     get_model         |-> {"model"},
     create_moderation |-> {"model", "input"},
     create_image      |-> {"response_format", "prompt", "size", "n"}])
OpenaiRequest ==
  [chat_completion   |-> Op({"messages", "model"}, {"max_tokens",
        "response_format", "temperature", "tools", "top_p"}),
   create_embedding  |-> Op({"input", "model"}, {"dimensions"}),
   list_models       |-> Op({}, {}),
   get_model         |-> Op({"model"}, {}),
   create_moderation |-> Op({"input"}, {"model"}),
   create_image      |-> Op({"prompt"}, {"model", "n", "response_format", "size"})]
OpenaiCall == Call("chat_completion", {"openai_api"}, {"api_key"})

-----------------------------------------------------------------------------
PineconeForm ==
  Form("list_indexes", {},
    [describe_index |-> {"index_name"},
     query_vectors  |-> {"host", "namespace", "top_k", "vector", "id", "filter",
          "include_values", "include_metadata"},
     upsert_vectors |-> {"host", "namespace", "vectors"},
     fetch_vectors  |-> {"host", "namespace", "ids"},
     delete_vectors |-> {"host", "namespace", "filter", "ids", "delete_all"}])
PineconeRequest ==
  [list_indexes   |-> Op({}, {}),
   describe_index |-> Op({"index_name"}, {}),
   query_vectors  |-> OneOf(Op({"top_k"}, {"filter", "id", "include_metadata",
        "include_values", "namespace", "vector"}), {{"id", "vector"}}),
   upsert_vectors |-> Op({"vectors"}, {"namespace"}),
   fetch_vectors  |-> Op({"ids"}, {"namespace"}),
   delete_vectors |-> OneOf(Op({}, {"delete_all", "filter", "ids", "namespace"}),
        {{"delete_all", "ids"}})]
PineconeCall == NodeNeeds(Call("list_indexes", {"pinecone_api"}, {"api_key"}), [op
      \in {"query_vectors", "upsert_vectors", "fetch_vectors", "delete_vectors"}
      |-> {"host"}])

-----------------------------------------------------------------------------
ModelsForms == [anthropic |-> AnthropicForm, google_genai |-> GoogleGenaiForm,
    mistral |-> MistralForm, ollama |-> OllamaForm, openai |-> OpenaiForm, pinecone
    |-> PineconeForm]
ModelsRequests == [anthropic |-> AnthropicRequest, google_genai |->
    GoogleGenaiRequest, mistral |-> MistralRequest, ollama |-> OllamaRequest,
    openai |-> OpenaiRequest, pinecone |-> PineconeRequest]
ModelsCalls == [anthropic |-> AnthropicCall, google_genai |-> GoogleGenaiCall,
    mistral |-> MistralCall, ollama |-> OllamaCall, openai |-> OpenaiCall, pinecone
    |-> PineconeCall]
=============================================================================
