------------------------------ MODULE NodesStorage ------------------------------
(* The file and object store nodes.
   For each node: the form its specification declares (XForm), what each
   request builder needs and reads (XRequest), and how the node resolves its
   credential and judges an answer (XCall).  The constructors are in
   NodeTables. *)
EXTENDS NodeTables

-----------------------------------------------------------------------------
AwsS3Form ==
  Form("list_objects", {},
    [list_objects  |-> {"bucket", "prefix", "delimiter", "continuation_token",
          "max_keys"},
     head_object   |-> {"bucket", "key"},
     get_object    |-> {"bucket", "key"},
     delete_object |-> {"bucket", "key"},
     copy_object   |-> {"bucket", "key", "source_bucket", "source_key"}])
AwsS3Request ==
  [list_buckets  |-> Op({}, {}),
   list_objects  |-> Op({"bucket"}, {"continuation_token", "delimiter", "max_keys",
        "prefix"}),
   head_object   |-> Op({"bucket", "key"}, {}),
   get_object    |-> Op({"bucket", "key"}, {}),
   delete_object |-> Op({"bucket", "key"}, {}),
   copy_object   |-> Op({"bucket", "key", "source_bucket", "source_key"}, {})]
AwsS3Call == Call("list_objects", {"aws_s3"}, {"access_key_id",
      "secret_access_key", "region"})

-----------------------------------------------------------------------------
AzureBlobForm ==
  Form("list_blobs", {},
    [list_containers |-> {"prefix", "marker"},
     list_blobs      |-> {"container", "prefix", "delimiter", "marker"},
     get_blob        |-> {"container", "blob"},
     put_blob        |-> {"container", "blob", "body", "content_type"},
     delete_blob     |-> {"container", "blob"}])
AzureBlobRequest ==
  [list_containers |-> Op({}, {"marker", "prefix"}),
   list_blobs      |-> Op({"container"}, {"delimiter", "marker", "prefix"}),
   get_blob        |-> Op({"blob", "container"}, {}),
   put_blob        |-> Op({"blob", "container"}, {"body", "content_type"}),
   delete_blob     |-> Op({"blob", "container"}, {})]
AzureBlobCall == Call("list_blobs", {"azure_storage_shared_key"}, {"account_name",
      "account_key"})

-----------------------------------------------------------------------------
BackblazeB2Form ==
  Form("list_buckets", {},
    [list_buckets       |-> {"bucket", "bucket_id"},
     list_file_names    |-> {"bucket_id", "prefix", "delimiter", "start_file_name",
          "max_file_count"},
     get_upload_url     |-> {"bucket_id"},
     delete_file_version |-> {"file_id", "file_name"}])
BackblazeB2Request ==
  [list_buckets       |-> Op({}, {"account_id", "bucket", "bucket_id"}),
   list_file_names    |-> Op({"bucket_id"}, {"delimiter", "max_file_count",
        "prefix", "start_file_name"}),
   get_upload_url     |-> Op({"bucket_id"}, {}),
   delete_file_version |-> Op({"file_id", "file_name"}, {})]
BackblazeB2Call == Exchanging(Call("list_buckets", {"backblaze_b2"}, {"key_id",
      "application_key"}))

-----------------------------------------------------------------------------
BoxForm ==
  Form("list_folder", {},
    [list_folder   |-> {"folder_id", "fields", "limit", "offset"},
     get_file      |-> {"file_id", "fields"},
     delete_file   |-> {"file_id"},
     create_folder |-> {"name", "parent_id"},
     copy_file     |-> {"file_id", "parent_id", "new_name"},
     search        |-> {"query", "content_types", "ancestor_folder_ids",
          "file_extensions", "limit"},
     list_users    |-> {"filter_term", "user_type", "limit"}])
BoxRequest ==
  [list_folder   |-> Op({}, {"fields", "folder_id", "limit", "offset"}),
   get_file      |-> Op({"file_id"}, {"fields"}),
   delete_file   |-> Op({"file_id"}, {}),
   create_folder |-> Op({"name"}, {"parent_id"}),
   copy_file     |-> Op({"file_id", "parent_id"}, {"new_name"}),
   search        |-> Op({"query"}, {"ancestor_folder_ids", "content_types",
        "file_extensions", "limit"}),
   list_users    |-> Op({}, {"filter_term", "limit", "user_type"})]
BoxCall == Call("list_folder", {"box_api"}, {"access_token"})

-----------------------------------------------------------------------------
DropboxForm ==
  Form("list_folder", {},
    [list_folder   |-> {"path", "recursive"},
     get_metadata  |-> {"path"},
     create_folder |-> {"path", "autorename"},
     delete        |-> {"path"},
     move          |-> {"from_path", "to_path", "autorename",
          "allow_shared_folder"},
     copy          |-> {"from_path", "to_path", "autorename"},
     search        |-> {"path", "query", "limit"},
     download      |-> {"path"}])
DropboxRequest ==
  [list_folder   |-> Op({"path"}, {"recursive"}),
   get_metadata  |-> Op({"path"}, {}),
   create_folder |-> Op({"path"}, {"autorename"}),
   delete        |-> Op({"path"}, {}),
   move          |-> Op({"from_path", "to_path"}, {"allow_shared_folder",
        "autorename"}),
   copy          |-> Op({"from_path", "to_path"}, {"autorename"}),
   search        |-> Op({"query"}, {"limit", "path"}),
   download      |-> Op({"path"}, {})]
DropboxCall == Call("list_folder", {"dropbox_api"}, {"access_token"})

-----------------------------------------------------------------------------
GcsForm ==
  Form("list_objects", {},
    [list_buckets  |-> {"project", "prefix", "page_token"},
     list_objects  |-> {"bucket", "prefix", "delimiter", "page_token"},
     get_object    |-> {"bucket", "object_name", "alt"},
     delete_object |-> {"bucket", "object_name"}])
GcsRequest ==
  [list_buckets  |-> Op({"project"}, {"page_token", "prefix"}),
   list_objects  |-> Op({"bucket"}, {"delimiter", "page_token", "prefix"}),
   get_object    |-> Op({"bucket", "object_name"}, {"alt"}),
   delete_object |-> Op({"bucket", "object_name"}, {})]
GcsCall == Exchanging(Call("list_objects", {"gcp_service_account"},
      {"client_email", "private_key"}))

-----------------------------------------------------------------------------
GoogleDriveForm ==
  Form("list_files", {},
    [list_files    |-> {"q", "pageSize", "pageToken", "orderBy", "fields"},
     get_file      |-> {"file_id", "fields"},
     create_folder |-> {"name", "parents"},
     upload_file   |-> {"name", "mime_type", "parents", "content_base64"},
     download_file |-> {"file_id"},
     delete_file   |-> {"file_id"}])
GoogleDriveRequest ==
  [list_files    |-> Op({}, {"fields", "orderBy", "pageSize", "pageToken", "q",
        "spaces"}),
   get_file      |-> Op({"file_id"}, {"fields"}),
   create_folder |-> Op({"name"}, {"parents"}),
   upload_file   |-> Op({"content_base64", "name"}, {"mime_type", "parents"}),
   download_file |-> Op({"file_id"}, {}),
   delete_file   |-> Op({"file_id"}, {})]
GoogleDriveCall == Call("list_files", {"google_drive_oauth2"}, {"access_token"})

-----------------------------------------------------------------------------
OnedriveForm ==
  Form("list_children", {},
    [list_children |-> {"folder_path", "$top", "$skip", "$orderby", "$select",
          "$filter"},
     get_item      |-> {"item_id"},
     upload_small  |-> {"file_path", "content_base64", "conflict_behavior"},
     upload_large  |-> {"file_path", "content_base64", "conflict_behavior",
          "chunk_size_bytes"},
     download_item |-> {"item_id"},
     delete_item   |-> {"item_id"}])
OnedriveRequest ==
  [list_children |-> Op({}, {"$filter", "$orderby", "$select", "$skip", "$top",
        "folder_path"}),
   get_item      |-> OneOf(Op({}, {"file_path", "item_id"}), {{"file_path",
        "item_id"}}),
   upload_small  |-> Op({"file_path"}, {"conflict_behavior"}),
   upload_large  |-> Op({"file_path"}, {"conflict_behavior"}),
   download_item |-> OneOf(Op({}, {"file_path", "item_id"}), {{"file_path",
        "item_id"}}),
   delete_item   |-> OneOf(Op({}, {"file_path", "item_id"}), {{"file_path",
        "item_id"}})]
(* An upload session has to name its uploadUrl, and content that turns out empty
   is refused once the session is open, like an answer without one. *)
OnedriveCall == Chunked(Confirmed(NodeReads(NodeNeeds(Call("list_children",
      {"microsoft_graph"}, {"access_token"}), [op \in {"upload_small",
      "upload_large"} |-> {"content_base64"}]), [upload_large |->
      {"chunk_size_bytes"}]), {"upload_large"}), {"upload_large"})

-----------------------------------------------------------------------------
StorageForms == [aws_s3 |-> AwsS3Form, azure_blob |-> AzureBlobForm, backblaze_b2
    |-> BackblazeB2Form, box |-> BoxForm, dropbox |-> DropboxForm, gcs |-> GcsForm,
    google_drive |-> GoogleDriveForm, onedrive |-> OnedriveForm]
StorageRequests == [aws_s3 |-> AwsS3Request, azure_blob |-> AzureBlobRequest,
    backblaze_b2 |-> BackblazeB2Request, box |-> BoxRequest, dropbox |->
    DropboxRequest, gcs |-> GcsRequest, google_drive |-> GoogleDriveRequest,
    onedrive |-> OnedriveRequest]
StorageCalls == [aws_s3 |-> AwsS3Call, azure_blob |-> AzureBlobCall, backblaze_b2
    |-> BackblazeB2Call, box |-> BoxCall, dropbox |-> DropboxCall, gcs |-> GcsCall,
    google_drive |-> GoogleDriveCall, onedrive |-> OnedriveCall]
=============================================================================
