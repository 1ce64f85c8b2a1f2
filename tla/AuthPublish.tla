---------------------------- MODULE AuthPublish -----------------------------
(* publish_auth_to_cpa: an account's auth file is published by the           *)
(* management API, by a copy into the hotload directory and by SFTP. Up to   *)
(* three callers do so for one account: the export after its mint, and       *)
(* save_account_bundle in the mint's thread and in the worker's. Each target *)
(* is written for itself, so a call is one step; a target that is not set up *)
(* is one that is never reached.                                             *)
EXTENDS Naturals

VARIABLES always,        \* cpa_hotload_always
          file,          \* whether the auth file is written
          called,        \* the callers that are done with it
          published,     \* where the file is
          refused        \* history: an upload was skipped or has failed

pubVars == <<always, file, called, published, refused>>

Callers == {"export", "bundle", "worker"}
Targets == {"api", "hot", "sftp"}

PubTypeOK ==
    /\ always \in BOOLEAN /\ file \in BOOLEAN /\ refused \in BOOLEAN
    /\ called \subseteq Callers /\ published \subseteq Targets

PubInit ==
    /\ always \in BOOLEAN
    /\ file = FALSE /\ called = {} /\ published = {} /\ refused = FALSE

(* Mutant: the copy is made whether or not the upload has succeeded.         *)
CopiesAlways(ok) == TRUE

(* The copy is made always, or when the upload was skipped or has failed.    *)
Copies(ok) == always \/ ~ok

(* upload_auth_via_cpa_api, the copy and upload_to_cpa_server: each may fail,*)
(* which is swallowed; the upload may arrive although it fails. Without a    *)
(* file nothing is done.                                                     *)
Publish(c) ==
    /\ c \notin called /\ called' = called \union {c}
    /\ IF file
       THEN \E ok \in BOOLEAN, reached \in SUBSET Targets :
               /\ ok => "api" \in reached
               /\ "hot" \in reached => Copies(ok)
               /\ published' = published \union reached
               /\ refused' = (refused \/ ~ok)
       ELSE UNCHANGED <<published, refused>>
    /\ UNCHANGED <<always, file>>
-----------------------------------------------------------------------------
(* "API 失败时作为兜底" (a fallback when the API fails): a file that was uploaded  *)
(* is also copied, where that is not asked for, only because one of the      *)
(* callers had no success with the API. Nothing unwritten is published.      *)
CopiedAsFallback ==
    /\ "hot" \in published => always \/ refused
    /\ published # {} => file
=============================================================================
