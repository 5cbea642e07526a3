----------------------------- MODULE UploadReview -----------------------------
(***************************************************************************)
(* Uploaded documents on their way to a published script.                  *)
(*                                                                         *)
(* The upload request stores the raw file in quarantine, scans it,         *)
(* extracts its text and commits one row; an administrator then converts   *)
(* the upload into a draft script, edits it, retries the extraction,       *)
(* rejects it or publishes it.  Meanwhile a cleanup task removes expired   *)
(* files.  Conversion, edit, retry and rejection lock the upload's row     *)
(* for their whole transaction; publication and the script registry, which *)
(* this module extends, lock nothing.                                      *)
(***************************************************************************)
EXTENDS ScriptRegistry

CONSTANTS
    Uploads,      \* upload requests, each with its file and at most one row
    NoUpload,     \* not an upload
    NoScript      \* the link of an upload that is not converted

ASSUME UploadsAssumption == NoUpload \notin Uploads /\ NoScript \notin Scripts

VARIABLES
    upload,      \* table script_uploads: upload -> row
    intake,      \* upload -> progress of the upload request
    files,       \* uploads whose raw file is in quarantine
    retrying,    \* uploads whose row an extraction retry has locked
    cleaning,    \* upload whose file the cleanup task is about to remove
    via          \* registry request -> the upload it publishes through

uploadVars == <<upload, intake, files, retrying, cleaning>>
vars == <<registryVars, uploadVars, via>>

-----------------------------------------------------------------------------
(* Rows *)

\* UploadStatus has more values that no code writes.  purged: deleted_at set.
UploadRow == [status : {"none", "completed", "failed", "rejected"},
              scan : {"clean", "infected", "error"},
              extraction : {"completed", "failed"},
              scenario : Scenarios \cup {NoScenario},
              script : Scripts \cup {NoScript},
              purged : BOOLEAN]

NoUploadRow == [status |-> "none", scan |-> "error", extraction |-> "failed",
                scenario |-> NoScenario, script |-> NoScript, purged |-> FALSE]

Linked(u) == upload[u].script # NoScript

\* derive_review_status: beyond here only the linked script's state counts.
Reviewable(u) ==
    /\ upload[u].status = "completed" /\ upload[u].scan = "clean"
    /\ upload[u].extraction = "completed" /\ Linked(u)

ReviewIs(u, status) ==
    /\ Reviewable(u)
    /\ script[upload[u].script].status = status
    /\ ~script[upload[u].script].deleted

ReadyForReview(u) == ReviewIs(u, "draft")
PublishedReview(u) == ReviewIs(u, "published")

RejectedReview(u) ==
    \/ upload[u].status = "rejected"
    \/ ReviewIs(u, "unpublished")
    \/ Reviewable(u) /\ script[upload[u].script].deleted

\* SELECT ... FOR UPDATE gets the row.
Lockable(u) == upload[u].status # "none" /\ u \notin retrying

\* The upload request of u ends.
EndIntake(u) ==
    /\ intake[u] = "processing"
    /\ intake' = [intake EXCEPT ![u] = "over"]
    /\ UNCHANGED <<registryVars, retrying, cleaning, via>>

UploadInit ==
    /\ Init
    /\ upload = [u \in Uploads |-> NoUploadRow]
    /\ intake = [u \in Uploads |-> "new"]
    /\ files = {}
    /\ retrying = {}
    /\ cleaning = NoUpload
    /\ via = [r \in Requests |-> NoUpload]

-----------------------------------------------------------------------------
(* Plausible bugs, one for each property *)

\* A failed scan leaves the malicious file to the cleanup task.
FailScan_keeping_file(u, outcome, x) ==
    /\ EndIntake(u)
    /\ UNCHANGED files
    /\ upload' = [upload EXCEPT ![u] =
          [NoUploadRow EXCEPT !.status = "failed", !.scan = outcome,
                              !.scenario = x, !.purged = TRUE]]

\* The file is removed although deleted_at was not committed.
MarkPurged_unrecorded(u) ==
    /\ cleaning = NoUpload
    /\ u \in files /\ intake[u] = "over"
    /\ cleaning' = u
    /\ UNCHANGED <<registryVars, upload, intake, files, retrying, via>>

\* retry does not look at the upload's own status.
StartRetry_of_rejected(u) ==
    /\ Lockable(u)
    /\ ~PublishedReview(u)
    /\ upload[u].scan = "clean" /\ u \in files
    /\ retrying' = retrying \cup {u}
    /\ UNCHANGED <<registryVars, upload, intake, files, cleaning, via>>

-----------------------------------------------------------------------------
(* The upload request *)

\* The checks before the file is stored reject without a trace.
StoreFile(u) ==
    /\ intake[u] = "new"
    /\ intake' = [intake EXCEPT ![u] = "processing"]
    /\ files' = files \cup {u}
    /\ UNCHANGED <<registryVars, upload, retrying, cleaning, via>>

\* Archive check, content security, extraction, unexpected error.
RefuseFile(u) ==
    /\ EndIntake(u)
    /\ files' = files \ {u}
    /\ UNCHANGED upload

\* The file is removed first; the commit of the row may then fail.
FailScan(u, outcome, x) ==
    /\ EndIntake(u)
    /\ files' = files \ {u}
    /\ \/ UNCHANGED upload
       \/ upload' = [upload EXCEPT ![u] =
            [NoUploadRow EXCEPT !.status = "failed", !.scan = outcome,
                                !.scenario = x, !.purged = TRUE]]

AcceptUpload(u, x) ==
    /\ EndIntake(u)
    /\ upload' = [upload EXCEPT ![u] =
          [NoUploadRow EXCEPT !.status = "completed", !.scan = "clean",
                              !.extraction = "completed", !.scenario = x]]
    /\ UNCHANGED files

\* The commit fails or the process dies: the file stays without a row.
DropUpload(u) == EndIntake(u) /\ UNCHANGED <<upload, files>>

-----------------------------------------------------------------------------
(* Conversion and review *)

\* convert_upload_to_script_draft, also behind retry(conversion): the draft,
\* of validated content, and the link in one commit.
Convert(u, k, c) ==
    LET x == upload[u].scenario
    IN  /\ Lockable(u)
        /\ ~Linked(u)
        /\ upload[u].status = "completed" /\ upload[u].scan = "clean"
        /\ upload[u].extraction = "completed" /\ x # NoScenario
        /\ script[k].status = "none" /\ ScenarioFree(x, k)
        /\ script' = [script EXCEPT ![k] = Draft(x, c)]
        /\ upload' = [upload EXCEPT ![u].script = k]
        /\ UNCHANGED <<versions, req, intake, files, retrying, cleaning, via>>

\* Upload and script are locked until the new draft is committed.
EditReview(u, c) ==
    /\ Lockable(u)
    /\ ReadyForReview(u)
    /\ script' = [script EXCEPT ![upload[u].script].draft = c]
    /\ UNCHANGED <<versions, req, uploadVars, via>>

\* retry(extraction) reads the script without a lock, then extracts while it
\* holds the upload's.
StartRetry(u) ==
    /\ Lockable(u)
    /\ upload[u].status # "rejected" /\ ~PublishedReview(u)
    /\ upload[u].scan = "clean" /\ u \in files
    /\ retrying' = retrying \cup {u}
    /\ UNCHANGED <<registryVars, upload, intake, files, cleaning, via>>

EndRetry(u) ==
    /\ u \in retrying
    /\ retrying' = retrying \ {u}
    /\ UNCHANGED <<registryVars, intake, files, cleaning, via>>

SaveExtraction(u) ==
    /\ EndRetry(u)
    /\ upload' = [upload EXCEPT ![u].extraction = "completed",
                                ![u].status = "completed"]

FailExtraction(u) ==
    /\ EndRetry(u)
    /\ upload' = [upload EXCEPT ![u].extraction = "failed"]

\* A lost connection: the transaction is rolled back.
LoseRetry(u) == EndRetry(u) /\ UNCHANGED upload

\* The file goes after the commit, if it can be removed; the script stays.
RejectReview(u) ==
    /\ Lockable(u)
    /\ ~PublishedReview(u) /\ ~RejectedReview(u)
    /\ upload' = [upload EXCEPT ![u].status = "rejected"]
    /\ files' \in {files, files \ {u}}
    /\ UNCHANGED <<registryVars, intake, retrying, cleaning, via>>

\* publish_review: the upload is read and checked, ...
PublishReadsUpload(r, u) ==
    /\ req[r].pc = "idle" /\ via[r] = NoUpload
    /\ Reviewable(u)
    /\ via' = [via EXCEPT ![r] = u]
    /\ UNCHANGED <<registryVars, uploadVars>>

\* ... then its script, which must be a draft; the registry's publish works
\* on that copy.
PublishReadsScript(r) ==
    /\ via[r] # NoUpload
    /\ LET k == upload[via[r]].script
       IN  script[k].status = "draft" /\ LoadScript(r, k)
    /\ UNCHANGED <<uploadVars, via>>

ReleaseReview(r) == via' = [via EXCEPT ![r] = NoUpload]

AbandonPublish(r) ==
    /\ via[r] # NoUpload /\ req[r].pc = "idle"
    /\ ReleaseReview(r)
    /\ UNCHANGED <<registryVars, uploadVars>>

PublishNumbers(r) == via[r] # NoUpload /\ NumberVersion(r) /\ UNCHANGED <<uploadVars, via>>

PublishCommits(r) ==
    /\ via[r] # NoUpload
    /\ CommitVersion(r)
    /\ ReleaseReview(r)
    /\ UNCHANGED uploadVars

PublishRefused(r) ==
    /\ via[r] # NoUpload
    /\ Refuse(r)
    /\ ReleaseReview(r)
    /\ UNCHANGED uploadVars

-----------------------------------------------------------------------------
(* The cleanup task *)

\* deleted_at is committed before the file is touched.  The file is older
\* than the retention period, so its upload request is over.
MarkPurged(u) ==
    /\ cleaning = NoUpload
    /\ u \in files /\ intake[u] = "over"
    /\ \/ /\ Lockable(u)
          /\ upload' = [upload EXCEPT ![u].purged = TRUE]
       \/ upload[u].status = "none" /\ UNCHANGED upload
    /\ cleaning' = u
    /\ UNCHANGED <<registryVars, intake, files, retrying, via>>

\* The unlink may fail, or the process die before it.
EndPurge ==
    /\ cleaning # NoUpload
    /\ files' \in {files, files \ {cleaning}}
    /\ cleaning' = NoUpload
    /\ UNCHANGED <<registryVars, upload, intake, retrying, via>>

-----------------------------------------------------------------------------
(* Specification *)

IntakeNext(u) ==
    \/ StoreFile(u)
    \/ RefuseFile(u)
    \/ DropUpload(u)
    \/ \E x \in Scenarios \cup {NoScenario} :
          \/ AcceptUpload(u, x)
          \/ \E outcome \in {"infected", "error"} : FailScan(u, outcome, x)

ReviewNext(u) ==
    \/ \E k \in Scripts, c \in Valid : Convert(u, k, c)
    \/ \E c \in Valid : EditReview(u, c)
    \/ StartRetry(u) \/ SaveExtraction(u) \/ FailExtraction(u) \/ LoseRetry(u)
    \/ RejectReview(u)
    \/ MarkPurged(u)
    \/ \E r \in Requests : PublishReadsUpload(r, u)

PublishNext(r) ==
    \/ PublishReadsScript(r) \/ AbandonPublish(r)
    \/ PublishNumbers(r) \/ PublishCommits(r) \/ PublishRefused(r)

\* Requests to the script registry itself.
RegistryNext ==
    /\ \/ \E k \in Scripts, x \in Scenarios, c \in Contents : CreateDraft(k, x, c)
       \/ \E r \in {q \in Requests : via[q] = NoUpload} :
            \/ \E k \in Scripts : LoadScript(r, k)
            \/ \E c \in Contents : UpdateDraft(r, c)
            \/ Unpublish(r) \/ DeleteScript(r)
            \/ \E x \in Scenarios : AssignScript(r, x)
            \/ Publishing(r)
            \/ Refuse(r)
    /\ UNCHANGED <<uploadVars, via>>

UploadNext ==
    \/ \E u \in Uploads : IntakeNext(u) \/ ReviewNext(u)
    \/ \E r \in Requests : PublishNext(r)
    \/ RegistryNext
    \/ EndPurge

UploadSpec == UploadInit /\ [][UploadNext]_vars

-----------------------------------------------------------------------------
(* Properties *)

\* The types of uploads and of the tasks on them (the columns of ScriptUpload).
UploadTypeOK ==
    /\ TypeOK
    /\ upload \in [Uploads -> UploadRow]
    /\ intake \in [Uploads -> {"new", "processing", "over"}]
    /\ files \subseteq Uploads
    /\ retrying \subseteq Uploads
    /\ cleaning \in Uploads \cup {NoUpload}
    /\ via \in [Requests -> Uploads \cup {NoUpload}]

\* A document that did not pass the scan keeps neither its file nor a script,
\* whatever is retried, converted or cleaned up later.
UnsafeIsDropped ==
    \A u \in Uploads :
        upload[u].status # "none" /\ upload[u].scan # "clean" => u \notin files /\ ~Linked(u)

\* A raw file that is gone is recorded as purged unless its upload was
\* rejected: a crash between the two steps of the cleanup loses no record.
SourceLossIsRecorded ==
    \A u \in Uploads :
        upload[u].status \in {"completed", "failed"} /\ u \notin files => upload[u].purged

\* What a review has settled stays settled: a linked upload names the same script
\* for ever, and a rejected one stays rejected and gets none.  Retry, conversion
\* and cleanup that began before cannot revive or relink it.
ReviewIsFinal ==
    [][\A u \in Uploads :
          LET rejected == upload[u].status = "rejected"
          IN  /\ rejected => upload'[u].status = "rejected"
              /\ rejected \/ Linked(u) => upload'[u].script = upload[u].script]_vars

\* A rejected upload is no longer published through its review.
RejectedIsNeverPublished ==
    [][\A r \in Requests : PublishCommits(r) => upload[via[r]].status # "rejected"]_vars

-----------------------------------------------------------------------------
(* The inductive invariant *)

\* There is no row before the upload request is over, and the file is there
\* until then.
IntakeComesFirst ==
    \A u \in Uploads :
        /\ intake[u] # "over" => upload[u].status = "none" /\ ~Linked(u)
        /\ intake[u] = "processing" => u \in files

\* The cleanup task removes only files whose removal is on record, or that no
\* row knows of and none will.
PurgeIsRecorded ==
    cleaning # NoUpload =>
        /\ intake[cleaning] = "over"
        /\ upload[cleaning].status = "none" \/ upload[cleaning].purged

\* The lock of a retry keeps a rejection out.
RetriesAreOpen ==
    \A u \in retrying : upload[u].status \in {"completed", "failed"}

\* What is published through a review was linked to a script, and still is.
PublishersAreLinked ==
    \A r \in Requests : via[r] # NoUpload => Linked(via[r])

UploadIInv ==
    /\ IInv /\ UploadTypeOK
    /\ IntakeComesFirst /\ PurgeIsRecorded /\ RetriesAreOpen /\ PublishersAreLinked
    /\ UnsafeIsDropped /\ SourceLossIsRecorded
=============================================================================
