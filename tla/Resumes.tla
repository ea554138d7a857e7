------------------------------- MODULE Resumes -------------------------------
(***************************************************************************)
(* The resumes of one applicant: upload URLs and the objects behind them,  *)
(* registration and replacement of a file, soft deletion, and the content  *)
(* version that a worker extracts.  The object store is not transactional: *)
(* its metadata is read before a registration and its bytes long after, and*)
(* an upload URL may be used again while it lasts.                         *)
(*                                                                         *)
(* The queue between registration and extraction is in ResumeIngestion;    *)
(* here a version that is not completed may be extracted at any time.      *)
(***************************************************************************)
EXTENDS Evidence

CONSTANTS
  Resumes,      \* records
  Keys,         \* storage keys, each good for one resume file
  Size,         \* Size[f]: the length of file f
  MaxFileSize,  \* 5 MiB
  Writers,      \* slots for registrations in flight
  Extractors,   \* slots for extractions in flight
  NoKey, NoFile

ASSUME ResumesAssumption ==
  Size \in [Files -> Nat] /\ Readable \subseteq Files /\ NoFile \notin Files /\ NoKey \notin Keys

VARIABLES
  upload,     \* upload[k]: whether a URL for key k was issued and still works
  object,     \* object[k]: what is stored under key k
  resume,     \* resume[r]: its current key, and whether it is active
  content,    \* content[<<r, k>>]: the version of resume r registered for key k
  writer,     \* writer[q]: the registration q is at
  extractor,  \* extractor[x]: the version whose bytes x holds
  thrown      \* history: versions reset although they were completed

resumeVars == <<upload, object, resume, content, writer, extractor, thrown>>

Versions == Resumes \X Keys
NoVersion == [status |-> "NONE", size |-> 0, hash |-> NoFile]
Idle == [at |-> "idle"]

(* The columns: one text belongs to one hash, so the hash stands for both. *)
ResumesTypeOK ==
  /\ upload \in [Keys -> {"none", "open", "expired"}]
  /\ object \in [Keys -> Files \cup {NoFile}]
  /\ resume \in [Resumes -> [key : Keys \cup {NoKey}, active : BOOLEAN]]
  /\ content \in [Versions -> [status : {"NONE", "PENDING", "COMPLETED", "FAILED"},
                               size : Nat, hash : Files \cup {NoFile}]]
  /\ \A q \in Writers :
       \/ writer[q] = Idle
       \/ writer[q] \in [at : {"create", "find", "keep", "reset"},
                         resume : Resumes, key : Keys, size : Nat]
  /\ \A x \in Extractors :
       extractor[x] = Idle
         \/ extractor[x] \in [at : {"extract"}, version : Versions, file : Files \cup {NoFile}]
  /\ thrown \subseteq Versions

Registered(r) == resume[r].key # NoKey

(* resumePublicId is active: what the detail, the listing, the download and*)
(* every change look for first.                                            *)
Active(r) == resume[r].active

(* getCurrentForOwner: the version of the current file. *)
Current(r) == <<r, resume[r].key>>

(* authorizeResumeOwnerAsync: every request here is the owner's. *)
Authorized(r) == Active(r)

(* withCurrentIngestion: what the applicant's detail and listing show. *)
Detail(r) == content[Current(r)].status

-----------------------------------------------------------------------------
(* Upload URLs and the bucket. *)

(* buildStorageKey: a key nobody was given before. *)
Fresh(k) == upload[k] = "none"

(* FileStorage.getUploadUrl: for the usual time, cut to the deadline given, *)
(* and not at all if less than a second of that is left.                   *)
Sign(k) == upload' = [upload EXCEPT ![k] = "open"]

(* getUploadUrlAsync: a fresh key each time; a URL works for five minutes, *)
(* of a demo session no longer than the session.                           *)
GetUploadUrl(k) ==
  /\ Fresh(k)
  /\ Sign(k)
  /\ UNCHANGED <<object, resume, content, writer, extractor, thrown>>

(* The client may store one file after the other. *)
Put(k, file) ==
  /\ upload[k] = "open"
  /\ object' = [object EXCEPT ![k] = file]
  /\ UNCHANGED <<upload, resume, content, writer, extractor, thrown>>

UrlExpires(k) ==
  /\ upload[k] = "open"
  /\ upload' = [upload EXCEPT ![k] = "expired"]
  /\ UNCHANGED <<object, resume, content, writer, extractor, thrown>>

(* validateUpload: the key is one this applicant was given. *)
Issued(k) == upload[k] # "none"

(* getObjectMetadata *)
Stored(k) == object[k] # NoFile

(* Resume.validate; the type and the extension are those of the key. *)
ValidSize(size) == size \in 1..MaxFileSize

Acceptable(k) == Issued(k) /\ Stored(k) /\ ValidSize(Size[object[k]])

-----------------------------------------------------------------------------
(* Registrations. *)

Writes(q, at, r, k) ==
  writer' = [writer EXCEPT ![q] = [at |-> at, resume |-> r, key |-> k, size |-> Size[object[k]]]]

WriterDone(q) == writer' = [writer EXCEPT ![q] = Idle]

(* pendingContentData *)
Pending(size) == [status |-> "PENDING", size |-> size, hash |-> NoFile]

(* Resume.create and Resume.update. *)
NewRecord(k) == [key |-> k, active |-> TRUE]

Repointed(record, k) == [record EXCEPT !.key = k]

(* createResumeAsync, up to the metadata; then one transaction. *)
CreateResume(q, r, k) ==
  /\ writer[q] = Idle /\ ~Registered(r)
  /\ ~\E p \in Writers : writer[p] # Idle /\ writer[p].resume = r
  /\ Acceptable(k)
  /\ Writes(q, "create", r, k)
  /\ UNCHANGED <<upload, object, resume, content, extractor, thrown>>

AddResumeWithPendingContent(q) ==
  /\ writer[q].at = "create"
  /\ LET r == writer[q].resume
         k == writer[q].key
     IN  /\ resume' = [resume EXCEPT ![r] = NewRecord(k)]
         /\ content' = [content EXCEPT ![<<r, k>>] = Pending(writer[q].size)]
  /\ WriterDone(q)
  /\ UNCHANGED <<upload, object, extractor, thrown>>

(* updateResumeAsync, up to the metadata: the record is authorized while it*)
(* is active and its file checked.                                         *)
UpdateResume(q, r, k) ==
  /\ writer[q] = Idle /\ Authorized(r) /\ Acceptable(k)
  /\ Writes(q, "find", r, k)
  /\ UNCHANGED <<upload, object, resume, content, extractor, thrown>>

(* The first statement of the transaction locks the record until commit. *)
LockedBy(q, r) == writer[q].at \in {"keep", "reset"} /\ writer[q].resume = r
Free(r) == \A q \in Writers : ~LockedBy(q, r)

(* The version found decides what the transaction will do with it. *)
FindContent(q) ==
  /\ writer[q].at = "find" /\ Free(writer[q].resume)
  /\ LET v == <<writer[q].resume, writer[q].key>>
     IN  writer' = [writer EXCEPT ![q].at = IF content[v].status = "FAILED" THEN "reset" ELSE "keep"]
  /\ UNCHANGED <<upload, object, resume, content, extractor, thrown>>

MutUpdateResumeWithPendingContent(q) ==
  /\ writer[q].at \in {"keep", "reset"}
  /\ LET r == writer[q].resume
         k == writer[q].key
     IN  /\ resume' = [resume EXCEPT ![r].key = k]
         /\ content' = IF writer[q].at = "reset" THEN [content EXCEPT ![<<r, k>>] = Pending(@.size)]
                       ELSE content
         /\ UNCHANGED thrown
  /\ WriterDone(q)
  /\ UNCHANGED <<upload, object, extractor>>

MutUpdateWholeRow(q) ==
  /\ writer[q].at \in {"keep", "reset"}
  /\ LET r == writer[q].resume
         k == writer[q].key
     IN  /\ resume' = [resume EXCEPT ![r] = [key |-> k, active |-> TRUE]]
         /\ content' = IF content[<<r, k>>].status = "NONE"
                         THEN [content EXCEPT ![<<r, k>>] = Pending(writer[q].size)]
                       ELSE content
         /\ UNCHANGED thrown
  /\ WriterDone(q)
  /\ UNCHANGED <<upload, object, extractor>>

(* The rest of updateResumeWithPendingContent: the record points to the    *)
(* new key, deleted in the meantime or not; a version found failed is reset*)
(* without looking again.                                                  *)
UpdateResumeWithPendingContent(q) ==
  /\ writer[q].at \in {"keep", "reset"}
  /\ LET r == writer[q].resume
         k == writer[q].key
         v == <<r, k>>
     IN  /\ resume' = [resume EXCEPT ![r] = Repointed(@, k)]
         /\ content' = IF content[v].status = "NONE" THEN [content EXCEPT ![v] = Pending(writer[q].size)]
                       ELSE IF writer[q].at = "reset" THEN [content EXCEPT ![v] = Pending(@.size)]
                       ELSE content
         /\ thrown' = IF writer[q].at = "reset" /\ content[v].status = "COMPLETED"
                        THEN thrown \cup {v} ELSE thrown
  /\ WriterDone(q)
  /\ UNCHANGED <<upload, object, extractor>>

(* A transaction that fails leaves nothing. *)
RegistrationFails(q) ==
  /\ writer[q] # Idle
  /\ WriterDone(q)
  /\ UNCHANGED <<upload, object, resume, content, extractor, thrown>>

(* deleteResume: one column of an active record. *)
Deactivate(r) == resume' = [resume EXCEPT ![r].active = FALSE]

(* deleteResumeAsync: the versions stay. *)
DeleteResume(r) ==
  /\ Authorized(r) /\ Free(r)
  /\ Deactivate(r)
  /\ UNCHANGED <<upload, object, content, writer, extractor, thrown>>

-----------------------------------------------------------------------------
(* Extraction, as seen from here. *)

(* getObject: whatever the key holds by now. *)
Bytes(k) == object[k]

(* ingest: a version that is not completed is read and its bytes fetched. *)
FetchObject(x, v) ==
  /\ extractor[x] = Idle
  /\ content[v].status \in {"PENDING", "FAILED"}
  /\ extractor' = [extractor EXCEPT ![x] = [at |-> "extract", version |-> v, file |-> Bytes(v[2])]]
  /\ UNCHANGED <<upload, object, resume, content, writer, thrown>>

(* ResumeTextExtractor.extract: a text, or an error of the parser. *)
Extracts(f) == f \in Readable

MutStoreText(x) ==
  /\ extractor[x] # Idle
  /\ LET v == extractor[x].version
         f == extractor[x].file
     IN  /\ Extracts(f) /\ Size[f] = content[v].size
         /\ content' = [content EXCEPT ![v].status = "COMPLETED", ![v].hash = f]
  /\ extractor' = [extractor EXCEPT ![x] = Idle]
  /\ UNCHANGED <<upload, object, resume, writer, thrown>>

(* markCompleted, if the file has the length it was registered with and a  *)
(* text; a completed version is protected.                                 *)
StoreText(x) ==
  /\ extractor[x] # Idle
  /\ LET v == extractor[x].version
         f == extractor[x].file
     IN  /\ Extracts(f) /\ Size[f] = content[v].size
         /\ content' = IF content[v].status = "COMPLETED" THEN content
                       ELSE [content EXCEPT ![v].status = "COMPLETED", ![v].hash = f]
  /\ extractor' = [extractor EXCEPT ![x] = Idle]
  /\ UNCHANGED <<upload, object, resume, writer, thrown>>

(* The file is missing, of another length or without text, or something    *)
(* broke: the version is left or, after the last attempt, marked failed.   *)
ExtractionFails(x) ==
  /\ extractor[x] # Idle
  /\ LET v == extractor[x].version
     IN  \/ UNCHANGED content
         \/ /\ content[v].status = "PENDING"
            /\ content' = [content EXCEPT ![v].status = "FAILED"]
  /\ extractor' = [extractor EXCEPT ![x] = Idle]
  /\ UNCHANGED <<upload, object, resume, writer, thrown>>

WriterStep(q) ==
  \/ AddResumeWithPendingContent(q)
  \/ FindContent(q)
  \/ UpdateResumeWithPendingContent(q)
  \/ RegistrationFails(q)

ExtractorStep(x) == StoreText(x) \/ ExtractionFails(x)

-----------------------------------------------------------------------------
(* Registration: whatever replacements, deletions and failures overlap, the*)
(* current file of a resume always has a version, so that the detail shows *)
(* an ingestion and an evaluation finds a content; and a completed version *)
(* names a file of the registered length.                                  *)
CurrentIsRegistered ==
  \A r \in Resumes :
    Registered(r) => /\ Detail(r) # "NONE"
                     /\ Detail(r) = "COMPLETED" =>
                          Size[content[Current(r)].hash] = content[Current(r)].size

(* A replacement under way during a deletion does not bring the resume     *)
(* back.                                                                   *)
StaysDeleted(r) == Registered(r) /\ ~Active(r) => ~resume'[r].active
=============================================================================
