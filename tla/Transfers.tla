----------------------------- MODULE Transfers ------------------------------
(***************************************************************************)
(* Files that go over the network: Downloader and Uploader.                *)
(***************************************************************************)
EXTENDS Integers, Sequences

(***************************************************************************)
(* sc::network::Downloader (downloader.cpp), which appends to a file and   *)
(* asks for the rest of it, with pause(), resume() and cancel().           *)
(*                                                                         *)
(* The remote file is the chunks 1..Size.  What Qt does is external: abort *)
(* signals finished() before it returns; QFile writes through a buffer,    *)
(* and setFileName() closes an open file; the body of a refusal is read    *)
(* like any other and is the chunk 0 here.  The server honours Range.      *)
(***************************************************************************)
CONSTANT Size  \* chunks of the remote file

ASSUME SizeAssumption == Size \in Nat \ {0}

VARIABLES
    disk,       \* what the file at m_savePath holds
    buffer,     \* written to m_file and not flushed
    isOpen,     \* m_file.isOpen()
    reply,      \* m_reply: the next chunk it delivers, 0 for none
    orphan,     \* a reply that a second download() replaced is under way
    isRunning,  \* m_isRunning
    isPaused,   \* m_isPaused
    outcome,    \* what the complete callback was told last
    spoiled     \* history: why the file may differ from the remote one

transferVars == <<disk, buffer, isOpen, reply, orphan, isRunning, isPaused, outcome, spoiled>>

TransferInit ==
    /\ disk = <<>> /\ buffer = <<>> /\ isOpen = FALSE
    /\ reply = 0 /\ orphan = FALSE /\ isRunning = FALSE /\ isPaused = FALSE
    /\ outcome = "none" /\ spoiled = {}

GetExistingFileSize == Len(disk)

(* A mistaken StartDownload: the request lacks the Range header *)
StartWithoutRange ==
    /\ disk' = disk \o buffer /\ buffer' = <<>>
    /\ isOpen' = TRUE /\ reply' = 1
    /\ UNCHANGED <<orphan, outcome, spoiled>>

(* startDownload(): the size is taken first, then setFileName() closes the *)
(* file and so flushes it, then it is opened to append, or is not.         *)
StartDownload ==
    /\ disk' = disk \o buffer /\ buffer' = <<>>
    /\ orphan' = (reply # 0)
    /\ spoiled' = spoiled \union (IF buffer # <<>> THEN {"resumed"} ELSE {})
                          \union (IF reply # 0 THEN {"replaced"} ELSE {})
    /\ \/ isOpen' = TRUE /\ reply' = GetExistingFileSize + 1 /\ UNCHANGED outcome
       \/ isOpen' = FALSE /\ outcome' = "failed" /\ UNCHANGED reply

Download ==
    /\ ~orphan /\ Len(disk) + Len(buffer) <= Size
    /\ isPaused' = FALSE /\ isRunning' = TRUE
    /\ StartDownload

(* pause(): abort() ends the reply without a callback; the file stays open *)
Pause ==
    /\ reply # 0 /\ isRunning /\ ~isPaused
    /\ reply' = 0 /\ isPaused' = TRUE
    /\ UNCHANGED <<disk, buffer, isOpen, orphan, isRunning, outcome, spoiled>>

Resume ==
    /\ Len(disk) + Len(buffer) <= Size
    /\ isPaused /\ isPaused' = FALSE
    /\ StartDownload /\ UNCHANGED isRunning

(* cancel().  With a reply under way finished() clears m_reply inside      *)
(* abort() and the next call goes through a null pointer, which is         *)
(* undefined: the call does nothing and cancel() goes on, or the process   *)
(* ends with what was not flushed, and another one finds the file.         *)
Cancel ==
    /\ buffer' = <<>> /\ reply' = 0
    /\ isOpen' = FALSE /\ isRunning' = FALSE /\ isPaused' = FALSE
    /\ UNCHANGED spoiled
    /\ \/ disk' = disk \o buffer /\ UNCHANGED <<orphan, outcome>>
       \/ reply # 0 /\ orphan' = FALSE /\ outcome' = "none" /\ UNCHANGED disk

-----------------------------------------------------------------------------
(* QFile writes its buffer out when it is full *)
FlushBuffer ==
    /\ buffer # <<>>
    /\ disk' = disk \o buffer /\ buffer' = <<>>
    /\ UNCHANGED <<isOpen, reply, orphan, isRunning, isPaused, outcome, spoiled>>

(* onReadyRead() *)
OnReadyRead ==
    /\ reply \in 1..Size /\ isOpen
    /\ buffer' = Append(buffer, reply) /\ reply' = reply + 1
    /\ UNCHANGED <<disk, isOpen, orphan, isRunning, isPaused, outcome, spoiled>>

(* onDownloadFinished() without an error: the file is closed.              *)
FinishedWell ==
    /\ disk' = disk \o buffer /\ buffer' = <<>>
    /\ isOpen' = FALSE /\ reply' = 0 /\ isRunning' = FALSE /\ outcome' = "complete"
    /\ UNCHANGED <<isPaused, spoiled>>

(* The reply is through.  (A request beyond the end, which a server should *)
(* refuse, may end here or in ReplyFailed.)                                *)
ReplyFinished == reply = Size + 1 /\ FinishedWell /\ UNCHANGED orphan

(* The signal of a replaced reply is taken for one of the present reply.   *)
OrphanFinished ==
    /\ orphan /\ orphan' = FALSE
    /\ IF reply = 0
       THEN UNCHANGED <<disk, buffer, isOpen, reply, isRunning, isPaused, outcome, spoiled>>
       ELSE FinishedWell

(* An error: the file stays open and isRunning set.  A refusal may have a  *)
(* body, which onReadyRead() has written by then.                          *)
ReplyFailed ==
    /\ reply # 0 /\ reply' = 0 /\ outcome' = "failed"
    /\ \/ UNCHANGED <<buffer, spoiled>>
       \/ isOpen /\ buffer' = Append(buffer, 0) /\ spoiled' = spoiled \union {"refused"}
    /\ UNCHANGED <<disk, isOpen, orphan, isRunning, isPaused>>

TransferNext ==
    \/ Download \/ Pause \/ Resume \/ Cancel \/ FlushBuffer
    \/ OnReadyRead \/ ReplyFinished \/ OrphanFinished \/ ReplyFailed

TransferSpec == TransferInit /\ [][TransferNext]_transferVars

-----------------------------------------------------------------------------
PrefixOnDisk ==
    /\ Len(disk) <= Size /\ \A i \in 1..Len(disk) : disk[i] = i
    /\ outcome = "complete" /\ ~isOpen => Len(disk) = Size

(* Downloads that are started, broken, paused, cancelled (with a reply     *)
(* under way too, whether or not the process outlives it) and started      *)
(* again leave a beginning of the remote file, and the whole of it when    *)
(* success was reported, unless one of three things happened: the server   *)
(* refused with a body, a running download was replaced, or a download was *)
(* started over data that was not flushed (downloader.cpp:43-55, :98-128,  *)
(* :134-174).                                                              *)
FileIsPrefix == spoiled = {} => PrefixOnDisk

-----------------------------------------------------------------------------
(***************************************************************************)
(* sc::network::Uploader (uploader.cpp): one file, sent in one request,    *)
(* with pause(), resume() and cancel().  Everything runs in one thread.    *)
(*                                                                         *)
(* What Qt does is external: abort() signals finished() before it returns, *)
(* and a reply that was replaced in m_reply goes on and signals to the     *)
(* same slots.                                                             *)
(***************************************************************************)
CONSTANT MaxUploads   \* bound on the calls of upload()

ASSUME UploadAssumption == MaxUploads \in Nat

VARIABLES
    posted,     \* the upload whose request m_reply is, 0 for none
    strays,     \* uploads whose replies were replaced and are under way
    uploadRuns, \* m_isRunning
    uploadHeld, \* m_isPaused
    uploads,    \* calls of upload() so far
    reports,    \* history: per upload, what the complete callback was told
    crossed     \* history: an upload was started over one under way

uploadVars == <<posted, strays, uploadRuns, uploadHeld, uploads, reports, crossed>>

UploadInit ==
    /\ posted = 0 /\ strays = {} /\ uploadRuns = FALSE /\ uploadHeld = FALSE
    /\ uploads = 0 /\ reports = [n \in 1..MaxUploads |-> <<>>] /\ crossed = FALSE

Told(n, what) == [reports EXCEPT ![n] = Append(@, what)]

(* startUpload(): the request is posted over whatever m_reply was, or the  *)
(* file cannot be read, which leaves m_isRunning and m_reply alone         *)
StartUpload(n) ==
    \/ /\ posted' = n /\ strays' = strays \union ({posted} \ {0}) /\ UNCHANGED reports
    \/ reports' = Told(n, "failed") /\ UNCHANGED <<posted, strays>>

(* upload() and uploadMultipart() *)
StartFile ==
    /\ uploads < MaxUploads /\ uploads' = uploads + 1
    /\ uploadRuns' = TRUE /\ uploadHeld' = FALSE
    /\ crossed' = (crossed \/ posted # 0)
    /\ StartUpload(uploads + 1)

(* A mistaken PauseUpload: the aborted reply is reported as a failure *)
PauseReported ==
    /\ posted # 0 /\ uploadRuns /\ ~ uploadHeld
    /\ posted' = 0 /\ uploadHeld' = TRUE /\ reports' = Told(posted, "failed")
    /\ UNCHANGED <<strays, uploadRuns, uploads, crossed>>

(* pause(): finished() comes from inside abort(), with the error that is   *)
(* not reported                                                            *)
PauseUpload ==
    /\ posted # 0 /\ uploadRuns /\ ~ uploadHeld
    /\ posted' = 0 /\ uploadHeld' = TRUE
    /\ UNCHANGED <<strays, uploadRuns, uploads, reports, crossed>>

(* resume(): from the beginning *)
ResumeUpload ==
    /\ uploadHeld /\ uploadHeld' = FALSE
    /\ StartUpload(uploads) /\ UNCHANGED <<uploadRuns, uploads, crossed>>

(* cancel().  With a reply, m_reply is null after abort() and the next     *)
(* call goes through it: as in Cancel, nothing happens or the process ends *)
(* with all its replies, and another one begins.                           *)
CancelUpload ==
    /\ posted' = 0 /\ uploadRuns' = FALSE /\ uploadHeld' = FALSE
    /\ UNCHANGED strays \/ (posted # 0 /\ strays' = {})
    /\ UNCHANGED <<uploads, reports, crossed>>

(* onUploadFinished(), whose sender is not looked at: it reads m_reply.    *)
(* The error of a reply that is still under way is NoError.                *)
OnUploadFinished(failed) ==
    IF posted = 0 THEN UNCHANGED <<posted, uploadRuns, reports>>
    ELSE /\ posted' = 0
         /\ uploadRuns' = (uploadRuns /\ failed)
         /\ reports' = Told(uploads, IF failed THEN "failed" ELSE "complete")

UploadFinished ==
    /\ posted # 0 /\ \E failed \in BOOLEAN : OnUploadFinished(failed)
    /\ UNCHANGED <<strays, uploadHeld, uploads, crossed>>

StrayFinished(n) ==
    /\ strays' = strays \ {n} /\ OnUploadFinished(FALSE)
    /\ UNCHANGED <<uploadHeld, uploads, crossed>>

UploadNext ==
    \/ StartFile \/ PauseUpload \/ ResumeUpload \/ CancelUpload \/ UploadFinished
    \/ \E n \in strays : StrayFinished(n)

-----------------------------------------------------------------------------
(* Unless it is started over one that is under way, an upload is reported  *)
(* at most once, through any order of pauses, resumptions, failures and    *)
(* cancellations, those whose outcome is undefined included, and no        *)
(* request of it is under way after the report; what is paused has no      *)
(* request, and what has one counts as running (uploader.cpp:40-68,        *)
(* :119-140).  A cancelled upload is not reported at all.                  *)
UploadReportedOnce ==
    /\ ~ crossed =>
         /\ \A n \in 1..MaxUploads : Len(reports[n]) <= 1
         /\ posted # 0 => reports[posted] = <<>>
    /\ uploadHeld => posted = 0
    /\ posted # 0 => uploadRuns
=============================================================================
