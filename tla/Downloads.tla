------------------------------ MODULE Downloads ------------------------------
(***************************************************************************)
(* tftpget and httpget of app/shell.rs with the helpers of app/files.rs: a *)
(* file is fetched under a temporary name, and takes the name asked for    *)
(* when it has arrived; what it replaces is removed just before.           *)
(*                                                                         *)
(* The volume is that of fs/vfs.rs as far as two names go: what is under   *)
(* each, how many blocks are free, whether it is mounted and whether one   *)
(* of the names is held open.  A transfer moves Blocks blocks.  The medium *)
(* may fail and the power may go between any two steps.                    *)
(***************************************************************************)
EXTENDS Integers

CONSTANTS Blocks, Space, None

VARIABLE download

Sizes == [old |-> 1, user |-> 1, whole |-> Blocks]
Kept == {"old", "whole"}
\* The blocks a file holds; one in the making holds what has arrived.
HeldBy(d, content) == CASE content \in DOMAIN Sizes -> Sizes[content] [] content \in {"some", "page"} -> d.sent [] OTHER -> 0
Free(d) == Space - HeldBy(d, d.destination) - HeldBy(d, d.part)

Ended(d, report) == [d EXCEPT !.phase = "idle", !.report = report, !.kind = None, !.sent = HeldBy(d, d.part)]
\* A failure of the medium that write_volume sees takes the mount down.
Unmounted(d) == [d EXCEPT !.mounted = FALSE, !.open = {}]

Busy == download.phase /= "idle"
At(phase) == download.phase = phase

Init ==
  \E destination \in {"none", "old"}, part \in {"none", "user"} :
    download = [phase |-> "idle", kind |-> None, destination |-> destination, part |-> part, sent |-> 0, mounted |-> TRUE,
                open |-> {}, outcome |-> None, report |-> None, had |-> FALSE]

\* The names are worked out before the network is touched.
Begin(kind) ==
  /\ At("idle")
  /\ download' = [download EXCEPT !.phase = "named", !.kind = kind, !.outcome = None, !.report = None, !.had = download.destination \in Kept]

\* The server cannot be resolved or connected to, or there is no address.
NoServer == At("named") /\ download' = Ended(download, "none")

\* write_stream puts the temporary name at no bytes, whatever it held.
OpenPart ==
  /\ At("named")
  /\ \/ ~download.mounted /\ download' = Ended(download, "cannot write")
     \/ download.mounted /\ download' = [download EXCEPT !.phase = "transfer", !.part = "some", !.sent = 0]
     \/ download.mounted /\ download' = Ended(Unmounted(download), "cannot write")

\* A block the volume has no room for, or the medium fails on, stops the
\* transfer.
Arrive ==
  /\ At("transfer") /\ download.outcome = None
  /\ \/ Free(download) > 0 /\ download.sent < Blocks /\ download' = [download EXCEPT !.sent = @ + 1]
     \/ Free(download) = 0 /\ download.sent < Blocks /\ download' = [download EXCEPT !.outcome = "interrupted"]
     \/ download.sent < Blocks /\ download' = [download EXCEPT !.outcome = "interrupted"]

\* The transfer ends: with everything, too early, or as a page that says why
\* there is none.
Close ==
  /\ At("transfer") /\ download.outcome = None
  /\ \/ download.sent = Blocks /\ download' = [download EXCEPT !.outcome = "whole"]
     \/ download.sent < Blocks /\ download' = [download EXCEPT !.outcome = "failed"]
     \/ download.kind = "http" /\ download' = [download EXCEPT !.outcome = "page"]

\* finish and sync put the size into the directory; when they fail the command
\* ends there.
Commit ==
  /\ At("transfer") /\ download.outcome /= None
  /\ LET content == CASE download.outcome = "whole" -> "whole" [] download.outcome = "page" -> "page" [] OTHER -> "some"
     IN  \/ download' = [download EXCEPT !.phase = "finish", !.part = content]
         \/ download' = Ended(Unmounted(download), "cannot write")

\* An interrupted write is no file, nor is the body of an error.
Complete(d) == d.outcome = "whole"

\* remove_file and rename refuse a name that is held open.
Refused(name) == name \in download.open \/ ~download.mounted

FinishDownload ==
  /\ At("finish") /\ ~Complete(download)
  /\ \/ ~Refused("part") /\ download' = Ended([download EXCEPT !.part = "none"], "discarded")
     \/ Refused("part") /\ download' = Ended(download, "left")
     \/ ~Refused("part") /\ download' = Ended(Unmounted(download), "left")

\* The file that is replaced goes first: rename does not take a name in use.
CommitDownload ==
  /\ At("finish") /\ Complete(download)
  /\ \/ ~Refused("destination") /\ download' = [download EXCEPT !.destination = "none", !.phase = "rename"]
     \/ Refused("destination") /\ download' = Ended(download, "saved as part")
     \/ ~Refused("destination") /\ download' = Ended(Unmounted(download), "saved as part")

Rename ==
  /\ At("rename")
  /\ \/ ~Refused("part") /\ download' = Ended([download EXCEPT !.destination = download.part, !.part = "none"], "saved")
     \/ Refused("part") /\ download' = Ended(download, "saved as part")
     \/ ~Refused("part") /\ download' = Ended(Unmounted(download), "saved as part")

\* fsopen and fsclose hold a name open across commands; it goes stale with the
\* mount.
OpenFile(name) == At("idle") /\ download.mounted /\ download[name] /= "none" /\ download' = [download EXCEPT !.open = @ \cup {name}]
CloseFile(name) == At("idle") /\ name \in download.open /\ download' = [download EXCEPT !.open = @ \ {name}]
Mount == At("idle") /\ ~download.mounted /\ download' = [download EXCEPT !.mounted = TRUE]
PowerLoss == download' = [Ended(Unmounted(download), None) EXCEPT !.report = "power"]

Next ==
  \/ \E kind \in {"tftp", "http"} : Begin(kind)
  \/ NoServer \/ OpenPart \/ Arrive \/ Close \/ Commit \/ FinishDownload \/ CommitDownload \/ Rename
  \/ \E name \in {"destination", "part"} : OpenFile(name) \/ CloseFile(name)
  \/ Mount \/ PowerLoss

Spec == Init /\ [][Next]_download

----------------------------------------------------------------------------
(* Properties *)

TypeOK ==
  /\ download.destination \in {"none", "old", "whole"} \cup {"some", "page"}
  /\ download.part \in {"none", "user", "some", "page", "whole"}
  /\ Free(download) \in 0 .. Space

\* A file under the name asked for is complete, at every moment, whatever
\* failed and whenever the power went.
DestinationIsWhole == download.destination \in {"none", "old", "whole"}

\* While a file is replaced, the old one or the whole new one is on the volume.
OneOfThemIsThere ==
  Busy /\ download.had => download.destination \in Kept \/ download.part = "whole"

\* What the command says last is true of the volume, and a temporary file left
\* behind is named.
ReportsAreTrue ==
  /\ download.report = "saved" => download.destination = "whole" /\ download.part = "none"
  /\ download.report = "saved as part" => download.part = "whole"
  /\ download.report = "discarded" => download.part = "none" /\ (download.had => download.destination \in Kept)
  /\ download.report = "left" => download.part \in {"some", "page"}
  /\ ~Busy /\ download.part \in {"some", "page"} => download.report \notin {"saved", "discarded"}

\* A command that ended left a name that was taken before taken by a whole file,
\* or said under which name the whole file is.
ReplacedOnlyByTheWhole ==
  ~Busy /\ download.had /\ download.report \notin {"saved as part", "power"} => download.destination \in Kept
=============================================================================
