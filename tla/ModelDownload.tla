--------------------------- MODULE ModelDownload ---------------------------
(***************************************************************************)
(* ModelDownloader (internal/vector/model_download.go): an archive is      *)
(* downloaded into a part file that outlives a cut connection, a failed    *)
(* check and the death of the process, is continued from where it ends,    *)
(* checked, and extracted into the directory of the model.                 *)
(*                                                                         *)
(* The part file is a sequence of blocks <<archive, index>>; an archive is *)
(* a version of it that the server has, and block i makes file i.          *)
(***************************************************************************)
EXTENDS Integers, Sequences

CONSTANTS
    Blocks,     \* length of an archive
    Versions,   \* the archives the server may have: 1 .. Versions
    Checked     \* is a checksum configured: that of archive 1

VARIABLES
    served,   \* the archive that the server has
    part,     \* blocks of .download.part, <<>> when there is none
    reply,    \* blocks of the reply that are still to come
    files,    \* file -> the archive it comes from, None or Cut
    filled,   \* files this extraction has made
    at        \* where Ensure is

download == <<served, part, reply, files, filled, at>>

None == 0
Cut == -1
Archive(v) == [i \in 1 .. Blocks |-> <<v, i>>]

DownloadInit ==
    /\ served = 1 /\ part = <<>> /\ reply = <<>>
    /\ files = [i \in 1 .. Blocks |-> None] /\ filled = 0 /\ at = "down"

\* Another archive is published under the same URL.
Publish ==
    /\ served' \in (1 .. Versions) \ {served}
    /\ UNCHANGED <<part, reply, files, filled, at>>

\* modelFilesPresent looks at names only.
Present == \A i \in 1 .. Blocks : files[i] # None

\* Ensure, by a new process
Start ==
    /\ at \in {"down", "dead"}
    /\ at' = IF Present THEN "ready" ELSE "begin"
    /\ UNCHANGED <<served, part, reply, files, filled>>

\* hash.File, compared with the configured sum
Sum(blocks) == blocks = Archive(1)

\* Mutant: the part file is only ever something to resume.
ReuseNever ==
    /\ at = "begin"
    /\ at' = "request"
    /\ UNCHANGED <<served, part, reply, files, filled>>

\* downloadAndExtract: a part file that has the checksum is the archive.
Reuse ==
    /\ at = "begin"
    /\ at' = IF Checked /\ Sum(part) THEN "extract" ELSE "request"
    /\ UNCHANGED <<served, part, reply, files, filled>>

\* The server knows ranges: 206 and the rest, or 416, as there is none.
Partial ==
    /\ at = "request" /\ part # <<>>
    /\ IF Len(part) < Blocks
       THEN at' = "copy" /\ reply' = SubSeq(Archive(served), Len(part) + 1, Blocks)
       ELSE at' = "down" /\ reply' = <<>>
    /\ UNCHANGED <<served, part, files, filled>>

\* The server does not, or no range was asked for, or the source is a local
\* file: the part file is truncated.
Whole ==
    /\ at = "request"
    /\ at' = "copy" /\ reply' = Archive(served) /\ part' = <<>>
    /\ UNCHANGED <<served, files, filled>>

\* io.Copy
Copy ==
    /\ at = "copy" /\ reply # <<>>
    /\ part' = Append(part, Head(reply)) /\ reply' = Tail(reply)
    /\ UNCHANGED <<served, files, filled, at>>

\* A part file with the wrong checksum stays.
Check ==
    /\ at = "copy" /\ reply = <<>>
    /\ at' = IF Checked /\ ~Sum(part) THEN "down" ELSE "extract"
    /\ UNCHANGED <<served, part, reply, files, filled>>

\* extractTarGz opens a file with O_TRUNC and fills it; where the blocks of
\* another archive begin, gzip fails.
Next1 == filled + 1

OpenFile ==
    /\ at = "extract" /\ Next1 \in DOMAIN part
    /\ files' = [files EXCEPT ![Next1] = Cut] /\ at' = "fill"
    /\ UNCHANGED <<served, part, reply, filled>>

FillFile ==
    /\ at = "fill" /\ part[Next1] = <<part[1][1], Next1>>
    /\ files' = [files EXCEPT ![Next1] = part[1][1]] /\ filled' = Next1 /\ at' = "extract"
    /\ UNCHANGED <<served, part, reply>>

\* The part file goes when everything is extracted.
Extracted ==
    /\ at = "extract" /\ filled = Len(part)
    /\ part' = <<>> /\ filled' = 0 /\ at' = IF Present THEN "ready" ELSE "down"
    /\ UNCHANGED <<served, reply, files>>

\* Every error ends Ensure: no connection, another status, a cut connection,
\* a full disk, an archive that cannot be read; so does the process's death.
Fail ==
    /\ at # "dead"
    /\ at' = "dead" /\ reply' = <<>> /\ filled' = 0
    /\ UNCHANGED <<served, part, files>>

DownloadStep == Start \/ Reuse \/ Partial \/ Whole \/ Copy \/ Check \/ OpenFile \/ FillFile \/ Extracted
DownloadNext == DownloadStep \/ Fail \/ Publish
DownloadSpec == DownloadInit /\ [][DownloadNext]_download

-----------------------------------------------------------------------------
(* Properties                                                              *)

\* With a checksum configured, nothing of another archive gets into the
\* directory of the model, however the part file came to be.
VerifiedOnly == Checked => \A i \in 1 .. Blocks : files[i] \in {None, Cut, 1}

\* Whatever is appended to what an interrupted download left, and whichever
\* archives came on the way: what stands at a place belongs there.
PartInOrder == \A i \in DOMAIN part : part[i][2] = i

\* A download of an archive that stays what it is, with a checksum, is finished
\* in the end, wherever it was interrupted, once the interruptions cease.
Recovers == Checked /\ [](served = 1) /\ <>[][~Fail]_download => <>(at = "ready")
=============================================================================
