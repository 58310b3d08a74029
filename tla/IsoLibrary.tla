----------------------------- MODULE IsoLibrary -----------------------------
(***************************************************************************)
(* The ISO library: files in a directory, rows in a table, and the         *)
(* handlers that write and delete them (iso_handlers.go, store/isos.go).   *)
(* Nothing locks a name: a handler looks at the table, at the directory,   *)
(* transfers for minutes, and looks again.  Handlers are cut at every call *)
(* of the database and of the file system.                                 *)
(*                                                                         *)
(* A writer is one upload request or one URL download.  The file it        *)
(* creates is named after it, so that file[n] tells whose bytes are at the *)
(* path and row[n] whose transfer the table describes.                     *)
(***************************************************************************)
EXTENDS Integers, FiniteSets

CONSTANTS
    Uploaders, Downloaders,     \* POST /api/isos and POST /api/isos/download
    Deleters,                   \* DELETE /api/isos/{name}
    UploadNames, DownloadNames, \* what users upload and what they download
    Sizes,                      \* of the transferred files
    MaxTotalBytes,              \* ISOMaxSizeGB
    MaxRestarts,                \* bound: the process may crash this often
    NoWriter, NoName

Names == UploadNames \cup DownloadNames
Writers == Uploaders \cup Downloaders

ASSUME WritersAssumption ==
    /\ Uploaders \cap Downloaders = {}
    /\ NoWriter \notin Writers
    /\ NoName \notin Names
ASSUME SizesAssumption == Sizes \subseteq Nat /\ MaxTotalBytes \in Nat
ASSUME RestartsAssumption == MaxRestarts \in Nat

VARIABLES
    file,     \* the directory: the writer whose file is at the path
    row,      \* iso_files: the writer whose transfer is recorded
    at,       \* where each writer is
    name,     \* the file name it was asked for
    size,     \* how many bytes it transfers
    total,    \* the sum of sizes it read from the table
    dl,       \* the status of its entry in s.Downloads
    del,      \* the DELETE handlers
    spoilt,   \* ghost: names of which a DELETE has stopped halfway or met another
    overlap,  \* ghost: two transfers have been under way at once
    restarts

fileVars == <<file, row>>
writerVars == <<at, name, size, total>>
ghostVars == <<spoilt, overlap>>
vars == <<file, row, at, name, size, total, dl, del, spoilt, overlap, restarts>>

Steps == {"idle", "asked", "tracked", "limit", "stat", "lookup", "clean", "open", "copy",
          "recheck", "insert", "remove", "fail", "mark", "finish", "done"}
\* Between reading the sum of sizes and adding to it.
UnderWay == {"stat", "lookup", "clean", "open", "copy", "recheck", "insert"}
IdleDelete == [at |-> "idle", name |-> NoName]

TypeOK ==
    /\ file \in [Names -> Writers \cup {NoWriter}]
    /\ row \in [Names -> Writers \cup {NoWriter}]
    /\ at \in [Writers -> Steps]
    /\ name \in [Writers -> Names \cup {NoName}]
    /\ size \in [Writers -> Nat]
    /\ total \in [Writers -> Nat]
    /\ dl \in [Downloaders -> {"none", "downloading", "complete", "error"}]
    /\ del \in [Deleters -> [at : {"idle", "remove", "row"}, name : Names \cup {NoName}]]
    /\ spoilt \in SUBSET Names
    /\ overlap \in BOOLEAN
    /\ restarts \in 0..MaxRestarts
    /\ \A w \in Writers : at[w] \notin {"idle", "done"} => name[w] \in Names
    /\ \A d \in Deleters : del[d].at # "idle" => del[d].name \in Names

Init ==
    /\ file = [n \in Names |-> NoWriter]
    /\ row = [n \in Names |-> NoWriter]
    /\ at = [w \in Writers |-> "idle"]
    /\ name = [w \in Writers |-> NoName]
    /\ size = [w \in Writers |-> 0]
    /\ total = [w \in Writers |-> 0]
    /\ dl = [w \in Downloaders |-> "none"]
    /\ del = [d \in Deleters |-> IdleDelete]
    /\ spoilt = {}
    /\ overlap = FALSE
    /\ restarts = 0

-----------------------------------------------------------------------------
\* ListISOs, and SizeBytes of every row added up: the recorded bytes are counted.
Recorded == {n \in Names : row[n] # NoWriter}
RecordedBytes == UNION {{n} \X (1..size[row[n]]) : n \in Recorded}
TotalSize == Cardinality(RecordedBytes)

\* GetISO: is there a row of that name?
GetISO(n) == row[n] # NoWriter

Go(w, step) == at' = [at EXCEPT ![w] = step]

\* Where an error leads: an upload removes its path where it has to and answers; a
\* download calls fail, which removes the path and marks the tracker.
Refuse(w) == Go(w, IF w \in Downloaders THEN "fail" ELSE "done")
Abandon(w) == Go(w, IF w \in Downloaders THEN "fail" ELSE "remove")

(***************************************************************************)
(* The requests.  GetISO finds no row of that name, otherwise: conflict.   *)
(***************************************************************************)
UploadISO(w, n, s) ==
    /\ w \in Uploaders /\ n \in UploadNames
    /\ at[w] = "idle" /\ ~GetISO(n)
    /\ name' = [name EXCEPT ![w] = n]
    /\ size' = [size EXCEPT ![w] = s]
    /\ Go(w, "limit")
    /\ UNCHANGED <<fileVars, total, dl, del, ghostVars, restarts>>

DownloadISOFromURL(w, n, s) ==
    /\ w \in Downloaders /\ n \in DownloadNames
    /\ at[w] = "idle" /\ ~GetISO(n)
    /\ name' = [name EXCEPT ![w] = n]
    /\ size' = [size EXCEPT ![w] = s]
    /\ Go(w, "asked")
    /\ UNCHANGED <<fileVars, total, dl, del, ghostVars, restarts>>

\* "Check if a download for this filename is already in progress".
CheckInProgress(w) ==
    /\ at[w] = "asked"
    /\ LET busy == \E v \in Downloaders : dl[v] = "downloading" /\ name[v] = name[w]
       IN Go(w, IF busy THEN "done" ELSE "tracked")
    /\ UNCHANGED <<fileVars, name, size, total, dl, del, ghostVars, restarts>>

\* A second lock section enters the tracker; then the goroutine starts.
Track(w) ==
    /\ at[w] = "tracked"
    /\ dl' = [dl EXCEPT ![w] = "downloading"]
    /\ \/ Go(w, "limit")
       \/ Go(w, "fail")     \* the remote server does not answer, or not with 200
    /\ UNCHANGED <<fileVars, name, size, total, del, ghostVars, restarts>>

\* ListISOs and the first check, against the declared size.  A remote server may
\* declare none; the query may fail.
CheckLimit(w) ==
    /\ at[w] = "limit"
    /\ total' = [total EXCEPT ![w] = TotalSize]
    /\ overlap' = (overlap \/ \E v \in Writers : at[v] \in UnderWay)
    /\ \/ Refuse(w)
       \/ /\ \/ size[w] = 0 \/ TotalSize + size[w] <= MaxTotalBytes
             \/ w \in Downloaders
          /\ Go(w, IF w \in Downloaders THEN "stat" ELSE "open")
    /\ UNCHANGED <<fileVars, name, size, dl, del, spoilt, restarts>>

(***************************************************************************)
(* "Clean up orphaned partial files", downloads only: stat, GetISO, Remove. *)
(***************************************************************************)
StatPath(w) ==
    /\ at[w] = "stat"
    /\ Go(w, IF file[name[w]] = NoWriter THEN "open" ELSE "lookup")
    /\ UNCHANGED <<fileVars, name, size, total, dl, del, ghostVars, restarts>>

\* GetISO's error is ignored, and its row is nil then.
LookupOrphan(w) ==
    /\ at[w] = "lookup"
    /\ \/ GetISO(name[w]) /\ Go(w, "open")
       \/ Go(w, "clean")
    /\ UNCHANGED <<fileVars, name, size, total, dl, del, ghostVars, restarts>>

CleanOrphan(w) ==
    /\ at[w] = "clean"
    /\ file' = [file EXCEPT ![name[w]] = NoWriter]
    /\ Go(w, "open")
    /\ UNCHANGED <<row, name, size, total, dl, del, ghostVars, restarts>>

(***************************************************************************)
(* The transfer.                                                           *)
(***************************************************************************)
\* Faulty variant: os.Create, which truncates a file that is there.
CreateTruncating(w) ==
    /\ at[w] = "open"
    /\ file' = [file EXCEPT ![name[w]] = w]
    /\ Go(w, "copy")
    /\ UNCHANGED <<row, name, size, total, dl, del, ghostVars, restarts>>

\* O_CREATE|O_EXCL.
OpenFile(w) ==
    /\ at[w] = "open"
    /\ \/ /\ file[name[w]] = NoWriter
          /\ file' = [file EXCEPT ![name[w]] = w]
          /\ Go(w, "copy")
       \/ Refuse(w) /\ UNCHANGED file
    /\ UNCHANGED <<row, name, size, total, dl, del, ghostVars, restarts>>

\* io.Copy and Close.
Copy(w) ==
    /\ at[w] = "copy"
    /\ Go(w, "recheck") \/ Abandon(w)
    /\ UNCHANGED <<fileVars, name, size, total, dl, del, ghostVars, restarts>>

\* Faulty variant: the second check is left to the declared size.
RecheckDeclared(w) ==
    /\ at[w] = "recheck"
    /\ Go(w, "insert")
    /\ UNCHANGED <<fileVars, name, size, total, dl, del, ghostVars, restarts>>

\* The second check, with the bytes written and the sum read before the transfer.
Recheck(w) ==
    /\ at[w] = "recheck"
    /\ Go(w, IF total[w] + size[w] > MaxTotalBytes THEN "remove" ELSE "insert")
    /\ UNCHANGED <<fileVars, name, size, total, dl, del, ghostVars, restarts>>

\* InsertISO: the name is unique in the table.
InsertISO(w) ==
    /\ at[w] = "insert"
    /\ \/ /\ row[name[w]] = NoWriter
          /\ row' = [row EXCEPT ![name[w]] = w]
          /\ Go(w, IF w \in Downloaders THEN "finish" ELSE "done")
       \/ Go(w, "remove") /\ UNCHANGED row
    /\ UNCHANGED <<file, name, size, total, dl, del, ghostVars, restarts>>

\* os.Remove of the path, whoever's file is there by now.
RemovePath(w) ==
    /\ at[w] = "remove"
    /\ file' = [file EXCEPT ![name[w]] = NoWriter]
    /\ Refuse(w)
    /\ UNCHANGED <<row, name, size, total, dl, del, ghostVars, restarts>>

\* performISODownload's fail: remove, then mark.
FailRemoves(w) ==
    /\ at[w] = "fail"
    /\ file' = [file EXCEPT ![name[w]] = NoWriter]
    /\ Go(w, "mark")
    /\ UNCHANGED <<row, name, size, total, dl, del, ghostVars, restarts>>

\* Faulty variant: fail returns without marking the tracker.
MarkNothing(w) ==
    /\ at[w] = "mark"
    /\ Go(w, "done")
    /\ UNCHANGED <<fileVars, name, size, total, dl, del, ghostVars, restarts>>

MarkFailed(w) ==
    /\ at[w] = "mark"
    /\ dl' = [dl EXCEPT ![w] = "error"]
    /\ Go(w, "done")
    /\ UNCHANGED <<fileVars, name, size, total, del, ghostVars, restarts>>

MarkComplete(w) ==
    /\ at[w] = "finish"
    /\ dl' = [dl EXCEPT ![w] = "complete"]
    /\ Go(w, "done")
    /\ UNCHANGED <<fileVars, name, size, total, del, ghostVars, restarts>>

(***************************************************************************)
(* DeleteISO: look the row up, remove the file (a missing one is no error), *)
(* delete the row.  Either call may fail and end the request.              *)
(***************************************************************************)
LookupISO(d, n) ==
    /\ del[d].at = "idle" /\ GetISO(n)
    /\ del' = [del EXCEPT ![d] = [at |-> "remove", name |-> n]]
    /\ spoilt' = IF \E e \in Deleters : del[e].at # "idle" /\ del[e].name = n
                 THEN spoilt \cup {n} ELSE spoilt
    /\ UNCHANGED <<fileVars, writerVars, dl, overlap, restarts>>

RemoveFile(d) ==
    /\ del[d].at = "remove"
    /\ \/ /\ file' = [file EXCEPT ![del[d].name] = NoWriter]
          /\ del' = [del EXCEPT ![d].at = "row"]
       \/ UNCHANGED file /\ del' = [del EXCEPT ![d] = IdleDelete]
    /\ UNCHANGED <<row, writerVars, dl, ghostVars, restarts>>

DeleteRow(d) ==
    /\ del[d].at = "row"
    /\ \/ row' = [row EXCEPT ![del[d].name] = NoWriter] /\ UNCHANGED spoilt
       \/ spoilt' = spoilt \cup {del[d].name} /\ UNCHANGED row
    /\ del' = [del EXCEPT ![d] = IdleDelete]
    /\ UNCHANGED <<file, writerVars, dl, overlap, restarts>>

\* A crash: requests, goroutines and trackers are gone, files and rows stay.
Restart ==
    /\ restarts < MaxRestarts
    /\ restarts' = restarts + 1
    /\ at' = [w \in Writers |-> IF at[w] = "idle" THEN "idle" ELSE "done"]
    /\ dl' = [w \in Downloaders |-> "none"]
    /\ spoilt' = spoilt \cup {del[d].name : d \in {e \in Deleters : del[e].at = "row"}}
    /\ del' = [d \in Deleters |-> IdleDelete]
    /\ UNCHANGED <<fileVars, name, size, total, overlap>>

-----------------------------------------------------------------------------
\* What a writer does by itself, once the transfer is over or not yet begun.
Work(w) ==
    \/ CheckLimit(w) \/ StatPath(w) \/ LookupOrphan(w) \/ CleanOrphan(w)
    \/ OpenFile(w) \/ Recheck(w) \/ InsertISO(w) \/ RemovePath(w)
    \/ FailRemoves(w) \/ MarkFailed(w) \/ MarkComplete(w)

Next ==
    \/ \E w \in Uploaders, n \in UploadNames, s \in Sizes : UploadISO(w, n, s)
    \/ \E w \in Downloaders, n \in DownloadNames, s \in Sizes : DownloadISOFromURL(w, n, s)
    \/ \E w \in Downloaders : CheckInProgress(w) \/ Track(w)
    \/ \E w \in Writers : Work(w) \/ Copy(w)
    \/ \E d \in Deleters, n \in Names : LookupISO(d, n)
    \/ \E d \in Deleters : RemoveFile(d) \/ DeleteRow(d)
    \/ Restart

Spec == Init /\ [][Next]_vars

\* Calls of the database and the file system return.  Nothing is assumed of the
\* remote server: the transfer has no time-out.
FairSpec == Spec /\ \A w \in Writers : WF_vars(Work(w))

-----------------------------------------------------------------------------
\* A row never lacks its file: of a name that no URL download asks for, however
\* many uploads of it run at once and whichever of their steps fail, the recorded
\* file is at the path, and it is the one the row describes.  Excepted are a delete
\* between its two steps, and names of which a delete once stopped there because of
\* a crash or a database error, or met another delete of the same name: the second
\* one acts on a row it looked up before the first removed it, and may remove the
\* file of an upload that began since.  (See RecordedFileIsKept for URL downloads.)
RecordedFileIsThere ==
    \A n \in UploadNames \ DownloadNames :
        row[n] # NoWriter =>
            \/ file[n] = row[n]
            \/ n \in spoilt
            \/ \E d \in Deleters : del[d] = [at |-> "row", name |-> n]

\* The storage limit is compared with a sum read before the transfer, so transfers
\* that overlap can exceed it together.  As long as none do it holds, with sizes
\* the remote server does not declare, deletes and crashes in between.
StorageLimitHolds == ~overlap => TotalSize <= MaxTotalBytes

\* A download whose transfer has ended, well or badly, does not stay "downloading":
\* otherwise the name could not be downloaded until the next restart.
EndedDownloadIsDecided ==
    \A w \in Downloaders :
        (at[w] \in {"recheck", "insert", "remove", "fail", "mark", "finish"})
            ~> dl[w] # "downloading"

(***************************************************************************)
(* What a comment in the code says and the code does not do.               *)
(***************************************************************************)
\* "Clean up orphaned partial files (exist on disk but not in DB)": a file that is
\* in the database goes only by DeleteISO.
RecordedFileIsKept ==
    [][\A n \in Names :
          row[n] # NoWriter /\ file[n] = row[n] /\ file'[n] # file[n]
            => \E d \in Deleters : del[d] = [at |-> "remove", name |-> n]]_vars
=============================================================================
