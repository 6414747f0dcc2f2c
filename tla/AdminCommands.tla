---------------------------- MODULE AdminCommands ----------------------------
(***************************************************************************)
(* The operator's commands over the files of a deployment, next to the     *)
(* daemon that serves it (ObjectService):                                  *)
(*   - fsck --fix, cmd/telang/fsck.go (without --fix it ends after the     *)
(*     walk over the index);                                               *)
(*   - export-metadata and import-metadata, cmd/telang/metadata_io.go.     *)
(* A command is a process of its own. It opens the SQLite file the daemon  *)
(* has open too, so its steps interleave with those of the requests. The   *)
(* rows of one query are one snapshot, however long the command takes over *)
(* them; two queries are two snapshots, and a deletion is a transaction of *)
(* its own.                                                                *)
(*                                                                         *)
(* The operator runs one command at a time and stops the daemon to import. *)
(***************************************************************************)
EXTENDS ObjectService

CONSTANT
    CommandFaults  \* what may go wrong in a command: telegram, a query of fsck;
                   \* database, a statement

ASSUME CommandFaultsAssumption == CommandFaults \subseteq {"telegram", "database"}

VARIABLES
    cmd,        \* the command that runs
    dump,       \* meta.jsonl, what the last export wrote
    replaced    \* history: the SQLite file was lost, or imported into

adminVars == <<cmd, dump, replaced>>
allVars == <<vars, adminVars>>

Row == [bucket : Bucket, key : Key, msg : Message]

\* A record of the file is of one kind: the name of a bucket is not a row.
ASSUME KindsAssumption == Bucket \cap Row = {}

Rows == {row \in Row : objects[row.bucket][row.key] = row.msg}

\* todo holds the records a command has still to go through, orphans what fsck
\* will delete. errs: a query of fsck failed; skipped: an orphan could not be
\* deleted; gone: history, the rows without a message when fsck began; absent:
\* history, the buckets the index did not have when an import began.
CommandState ==
    [pc : {"idle", "check", "fix", "exportBuckets", "exportObjects",
           "import", "done"},
     op : {None, "fsck", "export", "import"},
     todo : SUBSET (Bucket \cup Row), orphans : SUBSET Row,
     errs : BOOLEAN, skipped : BOOLEAN, answer : {None, "ok", "error"},
     gone : SUBSET Row, absent : SUBSET Bucket]

NoCommand == [pc |-> "idle", op |-> None, todo |-> {}, orphans |-> {}, errs |-> FALSE,
              skipped |-> FALSE, answer |-> None,
              gone |-> {}, absent |-> {}]

\* cut: the export failed, so that the file ends early. absent: history, the
\* buckets created while the export ran, or not there when it read the objects.
Dump == [names : SUBSET Bucket, rows : SUBSET Row, cut : BOOLEAN,
         absent : SUBSET Bucket]
NoDump == [names |-> {}, rows |-> {}, cut |-> FALSE, absent |-> {}]

Running(pc) == cmd.pc = pc
Advance(changed) == cmd' = changed
Exit(answer) == cmd' = [cmd EXCEPT !.pc = "done", !.answer = answer]

\* Bound: there is one export, and messages are lost and looked for before it; what
\* is exported and imported does not depend on the messages.
BeforeDump == dump = NoDump /\ ~replaced

\* A statement of the command's own connection is refused.
DatabaseFails == "database" \in CommandFaults

-----------------------------------------------------------------------------
(* fsck *)

\* ForEachObject's query, whose rows are the index as it is now.
StartFsck ==
    /\ Running("idle") /\ BeforeDump
    /\ Advance([NoCommand EXCEPT !.pc = "check", !.op = "fsck", !.todo = Rows,
                                 !.gone = {row \in Rows : row.msg \notin channel}])
    /\ UNCHANGED <<vars, dump, replaced>>

\* Mutants: a failed query counts as a missing message; it is not counted.
FsckCheckCarelessly ==
    /\ Running("check")
    /\ \E row \in cmd.todo :
          \/ /\ row.msg \in channel
             /\ Advance([cmd EXCEPT !.todo = @ \ {row}])
          \/ /\ row.msg \notin channel \/ "telegram" \in CommandFaults
             /\ Advance([cmd EXCEPT !.todo = @ \ {row}, !.orphans = @ \cup {row}])
    /\ UNCHANGED <<vars, dump, replaced>>

FsckCheckSilently ==
    /\ Running("check")
    /\ \E row \in cmd.todo :
          \/ /\ row.msg \in channel \/ "telegram" \in CommandFaults
             /\ Advance([cmd EXCEPT !.todo = @ \ {row}])
          \/ /\ row.msg \notin channel
             /\ Advance([cmd EXCEPT !.todo = @ \ {row}, !.orphans = @ \cup {row}])
    /\ UNCHANGED <<vars, dump, replaced>>

\* The callback: Backend.Exists of one row; its error is counted, not fatal.
FsckCheck ==
    /\ Running("check")
    /\ \E row \in cmd.todo :
          \/ /\ row.msg \in channel
             /\ Advance([cmd EXCEPT !.todo = @ \ {row}])
          \/ /\ row.msg \notin channel
             /\ Advance([cmd EXCEPT !.todo = @ \ {row}, !.orphans = @ \cup {row}])
          \/ /\ "telegram" \in CommandFaults
             /\ Advance([cmd EXCEPT !.todo = @ \ {row}, !.errs = TRUE])
    /\ UNCHANGED <<vars, dump, replaced>>

\* A row that cannot be read ends the command before anything is deleted.
FsckReadFails ==
    /\ Running("check") /\ DatabaseFails
    /\ Exit("error")
    /\ UNCHANGED <<vars, dump, replaced>>

FsckWalked ==
    /\ Running("check") /\ cmd.todo = {}
    /\ Advance([cmd EXCEPT !.pc = "fix"])
    /\ UNCHANGED <<vars, dump, replaced>>

\* Meta.DeleteObject of an orphan, by its bucket and key: whatever row they have
\* by now. An object deleted meanwhile is an error like any other, and passed over.
FsckFix ==
    /\ Running("fix")
    /\ \E row \in cmd.orphans :
          \/ /\ objects[row.bucket][row.key] # NoMessage
             /\ SetRow(row.bucket, row.key, NoMessage)
             /\ Advance([cmd EXCEPT !.orphans = @ \ {row}])
          \/ /\ objects[row.bucket][row.key] = NoMessage \/ DatabaseFails
             /\ Advance([cmd EXCEPT !.orphans = @ \ {row}, !.skipped = TRUE])
             /\ UNCHANGED <<objects, seen>>
    /\ UNCHANGED <<buckets, keyOf, cipherCache, cached, channel, sealedWith, nextMessage,
                   nextKey, req, dump, replaced>>

\* The exit status tells of queries that failed, not of orphans that stayed.
FsckEnd ==
    /\ Running("fix") /\ cmd.orphans = {}
    /\ Exit(IF cmd.errs THEN "error" ELSE "ok")
    /\ UNCHANGED <<vars, dump, replaced>>

-----------------------------------------------------------------------------
(* export-metadata *)

\* Mutant: the objects are written before the buckets.
ExportAfterSwapped(pc) ==
    CASE pc = "idle"          -> "exportObjects"
      [] pc = "exportObjects" -> "exportBuckets"
      [] pc = "exportBuckets" -> "done"

\* The sections of the file and their order.
ExportAfter(pc) ==
    CASE pc = "idle"          -> "exportBuckets"
      [] pc = "exportBuckets" -> "exportObjects"
      [] pc = "exportObjects" -> "done"

StartExport ==
    /\ Running("idle") /\ BeforeDump
    /\ Advance([NoCommand EXCEPT !.pc = ExportAfter("idle"), !.op = "export"])
    /\ UNCHANGED <<vars, dump, replaced>>

\* A query over one snapshot, each of whose rows is a line of the file. When it
\* fails, the lines written so far stay.
ExportSection(pc, whole, parts) ==
    /\ Running(pc)
    /\ \/ /\ dump' = whole
          /\ Advance([cmd EXCEPT !.pc = ExportAfter(pc)])
       \/ /\ DatabaseFails
          /\ \E part \in parts : dump' = [part EXCEPT !.cut = TRUE]
          /\ Exit("error")
    /\ UNCHANGED <<vars, replaced>>

\* ForEachBucket.
ExportBuckets ==
    LET Written(lines) == [dump EXCEPT !.names = lines] IN
    ExportSection("exportBuckets", Written(buckets), {Written(ls) : ls \in SUBSET buckets})

\* ForEachObject.
ExportObjects ==
    LET Written(lines) == [dump EXCEPT !.rows = lines, !.absent = @ \cup (Bucket \ buckets)]
    IN ExportSection("exportObjects", Written(Rows), {Written(ls) : ls \in SUBSET Rows})

-----------------------------------------------------------------------------
(* import-metadata *)

Stopped == \A r \in Request : req[r] = Idle

\* A database with a bucket is refused; when the buckets cannot be listed
\* (the error is dropped) it passes for an empty one.
StartImport ==
    /\ Running("idle") /\ Stopped
    /\ replaced' = TRUE
    /\ \/ /\ buckets # {}
          /\ Advance([NoCommand EXCEPT !.pc = "done", !.op = "import", !.answer = "error"])
       \/ /\ buckets = {} \/ DatabaseFails
          /\ Advance([NoCommand EXCEPT !.pc = "import", !.op = "import",
                                        !.todo = dump.names \cup dump.rows,
                                        !.absent = Bucket \ buckets])
    /\ UNCHANGED <<vars, dump>>

\* Mutant: a bucket that exists is passed over, so that a restore that failed can
\* be repeated.
ImportBucketAgain ==
    /\ Running("import")
    /\ \E b \in cmd.todo \cap Bucket :
          \/ /\ buckets' = buckets \cup {b}
             /\ Advance([cmd EXCEPT !.todo = @ \ {b}])
          \/ /\ DatabaseFails
             /\ UNCHANGED buckets
             /\ Exit("error")
    /\ UNCHANGED <<objects, keyOf, cipherCache, cached, channel, sealedWith, nextMessage,
                   nextKey, req, seen, dump, replaced>>

\* A record of kind "bucket", which come first in the file: Meta.CreateBucket,
\* whose error (the bucket exists) ends the command where it is.
ImportBucket ==
    /\ Running("import")
    /\ \E b \in cmd.todo \cap Bucket :
          \/ /\ b \notin buckets
             /\ buckets' = buckets \cup {b}
             /\ Advance([cmd EXCEPT !.todo = @ \ {b}])
          \/ /\ b \in buckets \/ DatabaseFails
             /\ UNCHANGED buckets
             /\ Exit("error")
    /\ UNCHANGED <<objects, keyOf, cipherCache, cached, channel, sealedWith, nextMessage,
                   nextKey, req, seen, dump, replaced>>

\* Mutant: an object that cannot be written is passed over.
ImportObjectCarelessly ==
    /\ Running("import") /\ cmd.todo \cap Bucket = {}
    /\ \E row \in cmd.todo :
          /\ Advance([cmd EXCEPT !.todo = @ \ {row}])
          /\ \/ SetRow(row.bucket, row.key, row.msg)
             \/ DatabaseFails /\ UNCHANGED <<objects, seen>>
    /\ UNCHANGED <<buckets, keyOf, cipherCache, cached, channel, sealedWith, nextMessage,
                   nextKey, req, dump, replaced>>

\* A record of kind "object": Meta.PutObject, which overwrites and asks for no bucket.
ImportObject ==
    /\ Running("import") /\ cmd.todo \cap Bucket = {}
    /\ \E row \in cmd.todo :
          \/ /\ SetRow(row.bucket, row.key, row.msg)
             /\ Advance([cmd EXCEPT !.todo = @ \ {row}])
          \/ /\ DatabaseFails
             /\ UNCHANGED <<objects, seen>>
             /\ Exit("error")
    /\ UNCHANGED <<buckets, keyOf, cipherCache, cached, channel, sealedWith, nextMessage,
                   nextKey, req, dump, replaced>>

\* The file has no last line that says it is complete: one cut off between two
\* lines ends as well as a whole one, one cut off within a line does not parse.
ImportEnd ==
    /\ Running("import") /\ cmd.todo = {}
    /\ \/ Exit("ok")
       \/ dump.cut /\ Exit("error")
    /\ UNCHANGED <<vars, dump, replaced>>

-----------------------------------------------------------------------------
(* The operator and the surroundings *)

CommandExits ==
    /\ Running("done")
    /\ Advance(NoCommand)
    /\ UNCHANGED <<vars, dump, replaced>>

\* The message of an object is deleted in Telegram, behind the daemon's back.
LoseMessage ==
    /\ BeforeDump
    /\ \E row \in Rows : row.msg \in channel /\ channel' = channel \ {row.msg}
    /\ UNCHANGED <<buckets, objects, keyOf, cipherCache, cached, sealedWith, nextMessage,
                   nextKey, req, seen, adminVars>>

\* The SQLite file is lost, or removed as a refused import asks for; keys.toml is
\* not. The next process that opens it finds an empty index.
LoseIndex ==
    /\ Running("idle") /\ Stopped /\ dump # NoDump
    /\ buckets' = {}
    /\ objects' = [b \in Bucket |-> [k \in Key |-> NoMessage]]
    /\ cipherCache' = [b \in Bucket |-> NoKey]
    /\ replaced' = TRUE
    /\ UNCHANGED <<keyOf, cached, channel, sealedWith, nextMessage, nextKey, req, seen,
                   cmd, dump>>

\* A step of the daemon. It is stopped for an import, and (bound) not followed
\* once its index has been replaced.
ServiceStep ==
    /\ ~replaced
    /\ Next
    /\ dump' = IF cmd.op = "export" /\ ~Running("done")
               THEN [dump EXCEPT !.absent = @ \cup (buckets' \ buckets)]
               ELSE dump
    /\ UNCHANGED <<cmd, replaced>>

AdminInit == Init /\ cmd = NoCommand /\ dump = NoDump /\ replaced = FALSE

AdminNext ==
    \/ StartFsck \/ FsckCheck \/ FsckReadFails \/ FsckWalked \/ FsckFix \/ FsckEnd
    \/ StartExport \/ ExportBuckets \/ ExportObjects
    \/ StartImport \/ ImportBucket \/ ImportObject \/ ImportEnd
    \/ CommandExits
    \/ LoseMessage \/ LoseIndex
    \/ ServiceStep

AdminSpec == AdminInit /\ [][AdminNext]_allVars
-----------------------------------------------------------------------------
(* Properties *)

\* fsck takes away no object that Telegram still holds: the row it deletes is one
\* whose message it found missing, or belongs to an object that was overwritten
\* since fsck read the index. A query that fails condemns nothing.
FsckSparesTheLiving ==
    [][Running("fix") =>
          \A row \in cmd.orphans \ cmd'.orphans :
             objects[row.bucket][row.key] = row.msg => row.msg \notin channel]_allVars

\* A repair that reports success, and whose deletions were not refused, has
\* repaired: no row that had lost its message when fsck began is left, although
\* clients overwrite and delete objects all the while.
FsckRepairs ==
    Running("done") /\ cmd.op = "fsck" /\ cmd.answer = "ok" /\ ~cmd.skipped
        => cmd.gone \cap Rows = {}

\* An import that reports success has restored every record of the file it read,
\* also when an earlier import of the file failed half way.
ImportRestoresAll ==
    Running("done") /\ cmd.op = "import" /\ cmd.answer = "ok"
        => dump.names \subseteq buckets /\ dump.rows \subseteq Rows

\* A misfired import cannot corrupt a deployment (setup.md:391), even when the
\* test for an empty database fails: of a bucket that the index has and the file
\* names, it changes no object.
ImportOverwritesNothing ==
    [][Running("import") =>
          \A row \in Rows : row.bucket \in dump.names \ cmd.absent
                              => objects'[row.bucket][row.key] = row.msg]_allVars

\* What an import restores into an empty database has its bucket, although the
\* export read the objects after the buckets and the daemon went on: except
\* objects of a bucket created in between, or of one the index did not have.
RestoredInBuckets ==
    Running("done") /\ cmd.op = "import" /\ cmd.answer = "ok"
        => \A row \in dump.rows : row.bucket \in buckets \cup dump.absent

\* Creations and deletions of one bucket at the same time never leave half of it
\* behind, next to fsck and export as well, until the index is lost or imported into.
KeysMatchIndex == replaced \/ KeysMatchBuckets
=============================================================================
