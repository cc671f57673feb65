----------------------------- MODULE Compression -----------------------------
(***************************************************************************)
(* CompressionProcessor::process of                                       *)
(* src/rust-srec/src/pipeline/processors/compression.rs: several jobs     *)
(* archive their inputs into one output path.  Each job is an async       *)
(* process() (pc) that checks the output path, then hands the work to a   *)
(* spawn_blocking worker (wpc) which writes a uniquely named temporary    *)
(* file, checks the cancellation token and renames the file into place.   *)
(*                                                                         *)
(* The job queue that calls process() is not part of this code, so it is *)
(* the environment: it may cancel a job's token, drop a job's future      *)
(* (which fires CancelOnDrop), and other pipeline steps may delete input  *)
(* files.  Every file-system call may fail; a failure is an Err return,   *)
(* on which the worker's TmpFileGuard removes the temporary file.          *)
(*                                                                         *)
(* Zip and tar.gz archives have the same control flow (create, metadata   *)
(* of every input, per entry: cancel check, open, copy through            *)
(* CancelProgressReader, then finish), so one set of worker steps stands  *)
(* for both; their extra failure points fold into "a call may fail".       *)
(*                                                                         *)
(* The output path holds "none", the archive that was there before the    *)
(* jobs ran ("pre"), or the archive of the job that last renamed into it. *)
(* `copied` (entries copied into a job's temporary archive) and           *)
(* `published` (the job's archive was renamed into place) are ghosts.     *)
(***************************************************************************)
EXTENDS Naturals, FiniteSets

CONSTANTS
    Jobs,       \* concurrent process() calls for the same output path
    NumInputs   \* input files of every job

ASSUME NumInputs \in Nat \ {0}

VARIABLES
    out,        \* what the output path holds
    tmp,        \* job -> its temporary archive file exists
    present,    \* job -> the set of its input files that exist
    overwrite,  \* job -> CompressionConfig.overwrite
    cancelled,  \* job -> its child cancellation token is cancelled
    pc,         \* job -> where process() is
    res,        \* job -> what process() returned
    wpc,        \* job -> where the blocking worker is
    wres,       \* job -> what the worker closure returned
    entry,      \* job -> the input the entry loop is at
    copied,     \* ghost: job -> entries copied into its temporary archive
    published   \* ghost: job -> its archive was renamed into place

vars == <<out, tmp, present, overwrite, cancelled, pc, res, wpc, wres,
          entry, copied, published>>

Idx == 1..NumInputs

Outputs == {"none", "pre"} \cup Jobs

WorkerPCs == {"none", "guard", "create", "entry", "copy", "finish", "check",
              "rename", "remove", "rename2", "done"}

fsVars == <<out, present, overwrite>>

-----------------------------------------------------------------------------
(* A worker step that ends in an Err return: the closure returns, the     *)
(* TmpFileGuard is dropped and removes the temporary file (errors ignored).*)
Fail(j) == /\ wpc' = [wpc EXCEPT ![j] = "done"]
           /\ wres' = [wres EXCEPT ![j] = "err"]
           /\ tmp' = [tmp EXCEPT ![j] = FALSE]

(* process() up to spawn_blocking: parse and clamp the config, reject an  *)
(* empty input list, create the parent directory, check try_exists and    *)
(* the overwrite flag, then create the child token, arm CancelOnDrop and  *)
(* spawn the worker.  The awaits on the way touch no modelled state, so    *)
(* the read of the output path is the one point that matters.             *)
Begin(j) ==
    /\ pc[j] = "init"
    /\ \/ /\ pc' = [pc EXCEPT ![j] = "done"]      \* invalid level, no inputs,
          /\ res' = [res EXCEPT ![j] = "err"]     \* create_dir_all or
          /\ UNCHANGED wpc                        \* try_exists fails
       \/ /\ out # "none" /\ ~overwrite[j]
          /\ pc' = [pc EXCEPT ![j] = "done"]
          /\ res' = [res EXCEPT ![j] = "err"]
          /\ UNCHANGED wpc
       \/ /\ out = "none" \/ overwrite[j]
          /\ pc' = [pc EXCEPT ![j] = "await"]
          /\ wpc' = [wpc EXCEPT ![j] = "guard"]
          /\ UNCHANGED res
    /\ UNCHANGED <<fsVars, tmp, cancelled, wres, entry, copied, published>>

(* The blocking closure: create the TmpFileGuard, return Err if the token *)
(* is already cancelled, else dispatch on the archive format.             *)
WorkerStart(j) ==
    /\ wpc[j] = "guard"
    /\ IF cancelled[j] THEN Fail(j)
                       ELSE /\ wpc' = [wpc EXCEPT ![j] = "create"]
                            /\ UNCHANGED <<tmp, wres>>
    /\ UNCHANGED <<fsVars, cancelled, pc, res, entry, copied, published>>

(* create_zip_archive's prologue: File::create(tmp), then the metadata of *)
(* every input; a missing input is an Err.                                 *)
CreateArchive(j) ==
    /\ wpc[j] = "create"
    /\ \/ Fail(j) /\ UNCHANGED entry
       \/ /\ present[j] = Idx
          /\ tmp' = [tmp EXCEPT ![j] = TRUE]
          /\ wpc' = [wpc EXCEPT ![j] = "entry"]
          /\ entry' = [entry EXCEPT ![j] = 1]
          /\ UNCHANGED wres
    /\ UNCHANGED <<fsVars, cancelled, pc, res, copied, published>>

(* One iteration of the entry loop up to the copy: the cancel check, the  *)
(* entry name, File::open (NotFound if the input was deleted since).      *)
OpenEntry(j) ==
    /\ wpc[j] = "entry"
    /\ \/ Fail(j)
       \/ /\ ~cancelled[j] /\ entry[j] \in present[j]
          /\ wpc' = [wpc EXCEPT ![j] = "copy"]
          /\ UNCHANGED <<tmp, wres>>
    /\ UNCHANGED <<fsVars, cancelled, pc, res, entry, copied, published>>

(* CancelProgressReader::read: once the token is cancelled every read     *)
(* fails with ErrorKind::Interrupted before touching the input.           *)
Interrupted(j) == cancelled[j]

(* Mutant: the loop runs one entry past the last input.                  *)
CopyEntryPastEnd(j) ==
    /\ wpc[j] = "copy"
    /\ \/ Interrupted(j) /\ UNCHANGED vars
       \/ /\ ~Interrupted(j)
          /\ \/ Fail(j) /\ UNCHANGED <<entry, copied>>
             \/ /\ copied' = [copied EXCEPT ![j] = @ \cup {entry[j]}]
                /\ IF entry[j] > NumInputs
                   THEN wpc' = [wpc EXCEPT ![j] = "finish"] /\ UNCHANGED entry
                   ELSE /\ wpc' = [wpc EXCEPT ![j] = "entry"]
                        /\ entry' = [entry EXCEPT ![j] = @ + 1]
                /\ UNCHANGED <<tmp, wres>>
          /\ UNCHANGED <<fsVars, cancelled, pc, res, published>>

(* Mutant: the loop ends one entry early.                                  *)
CopyEntryShort(j) ==
    /\ wpc[j] = "copy"
    /\ \/ Interrupted(j) /\ UNCHANGED vars
       \/ /\ ~Interrupted(j)
          /\ \/ Fail(j) /\ UNCHANGED <<entry, copied>>
             \/ /\ copied' = [copied EXCEPT ![j] = @ \cup {entry[j]}]
                /\ IF entry[j] >= NumInputs - 1
                   THEN wpc' = [wpc EXCEPT ![j] = "finish"] /\ UNCHANGED entry
                   ELSE /\ wpc' = [wpc EXCEPT ![j] = "entry"]
                        /\ entry' = [entry EXCEPT ![j] = @ + 1]
                /\ UNCHANGED <<tmp, wres>>
          /\ UNCHANGED <<fsVars, cancelled, pc, res, published>>

(* start_file and std::io::copy through CancelProgressReader.  Once the   *)
(* token is cancelled every read returns ErrorKind::Interrupted, which    *)
(* io::copy retries: the copy makes no progress and never returns.        *)
(* Otherwise the entry is written (or a write fails) and the loop moves   *)
(* to the next input or ends.                                              *)
CopyEntry(j) ==
    /\ wpc[j] = "copy"
    /\ \/ Interrupted(j) /\ UNCHANGED vars
       \/ /\ ~Interrupted(j)
          /\ \/ Fail(j) /\ UNCHANGED <<entry, copied>>
             \/ /\ copied' = [copied EXCEPT ![j] = @ \cup {entry[j]}]
                /\ IF entry[j] = NumInputs
                   THEN wpc' = [wpc EXCEPT ![j] = "finish"] /\ UNCHANGED entry
                   ELSE /\ wpc' = [wpc EXCEPT ![j] = "entry"]
                        /\ entry' = [entry EXCEPT ![j] = @ + 1]
                /\ UNCHANGED <<tmp, wres>>
          /\ UNCHANGED <<fsVars, cancelled, pc, res, published>>

(* zip.finish(): the archive's central directory is written, or it fails. *)
Finish(j) ==
    /\ wpc[j] = "finish"
    /\ \/ Fail(j)
       \/ wpc' = [wpc EXCEPT ![j] = "check"] /\ UNCHANGED <<tmp, wres>>
    /\ UNCHANGED <<fsVars, cancelled, pc, res, entry, copied, published>>

(* The cancel check after the archive is complete.                        *)
CheckCancelled(j) ==
    /\ wpc[j] = "check"
    /\ IF cancelled[j] THEN Fail(j)
                       ELSE /\ wpc' = [wpc EXCEPT ![j] = "rename"]
                            /\ UNCHANGED <<tmp, wres>>
    /\ UNCHANGED <<fsVars, cancelled, pc, res, entry, copied, published>>

(* Mutant: the cancel check comes after the rename.                       *)
RenameThenCheck(j) ==
    /\ wpc[j] = "rename"
    /\ \/ /\ out' = j
          /\ tmp' = [tmp EXCEPT ![j] = FALSE]
          /\ published' = [published EXCEPT ![j] = TRUE]
          /\ wpc' = [wpc EXCEPT ![j] = "done"]
          /\ wres' = [wres EXCEPT ![j] = IF cancelled[j] THEN "err" ELSE "ok"]
       \/ /\ overwrite[j] /\ out # "none"
          /\ wpc' = [wpc EXCEPT ![j] = "remove"]
          /\ UNCHANGED <<out, tmp, wres, published>>
       \/ /\ ~(overwrite[j] /\ out # "none")
          /\ Fail(j)
          /\ UNCHANGED <<out, published>>
    /\ UNCHANGED <<present, overwrite, cancelled, pc, res, entry, copied>>

(* std::fs::rename(tmp, output).  On success the guard is committed and   *)
(* the closure returns Ok; a rename replaces whatever the path held.  On  *)
(* failure, with overwrite set and the output existing, the fallback      *)
(* removes the output first; otherwise the closure returns the Err.       *)
Rename(j) ==
    /\ wpc[j] = "rename"
    /\ \/ /\ out' = j
          /\ tmp' = [tmp EXCEPT ![j] = FALSE]
          /\ published' = [published EXCEPT ![j] = TRUE]
          /\ wpc' = [wpc EXCEPT ![j] = "done"]
          /\ wres' = [wres EXCEPT ![j] = "ok"]
       \/ /\ overwrite[j] /\ out # "none"
          /\ wpc' = [wpc EXCEPT ![j] = "remove"]
          /\ UNCHANGED <<out, tmp, wres, published>>
       \/ /\ ~(overwrite[j] /\ out # "none")
          /\ Fail(j)
          /\ UNCHANGED <<out, published>>
    /\ UNCHANGED <<present, overwrite, cancelled, pc, res, entry, copied>>

(* The fallback's std::fs::remove_file(output); it fails (NotFound among  *)
(* others) when the output is gone, and `?` returns the Err.              *)
RemoveExisting(j) ==
    /\ wpc[j] = "remove"
    /\ \/ Fail(j) /\ UNCHANGED out
       \/ /\ out # "none"
          /\ out' = "none"
          /\ wpc' = [wpc EXCEPT ![j] = "rename2"]
          /\ UNCHANGED <<tmp, wres>>
    /\ UNCHANGED <<present, overwrite, cancelled, pc, res, entry, copied,
                   published>>

(* Mutant: the guard is committed before the second rename.               *)
RenameAgainCommitFirst(j) ==
    /\ wpc[j] = "rename2"
    /\ \/ /\ out' = j
          /\ published' = [published EXCEPT ![j] = TRUE]
          /\ wres' = [wres EXCEPT ![j] = "ok"]
       \/ /\ UNCHANGED <<out, published>>
          /\ wres' = [wres EXCEPT ![j] = "err"]
    /\ tmp' = [tmp EXCEPT ![j] = IF out' = j THEN FALSE ELSE @]
    /\ wpc' = [wpc EXCEPT ![j] = "done"]
    /\ UNCHANGED <<present, overwrite, cancelled, pc, res, entry, copied>>

(* The fallback's second std::fs::rename; on failure `?` returns the Err  *)
(* after the output was already removed.                                   *)
RenameAgain(j) ==
    /\ wpc[j] = "rename2"
    /\ \/ /\ out' = j
          /\ tmp' = [tmp EXCEPT ![j] = FALSE]
          /\ published' = [published EXCEPT ![j] = TRUE]
          /\ wpc' = [wpc EXCEPT ![j] = "done"]
          /\ wres' = [wres EXCEPT ![j] = "ok"]
       \/ Fail(j) /\ UNCHANGED <<out, published>>
    /\ UNCHANGED <<present, overwrite, cancelled, pc, res, entry, copied>>

(* process() resumes when the worker's JoinHandle completes, disarms      *)
(* CancelOnDrop and returns the closure's result.                         *)
AwaitWorker(j) ==
    /\ pc[j] = "await" /\ wpc[j] = "done"
    /\ pc' = [pc EXCEPT ![j] = "done"]
    /\ res' = [res EXCEPT ![j] = wres[j]]
    /\ UNCHANGED <<fsVars, tmp, cancelled, wpc, wres, entry, copied,
                   published>>

-----------------------------------------------------------------------------
(* Environment.                                                            *)

(* The job's ProcessorContext token is cancelled; its child token follows.*)
CancelJob(j) ==
    /\ pc[j] \in {"init", "await"} /\ ~cancelled[j]
    /\ cancelled' = [cancelled EXCEPT ![j] = TRUE]
    /\ UNCHANGED <<fsVars, tmp, pc, res, wpc, wres, entry, copied, published>>

(* The future of process() is dropped while it awaits the worker: the     *)
(* armed CancelOnDrop cancels the child token; the worker runs on.        *)
DropFuture(j) ==
    /\ pc[j] = "await"
    /\ pc' = [pc EXCEPT ![j] = "gone"]
    /\ cancelled' = [cancelled EXCEPT ![j] = TRUE]
    /\ UNCHANGED <<fsVars, tmp, res, wpc, wres, entry, copied, published>>

(* Another pipeline step deletes one of the job's input files.             *)
DeleteInput(j, i) ==
    /\ i \in present[j]
    /\ present' = [present EXCEPT ![j] = @ \ {i}]
    /\ UNCHANGED <<out, overwrite, tmp, cancelled, pc, res, wpc, wres, entry,
                   copied, published>>

-----------------------------------------------------------------------------
Init == /\ out \in {"none", "pre"}
        /\ tmp = [j \in Jobs |-> FALSE]
        /\ present = [j \in Jobs |-> Idx]
        /\ overwrite \in [Jobs -> BOOLEAN]
        /\ cancelled = [j \in Jobs |-> FALSE]
        /\ pc = [j \in Jobs |-> "init"]
        /\ res = [j \in Jobs |-> "none"]
        /\ wpc = [j \in Jobs |-> "none"]
        /\ wres = [j \in Jobs |-> "none"]
        /\ entry = [j \in Jobs |-> 1]
        /\ copied = [j \in Jobs |-> {}]
        /\ published = [j \in Jobs |-> FALSE]

Worker(j) == \/ WorkerStart(j) \/ CreateArchive(j) \/ OpenEntry(j)
             \/ CopyEntry(j) \/ Finish(j) \/ CheckCancelled(j) \/ Rename(j)
             \/ RemoveExisting(j) \/ RenameAgain(j)

Environment(j) == \/ CancelJob(j) \/ DropFuture(j)
                  \/ \E i \in Idx : DeleteInput(j, i)

Next == \E j \in Jobs : Begin(j) \/ Worker(j) \/ AwaitWorker(j)
                        \/ Environment(j)

(* The blocking pool runs every spawned closure, and the runtime polls a  *)
(* live process() future once its JoinHandle is ready; the environment   *)
(* is not obliged to do anything.                                          *)
Fairness == \A j \in Jobs : WF_vars(Worker(j)) /\ WF_vars(AwaitWorker(j))

Spec == Init /\ [][Next]_vars /\ Fairness

-----------------------------------------------------------------------------
TypeOK ==
    /\ out \in Outputs
    /\ tmp \in [Jobs -> BOOLEAN]
    /\ present \in [Jobs -> SUBSET Idx]
    /\ overwrite \in [Jobs -> BOOLEAN]
    /\ cancelled \in [Jobs -> BOOLEAN]
    /\ pc \in [Jobs -> {"init", "await", "done", "gone"}]
    /\ res \in [Jobs -> {"none", "ok", "err"}]
    /\ wpc \in [Jobs -> WorkerPCs]
    /\ wres \in [Jobs -> {"none", "ok", "err"}]
    /\ entry \in [Jobs -> Idx]
    /\ copied \in [Jobs -> SUBSET Idx]
    /\ published \in [Jobs -> BOOLEAN]

(* Whatever path the worker takes out of the closure (a cancel check, a   *)
(* missing input, a failed write, finish, rename, remove_file or second   *)
(* rename), no temporary archive is left behind once it has returned: the *)
(* TmpFileGuard is committed only after a rename succeeded.                *)
NoTmpLeak == \A j \in Jobs : wpc[j] = "done" => ~tmp[j]

(* The output path only ever holds an archive into which every input was *)
(* copied: no partial temporary file is renamed into place, whichever    *)
(* jobs race and whichever of their calls fail.                           *)
OutputComplete == out \in Jobs => copied[out] = Idx

(* process() tells the truth: Ok means its archive was renamed into       *)
(* place, and a job that returned Err never has its archive at the output *)
(* path, although cancellation can arrive at any point of the worker.     *)
ResultTruthful ==
    \A j \in Jobs : /\ res[j] = "ok" => published[j]
                    /\ res[j] = "err" => out # j

(* Every spawned blocking worker eventually returns, so process() and the *)
(* job it serves finish, also when the job is cancelled: CancelOnDrop and *)
(* CancelProgressReader exist to stop a cancelled compression promptly.   *)
WorkerFinishes == \A j \in Jobs : wpc[j] # "none" ~> wpc[j] = "done"

====
