----------------------------- MODULE NativeBackend -----------------------------
(***************************************************************************)
(* The native backend: a runtime is a work directory on the host, made by  *)
(* Create, archived whole by Snapshot, replaced by Restore and removed by  *)
(* Destroy, with steps, input files and tree promotions writing into it.   *)
(* Directories and files are paths; what a path holds is a value, Gone or  *)
(* a symbolic link.                                                        *)
(***************************************************************************)
EXTENDS Integers, FiniteSets, Sequences

CONSTANTS
  NPaths,       \* 1 .. n: the paths of a work directory, in walk order
  MaxEntries,   \* entries an archive may hold (snapshotMaxEntries)
  MaxArchives,  \* bound on snapshots taken
  MaxLives,     \* bound on driver processes
  MaxErrors     \* bound on failing file operations

ASSUME NativeConstants ==
  /\ NPaths = 1 .. Cardinality(NPaths) /\ Cardinality(NPaths) \in Nat \ {0}
  /\ {MaxEntries, MaxArchives, MaxLives, MaxErrors} \subseteq Nat

VARIABLES
  dir,       \* what each path of the work directory holds, Absent without it
  live,      \* the backend has registered the handle
  call,      \* the operation under way
  archives,  \* blobs put, oldest first
  snapRef,   \* RunState.SnapshotRefs of the runtime, 0 for none
  process,   \* [up, n]: the driver
  errors     \* file operations that failed

nvars == <<dir, live, call, archives, snapRef, process, errors>>

Nothing == "gone"
Empty == [p \in NPaths |-> Nothing]
Absent == [p \in NPaths |-> "absent"]
Quiet == [kind |-> "none", at |-> 0, ref |-> 0, acc |-> <<>>, clean |-> TRUE, was |-> Empty]

Exists == dir # Absent
Doing(k) == process.up /\ call.kind = k
MayErr == errors < MaxErrors
Erring == errors' = errors + 1
Same == UNCHANGED <<archives, snapRef, process>>

NInit ==
  /\ dir = Absent /\ live = FALSE /\ call = Quiet /\ archives = <<>>
  /\ snapRef = 0 /\ process = [up |-> TRUE, n |-> 1] /\ errors = 0

-----------------------------------------------------------------------------
(* Create and Restore.                                                     *)

\* Create: MkdirAll of the directory and of .awf/output, then registered.  A
\* directory that is there already is kept as it is.
nCreate ==
  /\ process.up /\ ~live /\ call = Quiet /\ snapRef = 0
  /\ dir' = IF Exists THEN dir ELSE Empty
  /\ live' = TRUE
  /\ UNCHANGED <<call, errors>> /\ Same

\* Restore over whatever is there, without removing it.
restoreInPlace ==
  /\ process.up /\ ~live /\ call = Quiet /\ snapRef # 0
  /\ dir' = IF Exists THEN dir ELSE Empty
  /\ call' = [Quiet EXCEPT !.kind = "restore", !.ref = snapRef]
  /\ UNCHANGED <<live, errors>> /\ Same
\* Restore: RemoveAll, then MkdirAll, before anything is extracted.
restoreBegin ==
  /\ process.up /\ ~live /\ call = Quiet /\ snapRef # 0
  /\ dir' = Empty
  /\ call' = [Quiet EXCEPT !.kind = "restore", !.ref = snapRef]
  /\ UNCHANGED <<live, errors>> /\ Same

\* extractInto: one archive entry at a time, created exclusively; any failure
\* removes the whole directory again, the end of the archive registers it.
extractInto ==
  LET es == archives[call.ref].entries IN
  /\ Doing("restore")
  /\ \/ /\ call.at < Len(es)
        /\ dir' = [dir EXCEPT ![es[call.at + 1].path] = es[call.at + 1].body]
        /\ call' = [call EXCEPT !.at = @ + 1]
        /\ UNCHANGED <<live, errors>>
     \/ /\ call.at = Len(es)
        /\ live' = TRUE /\ call' = Quiet /\ UNCHANGED <<dir, errors>>
     \/ /\ MayErr /\ Erring
        /\ dir' = Absent /\ call' = Quiet /\ UNCHANGED live
  /\ Same

-----------------------------------------------------------------------------
(* Writers: steps, CopyTo and WriteFileAt, WriteTreeAt.                    *)

\* A step, an input file or a promoted file: the path is created or truncated.
nWrite(p, v) ==
  /\ process.up /\ live /\ dir[p] # v
  /\ call.kind \in {"none", "snapshot"}
  /\ dir' = [dir EXCEPT ![p] = v]
  /\ call' = IF call.kind = "snapshot" THEN [call EXCEPT !.clean = FALSE] ELSE call
  /\ UNCHANGED <<live, errors>> /\ Same

\* WriteTreeAt begins with the archive of a tree read elsewhere (ReadTreeAt): its
\* entries are some paths, each a file or a link.
treeBegin(tree) ==
  /\ process.up /\ live /\ call = Quiet
  /\ call' = [Quiet EXCEPT !.kind = "tree", !.acc = tree]
  /\ UNCHANGED <<dir, live, errors>> /\ Same

\* WriteTreeAt: a regular entry truncates what is there; a symbolic link cannot
\* replace an existing path; past the entry cap, or on an error, the rest of
\* the tree is not written and what was written stays.
writeTreeAt ==
  LET e == call.acc[call.at + 1] IN
  /\ Doing("tree")
  /\ \/ /\ call.at = Len(call.acc) /\ call' = Quiet /\ UNCHANGED <<dir, errors>>
     \/ /\ call.at < Len(call.acc)
        /\ IF (e.body = "link" /\ dir[e.path] # Nothing) \/ call.at >= MaxEntries
             THEN call' = Quiet /\ UNCHANGED dir
             ELSE /\ dir' = [dir EXCEPT ![e.path] = e.body]
                  /\ call' = [call EXCEPT !.at = @ + 1]
        /\ UNCHANGED errors
     \/ /\ MayErr /\ Erring /\ call' = Quiet /\ UNCHANGED dir
  /\ UNCHANGED live /\ Same

-----------------------------------------------------------------------------
(* Snapshot, Destroy, and the driver.                                      *)

nSnapshotBegin ==
  /\ process.up /\ live /\ call = Quiet /\ Len(archives) < MaxArchives
  /\ call' = [Quiet EXCEPT !.kind = "snapshot", !.was = dir]
  /\ UNCHANGED <<dir, live, errors>> /\ Same

\* Snapshot walks the directory path by path into one archive; an entry past the
\* cap, or an error, and there is no snapshot.  The step that owns it then
\* commits the ref.
nSnapshotWalk ==
  /\ Doing("snapshot")
  /\ \/ /\ call.at < Cardinality(NPaths)
        /\ IF dir[call.at + 1] # Nothing /\ Len(call.acc) = MaxEntries
             THEN call' = Quiet
             ELSE call' = [call EXCEPT !.at = @ + 1,
                    !.acc = IF dir[call.at + 1] = Nothing THEN @
                            ELSE Append(@, [path |-> call.at + 1, body |-> dir[call.at + 1]])]
        /\ UNCHANGED <<archives, snapRef, errors>>
     \/ /\ call.at = Cardinality(NPaths)
        /\ archives' = Append(archives, [entries |-> call.acc, was |-> call.was,
                                         clean |-> call.clean])
        /\ snapRef' = Len(archives) + 1 /\ call' = Quiet /\ UNCHANGED errors
     \/ /\ MayErr /\ Erring /\ call' = Quiet /\ UNCHANGED <<archives, snapRef>>
  /\ UNCHANGED <<dir, live, process>>

\* Destroy deregisters, then RemoveAll; a removal that fails leaves the
\* directory, and the handle is not registered again.
nDestroy ==
  /\ process.up /\ live /\ call = Quiet
  /\ live' = FALSE
  /\ \/ dir' = Absent /\ UNCHANGED errors
     \/ MayErr /\ Erring /\ UNCHANGED dir
  /\ UNCHANGED call /\ Same

\* The process pauses or dies: directories stay, the registry does not.
nDriverEnds ==
  /\ process.up
  /\ process' = [process EXCEPT !.up = FALSE]
  /\ live' = FALSE /\ call' = Quiet
  /\ UNCHANGED <<dir, archives, snapRef, errors>>

nResume ==
  /\ ~process.up /\ process.n < MaxLives
  /\ process' = [up |-> TRUE, n |-> process.n + 1]
  /\ UNCHANGED <<dir, live, call, archives, snapRef, errors>>

Trees == {<<[path |-> p, body |-> v]>> : p \in NPaths, v \in {"file", "link"}}
  \cup {<<[path |-> 1, body |-> "link"], [path |-> 2, body |-> "file"]>>}

NNext ==
  \/ nCreate \/ restoreBegin \/ extractInto
  \/ \E p \in NPaths, v \in {"file", "link", Nothing} : nWrite(p, v)
  \/ \E t \in Trees : treeBegin(t)
  \/ writeTreeAt \/ nSnapshotBegin \/ nSnapshotWalk \/ nDestroy
  \/ nDriverEnds \/ nResume

NSpec == NInit /\ [][NNext]_nvars

-----------------------------------------------------------------------------
NTypeOK ==
  /\ dir = Absent \/ dir \in [NPaths -> {"file", "link", Nothing}]
  /\ live \in BOOLEAN /\ snapRef \in 0 .. Len(archives)
  /\ live => Exists
  /\ errors \in 0 .. MaxErrors

\* Restore is all or nothing (RemoveAll first, extractInto, one cleanup path):
\* when it registers the directory, the directory holds exactly the files of
\* the committed snapshot, whatever a dead process had left there.
RestoresExactly ==
  [][(call.kind = "restore" /\ live' /\ ~live /\ archives[call.ref].clean)
       => dir' = archives[call.ref].was]_nvars

\* An archive is complete or it does not exist (the entry cap fails the
\* snapshot): one taken while nothing wrote holds every path.
ArchiveComplete ==
  \A r \in 1 .. Len(archives) :
    archives[r].clean =>
      \A p \in NPaths :
        archives[r].was[p] =
          IF \E i \in 1 .. Len(archives[r].entries) : archives[r].entries[i].path = p
            THEN archives[r].entries[CHOOSE i \in 1 .. Len(archives[r].entries) :
                                       archives[r].entries[i].path = p].body
            ELSE Nothing

\* An archive of a workspace that nobody wrote to has all of it, and a restore
\* brings exactly that back, whatever was in the directory.
NativeSafe ==
    /\ [](NTypeOK /\ ArchiveComplete)
    /\ RestoresExactly
=============================================================================
