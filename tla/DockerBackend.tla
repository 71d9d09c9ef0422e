----------------------------- MODULE DockerBackend -----------------------------
(***************************************************************************)
(* The life of a runtime on the docker backend: Create, Restore, Snapshot  *)
(* and Destroy as the sequences of daemon calls that container/docker      *)
(* makes, the delete wrapper that a restored container runs before its     *)
(* workload, and the driver process that owns the handles and may be       *)
(* cancelled, paused, killed and resumed.                                  *)
(*                                                                         *)
(* The daemon is external: it is modelled by what the calls made of it can *)
(* do.  A daemon call may fail; MaxFaults bounds how often.                *)
(***************************************************************************)
EXTENDS Integers, FiniteSets, Sequences

CONSTANTS
  Names,       \* declared runtimes, each with its own daemon name
  Compose,     \* those whose spec is a compose project
  Pulled,      \* image runtimes created with PullIfAbsent (a map's image:)
  Scaled,      \* compose projects whose service has two containers
  Probed,      \* image runtimes with a healthcheck
  Paths,       \* files of a runtime's writable layer
  ImagePaths,  \* those the image already holds
  Callers,     \* concurrent callers (the run, and a map's items)
  MaxBlob,     \* files a snapshot blob holds before snapshotMaxBlobBytes
  MaxIds, MaxRefs, MaxFaults, MaxEpochs

ASSUME DockerConstants ==
  /\ Compose \subseteq Names /\ Pulled \subseteq Names \ Compose
  /\ Scaled \subseteq Compose
  /\ Probed \subseteq Names \ Compose /\ ImagePaths \subseteq Paths
  /\ {MaxBlob, MaxIds, MaxRefs, MaxFaults, MaxEpochs} \subseteq Nat /\ IsFiniteSet(Callers)

VARIABLES
  ctr,       \* the daemon's containers by docker id
  cached,    \* images the daemon holds, by the runtime that names them
  handles,   \* Backend.handles: ids registered by this process
  op,        \* the call each caller has under way
  refs,      \* snapshots in the blob store, in the order they were put
  held,      \* the engine's handle of each runtime, 0 for none
  committed, \* RunState.SnapshotRefs: the ref a committed step carries
  driver,    \* [up, epoch, cancelled] of the process that runs the workflow
  faults,    \* daemon calls that failed
  excused    \* ids the program gave up: left behind by a failed remove or by a
             \* dead driver, or made by a create whose answer was lost

vars == <<ctr, cached, handles, op, refs, held, committed, driver, faults,
          excused>>

Ids == 1 .. MaxIds
Refs == 1 .. MaxRefs
Gone == "gone"
Markers == {"prepared", "release", "handoff", "ack"}

\* The image's own files; a runtime starts from them.
Image == [p \in Paths |-> IF p \in ImagePaths THEN "image" ELSE Gone]

\* No marker file of any restore.
NoMarkers == [t \in Refs |-> [m \in Markers |-> "absent"]]

NoContainer ==
  [st |-> "none", name |-> "", cmd |-> <<>>, done |-> 0, at |-> "deletes",
   fs |-> Image, mk |-> NoMarkers, from |-> 0]

\* A removed container leaves nothing but its id, which is never used again.
Removed == [NoContainer EXCEPT !.st = "removed"]

Idle == [kind |-> "idle", pc |-> "", name |-> "", id |-> 0, ref |-> 0,
         deletes |-> {}, todo |-> {}, diff |-> {}, cmd |-> <<>>, quiet |-> TRUE,
         was |-> Image]

\* A live container occupies its name (containerName, composeProjectName).
Alive(id) == ctr[id].st \in {"created", "running", "exited"}
Owner(n) == {id \in Ids : Alive(id) /\ ctr[id].name = n}
Fresh == CHOOSE id \in Ids : ctr[id].st = "none"
-----------------------------------------------------------------------------
(* Failing calls.  A cancelled run makes every call on its context fail.   *)

Calls(c, pc) == op[c].pc = pc /\ driver.up
MayFail == driver.cancelled \/ faults < MaxFaults
Charge == faults' = IF driver.cancelled THEN faults ELSE faults + 1
Proceed(c, pc) == op' = [op EXCEPT ![c].pc = pc]
Return(c) == op' = [op EXCEPT ![c] = Idle]
KeepDriver == UNCHANGED <<held, committed, driver>>

\* The stage of c's call fails; a container it had created is left for
\* cleanupPartialContainer, a call that had none just returns its error.  The
\* daemon may have done what it was asked and only its answer be lost: that is
\* a case of the actions behind which it makes a difference (ContainerCreate,
\* composeUp, cleanupPartialContainer, destroyRemove); at the other stages the
\* container is removed next, whatever the stage did to it.
Fails(c, pc) ==
  /\ Calls(c, pc) /\ MayFail /\ Charge
  /\ IF op[c].id = 0 THEN Return(c) ELSE Proceed(c, "cleanup")
  /\ KeepDriver
  /\ UNCHANGED <<ctr, cached, handles, refs, excused>>

Ok(c, pc) == Calls(c, pc) /\ ~driver.cancelled

\* cleanupPartialContainer: a forced remove on a context of its own, so that a
\* cancelled run still removes what it created.  A remove that reports an error
\* may have taken effect.
cleanupPartialContainer(c) ==
  /\ Calls(c, "cleanup")
  /\ \/ /\ ctr' = [ctr EXCEPT ![op[c].id] = Removed]
        /\ UNCHANGED <<faults, excused>>
     \/ /\ faults < MaxFaults /\ faults' = faults + 1
        /\ excused' = excused \cup {op[c].id}
        /\ ctr' \in {ctr, [ctr EXCEPT ![op[c].id] = Removed]}
  /\ Return(c) /\ KeepDriver
  /\ UNCHANGED <<cached, handles, refs>>

-----------------------------------------------------------------------------
(* Create and Restore begin.                                               *)

Busy(n) == \E c \in Callers : op[c].kind # "idle" /\ op[c].name = n

\* createOrRestoreRuntimeHandle: a runtime whose last committed step carries a
\* snapshot is restored from it, every other one is created from its recipe.
createOrRestore(c, n) ==
  /\ driver.up /\ op[c] = Idle /\ held[n] = 0 /\ ~Busy(n)
  /\ ~driver.cancelled
  /\ Cardinality({id \in Ids : ctr[id].st = "none"}) >
       Cardinality({k \in Callers : op[k].kind \in {"create", "restore"} /\ op[k].id = 0})
  /\ op' = [op EXCEPT ![c] =
       IF committed[n] # 0
         THEN [Idle EXCEPT !.kind = "restore", !.name = n, !.pc = "make",
                 !.ref = committed[n], !.deletes = refs[committed[n]].deletes]
         ELSE [Idle EXCEPT !.kind = "create", !.name = n,
                 !.pc = IF n \in Compose THEN "up"
                        ELSE IF n \in Pulled THEN "pull" ELSE "make"]]
  /\ KeepDriver
  /\ UNCHANGED <<ctr, cached, handles, refs, faults, excused>>

\* pullByDigest, before the create of a runtime-resolved image: an item's
\* rendered reference may lack a digest, and is refused before any pull.
pullIfAbsent(c) ==
  \/ /\ Ok(c, "pull")
     /\ \/ Return(c) /\ UNCHANGED cached
        \/ Proceed(c, "make") /\ cached' = cached \cup {op[c].name}
     /\ KeepDriver
     /\ UNCHANGED <<ctr, handles, refs, faults, excused>>
  \/ Fails(c, "pull")

\* restoreContainerConfig: the recorded command, behind the delete wrapper when
\* the diff deletes files of the image.
restoreContainerConfig(o) ==
  IF o.deletes = {} THEN refs[o.ref].cmd
  ELSE <<[tok |-> o.ref, deletes |-> o.deletes]>> \o refs[o.ref].cmd

\* The container a create or a restore asks for.
Asked(o) ==
  [NoContainer EXCEPT !.st = "created", !.name = o.name, !.from = o.ref,
     !.cmd = IF o.kind = "restore" THEN restoreContainerConfig(o) ELSE <<>>]

\* ContainerCreate.  An image the daemon does not hold is pulled once and the
\* create is made again (Create only); a name in use is refused by the daemon.
\* When the daemon has made the container and its answer is lost, the call
\* returns an error that names no container, and cleans up nothing.
ContainerCreate(c) ==
  \/ /\ Ok(c, "make")
     /\ IF Owner(op[c].name) # {}
          THEN Return(c) /\ UNCHANGED <<ctr, cached>>
          ELSE /\ op[c].kind = "create" \/ op[c].name \in cached
               /\ ctr' = [ctr EXCEPT ![Fresh] = Asked(op[c])]
               /\ op' = [op EXCEPT ![c].id = Fresh,
                    ![c].pc = IF op[c].kind = "restore" THEN "extract" ELSE "dirs"]
               /\ cached' = cached \cup {op[c].name}
     /\ KeepDriver
     /\ UNCHANGED <<handles, refs, faults, excused>>
  \/ /\ Calls(c, "make") /\ MayFail /\ Charge
     /\ Owner(op[c].name) = {}
     /\ op[c].kind = "create" \/ op[c].name \in cached
     /\ ctr' = [ctr EXCEPT ![Fresh] = Asked(op[c])]
     /\ cached' = cached \cup {op[c].name}
     /\ excused' = excused \cup {Fresh}
     /\ Return(c) /\ KeepDriver
     /\ UNCHANGED <<handles, refs>>
  \/ Fails(c, "make")

-----------------------------------------------------------------------------
(* The stages after the container exists.                                  *)

Stage(c, pc, next) ==
  Ok(c, pc) /\ Proceed(c, next) /\ KeepDriver
  /\ UNCHANGED <<cached, handles, refs, faults, excused>>

Wrapped(c) == op[c].deletes # {}

\* streamPlainTarFromDiff into CopyToContainer: every entry of the diff is
\* written over the image; the deletes manifest is not an entry.
extractDiff(c) ==
  \/ /\ Stage(c, "extract", "dirs")
     /\ ctr' = [ctr EXCEPT ![op[c].id].fs =
          [p \in Paths |-> IF \E e \in refs[op[c].ref].diff : e.path = p
                             THEN (CHOOSE e \in refs[op[c].ref].diff : e.path = p).body
                             ELSE @[p]]]
  \/ Fails(c, "extract")

prepareRuntimeDirs(c) ==
  \/ Stage(c, "dirs", IF Wrapped(c) THEN "seed" ELSE "start") /\ UNCHANGED ctr
  \/ Fails(c, "dirs")

\* seedRestoreHandshake: the four marker files exist with the reset token
\* before the wrapper starts.
seedRestoreHandshake(c) ==
  \/ /\ Stage(c, "seed", "start")
     /\ ctr' = [ctr EXCEPT ![op[c].id].mk[op[c].ref] = [m \in Markers |-> "reset"]]
  \/ Fails(c, "seed")

ContainerStart(c) ==
  \/ /\ Stage(c, "start", IF Wrapped(c) THEN "prepared" ELSE "ready")
     /\ ctr' = [ctr EXCEPT ![op[c].id].st = "running"]
  \/ Fails(c, "start")

\* waitForRestoreMarker / waitForRestoreMarkerAbsent, with
\* ensureRestoreWrapperRunning: the poll ends when the marker is as wanted, or
\* when the wrapper has exited.
waitForRestoreMarker(c, pc, marker, want, next) ==
  \/ /\ Stage(c, pc, next)
     /\ ctr[op[c].id].mk[op[c].ref][marker] = want
     /\ (want = "absent" => ctr[op[c].id].st = "running")
     /\ UNCHANGED ctr
  \/ /\ Ok(c, pc) /\ ctr[op[c].id].st # "running"
     /\ (ctr[op[c].id].mk[op[c].ref][marker] # want \/ want = "absent")
     /\ Proceed(c, "cleanup") /\ KeepDriver
     /\ UNCHANGED <<ctr, cached, handles, refs, faults, excused>>
  \/ Fails(c, pc)

writeRestoreMarkers(c, pc, marker, next) ==
  \/ /\ Stage(c, pc, next)
     /\ ctr' = [ctr EXCEPT ![op[c].id].mk[op[c].ref][marker] = "set"]
  \/ Fails(c, pc)

\* A host that takes a started wrapper for a prepared one.
handshakeSkipped(c) ==
  \/ Stage(c, "prepared", "ready") /\ UNCHANGED ctr
  \/ Fails(c, "prepared")
restoreHandshake(c) ==
  \/ waitForRestoreMarker(c, "prepared", "prepared", "set", "release")
  \/ writeRestoreMarkers(c, "release", "release", "handoff")
  \/ waitForRestoreMarker(c, "handoff", "handoff", "set", "ack")
  \/ writeRestoreMarkers(c, "ack", "ack", "absent")
  \/ waitForRestoreMarker(c, "absent", "handoff", "absent", "ready")

\* restoreDeleteWrapperScript, run by process 1 of a restored container: it
\* deletes, announces itself, waits to be released, announces the handoff,
\* waits for the acknowledgment, removes the markers and execs what it wraps -
\* the workload, or a wrapper the snapshot recorded as the command.
wrapperStep(id) ==
  LET k == ctr[id].cmd[ctr[id].done + 1] IN
  /\ ctr[id].st = "running" /\ ctr[id].done < Len(ctr[id].cmd)
  /\ \/ /\ ctr[id].at = "deletes"
        /\ ctr' = [ctr EXCEPT
             ![id].fs = [p \in Paths |-> IF p \in k.deletes THEN Gone ELSE @[p]],
             ![id].mk[k.tok].prepared = "set", ![id].at = "release"]
     \/ /\ ctr[id].at = "release" /\ ctr[id].mk[k.tok].release = "set"
        /\ ctr' = [ctr EXCEPT ![id].mk[k.tok].handoff = "set", ![id].at = "ack"]
     \/ /\ ctr[id].at = "ack" /\ ctr[id].mk[k.tok].ack = "set"
        /\ ctr' = [ctr EXCEPT ![id].mk[k.tok] = [m \in Markers |-> "absent"],
             ![id].at = "deletes", ![id].done = @ + 1]
  /\ KeepDriver
  /\ UNCHANGED <<cached, handles, op, refs, faults, excused>>

\* waitReady: an exited workload is an error; without a healthcheck a running
\* one is ready; with one, the poll ends healthy, unhealthy or timed out.
waitReady(c) ==
  \/ /\ Ok(c, "ready")
     /\ \/ /\ ctr[op[c].id].st = "running"
           /\ handles' = handles \cup {op[c].id}
           /\ held' = [held EXCEPT ![op[c].name] = op[c].id]
           /\ Return(c)
        \/ /\ ctr[op[c].id].st # "running" \/ op[c].name \in Probed
           /\ Proceed(c, "cleanup") /\ UNCHANGED <<handles, held>>
     /\ UNCHANGED <<ctr, cached, refs, committed, driver, faults, excused>>
  \/ Fails(c, "ready")

-----------------------------------------------------------------------------
(* Compose projects.                                                       *)

\* createCompose's Up: it adopts a project of that name or makes one; when it
\* fails the project may be half up, and Down removes it.
composeUp(c) ==
  LET n == op[c].name
      id == IF Owner(n) # {} THEN CHOOSE i \in Owner(n) : TRUE ELSE Fresh IN
  /\ Calls(c, "up")
  /\ \/ /\ ~driver.cancelled
        /\ ctr' = [ctr EXCEPT ![id] = [NoContainer EXCEPT !.st = "running", !.name = n]]
        /\ op' = [op EXCEPT ![c].id = id, ![c].pc = "services"]
        /\ UNCHANGED faults
     \/ /\ MayFail /\ Charge
        /\ ctr' = [ctr EXCEPT ![id] = [NoContainer EXCEPT !.st = "created", !.name = n]]
        /\ op' = [op EXCEPT ![c].id = id, ![c].pc = "cleanup"]
  /\ excused' = excused \ {id}
  /\ KeepDriver /\ UNCHANGED <<cached, handles, refs>>

\* resolveComposeContainer: the labels must select exactly one container;
\* prepareComposeRuntimeDirs then prepares it and the project is registered.
prepareComposeRuntimeDirs(c) ==
  \/ /\ Ok(c, "services")
     /\ IF op[c].name \in Scaled
          THEN Proceed(c, "cleanup") /\ UNCHANGED <<handles, held>>
          ELSE /\ handles' = handles \cup {op[c].id}
               /\ held' = [held EXCEPT ![op[c].name] = op[c].id]
               /\ Return(c)
     /\ UNCHANGED <<ctr, cached, refs, committed, driver, faults, excused>>
  \/ Fails(c, "services")

-----------------------------------------------------------------------------
(* Snapshot.                                                               *)

\* ContainerDiff: what the writable layer holds that the image does not.
Modified(fs) == {p \in Paths : fs[p] # Gone /\ fs[p] # Image[p]}
Deleted(fs) == {p \in ImagePaths : fs[p] = Gone}

\* The diff is listed first; the bodies are copied one call at a time after it.
Snapshot(c, n) ==
  /\ driver.up /\ ~driver.cancelled /\ op[c] = Idle /\ ~Busy(n)
  /\ n \notin Compose \cup Pulled /\ held[n] \in handles /\ Len(refs) < MaxRefs
  /\ op' = [op EXCEPT ![c] =
       [Idle EXCEPT !.kind = "snapshot", !.pc = "copy", !.name = n,
          !.cmd = ctr[held[n]].cmd, !.todo = Modified(ctr[held[n]].fs),
          !.deletes = Deleted(ctr[held[n]].fs), !.was = ctr[held[n]].fs]]
  /\ KeepDriver
  /\ UNCHANGED <<ctr, cached, handles, refs, faults, excused>>

\* captureOneIntoDiffTar and the capped writer: a path that has gone since the
\* diff, or one file too many, fails the snapshot.
captureOneIntoDiffTar(c) ==
  \/ /\ Ok(c, "copy") /\ op[c].todo # {}
     /\ LET p == CHOOSE q \in op[c].todo : TRUE
            body == ctr[held[op[c].name]].fs[p] IN
        IF body = Gone \/ Cardinality(op[c].diff) >= MaxBlob
          THEN Return(c)
          ELSE op' = [op EXCEPT ![c].todo = @ \ {p},
                 ![c].diff = @ \cup {[path |-> p, body |-> body]}]
     /\ KeepDriver /\ UNCHANGED <<ctr, cached, handles, refs, faults, excused>>
  \/ Fails(c, "copy")

\* WriteDeletes, blobs.Put and formatSnapshotRef.
putSnapshot(c) ==
  /\ Calls(c, "copy") /\ op[c].todo = {} /\ Len(refs) < MaxRefs
  /\ refs' = Append(refs, [cmd |-> op[c].cmd, diff |-> op[c].diff,
       deletes |-> op[c].deletes, was |-> op[c].was, quiet |-> op[c].quiet])
  /\ op' = [op EXCEPT ![c].pc = "commit", ![c].ref = Len(refs) + 1]
  /\ KeepDriver /\ UNCHANGED <<ctr, cached, handles, faults, excused>>

\* The step's node.completed makes the ref the runtime's latest.
commitStep(c) ==
  /\ Calls(c, "commit")
  /\ committed' = [committed EXCEPT ![op[c].name] = op[c].ref]
  /\ Return(c)
  /\ UNCHANGED <<ctr, cached, handles, refs, held, driver, faults, excused>>

\* A step of the workflow writes or deletes a file of a runtime it holds; a
\* parallel branch may do so while another branch's snapshot is being taken.
stepWrites(n, p, v) ==
  /\ driver.up /\ held[n] \in handles /\ ctr[held[n]].st = "running"
  /\ v # ctr[held[n]].fs[p]
  /\ ctr' = [ctr EXCEPT ![held[n]].fs[p] = v]
  /\ op' = [c \in Callers |-> IF op[c].kind = "snapshot" /\ op[c].name = n
                                THEN [op[c] EXCEPT !.quiet = FALSE] ELSE op[c]]
  /\ KeepDriver /\ UNCHANGED <<cached, handles, refs, faults, excused>>

-----------------------------------------------------------------------------
(* Destroy, and the driver.                                                *)

\* Destroy deregisters, then removes; a failed remove of an image runtime is
\* registered again, a failed Down of a project is not.  Either may have removed
\* the container all the same.
destroyBegin(c, n) ==
  /\ driver.up /\ op[c] = Idle /\ ~Busy(n) /\ held[n] \in handles
  /\ handles' = handles \ {held[n]}
  /\ op' = [op EXCEPT ![c] = [Idle EXCEPT !.kind = "destroy", !.pc = "remove",
                                !.name = n, !.id = held[n]]]
  /\ UNCHANGED <<ctr, cached, refs, held, committed, driver, faults, excused>>

destroyRemove(c) ==
  /\ Calls(c, "remove")
  /\ \/ /\ ctr' = [ctr EXCEPT ![op[c].id] = Removed]
        /\ UNCHANGED <<handles, faults, excused>>
     \/ /\ faults < MaxFaults /\ faults' = faults + 1
        /\ ctr' \in {ctr, [ctr EXCEPT ![op[c].id] = Removed]}
        /\ IF op[c].name \in Compose
             THEN excused' = excused \cup {op[c].id} /\ UNCHANGED handles
             ELSE handles' = handles \cup {op[c].id} /\ UNCHANGED excused
  /\ held' = [held EXCEPT ![op[c].name] = 0]
  /\ Return(c)
  /\ UNCHANGED <<cached, refs, committed, driver>>

\* The process ends: after its teardown, or paused (skipTeardown), or killed.
\* Whatever is still alive has no owner from here on.
driverEnds ==
  /\ driver.up
  /\ driver' = [driver EXCEPT !.up = FALSE]
  /\ op' = [c \in Callers |-> Idle]
  /\ handles' = {} /\ held' = [n \in Names |-> 0]
  /\ excused' = {id \in Ids : Alive(id)}
  /\ UNCHANGED <<ctr, cached, refs, committed, faults>>

\* awf cancel, or an interrupt, reaches the run's context.
cancelRun ==
  /\ driver.up /\ ~driver.cancelled
  /\ driver' = [driver EXCEPT !.cancelled = TRUE]
  /\ UNCHANGED <<ctr, cached, handles, op, refs, held, committed, faults, excused>>

\* awf resume opens a new backend over the same daemon.
resumeRun ==
  /\ ~driver.up /\ driver.epoch < MaxEpochs
  /\ driver' = [up |-> TRUE, epoch |-> driver.epoch + 1, cancelled |-> FALSE]
  /\ UNCHANGED <<ctr, cached, handles, op, refs, held, committed, faults, excused>>

\* Outside the program: an operator removes a leftover, a workload dies.
operatorRemoves(id) ==
  /\ ~driver.up /\ Alive(id)
  /\ ctr' = [ctr EXCEPT ![id] = Removed]
  /\ UNCHANGED <<cached, handles, op, refs, held, committed, driver, faults, excused>>
workloadDies(id) ==
  /\ ctr[id].st = "running" /\ faults < MaxFaults /\ faults' = faults + 1
  /\ ctr' = [ctr EXCEPT ![id].st = "exited"]
  /\ UNCHANGED <<cached, handles, op, refs, held, committed, driver, excused>>

DInit ==
  /\ ctr = [id \in Ids |-> NoContainer]
  /\ cached = {} /\ handles = {} /\ refs = <<>> /\ faults = 0 /\ excused = {}
  /\ op = [c \in Callers |-> Idle]
  /\ held = [n \in Names |-> 0]
  /\ committed = [n \in Names |-> 0]
  /\ driver = [up |-> TRUE, epoch |-> 1, cancelled |-> FALSE]

DStep(c) ==
  \/ pullIfAbsent(c) \/ ContainerCreate(c) \/ extractDiff(c)
  \/ prepareRuntimeDirs(c) \/ seedRestoreHandshake(c) \/ ContainerStart(c)
  \/ restoreHandshake(c) \/ waitReady(c) \/ cleanupPartialContainer(c)
  \/ composeUp(c) \/ prepareComposeRuntimeDirs(c)
  \/ captureOneIntoDiffTar(c) \/ putSnapshot(c) \/ commitStep(c)
  \/ destroyRemove(c)

DNext ==
  \/ \E c \in Callers : DStep(c)
  \/ \E c \in Callers, n \in Names :
       createOrRestore(c, n) \/ Snapshot(c, n) \/ destroyBegin(c, n)
  \/ \E n \in Names \ (Compose \cup Pulled), p \in Paths, v \in {"written", Gone} : stepWrites(n, p, v)
  \/ \E id \in Ids : wrapperStep(id) \/ operatorRemoves(id) \/ workloadDies(id)
  \/ driverEnds \/ cancelRun \/ resumeRun

\* A call under way goes on, and a container's process runs.
DFair == /\ \A c \in Callers : WF_vars(DStep(c))
         /\ \A id \in Ids : WF_vars(wrapperStep(id))

DSpec == DInit /\ [][DNext]_vars /\ DFair

-----------------------------------------------------------------------------
(* Properties.                                                             *)

DTypeOK ==
  /\ \A id \in Ids :
       /\ ctr[id].st \in {"none", "created", "running", "exited", "removed"}
       /\ ctr[id].fs \in [Paths -> {"image", "written", Gone}]
       /\ ctr[id].done \in 0 .. Len(ctr[id].cmd)
  /\ handles \subseteq Ids /\ excused \subseteq Ids
  /\ held \in [Names -> 0 .. MaxIds] /\ committed \in [Names -> 0 .. Len(refs)]
  /\ faults \in 0 .. MaxFaults /\ cached \subseteq Names

\* Who answers for a container (cleanupPartialContainer, Destroy): one the daemon
\* holds is registered, or belongs to a call under way, or the program has given
\* it up.  It gives one up in three ways only: a remove that failed, the end of
\* its driver, and a ContainerCreate whose answer was lost - the container is
\* then nobody's, under a name no later Create gets while it is there.  A Create or Restore
\* that fails or is cancelled behind that answer removes what it had made.
Accounted ==
  \A id \in Ids :
    Alive(id) => \/ id \in handles \cup excused
                 \/ \E c \in Callers : op[c].kind # "idle" /\ op[c].id = id

\* What a handle is good for (Destroy deregisters before it removes; Create and
\* Restore register last): the engine's handle of a runtime is one its own
\* Create or Restore registered, and denotes a container that exists.  The
\* registry may name a container that is gone - Destroy registers it again
\* behind a remove that took effect and reported an error - but no runtime is
\* then held by it.
HandleDenotes ==
  /\ \A id \in handles : Alive(id) \/ \A n \in Names : held[n] # id
  /\ \A n \in Names : held[n] # 0 =>
       /\ ctr[held[n]].name = n
       /\ held[n] \in handles \/ \E c \in Callers : op[c].kind = "destroy" /\ op[c].id = held[n]

\* Restore hands over the committed files: when a handle restored from a
\* snapshot of a plain container is registered, no file that the snapshot had
\* deleted is visible, every captured file is, and the wrapper has finished.
RestoredAsCommitted ==
  [][\A id \in handles' \ handles :
       (ctr[id].from # 0 /\ refs[ctr[id].from].cmd = <<>> /\ held[ctr[id].name] # id
          /\ refs[ctr[id].from].quiet)
       => /\ ctr'[id].fs = refs[ctr[id].from].was
          /\ ctr'[id].done = Len(ctr'[id].cmd)]_vars

\* A snapshot nobody wrote under (Snapshot's diff, copies and manifest) is the
\* runtime's files exactly: applied to the image it gives back what was there.
SnapshotExact ==
  \A r \in 1 .. Len(refs) :
    refs[r].quiet =>
      \A p \in Paths :
        refs[r].was[p] =
          IF p \in refs[r].deletes THEN Gone
          ELSE IF \E e \in refs[r].diff : e.path = p
                 THEN (CHOOSE e \in refs[r].diff : e.path = p).body
                 ELSE Image[p]

\* No call waits for ever: Restore polls the wrapper's markers with no timeout
\* of its own, so host and wrapper must never each wait for the other.
CallsReturn ==
  \A c \in Callers : (op[c].kind # "idle") ~> (op[c].kind = "idle")

\* Every container the daemon holds has a handle, a call under way, or was given
\* up in one of the ways Accounted names; a handle the engine holds denotes its
\* runtime's container; a snapshot nobody wrote under is exactly what the
\* container held, and a restore starts what was committed.
DockerSafe ==
    /\ [](DTypeOK /\ Accounted /\ HandleDenotes /\ SnapshotExact)
    /\ RestoredAsCommitted
=============================================================================
