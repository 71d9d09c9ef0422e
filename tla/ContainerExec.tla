----------------------------- MODULE ContainerExec -----------------------------
(***************************************************************************)
(* Backend.Exec: the goroutines that stand between a command and the two   *)
(* channels Exec returns.  On docker: the command's shell, which first     *)
(* records its pid, the daemon's attach stream, the reader (StdCopy), the  *)
(* watcher of the context and the detached killExecTree.  On native: the   *)
(* process group, the pipe readers and the goroutine that Waits.           *)
(*                                                                         *)
(* Output is counted in chunks.  The consumer of the chunk channel is the  *)
(* dispatcher, which drains it; the daemon and the kernel are external.    *)
(* Pids are not used twice while a container lives.                        *)
(***************************************************************************)
EXTENDS Integers, FiniteSets

CONSTANTS
  Execs,      \* 1 .. n: commands executed, perhaps at once, in one container
  MaxExecs,   \* how many of them each backend executes
  Writers,    \* the commands that write output
  MaxOut,     \* chunks each of them writes
  ChunkCap,   \* capacity of the chunks channel (64)
  MaxBreaks,  \* attach streams that the daemon drops
  Leftovers,  \* the pid files a container may be restored with, 0 for none
  Backends    \* the backends explored: "docker", "native"

ASSUME ExecConstants ==
  /\ Backends \subseteq {"docker", "native"} /\ {MaxOut, ChunkCap, MaxBreaks} \subseteq Nat
  /\ MaxExecs \in [Backends -> 0 .. Cardinality(Execs)] /\ Execs \subseteq Nat \ {0}
  /\ Leftovers \subseteq [Execs -> Execs \cup {0}]

VARIABLES
  backend,    \* the backend of this run
  x,          \* the state of each Exec call
  execSeq,    \* Backend.execSeq
  pidfiles,   \* pid files in the container: sequence number -> pid written
  left        \* the numbers of those it was restored with

evars == <<backend, x, execSeq, pidfiles, left>>

NoResult == [err |-> "none", code |-> 0, stdout |-> 0]

NewExec ==
  [call |-> "idle",      \* idle, open (channels returned), result
   seq |-> 0,            \* which pid file
   proc |-> "boot",      \* boot, run, exited, killed
   code |-> 0,           \* its own exit status
   keeps |-> TRUE,       \* it has held its output open
   wrote |-> 0, pipe |-> 0, chunks |-> 0, got |-> 0, acc |-> 0,
   ctx |-> "live",       \* live, done
   stream |-> "open",    \* open, closed by our side, cut or failed on the way
   reader |-> "on", watcher |-> "on", kill |-> "none", res |-> NoResult]

Docker == backend = "docker"

\* No pid file is removed but by a kill, and a snapshot takes them along: a new
\* process, which counts its execs from one, may find those of an earlier one in
\* the container it restored, each with a pid that one of its own may get.
EInit == /\ backend \in Backends /\ execSeq = 0
         /\ pidfiles \in IF Docker THEN Leftovers ELSE {[n \in Execs |-> 0]}
         /\ left = {n \in Execs : pidfiles[n] # 0}
         /\ x = [e \in Execs |-> NewExec]

Set(e, r) == x' = [x EXCEPT ![e] = r]
Others == UNCHANGED <<backend, execSeq, pidfiles, left>>
Open(e) == x[e].call = "open"
Ended(e) == x[e].proc \in {"exited", "killed"}

\* Exec: ContainerExecCreate and ContainerExecAttach, or Start; each docker exec
\* has a pid file of its own.
start(e) ==
  /\ e = execSeq + 1 /\ execSeq < MaxExecs[backend]
  /\ execSeq' = execSeq + 1
  /\ Set(e, [x[e] EXCEPT !.call = "open", !.seq = execSeq + 1,
               !.proc = IF Docker THEN "boot" ELSE "run",
               !.watcher = IF Docker THEN "on" ELSE "off"])
  /\ UNCHANGED <<backend, pidfiles, left>>

-----------------------------------------------------------------------------
(* The command (external).                                                 *)

\* The shell is started, and its first act is echo $$ > pidfile.
writePid(e) ==
  /\ Docker /\ x[e].call # "idle" /\ x[e].proc = "boot"
  /\ pidfiles' = [pidfiles EXCEPT ![x[e].seq] = e]
  /\ Set(e, [x[e] EXCEPT !.proc = "run"])
  /\ UNCHANGED <<backend, execSeq, left>>

\* Output, as far as the consumer's side is still reading.
write(e) ==
  /\ e \in Writers /\ x[e].proc = "run" /\ x[e].keeps /\ x[e].wrote < MaxOut
  /\ Set(e, [x[e] EXCEPT !.wrote = @ + 1, !.pipe = IF x[e].stream = "open" THEN @ + 1 ELSE @])
  /\ Others

closeOutput(e) ==
  /\ x[e].proc = "run" /\ x[e].keeps
  /\ Set(e, [x[e] EXCEPT !.keeps = FALSE]) /\ Others

\* It exits with a status other than zero, the one a wrong report would hide.
exit(e) ==
  /\ x[e].proc = "run"
  /\ Set(e, [x[e] EXCEPT !.proc = "exited", !.code = 1])
  /\ Others

\* The daemon drops the attach stream under a process that may go on: what the
\* reader has not read is lost, and it sees an end of file or an error.
streamBreaks(e) ==
  /\ Docker /\ Open(e) /\ x[e].reader = "on" /\ x[e].stream = "open"
  /\ Cardinality({f \in Execs : x[f].stream \in {"cut", "failed"}}) < MaxBreaks
  /\ \E s \in {"cut", "failed"} : Set(e, [x[e] EXCEPT !.stream = s, !.pipe = 0])
  /\ Others

\* The step's timeout, or a cancelled run.
cancel(e) == Open(e) /\ x[e].ctx = "live" /\ Set(e, [x[e] EXCEPT !.ctx = "done"]) /\ Others

\* The dispatcher drains the chunks channel.
consume(e) ==
  /\ x[e].chunks > 0
  /\ Set(e, [x[e] EXCEPT !.chunks = @ - 1, !.got = @ + 1]) /\ Others

-----------------------------------------------------------------------------
(* The readers.                                                            *)

\* streamingWriter.Write and native's emit: one read is one chunk sent, then
\* accumulated; the send blocks while the channel is full.
read(e) ==
  /\ Open(e) /\ x[e].reader = "on" /\ x[e].stream = "open"
  /\ x[e].pipe > 0 /\ x[e].chunks < ChunkCap
  /\ Set(e, [x[e] EXCEPT !.pipe = @ - 1, !.chunks = @ + 1, !.acc = @ + 1])
  /\ Others

\* End of stream, or a stream closed or broken under the reader.
readEnds(e) ==
  /\ Open(e) /\ x[e].reader = "on"
  /\ \/ x[e].stream # "open"
     \/ x[e].pipe = 0 /\ (Ended(e) \/ ~x[e].keeps)
  /\ Set(e, [x[e] EXCEPT !.reader = "off"]) /\ Others

-----------------------------------------------------------------------------
(* Docker: the watcher, the kill, and the goroutine that finishes.         *)

\* A watcher that leaves the stream to the kill.
watchKillsOnly(e) ==
  /\ Docker /\ Open(e) /\ x[e].watcher = "on"
  /\ \/ /\ x[e].ctx = "done"
        /\ Set(e, [x[e] EXCEPT !.watcher = "off", !.kill = "sent"])
     \/ /\ x[e].reader = "off" /\ Set(e, [x[e] EXCEPT !.watcher = "off"])
  /\ Others

\* The watcher: when the context is done first, it starts killExecTree and
\* closes the attach stream, which ends the reader; else the reader ends it.
watch(e) ==
  /\ Docker /\ Open(e) /\ x[e].watcher = "on"
  /\ \/ /\ x[e].ctx = "done"
        /\ Set(e, [x[e] EXCEPT !.watcher = "off", !.stream = "closed", !.kill = "sent"])
     \/ /\ x[e].reader = "off" /\ Set(e, [x[e] EXCEPT !.watcher = "off"])
  /\ Others

\* killExecTree, detached and best effort: killScript kills the tree of the pid
\* its file holds and removes the file; with no file yet it kills nothing, and
\* the daemon may refuse the exec.  A file that the command has not written yet
\* is one the container was restored with: whoever has that pid now is killed.
killExecTree(e) ==
  LET n == x[e].seq
      t == pidfiles[n] IN
  /\ Docker /\ x[e].kill = "sent"
  /\ \/ /\ t # 0
        /\ x' = [[x EXCEPT ![t] = IF x[t].proc = "run"
                                   THEN [x[t] EXCEPT !.proc = "killed", !.code = 1] ELSE x[t]]
                    EXCEPT ![e].kill = IF x[e].proc = "boot" THEN "stray" ELSE "ran"]
        /\ pidfiles' = [pidfiles EXCEPT ![n] = 0]
     \/ /\ x' = [x EXCEPT ![e].kill = IF t = 0 THEN "early" ELSE "refused"]
        /\ UNCHANGED pidfiles
  /\ UNCHANGED <<backend, execSeq, left>>

\* The error of a result: the context's first, then the reader's, then the
\* inspection's.
resErr(r, inspected) ==
  IF r.ctx = "done" THEN "ctx"
  ELSE IF r.stream = "failed" THEN "reader"
  ELSE IF inspected THEN "nil" ELSE "inspect"

\* The result: a process that still runs is inspected to exit code 0.
resultOf(r, inspected) ==
  [err |-> resErr(r, inspected), stdout |-> r.acc,
   code |-> IF inspected /\ r.proc \in {"exited", "killed"} THEN r.code ELSE 0]

\* A result that does not ask the context.
finishUnchecked(e) ==
  /\ Docker /\ Open(e) /\ x[e].reader = "off" /\ x[e].watcher = "off"
  /\ \E inspected \in BOOLEAN :
       Set(e, [x[e] EXCEPT !.call = "result",
                 !.res = resultOf([x[e] EXCEPT !.ctx = "live"], inspected)])
  /\ Others
\* After the reader and the watcher: ContainerExecInspect, which the daemon or a
\* done context may fail; the chunks are closed, the result is sent.
finishDocker(e) ==
  /\ Docker /\ Open(e) /\ x[e].reader = "off" /\ x[e].watcher = "off"
  /\ \E inspected \in BOOLEAN :
       Set(e, [x[e] EXCEPT !.call = "result", !.res = resultOf(x[e], inspected)])
  /\ Others

-----------------------------------------------------------------------------
(* Native: the group kill, Wait, and the result.                           *)

\* CommandContext's Cancel: SIGKILL to the process group.
killGroup(e) ==
  /\ ~Docker /\ Open(e) /\ x[e].ctx = "done" /\ x[e].proc = "run"
  /\ Set(e, [x[e] EXCEPT !.proc = "killed", !.code = 1]) /\ Others

\* c.Wait returns once the process has ended and closes our ends of the pipes,
\* whatever the readers have still to read.
wait(e) ==
  /\ ~Docker /\ Open(e) /\ Ended(e) /\ x[e].stream = "open"
  /\ Set(e, [x[e] EXCEPT !.stream = "closed", !.pipe = 0]) /\ Others

\* wg.Wait for the readers, then close(chunks) and the result.
finishNative(e) ==
  /\ ~Docker /\ Open(e) /\ x[e].stream = "closed" /\ x[e].reader = "off"
  /\ Set(e, [x[e] EXCEPT !.call = "result",
       !.res = [err |-> IF x[e].ctx = "done" THEN "ctx" ELSE "nil",
                stdout |-> x[e].acc, code |-> x[e].code]])
  /\ Others

Ours(e) == read(e) \/ readEnds(e) \/ watch(e) \/ finishDocker(e) \/ killGroup(e)
           \/ wait(e) \/ finishNative(e)
Command(e) == writePid(e) \/ write(e) \/ closeOutput(e) \/ exit(e)

ENext == \E e \in Execs : start(e) \/ Command(e) \/ streamBreaks(e) \/ cancel(e)
                          \/ consume(e) \/ Ours(e) \/ killExecTree(e)

\* Every goroutine runs and the dispatcher drains; the command owes nothing.
EFair == \A e \in Execs : WF_evars(Ours(e)) /\ WF_evars(consume(e))

ESpec == EInit /\ [][ENext]_evars /\ EFair

-----------------------------------------------------------------------------
ETypeOK ==
  \A e \in Execs :
    /\ x[e].call \in {"idle", "open", "result"}
    /\ x[e].wrote \in 0 .. MaxOut /\ x[e].chunks \in 0 .. ChunkCap
    /\ x[e].kill \in {"none", "sent", "ran", "stray", "early", "refused"}
    /\ x[e].res.err \in {"none", "nil", "ctx", "reader", "inspect"}

\* The result is the end of the stream (close(chunks) before result <-): once it
\* is sent no goroutine is left that could send a chunk, and its Stdout is
\* exactly what the chunks carried.
ResultEndsStream ==
  \A e \in Execs :
    x[e].call = "result" =>
      /\ x[e].reader = "off" /\ x[e].watcher = "off"
      /\ x[e].res.stdout = x[e].got + x[e].chunks

\* What a result without an error may be relied on for (execImage's resErr,
\* ContainerExecInspect, StdCopy to the end; native's Wait): the step was not
\* cancelled, and the exit code is the command's own - but on docker it is 0
\* when the command still ran, because it had closed its output or the daemon
\* ended the stream under it, and nothing in the result tells the two from a
\* success.  Unless the stream was so ended, docker's Stdout is all it wrote.
HonestResult ==
  \A e \in Execs :
    x[e].call = "result" /\ x[e].res.err = "nil" =>
      /\ x[e].ctx = "live"
      /\ \/ x[e].res.code = x[e].code
         \/ Docker /\ x[e].res.code = 0 /\ (x[e].stream = "cut" \/ ~x[e].keeps)
      /\ Docker /\ x[e].stream # "cut" => x[e].res.stdout = x[e].wrote

\* killExecTree ends only what was cancelled: a pid file names one exec, so a
\* timed out step never kills its neighbour in the same container.  It may in
\* one case: the container was restored with the file of that number, and the
\* step was cancelled before its command had written it anew.
KillsOwn ==
  \A e \in Execs :
    x[e].proc = "killed" => \/ x[e].ctx = "done"
                            \/ \E f \in left \ {e} : x[f].kill = "stray"

\* A cancelled command is not left running: unless the kill came before it had
\* written its pid, or the daemon refused the kill, or it ended first, it dies
\* (the reason killExecTree exists: closing the stream leaves it running).
CancelKills ==
  \A e \in Execs :
    Docker /\ x[e].call = "result" /\ x[e].stream = "closed"
      => \/ x[e].kill \in {"sent", "early", "stray", "refused"}
         \/ Ended(e)

\* A cancelled Exec always returns a result, whatever the command does: neither
\* a full channel, nor a silent process, nor a kill that fails holds it up.
CancelReturns ==
  \A e \in Execs : (x[e].call = "open" /\ x[e].ctx = "done") ~> (x[e].call = "result")

\* A result comes behind the last chunk, tells what the command did as far as
\* HonestResult says, and a cancellation ends its own command and, but for a pid
\* file left in a restored container, no other.
ExecSafe ==
    /\ ETypeOK
    /\ ResultEndsStream
    /\ HonestResult
    /\ KillsOwn
    /\ CancelKills
=============================================================================
