--------------------------- MODULE ContainerProofs ---------------------------
(***************************************************************************)
(* Proofs about the container backends.                                    *)
(*                                                                         *)
(* ContainerExec: each Exec call satisfies Good, a condition on its own    *)
(* record, its own pid file and the sequence counter.  An action changes   *)
(* the record of one call; the only one that can reach another is          *)
(* killExecTree: Good says that the pid file it reads is its own once its  *)
(* command has written it, and Struck whom it can reach before.            *)
(*                                                                         *)
(* NativeBackend: a snapshot under way lists exactly the paths walked so   *)
(* far, and a restore under way has written exactly the entries read so    *)
(* far into an empty directory.                                            *)
(*                                                                         *)
(* DockerBackend: for every set of runtimes, callers, files and bounds,    *)
(* and calls that fail with their effect or without, the daemon's          *)
(* containers are all accounted for or given up, no runtime is held by a   *)
(* container that is gone, a snapshot nobody wrote under is exact, and a   *)
(* restore hands over the committed files.                                 *)
(*                                                                         *)
(* The inductive invariant DInv has one part per call (CallerGood: where   *)
(* the call may be, what it holds, what a snapshot has copied, how far a   *)
(* restore is) and a few facts about all calls together (DGlobals: one     *)
(* call per runtime, who owns each container, and Reserved: the daemon has *)
(* an id for every create that has none yet).                              *)
(*                                                                         *)
(* Frame lemmas say what each shape of step leaves true: StageKeeps for a  *)
(* step within a call's container, GoesOn, Begins, Gains, Quits and        *)
(* Finishes for the life of a call, ProcessKeeps for a container's own     *)
(* steps.  Every action is then an instance of one of them.  The heart is  *)
(* Turns and Wrapper: host and delete wrapper take turns by their markers, *)
(* so that ready is reached only behind the wrapper's last step.           *)
(***************************************************************************)
EXTENDS ContainerExec, NativeBackend, DockerBackend, FiniteSetTheorems, TLAPS

-----------------------------------------------------------------------------
(* Exec: the inductive invariant.                                          *)

ExecRecord ==
  [call : {"idle", "open", "result"}, seq : Nat, proc : {"boot", "run", "exited", "killed"},
   code : {0, 1}, keeps : BOOLEAN, wrote : 0 .. MaxOut, pipe : Nat, chunks : 0 .. ChunkCap,
   got : Nat, acc : Nat, ctx : {"live", "done"}, stream : {"open", "closed", "cut", "failed"},
   reader : {"on", "off"}, watcher : {"on", "off"},
   kill : {"none", "sent", "ran", "stray", "early", "refused"},
   res : [err : {"none", "nil", "ctx", "reader", "inspect"}, code : {0, 1}, stdout : Nat]]

Over(r) == r.proc \in {"exited", "killed"}

\* a call that was not made has started nothing
Unstarted(r) ==
  r.call = "idle" =>
    /\ r.proc = "boot" /\ r.ctx = "live" /\ r.kill = "none" /\ r.stream = "open" /\ r.reader = "on"
    /\ r.watcher = "on"

\* every chunk read was sent, and while the stream is open every chunk written was read or waits
Counted(r) ==
  /\ r.acc = r.got + r.chunks
  /\ r.stream = "open" => r.wrote = r.pipe + r.acc

\* why the stream is closed, and why the reader has stopped
Stopped(r, b) ==
  /\ r.stream = "closed" /\ b = "docker" => r.ctx = "done" /\ r.kill # "none"
  /\ r.stream = "closed" /\ b = "native" => Over(r)
  /\ b = "native" => r.stream \in {"open", "closed"}
  /\ r.watcher = "on" => r.kill = "none"
  /\ r.reader = "off" => r.stream # "open" \/ (r.pipe = 0 /\ (Over(r) \/ ~r.keeps))
  /\ r.call # "idle" /\ b = "native" => r.watcher = "off" /\ r.kill = "none"

\* only a cancelled call starts a kill, and one that read its own file has ended its command
Killed(r) ==
  /\ r.kill # "none" => r.ctx = "done"
  /\ r.kill = "ran" => Over(r)

\* what the result says
Told(r, b) ==
  r.call = "result" =>
    /\ r.reader = "off" /\ r.watcher = "off"
    /\ r.res.stdout = r.acc
    /\ r.res.err = "nil" =>
         /\ r.ctx = "live"
         /\ \/ Over(r) /\ r.res.code = r.code
            \/ b = "docker" /\ r.res.code = 0 /\ (r.stream = "cut" \/ ~r.keeps)
         /\ b = "docker" /\ r.stream # "cut" => r.stream = "open" /\ r.pipe = 0 /\ (Over(r) \/ ~r.keeps)

\* the pid file of a command that has written it names that command; another was left behind
Named(r, e, pid, n, lf) ==
  /\ r.call # "idle" => r.seq = e /\ e <= n
  /\ pid # 0 /\ r.proc # "boot" => pid = e
  /\ pid # 0 /\ r.proc = "boot" => e \in lf

Good(r, e, pid, n, b, lf) ==
  /\ Unstarted(r)
  /\ Counted(r)
  /\ Stopped(r, b)
  /\ Killed(r)
  /\ Told(r, b)
  /\ Named(r, e, pid, n, lf)

\* who is killed was cancelled, or struck through a file left behind
Struck(e) ==
  x[e].proc = "killed" => x[e].ctx = "done" \/ \E f \in left \ {e} : x[f].kill = "stray"

\* what no step takes back, and whom a step of a call's own may kill
Later(q, r) ==
  /\ q.ctx = "done" => r.ctx = "done"
  /\ q.kill = "stray" => r.kill = "stray"
  /\ r.proc = "killed" => q.proc = "killed" \/ r.ctx = "done"

ExecInv ==
  /\ backend \in {"docker", "native"}
  /\ execSeq \in Nat
  /\ x \in [Execs -> ExecRecord]
  /\ pidfiles \in [Execs -> Execs \cup {0}] /\ left \subseteq Execs
  /\ backend = "native" => \A n \in Execs : pidfiles[n] = 0
  /\ \A e \in Execs : Good(x[e], e, pidfiles[e], execSeq, backend, left) /\ Struck(e)

-----------------------------------------------------------------------------
(* Exec: one step.                                                         *)

\* A step that changes one record only, and kills nobody but a cancelled call.
LEMMA RecordsStruck ==
  ASSUME ExecInv, NEW e \in Execs, NEW r \in ExecRecord, Set(e, r), left' = left, Later(x[e], r)
  PROVE  \A g \in Execs : Struck(g)'
<1>1. x'[e] = r /\ \A f \in Execs : f # e => x'[f] = x[f]
  BY DEF Set, ExecInv
<1>2. SUFFICES ASSUME NEW g \in Execs, x'[g].proc = "killed", x'[g].ctx # "done"
               PROVE  \E f \in left \ {g} : x'[f].kill = "stray"
  BY DEF Struck
<1>3. x[g].proc = "killed" /\ x[g].ctx # "done"
  BY <1>1, <1>2 DEF Later
<1>4. PICK f \in left \ {g} : x[f].kill = "stray"
  BY <1>3 DEF ExecInv, Struck
<1>5. f \in Execs /\ x'[f].kill = "stray"
  BY <1>1, <1>4 DEF ExecInv, Later
<1> QED
  BY <1>4, <1>5

LEMMA RecordStep ==
  ASSUME ExecInv, NEW e \in Execs, NEW r \in ExecRecord, Set(e, r), Others,
         Good(r, e, pidfiles[e], execSeq, backend, left), Later(x[e], r)
  PROVE  ExecInv'
<1>1. x' \in [Execs -> ExecRecord] /\ x'[e] = r /\ \A f \in Execs : f # e => x'[f] = x[f]
  BY DEF Set, ExecInv
<1>2. backend' = backend /\ execSeq' = execSeq /\ pidfiles' = pidfiles /\ left' = left
  BY DEF Others
<1>3. ASSUME NEW f \in Execs
      PROVE  Good(x'[f], f, pidfiles'[f], execSeq', backend', left')
  <2>1. CASE f = e
    BY <1>1, <1>2, <2>1
  <2>2. CASE f # e
    BY <1>1, <1>2, <2>2 DEF ExecInv
  <2> QED
    BY <2>1, <2>2
<1>4. \A g \in Execs : Struck(g)'
  BY <1>2, RecordsStruck
<1> QED
  BY <1>1, <1>2, <1>3, <1>4 DEF ExecInv

LEMMA writeKeeps ==
  ASSUME ExecInv, NEW e \in Execs, write(e)
  PROVE  ExecInv'
<1> DEFINE q == x[e]
           r == [x[e] EXCEPT !.wrote = @ + 1, !.pipe = IF x[e].stream = "open" THEN @ + 1 ELSE @]
<1>1. q \in ExecRecord /\ Good(q, e, pidfiles[e], execSeq, backend, left)
  BY DEF ExecInv
<1>2. q.proc = "run" /\ q.keeps /\ q.wrote < MaxOut
  BY DEF write, Open, Ended, Over
<1>3. Set(e, r) /\ Others
  BY DEF write
<1>3a. q.wrote + 1 \in 0 .. MaxOut /\ q.pipe + 1 \in Nat
  BY <1>1, <1>2, ExecConstants DEF ExecRecord
<1>4. r \in ExecRecord
  BY <1>1, <1>3a DEF ExecRecord
<1>5. Good(r, e, pidfiles[e], execSeq, backend, left)
  <2>1. Unstarted(r) /\ Named(r, e, pidfiles[e], execSeq, left)
    BY <1>1, <1>2 DEF ExecRecord, Good, Unstarted, Named, Over
  <2>2. Counted(r)
    BY <1>1, <1>2, ExecConstants DEF ExecRecord, Good, Counted
  <2>3. Stopped(r, backend)
    BY <1>1, <1>2 DEF ExecRecord, Good, Stopped, Unstarted, Over, Docker
  <2>4. Killed(r)
    BY <1>1, <1>2 DEF ExecRecord, Good, Killed, Over, Unstarted
  <2>5. Told(r, backend)
    BY <1>1, <1>2 DEF ExecRecord, Good, Told, Unstarted, Stopped, Killed, Over, Docker, Ended, ExecInv
  <2> QED
    BY <2>1, <2>2, <2>3, <2>4, <2>5 DEF Good
<1>6. Later(q, r)
  BY <1>1, <1>2 DEF Later, ExecRecord, Good, Stopped, Killed
<1> HIDE DEF r
<1> QED
  BY <1>3, <1>4, <1>5, <1>6, RecordStep

LEMMA closeOutputKeeps ==
  ASSUME ExecInv, NEW e \in Execs, closeOutput(e)
  PROVE  ExecInv'
<1> DEFINE q == x[e]
           r == [x[e] EXCEPT !.keeps = FALSE]
<1>1. q \in ExecRecord /\ Good(q, e, pidfiles[e], execSeq, backend, left)
  BY DEF ExecInv
<1>2. q.proc = "run" /\ q.keeps
  BY DEF closeOutput, Open, Ended, Over
<1>3. Set(e, r) /\ Others
  BY DEF closeOutput
<1>4. r \in ExecRecord
  BY <1>1, <1>2 DEF ExecRecord
<1>5. Good(r, e, pidfiles[e], execSeq, backend, left)
  <2>1. Unstarted(r) /\ Named(r, e, pidfiles[e], execSeq, left)
    BY <1>1, <1>2 DEF ExecRecord, Good, Unstarted, Named, Over
  <2>2. Counted(r)
    BY <1>1, <1>2, ExecConstants DEF ExecRecord, Good, Counted
  <2>3. Stopped(r, backend)
    BY <1>1, <1>2 DEF ExecRecord, Good, Stopped, Unstarted, Over, Docker
  <2>4. Killed(r)
    BY <1>1, <1>2 DEF ExecRecord, Good, Killed, Over, Unstarted
  <2>5. Told(r, backend)
    BY <1>1, <1>2 DEF ExecRecord, Good, Told, Unstarted, Stopped, Killed, Over, Docker, Ended, ExecInv
  <2> QED
    BY <2>1, <2>2, <2>3, <2>4, <2>5 DEF Good
<1>6. Later(q, r)
  BY <1>1, <1>2 DEF Later, ExecRecord, Good, Stopped, Killed
<1> HIDE DEF r
<1> QED
  BY <1>3, <1>4, <1>5, <1>6, RecordStep

LEMMA exitKeeps ==
  ASSUME ExecInv, NEW e \in Execs, exit(e)
  PROVE  ExecInv'
<1> DEFINE q == x[e]
           r == [x[e] EXCEPT !.proc = "exited", !.code = 1]
<1>1. q \in ExecRecord /\ Good(q, e, pidfiles[e], execSeq, backend, left)
  BY DEF ExecInv
<1>2. q.proc = "run"
  BY DEF exit, Open, Ended, Over
<1>3. Set(e, r) /\ Others
  BY DEF exit
<1>4. r \in ExecRecord
  BY <1>1, <1>2 DEF ExecRecord
<1>5. Good(r, e, pidfiles[e], execSeq, backend, left)
  <2>1. Unstarted(r) /\ Named(r, e, pidfiles[e], execSeq, left)
    BY <1>1, <1>2 DEF ExecRecord, Good, Unstarted, Named, Over
  <2>2. Counted(r)
    BY <1>1, <1>2, ExecConstants DEF ExecRecord, Good, Counted
  <2>3. Stopped(r, backend)
    BY <1>1, <1>2 DEF ExecRecord, Good, Stopped, Unstarted, Over, Docker
  <2>4. Killed(r)
    BY <1>1, <1>2 DEF ExecRecord, Good, Killed, Over, Unstarted
  <2>5. Told(r, backend)
    BY <1>1, <1>2 DEF ExecRecord, Good, Told, Unstarted, Stopped, Killed, Over, Docker, Ended, ExecInv
  <2> QED
    BY <2>1, <2>2, <2>3, <2>4, <2>5 DEF Good
<1>6. Later(q, r)
  BY <1>1, <1>2 DEF Later, ExecRecord, Good, Stopped, Killed
<1> HIDE DEF r
<1> QED
  BY <1>3, <1>4, <1>5, <1>6, RecordStep

LEMMA cancelKeeps ==
  ASSUME ExecInv, NEW e \in Execs, cancel(e)
  PROVE  ExecInv'
<1> DEFINE q == x[e]
           r == [x[e] EXCEPT !.ctx = "done"]
<1>1. q \in ExecRecord /\ Good(q, e, pidfiles[e], execSeq, backend, left)
  BY DEF ExecInv
<1>2. q.call = "open" /\ q.ctx = "live"
  BY DEF cancel, Open, Ended, Over
<1>3. Set(e, r) /\ Others
  BY DEF cancel
<1>4. r \in ExecRecord
  BY <1>1, <1>2 DEF ExecRecord
<1>5. Good(r, e, pidfiles[e], execSeq, backend, left)
  <2>1. Unstarted(r) /\ Named(r, e, pidfiles[e], execSeq, left)
    BY <1>1, <1>2 DEF ExecRecord, Good, Unstarted, Named, Over
  <2>2. Counted(r)
    BY <1>1, <1>2, ExecConstants DEF ExecRecord, Good, Counted
  <2>3. Stopped(r, backend)
    BY <1>1, <1>2 DEF ExecRecord, Good, Stopped, Unstarted, Over, Docker
  <2>4. Killed(r)
    BY <1>1, <1>2 DEF ExecRecord, Good, Killed, Over, Unstarted
  <2>5. Told(r, backend)
    BY <1>1, <1>2 DEF ExecRecord, Good, Told, Unstarted, Stopped, Killed, Over, Docker, Ended, ExecInv
  <2> QED
    BY <2>1, <2>2, <2>3, <2>4, <2>5 DEF Good
<1>6. Later(q, r)
  BY <1>1, <1>2 DEF Later, ExecRecord, Good, Stopped, Killed
<1> HIDE DEF r
<1> QED
  BY <1>3, <1>4, <1>5, <1>6, RecordStep

LEMMA consumeKeeps ==
  ASSUME ExecInv, NEW e \in Execs, consume(e)
  PROVE  ExecInv'
<1> DEFINE q == x[e]
           r == [x[e] EXCEPT !.chunks = @ - 1, !.got = @ + 1]
<1>1. q \in ExecRecord /\ Good(q, e, pidfiles[e], execSeq, backend, left)
  BY DEF ExecInv
<1>2. q.chunks > 0
  BY DEF consume, Open, Ended, Over
<1>3. Set(e, r) /\ Others
  BY DEF consume
<1>3a. q.chunks - 1 \in 0 .. ChunkCap /\ q.got + 1 \in Nat
  BY <1>1, <1>2, ExecConstants DEF ExecRecord
<1>4. r \in ExecRecord
  BY <1>1, <1>3a DEF ExecRecord
<1>5. Good(r, e, pidfiles[e], execSeq, backend, left)
  <2>1. Unstarted(r) /\ Named(r, e, pidfiles[e], execSeq, left)
    BY <1>1, <1>2 DEF ExecRecord, Good, Unstarted, Named, Over
  <2>2. Counted(r)
    BY <1>1, <1>2, ExecConstants DEF ExecRecord, Good, Counted
  <2>3. Stopped(r, backend)
    BY <1>1, <1>2 DEF ExecRecord, Good, Stopped, Unstarted, Over, Docker
  <2>4. Killed(r)
    BY <1>1, <1>2 DEF ExecRecord, Good, Killed, Over, Unstarted
  <2>5. Told(r, backend)
    BY <1>1, <1>2 DEF ExecRecord, Good, Told, Unstarted, Stopped, Killed, Over, Docker, Ended, ExecInv
  <2> QED
    BY <2>1, <2>2, <2>3, <2>4, <2>5 DEF Good
<1>6. Later(q, r)
  BY <1>1, <1>2 DEF Later, ExecRecord, Good, Stopped, Killed
<1> HIDE DEF r
<1> QED
  BY <1>3, <1>4, <1>5, <1>6, RecordStep

LEMMA readKeeps ==
  ASSUME ExecInv, NEW e \in Execs, read(e)
  PROVE  ExecInv'
<1> DEFINE q == x[e]
           r == [x[e] EXCEPT !.pipe = @ - 1, !.chunks = @ + 1, !.acc = @ + 1]
<1>1. q \in ExecRecord /\ Good(q, e, pidfiles[e], execSeq, backend, left)
  BY DEF ExecInv
<1>2. q.call = "open" /\ q.reader = "on" /\ q.stream = "open" /\ q.pipe > 0 /\ q.chunks < ChunkCap
  BY DEF read, Open, Ended, Over
<1>3. Set(e, r) /\ Others
  BY DEF read
<1>3a. q.pipe - 1 \in Nat /\ q.chunks + 1 \in 0 .. ChunkCap /\ q.acc + 1 \in Nat
  BY <1>1, <1>2, ExecConstants DEF ExecRecord
<1>4. r \in ExecRecord
  BY <1>1, <1>3a DEF ExecRecord
<1>5. Good(r, e, pidfiles[e], execSeq, backend, left)
  <2>1. Unstarted(r) /\ Named(r, e, pidfiles[e], execSeq, left)
    BY <1>1, <1>2 DEF ExecRecord, Good, Unstarted, Named, Over
  <2>2. Counted(r)
    BY <1>1, <1>2, ExecConstants DEF ExecRecord, Good, Counted
  <2>3. Stopped(r, backend)
    BY <1>1, <1>2 DEF ExecRecord, Good, Stopped, Unstarted, Over, Docker
  <2>4. Killed(r)
    BY <1>1, <1>2 DEF ExecRecord, Good, Killed, Over, Unstarted
  <2>5. Told(r, backend)
    BY <1>1, <1>2 DEF ExecRecord, Good, Told, Unstarted, Stopped, Killed, Over, Docker, Ended, ExecInv
  <2> QED
    BY <2>1, <2>2, <2>3, <2>4, <2>5 DEF Good
<1>6. Later(q, r)
  BY <1>1, <1>2 DEF Later, ExecRecord, Good, Stopped, Killed
<1> HIDE DEF r
<1> QED
  BY <1>3, <1>4, <1>5, <1>6, RecordStep

LEMMA readEndsKeeps ==
  ASSUME ExecInv, NEW e \in Execs, readEnds(e)
  PROVE  ExecInv'
<1> DEFINE q == x[e]
           r == [x[e] EXCEPT !.reader = "off"]
<1>1. q \in ExecRecord /\ Good(q, e, pidfiles[e], execSeq, backend, left)
  BY DEF ExecInv
<1>2. q.call = "open" /\ (q.stream # "open" \/ (q.pipe = 0 /\ (Over(q) \/ ~q.keeps)))
  BY DEF readEnds, Open, Ended, Over
<1>3. Set(e, r) /\ Others
  BY DEF readEnds
<1>4. r \in ExecRecord
  BY <1>1, <1>2 DEF ExecRecord
<1>5. Good(r, e, pidfiles[e], execSeq, backend, left)
  <2>1. Unstarted(r) /\ Named(r, e, pidfiles[e], execSeq, left)
    BY <1>1, <1>2 DEF ExecRecord, Good, Unstarted, Named, Over
  <2>2. Counted(r)
    BY <1>1, <1>2, ExecConstants DEF ExecRecord, Good, Counted
  <2>3. Stopped(r, backend)
    BY <1>1, <1>2 DEF ExecRecord, Good, Stopped, Unstarted, Over, Docker
  <2>4. Killed(r)
    BY <1>1, <1>2 DEF ExecRecord, Good, Killed, Over, Unstarted
  <2>5. Told(r, backend)
    BY <1>1, <1>2 DEF ExecRecord, Good, Told, Unstarted, Stopped, Killed, Over, Docker, Ended, ExecInv
  <2> QED
    BY <2>1, <2>2, <2>3, <2>4, <2>5 DEF Good
<1>6. Later(q, r)
  BY <1>1, <1>2 DEF Later, ExecRecord, Good, Stopped, Killed
<1> HIDE DEF r
<1> QED
  BY <1>3, <1>4, <1>5, <1>6, RecordStep

LEMMA ResultFacts ==
  ASSUME NEW r \in ExecRecord, NEW i \in BOOLEAN
  PROVE  LET o == resultOf(r, i) IN
         /\ o \in [err : {"none", "nil", "ctx", "reader", "inspect"}, code : {0, 1}, stdout : Nat]
         /\ o.stdout = r.acc
         /\ (o.err = "nil" => (r.ctx = "live" /\ r.stream # "failed"))
         /\ (o.err = "nil" => ((Over(r) /\ o.code = r.code) \/ (~Over(r) /\ o.code = 0)))
<1> DEFINE c == IF i /\ r.proc \in {"exited", "killed"} THEN r.code ELSE 0
           d == resErr(r, i)
<1>1. resultOf(r, i) = [err |-> d, stdout |-> r.acc, code |-> c]
  BY DEF resultOf
<1>2. r.acc \in Nat /\ r.code \in {0, 1} /\ r.ctx \in {"live", "done"}
  BY DEF ExecRecord
<1>3. c \in {0, 1} /\ (i /\ Over(r) => c = r.code) /\ (~Over(r) => c = 0)
  BY <1>2 DEF Over
<1>4. /\ d \in {"none", "nil", "ctx", "reader", "inspect"}
      /\ (d = "nil" => (r.ctx # "done" /\ r.stream # "failed" /\ i))
  BY DEF resErr
<1> HIDE DEF c, d
<1>5. PICK o : o = resultOf(r, i)
  OBVIOUS
<1>6. o = [err |-> d, stdout |-> r.acc, code |-> c]
  BY <1>1, <1>5
<1>7. o \in [err : {"none", "nil", "ctx", "reader", "inspect"}, code : {0, 1}, stdout : Nat]
  BY <1>2, <1>3, <1>4, <1>6
<1>8. o.err = d /\ o.stdout = r.acc /\ o.code = c
  BY <1>6
<1>9. /\ (o.err = "nil" => (r.ctx = "live" /\ r.stream # "failed"))
      /\ (o.err = "nil" => ((Over(r) /\ o.code = r.code) \/ (~Over(r) /\ o.code = 0)))
  BY <1>2, <1>3, <1>4, <1>8
<1> QED
  BY <1>5, <1>7, <1>8, <1>9

LEMMA finishDockerKeeps ==
  ASSUME ExecInv, NEW e \in Execs, finishDocker(e)
  PROVE  ExecInv'
<1>a. \E i \in BOOLEAN : Set(e, [x[e] EXCEPT !.call = "result", !.res = resultOf(x[e], i)])
  BY Zenon DEF finishDocker
<1>0. PICK i \in BOOLEAN : Set(e, [x[e] EXCEPT !.call = "result", !.res = resultOf(x[e], i)])
  BY <1>a, Zenon
<1> DEFINE q == x[e]
           o == resultOf(x[e], i)
           r == [x[e] EXCEPT !.call = "result", !.res = o]
<1>1. q \in ExecRecord /\ Good(q, e, pidfiles[e], execSeq, backend, left)
  BY DEF ExecInv
<1>2. Docker /\ q.call = "open" /\ q.reader = "off" /\ q.watcher = "off"
  BY DEF finishDocker, Open
<1>3. Set(e, r) /\ Others
  BY <1>0 DEF finishDocker
<1>3a. /\ o \in [err : {"none", "nil", "ctx", "reader", "inspect"}, code : {0, 1}, stdout : Nat]
       /\ o.stdout = q.acc
       /\ (o.err = "nil" => (q.ctx = "live" /\ q.stream # "failed"))
       /\ (o.err = "nil" => ((Over(q) /\ o.code = q.code) \/ (~Over(q) /\ o.code = 0)))
  <2>1. PICK w \in ExecRecord : w = q
    BY <1>1
  <2>2. PICK u : u = resultOf(w, i)
    OBVIOUS
  <2>3. /\ u \in [err : {"none", "nil", "ctx", "reader", "inspect"}, code : {0, 1}, stdout : Nat]
        /\ u.stdout = w.acc
        /\ (u.err = "nil" => (w.ctx = "live" /\ w.stream # "failed"))
        /\ (u.err = "nil" => ((Over(w) /\ u.code = w.code) \/ (~Over(w) /\ u.code = 0)))
    BY <1>0, <2>2, ResultFacts
  <2> QED
    BY <2>1, <2>2, <2>3
<1> HIDE DEF o
<1>4. r \in ExecRecord
  BY <1>1, <1>3a DEF ExecRecord
<1>5. Good(r, e, pidfiles[e], execSeq, backend, left)
  <2>1. Unstarted(r) /\ Named(r, e, pidfiles[e], execSeq, left)
    BY <1>1, <1>2 DEF ExecRecord, Good, Unstarted, Named, Over
  <2>2. Counted(r)
    BY <1>1, <1>2, ExecConstants DEF ExecRecord, Good, Counted
  <2>3. Stopped(r, backend)
    BY <1>1, <1>2 DEF ExecRecord, Good, Stopped, Unstarted, Over, Docker
  <2>4. Killed(r)
    BY <1>1, <1>2 DEF ExecRecord, Good, Killed, Over, Unstarted
  <2>5. Told(r, backend)
    <3>1. r.res = o /\ r.reader = "off" /\ r.watcher = "off" /\ r.acc = q.acc /\ r.ctx = q.ctx /\ r.stream = q.stream
          /\ r.pipe = q.pipe /\ r.keeps = q.keeps /\ r.code = q.code /\ (Over(r) <=> Over(q))
      BY <1>1, <1>2 DEF ExecRecord, Over
    <3>2. q.stream # "closed" \/ q.ctx = "done"
      BY <1>1, <1>2 DEF Good, Stopped, Docker
    <3>3. q.stream # "open" \/ (q.pipe = 0 /\ (Over(q) \/ ~q.keeps))
      BY <1>1, <1>2 DEF Good, Stopped
    <3>4. q.stream \in {"open", "closed", "cut", "failed"} /\ backend = "docker"
      BY <1>1, <1>2 DEF ExecRecord, Docker
    <3> QED
      BY <1>3a, <3>1, <3>2, <3>3, <3>4 DEF Told
  <2> QED
    BY <2>1, <2>2, <2>3, <2>4, <2>5 DEF Good
<1>6. Later(q, r)
  BY <1>1, <1>2 DEF Later, ExecRecord, Good, Stopped, Killed
<1> HIDE DEF r
<1> QED
  BY <1>3, <1>4, <1>5, <1>6, RecordStep

LEMMA killGroupKeeps ==
  ASSUME ExecInv, NEW e \in Execs, killGroup(e)
  PROVE  ExecInv'
<1> DEFINE q == x[e]
           r == [x[e] EXCEPT !.proc = "killed", !.code = 1]
<1>1. q \in ExecRecord /\ Good(q, e, pidfiles[e], execSeq, backend, left)
  BY DEF ExecInv
<1>2. ~Docker /\ q.call = "open" /\ q.ctx = "done" /\ q.proc = "run"
  BY DEF killGroup, Open, Ended, Over
<1>3. Set(e, r) /\ Others
  BY DEF killGroup
<1>4. r \in ExecRecord
  BY <1>1, <1>2 DEF ExecRecord
<1>5. Good(r, e, pidfiles[e], execSeq, backend, left)
  <2>1. Unstarted(r) /\ Named(r, e, pidfiles[e], execSeq, left)
    BY <1>1, <1>2 DEF ExecRecord, Good, Unstarted, Named, Over
  <2>2. Counted(r)
    BY <1>1, <1>2, ExecConstants DEF ExecRecord, Good, Counted
  <2>3. Stopped(r, backend)
    BY <1>1, <1>2 DEF ExecRecord, Good, Stopped, Unstarted, Over, Docker
  <2>4. Killed(r)
    BY <1>1, <1>2 DEF ExecRecord, Good, Killed, Over, Unstarted
  <2>5. Told(r, backend)
    BY <1>1, <1>2 DEF ExecRecord, Good, Told, Unstarted, Stopped, Killed, Over, Docker, Ended, ExecInv
  <2> QED
    BY <2>1, <2>2, <2>3, <2>4, <2>5 DEF Good
<1>6. Later(q, r)
  BY <1>1, <1>2 DEF Later, ExecRecord, Good, Stopped, Killed
<1> HIDE DEF r
<1> QED
  BY <1>3, <1>4, <1>5, <1>6, RecordStep

LEMMA waitKeeps ==
  ASSUME ExecInv, NEW e \in Execs, wait(e)
  PROVE  ExecInv'
<1> DEFINE q == x[e]
           r == [x[e] EXCEPT !.stream = "closed", !.pipe = 0]
<1>1. q \in ExecRecord /\ Good(q, e, pidfiles[e], execSeq, backend, left)
  BY DEF ExecInv
<1>2. ~Docker /\ q.call = "open" /\ Over(q) /\ q.stream = "open"
  BY DEF wait, Open, Ended, Over
<1>3. Set(e, r) /\ Others
  BY DEF wait
<1>4. r \in ExecRecord
  BY <1>1, <1>2 DEF ExecRecord
<1>5. Good(r, e, pidfiles[e], execSeq, backend, left)
  <2>1. Unstarted(r) /\ Named(r, e, pidfiles[e], execSeq, left)
    BY <1>1, <1>2 DEF ExecRecord, Good, Unstarted, Named, Over
  <2>2. Counted(r)
    BY <1>1, <1>2, ExecConstants DEF ExecRecord, Good, Counted
  <2>3. Stopped(r, backend)
    BY <1>1, <1>2 DEF ExecRecord, Good, Stopped, Unstarted, Over, Docker
  <2>4. Killed(r)
    BY <1>1, <1>2 DEF ExecRecord, Good, Killed, Over, Unstarted
  <2>5. Told(r, backend)
    BY <1>1, <1>2 DEF ExecRecord, Good, Told, Unstarted, Stopped, Killed, Over, Docker, Ended, ExecInv
  <2> QED
    BY <2>1, <2>2, <2>3, <2>4, <2>5 DEF Good
<1>6. Later(q, r)
  BY <1>1, <1>2 DEF Later, ExecRecord, Good, Stopped, Killed
<1> HIDE DEF r
<1> QED
  BY <1>3, <1>4, <1>5, <1>6, RecordStep

LEMMA finishNativeKeeps ==
  ASSUME ExecInv, NEW e \in Execs, finishNative(e)
  PROVE  ExecInv'
<1> DEFINE q == x[e]
           r == [x[e] EXCEPT !.call = "result",
             !.res = [err |-> IF x[e].ctx = "done" THEN "ctx" ELSE "nil",
                      stdout |-> x[e].acc, code |-> x[e].code]]
<1>1. q \in ExecRecord /\ Good(q, e, pidfiles[e], execSeq, backend, left)
  BY DEF ExecInv
<1>2. ~Docker /\ q.call = "open" /\ q.stream = "closed" /\ q.reader = "off"
  BY DEF finishNative, Open, Ended, Over
<1>3. Set(e, r) /\ Others
  BY DEF finishNative
<1>4. r \in ExecRecord
  BY <1>1, <1>2, ZenonT(60) DEF ExecRecord
<1>5. Good(r, e, pidfiles[e], execSeq, backend, left)
  <2>1. Unstarted(r) /\ Named(r, e, pidfiles[e], execSeq, left)
    BY <1>1, <1>2 DEF ExecRecord, Good, Unstarted, Named, Over
  <2>2. Counted(r)
    BY <1>1, <1>2, ExecConstants DEF ExecRecord, Good, Counted
  <2>3. Stopped(r, backend)
    BY <1>1, <1>2 DEF ExecRecord, Good, Stopped, Unstarted, Over, Docker
  <2>4. Killed(r)
    BY <1>1, <1>2 DEF ExecRecord, Good, Killed, Over, Unstarted
  <2>5. Told(r, backend)
    BY <1>1, <1>2 DEF ExecRecord, Good, Told, Unstarted, Stopped, Killed, Over, Docker, Ended, ExecInv
  <2> QED
    BY <2>1, <2>2, <2>3, <2>4, <2>5 DEF Good
<1>6. Later(q, r)
  BY <1>1, <1>2 DEF Later, ExecRecord, Good, Stopped, Killed
<1> HIDE DEF r
<1> QED
  BY <1>3, <1>4, <1>5, <1>6, RecordStep

LEMMA startKeeps ==
  ASSUME ExecInv, NEW e \in Execs, start(e)
  PROVE  ExecInv'
<1> DEFINE q == x[e]
           r == [x[e] EXCEPT !.call = "open", !.seq = execSeq + 1,
                   !.proc = IF Docker THEN "boot" ELSE "run",
                   !.watcher = IF Docker THEN "on" ELSE "off"]
<1>1. q \in ExecRecord /\ Good(q, e, pidfiles[e], execSeq, backend, left) /\ execSeq \in Nat /\ e \in Nat
  BY ExecConstants DEF ExecInv
<1>2. e = execSeq + 1 /\ execSeq' = execSeq + 1 /\ backend' = backend /\ pidfiles' = pidfiles /\ left' = left
  BY DEF start
<1>3. q.call = "idle"
  <2>1. ~(e <= execSeq)
    BY <1>1, <1>2
  <2> QED
    BY <2>1, <1>1 DEF Good, Named, ExecRecord
<1>3a. execSeq + 1 \in Nat
  BY <1>1
<1>4. r \in ExecRecord
  BY <1>1, <1>3a, ZenonT(60) DEF ExecRecord, Docker
<1>5. Good(r, e, pidfiles[e], execSeq', backend, left)
  <2>1. execSeq' \in Nat /\ e <= execSeq' /\ r.call = "open" /\ r.seq = e
    BY <1>1, <1>2
  <2>2. Unstarted(r) /\ Named(r, e, pidfiles[e], execSeq', left)
    <3>1. Unstarted(r)
      BY <2>1 DEF Unstarted
    <3>2. q.proc = "boot" /\ (pidfiles[e] # 0 => e \in left)
      BY <1>1, <1>3 DEF Good, Unstarted, Named
    <3>3. backend # "docker" => pidfiles[e] = 0
      BY DEF ExecInv
    <3>4. backend = "docker" => r.proc = "boot"
      BY <1>1 DEF ExecRecord, Docker
    <3> QED
      BY <2>1, <3>1, <3>2, <3>3, <3>4 DEF Named
  <2>3. Counted(r)
    BY <1>1 DEF ExecRecord, Good, Counted
  <2>4. Stopped(r, backend) /\ Killed(r) /\ Told(r, backend)
    BY <1>1, <1>3 DEF ExecRecord, ExecInv, Good, Stopped, Killed, Told, Unstarted, Over, Docker
  <2> QED
    BY <2>2, <2>3, <2>4 DEF Good
<1>6. x' = [x EXCEPT ![e] = r]
  BY DEF start, Set
<1>6a. Later(q, r)
  BY <1>1, <1>3 DEF Later, ExecRecord, Good, Unstarted
<1> HIDE DEF r
<1>7. x' \in [Execs -> ExecRecord] /\ x'[e] = r /\ \A f \in Execs : f # e => x'[f] = x[f]
  BY <1>4, <1>6 DEF ExecInv
<1>8. ASSUME NEW f \in Execs
      PROVE  Good(x'[f], f, pidfiles'[f], execSeq', backend', left')
  <2>1. CASE f = e
    BY <1>2, <1>5, <1>7, <2>1
  <2>2. CASE f # e
    <3>1. Good(x[f], f, pidfiles[f], execSeq, backend, left) /\ f \in Nat
      BY ExecConstants DEF ExecInv
    <3>2. f <= execSeq => f <= execSeq'
      BY <3>1, <1>1, <1>2
    <3> QED
      BY <1>2, <1>7, <2>2, <3>1, <3>2 DEF Good, Named
  <2> QED
    BY <2>1, <2>2
<1>9. \A g \in Execs : Struck(g)'
  BY <1>2, <1>4, <1>6, <1>6a, RecordsStruck DEF Set
<1> QED
  BY <1>1, <1>2, <1>7, <1>8, <1>9 DEF ExecInv

LEMMA writePidKeeps ==
  ASSUME ExecInv, NEW e \in Execs, writePid(e)
  PROVE  ExecInv'
<1> DEFINE q == x[e]
           r == [x[e] EXCEPT !.proc = "run"]
<1>1. q \in ExecRecord /\ Good(q, e, pidfiles[e], execSeq, backend, left) /\ e \in Nat
  BY ExecConstants DEF ExecInv
<1>2. Docker /\ q.call # "idle" /\ q.proc = "boot" /\ q.seq = e
  BY <1>1 DEF writePid, Good, Named
<1>3. /\ x' = [x EXCEPT ![e] = r] /\ pidfiles' = [pidfiles EXCEPT ![e] = e]
      /\ backend' = backend /\ execSeq' = execSeq /\ left' = left
  BY <1>2 DEF writePid, Set
<1>4. r \in ExecRecord
  BY <1>1 DEF ExecRecord
<1>5. Good(r, e, e, execSeq, backend, left) /\ Later(q, r)
  BY <1>1, <1>2 DEF ExecRecord, Good, Unstarted, Named, Counted, Stopped, Killed, Told, Over, Docker, Later
<1> HIDE DEF r
<1>6. /\ x' \in [Execs -> ExecRecord] /\ x'[e] = r /\ \A f \in Execs : f # e => x'[f] = x[f]
      /\ pidfiles' \in [Execs -> Execs \cup {0}] /\ pidfiles'[e] = e
      /\ \A f \in Execs : f # e => pidfiles'[f] = pidfiles[f]
  BY <1>1, <1>3, <1>4 DEF ExecInv
<1>7. ASSUME NEW f \in Execs
      PROVE  Good(x'[f], f, pidfiles'[f], execSeq', backend', left')
  <2>1. CASE f = e
    BY <1>3, <1>5, <1>6, <2>1
  <2>2. CASE f # e
    BY <1>3, <1>6, <2>2 DEF ExecInv
  <2> QED
    BY <2>1, <2>2
<1>8. \A g \in Execs : Struck(g)'
  BY <1>3, <1>4, <1>5, RecordsStruck DEF Set
<1> QED
  BY <1>2, <1>3, <1>6, <1>7, <1>8 DEF ExecInv, Docker

LEMMA watchKeeps ==
  ASSUME ExecInv, NEW e \in Execs, watch(e)
  PROVE  ExecInv'
<1> DEFINE q == x[e]
           r1 == [x[e] EXCEPT !.watcher = "off", !.stream = "closed", !.kill = "sent"]
           r2 == [x[e] EXCEPT !.watcher = "off"]
<1>1. q \in ExecRecord /\ Good(q, e, pidfiles[e], execSeq, backend, left)
  BY DEF ExecInv
<1>2. Docker /\ q.call = "open" /\ q.watcher = "on" /\ Others
  BY DEF watch, Open
<1>3. r1 \in ExecRecord /\ r2 \in ExecRecord
  BY <1>1, ZenonT(60) DEF ExecRecord
<1>4. CASE q.ctx = "done" /\ Set(e, r1)
  <2>1. Good(r1, e, pidfiles[e], execSeq, backend, left)
    BY <1>1, <1>2, <1>4
    DEF ExecRecord, Good, Unstarted, Named, Counted, Stopped, Killed, Told, Over, Docker
  <2>2. Later(q, r1)
    BY <1>1, <1>2, <1>4 DEF Later, ExecRecord, Good, Stopped
  <2> HIDE DEF r1
  <2> QED
    BY <1>2, <1>3, <1>4, <2>1, <2>2, RecordStep
<1>5. CASE Set(e, r2)
  <2>1. Good(r2, e, pidfiles[e], execSeq, backend, left)
    BY <1>1, <1>2, <1>5
    DEF ExecRecord, Good, Unstarted, Named, Counted, Stopped, Killed, Told, Over, Docker
  <2>2. Later(q, r2)
    BY <1>1 DEF Later, ExecRecord
  <2> HIDE DEF r2
  <2> QED
    BY <1>2, <1>3, <1>5, <2>1, <2>2, RecordStep
<1> QED
  BY <1>4, <1>5 DEF watch

\* The kill finds a pid and the daemon runs it.
KillHits(e) ==
  LET n == x[e].seq
      t == pidfiles[n] IN
  /\ t # 0
  /\ x' = [[x EXCEPT ![t] = IF x[t].proc = "run"
                             THEN [x[t] EXCEPT !.proc = "killed", !.code = 1] ELSE x[t]]
              EXCEPT ![e].kill = IF x[e].proc = "boot" THEN "stray" ELSE "ran"]
  /\ pidfiles' = [pidfiles EXCEPT ![n] = 0]

\* What such a kill does to the process it hits, and to the record of its call.
LEMMA HitStep ==
  ASSUME ExecInv, NEW e \in Execs, killExecTree(e), KillHits(e)
  PROVE  LET t == pidfiles[e]
             k == IF x[e].proc = "boot" THEN "stray" ELSE "ran" IN
         /\ t \in Execs /\ (t # e => x[e].proc = "boot" /\ e \in left)
         /\ \E w \in ExecRecord :
              /\ Good(w, t, pidfiles[t], execSeq, backend, left)
              /\ x[t].proc # "run" => w = x[t]
              /\ x[t].proc = "run" => w.proc = "killed"
              /\ w.ctx = x[t].ctx /\ w.kill = x[t].kill
              /\ [x EXCEPT ![t] = w] \in [Execs -> ExecRecord]
              /\ x' = [[x EXCEPT ![t] = w] EXCEPT ![e].kill = k]
         /\ pidfiles' \in [Execs -> Execs \cup {0}] /\ pidfiles'[e] = 0
         /\ \A f \in Execs : f # e => pidfiles'[f] = pidfiles[f]
         /\ x[e].kill = "sent" /\ x[e].ctx = "done" /\ backend = "docker"
         /\ backend' = backend /\ execSeq' = execSeq /\ left' = left
<1> DEFINE q == x[e]
           t == pidfiles[e]
           v == [x[t] EXCEPT !.proc = "killed", !.code = 1]
           w == IF x[t].proc = "run" THEN v ELSE x[t]
           k == IF x[e].proc = "boot" THEN "stray" ELSE "ran"
<1>1. q \in ExecRecord /\ Good(q, e, pidfiles[e], execSeq, backend, left) /\ 0 \notin Execs
  BY ExecConstants DEF ExecInv
<1>2. Docker /\ q.kill = "sent" /\ q.call # "idle" /\ q.seq = e /\ q.ctx = "done"
  BY <1>1 DEF killExecTree, Good, Unstarted, Named, Killed
<1>3. backend' = backend /\ execSeq' = execSeq /\ left' = left /\ backend = "docker"
  BY <1>2 DEF killExecTree, Docker
<1>4. pidfiles[e] # 0 /\ pidfiles' = [pidfiles EXCEPT ![e] = 0]
      /\ x' = [[x EXCEPT ![t] = w] EXCEPT ![e].kill = k]
  BY <1>2 DEF KillHits
<1>5. t \in Execs /\ (t # e => q.proc = "boot" /\ e \in left)
  BY <1>1, <1>2, <1>4 DEF Good, Named, ExecInv
<1>6. x[t] \in ExecRecord /\ Good(x[t], t, pidfiles[t], execSeq, backend, left)
  BY <1>5 DEF ExecInv
<1>7. v \in ExecRecord /\ v.proc = "killed" /\ v.ctx = x[t].ctx /\ v.kill = x[t].kill
  BY <1>6 DEF ExecRecord
<1>8. x[t].proc = "run" => Good(v, t, pidfiles[t], execSeq, backend, left)
  <2> SUFFICES ASSUME x[t].proc = "run" PROVE Good(v, t, pidfiles[t], execSeq, backend, left)
    OBVIOUS
  <2>1. Unstarted(v) /\ Named(v, t, pidfiles[t], execSeq, left) /\ Counted(v) /\ Killed(v)
    BY <1>6 DEF ExecRecord, Good, Unstarted, Named, Counted, Killed, Over
  <2>2. Stopped(v, backend)
    BY <1>6 DEF ExecRecord, Good, Stopped, Over
  <2>3. Told(v, backend)
    BY <1>6 DEF ExecRecord, Good, Told, Over
  <2> QED
    BY <2>1, <2>2, <2>3 DEF Good
<1> HIDE DEF v
<1>9. /\ w \in ExecRecord /\ Good(w, t, pidfiles[t], execSeq, backend, left)
      /\ (x[t].proc # "run" => w = x[t]) /\ (x[t].proc = "run" => w.proc = "killed")
      /\ w.ctx = x[t].ctx /\ w.kill = x[t].kill
  BY <1>6, <1>7, <1>8
<1> HIDE DEF w
<1>10. [x EXCEPT ![t] = w] \in [Execs -> ExecRecord]
  BY <1>5, <1>9 DEF ExecInv
<1>11. /\ pidfiles' \in [Execs -> Execs \cup {0}] /\ pidfiles'[e] = 0
       /\ \A f \in Execs : f # e => pidfiles'[f] = pidfiles[f]
  BY <1>4 DEF ExecInv
<1> HIDE DEF t, k
<1>12. \E u \in ExecRecord :
              /\ Good(u, t, pidfiles[t], execSeq, backend, left)
              /\ x[t].proc # "run" => u = x[t]
              /\ x[t].proc = "run" => u.proc = "killed"
              /\ u.ctx = x[t].ctx /\ u.kill = x[t].kill
              /\ [x EXCEPT ![t] = u] \in [Execs -> ExecRecord]
              /\ x' = [[x EXCEPT ![t] = u] EXCEPT ![e].kill = k]
  BY <1>4, <1>9, <1>10
<1> QED
  BY <1>2, <1>3, <1>5, <1>11, <1>12 DEF t, k

\* The pid file that killExecTree reads names its own exec once the command has
\* written it; before, it is one left behind, and the kill is on record as a stray.
LEMMA KillHitsKeeps ==
  ASSUME ExecInv, NEW e \in Execs, killExecTree(e), KillHits(e)
  PROVE  ExecInv'
<1>0. PICK t \in Execs, k \in {"stray", "ran"} :
         t = pidfiles[e] /\ k = (IF x[e].proc = "boot" THEN "stray" ELSE "ran")
  BY HitStep
<1>1. PICK w \in ExecRecord :
              /\ Good(w, t, pidfiles[t], execSeq, backend, left)
              /\ x[t].proc # "run" => w = x[t]
              /\ x[t].proc = "run" => w.proc = "killed"
              /\ w.ctx = x[t].ctx /\ w.kill = x[t].kill
              /\ [x EXCEPT ![t] = w] \in [Execs -> ExecRecord]
              /\ x' = [[x EXCEPT ![t] = w] EXCEPT ![e].kill = k]
  BY <1>0, HitStep
<1>2. /\ t # e => x[e].proc = "boot" /\ e \in left
      /\ pidfiles' \in [Execs -> Execs \cup {0}] /\ pidfiles'[e] = 0
      /\ \A f \in Execs : f # e => pidfiles'[f] = pidfiles[f]
      /\ x[e].kill = "sent" /\ x[e].ctx = "done" /\ backend = "docker"
      /\ backend' = backend /\ execSeq' = execSeq /\ left' = left
  BY <1>0, HitStep
<1>3. PICK y \in [Execs -> ExecRecord] : y = [x EXCEPT ![t] = w]
  BY <1>1
<1>4. y[t] = w /\ \A f \in Execs : f # t => y[f] = x[f]
  BY <1>3 DEF ExecInv
<1>5. x' = [y EXCEPT ![e].kill = k]
  BY <1>1, <1>3
<1> DEFINE r == [y[e] EXCEPT !.kill = k]
<1>6. y[e] \in ExecRecord /\ Good(y[e], e, pidfiles[e], execSeq, backend, left)
  BY <1>1, <1>4 DEF ExecInv
<1>7. y[e].kill = "sent" /\ y[e].ctx = "done" /\ (k = "ran" => Over(y[e]))
  <2>1. y[e].kill = "sent" /\ y[e].ctx = "done"
    BY <1>1, <1>2, <1>4
  <2>2. ASSUME k = "ran" PROVE Over(y[e])
    <3>1. t = e /\ x[e].proc # "boot"
      BY <1>0, <1>2, <2>2
    <3>2. x[e].proc \in {"boot", "run", "exited", "killed"}
      BY DEF ExecInv, ExecRecord
    <3> QED
      BY <1>1, <1>4, <3>1, <3>2 DEF Over
  <2> QED
    BY <2>1, <2>2
<1>8. r \in ExecRecord /\ r.kill = k /\ r.ctx = "done" /\ r.proc = y[e].proc
  BY <1>6, <1>7 DEF ExecRecord
<1>9. Good(r, e, 0, execSeq, backend, left)
  BY <1>2, <1>6, <1>7
  DEF ExecRecord, Good, Unstarted, Named, Counted, Stopped, Killed, Told, Over
<1> HIDE DEF r
<1>10. x' \in [Execs -> ExecRecord] /\ x'[e] = r /\ \A f \in Execs : f # e => x'[f] = y[f]
  BY <1>5, <1>8 DEF r
<1>11. ASSUME NEW f \in Execs
       PROVE  Good(x'[f], f, pidfiles'[f], execSeq', backend', left')
  <2>1. CASE f = e
    BY <1>2, <1>9, <1>10, <2>1
  <2>2. CASE f # e /\ f = t
    BY <1>1, <1>2, <1>4, <1>10, <2>2
  <2>3. CASE f # e /\ f # t
    BY <1>2, <1>4, <1>10, <2>3 DEF ExecInv
  <2> QED
    BY <2>1, <2>2, <2>3
<1>12. ASSUME NEW g \in Execs PROVE Struck(g)'
  <2>1. CASE g = e
    BY <1>8, <1>10, <2>1 DEF Struck
  <2>2. CASE g # e /\ g = t
    <3>1. k = "stray" /\ e \in left
      BY <1>0, <1>2, <2>2
    <3> QED
      BY <1>2, <1>8, <1>10, <2>2, <3>1 DEF Struck
  <2>3. CASE g # e /\ g # t
    <3>1. x'[g] = x[g] /\ Struck(g)
      BY <1>4, <1>10, <2>3 DEF ExecInv
    <3>2. ASSUME NEW f \in left \ {g}, x[f].kill = "stray" PROVE x'[f].kill = "stray"
      <4>1. f \in Execs /\ f # e
        BY <1>2, <3>2 DEF ExecInv
      <4>2. x'[f] = y[f]
        BY <1>10, <4>1
      <4> QED
        BY <1>1, <1>4, <3>2, <4>1, <4>2
    <3> QED
      BY <1>2, <3>1, <3>2 DEF Struck
  <2> QED
    BY <2>1, <2>2, <2>3
<1> QED
  BY <1>2, <1>10, <1>11, <1>12 DEF ExecInv

LEMMA killExecTreeKeeps ==
  ASSUME ExecInv, NEW e \in Execs, killExecTree(e)
  PROVE  ExecInv'
<1> DEFINE q == x[e]
           t == pidfiles[q.seq]
           r == [x[e] EXCEPT !.kill = IF t = 0 THEN "early" ELSE "refused"]
<1>1. q \in ExecRecord /\ Good(q, e, pidfiles[e], execSeq, backend, left) /\ q.kill = "sent" /\ Docker
  BY DEF ExecInv, killExecTree
<1>2. CASE UNCHANGED pidfiles /\ x' = [x EXCEPT ![e].kill = IF t = 0 THEN "early" ELSE "refused"]
  <2>1. Set(e, r) /\ Others
    BY <1>1, <1>2 DEF killExecTree, Set, Others, ExecRecord, ExecInv
  <2>2. r \in ExecRecord
    BY <1>1, ZenonT(60) DEF ExecRecord
  <2>3. Good(r, e, pidfiles[e], execSeq, backend, left)
    BY <1>1
    DEF ExecRecord, Good, Unstarted, Named, Counted, Stopped, Killed, Told, Over, Docker
  <2>4. Later(q, r)
    BY <1>1 DEF Later, ExecRecord
  <2> HIDE DEF r
  <2> QED
    BY <2>1, <2>2, <2>3, <2>4, RecordStep
<1>3. CASE KillHits(e)
  BY <1>3, KillHitsKeeps
<1> QED
  BY <1>2, <1>3 DEF killExecTree, KillHits

\* The daemon ends the stream under the reader.
LEMMA streamBreaksKeeps ==
  ASSUME ExecInv, NEW e \in Execs, streamBreaks(e)
  PROVE  ExecInv'
<1> PICK s \in {"cut", "failed"} : Set(e, [x[e] EXCEPT !.stream = s, !.pipe = 0])
  BY DEF streamBreaks
<1> DEFINE q == x[e]
           r == [x[e] EXCEPT !.stream = s, !.pipe = 0]
<1>1. q \in ExecRecord /\ Good(q, e, pidfiles[e], execSeq, backend, left)
  BY DEF ExecInv
<1>2. Docker /\ q.call = "open" /\ q.reader = "on" /\ q.stream = "open" /\ Others
  BY DEF streamBreaks, Open
<1>3. Set(e, r)
  OBVIOUS
<1>4. r \in ExecRecord
  BY <1>1 DEF ExecRecord
<1>5. Good(r, e, pidfiles[e], execSeq, backend, left) /\ Later(q, r)
  BY <1>1, <1>2 DEF ExecRecord, Good, Unstarted, Named, Counted, Stopped, Killed, Told, Over, Docker, Later
<1> HIDE DEF r
<1> QED
  BY <1>2, <1>3, <1>4, <1>5, RecordStep

-----------------------------------------------------------------------------
(* Exec: the theorem.                                                      *)

LEMMA InitExecInv == EInit => ExecInv
<1> SUFFICES ASSUME EInit
             PROVE  ExecInv
  OBVIOUS
<1>1. NewExec \in ExecRecord
  BY ExecConstants DEF NewExec, NoResult, ExecRecord
<1>2. /\ backend \in {"docker", "native"} /\ execSeq = 0 /\ pidfiles \in [Execs -> Execs \cup {0}]
      /\ left = {n \in Execs : pidfiles[n] # 0}
      /\ x \in [Execs -> ExecRecord] /\ \A e \in Execs : x[e] = NewExec
  BY <1>1, ExecConstants DEF EInit, Docker
<1>4. backend = "native" => \A n \in Execs : pidfiles[n] = 0
  BY DEF EInit, Docker
<1>3. ASSUME NEW e \in Execs
      PROVE  Good(NewExec, e, pidfiles[e], 0, backend, left) /\ Struck(e)
  BY <1>2 DEF NewExec, NoResult, Good, Unstarted, Named, Counted, Stopped, Killed, Told, Over, Struck
<1> QED
  BY <1>2, <1>3, <1>4 DEF ExecInv

LEMMA NextExecInv == ExecInv /\ [ENext]_evars => ExecInv'
<1> SUFFICES ASSUME ExecInv, [ENext]_evars
             PROVE  ExecInv'
  OBVIOUS
<1>1. ASSUME NEW e \in Execs, start(e) \/ Command(e) \/ streamBreaks(e) \/ cancel(e) \/ consume(e)
      PROVE  ExecInv'
  BY <1>1, startKeeps, writePidKeeps, writeKeeps, closeOutputKeeps, exitKeeps, cancelKeeps,
     consumeKeeps, streamBreaksKeeps
  DEF Command
<1>2. ASSUME NEW e \in Execs, Ours(e) \/ killExecTree(e)
      PROVE  ExecInv'
  BY <1>2, readKeeps, readEndsKeeps, watchKeeps, finishDockerKeeps, killGroupKeeps, waitKeeps,
     finishNativeKeeps, killExecTreeKeeps
  DEF Ours
<1>3. CASE UNCHANGED evars
  BY <1>3 DEF evars, ExecInv, Struck
<1> QED
  BY <1>1, <1>2, <1>3 DEF ENext

LEMMA ExecInvGivesSafe == ExecInv => ExecSafe
<1> SUFFICES ASSUME ExecInv
             PROVE  ExecSafe
  OBVIOUS
<1>1. ASSUME NEW e \in Execs
      PROVE  x[e] \in ExecRecord /\ Good(x[e], e, pidfiles[e], execSeq, backend, left)
  BY DEF ExecInv
<1>2. ETypeOK
  BY <1>1 DEF ETypeOK, ExecRecord
<1>3. ResultEndsStream
  BY <1>1 DEF ResultEndsStream, Good, Told, Counted
<1>4. HonestResult
  <2>1. ASSUME NEW e \in Execs, x[e].call = "result", x[e].res.err = "nil"
        PROVE  /\ x[e].ctx = "live"
               /\ \/ x[e].res.code = x[e].code
                  \/ Docker /\ x[e].res.code = 0 /\ (x[e].stream = "cut" \/ ~x[e].keeps)
               /\ Docker /\ x[e].stream # "cut" => x[e].res.stdout = x[e].wrote
    <3>1. /\ x[e].ctx = "live"
          /\ \/ x[e].res.code = x[e].code
             \/ Docker /\ x[e].res.code = 0 /\ (x[e].stream = "cut" \/ ~x[e].keeps)
      BY <1>1, <2>1 DEF Good, Told, Docker
    <3>2. ASSUME Docker, x[e].stream # "cut"
          PROVE  x[e].res.stdout = x[e].wrote
      <4>1. x[e].stream = "open" /\ x[e].pipe = 0 /\ x[e].res.stdout = x[e].acc
        BY <1>1, <2>1, <3>2 DEF Good, Told, Docker
      <4>2. x[e].wrote = 0 + x[e].acc /\ x[e].acc \in Nat
        BY <1>1, <4>1 DEF Good, Counted, ExecRecord
      <4> QED
        BY <4>1, <4>2
    <3> QED
      BY <3>1, <3>2
  <2> QED
    BY <2>1 DEF HonestResult
<1>5. KillsOwn
  BY <1>1 DEF KillsOwn, ExecInv, Struck
<1>6. CancelKills
  BY <1>1 DEF CancelKills, Good, Stopped, Killed, Over, Ended, Docker, ExecRecord
<1> QED
  BY <1>2, <1>3, <1>4, <1>5, <1>6 DEF ExecSafe

(***************************************************************************)
(* Backend.Exec, docker and native, for any number of commands at once in  *)
(* a container, any amount of output, any channel capacity, any number of  *)
(* streams that the daemon drops and any pid files a container is restored *)
(* with: the result is the end of the stream and its Stdout is what the    *)
(* chunks carried; without an error it tells of a step that was not        *)
(* cancelled, with the command's own exit code, but for the 0 of a docker  *)
(* command that still ran; a cancellation kills its own command, unless    *)
(* the kill came too early or was refused, and another only through a pid  *)
(* file that was left in the container's snapshot and not yet rewritten.   *)
(***************************************************************************)
THEOREM ExecIsSafe == ESpec => []ExecSafe
<1>1. ExecInv => ExecSafe
  BY ExecInvGivesSafe
<1> QED
  BY <1>1, InitExecInv, NextExecInv, PTL DEF ESpec

-----------------------------------------------------------------------------
(* Native: the inductive invariant.                                        *)

Width == Cardinality(NPaths)
Dirs == [NPaths -> {"file", "link", Nothing}]
Entry == [path : Nat, body : {"file", "link"}]
Archive == [entries : Seq(Entry), was : Dirs, clean : BOOLEAN]
Call == [kind : {"none", "restore", "tree", "snapshot"}, at : Nat, ref : Nat, acc : Seq(Entry),
         clean : BOOLEAN, was : Dirs]

\* the entries are what the directory f holds at the first n paths
Lists(acc, f, n) ==
  /\ \A i \in 1 .. Len(acc) : acc[i].path \in 1 .. n /\ acc[i].body = f[acc[i].path]
  /\ \A p \in 1 .. n : f[p] # Nothing => \E i \in 1 .. Len(acc) : acc[i].path = p

NTyped ==
  /\ dir = Absent \/ dir \in Dirs
  /\ live \in BOOLEAN
  /\ call \in Call
  /\ archives \in Seq(Archive)
  /\ snapRef \in 0 .. Len(archives)
  /\ errors \in 0 .. MaxErrors

ArchivesComplete ==
  \A r \in 1 .. Len(archives) :
    archives[r].clean => Lists(archives[r].entries, archives[r].was, Width)

Working ==
  /\ live => dir \in Dirs
  /\ call.kind \in {"tree", "snapshot"} => live
  /\ call.kind = "restore" => ~live

Snapshotting ==
  call.kind = "snapshot" =>
    /\ call.at <= Width
    /\ call.clean => dir = call.was /\ Lists(call.acc, call.was, call.at)

Restoring ==
  call.kind = "restore" =>
    /\ dir \in Dirs
    /\ call.ref \in 1 .. Len(archives)
    /\ call.at <= Len(archives[call.ref].entries)
    /\ archives[call.ref].clean =>
         /\ \A p \in NPaths : dir[p] # Nothing => dir[p] = archives[call.ref].was[p]
         /\ \A i \in 1 .. call.at :
              LET p == archives[call.ref].entries[i].path IN dir[p] = archives[call.ref].was[p]

NInv == NTyped /\ ArchivesComplete /\ Working /\ Snapshotting /\ Restoring

-----------------------------------------------------------------------------
(* Native: the steps.                                                      *)

LEMMA PathFacts ==
  /\ Width \in Nat /\ Width # 0
  /\ NPaths = 1 .. Width
  /\ 1 \in NPaths
  /\ Empty \in Dirs
  /\ Absent \notin Dirs
<1>1. Width \in Nat /\ Width # 0 /\ NPaths = 1 .. Width
  BY NativeConstants DEF Width
<1>2. 1 \in NPaths
  BY <1>1
<1>3. Empty \in Dirs
  BY DEF Empty, Dirs
<1>4. Absent[1] = "absent"
  BY <1>2 DEF Absent
<1>5. Absent \notin Dirs
  BY <1>2, <1>4 DEF Dirs, Nothing
<1> QED
  BY <1>1, <1>2, <1>3, <1>5

\* a call that begins: nothing done yet
LEMMA QuietFacts ==
  /\ Quiet \in Call
  /\ Quiet.kind = "none" /\ Quiet.at = 0 /\ Quiet.acc = <<>>
  /\ \A r \in Nat : [Quiet EXCEPT !.kind = "restore", !.ref = r] \in Call
  /\ \A a \in Seq(Entry) : [Quiet EXCEPT !.kind = "tree", !.acc = a] \in Call
  /\ \A w \in Dirs : [Quiet EXCEPT !.kind = "snapshot", !.was = w] \in Call
<1>1. Empty \in Dirs /\ <<>> \in Seq(Entry) /\ 0 \in Nat
  BY PathFacts
<1>2. Quiet \in Call
  BY <1>1 DEF Quiet, Call
<1>3. Quiet.kind = "none" /\ Quiet.at = 0 /\ Quiet.acc = <<>>
  BY DEF Quiet
<1> HIDE DEF Quiet
<1> QED
  BY <1>2, <1>3 DEF Call

\* a step that ends the call, or leaves it, and leaves the archives alone
LEMMA NoCallKeeps ==
  ASSUME NInv, call' = Quiet, archives' = archives, snapRef' = snapRef,
         errors' = errors \/ (MayErr /\ Erring), live' \in BOOLEAN,
         dir' = Absent \/ dir' \in Dirs, live' => dir' \in Dirs
  PROVE  NInv'
<1>1. errors' \in 0 .. MaxErrors
  BY NativeConstants DEF NInv, NTyped, MayErr, Erring
<1>2. NTyped'
  BY <1>1, QuietFacts DEF NInv, NTyped
<1>3. ArchivesComplete'
  BY DEF NInv, ArchivesComplete
<1>4. Working' /\ Snapshotting' /\ Restoring'
  BY QuietFacts DEF Working, Snapshotting, Restoring
<1> QED
  BY <1>2, <1>3, <1>4 DEF NInv

LEMMA nCreateKeeps ==
  ASSUME NInv, nCreate
  PROVE  NInv'
<1>1. call' = Quiet /\ archives' = archives /\ snapRef' = snapRef /\ errors' = errors /\ live' = TRUE
  BY DEF nCreate, Same
<1>2. dir' \in Dirs
  BY PathFacts DEF nCreate, Exists, NInv, NTyped
<1> QED
  BY <1>1, <1>2, NoCallKeeps

LEMMA restoreBeginKeeps ==
  ASSUME NInv, restoreBegin
  PROVE  NInv'
<1>1. /\ archives' = archives /\ snapRef' = snapRef /\ errors' = errors /\ live' = live /\ ~live
      /\ dir' = Empty /\ call' = [Quiet EXCEPT !.kind = "restore", !.ref = snapRef]
      /\ snapRef # 0
  BY DEF restoreBegin, Same
<1>2. snapRef \in 1 .. Len(archives) /\ snapRef \in Nat /\ archives \in Seq(Archive)
  BY <1>1 DEF NInv, NTyped
<1>3. call' \in Call /\ call'.kind = "restore" /\ call'.at = 0 /\ call'.ref = snapRef
  <2>1. call' \in Call
    BY <1>1, <1>2, QuietFacts
  <2>2. call'.kind = "restore" /\ call'.at = 0 /\ call'.ref = snapRef
    BY <1>1 DEF Quiet
  <2> QED
    BY <2>1, <2>2
<1>4. NTyped'
  BY <1>1, <1>3, PathFacts DEF NInv, NTyped
<1>5. ArchivesComplete'
  BY <1>1 DEF NInv, ArchivesComplete
<1>6. Working' /\ Snapshotting'
  BY <1>1, <1>3 DEF Working, Snapshotting
<1>7. Restoring'
  <2>1. \A p \in NPaths : dir'[p] = Nothing
    BY <1>1 DEF Empty
  <2>2. archives[snapRef] \in Archive
    BY <1>2
  <2>3. 0 <= Len(archives[snapRef].entries)
    BY <2>2 DEF Archive
  <2>4. 1 .. 0 = {}
    OBVIOUS
  <2>5. dir' \in Dirs
    BY <1>1, PathFacts
  <2> QED
    BY <1>1, <1>2, <1>3, <2>1, <2>3, <2>4, <2>5 DEF Restoring
<1> QED
  BY <1>4, <1>5, <1>6, <1>7 DEF NInv

LEMMA ExecCallSteps ==
  ASSUME NEW c \in Call, NEW a \in Seq(Entry)
  PROVE  /\ [c EXCEPT !.at = @ + 1] \in Call
         /\ [c EXCEPT !.at = @ + 1, !.acc = a] \in Call
         /\ [c EXCEPT !.clean = FALSE] \in Call
<1>1. c.at + 1 \in Nat
  BY DEF Call
<1> QED
  BY <1>1 DEF Call

LEMMA extractIntoKeeps ==
  ASSUME NInv, extractInto
  PROVE  NInv'
<1> DEFINE es == archives[call.ref].entries
<1>1. archives' = archives /\ snapRef' = snapRef /\ call.kind = "restore"
  BY DEF extractInto, Same, Doing
<1>2. /\ dir \in Dirs /\ call.ref \in 1 .. Len(archives) /\ call.at <= Len(es) /\ call \in Call
      /\ archives[call.ref] \in Archive
  BY <1>1 DEF NInv, NTyped, Restoring
<1>3. es \in Seq(Entry) /\ call.at \in Nat
  BY <1>2 DEF Archive, Call
<1>4. CASE /\ call.at < Len(es)
           /\ dir' = [dir EXCEPT ![es[call.at + 1].path] = es[call.at + 1].body]
           /\ call' = [call EXCEPT !.at = @ + 1]
           /\ UNCHANGED <<live, errors>>
  <2> DEFINE n == call.at + 1
  <2>1. n \in 1 .. Len(es) /\ n \in Nat /\ n <= Len(es)
    BY <1>3, <1>4
  <2>2. es[n] \in Entry
    BY <2>1, <1>3
  <2>3. es[n].path \in Nat /\ es[n].body \in {"file", "link"} /\ es[n].body # Nothing
    BY <2>2 DEF Entry, Nothing
  <2>4. dir' \in Dirs
    BY <1>2, <1>4, <2>3 DEF Dirs
  <2>5. call' \in Call /\ call'.kind = "restore" /\ call'.at = n /\ call'.ref = call.ref
    BY <1>1, <1>2, <1>3, <1>4, ExecCallSteps DEF Call
  <2>6. NTyped'
    BY <1>1, <1>4, <2>4, <2>5 DEF NInv, NTyped
  <2>7. ArchivesComplete' /\ Working' /\ Snapshotting'
    BY <1>1, <1>4, <2>4, <2>5 DEF NInv, ArchivesComplete, Working, Snapshotting
  <2>8. ASSUME archives[call.ref].clean
        PROVE  /\ \A p \in NPaths : dir'[p] # Nothing => dir'[p] = archives[call.ref].was[p]
               /\ \A i \in 1 .. n : dir'[es[i].path] = archives[call.ref].was[es[i].path]
    <3> DEFINE w == archives[call.ref].was
    <3>1. Lists(es, w, Width)
      BY <1>2, <2>8 DEF NInv, ArchivesComplete
    <3>2. \A i \in 1 .. Len(es) : es[i].path \in NPaths /\ es[i].body = w[es[i].path]
      BY <3>1, PathFacts DEF Lists
    <3>3. /\ \A p \in NPaths : dir[p] # Nothing => dir[p] = w[p]
          /\ \A i \in 1 .. call.at : dir[es[i].path] = w[es[i].path]
      BY <1>1, <2>8 DEF NInv, Restoring
    <3>4. dir'[es[n].path] = w[es[n].path]
      BY <1>2, <1>4, <2>1, <3>2 DEF Dirs
    <3>5. \A p \in NPaths : p # es[n].path => dir'[p] = dir[p]
      BY <1>2, <1>4 DEF Dirs
    <3>6. \A p \in NPaths : dir'[p] # Nothing => dir'[p] = w[p]
      BY <3>3, <3>4, <3>5
    <3>7. ASSUME NEW i \in 1 .. n
          PROVE  dir'[es[i].path] = w[es[i].path]
      <4>1. CASE i = n
        BY <4>1, <3>4
      <4>2. CASE i # n
        <5>1. i \in 1 .. call.at /\ i \in 1 .. Len(es)
          BY <4>2, <2>1, <1>2, <1>3
        <5>2. dir[es[i].path] = w[es[i].path] /\ es[i].path \in NPaths
          BY <5>1, <3>2, <3>3
        <5>3. CASE es[i].path = es[n].path
          BY <5>3, <3>4
        <5>4. CASE es[i].path # es[n].path
          BY <5>2, <5>4, <3>5
        <5> QED
          BY <5>3, <5>4
      <4> QED
        BY <4>1, <4>2
    <3> QED
      BY <3>6, <3>7
  <2> HIDE DEF n
  <2>9. Restoring'
    BY <1>1, <1>2, <2>1, <2>4, <2>5, <2>8 DEF Restoring
  <2> QED
    BY <2>6, <2>7, <2>9 DEF NInv
<1>5. CASE live' = TRUE /\ call' = Quiet /\ UNCHANGED <<dir, errors>>
  BY <1>1, <1>2, <1>5, NoCallKeeps
<1>6. CASE MayErr /\ Erring /\ dir' = Absent /\ call' = Quiet /\ UNCHANGED live
  <2>1. live' \in BOOLEAN
    BY <1>6 DEF NInv, NTyped
  <2>2. ~live
    BY <1>1 DEF NInv, Working
  <2> QED
    BY <1>1, <1>6, <2>1, <2>2, NoCallKeeps
<1> QED
  BY <1>4, <1>5, <1>6 DEF extractInto

LEMMA nWriteKeeps ==
  ASSUME NInv, NEW p \in NPaths, NEW v \in {"file", "link", Nothing}, nWrite(p, v)
  PROVE  NInv'
<1>1. /\ archives' = archives /\ snapRef' = snapRef /\ errors' = errors /\ live' = live /\ live
      /\ call.kind \in {"none", "snapshot"} /\ dir' = [dir EXCEPT ![p] = v]
      /\ call' = IF call.kind = "snapshot" THEN [call EXCEPT !.clean = FALSE] ELSE call
  BY DEF nWrite, Same
<1>2. dir \in Dirs /\ dir' \in Dirs /\ call \in Call
  BY <1>1 DEF NInv, NTyped, Working, Dirs
<1>3. call' \in Call /\ call'.kind = call.kind /\ call'.at = call.at
      /\ (call.kind = "snapshot" => call'.clean = FALSE)
  <2>1. [call EXCEPT !.clean = FALSE] \in Call
    BY <1>2 DEF Call
  <2> QED
    BY <1>1, <1>2, <2>1 DEF Call
<1>4. NTyped'
  BY <1>1, <1>2, <1>3 DEF NInv, NTyped
<1>5. ArchivesComplete' /\ Working' /\ Snapshotting' /\ Restoring'
  BY <1>1, <1>2, <1>3 DEF NInv, ArchivesComplete, Working, Snapshotting, Restoring
<1> QED
  BY <1>4, <1>5 DEF NInv

LEMMA TreesTyped == \A t \in Trees : t \in Seq(Entry)
<1>1. ASSUME NEW p \in NPaths, NEW v \in {"file", "link"}
      PROVE  <<[path |-> p, body |-> v]>> \in Seq(Entry)
  <2>1. p \in Nat
    BY PathFacts
  <2>2. [path |-> p, body |-> v] \in Entry
    BY <2>1 DEF Entry
  <2> QED
    BY <2>2
<1>2. <<[path |-> 1, body |-> "link"], [path |-> 2, body |-> "file"]>> \in Seq(Entry)
  <2>1. [path |-> 1, body |-> "link"] \in Entry /\ [path |-> 2, body |-> "file"] \in Entry
    BY DEF Entry
  <2> QED
    BY <2>1
<1> SUFFICES ASSUME NEW t \in Trees
             PROVE  t \in Seq(Entry)
  OBVIOUS
<1>3. \/ \E p \in NPaths, v \in {"file", "link"} : t = <<[path |-> p, body |-> v]>>
      \/ t = <<[path |-> 1, body |-> "link"], [path |-> 2, body |-> "file"]>>
  BY DEF Trees
<1> QED
  BY <1>1, <1>2, <1>3

LEMMA treeBeginKeeps ==
  ASSUME NInv, NEW t \in Trees, treeBegin(t)
  PROVE  NInv'
<1>1. /\ archives' = archives /\ snapRef' = snapRef /\ errors' = errors /\ live' = live /\ live
      /\ dir' = dir /\ call' = [Quiet EXCEPT !.kind = "tree", !.acc = t]
  BY DEF treeBegin, Same
<1>2. call' \in Call
  BY <1>1, TreesTyped, QuietFacts, PathFacts
<1>3. call'.kind = "tree"
  BY <1>1 DEF Quiet
<1>4. NTyped' /\ ArchivesComplete' /\ Working' /\ Snapshotting' /\ Restoring'
  BY <1>1, <1>2, <1>3 DEF NInv, NTyped, ArchivesComplete, Working, Snapshotting, Restoring
<1> QED
  BY <1>4 DEF NInv

LEMMA writeTreeAtKeeps ==
  ASSUME NInv, writeTreeAt
  PROVE  NInv'
<1> DEFINE e == call.acc[call.at + 1]
<1>1. archives' = archives /\ snapRef' = snapRef /\ call.kind = "tree" /\ live' = live
  BY DEF writeTreeAt, Same, Doing
<1>2. live /\ dir \in Dirs /\ call \in Call /\ live \in BOOLEAN
  BY <1>1 DEF NInv, NTyped, Working
<1>3. CASE call' = Quiet /\ dir' = dir /\ (errors' = errors \/ (MayErr /\ Erring))
  BY <1>1, <1>2, <1>3, NoCallKeeps
<1>4. CASE /\ call.at < Len(call.acc)
           /\ dir' = [dir EXCEPT ![e.path] = e.body]
           /\ call' = [call EXCEPT !.at = @ + 1]
           /\ UNCHANGED errors
  <2>1. call.acc \in Seq(Entry) /\ call.at \in Nat
    BY <1>2 DEF Call
  <2>2. e \in Entry
    BY <2>1, <1>4
  <2>3. dir' \in Dirs
    BY <2>2, <1>2, <1>4 DEF Dirs, Entry
  <2>4. call' \in Call /\ call'.kind = "tree"
    BY <1>1, <1>2, <1>4, ExecCallSteps DEF Call
  <2>5. NTyped' /\ ArchivesComplete' /\ Working' /\ Snapshotting' /\ Restoring'
    BY <1>1, <1>2, <1>4, <2>3, <2>4
    DEF NInv, NTyped, ArchivesComplete, Working, Snapshotting, Restoring
  <2> QED
    BY <2>5 DEF NInv
<1> QED
  BY <1>3, <1>4 DEF writeTreeAt

LEMMA nSnapshotBeginKeeps ==
  ASSUME NInv, nSnapshotBegin
  PROVE  NInv'
<1>1. /\ archives' = archives /\ snapRef' = snapRef /\ errors' = errors /\ live' = live /\ live
      /\ dir' = dir /\ call' = [Quiet EXCEPT !.kind = "snapshot", !.was = dir]
  BY DEF nSnapshotBegin, Same
<1>2. dir \in Dirs
  BY <1>1 DEF NInv, Working
<1>3. call' \in Call
  BY <1>1, <1>2, QuietFacts
<1>4. call'.kind = "snapshot" /\ call'.at = 0 /\ call'.acc = <<>> /\ call'.was = dir
  BY <1>1 DEF Quiet
<1>5. NTyped' /\ ArchivesComplete' /\ Working' /\ Restoring'
  BY <1>1, <1>2, <1>3, <1>4 DEF NInv, NTyped, ArchivesComplete, Working, Restoring
<1>6. Lists(<<>>, dir, 0) /\ 0 <= Width
  BY PathFacts DEF Lists
<1>7. Snapshotting'
  BY <1>1, <1>4, <1>6 DEF Snapshotting
<1> QED
  BY <1>5, <1>7 DEF NInv

\* one path further
LEMMA ListsStep ==
  ASSUME NEW acc \in Seq(Entry), NEW f \in Dirs, NEW n \in Nat, n < Width, Lists(acc, f, n)
  PROVE  /\ f[n + 1] = Nothing => Lists(acc, f, n + 1)
         /\ f[n + 1] # Nothing =>
              /\ Append(acc, [path |-> n + 1, body |-> f[n + 1]]) \in Seq(Entry)
              /\ Lists(Append(acc, [path |-> n + 1, body |-> f[n + 1]]), f, n + 1)
<1>1. n + 1 \in NPaths /\ n + 1 \in Nat /\ 1 .. (n + 1) = (1 .. n) \cup {n + 1}
  BY PathFacts
<1>2. ASSUME f[n + 1] = Nothing
      PROVE  Lists(acc, f, n + 1)
  BY <1>1, <1>2 DEF Lists
<1>3. ASSUME f[n + 1] # Nothing
      PROVE  /\ Append(acc, [path |-> n + 1, body |-> f[n + 1]]) \in Seq(Entry)
             /\ Lists(Append(acc, [path |-> n + 1, body |-> f[n + 1]]), f, n + 1)
  <2> DEFINE e == [path |-> n + 1, body |-> f[n + 1]]
             new == Append(acc, e)
  <2>1. e \in Entry /\ e.path = n + 1 /\ e.body = f[n + 1]
    BY <1>1, <1>3 DEF Entry, Dirs
  <2> HIDE DEF e
  <2>2. /\ new \in Seq(Entry) /\ Len(new) = Len(acc) + 1 /\ Len(acc) \in Nat
        /\ \A i \in 1 .. Len(acc) : new[i] = acc[i]
        /\ new[Len(acc) + 1] = e
    BY <2>1
  <2> HIDE DEF new
  <2>3. 1 .. Len(new) = (1 .. Len(acc)) \cup {Len(acc) + 1}
    BY <2>2
  <2>4. \A i \in 1 .. Len(new) : new[i].path \in 1 .. (n + 1) /\ new[i].body = f[new[i].path]
    BY <1>1, <2>1, <2>2, <2>3 DEF Lists
  <2>5. \A p \in 1 .. (n + 1) : f[p] # Nothing => \E i \in 1 .. Len(new) : new[i].path = p
    BY <1>1, <2>1, <2>2, <2>3, SMTT(30) DEF Lists
  <2>6. Lists(new, f, n + 1)
    BY <2>4, <2>5 DEF Lists
  <2> QED
    BY <2>2, <2>6 DEF new, e
<1> QED
  BY <1>2, <1>3

LEMMA nSnapshotWalkKeeps ==
  ASSUME NInv, nSnapshotWalk
  PROVE  NInv'
<1>1. call.kind = "snapshot" /\ dir' = dir /\ live' = live
  BY DEF nSnapshotWalk, Doing
<1>2. live /\ dir \in Dirs /\ call \in Call /\ call.at <= Width /\ live \in BOOLEAN
  BY <1>1 DEF NInv, NTyped, Working, Snapshotting
<1>3. call.acc \in Seq(Entry) /\ call.at \in Nat /\ call.was \in Dirs /\ call.clean \in BOOLEAN
  BY <1>2 DEF Call
<1>4. CASE call' = Quiet /\ UNCHANGED <<archives, snapRef>> /\ (errors' = errors \/ (MayErr /\ Erring))
  BY <1>1, <1>2, <1>4, NoCallKeeps
<1>5. ASSUME call.at < Width, UNCHANGED <<archives, snapRef, errors>>, NEW a \in Seq(Entry),
             call' = [call EXCEPT !.at = @ + 1, !.acc = a],
             call.clean => Lists(a, call.was, call.at + 1)
      PROVE  NInv'
  <2>1. call' \in Call
    BY <1>2, <1>5, ExecCallSteps
  <2>2. call'.kind = "snapshot" /\ call'.at = call.at + 1 /\ call'.acc = a /\ call'.clean = call.clean
        /\ call'.was = call.was
    BY <1>1, <1>2, <1>5 DEF Call
  <2>3. call.at + 1 <= Width
    BY <1>3, <1>5, PathFacts
  <2>4. NTyped' /\ ArchivesComplete' /\ Working' /\ Restoring'
    BY <1>1, <1>2, <1>5, <2>1, <2>2 DEF NInv, NTyped, ArchivesComplete, Working, Restoring
  <2>5. Snapshotting'
    BY <1>1, <1>5, <2>2, <2>3 DEF NInv, Snapshotting
  <2> QED
    BY <2>4, <2>5 DEF NInv
<1>6. CASE /\ call.at < Width
           /\ call' = [call EXCEPT !.at = @ + 1,
                    !.acc = IF dir[call.at + 1] = Nothing THEN @
                            ELSE Append(@, [path |-> call.at + 1, body |-> dir[call.at + 1]])]
           /\ UNCHANGED <<archives, snapRef, errors>>
  <2> DEFINE a == IF dir[call.at + 1] = Nothing THEN call.acc
                  ELSE Append(call.acc, [path |-> call.at + 1, body |-> dir[call.at + 1]])
  <2>1. call' = [call EXCEPT !.at = @ + 1, !.acc = a]
    BY <1>6
  <2>2. a \in Seq(Entry)
    <3>1. call.at + 1 \in NPaths /\ call.at + 1 \in Nat
      BY <1>3, <1>6, PathFacts
    <3>2. dir[call.at + 1] # Nothing => [path |-> call.at + 1, body |-> dir[call.at + 1]] \in Entry
      BY <3>1, <1>2 DEF Entry, Dirs
    <3> QED
      BY <3>2, <1>3
  <2>3. call.clean => Lists(a, call.was, call.at + 1)
    <3>1. SUFFICES ASSUME call.clean
                   PROVE  Lists(a, call.was, call.at + 1)
      OBVIOUS
    <3>2. dir = call.was /\ Lists(call.acc, call.was, call.at)
      BY <3>1, <1>1 DEF NInv, Snapshotting
    <3> QED
      BY <3>2, <1>3, <1>6, ListsStep
  <2> HIDE DEF a
  <2> QED
    BY <1>5, <1>6, <2>1, <2>2, <2>3
<1>7. CASE /\ call.at = Width
           /\ archives' = Append(archives, [entries |-> call.acc, was |-> call.was,
                                            clean |-> call.clean])
           /\ snapRef' = Len(archives) + 1 /\ call' = Quiet /\ UNCHANGED errors
  <2> DEFINE b == [entries |-> call.acc, was |-> call.was, clean |-> call.clean]
  <2>1. b \in Archive /\ (b.clean => Lists(b.entries, b.was, Width))
    BY <1>1, <1>3, <1>7 DEF NInv, Snapshotting, Archive
  <2>2. archives \in Seq(Archive) /\ archives' = Append(archives, b)
    BY <1>7 DEF NInv, NTyped
  <2> HIDE DEF b
  <2>3. /\ archives' \in Seq(Archive) /\ Len(archives') = Len(archives) + 1 /\ Len(archives) \in Nat
        /\ \A r \in 1 .. Len(archives) : archives'[r] = archives[r]
        /\ archives'[Len(archives) + 1] = b
    BY <2>1, <2>2
  <2>4. snapRef' \in 0 .. Len(archives')
    BY <2>3, <1>7
  <2>5. NTyped'
    BY <1>1, <1>2, <1>7, <2>3, <2>4, QuietFacts DEF NInv, NTyped
  <2>6. ArchivesComplete'
    <3> SUFFICES ASSUME NEW r \in 1 .. Len(archives'), archives'[r].clean
                 PROVE  Lists(archives'[r].entries, archives'[r].was, Width)
      BY DEF ArchivesComplete
    <3>1. CASE r = Len(archives) + 1
      BY <3>1, <2>1, <2>3
    <3>2. CASE r # Len(archives) + 1
      <4>1. r \in 1 .. Len(archives)
        BY <3>2, <2>3
      <4> QED
        BY <4>1, <2>3 DEF NInv, ArchivesComplete
    <3> QED
      BY <3>1, <3>2
  <2>7. Working' /\ Snapshotting' /\ Restoring'
    BY <1>1, <1>2, <1>7, QuietFacts DEF Working, Snapshotting, Restoring
  <2> QED
    BY <2>5, <2>6, <2>7 DEF NInv
<1> QED
  BY <1>4, <1>6, <1>7 DEF nSnapshotWalk, Width

LEMMA nDestroyKeeps ==
  ASSUME NInv, nDestroy
  PROVE  NInv'
<1>1. /\ archives' = archives /\ snapRef' = snapRef /\ call' = Quiet /\ live' = FALSE
      /\ dir' = Absent \/ dir' = dir
      /\ errors' = errors \/ (MayErr /\ Erring)
  BY DEF nDestroy, Same
<1> QED
  BY <1>1, NoCallKeeps DEF NInv, NTyped

LEMMA nDriverEndsKeeps ==
  ASSUME NInv, nDriverEnds
  PROVE  NInv'
<1>1. archives' = archives /\ snapRef' = snapRef /\ call' = Quiet /\ live' = FALSE /\ dir' = dir
      /\ errors' = errors
  BY DEF nDriverEnds
<1> QED
  BY <1>1, NoCallKeeps DEF NInv, NTyped

LEMMA NRestKeeps ==
  ASSUME NInv, nResume \/ UNCHANGED nvars
  PROVE  NInv'
<1>1. UNCHANGED <<dir, live, call, archives, snapRef, errors>>
  BY DEF nResume, nvars
<1> QED
  BY <1>1 DEF NInv, NTyped, ArchivesComplete, Working, Snapshotting, Restoring

-----------------------------------------------------------------------------
(* Native: the theorem.                                                    *)

LEMMA InitNInv == NInit => NInv
<1> SUFFICES ASSUME NInit
             PROVE  NInv
  OBVIOUS
<1>1. errors \in 0 .. MaxErrors /\ archives \in Seq(Archive) /\ snapRef \in 0 .. Len(archives)
  BY NativeConstants DEF NInit
<1>2. call \in Call /\ call.kind = "none"
  BY QuietFacts DEF NInit
<1>3. NTyped
  BY <1>1, <1>2 DEF NInit, NTyped
<1>4. ArchivesComplete
  BY DEF NInit, ArchivesComplete
<1>5. Working /\ Snapshotting /\ Restoring
  BY <1>2 DEF NInit, Working, Snapshotting, Restoring
<1> QED
  BY <1>3, <1>4, <1>5 DEF NInv

LEMMA NextNInv == NInv /\ [NNext]_nvars => NInv'
<1> SUFFICES ASSUME NInv, [NNext]_nvars
             PROVE  NInv'
  OBVIOUS
<1> QED
  BY nCreateKeeps, restoreBeginKeeps, extractIntoKeeps, nWriteKeeps, treeBeginKeeps, writeTreeAtKeeps,
     nSnapshotBeginKeeps, nSnapshotWalkKeeps, nDestroyKeeps, nDriverEndsKeeps, NRestKeeps
  DEF NNext

LEMMA NInvGivesSafe == NInv => NTypeOK /\ ArchiveComplete
<1> SUFFICES ASSUME NInv
             PROVE  NTypeOK /\ ArchiveComplete
  OBVIOUS
<1>1. NTypeOK
  BY PathFacts DEF NInv, NTyped, Working, NTypeOK, Exists, Dirs
<1>2. ArchiveComplete
  <2> SUFFICES ASSUME NEW r \in 1 .. Len(archives), archives[r].clean, NEW p \in NPaths
               PROVE  archives[r].was[p] =
                        IF \E i \in 1 .. Len(archives[r].entries) : archives[r].entries[i].path = p
                          THEN archives[r].entries[CHOOSE i \in 1 .. Len(archives[r].entries) :
                                                     archives[r].entries[i].path = p].body
                          ELSE Nothing
    BY DEF ArchiveComplete
  <2> DEFINE es == archives[r].entries
             c == CHOOSE i \in 1 .. Len(es) : es[i].path = p
  <2>1. Lists(es, archives[r].was, Width) /\ p \in 1 .. Width
    BY PathFacts DEF NInv, ArchivesComplete
  <2>2. CASE \E i \in 1 .. Len(es) : es[i].path = p
    <3>1. c \in 1 .. Len(es) /\ es[c].path = p
      BY <2>2
    <3>2. es[c].body = archives[r].was[p]
      BY <2>1, <3>1 DEF Lists
    <3> QED
      BY <2>2, <3>2
  <2>3. CASE ~\E i \in 1 .. Len(es) : es[i].path = p
    BY <2>1, <2>3 DEF Lists
  <2> QED
    BY <2>2, <2>3
<1> QED
  BY <1>1, <1>2

\* the last step of a restore registers what was archived
LEMMA RestoreStep ==
  ASSUME NInv, [NNext]_nvars, call.kind = "restore", live', ~live, archives[call.ref].clean
  PROVE  dir' = archives[call.ref].was
<1> DEFINE es == archives[call.ref].entries
           w == archives[call.ref].was
<1>1. call.at = Len(es) /\ dir' = dir
  <2>1. call # Quiet
    BY QuietFacts
  <2>2. extractInto
    BY <2>1 DEF NNext, nvars, nCreate, restoreBegin, nWrite, treeBegin, writeTreeAt, nSnapshotBegin,
                nSnapshotWalk, nDestroy, nDriverEnds, nResume, Doing
  <2> QED
    BY <2>2 DEF extractInto
<1>2. /\ dir \in Dirs /\ call.ref \in 1 .. Len(archives)
      /\ \A p \in NPaths : dir[p] # Nothing => dir[p] = w[p]
      /\ \A i \in 1 .. Len(es) : dir[es[i].path] = w[es[i].path]
  BY <1>1 DEF NInv, Restoring
<1>3. Lists(es, w, Width) /\ NPaths = 1 .. Width /\ archives[call.ref] \in Archive
  BY <1>2, PathFacts DEF NInv, NTyped, ArchivesComplete
<1>4. w \in Dirs
  BY <1>3 DEF Archive
<1>5. ASSUME NEW p \in NPaths
      PROVE  dir[p] = w[p]
  <2>1. CASE w[p] = Nothing
    BY <2>1, <1>2
  <2>2. CASE w[p] # Nothing
    <3>1. PICK i \in 1 .. Len(es) : es[i].path = p
      BY <2>2, <1>3 DEF Lists
    <3> QED
      BY <3>1, <1>2
  <2> QED
    BY <2>1, <2>2
<1> QED
  BY <1>1, <1>2, <1>4, <1>5 DEF Dirs

(***************************************************************************)
(* The native backend, for any number of paths, snapshots, processes and   *)
(* failing file operations: an archive of a directory that nobody wrote to *)
(* meanwhile has every path of it (Snapshot fails rather than truncate at  *)
(* its entry cap), and Restore registers a directory that holds exactly    *)
(* that, whatever an earlier process had left there.                       *)
(***************************************************************************)
THEOREM NativeIsSafe == NSpec => NativeSafe
<1>1. NInv => NTypeOK /\ ArchiveComplete
  BY NInvGivesSafe
<1>2. NInv /\ [NNext]_nvars =>
        [(call.kind = "restore" /\ live' /\ ~live /\ archives[call.ref].clean)
           => dir' = archives[call.ref].was]_nvars
  BY RestoreStep
<1> QED
  BY <1>1, <1>2, InitNInv, NextNInv, PTL DEF NSpec, NativeSafe, RestoresExactly

-----------------------------------------------------------------------------
(* The docker backend: the inductive invariant.                            *)

Bodies == {"image", "written", Gone}
Commands == Seq([tok : Refs, deletes : SUBSET Paths])
Marks == [Refs -> [Markers -> {"absent", "reset", "set"}]]
Containers ==
  [st : {"none", "created", "running", "exited", "removed"}, name : Names \cup {""}, cmd : Commands,
   done : Nat, at : {"deletes", "release", "ack"}, fs : [Paths -> Bodies], mk : Marks, from : 0 .. MaxRefs]
Copied == [path : Paths, body : Bodies]
Snapshots ==
  [cmd : Commands, diff : SUBSET Copied, deletes : SUBSET Paths, was : [Paths -> Bodies], quiet : BOOLEAN]
CreatePoints == {"up", "pull", "make", "services", "dirs", "start", "ready", "cleanup"}
RestorePoints == {"make", "extract", "dirs", "seed", "start", "prepared", "release", "handoff", "ack",
                  "absent", "ready", "cleanup"}
Ops ==
  [kind : {"idle", "create", "restore", "snapshot", "destroy"},
   pc : {"", "copy", "commit", "remove"} \cup CreatePoints \cup RestorePoints,
   name : Names \cup {""}, id : 0 .. MaxIds, ref : 0 .. MaxRefs, deletes : SUBSET Paths, todo : SUBSET Paths,
   diff : SUBSET Copied, cmd : Commands, quiet : BOOLEAN, was : [Paths -> Bodies]]

DTyped ==
  /\ ctr \in [Ids -> Containers] /\ \A id \in Ids : ctr[id].done <= Len(ctr[id].cmd)
  /\ op \in [Callers -> Ops]
  /\ refs \in Seq(Snapshots) /\ Len(refs) <= MaxRefs
  /\ handles \subseteq Ids /\ excused \subseteq Ids /\ cached \subseteq Names
  /\ held \in [Names -> 0 .. MaxIds] /\ committed \in [Names -> 0 .. Len(refs)]
  /\ \A n \in Compose : committed[n] = 0
  /\ driver \in [up : BOOLEAN, epoch : Nat, cancelled : BOOLEAN]
  /\ faults \in 0 .. MaxFaults

Beginnings == {"up", "pull", "make"}
Making == {c \in Callers : op[c].kind \in {"create", "restore"} /\ op[c].id = 0}
Unused == {id \in Ids : ctr[id].st = "none"}

\* where a call of each kind may be, and when it has a container
Placed(o) ==
  /\ o.kind = "idle" => o = Idle
  /\ o.kind # "idle" => o.name \in Names
  /\ o.kind = "create" => /\ o.pc \in CreatePoints /\ o.ref = 0 /\ o.deletes = {}
                          /\ o.pc \in {"up", "services"} => o.name \in Compose
                          /\ o.pc \in {"pull", "make"} => o.name \notin Compose
  /\ o.kind = "restore" => /\ o.pc \in RestorePoints /\ o.name \notin Compose
                           /\ o.ref \in 1 .. Len(refs) /\ o.deletes = refs[o.ref].deletes
  /\ o.kind \in {"create", "restore"} => (o.id = 0 <=> o.pc \in Beginnings)
  /\ o.kind = "snapshot" => o.pc \in {"copy", "commit"} /\ o.id = 0 /\ o.name \notin Compose
  /\ o.kind = "snapshot" /\ o.pc = "commit" => o.ref \in 1 .. Len(refs)
  /\ o.kind = "destroy" => o.pc = "remove" /\ o.id # 0

\* a call's container lives under the call's name, and nobody else has it
Holds(o) ==
  /\ o.id # 0 => Alive(o.id) /\ ctr[o.id].name = o.name /\ o.id \notin handles
  /\ o.kind \in {"create", "restore"} => held[o.name] = 0
  /\ o.kind = "destroy" => held[o.name] = o.id
  /\ o.kind = "snapshot" => held[o.name] \in handles

\* what a snapshot has copied and what it still has to
CopiesSoFar(o) ==
  o.kind = "snapshot" /\ o.pc = "copy" =>
    /\ o.deletes = Deleted(o.was)
    /\ o.quiet => /\ \A e \in o.diff : e.body = o.was[e.path]
                  /\ \A p \in o.todo : ctr[held[o.name]].fs[p] \in {o.was[p], Gone}
                  /\ \A p \in Modified(o.was) : p \in o.todo \/ \E e \in o.diff : e.path = p

\* the files of a restored container before and behind its delete wrapper
Laid(r) == [p \in Paths |-> IF \E e \in refs[r].diff : e.path = p
                              THEN (CHOOSE e \in refs[r].diff : e.path = p).body ELSE Image[p]]
Wiped(r) == [p \in Paths |-> IF p \in refs[r].deletes THEN Gone ELSE Laid(r)[p]]

\* where the wrapper is, by its markers
Wrapper(k, m, r) ==
  \/ k.done = 0 /\ k.at = "deletes" /\ k.fs = Laid(r) /\ m["prepared"] # "set" /\ m["handoff"] = "reset"
  \/ k.done = 0 /\ k.at = "release" /\ k.fs = Wiped(r) /\ m["handoff"] = "reset"
  \/ k.done = 0 /\ k.at = "ack" /\ k.fs = Wiped(r) /\ m["handoff"] = "set"
  \/ k.done = 1 /\ k.fs = Wiped(r)

\* host and wrapper take turns: neither is ahead of the other by more than a marker
Turns(pc, k, m) ==
  /\ pc = "prepared" => k.done = 0 /\ k.at # "ack" /\ m["release"] # "set"
  /\ pc = "release" => k.done = 0 /\ k.at = "release" /\ m["release"] # "set"
  /\ pc = "handoff" => k.done = 0 /\ k.at # "deletes"
  /\ pc \in {"prepared", "release", "handoff", "ack"} => m["ack"] # "set"
  /\ pc = "ack" => k.done = 0 /\ k.at = "ack"
  /\ pc = "absent" /\ k.done = 0 => k.at = "ack"
  /\ pc = "ready" => k.done = 1

RestoredSoFar(o, k) ==
  /\ k.from = o.ref /\ k.cmd = restoreContainerConfig(o)
  /\ o.pc = "extract" => k.fs = Image
  /\ o.pc \in {"extract", "dirs", "seed", "start"} => k.st = "created" /\ k.done = 0 /\ k.at = "deletes"
  /\ o.pc \in {"dirs", "seed", "start"} => k.fs = Laid(o.ref)
  /\ o.deletes = {} => o.pc \in {"extract", "dirs", "start", "ready", "cleanup"}
  /\ o.pc = "start" /\ o.deletes # {} => \A m \in Markers : k.mk[o.ref][m] = "reset"
  /\ o.pc = "ready" /\ o.deletes = {} /\ refs[o.ref].cmd = <<>> => k.fs = Laid(o.ref)
  /\ o.pc \in {"prepared", "release", "handoff", "ack", "absent", "ready"} /\ o.deletes # {}
       /\ refs[o.ref].cmd = <<>> =>
       Wrapper(k, k.mk[o.ref], o.ref) /\ Turns(o.pc, k, k.mk[o.ref])
Restores(o) == o.kind = "restore" /\ o.id # 0 => RestoredSoFar(o, ctr[o.id])

Creates(o) == o.kind = "create" /\ o.id # 0 => ctr[o.id].from = 0

CallerGood(c) == LET o == op[c] IN Placed(o) /\ Holds(o) /\ CopiesSoFar(o) /\ Restores(o) /\ Creates(o)

OneCallPerName ==
  \A c, d \in Callers : op[c].kind # "idle" /\ op[d].kind # "idle" /\ op[c].name = op[d].name => c = d
HeldGood(n) ==
  held[n] # 0 => /\ ctr[held[n]].name = n
                 /\ held[n] \in handles \/ \E c \in Callers : op[c].kind = "destroy" /\ op[c].id = held[n]
HandleGood(id) ==
  \/ Alive(id) /\ ctr[id].name \in Names /\ (ctr[id].name \in Compose => held[ctr[id].name] = id)
  \/ ctr[id].st = "removed" /\ \A n \in Names : held[n] # id
AccountedFor(id) ==
  Alive(id) => \/ id \in handles \cup excused
               \/ \E c \in Callers : op[c].kind # "idle" /\ op[c].id = id
\* the daemon has an id for every create that has none yet
Reserved == Cardinality(Unused) >= Cardinality(Making)
Asleep == ~driver.up => /\ handles = {} /\ \A n \in Names : held[n] = 0
                        /\ \A c \in Callers : op[c] = Idle

DGlobals ==
  /\ OneCallPerName /\ Asleep /\ Reserved
  /\ \A n \in Names : HeldGood(n)
  /\ \A id \in handles : HandleGood(id)
  /\ \A id \in Ids : AccountedFor(id)
DInv == DTyped /\ (\A c \in Callers : CallerGood(c)) /\ DGlobals /\ SnapshotExact

\* What the assumptions on the constants give.
LEMMA DockerFacts ==
  /\ MaxIds \in Nat /\ MaxRefs \in Nat /\ MaxFaults \in Nat /\ MaxBlob \in Nat
  /\ Compose \subseteq Names /\ Pulled \subseteq Names /\ Pulled \cap Compose = {} /\ ImagePaths \subseteq Paths
  /\ IsFiniteSet(Callers)
BY DockerConstants

\* The values of a container and of a caller at rest are typed.
LEMMA RestingFacts ==
  /\ Image \in [Paths -> Bodies] /\ NoMarkers \in Marks /\ <<>> \in Commands
  /\ NoContainer \in Containers /\ Removed \in Containers /\ Idle \in Ops
  /\ NoContainer.st = "none" /\ Removed.st = "removed" /\ Removed.done = 0 /\ Len(Removed.cmd) = 0
  /\ Idle.kind = "idle" /\ Idle.id = 0 /\ Idle.name = ""
<1>1. Image \in [Paths -> Bodies] /\ NoMarkers \in Marks
  BY DEF Image, Bodies, Gone, NoMarkers, Marks
<1>2. <<>> \in Commands /\ Len(<<>>) = 0
  BY DEF Commands
<1>3. 0 \in 0 .. MaxIds /\ 0 \in 0 .. MaxRefs
  BY DockerFacts
<1> HIDE DEF Image, NoMarkers, Commands
<1>4. NoContainer \in Containers /\ NoContainer.st = "none" /\ Removed = [NoContainer EXCEPT !.st = "removed"]
  BY <1>1, <1>2, <1>3 DEF NoContainer, Containers, Removed
<1>5. Removed \in Containers /\ Removed.st = "removed" /\ Removed.done = 0 /\ Removed.cmd = <<>>
  BY <1>1, <1>2, <1>3 DEF NoContainer, Containers, Removed
<1>6. Idle \in Ops /\ Idle.kind = "idle" /\ Idle.id = 0 /\ Idle.name = ""
  BY <1>1, <1>2, <1>3 DEF Idle, Ops, Copied
<1> QED
  BY <1>1, <1>2, <1>4, <1>5, <1>6

\* A removed container has nothing left to run.
LEMMA RemovedFacts == Removed \in Containers /\ Removed.done <= Len(Removed.cmd)
<1>1. Removed \in Containers /\ Removed.done = 0 /\ Len(Removed.cmd) = 0
  BY RestingFacts
<1>2. 0 <= 0
  OBVIOUS
<1> QED
  BY <1>1, <1>2, Zenon

\* A caller with no call under way needs nothing.
LEMMA IdleGood ==
  ASSUME NEW c \in Callers, op'[c] = Idle
  PROVE  CallerGood(c)'
<1>1. op[c]' = Idle
  OBVIOUS
<1>2. Idle.kind = "idle" /\ Idle.id = 0
  BY RestingFacts
<1>3. Placed(op[c])' /\ Holds(op[c])' /\ CopiesSoFar(op[c])' /\ Restores(op[c])' /\ Creates(op[c])'
  BY <1>1, <1>2 DEF Placed, Holds, CopiesSoFar, Restores, Creates
<1> QED
  BY <1>3 DEF CallerGood

\* Two calls have two containers, and neither has the one a snapshot reads.
LEMMA Apart ==
  ASSUME DInv, NEW c \in Callers, NEW d \in Callers, c # d, op[c].id # 0
  PROVE  /\ op[d].id # op[c].id
         /\ op[d].kind = "snapshot" => held[op[d].name] # op[c].id
<1>1. CallerGood(c) /\ CallerGood(d) /\ OneCallPerName
  BY DEF DInv, DGlobals
<1>2. op[c].kind # "idle" /\ (op[d].id # 0 => op[d].kind # "idle")
  BY <1>1, RestingFacts DEF CallerGood, Placed
<1>3. /\ ctr[op[c].id].name = op[c].name /\ op[c].id \notin handles
      /\ op[d].id # 0 => ctr[op[d].id].name = op[d].name
      /\ op[d].kind = "snapshot" => held[op[d].name] \in handles
  BY <1>1 DEF CallerGood, Holds
<1> QED
  BY <1>1, <1>2, <1>3 DEF OneCallPerName

Longer == Len(refs) <= Len(refs') /\ \A r \in 1 .. Len(refs) : refs'[r] = refs[r]
Untouched(d) ==
  /\ op'[d] = op[d]
  /\ op[d].id # 0 => ctr'[op[d].id] = ctr[op[d].id] /\ op[d].id \notin handles'
  /\ op[d].kind # "idle" => held'[op[d].name] = held[op[d].name]
  /\ op[d].kind = "snapshot" =>
       held[op[d].name] \in handles' /\ ctr'[held[op[d].name]].fs = ctr[held[op[d].name]].fs

LEMMA UntouchedGood ==
  ASSUME DTyped, DTyped', NEW d \in Callers, CallerGood(d), Untouched(d), Longer
  PROVE  CallerGood(d)'
<1> DEFINE o == op[d]
<1>1. op'[d] = o /\ o \in Ops /\ Len(refs) \in Nat /\ Len(refs') \in Nat
  BY DEF Untouched, DTyped
<1>2. Placed(o)'
  BY <1>1 DEF CallerGood, Placed, Longer, Untouched
<1>3. Holds(o)'
  BY <1>1 DEF CallerGood, Holds, Untouched, Alive, Placed
<1>4. CopiesSoFar(o)'
  BY <1>1 DEF CallerGood, CopiesSoFar, Untouched
<1>5. Restores(o)'
  <2>1. CASE o.kind = "restore" /\ o.id # 0
    <3>1. ctr'[o.id] = ctr[o.id] /\ o.ref \in 1 .. Len(refs) /\ refs'[o.ref] = refs[o.ref]
      BY <2>1 DEF CallerGood, Placed, Longer, Untouched
    <3>2. Laid(o.ref)' = Laid(o.ref) /\ Wiped(o.ref)' = Wiped(o.ref)
      BY <1>1, <3>1 DEF Laid, Wiped
    <3>3. restoreContainerConfig(o)' = restoreContainerConfig(o)
      BY <1>1, <3>1 DEF restoreContainerConfig
    <3> QED
      BY ZenonT(60), <1>1, <3>1, <3>2, <3>3 DEF CallerGood, Restores, RestoredSoFar, Wrapper, Turns
  <2> QED
    BY <2>1, <1>1 DEF Restores
<1>6. Creates(o)'
  BY <1>1 DEF CallerGood, Creates, Untouched
<1> QED
  BY <1>2, <1>3, <1>4, <1>5, <1>6 DEF CallerGood

SetOp(c, o) == op' = [d \in Callers |-> IF d = c THEN o ELSE op[d]]
SetCtr(id, k) == ctr' = [i \in Ids |-> IF i = id THEN k ELSE ctr[i]]
Living == {"created", "running", "exited"}

\* One container changes and every other one stays.
LEMMA SetCtrTyped ==
  ASSUME DTyped, NEW id \in Ids, NEW k \in Containers, k.done <= Len(k.cmd), SetCtr(id, k)
  PROVE  /\ ctr' \in [Ids -> Containers] /\ \A i \in Ids : ctr'[i].done <= Len(ctr'[i].cmd)
         /\ ctr'[id] = k /\ \A i \in Ids \ {id} : ctr'[i] = ctr[i]
BY DEF DTyped, SetCtr

\* One caller changes and every other one stays.
LEMMA SetOpTyped ==
  ASSUME DTyped, NEW c \in Callers, NEW o \in Ops, SetOp(c, o)
  PROVE  op' \in [Callers -> Ops] /\ op'[c] = o /\ \A d \in Callers \ {c} : op'[d] = op[d]
BY DEF DTyped, SetOp

\* The fields of a call.
LEMMA OpTyped ==
  ASSUME DTyped, NEW c \in Callers
  PROVE  /\ op[c] \in Ops /\ op[c].id \in 0 .. MaxIds /\ (op[c].id # 0 => op[c].id \in Ids)
         /\ op[c].diff \in SUBSET Copied /\ op[c].todo \in SUBSET Paths /\ op[c].was \in [Paths -> Bodies]
         /\ op[c].cmd \in Commands /\ op[c].deletes \in SUBSET Paths /\ op[c].quiet \in BOOLEAN
<1>1. op[c] \in Ops
  BY DEF DTyped
<1>2. op[c].id \in 0 .. MaxIds
  BY <1>1 DEF Ops
<1>3. op[c].id # 0 => op[c].id \in Ids
  BY <1>2, DockerFacts DEF Ids
<1> QED
  BY <1>1, <1>2, <1>3 DEF Ops

\* The unused ids and the waiting creates are counted.
LEMMA CardinalitiesTyped ==
  /\ IsFiniteSet(Unused) /\ IsFiniteSet(Making)
  /\ Cardinality(Unused) \in Nat /\ Cardinality(Making) \in Nat
<1>1. IsFiniteSet(Ids) /\ IsFiniteSet(Callers)
  BY DockerFacts, FS_Interval DEF Ids
<1>2. Unused \in SUBSET Ids /\ Making \in SUBSET Callers
  BY DEF Unused, Making
<1>3. IsFiniteSet(Unused) /\ IsFiniteSet(Making)
  BY <1>1, <1>2, FS_Subset
<1> QED
  BY <1>3, FS_CardinalityType

\* Fewer creates wait, and no id is used up.
LEMMA ReservedKept ==
  ASSUME Reserved, Unused' = Unused, Making' \subseteq Making
  PROVE  Reserved'
<1>1. Cardinality(Making') <= Cardinality(Making)
  BY CardinalitiesTyped, FS_Subset
<1>2. Cardinality(Making') \in Nat
  <2>1. IsFiniteSet(Making')
    BY CardinalitiesTyped, FS_Subset
  <2> QED
    BY <2>1, FS_CardinalityType
<1> QED
  BY <1>1, <1>2, CardinalitiesTyped DEF Reserved

\* One create has its container.
LEMMA ReservedTaken ==
  ASSUME Reserved, NEW c \in Making, NEW id \in Unused, Making' = Making \ {c},
         Unused' = Unused \/ Unused' = Unused \ {id}
  PROVE  Reserved'
<1>1. Cardinality(Making \ {c}) = Cardinality(Making) - 1
  BY CardinalitiesTyped, FS_RemoveElement
<1>2. Cardinality(Unused \ {id}) = Cardinality(Unused) - 1
  BY CardinalitiesTyped, FS_RemoveElement
<1>3. Cardinality(Making') = Cardinality(Making) - 1
  BY <1>1, Zenon
<1>4. Cardinality(Unused') = Cardinality(Unused) \/ Cardinality(Unused') = Cardinality(Unused) - 1
  BY <1>2, Zenon
<1> QED
  BY <1>3, <1>4, CardinalitiesTyped DEF Reserved

\* A step of one call within its container.
LEMMA StageKeeps ==
  ASSUME DInv, NEW c \in Callers, NEW o \in Ops, NEW k \in Containers,
         driver.up, op[c].kind \in {"create", "restore"}, op[c].id # 0,
         o.kind = op[c].kind, o.id = op[c].id, o.name = op[c].name, SetOp(c, o), SetCtr(op[c].id, k),
         k.name = ctr[op[c].id].name, k.st \in Living, k.done <= Len(k.cmd),
         UNCHANGED <<handles, refs, held, committed, driver, excused>>,
         cached' \subseteq Names, faults' \in 0 .. MaxFaults,
         Placed(o), Restores(o)', Creates(o)'
  PROVE  DInv'
<1> DEFINE id == op[c].id
<1>0. op[c] \in Ops /\ id \in Ids
  BY OpTyped DEF DInv, Ids
<1>1. /\ op' \in [Callers -> Ops] /\ op'[c] = o /\ \A d \in Callers \ {c} : op'[d] = op[d]
      /\ ctr' \in [Ids -> Containers] /\ \A i \in Ids : ctr'[i].done <= Len(ctr'[i].cmd)
      /\ ctr'[id] = k /\ \A i \in Ids \ {id} : ctr'[i] = ctr[i]
  BY <1>0, SetOpTyped, SetCtrTyped DEF DInv
<1>2. DTyped'
  BY <1>1 DEF DInv, DTyped
<1>3. /\ Alive(id) /\ id \notin handles /\ held[op[c].name] = 0 /\ ctr[id].name = op[c].name
  BY <1>0 DEF DInv, CallerGood, Holds, Ids
<1>4. \A i \in Ids : /\ ctr'[i].name = ctr[i].name /\ (Alive(i)' <=> Alive(i))
                     /\ ctr[i].st = "removed" => ctr'[i].st = "removed"
  BY <1>0, <1>1, <1>3 DEF Alive, Living
<1>5. ASSUME NEW d \in Callers, d # c PROVE CallerGood(d)'
  <2>1. op[d].id # id /\ (op[d].kind = "snapshot" => held[op[d].name] # id)
    BY <1>5, Apart
  <2>2. CallerGood(d) /\ op[d] \in Ops
    BY DEF DInv, DTyped
  <2>3. op[d].id \in 0 .. MaxIds
    BY <2>2 DEF Ops
  <2>4. op[d].kind = "snapshot" => held[op[d].name] \in handles /\ held[op[d].name] \in Ids
    BY <2>2 DEF CallerGood, Holds, DInv, DTyped
  <2>5. op[d].id # 0 => op[d].id \in Ids /\ op[d].id \notin handles
    BY <2>2, <2>3 DEF Ids, CallerGood, Holds
  <2>6. Untouched(d)
    BY <1>1, <1>5, <2>1, <2>4, <2>5 DEF Untouched
  <2> QED
    BY <1>2, <2>2, <2>6, UntouchedGood DEF DInv, Longer, DTyped
<1>6. CallerGood(c)'
  <2>1. Holds(o)'
    BY <1>1, <1>3, <1>4, <1>0 DEF Holds, Alive, Living
  <2>2. Placed(o)' /\ CopiesSoFar(o)'
    BY DEF Placed, CopiesSoFar
  <2> QED
    BY <1>1, <2>1, <2>2 DEF CallerGood
<1>7. OneCallPerName' /\ Asleep'
  BY <1>1 DEF DInv, DGlobals, OneCallPerName, Asleep
<1>8. Reserved'
  <2>1. Making' = Making
    BY <1>1 DEF Making
  <2>2. ctr[id].st # "none" /\ k.st # "none"
    BY <1>3 DEF Alive, Living
  <2>3. Unused' = Unused
    BY <1>1, <2>2 DEF Unused
  <2> QED
    BY <2>1, <2>3, ReservedKept DEF DInv, DGlobals
<1>9. ASSUME NEW n \in Names PROVE HeldGood(n)'
  <2>1. HeldGood(n) /\ held[n] \in 0 .. MaxIds
    BY DEF DInv, DGlobals, DTyped
  <2> QED
    BY <1>1, <1>4, <2>1 DEF HeldGood, Ids
<1>10. \A i \in handles' : HandleGood(i)'
  BY <1>4 DEF DInv, DGlobals, DTyped, HandleGood
<1>11. ASSUME NEW i \in Ids PROVE AccountedFor(i)'
  BY <1>1, <1>4 DEF DInv, DGlobals, AccountedFor
<1>12. SnapshotExact'
  BY DEF DInv, SnapshotExact
<1> QED
  BY <1>2, <1>5, <1>6, <1>7, <1>8, <1>9, <1>10, <1>11, <1>12 DEF DInv, DGlobals

Points == {"", "copy", "commit", "remove"} \cup CreatePoints \cup RestorePoints
LaterOnly == {"seed", "prepared", "release", "handoff", "ack", "absent", "extract"}
Stages == {"services", "dirs", "start", "ready", "cleanup"} \cup LaterOnly

\* A point belongs to one kind of call, and tells whether it has a container.
LEMMA KindOfPoint ==
  ASSUME DInv, NEW c \in Callers
  PROVE  /\ op[c].pc \in Stages => op[c].kind \in {"create", "restore"} /\ op[c].id # 0
         /\ op[c].pc \in LaterOnly => op[c].kind = "restore"
         /\ op[c].pc \in {"copy", "commit"} => op[c].kind = "snapshot" /\ op[c].id = 0
         /\ op[c].pc = "remove" => op[c].kind = "destroy" /\ op[c].id # 0
         /\ op[c].pc \in Beginnings => op[c].kind \in {"create", "restore"} /\ op[c].id = 0
         /\ op[c].pc \in {"up", "pull", "services"} => op[c].kind = "create"
<1>1. Placed(op[c]) /\ op[c] \in Ops /\ Idle.pc = ""
  BY DEF DInv, DTyped, CallerGood, Idle
<1>2. op[c].kind \in {"idle", "create", "restore", "snapshot", "destroy"}
  BY <1>1 DEF Ops
<1> QED
  BY <1>1, <1>2 DEF Placed, Stages, LaterOnly, Beginnings, CreatePoints, RestorePoints

\* A call goes on to its next point.
LEMMA ProceedOp ==
  ASSUME DTyped, NEW c \in Callers, NEW pc \in Points, Proceed(c, pc)
  PROVE  \E o \in Ops : /\ SetOp(c, o) /\ o.pc = pc /\ o.kind = op[c].kind /\ o.id = op[c].id
                        /\ o.name = op[c].name /\ o.ref = op[c].ref /\ o.deletes = op[c].deletes
<1> DEFINE o == [op[c] EXCEPT !.pc = pc]
<1>1. op[c] \in Ops /\ op \in [Callers -> Ops]
  BY DEF DTyped
<1>2. /\ o \in Ops /\ o.pc = pc /\ o.kind = op[c].kind /\ o.id = op[c].id
      /\ o.name = op[c].name /\ o.ref = op[c].ref /\ o.deletes = op[c].deletes
  BY <1>1 DEF Ops, Points
<1>3. op' = [d \in Callers |-> IF d = c THEN o ELSE op[d]]
  BY <1>1 DEF Proceed
<1> HIDE DEF o
<1> QED
  BY <1>2, <1>3 DEF SetOp

\* A call ends.
LEMMA ReturnOp ==
  ASSUME DTyped, NEW c \in Callers, Return(c)
  PROVE  SetOp(c, Idle)
BY DEF DTyped, Return, SetOp

\* A step that leaves the containers alone.
LEMMA SameCtr ==
  ASSUME DTyped, NEW id \in Ids, ctr' = ctr
  PROVE  SetCtr(id, ctr[id]) /\ ctr[id] \in Containers /\ ctr[id].done <= Len(ctr[id].cmd)
BY DEF DTyped, SetCtr

\* How far a restore is depends on its snapshot only, which is never rewritten.
LEMMA RestoredLater ==
  ASSUME NEW o, NEW k, refs'[o.ref] = refs[o.ref], RestoredSoFar(o, k)
  PROVE  RestoredSoFar(o, k)'
<1>1. Laid(o.ref)' = Laid(o.ref) /\ Wiped(o.ref)' = Wiped(o.ref)
  BY DEF Laid, Wiped
<1>2. restoreContainerConfig(o)' = restoreContainerConfig(o)
  BY DEF restoreContainerConfig
<1> QED
  BY <1>1, <1>2 DEF RestoredSoFar, Wrapper, Turns

\* A stage under way, and one update of its container.
LEMMA StageSteps ==
  ASSUME DInv, NEW c \in Callers, NEW pc \in Stages, NEW k \in Containers,
         driver.up, op[c].pc \in Stages, Proceed(c, pc), SetCtr(op[c].id, k),
         k.name = ctr[op[c].id].name, k.from = ctr[op[c].id].from, k.st \in Living, k.done <= Len(k.cmd),
         UNCHANGED <<handles, refs, held, committed, driver, excused>>,
         cached' \subseteq Names, faults' \in 0 .. MaxFaults,
         op[c].kind = "create" => pc \in CreatePoints \ {"services"},
         op[c].kind = "restore" => pc \in RestorePoints,
         \A o \in Ops : /\ o.pc = pc /\ o.kind = op[c].kind /\ o.id = op[c].id /\ o.name = op[c].name
                        /\ o.ref = op[c].ref /\ o.deletes = op[c].deletes /\ op[c].kind = "restore"
                        => RestoredSoFar(o, k)
  PROVE  DInv'
<1>0. DTyped /\ pc \in Points
  BY DEF DInv, Stages, LaterOnly, Points, CreatePoints, RestorePoints
<1>1. PICK o \in Ops : /\ SetOp(c, o) /\ o.pc = pc /\ o.kind = op[c].kind /\ o.id = op[c].id
                       /\ o.name = op[c].name /\ o.ref = op[c].ref /\ o.deletes = op[c].deletes
  BY <1>0, ProceedOp
<1>2. op[c].kind \in {"create", "restore"} /\ op[c].id # 0 /\ op[c].id \in Ids /\ pc \notin Beginnings
  BY KindOfPoint, OpTyped DEF DInv, Stages, LaterOnly, Beginnings
<1>3. Placed(op[c]) /\ Creates(op[c])
  BY DEF DInv, CallerGood
<1>4. Placed(o)
  BY <1>1, <1>2, <1>3 DEF Placed, Stages, LaterOnly, Beginnings
<1>5. ctr'[o.id] = k
  BY <1>1, <1>2 DEF SetCtr
<1>6. Creates(o)'
  BY <1>1, <1>2, <1>3, <1>5 DEF Creates
<1>7. Restores(o)'
  <2>1. o.kind = "restore" => RestoredSoFar(o, k)
    BY <1>1
  <2>2. CASE o.kind = "restore"
    <3>1. RestoredSoFar(o, k) /\ o.ref \in 1 .. Len(refs)
      BY <1>1, <1>3, <2>1, <2>2 DEF Placed
    <3>2. RestoredSoFar(o, k)'
      BY <3>1, RestoredLater DEF Longer
    <3> QED
      BY <1>5, <3>2 DEF Restores
  <2> QED
    BY <2>2 DEF Restores
<1> QED
  BY <1>1, <1>2, <1>4, <1>6, <1>7, StageKeeps

\* A call whose stage failed goes on to remove what it created.
LEMMA CleanupBegins ==
  ASSUME DInv, NEW c \in Callers, driver.up, op[c].pc \in Stages, Proceed(c, "cleanup"),
         UNCHANGED <<ctr, cached, handles, refs, held, committed, driver, excused>>, faults' \in 0 .. MaxFaults
  PROVE  DInv'
<1>1. op[c].kind \in {"create", "restore"} /\ op[c].id \in Ids /\ op[c].id # 0
  BY KindOfPoint, OpTyped DEF DInv
<1>2. CallerGood(c)
  BY DEF DInv
<1> DEFINE k == ctr[op[c].id]
<1>3. SetCtr(op[c].id, k) /\ k \in Containers /\ k.done <= Len(k.cmd) /\ k.st \in Living
  BY <1>1, <1>2, SameCtr DEF DInv, CallerGood, Holds, Alive, Living
<1>4. ASSUME NEW o \in Ops, o.pc = "cleanup", o.id = op[c].id, o.ref = op[c].ref, o.deletes = op[c].deletes,
             op[c].kind = "restore"
      PROVE  RestoredSoFar(o, k)
  <2>1. k.from = o.ref /\ k.cmd = restoreContainerConfig(o)
    BY <1>1, <1>2, <1>4 DEF CallerGood, Restores, RestoredSoFar, restoreContainerConfig
  <2> QED
    BY <2>1, <1>4 DEF RestoredSoFar
<1>5. "cleanup" \in Stages /\ "cleanup" \in CreatePoints \ {"services"} /\ "cleanup" \in RestorePoints /\ cached' \subseteq Names
  BY DEF Stages, CreatePoints, RestorePoints, DInv, DTyped
<1> HIDE DEF k
<1> QED
  BY <1>1, <1>3, <1>4, <1>5, StageSteps DEF k

\* What a call knows at every stage that has a container.
LEMMA StageFacts ==
  ASSUME DInv, NEW c \in Callers, op[c].pc \in Stages
  PROVE  /\ op[c].kind \in {"create", "restore"} /\ op[c].id \in Ids /\ op[c].id # 0
         /\ ctr[op[c].id] \in Containers /\ ctr[op[c].id].done <= Len(ctr[op[c].id].cmd)
         /\ ctr[op[c].id].st \in Living /\ Restores(op[c])
         /\ ctr \in [Ids -> Containers] /\ cached \subseteq Names
         /\ op[c].kind = "restore" => op[c].ref \in Refs /\ op[c].ref \in 1 .. Len(refs)
                                     /\ op[c].deletes = refs[op[c].ref].deletes
<1>1. op[c].kind \in {"create", "restore"} /\ op[c].id \in Ids /\ op[c].id # 0
  BY KindOfPoint, OpTyped DEF DInv
<1>2. CallerGood(c) /\ DTyped
  BY DEF DInv
<1>3. op[c].kind = "restore" => op[c].ref \in 1 .. Len(refs) /\ op[c].deletes = refs[op[c].ref].deletes
  BY <1>2 DEF CallerGood, Placed
<1>4. Len(refs) \in Nat /\ Len(refs) <= MaxRefs
  BY <1>2 DEF DTyped
<1>5. op[c].kind = "restore" => op[c].ref \in Refs
  BY <1>3, <1>4, DockerFacts DEF Refs
<1>6. ctr[op[c].id].st \in Living /\ Restores(op[c])
  BY <1>1, <1>2 DEF CallerGood, Holds, Alive, Living
<1> QED
  BY <1>1, <1>2, <1>3, <1>5, <1>6 DEF DTyped

\* A failing call charges the budget, unless the run is cancelled.
LEMMA ChargeTyped ==
  ASSUME DTyped, MayFail, Charge
  PROVE  faults' \in 0 .. MaxFaults
BY DockerFacts DEF DTyped, MayFail, Charge

\* A container with other files.
LEMMA FilesTyped ==
  ASSUME NEW k \in Containers, NEW f \in [Paths -> Bodies]
  PROVE  LET n == [k EXCEPT !.fs = f]
         IN n \in Containers /\ n.fs = f /\ n.st = k.st /\ n.name = k.name /\ n.cmd = k.cmd /\ n.done = k.done
            /\ n.at = k.at /\ n.mk = k.mk /\ n.from = k.from
BY DEF Containers

\* A container with other markers.
LEMMA MarksTyped ==
  ASSUME NEW k \in Containers, NEW m \in Marks
  PROVE  LET n == [k EXCEPT !.mk = m]
         IN n \in Containers /\ n.mk = m /\ n.st = k.st /\ n.name = k.name /\ n.cmd = k.cmd /\ n.done = k.done
            /\ n.at = k.at /\ n.fs = k.fs /\ n.from = k.from
BY DEF Containers

\* A diff laid over the files of a container.
LEMMA LaidTyped ==
  ASSUME DTyped, NEW r \in 1 .. Len(refs), NEW f \in [Paths -> Bodies]
  PROVE  [p \in Paths |-> IF \E e \in refs[r].diff : e.path = p
                            THEN (CHOOSE e \in refs[r].diff : e.path = p).body ELSE f[p]] \in [Paths -> Bodies]
<1>1. refs[r] \in Snapshots
  BY DEF DTyped
<1>2. refs[r].diff \in SUBSET Copied
  BY <1>1 DEF Snapshots
<1>3. ASSUME NEW p \in Paths, \E e \in refs[r].diff : e.path = p
      PROVE  (CHOOSE e \in refs[r].diff : e.path = p).body \in Bodies
  BY <1>2, <1>3 DEF Copied
<1> QED
  BY <1>3

\* extractDiff: the files are the snapshot's, but for those to delete.
LEMMA Extracts ==
  ASSUME DInv, NEW c \in Callers, Stage(c, "extract", "dirs"),
         ctr' = [ctr EXCEPT ![op[c].id].fs =
           [p \in Paths |-> IF \E e \in refs[op[c].ref].diff : e.path = p
                              THEN (CHOOSE e \in refs[op[c].ref].diff : e.path = p).body
                              ELSE @[p]]]
  PROVE  DInv'
<1>1. /\ driver.up /\ op[c].pc = "extract" /\ Proceed(c, "dirs")
      /\ UNCHANGED <<cached, handles, refs, faults, excused, held, committed, driver>>
  BY DEF Stage, Ok, Calls, KeepDriver
<1>2. op[c].pc \in Stages /\ op[c].kind = "restore"
  BY <1>1, KindOfPoint DEF Stages, LaterOnly
<1> DEFINE id == op[c].id
           r == op[c].ref
           f == [p \in Paths |-> IF \E e \in refs[r].diff : e.path = p
                                   THEN (CHOOSE e \in refs[r].diff : e.path = p).body ELSE ctr[id].fs[p]]
           k == [ctr[id] EXCEPT !.fs = f]
<1>3. id \in Ids /\ id # 0 /\ ctr[id] \in Containers /\ r \in 1 .. Len(refs) /\ ctr[id].st \in Living
      /\ ctr[id].done <= Len(ctr[id].cmd) /\ Restores(op[c])
  BY <1>2, StageFacts
<1>4. f \in [Paths -> Bodies]
  BY <1>3, LaidTyped DEF DInv, Containers
<1>5. SetCtr(id, k)
  BY <1>3, StageFacts, <1>2 DEF SetCtr
<1>6. f = Laid(r)
  <2>1. ctr[id].fs = Image
    BY <1>1, <1>2, <1>3 DEF Restores, RestoredSoFar
  <2> QED
    BY <2>1 DEF Laid
<1> HIDE DEF f
<1>7. k \in Containers /\ k.fs = f /\ k.st = ctr[id].st /\ k.name = ctr[id].name /\ k.cmd = ctr[id].cmd
      /\ k.done = ctr[id].done /\ k.at = ctr[id].at /\ k.mk = ctr[id].mk /\ k.from = ctr[id].from
  BY <1>3, <1>4, FilesTyped
<1> HIDE DEF k
<1>8. ASSUME NEW o \in Ops, o.pc = "dirs", o.id = id, o.ref = r, o.deletes = op[c].deletes
      PROVE  RestoredSoFar(o, k)
  <2>1. k.from = o.ref /\ k.cmd = restoreContainerConfig(o) /\ k.st = "created" /\ k.done = 0 /\ k.at = "deletes"
    BY <1>1, <1>2, <1>3, <1>7, <1>8 DEF Restores, RestoredSoFar, restoreContainerConfig
  <2> QED
    BY <2>1, <1>6, <1>7, <1>8 DEF Restores, RestoredSoFar
<1>9. "dirs" \in Stages /\ "dirs" \in RestorePoints /\ cached' \subseteq Names /\ faults' \in 0 .. MaxFaults
  BY <1>1 DEF Stages, RestorePoints, DInv, DTyped
<1>10. k.done <= Len(k.cmd) /\ k.st \in Living /\ k.name = ctr[id].name /\ k.from = ctr[id].from /\ op[c].kind # "create"
  BY <1>2, <1>3, <1>7
<1> QED
  BY <1>1, <1>2, <1>5, <1>7, <1>8, <1>9, <1>10, StageSteps

\* prepareRuntimeDirs: only a restore with files to delete seeds the handshake.
LEMMA DirsMade ==
  ASSUME DInv, NEW c \in Callers, Stage(c, "dirs", IF Wrapped(c) THEN "seed" ELSE "start"), UNCHANGED ctr
  PROVE  DInv'
<1> DEFINE id == op[c].id
           k == ctr[id]
           next == IF Wrapped(c) THEN "seed" ELSE "start"
<1>1. /\ driver.up /\ op[c].pc = "dirs" /\ Proceed(c, next)
      /\ UNCHANGED <<cached, handles, refs, faults, excused, held, committed, driver>>
  BY DEF Stage, Ok, Calls, KeepDriver
<1>2. op[c].pc \in Stages
  BY <1>1 DEF Stages
<1>3. /\ op[c].kind \in {"create", "restore"} /\ id \in Ids /\ id # 0 /\ k \in Containers /\ k.st \in Living
      /\ k.done <= Len(k.cmd) /\ Restores(op[c])
  BY <1>2, StageFacts
<1>4. SetCtr(id, k)
  BY <1>3, SameCtr DEF DInv
<1>5. op[c].kind = "create" => op[c].deletes = {}
  BY DEF DInv, CallerGood, Placed
<1>6. ASSUME NEW o \in Ops, o.pc = next, o.id = id, o.ref = op[c].ref, o.deletes = op[c].deletes,
             op[c].kind = "restore"
      PROVE  RestoredSoFar(o, k)
  <2>1. k.from = o.ref /\ k.cmd = restoreContainerConfig(o) /\ k.st = "created" /\ k.done = 0 /\ k.at = "deletes"
        /\ k.fs = Laid(o.ref)
    BY <1>1, <1>3, <1>6 DEF Restores, RestoredSoFar, restoreContainerConfig
  <2> QED
    BY <2>1, <1>6 DEF Restores, RestoredSoFar, Wrapped
<1>7. next \in Stages /\ next \in RestorePoints /\ (op[c].kind = "create" => next \in CreatePoints \ {"services"})
      /\ cached' \subseteq Names /\ faults' \in 0 .. MaxFaults
  BY <1>1, <1>5 DEF Stages, LaterOnly, RestorePoints, CreatePoints, DInv, DTyped, Wrapped
<1> HIDE DEF next, k
<1> QED
  BY <1>1, <1>2, <1>3, <1>4, <1>6, <1>7, StageSteps DEF k

\* What every stage leaves alone.
LEMMA StageUnder ==
  ASSUME NEW c, NEW pc, NEW next, Stage(c, pc, next)
  PROVE  /\ driver.up /\ ~driver.cancelled /\ op[c].pc = pc /\ Proceed(c, next)
         /\ UNCHANGED <<cached, handles, refs, faults, excused, held, committed, driver>>
BY DEF Stage, Ok, Calls, KeepDriver

\* seedRestoreHandshake: the four markers are reset before the wrapper runs.
LEMMA Seeded ==
  ASSUME DInv, NEW c \in Callers, Stage(c, "seed", "start"),
         ctr' = [ctr EXCEPT ![op[c].id].mk[op[c].ref] = [m \in Markers |-> "reset"]]
  PROVE  DInv'
<1> DEFINE id == op[c].id
           r == op[c].ref
           mk == [ctr[id].mk EXCEPT ![r] = [m \in Markers |-> "reset"]]
           k == [ctr[id] EXCEPT !.mk = mk]
<1>1. /\ driver.up /\ op[c].pc = "seed" /\ Proceed(c, "start")
      /\ UNCHANGED <<cached, handles, refs, faults, excused, held, committed, driver>>
  BY StageUnder
<1>2. op[c].pc \in Stages /\ op[c].kind = "restore"
  BY <1>1, KindOfPoint DEF Stages, LaterOnly
<1>3. id \in Ids /\ id # 0 /\ ctr[id] \in Containers /\ r \in Refs /\ ctr[id].st \in Living
      /\ ctr[id].done <= Len(ctr[id].cmd) /\ Restores(op[c])
  BY <1>2, StageFacts
<1>4. mk \in Marks /\ mk[r] = [m \in Markers |-> "reset"]
  BY <1>3 DEF Containers, Marks
<1>5. SetCtr(id, k)
  BY <1>2, <1>3, StageFacts DEF SetCtr
<1> HIDE DEF mk
<1>6. k \in Containers /\ k.fs = ctr[id].fs /\ k.st = ctr[id].st /\ k.name = ctr[id].name /\ k.cmd = ctr[id].cmd
      /\ k.done = ctr[id].done /\ k.at = ctr[id].at /\ k.mk = mk /\ k.from = ctr[id].from
  BY <1>3, <1>4, MarksTyped
<1> HIDE DEF k
<1>7. ASSUME NEW o \in Ops, o.pc = "start", o.id = id, o.ref = r, o.deletes = op[c].deletes
      PROVE  RestoredSoFar(o, k)
  <2>1. k.from = o.ref /\ k.cmd = restoreContainerConfig(o) /\ k.st = "created" /\ k.done = 0 /\ k.at = "deletes"
        /\ k.fs = Laid(o.ref)
    BY <1>1, <1>2, <1>3, <1>6, <1>7 DEF Restores, RestoredSoFar, restoreContainerConfig
  <2>3. \A m \in Markers : k.mk[o.ref][m] = "reset"
    BY <1>4, <1>6, <1>7
  <2> QED
    BY <2>1, <2>3, <1>7 DEF Restores, RestoredSoFar
<1>8. "start" \in Stages /\ "start" \in RestorePoints /\ cached' \subseteq Names /\ faults' \in 0 .. MaxFaults
  BY <1>1 DEF Stages, RestorePoints, DInv, DTyped
<1>9. k.done <= Len(k.cmd) /\ k.st \in Living /\ k.name = ctr[id].name /\ k.from = ctr[id].from /\ op[c].kind # "create"
  BY <1>2, <1>3, <1>6
<1> QED
  BY <1>1, <1>2, <1>5, <1>6, <1>7, <1>8, <1>9, StageSteps

\* ContainerStart: the wrapper starts at its deletes, and a bare workload is ready.
LEMMA Started ==
  ASSUME DInv, NEW c \in Callers, Stage(c, "start", IF Wrapped(c) THEN "prepared" ELSE "ready"),
         ctr' = [ctr EXCEPT ![op[c].id].st = "running"]
  PROVE  DInv'
<1> DEFINE id == op[c].id
           r == op[c].ref
           k == [ctr[id] EXCEPT !.st = "running"]
           next == IF Wrapped(c) THEN "prepared" ELSE "ready"
<1>1. /\ driver.up /\ op[c].pc = "start" /\ Proceed(c, next)
      /\ UNCHANGED <<cached, handles, refs, faults, excused, held, committed, driver>>
  BY StageUnder
<1>2. op[c].pc \in Stages
  BY <1>1 DEF Stages
<1>3. /\ op[c].kind \in {"create", "restore"} /\ id \in Ids /\ id # 0 /\ ctr[id] \in Containers
      /\ ctr[id].st \in Living /\ ctr[id].done <= Len(ctr[id].cmd) /\ Restores(op[c])
      /\ ctr \in [Ids -> Containers]
      /\ op[c].kind = "restore" => r \in Refs /\ op[c].deletes = refs[r].deletes
  BY <1>2, StageFacts
<1>4. SetCtr(id, k)
  BY <1>3 DEF SetCtr
<1>5. op[c].kind = "create" => op[c].deletes = {}
  BY DEF DInv, CallerGood, Placed
<1>6. k \in Containers /\ k.fs = ctr[id].fs /\ k.st = "running" /\ k.name = ctr[id].name /\ k.cmd = ctr[id].cmd
      /\ k.done = ctr[id].done /\ k.at = ctr[id].at /\ k.mk = ctr[id].mk /\ k.from = ctr[id].from
  BY <1>3 DEF Containers
<1> HIDE DEF k
<1>7. ASSUME NEW o \in Ops, o.pc = next, o.id = id, o.ref = r, o.deletes = op[c].deletes,
             op[c].kind = "restore"
      PROVE  RestoredSoFar(o, k)
  <2>1. k.from = o.ref /\ k.cmd = restoreContainerConfig(o) /\ k.done = 0 /\ k.at = "deletes"
        /\ k.fs = Laid(o.ref)
        /\ (o.deletes # {} => \A m \in Markers : k.mk[o.ref][m] = "reset")
    <3>1. RestoredSoFar(op[c], ctr[id]) /\ op[c].pc = "start"
      BY <1>1, <1>3, <1>7 DEF Restores
    <3>2. restoreContainerConfig(o) = restoreContainerConfig(op[c])
      BY <1>7 DEF restoreContainerConfig
    <3> QED
      BY <1>6, <1>7, <3>1, <3>2 DEF RestoredSoFar
  <2>2. o.deletes = op[c].deletes /\ o.pc = next
    BY <1>7
  <2>3. CASE o.deletes # {}
    <3>1. o.pc = "prepared"
      BY <2>2, <2>3 DEF Wrapped
    <3>2. /\ k.mk[o.ref]["prepared"] = "reset" /\ k.mk[o.ref]["release"] = "reset"
          /\ k.mk[o.ref]["handoff"] = "reset" /\ k.mk[o.ref]["ack"] = "reset"
      BY <2>1, <2>3 DEF Markers
    <3>3. Wrapper(k, k.mk[o.ref], o.ref) /\ Turns("prepared", k, k.mk[o.ref])
      BY <2>1, <3>2 DEF Wrapper, Turns
    <3> QED
      BY <2>1, <2>3, <3>1, <3>3 DEF RestoredSoFar
  <2>4. CASE o.deletes = {}
    <3>1. o.pc = "ready"
      BY <2>2, <2>4 DEF Wrapped
    <3> QED
      BY <2>1, <2>4, <3>1 DEF RestoredSoFar
  <2> QED
    BY <2>3, <2>4
<1>8. next \in Stages /\ next \in RestorePoints /\ (op[c].kind = "create" => next \in CreatePoints \ {"services"})
      /\ cached' \subseteq Names /\ faults' \in 0 .. MaxFaults
  BY <1>1, <1>5 DEF Stages, LaterOnly, RestorePoints, CreatePoints, DInv, DTyped, Wrapped
<1>9. k.done <= Len(k.cmd) /\ k.st \in Living /\ k.name = ctr[id].name /\ k.from = ctr[id].from
  BY <1>3, <1>6 DEF Living
<1> HIDE DEF next
<1> QED
  BY <1>1, <1>2, <1>4, <1>6, <1>7, <1>8, <1>9, StageSteps

\* A poll that has seen what it waited for.
LEMMA WaitEnds ==
  ASSUME DInv, NEW c \in Callers, NEW pc \in {"prepared", "handoff", "absent"},
         NEW next \in {"release", "ack", "ready"}, Stage(c, pc, next), UNCHANGED ctr,
         op[c].deletes # {} /\ refs[op[c].ref].cmd = <<>>
           => Turns(next, ctr[op[c].id], ctr[op[c].id].mk[op[c].ref])
  PROVE  DInv'
<1> DEFINE id == op[c].id
           k == ctr[id]
<1>1. /\ driver.up /\ op[c].pc = pc /\ Proceed(c, next)
      /\ UNCHANGED <<cached, handles, refs, faults, excused, held, committed, driver>>
  BY StageUnder
<1>2. op[c].pc \in Stages /\ op[c].kind = "restore"
  BY <1>1, KindOfPoint DEF Stages, LaterOnly
<1>3. /\ id \in Ids /\ id # 0 /\ k \in Containers /\ k.st \in Living
      /\ k.done <= Len(k.cmd) /\ Restores(op[c])
  BY <1>2, StageFacts
<1>4. SetCtr(id, k)
  BY <1>3, SameCtr DEF DInv
<1>5. op[c].deletes # {}
  BY <1>1, <1>2, <1>3 DEF Restores, RestoredSoFar
<1>6. ASSUME NEW o \in Ops, o.pc = next, o.id = id, o.ref = op[c].ref, o.deletes = op[c].deletes
      PROVE  RestoredSoFar(o, k)
  <2>1. k.from = o.ref /\ k.cmd = restoreContainerConfig(o)
        /\ (refs[o.ref].cmd = <<>> => Wrapper(k, k.mk[o.ref], o.ref))
    BY <1>1, <1>2, <1>3, <1>5, <1>6 DEF Restores, RestoredSoFar, restoreContainerConfig
  <2>3. refs[o.ref].cmd = <<>> => Wrapper(k, k.mk[o.ref], o.ref) /\ Turns(next, k, k.mk[o.ref])
    BY <2>1, <1>1, <1>5, <1>6 DEF Wrapper, Turns
  <2> QED
    BY <2>1, <2>3, <1>1, <1>5, <1>6 DEF Restores, RestoredSoFar
<1>7. next \in Stages /\ next \in RestorePoints /\ cached' \subseteq Names /\ faults' \in 0 .. MaxFaults
  BY <1>1 DEF Stages, LaterOnly, RestorePoints, DInv, DTyped
<1>8. k.name = ctr[id].name /\ k.from = ctr[id].from /\ op[c].kind # "create"
  BY <1>2
<1> HIDE DEF k
<1> QED
  BY <1>1, <1>2, <1>3, <1>4, <1>6, <1>7, <1>8, StageSteps DEF k

\* What the handshake knows at each of its points.
LEMMA HandshakeFacts ==
  ASSUME DInv, NEW c \in Callers, op[c].pc \in {"prepared", "release", "handoff", "ack", "absent"}
  PROVE  LET k == ctr[op[c].id]
         IN /\ op[c].deletes # {}
            /\ refs[op[c].ref].cmd = <<>> => Wrapper(k, k.mk[op[c].ref], op[c].ref) /\ Turns(op[c].pc, k, k.mk[op[c].ref])
<1>1. op[c].pc \in Stages /\ op[c].kind = "restore"
  BY KindOfPoint DEF Stages, LaterOnly
<1>2. Restores(op[c]) /\ op[c].id # 0
  BY <1>1, StageFacts
<1> QED
  BY <1>1, <1>2 DEF Restores, RestoredSoFar

\* A stage with a container fails, and the container is to be removed.
LEMMA Failing ==
  ASSUME DInv, NEW c \in Callers, op[c].pc \in Stages, Fails(c, op[c].pc)
  PROVE  DInv'
<1>1. op[c].id # 0
  BY KindOfPoint
<1>2. driver.up /\ Proceed(c, "cleanup")
      /\ UNCHANGED <<ctr, cached, handles, refs, held, committed, driver, excused>>
  BY <1>1 DEF Fails, Calls, KeepDriver
<1>3. faults' \in 0 .. MaxFaults
  BY ChargeTyped DEF Fails, DInv
<1> QED
  BY <1>2, <1>3, CleanupBegins

\* waitForRestoreMarker: seen, failed, or the wrapper has exited.
LEMMA Waits ==
  ASSUME DInv, NEW c \in Callers, NEW pc \in {"prepared", "handoff", "absent"}, NEW marker \in Markers, NEW want,
         NEW next \in {"release", "ack", "ready"}, waitForRestoreMarker(c, pc, marker, want, next),
         op[c].pc = pc /\ op[c].deletes # {} /\ refs[op[c].ref].cmd = <<>>
           /\ ctr[op[c].id].mk[op[c].ref][marker] = want
           => Turns(next, ctr[op[c].id], ctr[op[c].id].mk[op[c].ref])
  PROVE  DInv'
<1>1. CASE /\ Stage(c, pc, next) /\ ctr[op[c].id].mk[op[c].ref][marker] = want /\ UNCHANGED ctr
  <2>1. op[c].pc = pc
    BY <1>1, StageUnder
  <2> QED
    BY <1>1, <2>1, WaitEnds
<1>2. CASE Ok(c, pc) /\ Proceed(c, "cleanup") /\ KeepDriver /\ UNCHANGED <<ctr, cached, handles, refs, faults, excused>>
  <2>1. op[c].pc = pc /\ driver.up /\ pc \in Stages
    BY <1>2 DEF Ok, Calls, Stages, LaterOnly
  <2>2. UNCHANGED <<ctr, cached, handles, refs, held, committed, driver, excused>> /\ faults' \in 0 .. MaxFaults
    BY <1>2 DEF KeepDriver, DInv, DTyped
  <2> QED
    BY <1>2, <2>1, <2>2, CleanupBegins
<1>3. CASE Fails(c, pc)
  <2>1. op[c].pc = pc /\ pc \in Stages
    BY <1>3 DEF Fails, Calls, Stages, LaterOnly
  <2> QED
    BY <1>3, <2>1, Failing
<1> QED
  BY <1>1, <1>2, <1>3 DEF waitForRestoreMarker

\* A marker is written by the host.
LEMMA MarkerWritten ==
  ASSUME DInv, NEW c \in Callers, NEW pc \in {"release", "ack"}, NEW next \in {"handoff", "absent"},
         (pc = "release" /\ next = "handoff") \/ (pc = "ack" /\ next = "absent"),
         Stage(c, pc, next), ctr' = [ctr EXCEPT ![op[c].id].mk[op[c].ref][pc] = "set"]
  PROVE  DInv'
<1> DEFINE id == op[c].id
           r == op[c].ref
           mk == [ctr[id].mk EXCEPT ![r] = [@ EXCEPT ![pc] = "set"]]
           k == [ctr[id] EXCEPT !.mk = mk]
<1>1. /\ driver.up /\ op[c].pc = pc /\ Proceed(c, next)
      /\ UNCHANGED <<cached, handles, refs, faults, excused, held, committed, driver>>
  BY StageUnder
<1>2. op[c].pc \in Stages /\ op[c].kind = "restore"
  BY <1>1, KindOfPoint DEF Stages, LaterOnly
<1>3. id \in Ids /\ id # 0 /\ ctr[id] \in Containers /\ r \in Refs /\ ctr[id].st \in Living
      /\ ctr[id].done <= Len(ctr[id].cmd) /\ Restores(op[c])
  BY <1>2, StageFacts
<1>4. /\ mk \in Marks /\ mk[r][pc] = "set" /\ mk[r]["handoff"] = ctr[id].mk[r]["handoff"]
      /\ mk[r]["prepared"] = ctr[id].mk[r]["prepared"]
      /\ pc = "release" => mk[r]["ack"] = ctr[id].mk[r]["ack"]
  <2>1. ctr[id].mk \in Marks
    BY <1>3 DEF Containers
  <2>2. ctr[id].mk[r] \in [Markers -> {"absent", "reset", "set"}] /\ pc \in Markers
    BY <1>3, <2>1 DEF Marks, Markers
  <2>3. [ctr[id].mk[r] EXCEPT ![pc] = "set"] \in [Markers -> {"absent", "reset", "set"}]
    BY <2>2
  <2>4. mk \in Marks /\ mk[r] = [ctr[id].mk[r] EXCEPT ![pc] = "set"]
    BY <1>3, <2>1, <2>3 DEF Marks
  <2>5. mk[r][pc] = "set" /\ \A q \in Markers : q # pc => mk[r][q] = ctr[id].mk[r][q]
    BY <2>2, <2>4
  <2>6. "handoff" \in Markers /\ "prepared" \in Markers /\ "ack" \in Markers
    BY DEF Markers
  <2>7. pc # "handoff" /\ pc # "prepared" /\ (pc = "release" => pc # "ack")
    OBVIOUS
  <2> HIDE DEF mk
  <2> QED
    BY <2>4, <2>5, <2>6, <2>7
<1>5. SetCtr(id, k)
  BY <1>2, <1>3, StageFacts DEF SetCtr
<1>6. op[c].deletes # {} /\ (refs[r].cmd = <<>> => Wrapper(ctr[id], ctr[id].mk[r], r) /\ Turns(pc, ctr[id], ctr[id].mk[r]))
  BY <1>1, HandshakeFacts
<1> HIDE DEF mk
<1>7. k \in Containers /\ k.fs = ctr[id].fs /\ k.st = ctr[id].st /\ k.name = ctr[id].name /\ k.cmd = ctr[id].cmd
      /\ k.done = ctr[id].done /\ k.at = ctr[id].at /\ k.mk = mk /\ k.from = ctr[id].from
  BY <1>3, <1>4, MarksTyped
<1> HIDE DEF k
<1>8. ASSUME NEW o \in Ops, o.pc = next, o.id = id, o.ref = r, o.deletes = op[c].deletes
      PROVE  RestoredSoFar(o, k)
  <2>1. k.from = o.ref /\ k.cmd = restoreContainerConfig(o)
    BY <1>1, <1>2, <1>3, <1>7, <1>8 DEF Restores, RestoredSoFar, restoreContainerConfig
  <2>2. ASSUME refs[r].cmd = <<>> PROVE Wrapper(k, k.mk[r], r) /\ Turns(next, k, k.mk[r])
    BY <1>4, <1>6, <1>7, <2>2 DEF Wrapper, Turns
  <2> QED
    BY <2>1, <2>2, <1>6, <1>8 DEF RestoredSoFar
<1>9. next \in Stages /\ next \in RestorePoints /\ cached' \subseteq Names /\ faults' \in 0 .. MaxFaults
  BY <1>1 DEF Stages, LaterOnly, RestorePoints, DInv, DTyped
<1>10. k.done <= Len(k.cmd) /\ k.st \in Living /\ k.name = ctr[id].name /\ k.from = ctr[id].from /\ op[c].kind # "create"
  BY <1>2, <1>3, <1>7
<1> QED
  BY <1>1, <1>2, <1>5, <1>7, <1>8, <1>9, <1>10, StageSteps

\* writeRestoreMarkers, written or failed.
LEMMA MarkerWrites ==
  ASSUME DInv, NEW c \in Callers, NEW pc \in {"release", "ack"}, NEW next \in {"handoff", "absent"},
         (pc = "release" /\ next = "handoff") \/ (pc = "ack" /\ next = "absent"), writeRestoreMarkers(c, pc, pc, next)
  PROVE  DInv'
<1>1. CASE Stage(c, pc, next) /\ ctr' = [ctr EXCEPT ![op[c].id].mk[op[c].ref][pc] = "set"]
  BY <1>1, MarkerWritten
<1>2. CASE Fails(c, pc)
  <2>1. op[c].pc = pc /\ pc \in Stages
    BY <1>2 DEF Fails, Calls, Stages, LaterOnly
  <2> QED
    BY <1>2, <2>1, Failing
<1> QED
  BY <1>1, <1>2 DEF writeRestoreMarkers

\* What the host reads when it waits passes the turn to it.
LEMMA TurnPasses ==
  ASSUME NEW k, NEW m, NEW r, Wrapper(k, m, r)
  PROVE  /\ Turns("prepared", k, m) /\ m["prepared"] = "set" => Turns("release", k, m)
         /\ Turns("handoff", k, m) /\ m["handoff"] = "set" => Turns("ack", k, m)
         /\ Turns("absent", k, m) /\ m["handoff"] = "absent" => Turns("ready", k, m)
<1>1. Turns("prepared", k, m) /\ m["prepared"] = "set" => Turns("release", k, m)
  BY DEF Wrapper, Turns
<1>2. Turns("handoff", k, m) /\ m["handoff"] = "set" => Turns("ack", k, m)
  BY DEF Wrapper, Turns
<1>3. Turns("absent", k, m) /\ m["handoff"] = "absent" => Turns("ready", k, m)
  BY DEF Wrapper, Turns
<1> QED
  BY <1>1, <1>2, <1>3

\* Every point of the restore handshake.
LEMMA Handshakes ==
  ASSUME DInv, NEW c \in Callers, restoreHandshake(c)
  PROVE  DInv'
<1> DEFINE k == ctr[op[c].id]
           m == k.mk[op[c].ref]
<1>1. CASE waitForRestoreMarker(c, "prepared", "prepared", "set", "release")
  <2>1. op[c].pc = "prepared" /\ op[c].deletes # {} /\ refs[op[c].ref].cmd = <<>> /\ m["prepared"] = "set"
        => Turns("release", k, m)
    BY HandshakeFacts, TurnPasses
  <2> QED
    BY <1>1, <2>1, Waits DEF Markers
<1>2. CASE writeRestoreMarkers(c, "release", "release", "handoff")
  BY <1>2, MarkerWrites
<1>3. CASE waitForRestoreMarker(c, "handoff", "handoff", "set", "ack")
  <2>1. op[c].pc = "handoff" /\ op[c].deletes # {} /\ refs[op[c].ref].cmd = <<>> /\ m["handoff"] = "set"
        => Turns("ack", k, m)
    BY HandshakeFacts, TurnPasses
  <2> QED
    BY <1>3, <2>1, Waits DEF Markers
<1>4. CASE writeRestoreMarkers(c, "ack", "ack", "absent")
  BY <1>4, MarkerWrites
<1>5. CASE waitForRestoreMarker(c, "absent", "handoff", "absent", "ready")
  <2>1. op[c].pc = "absent" /\ op[c].deletes # {} /\ refs[op[c].ref].cmd = <<>> /\ m["handoff"] = "absent"
        => Turns("ready", k, m)
    BY HandshakeFacts, TurnPasses
  <2> QED
    BY <1>5, <2>1, Waits DEF Markers
<1> QED
  BY <1>1, <1>2, <1>3, <1>4, <1>5 DEF restoreHandshake

\* A call that never had a container ends.
LEMMA Quits ==
  ASSUME DInv, NEW c \in Callers, op[c].id = 0, Return(c),
         UNCHANGED <<ctr, handles, refs, held, driver, excused>>, cached' \subseteq Names,
         faults' \in 0 .. MaxFaults, committed' \in [Names -> 0 .. Len(refs)], \A n \in Compose : committed'[n] = 0
  PROVE  DInv'
<1>1. op' \in [Callers -> Ops] /\ op'[c] = Idle /\ \A d \in Callers \ {c} : op'[d] = op[d]
  BY ReturnOp, SetOpTyped, RestingFacts DEF DInv
<1>2. DTyped'
  BY <1>1 DEF DInv, DTyped
<1>3. ASSUME NEW d \in Callers, d # c PROVE CallerGood(d)'
  <2>1. CallerGood(d)
    BY DEF DInv
  <2>2. Untouched(d)
    BY <1>1, <1>3, <2>1 DEF Untouched, CallerGood, Holds
  <2> QED
    BY <1>2, <2>1, <2>2, UntouchedGood DEF DInv, Longer, DTyped
<1>4. CallerGood(c)'
  BY <1>1, IdleGood
<1>5. OneCallPerName' /\ Asleep'
  BY <1>1, RestingFacts DEF DInv, DGlobals, OneCallPerName, Asleep
<1>6. Reserved'
  <2>1. Making' \subseteq Making /\ Unused' = Unused
    BY <1>1, RestingFacts DEF Making, Unused
  <2> QED
    BY <2>1, ReservedKept DEF DInv, DGlobals
<1>7. ASSUME NEW n \in Names PROVE HeldGood(n)'
  <2>1. HeldGood(n) /\ held[n] \in 0 .. MaxIds
    BY DEF DInv, DGlobals, DTyped
  <2> QED
    BY <1>1, <2>1 DEF HeldGood
<1>8. \A i \in handles' : HandleGood(i)'
  BY DEF DInv, DGlobals, HandleGood, Alive
<1>9. ASSUME NEW i \in Ids PROVE AccountedFor(i)'
  <2>1. AccountedFor(i) /\ i # 0
    BY DEF DInv, DGlobals, Ids
  <2> QED
    BY <1>1, <2>1 DEF AccountedFor, Alive
<1>10. SnapshotExact'
  BY DEF DInv, SnapshotExact
<1> QED
  BY <1>2, <1>3, <1>4, <1>5, <1>6, <1>7, <1>8, <1>9, <1>10 DEF DInv, DGlobals

\* A call ends and its container is registered, removed, or named in an error.
LEMMA Finishes ==
  ASSUME DInv, NEW c \in Callers, op[c].kind \in {"create", "restore", "destroy"}, op[c].id # 0, Return(c),
         NEW k \in {ctr[op[c].id], Removed}, SetCtr(op[c].id, k),
         NEW h \in {0, op[c].id}, held' = [held EXCEPT ![op[c].name] = h],
         handles' = handles \/ handles' = handles \cup {op[c].id},
         excused' = excused \/ excused' = excused \cup {op[c].id},
         k = Removed => h = 0,
         k = ctr[op[c].id] => op[c].id \in handles' \cup excused',
         h # 0 => op[c].id \in handles',
         op[c].id \in handles' => (op[c].name \in Compose => h = op[c].id),
         UNCHANGED <<refs, committed, driver, cached>>, faults' \in 0 .. MaxFaults
  PROVE  DInv'
<1> DEFINE id == op[c].id
           n0 == op[c].name
<1>0. CallerGood(c) /\ DTyped /\ id \in Ids /\ 0 \notin Ids
  BY OpTyped DEF DInv, Ids
<1>1. op' \in [Callers -> Ops] /\ op'[c] = Idle /\ \A d \in Callers \ {c} : op'[d] = op[d]
  BY <1>0, ReturnOp, SetOpTyped, RestingFacts
<1>2. k \in Containers /\ k.done <= Len(k.cmd)
  <2>1. CASE k = ctr[id]
    BY <1>0, <2>1 DEF DTyped
  <2>2. CASE k = Removed
    BY <2>2, RemovedFacts
  <2> QED
    BY <2>1, <2>2
<1>3. /\ ctr' \in [Ids -> Containers] /\ \A i \in Ids : ctr'[i].done <= Len(ctr'[i].cmd)
      /\ ctr'[id] = k /\ \A i \in Ids \ {id} : ctr'[i] = ctr[i]
  BY <1>0, <1>2, SetCtrTyped
<1>4. /\ n0 \in Names /\ Alive(id) /\ ctr[id].name = n0 /\ id \notin handles
      /\ op[c].kind \in {"create", "restore"} => held[n0] = 0
      /\ op[c].kind = "destroy" => held[n0] = id
  BY <1>0 DEF CallerGood, Placed, Holds
<1>5. held' \in [Names -> 0 .. MaxIds] /\ held'[n0] = h /\ \A n \in Names \ {n0} : held'[n] = held[n]
  BY <1>0, <1>4, DockerFacts DEF DTyped, Ids
<1>6. DTyped'
  BY <1>0, <1>1, <1>3, <1>5 DEF DTyped
<1>7. handles \subseteq handles' /\ handles' \subseteq handles \cup {id}
      /\ excused \subseteq excused' /\ handles \subseteq Ids
  BY <1>0 DEF DTyped
<1>8. ASSUME NEW d \in Callers, d # c PROVE CallerGood(d)'
  <2>1. CallerGood(d) /\ op[d] \in Ops
    BY <1>0 DEF DInv, DTyped
  <2>2. op[d].id # id /\ (op[d].kind = "snapshot" => held[op[d].name] # id)
    BY <1>8, Apart
  <2>3. op[d].kind # "idle" => op[d].name \in Names /\ op[d].name # n0
    BY <1>8, <2>1 DEF DInv, DGlobals, OneCallPerName, CallerGood, Placed
  <2>4. op[d].id # 0 => op[d].id \in Ids /\ op[d].id \notin handles
    BY <1>0, <2>1, OpTyped DEF CallerGood, Holds
  <2>5. op[d].kind = "snapshot" => held[op[d].name] \in handles
    BY <2>1 DEF CallerGood, Holds
  <2>6. Untouched(d)
    BY <1>1, <1>3, <1>5, <1>7, <1>8, <2>2, <2>3, <2>4, <2>5 DEF Untouched
  <2> QED
    BY <1>0, <1>6, <2>1, <2>6, UntouchedGood DEF Longer, DTyped
<1>9. CallerGood(c)'
  BY <1>1, IdleGood
<1>10. OneCallPerName' /\ Asleep'
  <2>1. driver'.up
    BY <1>0, RestingFacts DEF DInv, DGlobals, Asleep
  <2>2. Asleep'
    BY <2>1 DEF Asleep
  <2>3. OneCallPerName'
    BY <1>1, RestingFacts DEF DInv, DGlobals, OneCallPerName
  <2> QED
    BY <2>2, <2>3
<1>11. Reserved'
  <2>1. Making' \subseteq Making
    BY <1>1, RestingFacts DEF Making
  <2>2. ctr[id].st # "none" /\ k.st # "none"
    BY <1>4, RestingFacts DEF Alive
  <2>3. Unused' = Unused
    BY <1>3, <2>2 DEF Unused
  <2> QED
    BY <2>1, <2>3, ReservedKept DEF DInv, DGlobals
<1>12. ASSUME NEW n \in Names PROVE HeldGood(n)'
  <2>1. CASE n = n0
    BY <1>0, <1>3, <1>4, <1>5, <2>1 DEF HeldGood
  <2>2. CASE n # n0
    <3>1. HeldGood(n) /\ held'[n] = held[n] /\ held[n] \in 0 .. MaxIds
      BY <1>0, <1>5, <2>2 DEF DInv, DGlobals, DTyped
    <3>2. held[n] # 0 => held[n] \in Ids /\ held[n] # id
      BY <1>4, <2>2, <3>1 DEF HeldGood, Ids
    <3> QED
      BY <1>1, <1>3, <1>7, <3>1, <3>2 DEF HeldGood
  <2> QED
    BY <2>1, <2>2
<1>13. ASSUME NEW i \in handles' PROVE HandleGood(i)'
  <2>1. CASE i = id /\ k = ctr[id]
    BY <1>0, <1>3, <1>4, <1>5, <2>1 DEF HandleGood, Alive
  <2>2. CASE i = id /\ k = Removed
    <3>1. \A n \in Names : held'[n] # id
      <4>1. h = 0 /\ id # 0
        BY <2>2
      <4>2. ASSUME NEW n \in Names, n # n0, held[n] = id PROVE FALSE
        BY <1>0, <1>4, <4>1, <4>2 DEF DInv, DGlobals, HeldGood
      <4> QED
        BY <1>5, <4>1, <4>2
    <3>2. ctr'[id].st = "removed"
      BY <1>3, <2>2, RestingFacts
    <3> QED
      BY <2>2, <3>1, <3>2 DEF HandleGood
  <2>3. CASE i # id
    <3>1. i \in handles /\ i \in Ids /\ HandleGood(i) /\ ctr'[i] = ctr[i]
      BY <1>3, <1>7, <2>3 DEF DInv, DGlobals
    <3>2. CASE Alive(i) /\ ctr[i].name \in Names /\ (ctr[i].name \in Compose => held[ctr[i].name] = i)
      <4>1. ctr[i].name \in Compose => ctr[i].name # n0
        BY <1>0, <1>4, <2>3, <3>1, <3>2
      <4> QED
        BY <1>5, <3>1, <3>2, <4>1 DEF HandleGood, Alive
    <3>3. CASE ctr[i].st = "removed" /\ \A n \in Names : held[n] # i
      BY <1>0, <1>5, <2>3, <3>1, <3>3 DEF HandleGood
    <3> QED
      BY <3>1, <3>2, <3>3 DEF HandleGood
  <2> QED
    BY <2>1, <2>2, <2>3
<1>14. ASSUME NEW i \in Ids PROVE AccountedFor(i)'
  <2>1. CASE i = id
    BY <1>3, <2>1, RestingFacts DEF AccountedFor, Alive
  <2>2. CASE i # id
    <3>1. AccountedFor(i) /\ ctr'[i] = ctr[i]
      BY <1>3, <2>2 DEF DInv, DGlobals
    <3> QED
      BY <1>1, <1>7, <2>2, <3>1 DEF AccountedFor, Alive
  <2> QED
    BY <2>1, <2>2
<1>15. SnapshotExact'
  BY DEF DInv, SnapshotExact
<1> QED
  BY <1>6, <1>8, <1>9, <1>10, <1>11, <1>12, <1>13, <1>14, <1>15 DEF DInv, DGlobals

\* A call without a container goes on, and touches nothing else.
LEMMA GoesOn ==
  ASSUME DInv, NEW c \in Callers, NEW o \in Ops, SetOp(c, o), op[c].id = 0, o.id = 0,
         o.kind = op[c].kind, o.name = op[c].name, Placed(o), CopiesSoFar(o)',
         UNCHANGED <<ctr, handles, refs, held, committed, driver, excused>>, op[c].kind # "idle",
         cached' \subseteq Names, faults' \in 0 .. MaxFaults
  PROVE  DInv'
<1>1. op' \in [Callers -> Ops] /\ op'[c] = o /\ \A d \in Callers \ {c} : op'[d] = op[d]
  BY SetOpTyped DEF DInv
<1>2. DTyped'
  BY <1>1 DEF DInv, DTyped
<1>3. ASSUME NEW d \in Callers, d # c PROVE CallerGood(d)'
  <2>1. CallerGood(d)
    BY DEF DInv
  <2>2. Untouched(d)
    BY <1>1, <1>3, <2>1 DEF Untouched, CallerGood, Holds
  <2> QED
    BY <1>2, <2>1, <2>2, UntouchedGood DEF DInv, Longer, DTyped
<1>4. CallerGood(c)'
  <2>1. CallerGood(c) /\ op'[c] = o
    BY <1>1 DEF DInv
  <2>2. Holds(o)'
    BY <2>1 DEF CallerGood, Holds
  <2>3. Placed(o)' /\ Restores(o)' /\ Creates(o)'
    BY DEF Placed, Restores, Creates
  <2> QED
    BY <2>1, <2>2, <2>3 DEF CallerGood
<1>5. OneCallPerName' /\ Asleep'
  <2>1. driver'.up
    BY RestingFacts DEF DInv, DGlobals, Asleep
  <2> QED
    BY <1>1, <2>1 DEF DInv, DGlobals, OneCallPerName, Asleep
<1>6. Reserved'
  <2>1. Making' \subseteq Making /\ Unused' = Unused
    BY <1>1 DEF Making, Unused
  <2> QED
    BY <2>1, ReservedKept DEF DInv, DGlobals
<1>7. ASSUME NEW n \in Names PROVE HeldGood(n)'
  <2>1. HeldGood(n) /\ held[n] \in 0 .. MaxIds
    BY DEF DInv, DGlobals, DTyped
  <2> QED
    BY <1>1, <2>1 DEF HeldGood
<1>8. \A i \in handles' : HandleGood(i)'
  BY DEF DInv, DGlobals, HandleGood, Alive
<1>9. ASSUME NEW i \in Ids PROVE AccountedFor(i)'
  <2>1. AccountedFor(i) /\ i # 0
    BY DEF DInv, DGlobals, Ids
  <2> QED
    BY <1>1, <2>1 DEF AccountedFor, Alive
<1>10. SnapshotExact'
  BY DEF DInv, SnapshotExact
<1> QED
  BY <1>2, <1>3, <1>4, <1>5, <1>6, <1>7, <1>8, <1>9, <1>10 DEF DInv, DGlobals

\* A call begins on a runtime that no other call has.
LEMMA Begins ==
  ASSUME DInv, NEW c \in Callers, NEW n \in Names, NEW o \in Ops, driver.up, op[c] = Idle, ~Busy(n),
         SetOp(c, o), o.name = n, o.kind # "idle", Placed(o), Holds(o)', CopiesSoFar(o)',
         o.kind \in {"create", "restore"} => o.id = 0 /\ Cardinality(Unused) > Cardinality(Making),
         handles' = handles \/ (handles' = handles \ {held[n]} /\ o.kind = "destroy" /\ o.id = held[n]),
         UNCHANGED <<ctr, cached, refs, held, committed, driver, faults, excused>>
  PROVE  DInv'
<1>0. DTyped /\ 0 \notin Ids
  BY DockerFacts DEF DInv, Ids
<1>1. op' \in [Callers -> Ops] /\ op'[c] = o /\ \A d \in Callers \ {c} : op'[d] = op[d]
  BY <1>0, SetOpTyped
<1>2. DTyped'
  BY <1>0, <1>1 DEF DTyped
<1>3. handles' \subseteq handles /\ handles \subseteq Ids
  BY <1>0 DEF DTyped
<1>4. ASSUME NEW d \in Callers, d # c PROVE CallerGood(d)'
  <2>1. CallerGood(d) /\ (op[d].kind # "idle" => op[d].name \in Names /\ op[d].name # n)
    BY DEF DInv, Busy, CallerGood, Placed
  <2>2. op[d].kind = "snapshot" => held[op[d].name] \in handles'
    <3>1. SUFFICES ASSUME op[d].kind = "snapshot" PROVE held[op[d].name] \in handles'
      OBVIOUS
    <3>2. held[op[d].name] \in handles /\ op[d].name \in Names /\ op[d].name # n
      BY <2>1, <3>1 DEF CallerGood, Holds
    <3>3. HeldGood(op[d].name) /\ HeldGood(n) /\ held[op[d].name] # 0
      BY <1>0, <1>3, <3>2 DEF DInv, DGlobals
    <3> QED
      BY <3>2, <3>3 DEF HeldGood
  <2>3. Untouched(d)
    BY <1>1, <1>3, <1>4, <2>1, <2>2 DEF Untouched, CallerGood, Holds
  <2> QED
    BY <1>0, <1>2, <2>1, <2>3, UntouchedGood DEF Longer, DTyped
<1>5. CallerGood(c)'
  <2>1. Placed(o)' /\ Restores(o)' /\ Creates(o)'
    BY DEF Placed, Restores, Creates
  <2> QED
    BY <1>1, <2>1 DEF CallerGood
<1>6. OneCallPerName'
  BY <1>1 DEF DInv, DGlobals, OneCallPerName, Busy
<1>7. Asleep'
  BY DEF Asleep
<1>8. Reserved'
  <2>1. Unused' = Unused
    BY DEF Unused
  <2>2. CASE o.kind \in {"create", "restore"}
    <3>1. Making' = Making \cup {c} /\ c \notin Making
      BY <1>1, <2>2, RestingFacts DEF Making
    <3>2. Cardinality(Making \cup {c}) = Cardinality(Making) + 1
      BY <3>1, CardinalitiesTyped, FS_AddElement
    <3>3. Cardinality(Making') = Cardinality(Making) + 1 /\ Cardinality(Unused') = Cardinality(Unused)
      BY <2>1, <3>1, <3>2, Zenon
    <3> QED
      BY <2>2, <3>3, CardinalitiesTyped DEF Reserved
  <2>3. CASE o.kind \notin {"create", "restore"}
    <3>1. Making' \subseteq Making
      BY <1>1, <2>3 DEF Making
    <3> QED
      BY <2>1, <3>1, ReservedKept DEF DInv, DGlobals
  <2> QED
    BY <2>2, <2>3
<1>9. ASSUME NEW m \in Names PROVE HeldGood(m)'
  <2>1. HeldGood(m) /\ held[m] \in 0 .. MaxIds
    BY <1>0 DEF DInv, DGlobals, DTyped
  <2> QED
    BY <1>1, <2>1, RestingFacts DEF HeldGood
<1>10. \A i \in handles' : HandleGood(i)'
  BY <1>3 DEF DInv, DGlobals, HandleGood, Alive
<1>11. ASSUME NEW i \in Ids PROVE AccountedFor(i)'
  <2>1. AccountedFor(i)
    BY DEF DInv, DGlobals
  <2> QED
    BY ZenonT(60), <1>1, <2>1, RestingFacts DEF AccountedFor, Alive
<1>12. SnapshotExact'
  BY DEF DInv, SnapshotExact
<1> QED
  BY <1>2, <1>4, <1>5, <1>6, <1>7, <1>8, <1>9, <1>10, <1>11, <1>12 DEF DInv, DGlobals

\* The fields of a snapshot in the blob store.
LEMMA SnapshotTyped ==
  ASSUME DTyped, NEW r \in 1 .. Len(refs)
  PROVE  /\ refs[r] \in Snapshots /\ refs[r].deletes \in SUBSET Paths /\ refs[r].cmd \in Commands
         /\ refs[r].diff \in SUBSET Copied /\ refs[r].was \in [Paths -> Bodies] /\ refs[r].quiet \in BOOLEAN
         /\ r \in Refs
<1>1. refs[r] \in Snapshots /\ Len(refs) \in Nat /\ Len(refs) <= MaxRefs
  BY DEF DTyped
<1>2. r \in Refs
  BY <1>1, DockerFacts DEF Refs
<1> QED
  BY <1>1, <1>2 DEF Snapshots

\* createOrRestoreRuntimeHandle begins.
LEMMA CreateOrRestoreBegins ==
  ASSUME DInv, NEW c \in Callers, NEW n \in Names, createOrRestore(c, n)
  PROVE  DInv'
<1>1. /\ driver.up /\ op[c] = Idle /\ held[n] = 0 /\ ~Busy(n)
      /\ UNCHANGED <<ctr, cached, handles, refs, held, committed, driver, faults, excused>>
  BY DEF createOrRestore, KeepDriver
<1>2. Cardinality(Unused) > Cardinality(Making)
  BY DEF createOrRestore, Unused, Making
<1>3. DTyped /\ op \in [Callers -> Ops] /\ committed[n] \in 0 .. Len(refs) /\ Len(refs) \in Nat
      /\ (n \in Compose => committed[n] = 0) /\ 0 \in 0 .. MaxRefs /\ 0 \in 0 .. MaxIds
  BY DockerFacts DEF DInv, DTyped
<1>4. CASE committed[n] # 0
  <2> DEFINE o == [Idle EXCEPT !.kind = "restore", !.name = n, !.pc = "make",
                     !.ref = committed[n], !.deletes = refs[committed[n]].deletes]
  <2>1. op' = [op EXCEPT ![c] = o]
    BY <1>4 DEF createOrRestore
  <2>2. committed[n] \in 1 .. Len(refs)
    BY <1>3, <1>4
  <2>3. committed[n] \in 0 .. MaxRefs /\ refs[committed[n]].deletes \in SUBSET Paths
    BY <1>3, <2>2, SnapshotTyped, DockerFacts DEF Refs
  <2>4. /\ o \in Ops /\ o.kind = "restore" /\ o.name = n /\ o.pc = "make" /\ o.id = 0
        /\ o.ref = committed[n] /\ o.deletes = refs[committed[n]].deletes
    BY <2>3, RestingFacts DEF Ops, Idle, RestorePoints
  <2>5. SetOp(c, o)
    BY <1>3, <2>1 DEF SetOp
  <2> HIDE DEF o
  <2>. PICK w \in Ops : /\ SetOp(c, w) /\ w.kind = "restore" /\ w.name = n /\ w.pc = "make" /\ w.id = 0
                        /\ w.ref = committed[n] /\ w.deletes = refs[committed[n]].deletes
    BY <2>4, <2>5
  <2>6. Placed(w)
    BY <1>3, <1>4, <2>2 DEF Placed, RestorePoints, Beginnings
  <2>7. Holds(w)' /\ CopiesSoFar(w)'
    BY <1>1 DEF Holds, CopiesSoFar
  <2> QED
    BY <1>1, <1>2, <2>6, <2>7, Begins
<1>5. CASE committed[n] = 0
  <2> DEFINE first == IF n \in Compose THEN "up" ELSE IF n \in Pulled THEN "pull" ELSE "make"
             o == [Idle EXCEPT !.kind = "create", !.name = n, !.pc = first]
  <2>1. op' = [op EXCEPT ![c] = o]
    BY <1>5 DEF createOrRestore
  <2>2. first \in Beginnings /\ first \in CreatePoints /\ (first \in {"up", "services"} => n \in Compose)
        /\ (first \in {"pull", "make"} => n \notin Compose)
    BY DockerFacts DEF Beginnings, CreatePoints
  <2> HIDE DEF first
  <2>3. /\ o \in Ops /\ o.kind = "create" /\ o.name = n /\ o.pc = first /\ o.id = 0
        /\ o.ref = 0 /\ o.deletes = {}
    BY <2>2, RestingFacts DEF Ops, Idle
  <2>4. SetOp(c, o)
    BY <1>3, <2>1 DEF SetOp
  <2> HIDE DEF o
  <2>. PICK w \in Ops : /\ SetOp(c, w) /\ w.kind = "create" /\ w.name = n /\ w.pc = first /\ w.id = 0
                        /\ w.ref = 0 /\ w.deletes = {}
    BY <2>3, <2>4
  <2>5. Placed(w)
    BY <2>2 DEF Placed
  <2>6. Holds(w)' /\ CopiesSoFar(w)'
    BY <1>1 DEF Holds, CopiesSoFar
  <2> QED
    BY <1>1, <1>2, <2>5, <2>6, Begins
<1> QED
  BY <1>4, <1>5

\* Snapshot lists the diff; nothing is copied yet.
LEMMA SnapshotBegins ==
  ASSUME DInv, NEW c \in Callers, NEW n \in Names, Snapshot(c, n)
  PROVE  DInv'
<1> DEFINE k == ctr[held[n]]
           o == [Idle EXCEPT !.kind = "snapshot", !.pc = "copy", !.name = n, !.cmd = k.cmd,
                   !.todo = Modified(k.fs), !.deletes = Deleted(k.fs), !.was = k.fs]
<1>1. /\ driver.up /\ op[c] = Idle /\ ~Busy(n) /\ held[n] \in handles /\ n \notin Compose
      /\ op' = [op EXCEPT ![c] = [Idle EXCEPT !.kind = "snapshot", !.pc = "copy", !.name = n,
                  !.cmd = ctr[held[n]].cmd, !.todo = Modified(ctr[held[n]].fs),
                  !.deletes = Deleted(ctr[held[n]].fs), !.was = ctr[held[n]].fs]]
      /\ UNCHANGED <<ctr, cached, handles, refs, held, committed, driver, faults, excused>>
  BY DEF Snapshot, KeepDriver
<1>2. op \in [Callers -> Ops] /\ k \in Containers
  BY <1>1 DEF DInv, DTyped
<1>3. SetOp(c, o)
  BY <1>1, <1>2 DEF SetOp
<1>4. k.cmd \in Commands /\ k.fs \in [Paths -> Bodies]
  BY <1>2 DEF Containers
<1> HIDE DEF k
<1>5. Modified(k.fs) \in SUBSET Paths /\ Deleted(k.fs) \in SUBSET Paths
  BY DockerFacts DEF Modified, Deleted
<1>6. /\ o \in Ops /\ o.kind = "snapshot" /\ o.pc = "copy" /\ o.name = n /\ o.id = 0 /\ o.todo = Modified(k.fs)
      /\ o.deletes = Deleted(k.fs) /\ o.was = k.fs /\ o.diff = {}
  BY <1>4, <1>5, RestingFacts DEF Ops, Idle
<1> HIDE DEF o
<1>. PICK w \in Ops : /\ SetOp(c, w) /\ w.kind = "snapshot" /\ w.pc = "copy" /\ w.name = n /\ w.id = 0
                      /\ w.was = k.fs /\ w.todo = Modified(w.was) /\ w.deletes = Deleted(w.was) /\ w.diff = {}
  BY <1>3, <1>6
<1>7. Placed(w)
  BY <1>1 DEF Placed
<1>8. Holds(w)'
  BY <1>1 DEF Holds
<1>9. CopiesSoFar(w)'
  <2>1. ctr'[held'[w.name]].fs = w.was
    BY <1>1 DEF k
  <2>2. Modified(w.was)' = Modified(w.was) /\ Deleted(w.was)' = Deleted(w.was)
    BY DEF Modified, Deleted
  <2>3. w.todo \subseteq Paths
    BY <1>5
  <2> QED
    BY <2>1, <2>2, <2>3 DEF CopiesSoFar
<1> QED
  BY <1>1, <1>7, <1>8, <1>9, Begins

\* Destroy deregisters before it removes.
LEMMA DestroyBegins ==
  ASSUME DInv, NEW c \in Callers, NEW n \in Names, destroyBegin(c, n)
  PROVE  DInv'
<1> DEFINE o == [Idle EXCEPT !.kind = "destroy", !.pc = "remove", !.name = n, !.id = held[n]]
<1>1. /\ driver.up /\ op[c] = Idle /\ ~Busy(n) /\ held[n] \in handles /\ handles' = handles \ {held[n]}
      /\ op' = [op EXCEPT ![c] = o]
      /\ UNCHANGED <<ctr, cached, refs, held, committed, driver, faults, excused>>
  BY DEF destroyBegin
<1>2. DTyped /\ op \in [Callers -> Ops] /\ held[n] \in 0 .. MaxIds /\ held[n] # 0 /\ HeldGood(n) /\ HandleGood(held[n])
  BY <1>1, DockerFacts DEF DInv, DGlobals, DTyped, Ids
<1>2a. Alive(held[n])
  BY <1>2 DEF HandleGood
<1>3. SetOp(c, o)
  BY <1>1, <1>2 DEF SetOp
<1>4. o \in Ops /\ o.kind = "destroy" /\ o.pc = "remove" /\ o.name = n /\ o.id = held[n]
  BY <1>2, RestingFacts DEF Ops, Idle
<1> HIDE DEF o
<1>. PICK w \in Ops : SetOp(c, w) /\ w.kind = "destroy" /\ w.pc = "remove" /\ w.name = n /\ w.id = held[n]
  BY <1>3, <1>4
<1>5. Placed(w)
  BY <1>2 DEF Placed
<1>6. Holds(w)'
  BY <1>1, <1>2, <1>2a DEF Holds, HeldGood, Alive
<1>7. CopiesSoFar(w)'
  BY DEF CopiesSoFar
<1> QED
  BY <1>1, <1>5, <1>6, <1>7, Begins

\* Any daemon call of a create, a restore or a snapshot fails.
LEMMA FailsSafe ==
  ASSUME DInv, NEW c \in Callers, NEW pc \in Stages \cup Beginnings \cup {"copy"}, Fails(c, pc)
  PROVE  DInv'
<1>1. /\ op[c].pc = pc /\ driver.up /\ faults' \in 0 .. MaxFaults
      /\ UNCHANGED <<ctr, cached, handles, refs, held, committed, driver, excused>>
  BY ChargeTyped DEF Fails, Calls, KeepDriver, DInv
<1>2. CASE op[c].id = 0
  <2>1. Return(c)
    BY <1>2 DEF Fails
  <2>2. /\ cached' \subseteq Names /\ committed' \in [Names -> 0 .. Len(refs)] /\ \A n \in Compose : committed'[n] = 0
    BY <1>1 DEF DInv, DTyped
  <2> QED
    BY <1>1, <1>2, <2>1, <2>2, Quits
<1>3. CASE op[c].id # 0
  <2>1. op[c].pc \in Stages
    BY <1>1, <1>3, KindOfPoint DEF Beginnings
  <2> QED
    BY <1>1, <2>1, Failing
<1> QED
  BY <1>2, <1>3

\* pullByDigest: refused, pulled, or failed.
LEMMA Pulls ==
  ASSUME DInv, NEW c \in Callers, pullIfAbsent(c)
  PROVE  DInv'
<1>1. CASE /\ Ok(c, "pull") /\ KeepDriver /\ UNCHANGED <<ctr, handles, refs, faults, excused>>
           /\ \/ Return(c) /\ UNCHANGED cached
              \/ Proceed(c, "make") /\ cached' = cached \cup {op[c].name}
  <2>1. /\ op[c].pc = "pull" /\ UNCHANGED <<ctr, handles, refs, held, committed, driver, faults, excused>>
    BY <1>1 DEF Ok, Calls, KeepDriver
  <2>2. op[c].kind = "create" /\ op[c].id = 0 /\ Placed(op[c]) /\ DTyped
    BY <2>1, KindOfPoint DEF Beginnings, DInv, CallerGood
  <2>3. /\ cached \subseteq Names /\ committed' \in [Names -> 0 .. Len(refs)] /\ \A n \in Compose : committed'[n] = 0
        /\ faults' \in 0 .. MaxFaults /\ op[c].name \in Names
    BY <2>1, <2>2 DEF DTyped, Placed
  <2>4. CASE Return(c) /\ UNCHANGED cached
    BY <2>1, <2>2, <2>3, <2>4, Quits
  <2>5. CASE Proceed(c, "make") /\ cached' = cached \cup {op[c].name}
    <3>1. "make" \in Points /\ op[c].name \notin Compose
      BY <2>1, <2>2 DEF Points, CreatePoints, Placed
    <3>2. PICK o \in Ops : /\ SetOp(c, o) /\ o.pc = "make" /\ o.kind = op[c].kind /\ o.id = op[c].id
                           /\ o.name = op[c].name /\ o.ref = op[c].ref /\ o.deletes = op[c].deletes
      BY <2>2, <2>5, <3>1, ProceedOp
    <3>3. Placed(o)
      BY <2>2, <3>1, <3>2 DEF Placed, CreatePoints, Beginnings
    <3>4. CopiesSoFar(o)'
      BY <2>2, <3>2 DEF CopiesSoFar
    <3>5. cached' \subseteq Names
      BY <2>3, <2>5
    <3> QED
      BY <2>1, <2>2, <2>3, <3>2, <3>3, <3>4, <3>5, GoesOn
  <2> QED
    BY <1>1, <2>4, <2>5
<1>2. CASE Fails(c, "pull")
  BY <1>2, FailsSafe DEF Beginnings
<1> QED
  BY <1>1, <1>2 DEF pullIfAbsent

\* A runtime the engine does not hold.
LEMMA HeldKept ==
  ASSUME DTyped, NEW n \in Names, held[n] = 0, UNCHANGED held
  PROVE  held' = [held EXCEPT ![n] = 0]
BY DEF DTyped

\* cleanupPartialContainer removes the container, or an error names it.
LEMMA CleansUp ==
  ASSUME DInv, NEW c \in Callers, cleanupPartialContainer(c)
  PROVE  DInv'
<1> DEFINE id == op[c].id
<1>1. /\ op[c].pc = "cleanup" /\ Return(c) /\ UNCHANGED <<cached, handles, refs, held, committed, driver>>
  BY DEF cleanupPartialContainer, Calls, KeepDriver
<1>2. /\ op[c].kind \in {"create", "restore"} /\ id \in Ids /\ id # 0
      /\ CallerGood(c) /\ DTyped
  BY <1>1, KindOfPoint, OpTyped DEF Stages, DInv
<1>3. held[op[c].name] = 0 /\ op[c].name \in Names /\ id \notin handles
  BY <1>2 DEF CallerGood, Holds, Placed
<1>4. held' = [held EXCEPT ![op[c].name] = 0]
  BY <1>1, <1>2, <1>3, HeldKept
<1>5. CASE ctr' = [ctr EXCEPT ![id] = Removed] /\ UNCHANGED <<faults, excused>>
  <2>1. SetCtr(id, Removed)
    BY <1>2, <1>5 DEF SetCtr, DTyped
  <2>2. Removed # ctr[id] /\ faults' \in 0 .. MaxFaults
    BY <1>2, <1>5, RestingFacts DEF CallerGood, Holds, Alive, DTyped
  <2> QED
    BY <1>1, <1>2, <1>3, <1>4, <1>5, <2>1, <2>2, Finishes
<1>6. CASE /\ faults < MaxFaults /\ faults' = faults + 1
           /\ excused' = excused \cup {id}
           /\ ctr' \in {ctr, [ctr EXCEPT ![id] = Removed]}
  <2>1. SetCtr(id, ctr[id]) \/ SetCtr(id, Removed)
    <3>1. CASE UNCHANGED ctr
      BY <1>2, <3>1, SameCtr
    <3>2. CASE ctr' = [ctr EXCEPT ![id] = Removed]
      BY <1>2, <3>2 DEF SetCtr, DTyped
    <3> QED
      BY <1>6, <3>1, <3>2
  <2>2. Removed # ctr[id] /\ faults' \in 0 .. MaxFaults
    <3>1. Removed # ctr[id]
      BY <1>2, RestingFacts DEF CallerGood, Holds, Alive
    <3>2. faults' \in 0 .. MaxFaults
      BY <1>2, <1>6, DockerFacts DEF DTyped
    <3> QED
      BY <3>1, <3>2
  <2> QED
    BY <1>1, <1>2, <1>3, <1>4, <1>6, <2>1, <2>2, Finishes
<1> QED
  BY <1>5, <1>6 DEF cleanupPartialContainer

\* The engine registers the container it has made.
LEMMA Registers ==
  ASSUME DInv, NEW c \in Callers, op[c].pc \in Stages, Return(c),
         handles' = handles \cup {op[c].id}, held' = [held EXCEPT ![op[c].name] = op[c].id],
         UNCHANGED <<ctr, cached, refs, committed, driver, faults, excused>>
  PROVE  DInv'
<1>1. op[c].kind \in {"create", "restore"} /\ op[c].id \in Ids /\ op[c].id # 0 /\ CallerGood(c) /\ DTyped
  BY KindOfPoint, OpTyped DEF DInv
<1>2. SetCtr(op[c].id, ctr[op[c].id])
  BY <1>1, SameCtr
<1>3. Removed # ctr[op[c].id] /\ faults' \in 0 .. MaxFaults
  BY <1>1, RestingFacts DEF CallerGood, Holds, Alive, DTyped
<1> QED
  BY <1>1, <1>2, <1>3, Finishes

\* waitReady: registered, or left to be removed.
LEMMA ReadyOrNot ==
  ASSUME DInv, NEW c \in Callers, waitReady(c)
  PROVE  DInv'
<1>1. CASE Fails(c, "ready")
  BY <1>1, FailsSafe DEF Stages
<1>2. CASE ~Fails(c, "ready")
  <2>1. op[c].pc = "ready" /\ driver.up /\ UNCHANGED <<ctr, cached, refs, committed, driver, faults, excused>>
    BY <1>2 DEF waitReady, Ok, Calls
  <2>2. op[c].pc \in Stages
    BY <2>1 DEF Stages
  <2>3. CASE handles' = handles \cup {op[c].id} /\ held' = [held EXCEPT ![op[c].name] = op[c].id] /\ Return(c)
    BY <2>1, <2>2, <2>3, Registers
  <2>4. CASE Proceed(c, "cleanup") /\ UNCHANGED <<handles, held>>
    <3>1. faults' \in 0 .. MaxFaults
      BY <2>1 DEF DInv, DTyped
    <3> QED
      BY <2>1, <2>2, <2>4, <3>1, CleanupBegins
  <2> QED
    BY <1>2, <2>3, <2>4 DEF waitReady
<1> QED
  BY <1>1, <1>2

\* resolveComposeContainer: registered, or brought down again.
LEMMA ComposePrepared ==
  ASSUME DInv, NEW c \in Callers, prepareComposeRuntimeDirs(c)
  PROVE  DInv'
<1>1. CASE Fails(c, "services")
  BY <1>1, FailsSafe DEF Stages
<1>2. CASE ~Fails(c, "services")
  <2>1. op[c].pc = "services" /\ driver.up /\ UNCHANGED <<ctr, cached, refs, committed, driver, faults, excused>>
    BY <1>2 DEF prepareComposeRuntimeDirs, Ok, Calls
  <2>2. op[c].pc \in Stages
    BY <2>1 DEF Stages
  <2>3. CASE handles' = handles \cup {op[c].id} /\ held' = [held EXCEPT ![op[c].name] = op[c].id] /\ Return(c)
    BY <2>1, <2>2, <2>3, Registers
  <2>4. CASE Proceed(c, "cleanup") /\ UNCHANGED <<handles, held>>
    <3>1. faults' \in 0 .. MaxFaults
      BY <2>1 DEF DInv, DTyped
    <3> QED
      BY <2>1, <2>2, <2>4, <3>1, CleanupBegins
  <2> QED
    BY <1>2, <2>3, <2>4 DEF prepareComposeRuntimeDirs
<1> QED
  BY <1>1, <1>2

\* Destroy: removed, or registered again, or named in an error.
LEMMA DestroyEnds ==
  ASSUME DInv, NEW c \in Callers, destroyRemove(c)
  PROVE  DInv'
<1> DEFINE id == op[c].id
<1>1. /\ op[c].pc = "remove" /\ Return(c) /\ UNCHANGED <<cached, refs, committed, driver>>
      /\ held' = [held EXCEPT ![op[c].name] = 0]
  BY DEF destroyRemove, Calls
<1>2. op[c].kind = "destroy" /\ id \in Ids /\ id # 0 /\ CallerGood(c) /\ DTyped
  BY <1>1, KindOfPoint, OpTyped DEF DInv
<1>3. id \notin handles /\ Removed # ctr[id]
  BY <1>2, RestingFacts DEF CallerGood, Holds, Alive
<1>4. CASE ctr' = [ctr EXCEPT ![id] = Removed] /\ UNCHANGED <<handles, faults, excused>>
  <2>1. SetCtr(id, Removed) /\ faults' \in 0 .. MaxFaults
    BY <1>2, <1>4 DEF SetCtr, DTyped
  <2> QED
    BY <1>1, <1>2, <1>3, <1>4, <2>1, Finishes
<1>5. CASE /\ faults < MaxFaults /\ faults' = faults + 1
           /\ ctr' \in {ctr, [ctr EXCEPT ![id] = Removed]}
           /\ IF op[c].name \in Compose
                THEN excused' = excused \cup {id} /\ UNCHANGED handles
                ELSE handles' = handles \cup {id} /\ UNCHANGED excused
  <2>1. SetCtr(id, ctr[id]) \/ SetCtr(id, Removed)
    <3>1. CASE UNCHANGED ctr
      BY <1>2, <3>1, SameCtr
    <3>2. CASE ctr' = [ctr EXCEPT ![id] = Removed]
      BY <1>2, <3>2 DEF SetCtr, DTyped
    <3> QED
      BY <1>5, <3>1, <3>2
  <2>2. faults' \in 0 .. MaxFaults
    BY <1>2, <1>5, DockerFacts DEF DTyped
  <2> QED
    BY <1>1, <1>2, <1>3, <1>5, <2>1, <2>2, Finishes
<1> QED
  BY <1>4, <1>5 DEF destroyRemove

\* The daemon has an id for a create that has none.
LEMMA FreshUnused ==
  ASSUME DInv, NEW c \in Making
  PROVE  Fresh \in Unused
<1>1. Cardinality(Making) # 0
  <2>1. Making # {}
    OBVIOUS
  <2> QED
    BY <2>1, CardinalitiesTyped, FS_EmptySet
<1>2. Cardinality(Unused) # 0
  BY <1>1, CardinalitiesTyped DEF DInv, DGlobals, Reserved
<1>3. Unused # {}
  BY <1>2, CardinalitiesTyped, FS_EmptySet
<1>4. \E id \in Ids : ctr[id].st = "none"
  BY <1>3 DEF Unused
<1> QED
  BY <1>4 DEF Fresh, Unused

\* An id that is nobody's: unused, or a project left behind that a create adopts.
Nobodys(id) == id \notin handles /\ \A d \in Callers : op[d].id # id

\* An unused id is in no registry and in no call.
LEMMA UnusedIsNobodys ==
  ASSUME DInv, NEW id \in Unused
  PROVE  id \in Ids /\ id # 0 /\ Nobodys(id)
<1>1. id \in Ids /\ id # 0 /\ ~Alive(id) /\ ctr[id].st # "removed"
  BY DEF Unused, Alive, Ids
<1>2. id \notin handles
  BY <1>1 DEF DInv, DGlobals, HandleGood
<1>3. \A d \in Callers : op[d].id # id
  BY <1>1 DEF DInv, CallerGood, Holds
<1> QED
  BY <1>1, <1>2, <1>3 DEF Nobodys

\* A create has its container.
LEMMA Gains ==
  ASSUME DInv, NEW c \in Making, NEW id \in Ids, Nobodys(id), NEW k \in Containers, NEW o \in Ops,
         SetOp(c, o), SetCtr(id, k), k.name = op[c].name, k.st \in Living, k.done <= Len(k.cmd),
         o.id = id, o.kind = op[c].kind, o.name = op[c].name, Placed(o), Restores(o)', Creates(o)',
         excused' \subseteq Ids, excused \ {id} \subseteq excused', cached' \subseteq Names,
         UNCHANGED <<handles, refs, held, committed, driver>>, faults' \in 0 .. MaxFaults
  PROVE  DInv'
<1>0. DTyped /\ c \in Callers /\ op[c].kind \in {"create", "restore"} /\ op[c].id = 0 /\ id # 0 /\ CallerGood(c)
  BY DEF DInv, Making, Ids
<1>1. op' \in [Callers -> Ops] /\ op'[c] = o /\ \A d \in Callers \ {c} : op'[d] = op[d]
  BY <1>0, SetOpTyped
<1>2. /\ ctr' \in [Ids -> Containers] /\ \A i \in Ids : ctr'[i].done <= Len(ctr'[i].cmd)
      /\ ctr'[id] = k /\ \A i \in Ids \ {id} : ctr'[i] = ctr[i]
  BY <1>0, SetCtrTyped
<1>3. DTyped'
  BY <1>0, <1>1, <1>2 DEF DTyped
<1>4. ASSUME NEW d \in Callers, d # c PROVE CallerGood(d)'
  <2>1. CallerGood(d) /\ op[d].id # id /\ id \notin handles /\ handles \subseteq Ids
    BY <1>0 DEF DInv, DTyped, Nobodys
  <2>2. op[d].id # 0 => op[d].id \in Ids
    BY <1>0, OpTyped
  <2>3. Untouched(d)
    BY <1>1, <1>2, <1>4, <2>1, <2>2 DEF Untouched, CallerGood, Holds
  <2> QED
    BY <1>0, <1>3, <2>1, <2>3, UntouchedGood DEF Longer, DTyped
<1>5. CallerGood(c)'
  <2>1. Holds(o)'
    BY <1>0, <1>2 DEF Holds, CallerGood, Nobodys, Alive, Living
  <2>2. Placed(o)' /\ CopiesSoFar(o)'
    BY <1>0 DEF Placed, CopiesSoFar
  <2> QED
    BY <1>1, <2>1, <2>2 DEF CallerGood
<1>6. OneCallPerName' /\ Asleep'
  <2>1. driver'.up
    BY <1>0, RestingFacts DEF DInv, DGlobals, Asleep
  <2>2. Asleep'
    BY <2>1 DEF Asleep
  <2>3. OneCallPerName'
    BY <1>0, <1>1 DEF DInv, DGlobals, OneCallPerName
  <2> QED
    BY <2>2, <2>3
<1>7. Reserved'
  <2>1. Making' = Making \ {c}
    BY <1>0, <1>1 DEF Making
  <2>2. CASE id \in Unused
    <3>1. Unused' = Unused \ {id}
      BY <1>2, <2>2 DEF Unused, Living
    <3> QED
      BY <2>1, <2>2, <3>1, ReservedTaken DEF DInv, DGlobals
  <2>3. CASE id \notin Unused
    <3>1. Unused' = Unused
      BY <1>2, <2>3 DEF Unused, Living
    <3>2. Making' \subseteq Making
      BY <2>1
    <3> QED
      BY <3>1, <3>2, ReservedKept DEF DInv, DGlobals
  <2> QED
    BY <2>2, <2>3
<1>8. ASSUME NEW n \in Names PROVE HeldGood(n)'
  <2>1. HeldGood(n) /\ held[n] \in 0 .. MaxIds
    BY <1>0 DEF DInv, DGlobals, DTyped
  <2>2. held[n] # 0 => held[n] \in Ids /\ held[n] # id
    BY <2>1 DEF HeldGood, Nobodys, Ids
  <2> QED
    BY <1>0, <1>1, <1>2, <2>1, <2>2 DEF HeldGood
<1>9. ASSUME NEW i \in handles' PROVE HandleGood(i)'
  <2>1. i \in handles /\ i \in Ids /\ i # id /\ HandleGood(i)
    BY <1>0, <1>9 DEF DTyped, DInv, DGlobals, Nobodys
  <2> QED
    BY <1>2, <2>1 DEF HandleGood, Alive
<1>10. ASSUME NEW i \in Ids PROVE AccountedFor(i)'
  <2>1. CASE i = id
    BY <1>0, <1>1, <2>1 DEF AccountedFor
  <2>2. CASE i # id
    <3>1. AccountedFor(i) /\ ctr'[i] = ctr[i] /\ i # 0
      BY <1>2, <2>2 DEF DInv, DGlobals, Ids
    <3> QED
      BY <1>0, <1>1, <2>2, <3>1 DEF AccountedFor, Alive
  <2> QED
    BY <2>1, <2>2
<1>11. SnapshotExact'
  BY DEF DInv, SnapshotExact
<1> QED
  BY <1>3, <1>4, <1>5, <1>6, <1>7, <1>8, <1>9, <1>10, <1>11 DEF DInv, DGlobals

\* The container a create or a restore asks for is a container.
LEMMA AskedTyped ==
  ASSUME DInv, NEW c \in Callers, op[c].pc = "make"
  PROVE  LET k == Asked(op[c]) IN
         /\ k \in Containers /\ k.st = "created" /\ k.name = op[c].name /\ k.from = op[c].ref
         /\ k.cmd = (IF op[c].kind = "restore" THEN restoreContainerConfig(op[c]) ELSE <<>>)
         /\ k.done = 0 /\ k.at = "deletes" /\ k.fs = Image /\ k.done <= Len(k.cmd)
<1> DEFINE cmd == IF op[c].kind = "restore" THEN restoreContainerConfig(op[c]) ELSE <<>>
           k == [NoContainer EXCEPT !.st = "created", !.name = op[c].name, !.from = op[c].ref, !.cmd = cmd]
<1>1. op[c].kind \in {"create", "restore"} /\ op[c].id = 0 /\ Placed(op[c]) /\ DTyped
  BY KindOfPoint DEF Beginnings, DInv, CallerGood
<1>2. cmd \in Commands
  <2>1. CASE op[c].kind = "restore"
    <3>1. op[c].ref \in 1 .. Len(refs) /\ op[c].deletes = refs[op[c].ref].deletes
      BY <1>1, <2>1 DEF Placed
    <3>2. refs[op[c].ref].cmd \in Commands /\ op[c].deletes \in SUBSET Paths /\ op[c].ref \in Refs
      BY <1>1, <3>1, SnapshotTyped
    <3>3. refs[op[c].ref].cmd \in Commands /\ <<[tok |-> op[c].ref, deletes |-> op[c].deletes]>> \in Commands
      BY <3>2 DEF Commands
    <3>4. <<[tok |-> op[c].ref, deletes |-> op[c].deletes]>> \o refs[op[c].ref].cmd \in Commands
      BY <3>3 DEF Commands
    <3> QED
      BY <2>1, <3>3, <3>4 DEF restoreContainerConfig, cmd
  <2>2. CASE op[c].kind # "restore"
    BY <2>2 DEF Commands
  <2> QED
    BY <2>1, <2>2
<1>3. op[c].ref \in 0 .. MaxRefs /\ op[c].name \in Names
  BY <1>1, OpTyped DEF Ops, Placed
<1>4. Asked(op[c]) = k
  BY DEF Asked
<1> HIDE DEF cmd
<1>5. /\ k \in Containers /\ k.st = "created" /\ k.name = op[c].name /\ k.from = op[c].ref /\ k.cmd = cmd
      /\ k.done = 0 /\ k.at = "deletes" /\ k.fs = Image
  BY <1>2, <1>3, RestingFacts DEF NoContainer, Containers
<1>6. k.done <= Len(k.cmd)
  BY <1>2, <1>5 DEF Commands
<1> HIDE DEF k
<1> QED
  BY <1>4, <1>5, <1>6 DEF cmd

\* The daemon made the container and the call returned an error.
AnswerLost(c) ==
  /\ Calls(c, "make") /\ MayFail /\ Charge
  /\ ctr' = [ctr EXCEPT ![Fresh] = Asked(op[c])]
  /\ cached' = cached \cup {op[c].name}
  /\ excused' = excused \cup {Fresh}
  /\ Return(c) /\ KeepDriver
  /\ UNCHANGED <<handles, refs>>

\* A container whose answer was lost belongs to nobody.
LEMMA LosesAnswer ==
  ASSUME DInv, NEW c \in Callers, AnswerLost(c)
  PROVE  DInv'
<1> DEFINE id == Fresh
           k == Asked(op[c])
<1>1. /\ op[c].pc = "make" /\ driver.up /\ Return(c)
      /\ UNCHANGED <<handles, refs, held, committed, driver>>
  BY DEF AnswerLost, Calls, KeepDriver
<1>2. op[c].kind \in {"create", "restore"} /\ op[c].id = 0 /\ Placed(op[c]) /\ DTyped
  BY <1>1, KindOfPoint DEF Beginnings, DInv, CallerGood
<1>3. c \in Making /\ id \in Unused /\ id \in Ids /\ id # 0 /\ Nobodys(id)
  BY <1>2, FreshUnused, UnusedIsNobodys DEF Making
<1>4. k \in Containers /\ k.st = "created" /\ k.done <= Len(k.cmd)
  BY <1>1, AskedTyped
<1>5. SetCtr(id, k)
  BY <1>2, <1>3 DEF AnswerLost, SetCtr, DTyped
<1>6. faults' \in 0 .. MaxFaults /\ cached' \subseteq Names /\ excused' = excused \cup {id}
  <2>1. faults' \in 0 .. MaxFaults
    BY <1>1, ChargeTyped DEF AnswerLost, DInv
  <2>2. op[c].name \in Names
    BY <1>2 DEF Placed
  <2> QED
    BY <1>2, <2>1, <2>2 DEF AnswerLost, DTyped
<1> HIDE DEF id, k
<1>7. op' \in [Callers -> Ops] /\ op'[c] = Idle /\ \A d \in Callers \ {c} : op'[d] = op[d]
  BY <1>1, <1>2, ReturnOp, SetOpTyped, RestingFacts
<1>8. /\ ctr' \in [Ids -> Containers] /\ \A i \in Ids : ctr'[i].done <= Len(ctr'[i].cmd)
      /\ ctr'[id] = k /\ \A i \in Ids \ {id} : ctr'[i] = ctr[i]
  BY <1>2, <1>3, <1>4, <1>5, SetCtrTyped
<1>9. DTyped'
  BY <1>1, <1>2, <1>3, <1>6, <1>7, <1>8 DEF DTyped
<1>10. ASSUME NEW d \in Callers, d # c PROVE CallerGood(d)'
  <2>1. CallerGood(d) /\ op[d].id # id /\ id \notin handles /\ handles \subseteq Ids
    BY <1>2, <1>3 DEF DInv, DTyped, Nobodys
  <2>2. op[d].id # 0 => op[d].id \in Ids
    BY <1>2, OpTyped
  <2>3. Untouched(d)
    BY <1>1, <1>7, <1>8, <1>10, <2>1, <2>2 DEF Untouched, CallerGood, Holds
  <2> QED
    BY <1>1, <1>2, <1>9, <2>1, <2>3, UntouchedGood DEF Longer, DTyped
<1>11. CallerGood(c)'
  BY <1>7, IdleGood
<1>12. OneCallPerName' /\ Asleep'
  <2>1. Asleep'
    BY <1>1 DEF Asleep
  <2>2. OneCallPerName'
    BY <1>7, RestingFacts DEF DInv, DGlobals, OneCallPerName
  <2> QED
    BY <2>1, <2>2
<1>13. Reserved'
  <2>1. Making' = Making \ {c}
    BY <1>2, <1>7, RestingFacts DEF Making
  <2>2. Unused' = Unused \ {id}
    BY <1>4, <1>8 DEF Unused
  <2> QED
    BY <1>3, <2>1, <2>2, ReservedTaken DEF DInv, DGlobals
<1>14. ASSUME NEW n \in Names PROVE HeldGood(n)'
  <2>1. HeldGood(n) /\ held[n] \in 0 .. MaxIds
    BY <1>2 DEF DInv, DGlobals, DTyped
  <2>2. held[n] # 0 => held[n] \in Ids /\ held[n] # id
    BY <1>3, <2>1 DEF HeldGood, Nobodys, Ids
  <2>3. \A d \in Callers : op[d].kind = "destroy" => d # c
    BY <1>2
  <2> QED
    BY <1>1, <1>7, <1>8, <2>1, <2>2, <2>3 DEF HeldGood
<1>15. ASSUME NEW i \in handles' PROVE HandleGood(i)'
  <2>1. i \in handles /\ i \in Ids /\ i # id /\ HandleGood(i)
    BY <1>1, <1>2, <1>3, <1>15 DEF DTyped, DInv, DGlobals, Nobodys
  <2> QED
    BY <1>1, <1>8, <2>1 DEF HandleGood, Alive
<1>16. ASSUME NEW i \in Ids PROVE AccountedFor(i)'
  <2>1. CASE i = id
    BY <1>6, <2>1 DEF AccountedFor
  <2>2. CASE i # id
    <3>1. AccountedFor(i) /\ ctr'[i] = ctr[i] /\ i # 0
      BY <1>8, <2>2 DEF DInv, DGlobals, Ids
    <3> QED
      BY <1>1, <1>2, <1>6, <1>7, <2>2, <3>1 DEF AccountedFor, Alive
  <2> QED
    BY <2>1, <2>2
<1>17. SnapshotExact'
  BY <1>1 DEF DInv, SnapshotExact
<1> QED
  BY <1>9, <1>10, <1>11, <1>12, <1>13, <1>14, <1>15, <1>16, <1>17 DEF DInv, DGlobals

\* ContainerCreate: refused, created, made with its answer lost, or failed.
LEMMA ContainerCreates ==
  ASSUME DInv, NEW c \in Callers, ContainerCreate(c)
  PROVE  DInv'
<1>1. CASE Fails(c, "make")
  BY <1>1, FailsSafe DEF Beginnings
<1>3. CASE AnswerLost(c)
  BY <1>3, LosesAnswer
<1>2. CASE ~Fails(c, "make") /\ ~AnswerLost(c)
  <2>1. /\ op[c].pc = "make" /\ driver.up
        /\ UNCHANGED <<handles, refs, held, committed, driver, faults, excused>>
    BY <1>2 DEF ContainerCreate, AnswerLost, Ok, Calls, KeepDriver
  <2>2. op[c].kind \in {"create", "restore"} /\ op[c].id = 0 /\ Placed(op[c]) /\ DTyped
    BY <2>1, KindOfPoint DEF Beginnings, DInv, CallerGood
  <2>3. /\ cached \subseteq Names /\ committed' \in [Names -> 0 .. Len(refs)] /\ \A n \in Compose : committed'[n] = 0
        /\ faults' \in 0 .. MaxFaults /\ op[c].name \in Names /\ op[c].name \notin Compose
        /\ excused' \subseteq Ids
    BY <2>1, <2>2 DEF DTyped, Placed
  <2>4. CASE Return(c) /\ UNCHANGED <<ctr, cached>>
    BY <2>1, <2>2, <2>3, <2>4, Quits
  <2>5. CASE /\ ctr' = [ctr EXCEPT ![Fresh] = Asked(op[c])]
             /\ op' = [op EXCEPT ![c].id = Fresh,
                  ![c].pc = IF op[c].kind = "restore" THEN "extract" ELSE "dirs"]
             /\ cached' = cached \cup {op[c].name}
    <3>1. c \in Making /\ Fresh \in Ids /\ Fresh # 0 /\ Nobodys(Fresh)
      BY <2>2, FreshUnused, UnusedIsNobodys DEF Making
    <3> DEFINE k == Asked(op[c])
               next == IF op[c].kind = "restore" THEN "extract" ELSE "dirs"
               o == [op[c] EXCEPT !.id = Fresh, !.pc = next]
    <3>3. op[c] \in Ops
      BY <2>2, OpTyped
    <3>4. /\ k \in Containers /\ k.st = "created" /\ k.name = op[c].name /\ k.from = op[c].ref
          /\ k.cmd = (IF op[c].kind = "restore" THEN restoreContainerConfig(op[c]) ELSE <<>>)
          /\ k.done = 0 /\ k.at = "deletes" /\ k.fs = Image /\ k.done <= Len(k.cmd)
      BY <2>1, AskedTyped
    <3>5. SetCtr(Fresh, k)
      BY <2>2, <2>5, <3>1 DEF SetCtr, DTyped
    <3>6. next \in CreatePoints \cup RestorePoints /\ Fresh \in 0 .. MaxIds
      BY <3>1 DEF CreatePoints, RestorePoints, Ids
    <3>7. /\ o \in Ops /\ o.id = Fresh /\ o.pc = next /\ o.kind = op[c].kind /\ o.name = op[c].name
          /\ o.ref = op[c].ref /\ o.deletes = op[c].deletes
      BY <3>3, <3>6 DEF Ops
    <3>8. SetOp(c, o)
      BY <2>2, <2>5 DEF SetOp, DTyped
    <3> HIDE DEF k, o
    <3>10. PICK i \in Ids : i = Fresh
      BY <3>1
    <3>11. PICK kk \in Containers : kk = k
      BY <3>4
    <3>12. PICK w \in Ops : w = o
      BY <3>7
    <3>13. Placed(w)
      BY <2>1, <2>2, <3>1, <3>7, <3>12 DEF Placed, CreatePoints, RestorePoints, Beginnings
    <3>14. ctr'[i] = kk /\ i # 0 /\ w.id = i
      BY <3>1, <3>5, <3>7, <3>10, <3>11, <3>12 DEF SetCtr
    <3>15. Creates(w)'
      <4>1. w.kind = "create" => kk.from = 0
        BY <2>2, <3>4, <3>7, <3>11, <3>12 DEF Placed
      <4> QED
        BY <3>14, <4>1 DEF Creates
    <3>16. Restores(w)'
      <4>1. CASE w.kind = "restore"
        <5>1. kk.cmd = restoreContainerConfig(w) /\ w.pc = "extract"
          BY <3>4, <3>7, <3>11, <3>12, <4>1 DEF restoreContainerConfig
        <5>2. RestoredSoFar(w, kk)
          BY <3>4, <3>7, <3>11, <3>12, <5>1 DEF RestoredSoFar
        <5>3. RestoredSoFar(w, kk)'
          BY <2>1, <5>2, RestoredLater
        <5> QED
          BY <3>14, <5>3 DEF Restores
      <4> QED
        BY <4>1 DEF Restores
    <3>17. /\ Nobodys(i) /\ SetOp(c, w) /\ SetCtr(i, kk) /\ kk.name = op[c].name /\ kk.st \in Living
           /\ kk.done <= Len(kk.cmd) /\ w.kind = op[c].kind /\ w.name = op[c].name
           /\ excused \ {i} \subseteq excused' /\ cached' \subseteq Names
      BY <2>1, <2>3, <2>5, <3>1, <3>4, <3>5, <3>7, <3>8, <3>10, <3>11, <3>12 DEF Living
    <3> QED
      BY <2>1, <2>3, <3>1, <3>13, <3>14, <3>15, <3>16, <3>17, Gains
  <2> QED
    BY <1>2, <2>4, <2>5 DEF ContainerCreate, AnswerLost
<1> QED
  BY <1>1, <1>2, <1>3

\* A project left behind by an earlier driver is in no registry and in no call.
LEMMA AdoptedIsNobodys ==
  ASSUME DInv, NEW c \in Making, op[c].name \in Compose, NEW id \in Owner(op[c].name)
  PROVE  id \in Ids /\ id # 0 /\ Nobodys(id)
<1>1. id \in Ids /\ id # 0 /\ ctr[id].name = op[c].name /\ ctr[id].st # "removed"
  BY DEF Owner, Alive, Ids
<1>2. c \in Callers /\ CallerGood(c) /\ op[c].id = 0 /\ op[c].kind \in {"create", "restore"}
  BY DEF Making, DInv
<1>3. id \notin handles
  BY <1>1, <1>2 DEF DInv, DGlobals, HandleGood, CallerGood, Holds
<1>4. ASSUME NEW d \in Callers, op[d].id = id PROVE FALSE
  <2>1. CallerGood(d) /\ op[d].kind # "idle"
    BY <1>1, <1>4, RestingFacts DEF DInv, CallerGood, Placed
  <2>2. op[d].name = op[c].name
    BY <1>1, <1>4, <2>1 DEF CallerGood, Holds
  <2> QED
    BY <1>1, <1>2, <1>4, <2>1, <2>2 DEF DInv, DGlobals, OneCallPerName
<1> QED
  BY <1>1, <1>3, <1>4 DEF Nobodys

\* One outcome of Up: the project is the create's, as far as it came up.
LEMMA ComposeComesUp ==
  ASSUME DInv, NEW c \in Callers, op[c].pc = "up", NEW id \in Ids, Nobodys(id),
         NEW st \in {"running", "created"}, NEW pc \in {"services", "cleanup"},
         ctr' = [ctr EXCEPT ![id] = [NoContainer EXCEPT !.st = st, !.name = op[c].name]],
         op' = [op EXCEPT ![c].id = id, ![c].pc = pc], excused' = excused \ {id},
         UNCHANGED <<cached, handles, refs, held, committed, driver>>, faults' \in 0 .. MaxFaults
  PROVE  DInv'
<1>1. op[c].kind = "create" /\ op[c].id = 0 /\ Placed(op[c]) /\ DTyped /\ op[c] \in Ops /\ c \in Making
  BY KindOfPoint, OpTyped DEF Beginnings, DInv, CallerGood, Making
<1> DEFINE k == [NoContainer EXCEPT !.st = st, !.name = op[c].name]
           o == [op[c] EXCEPT !.id = id, !.pc = pc]
<1>2. op[c].name \in Names /\ op[c].name \in Compose /\ op[c].ref = 0 /\ op[c].deletes = {}
  BY <1>1 DEF Placed
<1>3. /\ k \in Containers /\ k.st = st /\ k.name = op[c].name /\ k.from = 0 /\ k.cmd = <<>> /\ k.done = 0
  BY <1>2, RestingFacts DEF NoContainer, Containers
<1>4. SetCtr(id, k)
  BY <1>1 DEF SetCtr, DTyped
<1>5. pc \in CreatePoints /\ id \in 0 .. MaxIds /\ id # 0
  BY DEF CreatePoints, Ids
<1>6. /\ o \in Ops /\ o.id = id /\ o.pc = pc /\ o.kind = "create" /\ o.name = op[c].name
      /\ o.ref = 0 /\ o.deletes = {}
  BY <1>1, <1>2, <1>5 DEF Ops
<1>7. SetOp(c, o)
  BY <1>1 DEF SetOp, DTyped
<1> HIDE DEF k, o
<1>8. PICK kk \in Containers : kk = k
  BY <1>3
<1>9. PICK w \in Ops : w = o
  BY <1>6
<1>10. Placed(w)
  BY <1>2, <1>5, <1>6, <1>9 DEF Placed, Beginnings
<1>11. Creates(w)' /\ Restores(w)'
  <2>1. ctr'[w.id] = kk /\ kk.from = 0 /\ w.kind = "create"
    BY <1>3, <1>4, <1>6, <1>8, <1>9 DEF SetCtr
  <2> QED
    BY <2>1 DEF Creates, Restores
<1>12. kk.done <= Len(kk.cmd)
  <2>1. kk.done = 0 /\ kk.cmd \in Commands
    BY <1>3, <1>8, RestingFacts
  <2> QED
    BY <2>1 DEF Commands
<1>13. SetOp(c, w) /\ SetCtr(id, kk)
  BY <1>4, <1>7, <1>8, <1>9
<1>14. /\ kk.name = op[c].name /\ kk.st \in Living
       /\ w.id = id /\ w.kind = op[c].kind /\ w.name = op[c].name
  BY <1>1, <1>3, <1>6, <1>8, <1>9 DEF Living
<1>15. /\ excused' \subseteq Ids /\ excused \ {id} \subseteq excused' /\ cached' \subseteq Names
  BY <1>1 DEF DTyped
<1> QED
  BY <1>1, <1>10, <1>11, <1>12, <1>13, <1>14, <1>15, Gains

\* createCompose adopts a project of its name or makes one, up or half up.
LEMMA ComposeUps ==
  ASSUME DInv, NEW c \in Callers, composeUp(c)
  PROVE  DInv'
<1> DEFINE n == op[c].name
           id == IF Owner(n) # {} THEN CHOOSE i \in Owner(n) : TRUE ELSE Fresh
<1>1. /\ op[c].pc = "up" /\ excused' = excused \ {id}
      /\ UNCHANGED <<cached, handles, refs, held, committed, driver>>
  BY DEF composeUp, Calls, KeepDriver
<1>2. c \in Making /\ n \in Compose
  BY <1>1, KindOfPoint DEF Beginnings, Making, DInv, CallerGood, Placed
<1>3. id \in Ids /\ Nobodys(id)
  <2>1. CASE Owner(n) # {}
    BY <1>2, <2>1, AdoptedIsNobodys
  <2>2. CASE Owner(n) = {}
    BY <1>2, <2>2, FreshUnused, UnusedIsNobodys
  <2> QED
    BY <2>1, <2>2
<1>4. CASE /\ ctr' = [ctr EXCEPT ![id] = [NoContainer EXCEPT !.st = "running", !.name = n]]
           /\ op' = [op EXCEPT ![c].id = id, ![c].pc = "services"] /\ UNCHANGED faults
  <2>1. faults' \in 0 .. MaxFaults
    BY <1>4 DEF DInv, DTyped
  <2> HIDE DEF id
  <2> QED
    BY <1>1, <1>3, <1>4, <2>1, ComposeComesUp
<1>5. CASE /\ MayFail /\ Charge
           /\ ctr' = [ctr EXCEPT ![id] = [NoContainer EXCEPT !.st = "created", !.name = n]]
           /\ op' = [op EXCEPT ![c].id = id, ![c].pc = "cleanup"]
  <2>1. faults' \in 0 .. MaxFaults
    BY <1>5, ChargeTyped DEF DInv
  <2> HIDE DEF id
  <2> QED
    BY <1>1, <1>3, <1>5, <2>1, ComposeComesUp
<1> QED
  BY <1>4, <1>5 DEF composeUp

\* The committed step makes the ref the runtime's latest.
LEMMA Commits ==
  ASSUME DInv, NEW c \in Callers, commitStep(c)
  PROVE  DInv'
<1>1. /\ op[c].pc = "commit" /\ Return(c) /\ committed' = [committed EXCEPT ![op[c].name] = op[c].ref]
      /\ UNCHANGED <<ctr, cached, handles, refs, held, driver, faults, excused>>
  BY DEF commitStep, Calls
<1>2. op[c].kind = "snapshot" /\ op[c].id = 0 /\ Placed(op[c]) /\ DTyped
  BY <1>1, KindOfPoint DEF DInv, CallerGood
<1>3. op[c].ref \in 1 .. Len(refs) /\ op[c].name \notin Compose /\ Len(refs) \in Nat
  BY <1>1, <1>2 DEF Placed, DTyped
<1>4. committed' \in [Names -> 0 .. Len(refs)] /\ \A n \in Compose : committed'[n] = 0
  <2>1. committed \in [Names -> 0 .. Len(refs)] /\ (\A n \in Compose : committed[n] = 0)
    BY <1>2 DEF DTyped
  <2>2. \A n \in Names : committed'[n] = IF n = op[c].name THEN op[c].ref ELSE committed[n]
    BY <1>1, <2>1
  <2>3. op[c].ref \in 0 .. Len(refs)
    BY <1>3
  <2>4. committed' \in [Names -> 0 .. Len(refs)]
    BY <1>1, <2>1, <2>3
  <2> QED
    BY <1>3, <2>1, <2>2, <2>4, DockerFacts
<1>5. cached' \subseteq Names /\ faults' \in 0 .. MaxFaults
  BY <1>1, <1>2 DEF DTyped
<1> QED
  BY <1>1, <1>2, <1>4, <1>5, Quits

\* captureOneIntoDiffTar copies one file as it is now.
LEMMA Captures ==
  ASSUME DInv, NEW c \in Callers, captureOneIntoDiffTar(c)
  PROVE  DInv'
<1>1. CASE Fails(c, "copy")
  BY <1>1, FailsSafe
<1>2. CASE ~Fails(c, "copy")
  <2> DEFINE p == CHOOSE q \in op[c].todo : TRUE
             body == ctr[held[op[c].name]].fs[p]
             o == [op[c] EXCEPT !.todo = @ \ {p}, !.diff = @ \cup {[path |-> p, body |-> body]}]
  <2>1. /\ op[c].pc = "copy" /\ op[c].todo # {}
        /\ UNCHANGED <<ctr, cached, handles, refs, held, committed, driver, faults, excused>>
        /\ \/ Return(c)
           \/ /\ body # Gone
              /\ op' = [op EXCEPT ![c].todo = @ \ {p}, ![c].diff = @ \cup {[path |-> p, body |-> body]}]
    BY <1>2 DEF captureOneIntoDiffTar, Ok, Calls, KeepDriver
  <2>2. op[c].kind = "snapshot" /\ op[c].id = 0 /\ CallerGood(c) /\ DTyped /\ op[c] \in Ops
    BY <2>1, KindOfPoint, OpTyped DEF DInv
  <2>3. /\ cached' \subseteq Names /\ committed' \in [Names -> 0 .. Len(refs)] /\ \A n \in Compose : committed'[n] = 0
        /\ faults' \in 0 .. MaxFaults
    BY <2>1, <2>2 DEF DTyped
  <2>4. CASE Return(c)
    BY <2>1, <2>2, <2>3, <2>4, Quits
  <2>5. CASE /\ body # Gone
             /\ op' = [op EXCEPT ![c].todo = @ \ {p}, ![c].diff = @ \cup {[path |-> p, body |-> body]}]
    <3>1. p \in op[c].todo /\ p \in Paths
      BY <2>1, <2>2, OpTyped
    <3>2. body \in Bodies
      <4>1. held[op[c].name] \in handles /\ handles \subseteq Ids
        BY <2>2 DEF CallerGood, Holds, DTyped
      <4>2. ctr[held[op[c].name]] \in Containers
        BY <2>2, <4>1 DEF DTyped
      <4> QED
        BY <3>1, <4>2 DEF Containers
    <3> HIDE DEF p, body
    <3>3. [path |-> p, body |-> body] \in Copied
      BY <3>1, <3>2 DEF Copied
    <3>4. /\ o \in Ops /\ o.kind = "snapshot" /\ o.pc = "copy" /\ o.name = op[c].name /\ o.id = 0
          /\ o.deletes = op[c].deletes /\ o.was = op[c].was /\ o.quiet = op[c].quiet
          /\ o.todo = op[c].todo \ {p} /\ o.diff = op[c].diff \cup {[path |-> p, body |-> body]}
      BY <2>1, <2>2, <3>3 DEF Ops
    <3>5. SetOp(c, o)
      BY <2>2, <2>5 DEF SetOp, DTyped
    <3> HIDE DEF o
    <3>6. PICK w \in Ops : w = o
      BY <3>4
    <3>7. Placed(w)
      BY <2>2, <3>4, <3>6 DEF CallerGood, Placed
    <3>8. CopiesSoFar(w)
      <4>1. w.deletes = Deleted(w.was)
        BY <2>1, <2>2, <3>4, <3>6 DEF CallerGood, CopiesSoFar
      <4>2. ASSUME w.quiet
            PROVE  /\ \A e \in w.diff : e.body = w.was[e.path]
                   /\ \A q \in w.todo : ctr[held[w.name]].fs[q] \in {w.was[q], Gone}
                   /\ \A q \in Modified(w.was) : q \in w.todo \/ \E e \in w.diff : e.path = q
        <5>1. /\ \A e \in op[c].diff : e.body = w.was[e.path]
              /\ \A q \in op[c].todo : ctr[held[w.name]].fs[q] \in {w.was[q], Gone}
              /\ \A q \in Modified(w.was) : q \in op[c].todo \/ \E e \in op[c].diff : e.path = q
          BY <2>1, <2>2, <3>4, <3>6, <4>2 DEF CallerGood, CopiesSoFar
        <5>2. body = w.was[p]
          BY <2>5, <3>1, <3>4, <3>6, <5>1 DEF body
        <5>3. \A e \in w.diff : e.body = w.was[e.path]
          BY <3>4, <3>6, <5>1, <5>2
        <5>4. \A q \in w.todo : ctr[held[w.name]].fs[q] \in {w.was[q], Gone}
          BY <3>4, <3>6, <5>1
        <5>5. ASSUME NEW q \in Modified(w.was) PROVE q \in w.todo \/ \E e \in w.diff : e.path = q
          <6>1. CASE q = p
            <7>1. [path |-> p, body |-> body] \in w.diff /\ [path |-> p, body |-> body].path = p
              BY <3>4, <3>6
            <7> QED
              BY <6>1, <7>1
          <6>2. CASE q # p
            BY <3>4, <3>6, <5>1, <6>2
          <6> QED
            BY <6>1, <6>2
        <5> QED
          BY <5>3, <5>4, <5>5
      <4> QED
        BY <4>1, <4>2 DEF CopiesSoFar
    <3>9. CopiesSoFar(w)'
      BY <2>1, <3>8 DEF CopiesSoFar, Modified, Deleted
    <3> QED
      BY <2>1, <2>2, <2>3, <3>4, <3>5, <3>6, <3>7, <3>9, GoesOn
  <2> QED
    BY <2>1, <2>4, <2>5
<1> QED
  BY <1>1, <1>2

\* A snapshot nobody wrote under gives back what it read.
LEMMA QuietIsExact ==
  ASSUME DInv, NEW c \in Callers, op[c].kind = "snapshot", op[c].pc = "copy", op[c].todo = {}, op[c].quiet,
         NEW p \in Paths
  PROVE  op[c].was[p] = IF p \in op[c].deletes THEN Gone
                        ELSE IF \E e \in op[c].diff : e.path = p
                               THEN (CHOOSE e \in op[c].diff : e.path = p).body
                               ELSE Image[p]
<1>1. /\ op[c].deletes = Deleted(op[c].was)
      /\ \A e \in op[c].diff : e.body = op[c].was[e.path]
      /\ \A q \in Modified(op[c].was) : \E e \in op[c].diff : e.path = q
  BY DEF DInv, CallerGood, CopiesSoFar
<1>2. CASE p \in op[c].deletes
  BY <1>1, <1>2 DEF Deleted
<1>3. CASE p \notin op[c].deletes /\ \E e \in op[c].diff : e.path = p
  <2>1. PICK e \in op[c].diff : e = (CHOOSE d \in op[c].diff : d.path = p) /\ e.path = p
    BY <1>3
  <2> QED
    BY <1>1, <1>3, <2>1
<1>4. CASE p \notin op[c].deletes /\ ~\E e \in op[c].diff : e.path = p
  <2>1. op[c].was[p] = Gone \/ op[c].was[p] = Image[p]
    BY <1>1, <1>4 DEF Modified
  <2>2. op[c].was[p] = Gone => p \notin ImagePaths
    BY <1>1, <1>4 DEF Deleted
  <2>3. p \notin ImagePaths => Image[p] = Gone
    BY DEF Image
  <2> QED
    BY <1>4, <2>1, <2>2, <2>3
<1> QED
  BY <1>2, <1>3, <1>4

\* blobs.Put: the snapshot is exact unless somebody wrote meanwhile.
LEMMA Puts ==
  ASSUME DInv, NEW c \in Callers, putSnapshot(c)
  PROVE  DInv'
<1> DEFINE s == [cmd |-> op[c].cmd, diff |-> op[c].diff, deletes |-> op[c].deletes, was |-> op[c].was,
                 quiet |-> op[c].quiet]
           o == [op[c] EXCEPT !.pc = "commit", !.ref = Len(refs) + 1]
<1>1. /\ op[c].pc = "copy" /\ op[c].todo = {} /\ Len(refs) < MaxRefs /\ refs' = Append(refs, s)
      /\ op' = [op EXCEPT ![c].pc = "commit", ![c].ref = Len(refs) + 1]
      /\ UNCHANGED <<ctr, cached, handles, held, committed, driver, faults, excused>>
  BY DEF putSnapshot, Calls, KeepDriver
<1>2. op[c].kind = "snapshot" /\ op[c].id = 0 /\ CallerGood(c) /\ DTyped /\ op[c] \in Ops
  BY <1>1, KindOfPoint, OpTyped DEF DInv
<1>3. s \in Snapshots
  BY <1>2, OpTyped DEF Snapshots
<1>4. Len(refs) \in Nat /\ refs \in Seq(Snapshots) /\ Len(refs) + 1 \in 0 .. MaxRefs /\ Len(refs) + 1 # 0
  BY <1>1, <1>2, DockerFacts DEF DTyped
<1>5. /\ o \in Ops /\ o.kind = "snapshot" /\ o.pc = "commit" /\ o.name = op[c].name /\ o.id = 0
      /\ o.ref = Len(refs) + 1
  BY <1>2, <1>4 DEF Ops
<1>6. SetOp(c, o)
  BY <1>1, <1>2 DEF SetOp, DTyped
<1> HIDE DEF o, s
<1>7. op' \in [Callers -> Ops] /\ op'[c] = o /\ \A d \in Callers \ {c} : op'[d] = op[d]
  BY <1>2, <1>5, <1>6, SetOpTyped
<1>8. /\ refs' \in Seq(Snapshots) /\ Len(refs') = Len(refs) + 1 /\ refs'[Len(refs) + 1] = s
      /\ \A r \in 1 .. Len(refs) : refs'[r] = refs[r]
  BY <1>1, <1>3, <1>4
<1>9. DTyped'
  BY <1>1, <1>2, <1>4, <1>7, <1>8 DEF DTyped
<1>10. Longer
  BY <1>4, <1>8 DEF Longer
<1>11. ASSUME NEW d \in Callers, d # c PROVE CallerGood(d)'
  <2>1. CallerGood(d)
    BY DEF DInv
  <2>2. Untouched(d)
    BY <1>1, <1>7, <1>11, <2>1 DEF Untouched, CallerGood, Holds
  <2> QED
    BY <1>2, <1>9, <1>10, <2>1, <2>2, UntouchedGood
<1>12. CallerGood(c)'
  <2>1. PICK w \in Ops : w = o
    BY <1>5
  <2>2. Placed(w)'
    BY <1>2, <1>4, <1>5, <1>8, <2>1 DEF CallerGood, Placed
  <2>3. Holds(w)'
    BY <1>1, <1>2, <1>5, <2>1 DEF CallerGood, Holds
  <2>4. CopiesSoFar(w)' /\ Restores(w)' /\ Creates(w)'
    BY <1>5, <2>1 DEF CopiesSoFar, Restores, Creates
  <2> QED
    BY <1>7, <2>1, <2>2, <2>3, <2>4 DEF CallerGood
<1>13. OneCallPerName' /\ Asleep'
  <2>1. driver'.up
    BY <1>1, <1>2, RestingFacts DEF DInv, DGlobals, Asleep
  <2>2. Asleep'
    BY <2>1 DEF Asleep
  <2>3. OneCallPerName'
    BY <1>2, <1>5, <1>7 DEF DInv, DGlobals, OneCallPerName
  <2> QED
    BY <2>2, <2>3
<1>14. Reserved'
  <2>1. Making' \subseteq Making /\ Unused' = Unused
    BY <1>1, <1>2, <1>5, <1>7 DEF Making, Unused
  <2> QED
    BY <2>1, ReservedKept DEF DInv, DGlobals
<1>15. ASSUME NEW n \in Names PROVE HeldGood(n)'
  <2>1. HeldGood(n) /\ held[n] \in 0 .. MaxIds
    BY <1>2 DEF DInv, DGlobals, DTyped
  <2> QED
    BY <1>1, <1>2, <1>7, <2>1 DEF HeldGood
<1>16. \A i \in handles' : HandleGood(i)'
  BY <1>1 DEF DInv, DGlobals, HandleGood, Alive
<1>17. ASSUME NEW i \in Ids PROVE AccountedFor(i)'
  <2>1. AccountedFor(i) /\ i # 0
    BY DEF DInv, DGlobals, Ids
  <2> QED
    BY <1>1, <1>2, <1>7, <2>1 DEF AccountedFor, Alive
<1>18. SnapshotExact'
  <2> SUFFICES ASSUME NEW r \in 1 .. Len(refs'), refs'[r].quiet, NEW p \in Paths
               PROVE  refs'[r].was[p] =
                        IF p \in refs'[r].deletes THEN Gone
                        ELSE IF \E e \in refs'[r].diff : e.path = p
                               THEN (CHOOSE e \in refs'[r].diff : e.path = p).body
                               ELSE Image[p]
    BY DEF SnapshotExact
  <2>1. CASE r = Len(refs) + 1
    <3>1. refs'[r] = s /\ s.quiet = op[c].quiet /\ s.was = op[c].was /\ s.deletes = op[c].deletes /\ s.diff = op[c].diff
      BY <1>8, <2>1 DEF s
    <3> QED
      BY <1>1, <1>2, <3>1, QuietIsExact
  <2>2. CASE r # Len(refs) + 1
    <3>1. r \in 1 .. Len(refs) /\ refs'[r] = refs[r]
      BY <1>4, <1>8, <2>2
    <3> QED
      BY <3>1 DEF DInv, SnapshotExact
  <2> QED
    BY <2>1, <2>2
<1> QED
  BY <1>9, <1>11, <1>12, <1>13, <1>14, <1>15, <1>16, <1>17, <1>18 DEF DInv, DGlobals

\* A live container changes under the calls that use it.
LEMMA ProcessKeeps ==
  ASSUME DInv, NEW id \in Ids, NEW k \in Containers, SetCtr(id, k), Alive(id), k.st \in Living,
         k.name = ctr[id].name, k.from = ctr[id].from, k.done <= Len(k.cmd),
         op' \in [Callers -> Ops],
         \A c \in Callers : /\ op'[c].kind = op[c].kind /\ op'[c].id = op[c].id /\ op'[c].name = op[c].name
                            /\ Placed(op'[c]) /\ (op[c].id # 0 => op'[c] = op[c]) /\ CopiesSoFar(op[c])'
                            /\ (op[c].id = id => Restores(op[c])'),
         UNCHANGED <<cached, handles, refs, held, committed, driver, excused>>, faults' \in 0 .. MaxFaults
  PROVE  DInv'
<1>1. /\ ctr' \in [Ids -> Containers] /\ \A i \in Ids : ctr'[i].done <= Len(ctr'[i].cmd)
      /\ ctr'[id] = k /\ \A i \in Ids \ {id} : ctr'[i] = ctr[i]
  BY SetCtrTyped DEF DInv
<1>2. DTyped'
  BY <1>1 DEF DInv, DTyped
<1>3. \A i \in Ids : /\ ctr'[i].name = ctr[i].name /\ ctr'[i].from = ctr[i].from /\ (Alive(i)' <=> Alive(i))
                     /\ ctr[i].st = "removed" => ctr'[i].st = "removed"
  BY <1>1 DEF Alive, Living
<1>4. ASSUME NEW c \in Callers PROVE CallerGood(c)'
  <2>1. CallerGood(c) /\ (op[c].id # 0 => op[c].id \in Ids)
    BY OpTyped DEF DInv
  <2>2. PICK o \in Ops : o = op'[c]
    OBVIOUS
  <2>3. o.kind = op[c].kind /\ o.id = op[c].id /\ o.name = op[c].name /\ Placed(o) /\ (op[c].id # 0 => o = op[c])
    BY <2>2
  <2>4. Placed(o)'
    BY <2>3 DEF Placed
  <2>5. Holds(o)'
    BY <1>3, <2>1, <2>3 DEF CallerGood, Holds
  <2>6. CopiesSoFar(o)'
    <3>1. CopiesSoFar(op[c])'
      OBVIOUS
    <3> QED
      BY <2>2, <3>1
  <2>7. Restores(o)' /\ Creates(o)'
    <3>1. CASE op[c].id = 0
      BY <2>3, <3>1 DEF Restores, Creates
    <3>2. CASE op[c].id # 0
      <4>1. o = op[c] /\ o.id \in Ids
        BY <2>1, <2>3, <3>2
      <4>2. Creates(o)'
        BY <1>3, <2>1, <4>1 DEF CallerGood, Creates
      <4>3. CASE o.id = id
        <5>1. Restores(op[c])'
          BY <4>1, <4>3
        <5>2. op'[c] = o
          BY <2>2
        <5> QED
          BY <4>2, <5>1, <5>2
      <4>4. CASE o.id # id
        <5>1. ctr'[o.id] = ctr[o.id] /\ Restores(o)
          BY <1>1, <2>1, <4>1, <4>4 DEF CallerGood
        <5>2. Restores(o)'
          <6> SUFFICES ASSUME o.kind = "restore" PROVE RestoredSoFar(o, ctr[o.id])'
            BY <5>1 DEF Restores
          <6> DEFINE kk == ctr[o.id]
          <6>1. RestoredSoFar(o, kk)
            BY <3>2, <4>1, <5>1 DEF Restores
          <6>2. kk \in Containers
            BY <4>1 DEF DInv, DTyped
          <6>3. PICK m \in Containers : m = ctr[o.id]
            BY <6>2
          <6>4. RestoredSoFar(o, m)'
            BY <6>1, <6>3, RestoredLater
          <6>5. m = ctr'[o.id]
            BY <5>1, <6>3
          <6> QED
            BY <6>4, <6>5
        <5> QED
          BY <4>2, <5>2
      <4> QED
        BY <4>3, <4>4
    <3> QED
      BY <3>1, <3>2
  <2> QED
    BY <2>2, <2>4, <2>5, <2>6, <2>7 DEF CallerGood
<1>5. OneCallPerName'
  BY DEF DInv, DGlobals, OneCallPerName
<1>6. Asleep'
  <2>1. ASSUME ~driver'.up, NEW c \in Callers PROVE op'[c] = Idle
    BY ZenonT(60), <2>1, RestingFacts DEF DInv, DGlobals, Asleep, Placed
  <2> QED
    BY <2>1 DEF DInv, DGlobals, Asleep
<1>7. Reserved'
  <2>1. Making' = Making
    BY DEF Making
  <2>2. Unused' = Unused
    BY <1>1 DEF Unused, Alive, Living
  <2> QED
    BY <2>1, <2>2, ReservedKept DEF DInv, DGlobals
<1>8. ASSUME NEW n \in Names PROVE HeldGood(n)'
  <2>1. HeldGood(n) /\ (held[n] # 0 => held[n] \in Ids)
    BY DEF DInv, DGlobals, DTyped, Ids
  <2> QED
    BY <1>3, <2>1 DEF HeldGood
<1>9. ASSUME NEW i \in handles' PROVE HandleGood(i)'
  <2>1. HandleGood(i) /\ i \in Ids
    BY DEF DInv, DGlobals, DTyped
  <2> QED
    BY <1>3, <2>1 DEF HandleGood
<1>10. ASSUME NEW i \in Ids PROVE AccountedFor(i)'
  <2>1. AccountedFor(i)
    BY DEF DInv, DGlobals
  <2> QED
    BY <1>3, <2>1 DEF AccountedFor
<1>11. SnapshotExact'
  BY DEF DInv, SnapshotExact
<1> QED
  BY <1>2, <1>4, <1>5, <1>6, <1>7, <1>8, <1>9, <1>10, <1>11 DEF DInv, DGlobals

\* An entry of a recorded command.
LEMMA CommandEntry ==
  ASSUME NEW s \in Commands, NEW i \in 1 .. Len(s)
  PROVE  s[i] \in [tok : Refs, deletes : SUBSET Paths]
<1> DEFINE R == [tok : Refs, deletes : SUBSET Paths]
<1>1. s \in Seq(R)
  BY DEF Commands
<1> HIDE DEF R
<1>2. s[i] \in R
  BY <1>1
<1> QED
  BY <1>2 DEF R

\* What one step of the wrapper w does to the container it runs in.
WrapperMoves(k, w, n) ==
  \/ /\ k.at = "deletes" /\ n.at = "release" /\ n.done = k.done
     /\ n.fs = [p \in Paths |-> IF p \in w.deletes THEN Gone ELSE k.fs[p]]
     /\ n.mk[w.tok] = [k.mk[w.tok] EXCEPT !["prepared"] = "set"]
  \/ /\ k.at = "release" /\ n.at = "ack" /\ n.done = k.done /\ n.fs = k.fs
     /\ k.mk[w.tok]["release"] = "set" /\ n.mk[w.tok] = [k.mk[w.tok] EXCEPT !["handoff"] = "set"]
  \/ /\ k.at = "ack" /\ n.at = "deletes" /\ n.done = k.done + 1 /\ n.fs = k.fs
     /\ k.mk[w.tok]["ack"] = "set"

\* restoreDeleteWrapperScript: what a step does to its container.
LEMMA WrapperEffect ==
  ASSUME DTyped, NEW id \in Ids, wrapperStep(id)
  PROVE  \E n \in Containers :
           LET k == ctr[id]
               w == k.cmd[k.done + 1]
           IN /\ SetCtr(id, n) /\ k.st = "running" /\ n.st = k.st /\ n.name = k.name /\ n.from = k.from
              /\ n.cmd = k.cmd /\ n.done <= Len(n.cmd) /\ k.done < Len(k.cmd) /\ w.tok \in Refs
              /\ WrapperMoves(k, w, n)
<1> DEFINE k == ctr[id]
           w == k.cmd[k.done + 1]
           t == w.tok
<1>1. k \in Containers /\ k.done <= Len(k.cmd) /\ k.st = "running" /\ k.done < Len(k.cmd) /\ ctr \in [Ids -> Containers]
  BY DEF DTyped, wrapperStep
<1>2. /\ k.cmd \in Commands /\ k.done \in Nat /\ k.fs \in [Paths -> Bodies] /\ k.mk \in Marks
  BY <1>1 DEF Containers
<1>3. k.done + 1 \in 1 .. Len(k.cmd)
  BY <1>1, <1>2 DEF Commands
<1>4. t \in Refs
  <2>1. w \in [tok : Refs, deletes : SUBSET Paths]
    BY <1>2, <1>3, CommandEntry
  <2> QED
    BY <2>1
<1>5. k.mk[t] \in [Markers -> {"absent", "reset", "set"}]
  BY <1>2, <1>4 DEF Marks
<1>6. CASE /\ k.at = "deletes"
           /\ ctr' = [ctr EXCEPT ![id].fs = [p \in Paths |-> IF p \in w.deletes THEN Gone ELSE @[p]],
                ![id].mk[t].prepared = "set", ![id].at = "release"]
  <2> DEFINE fs == [p \in Paths |-> IF p \in w.deletes THEN Gone ELSE k.fs[p]]
             m == [k.mk[t] EXCEPT !["prepared"] = "set"]
             mk == [k.mk EXCEPT ![t] = m]
             n == [k EXCEPT !.fs = fs, !.mk = mk, !.at = "release"]
  <2>1. fs \in [Paths -> Bodies]
    BY <1>2 DEF Bodies
  <2>2. m \in [Markers -> {"absent", "reset", "set"}]
    BY <1>5 DEF Markers
  <2>3. SetCtr(id, n)
    BY <1>1, <1>6 DEF SetCtr
  <2> HIDE DEF fs, m
  <2>4. mk \in Marks /\ mk[t] = m
    BY <1>2, <1>4, <2>2 DEF Marks
  <2> HIDE DEF mk
  <2>5. /\ n \in Containers /\ n.st = k.st /\ n.name = k.name /\ n.from = k.from /\ n.cmd = k.cmd
        /\ n.at = "release" /\ n.done = k.done /\ n.fs = fs /\ n.mk = mk
    BY <1>1, <2>1, <2>4 DEF Containers
  <2> HIDE DEF n
  <2> QED
    BY <1>1, <1>4, <1>6, <2>3, <2>4, <2>5 DEF fs, m, WrapperMoves
<1>7. CASE /\ k.at = "release" /\ k.mk[t].release = "set"
           /\ ctr' = [ctr EXCEPT ![id].mk[t].handoff = "set", ![id].at = "ack"]
  <2> DEFINE m == [k.mk[t] EXCEPT !["handoff"] = "set"]
             mk == [k.mk EXCEPT ![t] = m]
             n == [k EXCEPT !.mk = mk, !.at = "ack"]
  <2>2. m \in [Markers -> {"absent", "reset", "set"}]
    BY <1>5 DEF Markers
  <2>3. SetCtr(id, n)
    BY <1>1, <1>7 DEF SetCtr
  <2> HIDE DEF m
  <2>4. mk \in Marks /\ mk[t] = m
    BY <1>2, <1>4, <2>2 DEF Marks
  <2> HIDE DEF mk
  <2>5. /\ n \in Containers /\ n.st = k.st /\ n.name = k.name /\ n.from = k.from /\ n.cmd = k.cmd
        /\ n.at = "ack" /\ n.done = k.done /\ n.fs = k.fs /\ n.mk = mk
    BY <1>1, <2>4 DEF Containers
  <2> HIDE DEF n
  <2> QED
    BY <1>1, <1>4, <1>7, <2>3, <2>4, <2>5 DEF m, WrapperMoves
<1>8. CASE /\ k.at = "ack" /\ k.mk[t].ack = "set"
           /\ ctr' = [ctr EXCEPT ![id].mk[t] = [m \in Markers |-> "absent"], ![id].at = "deletes", ![id].done = @ + 1]
  <2> DEFINE mk == [k.mk EXCEPT ![t] = [m \in Markers |-> "absent"]]
             next == k.done + 1
             n == [k EXCEPT !.mk = mk, !.at = "deletes", !.done = next]
  <2>3. SetCtr(id, n)
    BY <1>1, <1>8 DEF SetCtr
  <2>4. mk \in Marks
    BY <1>2, <1>4 DEF Marks
  <2>1. next \in Nat /\ next <= Len(k.cmd)
    BY <1>2, <1>3
  <2> HIDE DEF mk, next
  <2>5. /\ n \in Containers /\ n.st = k.st /\ n.name = k.name /\ n.from = k.from /\ n.cmd = k.cmd
        /\ n.at = "deletes" /\ n.done = next /\ n.fs = k.fs
    BY <1>1, <2>1, <2>4, ZenonT(60) DEF Containers
  <2> HIDE DEF n
  <2>6. n.done <= Len(n.cmd) /\ n.done = k.done + 1
    BY <2>1, <2>5 DEF next
  <2> QED
    BY <1>1, <1>4, <1>8, <2>3, <2>5, <2>6 DEF WrapperMoves
<1> QED
  BY <1>6, <1>7, <1>8 DEF wrapperStep

\* The wrapper's step keeps its turn with the host.
LEMMA WrapperAdvances ==
  ASSUME NEW r \in Refs, NEW k \in Containers, NEW n \in Containers, NEW pc, k.done = 0,
         Wrapper(k, k.mk[r], r), Turns(pc, k, k.mk[r]),
         pc \in {"prepared", "release", "handoff", "ack", "absent", "ready"},
         \/ /\ k.at = "deletes" /\ n.at = "release" /\ n.done = k.done
            /\ n.fs = [p \in Paths |-> IF p \in refs[r].deletes THEN Gone ELSE k.fs[p]]
            /\ n.mk[r] = [k.mk[r] EXCEPT !["prepared"] = "set"]
         \/ /\ k.at = "release" /\ n.at = "ack" /\ n.done = k.done /\ n.fs = k.fs
            /\ k.mk[r]["release"] = "set" /\ n.mk[r] = [k.mk[r] EXCEPT !["handoff"] = "set"]
         \/ /\ k.at = "ack" /\ n.at = "deletes" /\ n.done = k.done + 1 /\ n.fs = k.fs
            /\ k.mk[r]["ack"] = "set"
  PROVE  Wrapper(n, n.mk[r], r) /\ Turns(pc, n, n.mk[r])
<1>1. k.mk[r] \in [Markers -> {"absent", "reset", "set"}]
  BY DEF Containers, Marks
<1>2. CASE /\ k.at = "deletes" /\ n.at = "release" /\ n.done = k.done
           /\ n.fs = [p \in Paths |-> IF p \in refs[r].deletes THEN Gone ELSE k.fs[p]]
           /\ n.mk[r] = [k.mk[r] EXCEPT !["prepared"] = "set"]
  <2>1. k.fs = Laid(r) /\ k.mk[r]["handoff"] = "reset"
    BY <1>2 DEF Wrapper
  <2>2. n.fs = Wiped(r)
    BY <1>2, <2>1 DEF Wiped
  <2>3. n.mk[r]["handoff"] = "reset" /\ n.mk[r]["release"] = k.mk[r]["release"] /\ n.mk[r]["ack"] = k.mk[r]["ack"]
    BY <1>1, <1>2, <2>1 DEF Markers
  <2> QED
    BY <1>2, <2>2, <2>3 DEF Wrapper, Turns
<1>3. CASE /\ k.at = "release" /\ n.at = "ack" /\ n.done = k.done /\ n.fs = k.fs
           /\ k.mk[r]["release"] = "set" /\ n.mk[r] = [k.mk[r] EXCEPT !["handoff"] = "set"]
  <2>1. k.fs = Wiped(r)
    BY <1>3 DEF Wrapper
  <2>2. n.mk[r]["handoff"] = "set" /\ n.mk[r]["ack"] = k.mk[r]["ack"]
    BY <1>1, <1>3 DEF Markers
  <2> QED
    BY <1>3, <2>1, <2>2 DEF Wrapper, Turns
<1>4. CASE /\ k.at = "ack" /\ n.at = "deletes" /\ n.done = k.done + 1 /\ n.fs = k.fs /\ k.mk[r]["ack"] = "set"
  <2>1. k.fs = Wiped(r) /\ n.done = 1
    BY <1>4 DEF Wrapper
  <2> QED
    BY <1>4, <2>1 DEF Wrapper, Turns
<1> QED
  BY <1>2, <1>3, <1>4

\* A snapshot under way sees files deleted, never others in their place.
LEMMA CopiesKept ==
  ASSUME DInv, NEW c \in Callers, NEW id \in Ids, NEW n \in Containers, SetCtr(id, n),
         \A p \in Paths : n.fs[p] \in {ctr[id].fs[p], Gone}, UNCHANGED <<op, held>>
  PROVE  CopiesSoFar(op[c])'
<1> DEFINE o == op[c]
<1> SUFFICES ASSUME o.kind = "snapshot", o.pc = "copy" PROVE CopiesSoFar(o)'
  BY DEF CopiesSoFar
<1>1. CopiesSoFar(o) /\ o.todo \in SUBSET Paths /\ held[o.name] \in handles /\ handles \subseteq Ids
  BY OpTyped DEF DInv, CallerGood, Holds, DTyped
<1>2. \A p \in o.todo : ctr'[held[o.name]].fs[p] \in {ctr[held[o.name]].fs[p], Gone}
  BY <1>1 DEF SetCtr
<1>3. o.deletes = Deleted(o.was)
  BY <1>1 DEF CopiesSoFar
<1>4. o' = o /\ held' = held /\ Modified(o.was)' = Modified(o.was) /\ Deleted(o.was)' = Deleted(o.was)
  BY DEF Modified, Deleted
<1> QED
  BY <1>1, <1>2, <1>3, <1>4 DEF CopiesSoFar

\* The restore whose container's wrapper has made a step.
LEMMA WrapperRestores ==
  ASSUME NEW o \in Ops, NEW k \in Containers, NEW n \in Containers, NEW w, w = k.cmd[k.done + 1],
         o.ref \in Refs, o.deletes = refs[o.ref].deletes, RestoredSoFar(o, k),
         k.st = "running", n.from = k.from, n.cmd = k.cmd, k.done < Len(k.cmd), WrapperMoves(k, w, n)
  PROVE  RestoredSoFar(o, n)
<1> DEFINE r == o.ref
<1>1. k.done \in Nat
  BY DEF Containers
<1>2. k.cmd = restoreContainerConfig(o) /\ k.from = o.ref
  BY DEF RestoredSoFar
<1>3. o.pc \notin {"extract", "dirs", "seed", "start"}
  BY DEF RestoredSoFar
<1>4. ASSUME refs[r].cmd = <<>> PROVE o.deletes # {}
  <2>1. o.deletes = {} => k.cmd = <<>>
    BY <1>2, <1>4 DEF restoreContainerConfig
  <2>2. k.cmd = <<>> => Len(k.cmd) = 0
    OBVIOUS
  <2> QED
    BY <1>1, <2>1, <2>2
<1>5. ASSUME refs[r].cmd = <<>>, o.pc \in {"prepared", "release", "handoff", "ack", "absent", "ready"}
      PROVE  Wrapper(n, n.mk[r], r) /\ Turns(o.pc, n, n.mk[r])
  <2>1. Wrapper(k, k.mk[r], r) /\ Turns(o.pc, k, k.mk[r])
    BY <1>4, <1>5 DEF RestoredSoFar
  <2>2. k.cmd = <<[tok |-> r, deletes |-> o.deletes]>> \o <<>>
    BY <1>2, <1>4, <1>5 DEF restoreContainerConfig
  <2>3. Len(k.cmd) = 1 /\ k.cmd[1] = [tok |-> r, deletes |-> o.deletes]
    BY <2>2
  <2>4. k.done = 0
    BY <1>1, <2>3
  <2>5. w = [tok |-> r, deletes |-> o.deletes]
    BY <2>3, <2>4
  <2>6. w.tok = r /\ w.deletes = refs[r].deletes
    BY <2>5
  <2>7. \/ /\ k.at = "deletes" /\ n.at = "release" /\ n.done = k.done
           /\ n.fs = [p \in Paths |-> IF p \in refs[r].deletes THEN Gone ELSE k.fs[p]]
           /\ n.mk[r] = [k.mk[r] EXCEPT !["prepared"] = "set"]
        \/ /\ k.at = "release" /\ n.at = "ack" /\ n.done = k.done /\ n.fs = k.fs
           /\ k.mk[r]["release"] = "set" /\ n.mk[r] = [k.mk[r] EXCEPT !["handoff"] = "set"]
        \/ /\ k.at = "ack" /\ n.at = "deletes" /\ n.done = k.done + 1 /\ n.fs = k.fs
           /\ k.mk[r]["ack"] = "set"
    BY <2>6 DEF WrapperMoves
  <2> QED
    BY <1>5, <2>1, <2>4, <2>7, WrapperAdvances
<1>6. o.deletes = {} => o.pc \in {"extract", "dirs", "start", "ready", "cleanup"}
  BY DEF RestoredSoFar
<1> QED
  BY <1>2, <1>3, <1>4, <1>5, <1>6 DEF RestoredSoFar

\* A step of the wrapper, whoever uses its container.
LEMMA WrapperSteps ==
  ASSUME DInv, NEW id \in Ids, wrapperStep(id)
  PROVE  DInv'
<1>1. DTyped /\ UNCHANGED <<cached, handles, op, refs, held, committed, driver, excused>> /\ faults' \in 0 .. MaxFaults
  BY DEF wrapperStep, KeepDriver, DInv, DTyped
<1> DEFINE w == ctr[id].cmd[ctr[id].done + 1]
<1>2. PICK n \in Containers :
        /\ SetCtr(id, n) /\ ctr[id].st = "running" /\ n.st = ctr[id].st /\ n.name = ctr[id].name
        /\ n.from = ctr[id].from /\ n.cmd = ctr[id].cmd /\ n.done <= Len(n.cmd) /\ ctr[id].done < Len(ctr[id].cmd)
        /\ w.tok \in Refs /\ WrapperMoves(ctr[id], w, n)
  BY <1>1, WrapperEffect
<1>3. /\ SetCtr(id, n) /\ ctr[id].st = "running" /\ n.st \in Living /\ Alive(id) /\ n.name = ctr[id].name
      /\ n.from = ctr[id].from /\ n.done <= Len(n.cmd)
  BY <1>2 DEF Living, Alive
<1>4. \A p \in Paths : n.fs[p] \in {ctr[id].fs[p], Gone}
  BY <1>2 DEF WrapperMoves
<1>5. ASSUME NEW c \in Callers, op[c].id = id PROVE Restores(op[c])'
  <2>1. PICK o \in Ops : o = op[c]
    BY OpTyped DEF DInv
  <2>2. CASE o.kind = "restore"
    <3>0. /\ RestoredSoFar(o, ctr[id]) /\ ctr[id] \in Containers /\ o.ref \in Refs
          /\ o.deletes = refs[o.ref].deletes
      <4>1. CallerGood(c) /\ o.id = id /\ id # 0
        BY <1>5, <2>1 DEF DInv, Ids
      <4>2. RestoredSoFar(o, ctr[id]) /\ o.ref \in 1 .. Len(refs) /\ o.deletes = refs[o.ref].deletes
        BY <2>1, <2>2, <4>1 DEF CallerGood, Restores, Placed
      <4> QED
        BY <1>1, <4>2, SnapshotTyped DEF DTyped
    <3>1. RestoredSoFar(o, n)
      BY <1>2, <3>0, WrapperRestores
    <3>2. RestoredSoFar(o, n)'
      BY <1>1, <3>1, RestoredLater
    <3>3. ctr'[o.id] = n /\ op'[c] = o
      BY <1>1, <1>3, <1>5, <2>1 DEF SetCtr
    <3> QED
      BY <3>2, <3>3 DEF Restores
  <2>3. CASE o.kind # "restore"
    BY <1>1, <2>1, <2>3 DEF Restores
  <2> QED
    BY <2>2, <2>3
<1>6. ASSUME NEW c \in Callers
      PROVE  /\ op'[c].kind = op[c].kind /\ op'[c].id = op[c].id /\ op'[c].name = op[c].name
             /\ Placed(op'[c]) /\ (op[c].id # 0 => op'[c] = op[c]) /\ CopiesSoFar(op[c])'
             /\ (op[c].id = id => Restores(op[c])')
  <2>1. CopiesSoFar(op[c])'
    BY <1>1, <1>3, <1>4, CopiesKept
  <2>2. Placed(op[c]) /\ op' = op
    BY <1>1 DEF DInv, CallerGood
  <2> QED
    BY <1>5, <2>1, <2>2
<1>7. op' \in [Callers -> Ops]
  BY <1>1 DEF DTyped
<1> QED
  BY <1>1, <1>3, <1>6, <1>7, ProcessKeeps

\* A workload dies under the calls that use it.
LEMMA Dies ==
  ASSUME DInv, NEW id \in Ids, workloadDies(id)
  PROVE  DInv'
<1>1. /\ DTyped /\ UNCHANGED <<cached, handles, op, refs, held, committed, driver, excused>>
      /\ faults < MaxFaults /\ faults' = faults + 1 /\ ctr[id].st = "running" /\ ctr' = [ctr EXCEPT ![id].st = "exited"]
  BY DEF workloadDies, DInv
<1>2. faults' \in 0 .. MaxFaults /\ id # 0
  BY <1>1, DockerFacts DEF DTyped, Ids
<1> DEFINE n == [ctr[id] EXCEPT !.st = "exited"]
<1>3. SetCtr(id, n) /\ ctr[id] \in Containers /\ ctr[id].done <= Len(ctr[id].cmd)
  BY <1>1 DEF SetCtr, DTyped
<1>4. /\ n \in Containers /\ n.st = "exited" /\ n.name = ctr[id].name /\ n.from = ctr[id].from /\ n.cmd = ctr[id].cmd
      /\ n.done = ctr[id].done /\ n.at = ctr[id].at /\ n.fs = ctr[id].fs /\ n.mk = ctr[id].mk
  BY <1>3 DEF Containers
<1> HIDE DEF n
<1>. PICK m \in Containers : m = n
  BY <1>4
<1>5. ASSUME NEW c \in Callers, op[c].id = id PROVE Restores(op[c])'
  <2>1. PICK o \in Ops : o = op[c]
    BY OpTyped DEF DInv
  <2>2. CASE o.kind = "restore"
    <3>1. RestoredSoFar(o, ctr[id])
      BY <1>2, <1>5, <2>1, <2>2 DEF DInv, CallerGood, Restores
    <3>2. RestoredSoFar(o, m)
      BY <1>1, <1>4, <3>1 DEF RestoredSoFar, Wrapper, Turns
    <3>3. RestoredSoFar(o, m)'
      BY <1>1, <3>2, RestoredLater
    <3>4. ctr'[o.id] = m /\ op'[c] = o
      BY <1>1, <1>3, <1>5, <2>1 DEF SetCtr
    <3> QED
      BY <3>3, <3>4 DEF Restores
  <2>3. CASE o.kind # "restore"
    BY <1>1, <2>1, <2>3 DEF Restores
  <2> QED
    BY <2>2, <2>3
<1>6. ASSUME NEW c \in Callers
      PROVE  /\ op'[c].kind = op[c].kind /\ op'[c].id = op[c].id /\ op'[c].name = op[c].name
             /\ Placed(op'[c]) /\ (op[c].id # 0 => op'[c] = op[c]) /\ CopiesSoFar(op[c])'
             /\ (op[c].id = id => Restores(op[c])')
  <2>1. CopiesSoFar(op[c])'
    BY <1>1, <1>3, <1>4, CopiesKept
  <2>2. Placed(op[c]) /\ op' = op
    BY <1>1 DEF DInv, CallerGood
  <2> QED
    BY <1>5, <2>1, <2>2
<1>7. op' \in [Callers -> Ops] /\ Alive(id) /\ n.st \in Living /\ n.done <= Len(n.cmd)
  BY <1>1, <1>3, <1>4 DEF DTyped, Alive, Living
<1> QED
  BY <1>1, <1>2, <1>3, <1>4, <1>6, <1>7, ProcessKeeps

\* A step writes under a snapshot, which is no longer quiet.
LEMMA StepWriting ==
  ASSUME DInv, NEW n \in Names, NEW p \in Paths, NEW v \in {"written", Gone}, stepWrites(n, p, v)
  PROVE  DInv'
<1> DEFINE id == held[n]
           fs == [ctr[id].fs EXCEPT ![p] = v]
           k == [ctr[id] EXCEPT !.fs = fs]
<1>1. /\ DTyped /\ id \in handles /\ ctr[id].st = "running" /\ ctr' = [ctr EXCEPT ![id].fs[p] = v]
      /\ op' = [c \in Callers |-> IF op[c].kind = "snapshot" /\ op[c].name = n
                                    THEN [op[c] EXCEPT !.quiet = FALSE] ELSE op[c]]
      /\ UNCHANGED <<cached, handles, refs, held, committed, driver, faults, excused>>
  BY DEF stepWrites, KeepDriver, DInv
<1>2. id \in Ids /\ id # 0 /\ ctr[id] \in Containers /\ ctr[id].done <= Len(ctr[id].cmd) /\ HeldGood(n)
  BY <1>1 DEF DTyped, Ids, DInv, DGlobals
<1>3. ctr[id].name = n
  BY <1>2 DEF HeldGood
<1>4. ctr[id].fs \in [Paths -> Bodies]
  BY <1>2 DEF Containers
<1>5. fs \in [Paths -> Bodies]
  BY <1>4 DEF Bodies
<1>6. SetCtr(id, k)
  BY <1>1, <1>2 DEF SetCtr, DTyped
<1> HIDE DEF fs
<1>7. /\ k \in Containers /\ k.st = "running" /\ k.name = ctr[id].name /\ k.from = ctr[id].from
      /\ k.cmd = ctr[id].cmd /\ k.done = ctr[id].done
  BY <1>1, <1>2, <1>5, FilesTyped
<1> HIDE DEF k
<1>8. \A c \in Callers : op[c].id # id
  BY <1>1, <1>2 DEF DInv, CallerGood, Holds
<1>9. ASSUME NEW c \in Callers
      PROVE  \E o \in Ops : /\ o = op'[c] /\ o.kind = op[c].kind /\ o.id = op[c].id /\ o.name = op[c].name
                            /\ o.pc = op[c].pc /\ o.ref = op[c].ref /\ o.deletes = op[c].deletes /\ o.was = op[c].was
                            /\ IF op[c].kind = "snapshot" /\ op[c].name = n THEN o.quiet = FALSE ELSE o = op[c]
  <2> DEFINE o == [op[c] EXCEPT !.quiet = FALSE]
  <2>1. op[c] \in Ops
    BY <1>1, OpTyped
  <2>2. /\ o \in Ops /\ o.kind = op[c].kind /\ o.id = op[c].id /\ o.name = op[c].name
        /\ o.pc = op[c].pc /\ o.ref = op[c].ref /\ o.deletes = op[c].deletes /\ o.was = op[c].was /\ o.quiet = FALSE
    BY <2>1 DEF Ops
  <2>3. op'[c] = IF op[c].kind = "snapshot" /\ op[c].name = n THEN o ELSE op[c]
    BY <1>1
  <2> HIDE DEF o
  <2> QED
    BY <2>1, <2>2, <2>3
<1>10. op' \in [Callers -> Ops]
  <2>1. \A c \in Callers : op'[c] \in Ops
    BY <1>9
  <2> QED
    BY <1>1, <2>1
<1>11. ASSUME NEW c \in Callers
       PROVE  /\ op'[c].kind = op[c].kind /\ op'[c].id = op[c].id /\ op'[c].name = op[c].name
              /\ Placed(op'[c]) /\ (op[c].id # 0 => op'[c] = op[c]) /\ CopiesSoFar(op[c])'
              /\ (op[c].id = id => Restores(op[c])')
  <2>1. PICK o \in Ops :
             /\ o = op'[c] /\ o.kind = op[c].kind /\ o.id = op[c].id /\ o.name = op[c].name
             /\ o.pc = op[c].pc /\ o.ref = op[c].ref /\ o.deletes = op[c].deletes /\ o.was = op[c].was
             /\ IF op[c].kind = "snapshot" /\ op[c].name = n THEN o.quiet = FALSE ELSE o = op[c]
    BY <1>9
  <2>2. CallerGood(c)
    BY DEF DInv
  <2>3. CASE op[c].kind = "snapshot" /\ op[c].name = n
    <3>1. op[c].id = 0
      BY <2>2, <2>3 DEF CallerGood, Placed
    <3>2. Placed(o)
      BY <2>1, <2>2, <2>3 DEF CallerGood, Placed
    <3>3. CopiesSoFar(o)'
      <4>1. o.pc = "copy" => o.deletes = Deleted(o.was)
        BY <2>1, <2>2, <2>3 DEF CallerGood, CopiesSoFar
      <4> QED
        BY <2>1, <2>3, <4>1 DEF CopiesSoFar, Deleted
    <3> QED
      BY <1>2, <2>1, <3>1, <3>2, <3>3
  <2>4. CASE ~(op[c].kind = "snapshot" /\ op[c].name = n)
    <3>1. o = op[c]
      BY <2>1, <2>4
    <3>2. o.kind = "snapshot" => ctr'[held[o.name]] = ctr[held[o.name]]
      <4> SUFFICES ASSUME o.kind = "snapshot" PROVE ctr'[held[o.name]] = ctr[held[o.name]]
        OBVIOUS
      <4>1. held[o.name] \in handles /\ o.name \in Names /\ o.name # n
        BY <2>2, <2>4, <3>1 DEF CallerGood, Holds, Placed
      <4>2. HeldGood(o.name) /\ held[o.name] \in Ids /\ held[o.name] # 0
        BY <1>1, <4>1 DEF DInv, DGlobals, DTyped, Ids
      <4>3. held[o.name] # id
        BY <1>3, <4>1, <4>2 DEF HeldGood
      <4> QED
        BY <1>6, <4>2, <4>3 DEF SetCtr
    <3>3. CopiesSoFar(o)
      BY <2>2, <3>1 DEF CallerGood
    <3>4. CopiesSoFar(o)'
      BY <1>1, <3>2, <3>3 DEF CopiesSoFar, Modified, Deleted
    <3> QED
      BY <1>8, <2>1, <2>2, <3>1, <3>4 DEF CallerGood
  <2> QED
    BY <2>3, <2>4
<1>12. k.done <= Len(k.cmd) /\ k.st \in Living /\ Alive(id) /\ faults' \in 0 .. MaxFaults
  BY <1>1, <1>2, <1>7 DEF Living, Alive, DTyped
<1>13. PICK i \in Ids : i = id
  BY <1>2
<1> HIDE DEF id
<1> QED
  BY <1>1, <1>6, <1>7, <1>10, <1>11, <1>12, <1>13, ProcessKeeps

\* The driver is gone: nothing is registered and no call is under way.
LEMMA Sleeping ==
  ASSUME DTyped', \A c \in Callers : op'[c] = Idle, handles' = {}, \A n \in Names : held'[n] = 0,
         Cardinality(Unused)' \in Nat, \A id \in Ids : AccountedFor(id)', SnapshotExact'
  PROVE  DInv'
<1>1. \A c \in Callers : CallerGood(c)'
  BY IdleGood
<1>2. OneCallPerName' /\ Asleep'
  BY RestingFacts DEF OneCallPerName, Asleep
<1>3. Reserved'
  <2>1. Making' = {}
    BY RestingFacts DEF Making
  <2>2. Cardinality(Making') = 0
    BY <2>1, FS_EmptySet, Zenon
  <2> QED
    BY <2>2 DEF Reserved
<1>4. (\A n \in Names : HeldGood(n)') /\ \A id \in handles' : HandleGood(id)'
  BY DEF HeldGood
<1> QED
  BY <1>1, <1>2, <1>3, <1>4 DEF DInv, DGlobals

\* The unused ids are counted after a step too.
LEMMA UnusedCounted == Cardinality(Unused)' \in Nat
<1>1. IsFiniteSet(Ids)
  BY DockerFacts, FS_Interval DEF Ids
<1>2. Unused' \in SUBSET Ids
  BY DEF Unused
<1>3. IsFiniteSet(Unused')
  BY <1>1, <1>2, FS_Subset
<1> QED
  BY <1>3, FS_CardinalityType

\* The driver ends and leaves its containers behind.
LEMMA DriverEnding ==
  ASSUME DInv, driverEnds
  PROVE  DInv'
<1>1. /\ op' = [c \in Callers |-> Idle] /\ handles' = {} /\ held' = [n \in Names |-> 0]
      /\ excused' = {id \in Ids : Alive(id)} /\ driver' = [driver EXCEPT !.up = FALSE]
      /\ UNCHANGED <<ctr, cached, refs, committed, faults>>
  BY DEF driverEnds
<1>2. DTyped'
  <2>1. op' \in [Callers -> Ops] /\ held' \in [Names -> 0 .. MaxIds]
    <3>1. Idle \in Ops
      BY RestingFacts
    <3>2. 0 \in 0 .. MaxIds
      BY DockerFacts
    <3> QED
      BY <1>1, <3>1, <3>2
  <2>2. driver' \in [up : BOOLEAN, epoch : Nat, cancelled : BOOLEAN]
    BY <1>1 DEF DInv, DTyped
  <2> QED
    BY <1>1, <2>1, <2>2 DEF DInv, DTyped
<1>3. \A id \in Ids : AccountedFor(id)'
  BY <1>1 DEF AccountedFor, Alive
<1>4. SnapshotExact'
  BY <1>1 DEF DInv, SnapshotExact
<1> QED
  BY <1>1, <1>2, <1>3, <1>4, UnusedCounted, Sleeping

\* An operator removes a leftover.
LEMMA OperatorRemoving ==
  ASSUME DInv, NEW id \in Ids, operatorRemoves(id)
  PROVE  DInv'
<1>1. /\ ~driver.up /\ ctr' = [ctr EXCEPT ![id] = Removed]
      /\ UNCHANGED <<cached, handles, op, refs, held, committed, driver, faults, excused>>
  BY DEF operatorRemoves
<1>2. SetCtr(id, Removed)
  BY <1>1 DEF SetCtr, DInv, DTyped
<1>3. /\ ctr' \in [Ids -> Containers] /\ \A i \in Ids : ctr'[i].done <= Len(ctr'[i].cmd)
      /\ ctr'[id] = Removed /\ \A i \in Ids \ {id} : ctr'[i] = ctr[i]
  BY <1>2, RemovedFacts, SetCtrTyped DEF DInv
<1>4. DTyped'
  BY <1>1, <1>3 DEF DInv, DTyped
<1>5. (\A c \in Callers : op'[c] = Idle) /\ handles' = {} /\ \A n \in Names : held'[n] = 0
  BY <1>1 DEF DInv, DGlobals, Asleep
<1>6. ASSUME NEW i \in Ids PROVE AccountedFor(i)'
  <2>1. AccountedFor(i)
    BY DEF DInv, DGlobals
  <2> QED
    BY <1>1, <1>3, <2>1, RestingFacts DEF AccountedFor, Alive
<1>7. SnapshotExact'
  BY <1>1 DEF DInv, SnapshotExact
<1> QED
  BY <1>4, <1>5, <1>6, <1>7, UnusedCounted, Sleeping

\* A cancel, and a resume over the same daemon.
LEMMA DriverTurns ==
  ASSUME DInv, cancelRun \/ resumeRun
  PROVE  DInv'
<1>1. /\ UNCHANGED <<ctr, cached, handles, op, refs, held, committed, faults, excused>>
      /\ driver'.up /\ driver' \in [up : BOOLEAN, epoch : Nat, cancelled : BOOLEAN]
  <2>1. driver \in [up : BOOLEAN, epoch : Nat, cancelled : BOOLEAN]
    BY DEF DInv, DTyped
  <2>2. CASE cancelRun
    BY <2>1, <2>2 DEF cancelRun
  <2>3. CASE resumeRun
    <3>1. driver.epoch + 1 \in Nat
      BY <2>1
    <3> QED
      BY <2>3, <3>1 DEF resumeRun
  <2> QED
    BY <2>2, <2>3
<1>2. DTyped'
  BY <1>1 DEF DInv, DTyped
<1>3. ASSUME NEW c \in Callers PROVE CallerGood(c)'
  <2>1. CallerGood(c)
    BY DEF DInv
  <2>2. Untouched(c)
    BY <1>1, <2>1 DEF Untouched, CallerGood, Holds
  <2> QED
    BY <1>1, <1>2, <2>1, <2>2, UntouchedGood DEF Longer, DInv, DTyped
<1>4. OneCallPerName' /\ Asleep' /\ SnapshotExact'
  BY <1>1 DEF DInv, DGlobals, OneCallPerName, Asleep, SnapshotExact
<1>5. Reserved'
  <2>1. Making' = Making /\ Unused' = Unused
    BY <1>1 DEF Making, Unused
  <2> QED
    BY <2>1, ReservedKept DEF DInv, DGlobals
<1>6. /\ \A n \in Names : HeldGood(n)'
      /\ \A id \in handles' : HandleGood(id)'
      /\ \A id \in Ids : AccountedFor(id)'
  BY <1>1 DEF DInv, DGlobals, HeldGood, HandleGood, AccountedFor, Alive
<1> QED
  BY <1>2, <1>3, <1>4, <1>5, <1>6 DEF DInv, DGlobals

\* The invariant holds before anything runs.
LEMMA DockerInit ==
  ASSUME DInit
  PROVE  DInv
<1>1. /\ ctr = [id \in Ids |-> NoContainer] /\ op = [c \in Callers |-> Idle] /\ handles = {} /\ refs = <<>>
      /\ held = [n \in Names |-> 0] /\ driver.up
  BY DEF DInit
<1>2. DTyped
  <2>1. NoContainer \in Containers /\ Idle \in Ops
    BY RestingFacts
  <2>2. NoContainer.done <= Len(NoContainer.cmd)
    BY DEF NoContainer
  <2>3. ctr \in [Ids -> Containers] /\ (\A id \in Ids : ctr[id].done <= Len(ctr[id].cmd)) /\ op \in [Callers -> Ops]
    BY <1>1, <2>1, <2>2
  <2>4. refs \in Seq(Snapshots) /\ Len(refs) = 0 /\ 0 <= MaxRefs
    BY <1>1, DockerFacts
  <2>5. 0 \in 0 .. MaxIds /\ 0 \in 0 .. Len(refs) /\ 0 \in 0 .. MaxFaults
    BY <2>4, DockerFacts
  <2>6. held \in [Names -> 0 .. MaxIds] /\ committed \in [Names -> 0 .. Len(refs)]
    BY <1>1, <2>5 DEF DInit
  <2>7. (\A n \in Compose : committed[n] = 0) /\ faults \in 0 .. MaxFaults
        /\ excused = {} /\ cached = {} /\ driver \in [up : BOOLEAN, epoch : Nat, cancelled : BOOLEAN]
    BY <2>5, DockerFacts DEF DInit
  <2> QED
    BY <1>1, <2>3, <2>4, <2>6, <2>7 DEF DTyped
<1>3. \A c \in Callers : CallerGood(c)
  <2>1. Placed(Idle) /\ Holds(Idle) /\ CopiesSoFar(Idle) /\ Restores(Idle) /\ Creates(Idle)
    BY RestingFacts DEF Placed, Holds, CopiesSoFar, Restores, Creates
  <2> QED
    BY <1>1, <2>1 DEF CallerGood
<1>4. OneCallPerName /\ Asleep
  BY <1>1, RestingFacts DEF OneCallPerName, Asleep
<1>5. Reserved
  <2>1. Making = {}
    BY <1>1, RestingFacts DEF Making
  <2>2. Cardinality(Making) = 0
    BY <2>1, FS_EmptySet, Zenon
  <2> QED
    BY <2>2, CardinalitiesTyped DEF Reserved
<1>6. /\ \A n \in Names : HeldGood(n)
      /\ \A id \in handles : HandleGood(id)
      /\ \A id \in Ids : AccountedFor(id)
  BY <1>1, RestingFacts DEF HeldGood, AccountedFor, Alive
<1>7. SnapshotExact
  BY <1>1 DEF SnapshotExact
<1> QED
  BY <1>2, <1>3, <1>4, <1>5, <1>6, <1>7 DEF DInv, DGlobals

\* Every step of a call.
LEMMA CallSteps ==
  ASSUME DInv, NEW c \in Callers, DStep(c)
  PROVE  DInv'
<1>1. CASE extractDiff(c)
  <2>1. CASE Fails(c, "extract")
    BY <2>1, FailsSafe DEF Stages, LaterOnly
  <2>2. CASE ~Fails(c, "extract")
    BY <1>1, <2>2, Extracts DEF extractDiff
  <2> QED
    BY <2>1, <2>2
<1>2. CASE prepareRuntimeDirs(c)
  <2>1. CASE Fails(c, "dirs")
    BY <2>1, FailsSafe DEF Stages
  <2>2. CASE ~Fails(c, "dirs")
    BY <1>2, <2>2, DirsMade DEF prepareRuntimeDirs
  <2> QED
    BY <2>1, <2>2
<1>3. CASE seedRestoreHandshake(c)
  <2>1. CASE Fails(c, "seed")
    BY <2>1, FailsSafe DEF Stages, LaterOnly
  <2>2. CASE ~Fails(c, "seed")
    BY <1>3, <2>2, Seeded DEF seedRestoreHandshake
  <2> QED
    BY <2>1, <2>2
<1>4. CASE ContainerStart(c)
  <2>1. CASE Fails(c, "start")
    BY <2>1, FailsSafe DEF Stages
  <2>2. CASE ~Fails(c, "start")
    BY <1>4, <2>2, Started DEF ContainerStart
  <2> QED
    BY <2>1, <2>2
<1> QED
  BY <1>1, <1>2, <1>3, <1>4, Pulls, ContainerCreates, Handshakes, ReadyOrNot, CleansUp, ComposeUps,
     ComposePrepared, Captures, Puts, Commits, DestroyEnds DEF DStep

\* Every step of the system.
LEMMA DockerStep ==
  ASSUME DInv, DNext
  PROVE  DInv'
<1>1. CASE \E c \in Callers : DStep(c)
  BY <1>1, CallSteps
<1>2. CASE \E c \in Callers, n \in Names : createOrRestore(c, n) \/ Snapshot(c, n) \/ destroyBegin(c, n)
  BY <1>2, CreateOrRestoreBegins, SnapshotBegins, DestroyBegins
<1>3. CASE \E n \in Names \ (Compose \cup Pulled), p \in Paths, v \in {"written", Gone} : stepWrites(n, p, v)
  BY <1>3, StepWriting
<1>4. CASE \E id \in Ids : wrapperStep(id) \/ operatorRemoves(id) \/ workloadDies(id)
  BY <1>4, WrapperSteps, OperatorRemoving, Dies
<1>5. CASE driverEnds \/ cancelRun \/ resumeRun
  BY <1>5, DriverEnding, DriverTurns
<1> QED
  BY <1>1, <1>2, <1>3, <1>4, <1>5 DEF DNext

\* A step that changes nothing.
LEMMA DockerStutter ==
  ASSUME DInv, UNCHANGED vars
  PROVE  DInv'
<1> USE DEF vars
<1>1. DTyped'
  BY DEF DInv, DTyped
<1>2. ASSUME NEW c \in Callers PROVE CallerGood(c)'
  <2>1. CallerGood(c)
    BY DEF DInv
  <2>2. Untouched(c)
    BY <2>1 DEF Untouched, CallerGood, Holds
  <2> QED
    BY <1>1, <2>1, <2>2, UntouchedGood DEF Longer, DInv, DTyped
<1>3. OneCallPerName' /\ Asleep' /\ SnapshotExact'
  BY DEF DInv, DGlobals, OneCallPerName, Asleep, SnapshotExact
<1>4. Reserved'
  <2>1. Making' = Making /\ Unused' = Unused
    BY DEF Making, Unused
  <2> QED
    BY <2>1, ReservedKept DEF DInv, DGlobals
<1>5. /\ \A n \in Names : HeldGood(n)'
      /\ \A id \in handles' : HandleGood(id)'
      /\ \A id \in Ids : AccountedFor(id)'
  BY DEF DInv, DGlobals, HeldGood, HandleGood, AccountedFor, Alive
<1> QED
  BY <1>1, <1>2, <1>3, <1>4, <1>5 DEF DInv, DGlobals

\* The invariant gives what the runs check of every state.
LEMMA DockerStates ==
  ASSUME DInv
  PROVE  DTypeOK /\ Accounted /\ HandleDenotes /\ SnapshotExact
<1>1. DTypeOK
  <2>1. ASSUME NEW id \in Ids
        PROVE  /\ ctr[id].st \in {"none", "created", "running", "exited", "removed"}
               /\ ctr[id].fs \in [Paths -> {"image", "written", Gone}]
               /\ ctr[id].done \in 0 .. Len(ctr[id].cmd)
    <3>1. ctr[id] \in Containers /\ ctr[id].done <= Len(ctr[id].cmd)
      BY DEF DInv, DTyped
    <3>2. ctr[id].done \in Nat /\ ctr[id].cmd \in Commands
      BY <3>1 DEF Containers
    <3>3. ctr[id].done \in 0 .. Len(ctr[id].cmd)
      BY <3>1, <3>2 DEF Commands
    <3> QED
      BY <3>1, <3>3 DEF Containers, Bodies
  <2> QED
    BY <2>1 DEF DTypeOK, DInv, DTyped
<1>2. Accounted
  BY DEF DInv, DGlobals, Accounted, AccountedFor
<1>3. HandleDenotes
  BY DEF DInv, DGlobals, HandleDenotes, HandleGood, HeldGood
<1> QED
  BY <1>1, <1>2, <1>3 DEF DInv

\* Only three steps register a container: a create or restore found ready, a
\* project prepared, and a destroy whose remove failed.
LEMMA Registering ==
  ASSUME DNext, ~(handles' \subseteq handles)
  PROVE  \E c \in Callers : waitReady(c) \/ prepareComposeRuntimeDirs(c) \/ destroyRemove(c)
<1>1. ASSUME NEW c \in Callers, DStep(c)
      PROVE  waitReady(c) \/ prepareComposeRuntimeDirs(c) \/ destroyRemove(c) \/ handles' = handles
  <2>1. \A pc : Fails(c, pc) => handles' = handles
    BY DEF Fails
  <2>2. \A pc, next : Stage(c, pc, next) => handles' = handles
    BY DEF Stage
  <2>3. pullIfAbsent(c) \/ ContainerCreate(c) \/ cleanupPartialContainer(c) \/ composeUp(c)
        \/ captureOneIntoDiffTar(c) \/ putSnapshot(c) \/ commitStep(c) => handles' = handles
    BY <2>1 DEF pullIfAbsent, ContainerCreate, cleanupPartialContainer, composeUp, captureOneIntoDiffTar,
                putSnapshot, commitStep
  <2>4. extractDiff(c) \/ prepareRuntimeDirs(c) \/ seedRestoreHandshake(c) \/ ContainerStart(c)
        \/ restoreHandshake(c) => handles' = handles
    BY <2>1, <2>2 DEF extractDiff, prepareRuntimeDirs, seedRestoreHandshake, ContainerStart, restoreHandshake,
                      waitForRestoreMarker, writeRestoreMarkers
  <2> QED
    BY <1>1, <2>3, <2>4 DEF DStep
<1>2. ASSUME NEW c \in Callers, NEW n \in Names, createOrRestore(c, n) \/ Snapshot(c, n) \/ destroyBegin(c, n)
      PROVE  handles' \subseteq handles
  BY <1>2 DEF createOrRestore, Snapshot, destroyBegin
<1>3. ASSUME NEW n, NEW p, NEW v, stepWrites(n, p, v) PROVE handles' = handles
  BY <1>3 DEF stepWrites
<1>4. ASSUME NEW id, wrapperStep(id) \/ operatorRemoves(id) \/ workloadDies(id) PROVE handles' = handles
  BY <1>4 DEF wrapperStep, operatorRemoves, workloadDies
<1>5. ASSUME driverEnds \/ cancelRun \/ resumeRun PROVE handles' \subseteq handles
  BY <1>5 DEF driverEnds, cancelRun, resumeRun
<1> QED
  BY <1>1, <1>2, <1>3, <1>4, <1>5 DEF DNext

\* A restore that is found ready holds what the snapshot had read.
LEMMA ReadyAsCommitted ==
  ASSUME DInv, NEW c \in Callers, op[c].pc = "ready", op[c].kind = "restore",
         refs[op[c].ref].cmd = <<>>, refs[op[c].ref].quiet
  PROVE  LET k == ctr[op[c].id] IN k.fs = refs[op[c].ref].was /\ k.done = Len(k.cmd)
<1> DEFINE k == ctr[op[c].id]
           r == op[c].ref
<1>1. op[c].pc \in Stages
  BY DEF Stages
<1>2. /\ op[c].id # 0 /\ k \in Containers /\ k.done <= Len(k.cmd) /\ r \in 1 .. Len(refs)
      /\ op[c].deletes = refs[r].deletes /\ Restores(op[c])
  BY <1>1, StageFacts
<1>3. RestoredSoFar(op[c], k) /\ k.done \in Nat
  BY <1>2 DEF Restores, Containers
<1>4. k.cmd = restoreContainerConfig(op[c])
  BY <1>3 DEF RestoredSoFar
<1>5. refs[r].was \in [Paths -> Bodies]
  BY <1>2, SnapshotTyped DEF DInv
<1>6. \A p \in Paths : refs[r].was[p] = Wiped(r)[p]
  <2>1. \A p \in Paths :
          refs[r].was[p] =
            IF p \in refs[r].deletes THEN Gone
            ELSE IF \E e \in refs[r].diff : e.path = p
                   THEN (CHOOSE e \in refs[r].diff : e.path = p).body
                   ELSE Image[p]
    BY <1>2 DEF DInv, SnapshotExact
  <2> QED
    BY <2>1 DEF Wiped, Laid
<1>7. refs[r].was = Wiped(r)
  BY <1>5, <1>6 DEF Wiped
<1>8. CASE op[c].deletes = {}
  <2>1. k.fs = Laid(r)
    BY <1>3, <1>8 DEF RestoredSoFar
  <2>2. Wiped(r) = Laid(r)
    BY <1>2, <1>8 DEF Wiped, Laid
  <2>3. k.cmd = <<>>
    BY <1>4, <1>8 DEF restoreContainerConfig
  <2>4. Len(k.cmd) = 0
    BY <2>3
  <2> QED
    BY <1>2, <1>3, <1>7, <2>1, <2>2, <2>4
<1>9. CASE op[c].deletes # {}
  <2>1. Wrapper(k, k.mk[r], r) /\ k.done = 1
    BY <1>3, <1>9 DEF RestoredSoFar, Turns
  <2>2. k.fs = Wiped(r)
    BY <2>1 DEF Wrapper
  <2>3. k.cmd = <<[tok |-> r, deletes |-> op[c].deletes]>> \o <<>>
    BY <1>4, <1>9 DEF restoreContainerConfig
  <2>4. Len(k.cmd) = 1
    BY <2>3
  <2> QED
    BY <1>7, <2>1, <2>2, <2>4
<1> QED
  BY <1>8, <1>9

\* The invariant gives what the runs check of every step.
LEMMA DockerSteps ==
  ASSUME DInv, [DNext]_vars
  PROVE  [\A id \in handles' \ handles :
            (ctr[id].from # 0 /\ refs[ctr[id].from].cmd = <<>> /\ held[ctr[id].name] # id
               /\ refs[ctr[id].from].quiet)
            => /\ ctr'[id].fs = refs[ctr[id].from].was
               /\ ctr'[id].done = Len(ctr'[id].cmd)]_vars
<1> SUFFICES ASSUME DNext, NEW id \in handles' \ handles,
                    ctr[id].from # 0, refs[ctr[id].from].cmd = <<>>, held[ctr[id].name] # id,
                    refs[ctr[id].from].quiet
             PROVE  ctr'[id].fs = refs[ctr[id].from].was /\ ctr'[id].done = Len(ctr'[id].cmd)
  OBVIOUS
<1>1. PICK c \in Callers : waitReady(c) \/ prepareComposeRuntimeDirs(c) \/ destroyRemove(c)
  BY Registering
<1>2. CallerGood(c) /\ DTyped
  BY DEF DInv
<1>3. CASE destroyRemove(c)
  <2>1. op[c].pc = "remove" /\ id = op[c].id
    BY <1>3 DEF destroyRemove, Calls
  <2>2. op[c].kind = "destroy" /\ op[c].id # 0
    BY <2>1, KindOfPoint
  <2>3. ctr[id].name = op[c].name /\ held[op[c].name] = id
    BY <1>2, <2>1, <2>2 DEF CallerGood, Holds
  <2> QED
    BY <2>3
<1>4. CASE prepareComposeRuntimeDirs(c)
  <2>1. op[c].pc = "services" /\ id = op[c].id
    BY <1>4 DEF prepareComposeRuntimeDirs, Ok, Calls, Fails
  <2>2. op[c].kind = "create" /\ op[c].id # 0
    BY <2>1, KindOfPoint DEF Stages
  <2>3. ctr[id].from = 0
    BY <1>2, <2>1, <2>2 DEF CallerGood, Creates
  <2> QED
    BY <2>3
<1>5. CASE waitReady(c)
  <2>1. op[c].pc = "ready" /\ id = op[c].id /\ ctr' = ctr
    BY <1>5 DEF waitReady, Ok, Calls, Fails
  <2>2. op[c].kind \in {"create", "restore"} /\ op[c].id # 0
    BY <2>1, KindOfPoint DEF Stages
  <2>3. op[c].kind = "restore"
    BY <1>2, <2>1, <2>2 DEF CallerGood, Creates
  <2>4. ctr[id].from = op[c].ref
    BY <1>2, <2>1, <2>2, <2>3 DEF CallerGood, Restores, RestoredSoFar
  <2> QED
    BY <2>1, <2>3, <2>4, ReadyAsCommitted
<1> QED
  BY <1>1, <1>3, <1>4, <1>5

\* The docker backend (backend.go, snapshot.go, compose.go), for
\* every instance: a container is accounted for until the program gives it up,
\* which it does in the three ways Accounted names, a held handle is its runtime's,
\* a quiet snapshot is exact, and a restore hands over the committed files.
THEOREM DockerIsSafe == DSpec => DockerSafe
<1>1. DInit => DInv
  BY DockerInit
<1>2. DInv /\ [DNext]_vars => DInv'
  BY DockerStep, DockerStutter
<1>3. DInv => DTypeOK /\ Accounted /\ HandleDenotes /\ SnapshotExact
  BY DockerStates
<1>4. DInv /\ [DNext]_vars =>
        [\A id \in handles' \ handles :
            (ctr[id].from # 0 /\ refs[ctr[id].from].cmd = <<>> /\ held[ctr[id].name] # id
               /\ refs[ctr[id].from].quiet)
            => /\ ctr'[id].fs = refs[ctr[id].from].was
               /\ ctr'[id].done = Len(ctr'[id].cmd)]_vars
  BY DockerSteps
<1> QED
  BY <1>1, <1>2, <1>3, <1>4, PTL DEF DSpec, DockerSafe, RestoredAsCommitted
=============================================================================
