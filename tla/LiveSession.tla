---------------------------- MODULE LiveSession ----------------------------
(***************************************************************************)
(* The live registry: a session record and a lease per session key, files  *)
(* that every awf process of the host shares.  A codex-live step prepares  *)
(* the session, takes the lease, records the turn it is about to start,    *)
(* starts it at the provider and follows it; after the step's commit the   *)
(* finalizer clears the turn and gives the lease back.  Records are read   *)
(* and written in separate steps: only the lease operations and the        *)
(* finalizer hold the session lock.                                        *)
(***************************************************************************)
EXTENDS Naturals, FiniteSets

CONSTANTS
    Launchers,     \* steps, each of a run of its own, that name the same session
    Recovery,      \* [Launchers -> {"continue", "restart"}], retry.recovery as resolved
    MaxAttempts,   \* attempts of the retry policy
    MaxEpochs,     \* bound on resumes of a run
    MaxFaults,     \* bound on crashes and failures
    Paths,         \* where the search for codex may find it
    Versions,      \* what the binary there says it is
    Installed      \* the binary found at first

\* "none" stands for no owner, no path and no version
ASSUME LiveAssumption ==
    /\ "none" \notin Launchers \cup Paths \cup Versions
    /\ Installed \in [path : Paths, version : Versions]
    /\ Recovery \in [Launchers -> {"continue", "restart"}]
    /\ MaxAttempts \in Nat \ {0} /\ MaxEpochs \in Nat \ {0} /\ MaxFaults \in Nat

VARIABLES
    session,    \* the session record on disk, or NoSession
    lease,      \* the lease file: owner and epoch, and whether its TTL has passed
    binary,     \* the codex that a search finds: its path, and its version
    pc,         \* [Launchers -> where the launch is]
    copy,       \* [Launchers -> the session record the launch read last]
    attempt,    \* [Launchers -> attempt of the retry loop, 0 outside of it]
    epoch,      \* [Launchers -> epoch of the run]
    committed,  \* launchers whose step is in the journal
    faults,     \* crashes and failures left
    asked,      \* history: turns the provider may have started
    dropped     \* history: turns that left the record while they were not committed, how, and by whom

liveVars == <<session, lease, binary, pc, copy, attempt, epoch, committed, faults, asked, dropped>>
local == <<attempt, epoch, committed>>

NoTurn == [owner |-> "none", epoch |-> 0, attempt |-> 0, phase |-> "none"]
NoSession == [binary |-> "none", version |-> "none", active |-> NoTurn, last |-> NoTurn]
NoLease == [owner |-> "none", epoch |-> 0, stale |-> FALSE]

Key(t) == <<t.owner, t.epoch, t.attempt>>
\* the turn a launch is about
Turn(l, phase) == [owner |-> l, epoch |-> epoch[l], attempt |-> attempt[l], phase |-> phase]

-----------------------------------------------------------------------------
(* The registry.                                                           *)

\* LeaseID: run, epoch, node path and session key
Owns(l) == lease.owner = l /\ lease.epoch = epoch[l]

\* CheckSessionDrift: ProviderBinary is a path, and AdapterVersion is not compared
Drifted(existing, next) == existing.binary # next.binary

\* history of a write: a turn that is on record before it and not after it
Write(l, rec, how) ==
    /\ session' = rec
    /\ dropped' = IF session.active # NoTurn /\ Key(rec.active) # Key(session.active)
                     /\ session.active.owner \notin committed
                  THEN dropped \cup {<<Key(session.active), how, l>>}
                  ELSE dropped

-----------------------------------------------------------------------------
(* The launch.                                                             *)

Goto(l, label) == pc' = [pc EXCEPT ![l] = label]
Fault == faults > 0 /\ faults' = faults - 1

\* a failed attempt: the retry loop launches again, or the step has failed
GiveUp(l) ==
    /\ pc' = [pc EXCEPT ![l] = IF attempt[l] < MaxAttempts THEN "launch" ELSE "failed"]
    /\ attempt' = [attempt EXCEPT ![l] = IF attempt[l] < MaxAttempts THEN attempt[l] + 1 ELSE 0]
    /\ copy' = [copy EXCEPT ![l] = NoSession]

\* an error without outcome: the run stops
Halt(l) ==
    /\ Goto(l, "halted")
    /\ attempt' = [attempt EXCEPT ![l] = 0]
    /\ copy' = [copy EXCEPT ![l] = NoSession]

\* the first attempt of the step in this process
Begin(l) ==
    /\ pc[l] = "begin"
    /\ Goto(l, "launch")
    /\ attempt' = [attempt EXCEPT ![l] = 1]
    /\ UNCHANGED <<session, lease, binary, copy, epoch, committed, faults, asked, dropped>>

\* continueRetry of Launch, as the engine counts attempts
continueRetry(l) == attempt[l] > 0 /\ Recovery[l] = "continue"

\* what prepareSession works with: the record, and the binary that ProviderInfo told
Known == [info |-> binary, binary |-> session.binary, active |-> session.active, last |-> session.last]

\* the record it will write: AdapterVersion is the version of that binary
NextRecord(known) == [binary |-> known.info.path, version |-> known.info.version, active |-> NoTurn, last |-> known.last]

\* ProviderInfo, and prepareSession up to its first call of the provider
Prepare(l) ==
    /\ pc[l] = "launch"
    /\ \/ /\ session.active # NoTurn /\ ~continueRetry(l)
          /\ Halt(l)
       \/ /\ session.active # NoTurn /\ continueRetry(l)
          /\ copy' = [copy EXCEPT ![l] = Known]
          /\ Goto(l, "abandon")
          /\ UNCHANGED attempt
       \/ /\ session.active = NoTurn
          /\ copy' = [copy EXCEPT ![l] = Known]
          /\ Goto(l, IF session = NoSession THEN "start thread" ELSE "resume thread")
          /\ UNCHANGED attempt
    /\ UNCHANGED <<session, lease, binary, epoch, committed, faults, asked, dropped>>

\* ClearActiveTurnForRecovery, behind a read of its own
Abandon(l) ==
    /\ pc[l] = "abandon"
    /\ Write(l, [session EXCEPT !.active = NoTurn], "recovery")
    /\ copy' = [copy EXCEPT ![l] = [copy[l] EXCEPT !.active = NoTurn]]
    /\ Goto(l, "resume thread")
    /\ UNCHANGED <<lease, binary, local, faults, asked>>

\* the drift check and ResumeThread, or StartThread
Connect(l) ==
    /\ pc[l] \in {"resume thread", "start thread"}
    /\ \/ /\ pc[l] = "resume thread" /\ Drifted(copy[l], NextRecord(copy[l]))
          /\ GiveUp(l)
          /\ UNCHANGED faults
       \/ /\ pc[l] = "start thread" \/ ~Drifted(copy[l], NextRecord(copy[l]))
          /\ Goto(l, "write back")
          /\ UNCHANGED <<attempt, copy, faults>>
       \/ /\ Fault
          /\ GiveUp(l)
    /\ UNCHANGED <<session, lease, binary, epoch, committed, asked, dropped>>

\* WriteSessionRecord of what prepareSession read, or of a new record
WriteBack(l) ==
    /\ pc[l] = "write back"
    /\ LET next == NextRecord(copy[l]) IN
       \/ /\ session # NoSession /\ Drifted(session, next)
          /\ GiveUp(l)
          /\ UNCHANGED <<session, dropped>>
       \/ /\ session = NoSession \/ ~Drifted(session, next)
          /\ Write(l, next, "write back")
          /\ Goto(l, "acquire")
          /\ copy' = [copy EXCEPT ![l] = NoSession]
          /\ UNCHANGED attempt
    /\ UNCHANGED <<lease, binary, epoch, committed, faults, asked>>

\* AcquireLease with no runHeld: free, or its own; another's is a conflict
\* until its TTL has passed and stale-owned after it
AcquireLease(l) ==
    /\ pc[l] = "acquire"
    /\ IF lease = NoLease \/ Owns(l)
       THEN /\ lease' = [owner |-> l, epoch |-> epoch[l], stale |-> FALSE]
            /\ Goto(l, "intent")
            /\ UNCHANGED <<attempt, copy>>
       ELSE GiveUp(l) /\ UNCHANGED lease
    /\ UNCHANGED <<session, binary, epoch, committed, faults, asked, dropped>>

\* the TTL passes: nobody renews a lease
LeaseExpires ==
    /\ lease # NoLease /\ ~lease.stale
    /\ lease' = [lease EXCEPT !.stale = TRUE]
    /\ UNCHANGED <<session, binary, pc, copy, local, faults, asked, dropped>>

\* RecordTurnIntent and ClearActiveTurnIfSafe read the record ...
ReadRecord(l, from, to) ==
    /\ pc[l] = from
    /\ copy' = [copy EXCEPT ![l] = session]
    /\ Goto(l, to)
    /\ UNCHANGED <<session, lease, binary, local, faults, asked, dropped>>

\* ... and write it
RecordTurnIntent(l, from, phase, to) ==
    /\ pc[l] = from
    /\ Write(l, [copy[l] EXCEPT !.active = Turn(l, phase)], "intent")
    /\ copy' = [copy EXCEPT ![l] = NoSession]
    /\ Goto(l, to)
    /\ UNCHANGED <<lease, binary, local, faults, asked>>

\* ReleaseLease: only its own
Released(l) == IF Owns(l) THEN NoLease ELSE lease

\* mutant of StartTurn: an ambiguous failure is taken for one without a turn
StartTurnCertain(l) ==
    /\ pc[l] = "start turn"
    /\ \/ /\ Goto(l, "read mark")
          /\ asked' = asked \cup {Key(Turn(l, "started"))}
          /\ UNCHANGED faults
       \/ /\ Goto(l, "read clear")
          /\ asked' = asked \cup {Key(Turn(l, "started"))}
          /\ Fault
    /\ UNCHANGED <<session, lease, binary, copy, local, dropped>>

\* startTurnWithBackoff: started; backpressure to the last; any other error,
\* behind which the provider may have started the turn
StartTurn(l) ==
    /\ pc[l] = "start turn"
    /\ \/ /\ Goto(l, "read mark")
          /\ asked' = asked \cup {Key(Turn(l, "started"))}
          /\ UNCHANGED <<lease, attempt, copy, faults>>
       \/ /\ Goto(l, "read clear")
          /\ Fault
          /\ UNCHANGED <<lease, asked, attempt, copy>>
       \/ /\ asked' \in {asked, asked \cup {Key(Turn(l, "started"))}}
          /\ lease' = Released(l)
          /\ GiveUp(l)
          /\ Fault
    /\ UNCHANGED <<session, binary, epoch, committed, dropped>>

\* ClearActiveTurnIfSafe: an intent without a provider turn; then the lease
ClearActiveTurnIfSafe(l) ==
    /\ pc[l] = "clear"
    /\ IF copy[l].active.phase = "intent"
       THEN Write(l, [copy[l] EXCEPT !.active = NoTurn], "backpressure")
       ELSE UNCHANGED <<session, dropped>>
    /\ lease' = Released(l)
    /\ GiveUp(l)
    /\ UNCHANGED <<binary, epoch, committed, faults, asked>>

\* drainTurn: completed; completed with output that does not parse or conform;
\* the stream ends, the turn fails, a permission is denied, the step is stopped
FollowTurn(l) ==
    /\ pc[l] = "drain"
    /\ \/ Goto(l, "commit") /\ UNCHANGED <<attempt, copy, faults>>
       \/ /\ IF Recovery[l] = "continue" THEN GiveUp(l) ELSE Halt(l)
          /\ Fault
       \/ GiveUp(l) /\ Fault
       \/ Goto(l, "failed") /\ attempt' = [attempt EXCEPT ![l] = 0] /\ Fault /\ UNCHANGED copy
    /\ UNCHANGED <<session, lease, binary, epoch, committed, asked, dropped>>

\* mutant of CommitStep: the lease is given back before the finalizer
CommitReleases(l) ==
    /\ pc[l] = "commit"
    /\ committed' = committed \cup {l}
    /\ lease' = Released(l)
    /\ Goto(l, "read final")
    /\ UNCHANGED <<session, binary, copy, attempt, epoch, faults, asked, dropped>>

\* node.completed of the step
CommitStep(l) ==
    /\ pc[l] = "commit"
    /\ committed' = committed \cup {l}
    /\ Goto(l, "read final")
    /\ UNCHANGED <<session, lease, binary, copy, attempt, epoch, faults, asked, dropped>>

\* FinalizeCommittedTurn: the turn on record is this one, or there is none
activeTurnMatchesCommit(active, turn) == active \in {NoTurn, turn}
FinalizeCommittedTurn(rec, turn) == [rec EXCEPT !.active = NoTurn, !.last = turn]

\* FinalizeCommittedTurn and the lease; a turn of another is a warning, and the lease stays
FinalizeTurn(l) ==
    /\ pc[l] = "finalize"
    /\ IF activeTurnMatchesCommit(copy[l].active, Turn(l, "started"))
       THEN /\ Write(l, FinalizeCommittedTurn(copy[l], Turn(l, "started")), "finalize")
            /\ lease' = Released(l)
       ELSE UNCHANGED <<session, lease, dropped>>
    /\ copy' = [copy EXCEPT ![l] = NoSession]
    /\ Goto(l, "done") /\ attempt' = [attempt EXCEPT ![l] = 0]
    /\ UNCHANGED <<binary, epoch, committed, faults, asked>>

Resting == {"begin", "failed", "halted", "dead", "done"}

\* the process of the run dies
Crash(l) ==
    /\ pc[l] \notin Resting
    /\ Fault
    /\ Goto(l, "dead")
    /\ attempt' = [attempt EXCEPT ![l] = 0]
    /\ copy' = [copy EXCEPT ![l] = NoSession]
    /\ UNCHANGED <<session, lease, binary, epoch, committed, asked, dropped>>

\* awf resume: a committed step is replayed; PreflightResume refuses a session with an active turn
Resume(l) ==
    /\ pc[l] \in {"failed", "halted", "dead"}
    /\ epoch[l] < MaxEpochs
    /\ \/ l \in committed /\ Goto(l, "done") /\ UNCHANGED epoch
       \/ /\ l \notin committed /\ session.active = NoTurn
          /\ epoch' = [epoch EXCEPT ![l] = epoch[l] + 1]
          /\ Goto(l, "begin")
    /\ UNCHANGED <<session, lease, binary, copy, attempt, committed, faults, asked, dropped>>

\* another codex is found: one installed elsewhere, or one that replaced the binary in place
Install ==
    /\ \E b \in [path : Paths, version : Versions] \ {binary} : binary' = b
    /\ Fault
    /\ UNCHANGED <<session, lease, pc, copy, local, asked, dropped>>

LiveInit ==
    /\ session = NoSession /\ lease = NoLease
    /\ binary = Installed
    /\ pc = [l \in Launchers |-> "begin"]
    /\ copy = [l \in Launchers |-> NoSession]
    /\ attempt = [l \in Launchers |-> 0] /\ epoch = [l \in Launchers |-> 1]
    /\ committed = {} /\ faults = MaxFaults
    /\ asked = {} /\ dropped = {}

LaunchStep(l) ==
    \/ Begin(l) \/ Prepare(l) \/ Abandon(l) \/ Connect(l) \/ WriteBack(l) \/ AcquireLease(l)
    \/ ReadRecord(l, "intent", "write intent") \/ RecordTurnIntent(l, "write intent", "intent", "start turn")
    \/ StartTurn(l)
    \/ ReadRecord(l, "read clear", "clear") \/ ClearActiveTurnIfSafe(l)
    \/ ReadRecord(l, "read mark", "mark") \/ RecordTurnIntent(l, "mark", "started", "drain")
    \/ FollowTurn(l) \/ CommitStep(l)
    \/ ReadRecord(l, "read final", "finalize") \/ FinalizeTurn(l)
LiveNext ==
    \/ \E l \in Launchers : LaunchStep(l) \/ Crash(l) \/ Resume(l)
    \/ LeaseExpires \/ Install
LiveSpec == LiveInit /\ [][LiveNext]_liveVars

-----------------------------------------------------------------------------
(* Properties.                                                             *)

UnderLease == {"intent", "write intent", "start turn", "read clear", "clear", "read mark", "mark", "drain"}
Labels == UnderLease \cup Resting \cup {"launch", "abandon", "resume thread", "start thread", "write back", "acquire",
                                        "commit", "read final", "finalize"}

\* Every variable of the live registry has its type.
LiveTypeOK ==
    /\ pc \in [Launchers -> Labels]
    /\ attempt \in [Launchers -> 0 .. MaxAttempts]
    /\ epoch \in [Launchers -> 1 .. MaxEpochs]
    /\ session.binary \in Paths \cup {"none"} /\ session.active.phase \in {"none", "intent", "started"}
    /\ lease.owner \in Launchers \cup {"none"}
    /\ committed \subseteq Launchers /\ faults \in 0 .. MaxFaults

\* From AcquireLease to the end of its turn a launch holds the lease of the session,
\* whatever others release, retry or find expired: two steps never drive the
\* same thread at a time.
TurnUnderLease == \A l \in Launchers : pc[l] \in UnderLease => Owns(l)

\* A turn that left the record while its step was not committed: abandoned by a
\* retry under recovery:continue (ClearActiveTurnForRecovery), its own launch's or
\* any other's; or written over by another launch of the session, whose
\* prepareSession had read the record before the turn was on it, or whose
\* RecordTurnIntent came behind an ambiguous failure to start it.
LeftTheRecord(d) ==
    \/ d[2] = "recovery" /\ Recovery[d[3]] = "continue"
    \/ d[2] \in {"write back", "intent"} /\ d[3] # d[1][1]

\* The replay marker: a turn the provider may have started, of a step that is not
\* committed, is on record, or LeftTheRecord says how it was lost.  The two
\* overwritings are accidents and leave a turn that no resume will know of
\* (launch.go:167-206 reads and writes without the lock); so is a recovery of a
\* turn of another run (launch.go:171-183 does not ask whose it is).  No launch
\* overwrites its own turn, and a crash, a failed start or a lost lease loses
\* none: a session that one step names keeps its marker until that step itself
\* abandons the turn under recovery:continue.
ReplayMarkerKept ==
    \A t \in asked :
        \/ session.active # NoTurn /\ Key(session.active) = t
        \/ t[1] \in committed
        \/ \E d \in dropped : d[1] = t /\ LeftTheRecord(d)

\* What the record says was committed was: the finalizer writes a turn as the
\* last committed one only behind the commit of its step.
LastIsCommitted == session.last # NoTurn => session.last.owner \in committed

\* Who takes a turn off the record, or puts another in its place: the finalizer
\* and the clearing behind backpressure only their own launch's
\* (activeTurnMatchesCommit, ClearActiveTurnIfSafe); a retry under
\* recovery:continue whatever turn is there; and prepareSession's write back and
\* RecordTurnIntent, which look at nobody's, only turns of other launches.
TurnTakenOff ==
    [][\A l \in Launchers :
          /\ pc'[l] # pc[l] /\ session.active # NoTurn /\ Key(session'.active) # Key(session.active)
          => \/ pc[l] \in {"finalize", "clear"} /\ session.active.owner = l
             \/ pc[l] = "abandon" /\ Recovery[l] = "continue"
             \/ pc[l] \in {"write back", "write intent"} /\ session.active.owner # l]_liveVars

\* A session record keeps the path of the binary it was started with, though
\* launches write back what they read before an upgrade, or behind another's.
\* A binary replaced in place has the same path, and is not noticed: the version
\* is on record and nobody compares it (session.go:147-158).
PathPinned == [][session # NoSession => session'.binary = session.binary]_liveVars

\* A session has one driver at a time, a turn the provider may have started is
\* lost to the record in the ways of LeftTheRecord only, and what the record says
\* was committed was.
RegistrySafe ==
    /\ LiveTypeOK
    /\ TurnUnderLease
    /\ LastIsCommitted
    /\ ReplayMarkerKept

\* A launch ends its own turn on record, takes another's only by a recovery or by
\* one of the two blind writes, and no launch moves a session to another path.
RegistrySteps ==
    /\ TurnTakenOff
    /\ PathPinned
=============================================================================
