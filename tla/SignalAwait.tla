----------------------------- MODULE SignalAwait -----------------------------
(***************************************************************************)
(* Signals of one name: `awf signal` processes that drop numbered files    *)
(* into the run's control directory (signal.Broker.WriteSignal), and the   *)
(* await steps of a running workflow that claim a file by renaming it into *)
(* consumed/ and journal what they got (signal.received, node.completed).  *)
(* The driver may crash and be resumed at any point.                       *)
(*                                                                         *)
(* A file is named by its sequence number but is an inode of its own: the  *)
(* writer w that created it.  A rename moves whatever inode has the name.  *)
(***************************************************************************)
EXTENDS Naturals, Sequences, FiniteSets

CONSTANTS
    Writers,     \* awf signal invocations, each with its own payload
    Awaits,      \* await steps for this signal, in parallel branches
    Keyed,       \* the awaits with a where: clause
    Accepted,    \* the payloads for which the where: clauses hold
    Typed,       \* the awaits with an output_schema
    Valid,       \* the payloads that satisfy the output_schema
    Overlapping, \* TRUE if two awf signal processes may run at the same time
    MaxFaults    \* bound on crashes, timeouts and cancellations

ASSUME SignalAssumption ==
    /\ IsFiniteSet(Writers)
    /\ Keyed \subseteq Awaits
    /\ Typed \subseteq Awaits
    /\ Accepted \subseteq Writers
    /\ Valid \subseteq Writers
    /\ Overlapping \in BOOLEAN
    /\ MaxFaults \in Nat

VARIABLES
    wpc,        \* [Writers -> where WriteSignal is]
    seqOf,      \* [Writers -> the sequence number it allocated, 0 before]
    dir,        \* [Writers -> the directory its file is in]
    full,       \* [Writers -> its payload has been written]
    up,         \* a driver executes the run
    apc,        \* [Awaits -> where the await step is]
    got,        \* [Awaits -> what it read: sequence number, inode, payload there?]
    log,        \* the run's log, signal.received and node.* of the awaits
    faultsLeft

writers == <<wpc, seqOf>>
vars == <<wpc, seqOf, dir, full, up, apc, got, log, faultsLeft>>

-----------------------------------------------------------------------------

NoneGot == [seq |-> 0, from |-> {}, full |-> FALSE]

Record == [type : {"signal.received", "node.completed", "node.failed"},
           await : Awaits, seq : Nat, from : SUBSET Writers, full : BOOLEAN]

Pending(s) == {w \in Writers : dir[w] = "control" /\ seqOf[w] = s}

Logged(type, a) == {i \in 1 .. Len(log) : log[i].type = type /\ log[i].await = a}

Step(a, s) == apc' = [apc EXCEPT ![a] = s]

Journal(type, a) ==
    log' = Append(log, [type |-> type, await |-> a, seq |-> got[a].seq,
                        from |-> got[a].from, full |-> got[a].full])

-----------------------------------------------------------------------------
(* WriteSignal.                                                            *)

\* one more than the largest number in control/ and consumed/
NextSeq ==
    CHOOSE n \in 1 .. Cardinality(Writers) + 1 :
        /\ \A w \in Writers : dir[w] \in {"control", "consumed"} => seqOf[w] < n
        /\ n = 1 \/ \E w \in Writers : dir[w] \in {"control", "consumed"} /\ seqOf[w] = n - 1

ScanSeq(w) ==
    /\ wpc[w] = "idle"
    /\ Overlapping \/ \A v \in Writers : wpc[v] \in {"idle", "sent"}
    /\ seqOf' = [seqOf EXCEPT ![w] = NextSeq]
    /\ wpc' = [wpc EXCEPT ![w] = "open"]
    /\ UNCHANGED <<dir, full, up, apc, got, log, faultsLeft>>

\* O_CREATE|O_EXCL: on a collision the directories are read again
OpenExclusive(w) ==
    /\ wpc[w] = "open"
    /\ \/ /\ Pending(seqOf[w]) = {}
          /\ dir' = [dir EXCEPT ![w] = "control"]
          /\ wpc' = [wpc EXCEPT ![w] = "write"]
          /\ UNCHANGED seqOf
       \/ /\ Pending(seqOf[w]) # {}
          /\ seqOf' = [seqOf EXCEPT ![w] = NextSeq]
          /\ UNCHANGED <<dir, wpc>>
    /\ UNCHANGED <<full, up, apc, got, log, faultsLeft>>

\* the payload goes to the inode, wherever it has been renamed to by now
WritePayload(w) ==
    /\ wpc[w] = "write"
    /\ full' = [full EXCEPT ![w] = TRUE]
    /\ wpc' = [wpc EXCEPT ![w] = "sent"]
    /\ UNCHANGED <<seqOf, dir, up, apc, got, log, faultsLeft>>

-----------------------------------------------------------------------------
(* The await step.                                                         *)

\* the files an await may take: any for a plain one, those whose payload can
\* be read and satisfies the clause for a keyed one
Candidates(a) == {w \in Writers : /\ dir[w] = "control"
                                  /\ a \in Keyed => full[w] /\ w \in Accepted}

\* mutant of ScanAndRead: the first file in directory order is taken
ReadAnyCandidate(a) ==
    /\ apc[a] = "poll"
    /\ \E w \in Candidates(a) :
          got' = [got EXCEPT ![a] = [seq |-> seqOf[w], from |-> {w}, full |-> full[w]]]
    /\ Step(a, "claim")
    /\ UNCHANGED <<writers, dir, full, up, log, faultsLeft>>

\* tryConsume / tryConsumeMatching up to the read of the earliest candidate
ScanAndRead(a) ==
    /\ apc[a] = "poll"
    /\ \E w \in Candidates(a) :
          /\ \A v \in Candidates(a) : seqOf[w] <= seqOf[v]
          /\ got' = [got EXCEPT ![a] = [seq |-> seqOf[w], from |-> {w}, full |-> full[w]]]
    /\ Step(a, "claim")
    /\ UNCHANGED <<writers, dir, full, up, log, faultsLeft>>

\* mutant of Claim: a lost race for the file is not noticed
ClaimUnchecked(a) ==
    /\ apc[a] = "claim"
    /\ dir' = [w \in Writers |-> IF w \in Pending(got[a].seq) THEN "consumed" ELSE dir[w]]
    /\ Step(a, "got")
    /\ UNCHANGED <<writers, full, up, got, log, faultsLeft>>

\* mutant of Claim: after a lost race the rename is tried again, not the scan
ClaimRetriesRename(a) ==
    /\ apc[a] = "claim"
    /\ Pending(got[a].seq) # {}
    /\ dir' = [w \in Writers |->
                  IF w \in Pending(got[a].seq) THEN "consumed"
                  ELSE IF dir[w] = "consumed" /\ seqOf[w] = got[a].seq THEN "replaced"
                  ELSE dir[w]]
    /\ Step(a, "got")
    /\ UNCHANGED <<writers, full, up, got, log, faultsLeft>>

\* rename into consumed/: it moves the file that has the name now, replacing
\* one that had the name before; a missing source means another await took it
Claim(a) ==
    /\ apc[a] = "claim"
    /\ \/ /\ Pending(got[a].seq) # {}
          /\ dir' = [w \in Writers |->
                        IF w \in Pending(got[a].seq) THEN "consumed"
                        ELSE IF dir[w] = "consumed" /\ seqOf[w] = got[a].seq THEN "replaced"
                        ELSE dir[w]]
          /\ Step(a, "got")
          /\ UNCHANGED got
       \/ /\ Pending(got[a].seq) = {}
          /\ got' = [got EXCEPT ![a] = NoneGot]
          /\ Step(a, "poll")
          /\ UNCHANGED dir
    /\ UNCHANGED <<writers, full, up, log, faultsLeft>>

\* the payload that was read satisfies the output_schema, if there is one;
\* an empty file never does
Conforms(a) == a \in Typed => got[a].full /\ got[a].from \subseteq Valid

AppendReceived(a) ==
    /\ apc[a] = "got"
    /\ Conforms(a)
    /\ Journal("signal.received", a)
    /\ Step(a, "received")
    /\ UNCHANGED <<writers, dir, full, up, got, faultsLeft>>

RejectPayload(a) ==
    /\ apc[a] = "got"
    /\ ~Conforms(a)
    /\ Journal("node.failed", a)
    /\ Step(a, "failed")
    /\ UNCHANGED <<writers, dir, full, up, got, faultsLeft>>

AppendCompleted(a) ==
    /\ apc[a] = "received"
    /\ Journal("node.completed", a)
    /\ Step(a, "completed")
    /\ UNCHANGED <<writers, dir, full, up, got, faultsLeft>>

\* a branch that failed has cancelled the context its siblings wait under:
\* node.failed as for an interrupt
SiblingFailed(a) ==
    /\ apc[a] = "poll"
    /\ \E b \in Awaits : apc[b] = "failed"
    /\ Journal("node.failed", a)
    /\ Step(a, "failed")
    /\ UNCHANGED <<writers, dir, full, up, got, faultsLeft>>

\* the timeout elapses, or an interrupt cancels the context: node.failed
Timeout(a) ==
    /\ apc[a] = "poll"
    /\ faultsLeft > 0
    /\ faultsLeft' = faultsLeft - 1
    /\ Journal("node.failed", a)
    /\ Step(a, "failed")
    /\ UNCHANGED <<writers, dir, full, up, got>>

\* the context is cancelled by a pause or cancel request: nothing is journaled
StoppedByRequest(a) ==
    /\ apc[a] = "poll"
    /\ faultsLeft > 0
    /\ faultsLeft' = faultsLeft - 1
    /\ Step(a, "failed")
    /\ UNCHANGED <<writers, dir, full, up, got, log>>

-----------------------------------------------------------------------------
(* The driver.                                                             *)

Down ==
    /\ up' = FALSE
    /\ apc' = [a \in Awaits |-> "down"]
    /\ got' = [a \in Awaits |-> NoneGot]
    /\ UNCHANGED <<writers, dir, full, log>>

\* every branch has returned and at least one did not complete
Exit ==
    /\ up
    /\ \A a \in Awaits : apc[a] \in {"completed", "failed"}
    /\ \E a \in Awaits : apc[a] = "failed"
    /\ Down
    /\ UNCHANGED faultsLeft

Crash ==
    /\ up
    /\ faultsLeft > 0
    /\ faultsLeft' = faultsLeft - 1
    /\ Down

\* RunState.SignalReceivedAt[path]: the signal.received a fold finds for a
ReceivedAt(a) == LET i == CHOOSE i \in Logged("signal.received", a) : TRUE
                 IN  [seq |-> log[i].seq, from |-> log[i].from, full |-> log[i].full]

\* the run or its resume enters the await steps: a completed one is skipped,
\* one whose signal is journaled goes straight to node.completed
Resume ==
    /\ ~up
    /\ up' = TRUE
    /\ apc' = [a \in Awaits |-> IF Logged("node.completed", a) # {} THEN "completed"
                                ELSE IF Logged("signal.received", a) # {} THEN "received"
                                ELSE "poll"]
    /\ got' = [a \in Awaits |-> IF Logged("signal.received", a) # {} THEN ReceivedAt(a)
                                ELSE NoneGot]
    /\ UNCHANGED <<writers, dir, full, log, faultsLeft>>

-----------------------------------------------------------------------------
(* The specification.                                                      *)

Init ==
    /\ wpc = [w \in Writers |-> "idle"]
    /\ seqOf = [w \in Writers |-> 0]
    /\ dir = [w \in Writers |-> "none"]
    /\ full = [w \in Writers |-> FALSE]
    /\ up = FALSE
    /\ apc = [a \in Awaits |-> "down"]
    /\ got = [a \in Awaits |-> NoneGot]
    /\ log = <<>>
    /\ faultsLeft = MaxFaults

WriterStep(w) == ScanSeq(w) \/ OpenExclusive(w) \/ WritePayload(w)

AwaitStep(a) ==
    \/ ScanAndRead(a) \/ Claim(a) \/ AppendReceived(a) \/ RejectPayload(a)
    \/ AppendCompleted(a) \/ SiblingFailed(a)

Next ==
    \/ \E w \in Writers : WriterStep(w)
    \/ \E a \in Awaits : AwaitStep(a) \/ Timeout(a) \/ StoppedByRequest(a)
    \/ Exit \/ Crash \/ Resume

Spec == Init /\ [][Next]_vars

\* Processes and goroutines are scheduled; an operator resumes the run.
Fairness ==
    /\ \A w \in Writers : WF_vars(WriterStep(w))
    /\ \A a \in Awaits : WF_vars(AwaitStep(a))
    /\ WF_vars(Exit \/ Resume)

FairSpec == Spec /\ Fairness

-----------------------------------------------------------------------------
(* Properties.                                                             *)

\* Every variable has its type.
TypeOK ==
    /\ wpc \in [Writers -> {"idle", "open", "write", "sent"}]
    /\ seqOf \in [Writers -> 0 .. Cardinality(Writers) + 1]
    /\ dir \in [Writers -> {"none", "control", "consumed", "replaced"}]
    /\ full \in [Writers -> BOOLEAN]
    /\ up \in BOOLEAN
    /\ apc \in [Awaits -> {"down", "poll", "claim", "got", "received", "completed", "failed"}]
    /\ got \in [Awaits -> [seq : Nat, from : SUBSET Writers, full : BOOLEAN]]
    /\ log \in Seq(Record)
    /\ faultsLeft \in 0 .. MaxFaults

\* A signal is delivered at most once: whatever awaits race for it and
\* whatever crashes, no signal is in two signal.received records.
DeliveredOnce ==
    \A i, j \in 1 .. Len(log) :
        /\ log[i].type = "signal.received"
        /\ log[j].type = "signal.received"
        /\ log[i].from \cap log[j].from # {}
        => i = j

\* The half-commit check: an await journals one signal.received in its life,
\* and its node.completed carries the payload of that record, also when a
\* crash separated the two and other signals have arrived since.
CompletesWhatItReceived ==
    \A a \in Awaits :
        /\ \A i, j \in Logged("signal.received", a) : i = j
        /\ \A i \in Logged("node.completed", a) :
              \E j \in Logged("signal.received", a) :
                 j < i /\ log[j].from = log[i].from

\* A plain await takes the earliest signal: when it claims one, no signal of a
\* lower number is still waiting in the control directory.
EarliestFirst ==
    [][\A a \in Awaits \ Keyed :
          apc[a] = "claim" /\ apc'[a] = "got" =>
             \A w \in Writers : dir[w] = "control" => seqOf[w] >= got[a].seq]_vars

\* A where: clause protects the signals of others: a keyed await never
\* removes a signal that its clause does not accept.
KeyedLeavesOthers ==
    [][\A a \in Keyed :
          apc[a] = "claim" /\ apc'[a] = "got" =>
             \A w \in Writers : dir[w] # dir'[w] => w \in Accepted]_vars

\* No await sleeps through a signal: as long as the run is resumed, an await
\* that is not completed does not have one that it may take in front of it for
\* ever, whatever races it loses.
EventuallyServed == \A a \in Awaits : []<>(apc[a] = "completed" \/ Candidates(a) = {})

\* A signal is delivered to one await at most, over all crashes and resumes, and
\* an await completes with the signal its run recorded as received.
DeliveredExactlyOnce ==
    /\ TypeOK
    /\ DeliveredOnce
    /\ CompletesWhatItReceived

\* An await takes the earliest of the signals it may take, and a keyed one never
\* moves a signal of another key.
RightSignal ==
    /\ EarliestFirst
    /\ KeyedLeavesOthers
=============================================================================
